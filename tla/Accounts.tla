------------------------------- MODULE Accounts -------------------------------
(***************************************************************************)
(* The auth service over the hosted one it uses: sign-up with its rollback,*)
(* the upload of a photo, and the erasure of an account, asked for by the  *)
(* user or by the brain, as often as it takes.  Each call of the hosted    *)
(* service (its users, the profiles table, the photo bucket) is a step; it *)
(* may fail, or be done and its answer lost.                               *)
(***************************************************************************)
EXTENDS People

CONSTANTS
  Eligible,   \* applicants of age MIN_AGE in one of LAUNCH_STATES
  Uploads,    \* POST /profile/me/photo requests in flight at once
  Deletions,  \* erasures in flight at once
  MaxAuthFaults  \* bound: calls that fail, answers lost, crashes

ASSUME AccountAssumption ==
  /\ Eligible \subseteq Users
  /\ MaxAuthFaults \in Nat

VARIABLES
  logins,    \* auth.users
  profiles,  \* by user: "none", a row "plain", or a row with "photo_url"
  photos,    \* the bucket: users with a file
  signup,    \* by user: how far the sign-up is, or how it ended
  upload,    \* per upload: its user and what it has done, or NoUpload
  erasing,   \* per deletion: its user and its next step, or NoErasing
  erased,    \* users for whom some deletion returned without an error
  wiped,     \* history: a deletion has removed the photo
  overlapped, \* history: an upload was under way after that
  authFaults

authVars == <<logins, profiles, photos, signup, upload, erasing, erased, wiped, overlapped, authFaults>>

NoUpload  == [user |-> None, did |-> "none"]
NoErasing == [user |-> None, next |-> "none"]
Signing   == {"created", "rollback"}                    \* under way
Signed    == {"new", "member", "refused", "botched"}    \* not begun, or over

AccountInit ==
  /\ logins = {} /\ profiles = [u \in Users |-> "none"] /\ photos = {}
  /\ signup = [u \in Users |-> "new"]
  /\ upload = [r \in Uploads |-> NoUpload]
  /\ erasing = [d \in Deletions |-> NoErasing]
  /\ erased = {} /\ wiped = {} /\ overlapped = {}
  /\ authFaults = 0

AuthFault == authFaults < MaxAuthFaults /\ authFaults' = authFaults + 1

Uploading(u) == \E r \in Uploads : upload[r].user = u
Erasing(u)   == \E d \in Deletions : erasing[d].user = u

-------------------------------------------------------------------------------
(* signup.                                                                   *)

SignupStep(u, from, to) == signup[u] = from /\ signup' = [signup EXCEPT ![u] = to]

\* The gates, then sign_up with a live session.
CreateLogin(u) ==
  /\ u \in Eligible
  /\ SignupStep(u, "new", "created")
  /\ logins' = logins \cup {u}
  /\ UNCHANGED <<profiles, photos, upload, erasing, erased, wiped, overlapped, authFaults>>

\* sign_up raises although the user was created: there is nothing to roll back.
CreateUnanswered(u) ==
  /\ u \in Eligible /\ AuthFault
  /\ SignupStep(u, "new", "botched")
  /\ logins' = logins \cup {u}
  /\ UNCHANGED <<profiles, photos, upload, erasing, erased, wiped, overlapped>>

\* The profile row; its id references the login.
InsertProfile(u) ==
  /\ SignupStep(u, "created", "member")
  /\ profiles' = [profiles EXCEPT ![u] = "plain"]
  /\ UNCHANGED <<logins, photos, upload, erasing, erased, wiped, overlapped, authFaults>>

\* Mutant: the error is answered, and the login kept.
InsertFailsKept(u, done) ==
  /\ AuthFault
  /\ SignupStep(u, "created", "refused")
  /\ profiles' = IF done THEN [profiles EXCEPT ![u] = "plain"] ELSE profiles
  /\ UNCHANGED <<logins, photos, upload, erasing, erased, wiped, overlapped>>

\* The insert raises, done or not.
InsertFails(u, done) ==
  /\ AuthFault
  /\ SignupStep(u, "created", "rollback")
  /\ profiles' = IF done THEN [profiles EXCEPT ![u] = "plain"] ELSE profiles
  /\ UNCHANGED <<logins, photos, upload, erasing, erased, wiped, overlapped>>

\* delete_user of the hosted service: the row goes with the login.
DropLogin(u) ==
  /\ logins' = logins \ {u}
  /\ profiles' = [profiles EXCEPT ![u] = "none"]

Rollback(u) ==
  /\ SignupStep(u, "rollback", "refused")
  /\ DropLogin(u)
  /\ UNCHANGED <<photos, upload, erasing, erased, wiped, overlapped, authFaults>>

\* The rollback is best-effort; or the process dies in the middle of a sign-up.
RollbackFails(u) ==
  /\ signup[u] \in Signing /\ AuthFault
  /\ signup' = [signup EXCEPT ![u] = "botched"]
  /\ UNCHANGED <<logins, profiles, photos, upload, erasing, erased, wiped, overlapped>>

-------------------------------------------------------------------------------
(* upload_photo.                                                             *)

\* get_current_user: the token of a user that exists.
StartUpload(r, u) ==
  /\ upload[r] = NoUpload
  /\ u \in logins /\ signup[u] \notin Signing
  /\ upload' = [upload EXCEPT ![r] = [user |-> u, did |-> "check"]]
  /\ overlapped' = IF u \in wiped THEN overlapped \cup {u} ELSE overlapped
  /\ UNCHANGED <<logins, profiles, photos, signup, erasing, erased, wiped, authFaults>>

StorePhoto(r) ==
  /\ upload[r].did = "check"
  /\ photos' = photos \cup {upload[r].user}
  /\ upload' = [upload EXCEPT ![r].did = "store"]
  /\ UNCHANGED <<logins, profiles, signup, erasing, erased, wiped, overlapped, authFaults>>

\* The URL on the row; without a row the update changes nothing, and is no error.
SavePhotoUrl(r) ==
  /\ upload[r].did = "store"
  /\ LET u == upload[r].user
     IN  profiles' = IF profiles[u] = "none" THEN profiles ELSE [profiles EXCEPT ![u] = "photo_url"]
  /\ upload' = [upload EXCEPT ![r] = NoUpload]
  /\ UNCHANGED <<logins, photos, signup, erasing, erased, wiped, overlapped, authFaults>>

\* The upload or the update raises; the file may be there.
UploadFails(r, done) ==
  /\ upload[r] # NoUpload /\ AuthFault
  /\ photos' = IF done THEN photos \cup {upload[r].user} ELSE photos
  /\ upload' = [upload EXCEPT ![r] = NoUpload]
  /\ UNCHANGED <<logins, profiles, signup, erasing, erased, wiped, overlapped>>

-------------------------------------------------------------------------------
(* delete_account: photo, row, login.                                        *)

\* The user's own request, or the brain's for somebody it has known.
StartErasing(d, u) ==
  /\ erasing[d] = NoErasing
  /\ signup[u] \in {"member", "botched"}
  /\ erasing' = [erasing EXCEPT ![d] = [user |-> u, next |-> "photo"]]
  /\ UNCHANGED <<logins, profiles, photos, signup, upload, erased, wiped, overlapped, authFaults>>

\* Mutant: without a URL on the row there is no photo to remove.
ErasePhotoOfRow(d) ==
  /\ erasing[d].next = "photo"
  /\ LET u == erasing[d].user
     IN  /\ photos' = IF profiles[u] = "photo_url" THEN photos \ {u} ELSE photos
         /\ wiped' = wiped \cup {u}
         /\ overlapped' = IF Uploading(u) THEN overlapped \cup {u} ELSE overlapped \ {u}
  /\ erasing' = [erasing EXCEPT ![d].next = "row"]
  /\ UNCHANGED <<logins, profiles, signup, upload, erased, authFaults>>

\* delete_photo removes the file whether the row names it or not.
ErasePhoto(d) ==
  /\ erasing[d].next = "photo"
  /\ LET u == erasing[d].user
     IN  /\ photos' = photos \ {u}
         /\ wiped' = wiped \cup {u}
         /\ overlapped' = IF Uploading(u) THEN overlapped \cup {u} ELSE overlapped \ {u}
  /\ erasing' = [erasing EXCEPT ![d].next = "row"]
  /\ UNCHANGED <<logins, profiles, signup, upload, erased, authFaults>>

EraseProfile(d) ==
  /\ erasing[d].next = "row"
  /\ profiles' = [profiles EXCEPT ![erasing[d].user] = "none"]
  /\ erasing' = [erasing EXCEPT ![d].next = "login"]
  /\ UNCHANGED <<logins, photos, signup, upload, erased, wiped, overlapped, authFaults>>

EraseLogin(d) ==
  /\ erasing[d].next = "login"
  /\ DropLogin(erasing[d].user)
  /\ erased' = erased \cup {erasing[d].user}
  /\ erasing' = [erasing EXCEPT ![d] = NoErasing]
  /\ UNCHANGED <<photos, signup, upload, wiped, overlapped, authFaults>>

\* A step's call raises, before it did anything: the erasure is aborted, loudly,
\* and has to be asked for again.
StepFails(d) ==
  /\ erasing[d] # NoErasing /\ AuthFault
  /\ erasing' = [erasing EXCEPT ![d] = NoErasing]
  /\ UNCHANGED <<logins, profiles, photos, signup, upload, erased, wiped, overlapped>>

-------------------------------------------------------------------------------
AccountNext ==
  \/ \E u \in Users : \/ CreateLogin(u) \/ CreateUnanswered(u) \/ InsertProfile(u)
                      \/ Rollback(u) \/ RollbackFails(u)
                      \/ \E done \in BOOLEAN : InsertFails(u, done)
  \/ \E r \in Uploads : \/ \E u \in Users : StartUpload(r, u)
                        \/ StorePhoto(r) \/ SavePhotoUrl(r)
                        \/ \E done \in BOOLEAN : UploadFails(r, done)
  \/ \E d \in Deletions : \/ \E u \in Users : StartErasing(d, u)
                          \/ ErasePhoto(d) \/ EraseProfile(d) \/ EraseLogin(d) \/ StepFails(d)

AccountSpec == AccountInit /\ [][AccountNext]_authVars

-------------------------------------------------------------------------------
(* Properties.                                                               *)

AccountTypeOK ==
  /\ logins \subseteq Eligible
  /\ profiles \in [Users -> {"none", "plain", "photo_url"}]
  /\ photos \subseteq Users
  /\ signup \in [Users -> Signing \cup Signed]
  /\ upload \in [Uploads -> [user : Users, did : {"check", "store"}] \cup {NoUpload}]
  /\ erasing \in [Deletions -> [user : Users, next : {"photo", "row", "login"}] \cup {NoErasing}]
  /\ erased \subseteq Users /\ wiped \subseteq Users /\ overlapped \subseteq wiped
  /\ authFaults \in Nat

\* "so no orphan auth record survives": a login whose sign-up is over has a
\* profile, unless a deletion has begun or the sign-up broke off twice, in the
\* insert and in its rollback; and a refused sign-up leaves no login.
AccountHasProfile ==
  \A u \in logins :
    /\ signup[u] # "refused"
    /\ profiles[u] = "none" => signup[u] \in Signing \cup {"botched"} \/ u \in wiped

\* "Hard-erase everything for the user": after a deletion that returned, however
\* many failed before it, nothing is left in any of the three stores; a photo
\* only if its upload was under way while the deletion was.
ErasedAccountIsGone ==
  \A u \in erased :
    /\ u \notin logins /\ profiles[u] = "none"
    /\ u \in photos => u \in overlapped

\* Neither a sign-up nor a deletion leaves half an account behind.
AccountsAreWhole == AccountHasProfile /\ ErasedAccountIsGone
===============================================================================
