---------------------------- MODULE CommunityProofs ----------------------------
(***************************************************************************)
(* Around the introductions: the accounts, for every set of users, uploads *)
(* and deletions and any number of failures; the pass log and its digest,  *)
(* for any number of passes and units; and all parts together.             *)
(***************************************************************************)
EXTENDS Community, IntroductionsProofs, ScreeningProofs

-------------------------------------------------------------------------------
(* The accounts.                                                             *)

\* A deletion past the photo has wiped it, and is of an account that signed up;
\* so is one that is over, and it has done all its steps.
DeletionsInOrder ==
  /\ \A d \in Deletions : erasing[d] # NoErasing =>
       /\ signup[erasing[d].user] \in {"member", "botched"}
       /\ erasing[d].next \in {"row", "login"} => erasing[d].user \in wiped
  /\ \A u \in erased : u \in wiped /\ signup[u] \in {"member", "botched"}

\* Only an upload that overlapped a deletion leaves a file behind.
FilesAccounted ==
  \A u \in wiped : u \in photos \/ Uploading(u) => u \in overlapped

AccountInv ==
  /\ AccountTypeOK
  /\ AccountHasProfile
  /\ ErasedAccountIsGone
  /\ DeletionsInOrder
  /\ FilesAccounted

-------------------------------------------------------------------------------
\* A slot is never confused with an upload or a deletion.
LEMMA SlotsApart ==
  ASSUME AccountTypeOK
  PROVE  /\ \A r \in Uploads : upload[r] # NoUpload => /\ upload[r].user \in Users
                                                      /\ upload[r].did \in {"check", "store"}
         /\ \A d \in Deletions : erasing[d] # NoErasing => /\ erasing[d].user \in Users
                                                           /\ erasing[d].next \in {"photo", "row", "login"}
         /\ NoUpload.user \notin Users /\ NoUpload.did \notin {"check", "store"}
         /\ NoErasing.user \notin Users /\ NoErasing.next \notin {"photo", "row", "login"}
BY PeopleAssumption DEF AccountTypeOK, NoUpload, NoErasing

LEMMA InitAccounts == AccountInit => AccountInv
BY PeopleAssumption, AccountAssumption
DEF AccountInit, AccountInv, AccountTypeOK, AccountHasProfile, ErasedAccountIsGone,
    DeletionsInOrder, FilesAccounted, Uploading, Signing, Signed

\* The types.
LEMMA TypesKept == AccountTypeOK /\ [AccountNext]_authVars => AccountTypeOK'
<1>. SUFFICES ASSUME AccountTypeOK, [AccountNext]_authVars PROVE AccountTypeOK'
  OBVIOUS
<1>. USE SlotsApart, AccountAssumption DEF AccountTypeOK, Signing, Signed
<1>1. ASSUME NEW u \in Users, CreateLogin(u) \/ CreateUnanswered(u) \/ InsertProfile(u)
                             \/ Rollback(u) \/ RollbackFails(u)
      PROVE  AccountTypeOK'
  BY <1>1 DEF CreateLogin, CreateUnanswered, InsertProfile, Rollback, RollbackFails,
              SignupStep, DropLogin, AuthFault
<1>2. ASSUME NEW u \in Users, NEW done \in BOOLEAN, InsertFails(u, done) PROVE AccountTypeOK'
  BY <1>2 DEF InsertFails, SignupStep, AuthFault
<1>3. ASSUME NEW r \in Uploads, NEW u \in Users, StartUpload(r, u) PROVE AccountTypeOK'
  BY <1>3 DEF StartUpload
<1>4. ASSUME NEW r \in Uploads, StorePhoto(r) \/ SavePhotoUrl(r) PROVE AccountTypeOK'
  <2>1. upload[r] # NoUpload
    BY <1>4 DEF StorePhoto, SavePhotoUrl
  <2>. QED  BY <1>4, <2>1 DEF StorePhoto, SavePhotoUrl
<1>5. ASSUME NEW r \in Uploads, NEW done \in BOOLEAN, UploadFails(r, done) PROVE AccountTypeOK'
  BY <1>5 DEF UploadFails, AuthFault
<1>6. ASSUME NEW d \in Deletions, NEW u \in Users, StartErasing(d, u) PROVE AccountTypeOK'
  BY <1>6 DEF StartErasing
<1>7. ASSUME NEW d \in Deletions, ErasePhoto(d) PROVE AccountTypeOK'
  <2>1. erasing[d] # NoErasing
    BY <1>7 DEF ErasePhoto
  <2>. QED  BY <1>7, <2>1 DEF ErasePhoto
<1>8. ASSUME NEW d \in Deletions, EraseProfile(d) \/ EraseLogin(d) \/ StepFails(d) PROVE AccountTypeOK'
  <2>1. erasing[d] # NoErasing
    BY <1>8 DEF EraseProfile, EraseLogin, StepFails
  <2>. QED  BY <1>8, <2>1 DEF EraseProfile, EraseLogin, StepFails, DropLogin, AuthFault
<1>9. CASE UNCHANGED authVars
  BY <1>9 DEF authVars
<1>. QED  BY <1>1, <1>2, <1>3, <1>4, <1>5, <1>6, <1>7, <1>8, <1>9 DEF AccountNext

\* Deletions keep their order.
LEMMA OrderKept == AccountInv /\ [AccountNext]_authVars => DeletionsInOrder'
<1>. SUFFICES ASSUME AccountInv, [AccountNext]_authVars PROVE DeletionsInOrder'
  OBVIOUS
<1>. USE SlotsApart DEF AccountInv, AccountTypeOK, DeletionsInOrder, Signing, Signed
<1>1. ASSUME NEW u \in Users, CreateLogin(u) PROVE DeletionsInOrder'
  BY <1>1 DEF CreateLogin, SignupStep, DropLogin
<1>2. ASSUME NEW u \in Users, CreateUnanswered(u) PROVE DeletionsInOrder'
  BY <1>2 DEF CreateUnanswered, SignupStep, DropLogin
<1>3. ASSUME NEW u \in Users, InsertProfile(u) PROVE DeletionsInOrder'
  BY <1>3 DEF InsertProfile, SignupStep, DropLogin
<1>4. ASSUME NEW u \in Users, Rollback(u) PROVE DeletionsInOrder'
  BY <1>4 DEF Rollback, SignupStep, DropLogin
<1>5. ASSUME NEW u \in Users, RollbackFails(u) PROVE DeletionsInOrder'
  BY <1>5 DEF RollbackFails, SignupStep, DropLogin
<1>6. ASSUME NEW u \in Users, NEW done \in BOOLEAN, InsertFails(u, done) PROVE DeletionsInOrder'
  BY <1>6 DEF InsertFails, SignupStep, DropLogin
<1>7. ASSUME NEW r \in Uploads, NEW u \in Users, StartUpload(r, u) PROVE DeletionsInOrder'
  BY <1>7 DEF StartUpload, SignupStep, DropLogin
<1>8. ASSUME NEW r \in Uploads, StorePhoto(r) PROVE DeletionsInOrder'
  BY <1>8 DEF StorePhoto, SignupStep, DropLogin
<1>9. ASSUME NEW r \in Uploads, SavePhotoUrl(r) PROVE DeletionsInOrder'
  BY <1>9 DEF SavePhotoUrl, SignupStep, DropLogin
<1>10. ASSUME NEW r \in Uploads, NEW done \in BOOLEAN, UploadFails(r, done) PROVE DeletionsInOrder'
  BY <1>10 DEF UploadFails, SignupStep, DropLogin
<1>11. ASSUME NEW d \in Deletions, NEW u \in Users, StartErasing(d, u) PROVE DeletionsInOrder'
  BY <1>11 DEF StartErasing, SignupStep, DropLogin
<1>12. ASSUME NEW d \in Deletions, ErasePhoto(d) PROVE DeletionsInOrder'
  BY <1>12 DEF ErasePhoto, SignupStep, DropLogin
<1>13. ASSUME NEW d \in Deletions, EraseProfile(d) PROVE DeletionsInOrder'
  BY <1>13 DEF EraseProfile, SignupStep, DropLogin
<1>14. ASSUME NEW d \in Deletions, EraseLogin(d) PROVE DeletionsInOrder'
  BY <1>14 DEF EraseLogin, SignupStep, DropLogin
<1>15. ASSUME NEW d \in Deletions, StepFails(d) PROVE DeletionsInOrder'
  BY <1>15 DEF StepFails, SignupStep, DropLogin
<1>16. CASE UNCHANGED authVars
  BY <1>16 DEF authVars
<1>. HIDE DEF AccountInv, DeletionsInOrder
<1>. QED  BY <1>1, <1>2, <1>3, <1>4, <1>5, <1>6, <1>7, <1>8, <1>9, <1>10, <1>11, <1>12, <1>13, <1>14, <1>15, <1>16 DEF AccountNext

\* Files stay accounted for.
LEMMA FilesKept == AccountInv /\ [AccountNext]_authVars => FilesAccounted'
<1>. SUFFICES ASSUME AccountInv, [AccountNext]_authVars PROVE FilesAccounted'
  OBVIOUS
<1>. USE SlotsApart DEF AccountInv, AccountTypeOK, FilesAccounted, DeletionsInOrder, Uploading
<1>1. ASSUME NEW u \in Users, CreateLogin(u) PROVE FilesAccounted'
  BY <1>1 DEF CreateLogin, SignupStep, DropLogin
<1>2. ASSUME NEW u \in Users, CreateUnanswered(u) PROVE FilesAccounted'
  BY <1>2 DEF CreateUnanswered, SignupStep, DropLogin
<1>3. ASSUME NEW u \in Users, InsertProfile(u) PROVE FilesAccounted'
  BY <1>3 DEF InsertProfile, SignupStep, DropLogin
<1>4. ASSUME NEW u \in Users, Rollback(u) PROVE FilesAccounted'
  BY <1>4 DEF Rollback, SignupStep, DropLogin
<1>5. ASSUME NEW u \in Users, RollbackFails(u) PROVE FilesAccounted'
  BY <1>5 DEF RollbackFails, SignupStep, DropLogin
<1>6. ASSUME NEW u \in Users, NEW done \in BOOLEAN, InsertFails(u, done) PROVE FilesAccounted'
  BY <1>6 DEF InsertFails, SignupStep, DropLogin
<1>7. ASSUME NEW r \in Uploads, NEW u \in Users, StartUpload(r, u) PROVE FilesAccounted'
  BY <1>7 DEF StartUpload, SignupStep, DropLogin
<1>8. ASSUME NEW r \in Uploads, StorePhoto(r) PROVE FilesAccounted'
  BY <1>8 DEF StorePhoto, SignupStep, DropLogin
<1>9. ASSUME NEW r \in Uploads, SavePhotoUrl(r) PROVE FilesAccounted'
  BY <1>9 DEF SavePhotoUrl, SignupStep, DropLogin
<1>10. ASSUME NEW r \in Uploads, NEW done \in BOOLEAN, UploadFails(r, done) PROVE FilesAccounted'
  BY <1>10 DEF UploadFails, SignupStep, DropLogin
<1>11. ASSUME NEW d \in Deletions, NEW u \in Users, StartErasing(d, u) PROVE FilesAccounted'
  BY <1>11 DEF StartErasing, SignupStep, DropLogin
<1>12. ASSUME NEW d \in Deletions, ErasePhoto(d) PROVE FilesAccounted'
  BY <1>12 DEF ErasePhoto, SignupStep, DropLogin
<1>13. ASSUME NEW d \in Deletions, EraseProfile(d) PROVE FilesAccounted'
  BY <1>13 DEF EraseProfile, SignupStep, DropLogin
<1>14. ASSUME NEW d \in Deletions, EraseLogin(d) PROVE FilesAccounted'
  BY <1>14 DEF EraseLogin, SignupStep, DropLogin
<1>15. ASSUME NEW d \in Deletions, StepFails(d) PROVE FilesAccounted'
  BY <1>15 DEF StepFails, SignupStep, DropLogin
<1>16. CASE UNCHANGED authVars
  BY <1>16 DEF authVars
<1>. HIDE DEF AccountInv, FilesAccounted
<1>. QED  BY <1>1, <1>2, <1>3, <1>4, <1>5, <1>6, <1>7, <1>8, <1>9, <1>10, <1>11, <1>12, <1>13, <1>14, <1>15, <1>16 DEF AccountNext

\* A login keeps its profile.
LEMMA ProfilesKept == AccountInv /\ [AccountNext]_authVars => AccountHasProfile'
<1>. SUFFICES ASSUME AccountInv, [AccountNext]_authVars PROVE AccountHasProfile'
  OBVIOUS
<1>. USE SlotsApart DEF AccountInv, AccountTypeOK, AccountHasProfile, DeletionsInOrder, Signing, Signed
<1>1. ASSUME NEW u \in Users, CreateLogin(u) PROVE AccountHasProfile'
  BY <1>1 DEF CreateLogin, SignupStep, DropLogin
<1>2. ASSUME NEW u \in Users, CreateUnanswered(u) PROVE AccountHasProfile'
  BY <1>2 DEF CreateUnanswered, SignupStep, DropLogin
<1>3. ASSUME NEW u \in Users, InsertProfile(u) PROVE AccountHasProfile'
  BY <1>3 DEF InsertProfile, SignupStep, DropLogin
<1>4. ASSUME NEW u \in Users, Rollback(u) PROVE AccountHasProfile'
  BY <1>4 DEF Rollback, SignupStep, DropLogin
<1>5. ASSUME NEW u \in Users, RollbackFails(u) PROVE AccountHasProfile'
  BY <1>5 DEF RollbackFails, SignupStep, DropLogin
<1>6. ASSUME NEW u \in Users, NEW done \in BOOLEAN, InsertFails(u, done) PROVE AccountHasProfile'
  BY <1>6 DEF InsertFails, SignupStep, DropLogin
<1>7. ASSUME NEW r \in Uploads, NEW u \in Users, StartUpload(r, u) PROVE AccountHasProfile'
  BY <1>7 DEF StartUpload, SignupStep, DropLogin
<1>8. ASSUME NEW r \in Uploads, StorePhoto(r) PROVE AccountHasProfile'
  BY <1>8 DEF StorePhoto, SignupStep, DropLogin
<1>9. ASSUME NEW r \in Uploads, SavePhotoUrl(r) PROVE AccountHasProfile'
  BY <1>9 DEF SavePhotoUrl, SignupStep, DropLogin
<1>10. ASSUME NEW r \in Uploads, NEW done \in BOOLEAN, UploadFails(r, done) PROVE AccountHasProfile'
  BY <1>10 DEF UploadFails, SignupStep, DropLogin
<1>11. ASSUME NEW d \in Deletions, NEW u \in Users, StartErasing(d, u) PROVE AccountHasProfile'
  BY <1>11 DEF StartErasing, SignupStep, DropLogin
<1>12. ASSUME NEW d \in Deletions, ErasePhoto(d) PROVE AccountHasProfile'
  BY <1>12 DEF ErasePhoto, SignupStep, DropLogin
<1>13. ASSUME NEW d \in Deletions, EraseProfile(d) PROVE AccountHasProfile'
  BY <1>13 DEF EraseProfile, SignupStep, DropLogin
<1>14. ASSUME NEW d \in Deletions, EraseLogin(d) PROVE AccountHasProfile'
  BY <1>14 DEF EraseLogin, SignupStep, DropLogin
<1>15. ASSUME NEW d \in Deletions, StepFails(d) PROVE AccountHasProfile'
  BY <1>15 DEF StepFails, SignupStep, DropLogin
<1>16. CASE UNCHANGED authVars
  BY <1>16 DEF authVars
<1>. HIDE DEF AccountInv, AccountHasProfile
<1>. QED  BY <1>1, <1>2, <1>3, <1>4, <1>5, <1>6, <1>7, <1>8, <1>9, <1>10, <1>11, <1>12, <1>13, <1>14, <1>15, <1>16 DEF AccountNext

\* What is erased stays erased.
LEMMA ErasedKept == AccountInv /\ [AccountNext]_authVars => ErasedAccountIsGone'
<1>. SUFFICES ASSUME AccountInv, [AccountNext]_authVars PROVE ErasedAccountIsGone'
  OBVIOUS
<1>. USE SlotsApart DEF AccountInv, AccountTypeOK, ErasedAccountIsGone, DeletionsInOrder, FilesAccounted, Uploading, Signing, Signed
<1>1. ASSUME NEW u \in Users, CreateLogin(u) PROVE ErasedAccountIsGone'
  BY <1>1 DEF CreateLogin, SignupStep, DropLogin
<1>2. ASSUME NEW u \in Users, CreateUnanswered(u) PROVE ErasedAccountIsGone'
  BY <1>2 DEF CreateUnanswered, SignupStep, DropLogin
<1>3. ASSUME NEW u \in Users, InsertProfile(u) PROVE ErasedAccountIsGone'
  BY <1>3 DEF InsertProfile, SignupStep, DropLogin
<1>4. ASSUME NEW u \in Users, Rollback(u) PROVE ErasedAccountIsGone'
  BY <1>4 DEF Rollback, SignupStep, DropLogin
<1>5. ASSUME NEW u \in Users, RollbackFails(u) PROVE ErasedAccountIsGone'
  BY <1>5 DEF RollbackFails, SignupStep, DropLogin
<1>6. ASSUME NEW u \in Users, NEW done \in BOOLEAN, InsertFails(u, done) PROVE ErasedAccountIsGone'
  BY <1>6 DEF InsertFails, SignupStep, DropLogin
<1>7. ASSUME NEW r \in Uploads, NEW u \in Users, StartUpload(r, u) PROVE ErasedAccountIsGone'
  BY <1>7 DEF StartUpload, SignupStep, DropLogin
<1>8. ASSUME NEW r \in Uploads, StorePhoto(r) PROVE ErasedAccountIsGone'
  BY <1>8 DEF StorePhoto, SignupStep, DropLogin
<1>9. ASSUME NEW r \in Uploads, SavePhotoUrl(r) PROVE ErasedAccountIsGone'
  BY <1>9 DEF SavePhotoUrl, SignupStep, DropLogin
<1>10. ASSUME NEW r \in Uploads, NEW done \in BOOLEAN, UploadFails(r, done) PROVE ErasedAccountIsGone'
  BY <1>10 DEF UploadFails, SignupStep, DropLogin
<1>11. ASSUME NEW d \in Deletions, NEW u \in Users, StartErasing(d, u) PROVE ErasedAccountIsGone'
  BY <1>11 DEF StartErasing, SignupStep, DropLogin
<1>12. ASSUME NEW d \in Deletions, ErasePhoto(d) PROVE ErasedAccountIsGone'
  BY <1>12 DEF ErasePhoto, SignupStep, DropLogin
<1>13. ASSUME NEW d \in Deletions, EraseProfile(d) PROVE ErasedAccountIsGone'
  BY <1>13 DEF EraseProfile, SignupStep, DropLogin
<1>14. ASSUME NEW d \in Deletions, EraseLogin(d) PROVE ErasedAccountIsGone'
  BY <1>14 DEF EraseLogin, SignupStep, DropLogin
<1>15. ASSUME NEW d \in Deletions, StepFails(d) PROVE ErasedAccountIsGone'
  BY <1>15 DEF StepFails, SignupStep, DropLogin
<1>16. CASE UNCHANGED authVars
  BY <1>16 DEF authVars
<1>. HIDE DEF AccountInv, ErasedAccountIsGone
<1>. QED  BY <1>1, <1>2, <1>3, <1>4, <1>5, <1>6, <1>7, <1>8, <1>9, <1>10, <1>11, <1>12, <1>13, <1>14, <1>15, <1>16 DEF AccountNext

-------------------------------------------------------------------------------
LEMMA AccountsInvariant == AccountSpec => []AccountInv
<1>1. AccountInv /\ [AccountNext]_authVars => AccountInv'
  <2>. SUFFICES ASSUME AccountInv, [AccountNext]_authVars PROVE AccountInv'
    OBVIOUS
  <2>1. AccountTypeOK'
    BY TypesKept DEF AccountInv
  <2>2. DeletionsInOrder' /\ FilesAccounted' /\ AccountHasProfile' /\ ErasedAccountIsGone'
    BY OrderKept, FilesKept, ProfilesKept, ErasedKept
  <2>. QED  BY <2>1, <2>2 DEF AccountInv
<1>. QED  BY InitAccounts, <1>1, PTL DEF AccountSpec

\* Type correctness of the auth service's state.
THEOREM AccountTypes == AccountSpec => []AccountTypeOK
BY AccountsInvariant, PTL DEF AccountInv

\* However sign-ups, uploads and deletions interleave and fail, a login whose
\* sign-up is over has a profile or broke off twice, or is being deleted.
THEOREM NoOrphanLogin == AccountSpec => []AccountHasProfile
BY AccountsInvariant, PTL DEF AccountInv

\* After a deletion that returned, only a photo whose upload overlapped one is left.
THEOREM DeletionIsComplete == AccountSpec => []ErasedAccountIsGone
BY AccountsInvariant, PTL DEF AccountInv

\* Both at once.
THEOREM AccountsStayWhole == AccountSpec => []AccountsAreWhole
BY NoOrphanLogin, DeletionIsComplete, PTL DEF AccountsAreWhole

-------------------------------------------------------------------------------
(* The pass log.                                                             *)

\* Where a pass counts the failures of its units.
FailureField == [ingest |-> "failures", score |-> "failures", eval |-> "llm_failures",
                 surface |-> "brain_failures", cluster |-> "failures"]

\* What the counters c of pass n say of what happened to it, t.
Counted(n, c, t) ==
  /\ c \in [Reported[n] -> Nat] /\ t \in [units : Nat, failed : Nat]
  /\ c[FailureField[n]] <= t.failed /\ t.failed <= t.units
  /\ n \in CountsFailures => c[FailureField[n]] = t.failed /\ c["users_processed"] = t.units
  /\ n = "eval" => c[FailureField[n]] = t.failed /\ c["pairs_evaluated"] + t.failed <= t.units

\* A row repeats the counters and the failures among them.
PassRow ==
  {r \in [pass_name : PassNames, fields : UNION {[Reported[n] -> Nat] : n \in PassNames},
          failures : Nat, truth : [units : Nat, failed : Nat]] :
     Counted(r.pass_name, r.fields, r.truth) /\ r.failures = r.fields[FailureField[r.pass_name]]}

PassLogInv ==
  /\ running \in PassNames \cup {"none"}
  /\ running # "none" => Counted(running, tally, truth)
  /\ pass_runs \in Seq(PassRow)

\* One failure field per pass, of those that are added up.
LEMMA FailureFields ==
  ASSUME NEW n \in PassNames
  PROVE  /\ FailureField[n] \in Reported[n] /\ Reported[n] \cap FailureKeys = {FailureField[n]}
         /\ n \in CountsFailures => "users_processed" \in Reported[n] /\ "users_processed" # FailureField[n]
         /\ n = "eval" => "pairs_evaluated" \in Reported[n] /\ "pairs_evaluated" # FailureField[n]
<1>1. n \in {"ingest", "score", "eval", "surface", "cluster"}
  BY DEF PassNames, Reported
<1>2. CASE n = "ingest"
  BY <1>2 DEF FailureField, Reported, FailureKeys, CountsFailures
<1>3. CASE n = "score"
  BY <1>3 DEF FailureField, Reported, FailureKeys, CountsFailures
<1>4. CASE n = "eval"
  BY <1>4 DEF FailureField, Reported, FailureKeys, CountsFailures
<1>5. CASE n = "surface"
  BY <1>5 DEF FailureField, Reported, FailureKeys, CountsFailures
<1>6. CASE n = "cluster"
  BY <1>6 DEF FailureField, Reported, FailureKeys, CountsFailures
<1>. QED  BY <1>1, <1>2, <1>3, <1>4, <1>5, <1>6

\* The fields that go up with a unit of pass n, as its counters stay right.
Fits(n, up, fails) ==
  /\ FailureField[n] \in up => fails
  /\ n \in CountsFailures => "users_processed" \in up /\ (fails => FailureField[n] \in up)
  /\ n = "eval" => (fails => FailureField[n] \in up) /\ ("pairs_evaluated" \in up => ~fails)

LEMMA UnitKeeps ==
  ASSUME PassLogInv, NEW n \in PassNames, NEW up, NEW fails \in BOOLEAN, Unit(n, up, fails), Fits(n, up, fails)
  PROVE  PassLogInv'
<1>1. /\ running = n /\ running' = n /\ pass_runs' = pass_runs
      /\ tally' = [f \in DOMAIN tally |-> IF f \in up THEN tally[f] + 1 ELSE tally[f]]
      /\ truth' = [units |-> truth.units + 1, failed |-> truth.failed + (IF fails THEN 1 ELSE 0)]
  BY DEF Unit
<1>2. n # "none"
  BY DEF PassNames, Reported
<1>3. Counted(n, tally, truth)
  BY <1>1, <1>2 DEF PassLogInv
<1>. DEFINE F == FailureField[n]
<1>4. /\ F \in Reported[n]
      /\ n \in CountsFailures => "users_processed" \in Reported[n]
      /\ n = "eval" => "pairs_evaluated" \in Reported[n]
  BY FailureFields
<1>5. \A f \in Reported[n] : tally[f] \in Nat /\ tally'[f] = IF f \in up THEN tally[f] + 1 ELSE tally[f]
  BY <1>1, <1>3 DEF Counted
<1>6. /\ tally' \in [Reported[n] -> Nat] /\ truth'.units = truth.units + 1
      /\ truth'.failed = truth.failed + (IF fails THEN 1 ELSE 0)
      /\ truth.units \in Nat /\ truth.failed \in Nat /\ truth' \in [units : Nat, failed : Nat]
  BY <1>1, <1>3, <1>5 DEF Counted
<1>7. /\ tally[F] <= truth.failed /\ truth.failed <= truth.units
      /\ n \in CountsFailures => tally[F] = truth.failed /\ tally["users_processed"] = truth.units
      /\ n = "eval" => tally[F] = truth.failed /\ tally["pairs_evaluated"] + truth.failed <= truth.units
  BY <1>3 DEF Counted
<1>8. /\ F \in up => fails
      /\ n \in CountsFailures => "users_processed" \in up /\ (fails => F \in up)
      /\ n = "eval" => (fails => F \in up) /\ ("pairs_evaluated" \in up => ~fails)
  BY DEF Fits
<1>. HIDE DEF F
<1>9. tally'[F] <= truth'.failed /\ truth'.failed <= truth'.units
  BY <1>4, <1>5, <1>6, <1>7, <1>8
<1>10. n \in CountsFailures => tally'[F] = truth'.failed /\ tally'["users_processed"] = truth'.units
  BY <1>4, <1>5, <1>6, <1>7, <1>8
<1>11. n = "eval" => tally'[F] = truth'.failed /\ tally'["pairs_evaluated"] + truth'.failed <= truth'.units
  BY <1>4, <1>5, <1>6, <1>7, <1>8
<1>12. Counted(n, tally', truth')
  BY <1>6, <1>9, <1>10, <1>11 DEF Counted, F
<1>. QED  BY <1>1, <1>12 DEF PassLogInv

LEMMA UnitsFit ==
  ASSUME PassLogInv, NEW fails \in BOOLEAN,
         IngestUser(fails) \/ ScoredUser(fails) \/ EvalUnit(fails) \/ SurfaceUnit(fails) \/ ClusterUnit(fails)
  PROVE  PassLogInv'
<1>0. {"ingest", "score", "eval", "surface", "cluster"} \subseteq PassNames
  BY DEF PassNames, Reported
<1>1. CASE IngestUser(fails)
  <2>. DEFINE up == {"users_processed"} \cup (IF fails THEN {"failures"} ELSE {})
  <2>1. Unit("ingest", up, fails) /\ Fits("ingest", up, fails)
    BY <1>1 DEF IngestUser, Fits, FailureField, CountsFailures
  <2>. HIDE DEF up
  <2>. QED  BY <1>0, <2>1, UnitKeeps
<1>2. CASE ScoredUser(fails)
  <2>. DEFINE up == {"users_processed"} \cup (IF fails THEN {"failures"} ELSE {})
  <2>1. Unit("score", up, fails) /\ Fits("score", up, fails)
    BY <1>2 DEF ScoredUser, Fits, FailureField, CountsFailures
  <2>. HIDE DEF up
  <2>. QED  BY <1>0, <2>1, UnitKeeps
<1>3. CASE EvalUnit(fails)
  <2>1. PICK up \in IF fails THEN {{"llm_failures"}}
                     ELSE {{"pairs_evaluated"}, {"pairs_evaluated", "flagged_for_review"}, {}} :
          Unit("eval", up, fails)
    BY <1>3 DEF EvalUnit
  <2>2. Fits("eval", up, fails)
    <3>1. CASE fails
      <4>1. up = {"llm_failures"}
        BY <3>1
      <4>. QED  BY <3>1, <4>1 DEF Fits, FailureField, CountsFailures
    <3>2. CASE ~fails
      <4>1. "llm_failures" \notin up
        BY <3>2
      <4>. QED  BY <3>2, <4>1 DEF Fits, FailureField, CountsFailures
    <3>. QED  BY <3>1, <3>2
  <2>. QED  BY <1>0, <2>1, <2>2, UnitKeeps
<1>4. CASE SurfaceUnit(fails)
  <2>1. PICK up \in IF fails THEN {{}, {"brain_failures"}} ELSE {{"checkins_queued"}} :
          Unit("surface", up, fails)
    BY <1>4 DEF SurfaceUnit
  <2>2. Fits("surface", up, fails)
    BY <2>1 DEF Fits, FailureField, CountsFailures
  <2>. QED  BY <1>0, <2>1, <2>2, UnitKeeps
<1>5. CASE ClusterUnit(fails)
  <2>1. PICK up \in IF fails THEN {{"failures"}} ELSE {{"groups_proposed"}, {"groups_surfaced"}, {}} :
          Unit("cluster", up, fails)
    BY <1>5 DEF ClusterUnit
  <2>2. Fits("cluster", up, fails)
    BY <2>1 DEF Fits, FailureField, CountsFailures
  <2>. QED  BY <1>0, <2>1, <2>2, UnitKeeps
<1>. QED  BY <1>1, <1>2, <1>3, <1>4, <1>5

\* The sum of a counter is what it is added up from.
LEMMA SumOfField ==
  ASSUME NEW S, IsFiniteSet(S), NEW c, \A f \in S : c[f] \in Nat
  PROVE  MapThenSumSet(LAMBDA f : c[f], S) = SumOver(c, S)
<1>1. PICK it : SumTable(it, c, S) /\ it[S] = SumOver(c, S) /\ \A jt : SumTable(jt, c, S) => jt = it
  BY SumTables
<1>2. \A jt : SumTable(jt, c, S) <=>
        jt = [s \in SUBSET S |-> IF s = {} THEN 0 ELSE c[Pick(s)] + jt[s \ {Pick(s)}]]
  BY DEF SumTable
<1>3. (CHOOSE jt : jt = [s \in SUBSET S |-> IF s = {} THEN 0 ELSE c[Pick(s)] + jt[s \ {Pick(s)}]]) = it
  BY <1>1, <1>2
<1>4. MapThenSumSet(LAMBDA f : c[f], S) = it[S]
  BY <1>3 DEF MapThenSumSet, MapThenFoldSet, Pick
<1>. QED  BY <1>1, <1>4

LEMMA CountOfPass ==
  ASSUME NEW n \in PassNames, NEW c, c \in [Reported[n] -> Nat]
  PROVE  FailureCount(c) = c[FailureField[n]]
<1>. DEFINE S == DOMAIN c \cap FailureKeys
            F == FailureField[n]
<1>1. S = {F} /\ F \in Reported[n]
  BY FailureFields
<1>2. c[F] \in Nat
  BY <1>1
<1>. HIDE DEF F
<1>3. SumOver(c, {F}) = c[F]
  BY <1>2, SumOfOne
<1>4. IsFiniteSet({F}) /\ \A f \in {F} : c[f] \in Nat
  BY <1>2, FS_Singleton
<1>5. FailureCount(c) = MapThenSumSet(LAMBDA f : c[f], S)
  BY DEF FailureCount, MapThenSumSet, MapThenFoldSet
<1>. HIDE DEF S
<1>6. IsFiniteSet(S) /\ \A f \in S : c[f] \in Nat
  BY <1>1, <1>4
<1>7. MapThenSumSet(LAMBDA f : c[f], S) = SumOver(c, S)
  BY <1>6, SumOfField
<1>8. SumOver(c, S) = c[F]
  BY <1>1, <1>3
<1>9. FailureCount(c) = SumOver(c, S)
  BY <1>5, <1>7 DEF MapThenSumSet, MapThenFoldSet
<1>. QED  BY <1>8, <1>9 DEF F

LEMMA PassLogStarts == PassLogInit => PassLogInv
BY DEF PassLogInit, PassLogInv

LEMMA PassLogSteps == PassLogInv /\ [PassLogNext]_passLogVars => PassLogInv'
<1>. SUFFICES ASSUME PassLogInv, [PassLogNext]_passLogVars PROVE PassLogInv'
  OBVIOUS
<1>1. ASSUME NEW n \in PassNames, BeginRun(n) PROVE PassLogInv'
  <2>1. /\ running' = n /\ tally' = [f \in Reported[n] |-> 0]
        /\ truth' = [units |-> 0, failed |-> 0] /\ pass_runs' = pass_runs
    BY <1>1 DEF BeginRun
  <2>2. /\ FailureField[n] \in Reported[n]
        /\ n \in CountsFailures => "users_processed" \in Reported[n]
        /\ n = "eval" => "pairs_evaluated" \in Reported[n]
    BY FailureFields
  <2>3. Counted(n, tally', truth')
    BY <2>1, <2>2 DEF Counted
  <2>. QED  BY <2>1, <2>3 DEF PassLogInv
<1>2. ASSUME NEW fails \in BOOLEAN,
             IngestUser(fails) \/ ScoredUser(fails) \/ EvalUnit(fails) \/ SurfaceUnit(fails) \/ ClusterUnit(fails)
      PROVE  PassLogInv'
  BY <1>2, UnitsFit
<1>3. CASE EmitSummary
  <2>. DEFINE r == [pass_name |-> running, fields |-> tally, failures |-> FailureCount(tally), truth |-> truth]
  <2>1. running \in PassNames /\ Counted(running, tally, truth)
    BY <1>3 DEF EmitSummary, PassLogInv
  <2>2. tally \in [Reported[running] -> Nat] /\ truth \in [units : Nat, failed : Nat]
    BY <2>1 DEF Counted
  <2>3. FailureCount(tally) = tally[FailureField[running]] /\ tally[FailureField[running]] \in Nat
    BY <2>1, <2>2, CountOfPass, FailureFields
  <2>4. r \in PassRow
    <3>1. /\ r.pass_name = running /\ r.fields = tally /\ r.truth = truth
          /\ r.failures = tally[FailureField[running]]
      BY <2>3
    <3>2. r \in [pass_name : PassNames, fields : UNION {[Reported[n] -> Nat] : n \in PassNames},
                 failures : Nat, truth : [units : Nat, failed : Nat]]
      BY <2>1, <2>2, <2>3
    <3>. HIDE DEF r
    <3>. QED  BY <2>1, <3>1, <3>2 DEF PassRow
  <2>5. pass_runs' = Append(pass_runs, r) /\ running' = "none"
    BY <1>3 DEF EmitSummary, RunOver
  <2>. HIDE DEF r
  <2>. QED  BY <2>4, <2>5 DEF PassLogInv
<1>4. CASE SummaryLost
  BY <1>4 DEF SummaryLost, RunOver, PassLogInv
<1>5. CASE RowAges
  BY <1>5 DEF RowAges, PassLogInv
<1>6. CASE UNCHANGED passLogVars
  BY <1>6 DEF passLogVars, PassLogInv
<1>. QED  BY <1>1, <1>2, <1>3, <1>4, <1>5, <1>6 DEF PassLogNext

\* The counters of a pass's failures are those that happened, as far as it counts
\* them, for any number of passes and units.
THEOREM PassLogHolds == PassLogSpec => []PassLogInv
BY PassLogStarts, PassLogSteps, PTL DEF PassLogSpec

\* Of a row of pass n.
RowFacts(i, n) ==
  LET r == pass_runs[i]
  IN  /\ r.failures \in Nat /\ r.truth.failed \in Nat /\ r.truth.units \in Nat
      /\ r.failures <= r.truth.failed
      /\ n \in DOMAIN WorkField => r.fields[WorkField[n]] \in Nat
      /\ n \in CountsFailures => /\ r.failures = r.truth.failed /\ r.truth.failed <= r.truth.units
                                 /\ r.fields[WorkField[n]] = r.truth.units
      /\ n = "eval" => r.failures = r.truth.failed /\ r.fields[WorkField[n]] + r.failures <= r.truth.units

LEMMA RowsTold ==
  ASSUME PassLogInv, NEW n \in PassNames
  PROVE  IsFiniteSet(RowsOf(n)) /\ \A i \in RowsOf(n) : RowFacts(i, n)
<1>1. pass_runs \in Seq(PassRow)
  BY DEF PassLogInv
<1>2. Len(pass_runs) \in Nat /\ RowsOf(n) \subseteq 1 .. Len(pass_runs)
  BY <1>1 DEF RowsOf
<1>3. IsFiniteSet(RowsOf(n))
  <2>1. IsFiniteSet(1 .. Len(pass_runs))
    BY <1>2, LastPicks
  <2>. QED  BY <1>2, <2>1, FS_Subset
<1>4. ASSUME NEW i \in RowsOf(n) PROVE RowFacts(i, n)
  <2>. DEFINE r == pass_runs[i]
  <2>1. r \in PassRow /\ r.pass_name = n
    BY <1>1 DEF RowsOf
  <2>2. /\ r.failures \in Nat /\ Counted(n, r.fields, r.truth)
        /\ r.failures = r.fields[FailureField[n]]
    BY <2>1 DEF PassRow
  <2>3. /\ n \in DOMAIN WorkField => WorkField[n] \in Reported[n]
        /\ n \in CountsFailures => WorkField[n] = "users_processed"
        /\ n = "eval" => WorkField[n] = "pairs_evaluated"
    <3>1. n \in {"ingest", "score", "eval", "surface", "cluster"}
      BY DEF PassNames, Reported
    <3>. QED  BY <3>1 DEF WorkField, Reported, CountsFailures
  <2>. HIDE DEF r
  <2>4. r.fields \in [Reported[n] -> Nat] /\ r.truth \in [units : Nat, failed : Nat]
    BY <2>2 DEF Counted
  <2>5. n \in DOMAIN WorkField => r.fields[WorkField[n]] \in Nat
    BY <2>3, <2>4
  <2>6. /\ r.truth.failed \in Nat /\ r.truth.units \in Nat
        /\ r.failures <= r.truth.failed
        /\ n \in CountsFailures => /\ r.failures = r.truth.failed /\ r.truth.failed <= r.truth.units
                                   /\ r.fields[WorkField[n]] = r.truth.units
        /\ n = "eval" => r.failures = r.truth.failed /\ r.fields[WorkField[n]] + r.failures <= r.truth.units
    BY <2>2, <2>3, <2>4 DEF Counted
  <2>. QED  BY <2>2, <2>5, <2>6 DEF RowFacts, r
<1>. QED  BY <1>3, <1>4

\* The four sums.
LEMMA FailuresSum ==
  ASSUME NEW n, IsFiniteSet(RowsOf(n)), \A i \in RowsOf(n) : pass_runs[i].failures \in Nat
  PROVE  Failures(n) = SumOver([i \in RowsOf(n) |-> pass_runs[i].failures], RowsOf(n))
<1>. DEFINE S == RowsOf(n)
            c == [i \in S |-> pass_runs[i].failures]
<1>1. \A i \in S : c[i] \in Nat
  OBVIOUS
<1>2. PICK it : SumTable(it, c, S) /\ it[S] = SumOver(c, S) /\ \A jt : SumTable(jt, c, S) => jt = it
  <2>. HIDE DEF c, S
  <2>. IsFiniteSet(S)
    BY DEF S
  <2>. QED  BY <1>1, SumTables
<1>3. \A jt : SumTable(jt, c, S) <=>
        jt = [s \in SUBSET S |-> IF s = {} THEN 0 ELSE pass_runs[Pick(s)].failures + jt[s \ {Pick(s)}]]
  <2>1. \A s \in SUBSET S : s # {} => c[Pick(s)] = pass_runs[Pick(s)].failures
    BY PickFacts
  <2>. HIDE DEF c, S
  <2>. QED  BY <2>1 DEF SumTable
<1>. HIDE DEF c
<1>4. (CHOOSE jt : jt = [s \in SUBSET S |-> IF s = {} THEN 0 ELSE pass_runs[Pick(s)].failures + jt[s \ {Pick(s)}]]) = it
  BY <1>2, <1>3
<1>5. Failures(n) = it[S]
  BY <1>4 DEF Failures, Total, MapThenSumSet, MapThenFoldSet, Pick
<1>. QED  BY <1>2, <1>5 DEF c

LEMMA WorkSum ==
  ASSUME NEW n, IsFiniteSet(RowsOf(n)), \A i \in RowsOf(n) : pass_runs[i].fields[WorkField[n]] \in Nat
  PROVE  Work(n) = SumOver([i \in RowsOf(n) |-> pass_runs[i].fields[WorkField[n]]], RowsOf(n))
<1>. DEFINE S == RowsOf(n)
            c == [i \in S |-> pass_runs[i].fields[WorkField[n]]]
<1>1. \A i \in S : c[i] \in Nat
  OBVIOUS
<1>2. PICK it : SumTable(it, c, S) /\ it[S] = SumOver(c, S) /\ \A jt : SumTable(jt, c, S) => jt = it
  <2>. HIDE DEF c, S
  <2>. IsFiniteSet(S)
    BY DEF S
  <2>. QED  BY <1>1, SumTables
<1>3. \A jt : SumTable(jt, c, S) <=>
        jt = [s \in SUBSET S |-> IF s = {} THEN 0 ELSE pass_runs[Pick(s)].fields[WorkField[n]] + jt[s \ {Pick(s)}]]
  <2>1. \A s \in SUBSET S : s # {} => c[Pick(s)] = pass_runs[Pick(s)].fields[WorkField[n]]
    BY PickFacts
  <2>. HIDE DEF c, S
  <2>. QED  BY <2>1 DEF SumTable
<1>. HIDE DEF c
<1>4. (CHOOSE jt : jt = [s \in SUBSET S |-> IF s = {} THEN 0 ELSE pass_runs[Pick(s)].fields[WorkField[n]] + jt[s \ {Pick(s)}]]) = it
  BY <1>2, <1>3
<1>5. Work(n) = it[S]
  BY <1>4 DEF Work, Total, MapThenSumSet, MapThenFoldSet, Pick
<1>. QED  BY <1>2, <1>5 DEF c

LEMMA TrueFailedSum ==
  ASSUME NEW n, IsFiniteSet(RowsOf(n)), \A i \in RowsOf(n) : pass_runs[i].truth.failed \in Nat
  PROVE  TrueFailed(n) = SumOver([i \in RowsOf(n) |-> pass_runs[i].truth.failed], RowsOf(n))
<1>. DEFINE S == RowsOf(n)
            c == [i \in S |-> pass_runs[i].truth.failed]
<1>1. \A i \in S : c[i] \in Nat
  OBVIOUS
<1>2. PICK it : SumTable(it, c, S) /\ it[S] = SumOver(c, S) /\ \A jt : SumTable(jt, c, S) => jt = it
  <2>. HIDE DEF c, S
  <2>. IsFiniteSet(S)
    BY DEF S
  <2>. QED  BY <1>1, SumTables
<1>3. \A jt : SumTable(jt, c, S) <=>
        jt = [s \in SUBSET S |-> IF s = {} THEN 0 ELSE pass_runs[Pick(s)].truth.failed + jt[s \ {Pick(s)}]]
  <2>1. \A s \in SUBSET S : s # {} => c[Pick(s)] = pass_runs[Pick(s)].truth.failed
    BY PickFacts
  <2>. HIDE DEF c, S
  <2>. QED  BY <2>1 DEF SumTable
<1>. HIDE DEF c
<1>4. (CHOOSE jt : jt = [s \in SUBSET S |-> IF s = {} THEN 0 ELSE pass_runs[Pick(s)].truth.failed + jt[s \ {Pick(s)}]]) = it
  BY <1>2, <1>3
<1>5. TrueFailed(n) = it[S]
  BY <1>4 DEF TrueFailed, Total, MapThenSumSet, MapThenFoldSet, Pick
<1>. QED  BY <1>2, <1>5 DEF c

LEMMA TrueUnitsSum ==
  ASSUME NEW n, IsFiniteSet(RowsOf(n)), \A i \in RowsOf(n) : pass_runs[i].truth.units \in Nat
  PROVE  TrueUnits(n) = SumOver([i \in RowsOf(n) |-> pass_runs[i].truth.units], RowsOf(n))
<1>. DEFINE S == RowsOf(n)
            c == [i \in S |-> pass_runs[i].truth.units]
<1>1. \A i \in S : c[i] \in Nat
  OBVIOUS
<1>2. PICK it : SumTable(it, c, S) /\ it[S] = SumOver(c, S) /\ \A jt : SumTable(jt, c, S) => jt = it
  <2>. HIDE DEF c, S
  <2>. IsFiniteSet(S)
    BY DEF S
  <2>. QED  BY <1>1, SumTables
<1>3. \A jt : SumTable(jt, c, S) <=>
        jt = [s \in SUBSET S |-> IF s = {} THEN 0 ELSE pass_runs[Pick(s)].truth.units + jt[s \ {Pick(s)}]]
  <2>1. \A s \in SUBSET S : s # {} => c[Pick(s)] = pass_runs[Pick(s)].truth.units
    BY PickFacts
  <2>. HIDE DEF c, S
  <2>. QED  BY <2>1 DEF SumTable
<1>. HIDE DEF c
<1>4. (CHOOSE jt : jt = [s \in SUBSET S |-> IF s = {} THEN 0 ELSE pass_runs[Pick(s)].truth.units + jt[s \ {Pick(s)}]]) = it
  BY <1>2, <1>3
<1>5. TrueUnits(n) = it[S]
  BY <1>4 DEF TrueUnits, Total, MapThenSumSet, MapThenFoldSet, Pick
<1>. QED  BY <1>2, <1>5 DEF c

\* The digest of one pass, from its rows.
LEMMA DigestOfPass ==
  ASSUME PassLogInv, NEW n \in PassNames
  PROVE  /\ Failures(n) \in Nat /\ TrueFailed(n) \in Nat /\ TrueUnits(n) \in Nat
         /\ Failures(n) <= TrueFailed(n)
         /\ n \in DOMAIN WorkField => Work(n) \in Nat
         /\ n \in CountsFailures => /\ Failures(n) = TrueFailed(n) /\ Failures(n) <= Work(n)
                                    /\ Work(n) = TrueUnits(n)
         /\ n = "eval" => Failures(n) = TrueFailed(n) /\ Work(n) + Failures(n) <= TrueUnits(n)
<1>. DEFINE S == RowsOf(n)
            a == [i \in S |-> pass_runs[i].failures]
            b == [i \in S |-> pass_runs[i].truth.failed]
            c == [i \in S |-> pass_runs[i].truth.units]
            w == [i \in S |-> pass_runs[i].fields[WorkField[n]]]
            t == [i \in S |-> w[i] + a[i]]
<1>1. IsFiniteSet(S) /\ \A i \in S : RowFacts(i, n)
  BY RowsTold
<1>2. \A i \in S : /\ a[i] = pass_runs[i].failures /\ b[i] = pass_runs[i].truth.failed
                   /\ c[i] = pass_runs[i].truth.units /\ w[i] = pass_runs[i].fields[WorkField[n]]
                   /\ t[i] = w[i] + a[i]
  OBVIOUS
<1>3. Failures(n) = SumOver(a, S) /\ TrueFailed(n) = SumOver(b, S) /\ TrueUnits(n) = SumOver(c, S)
  BY <1>1, FailuresSum, TrueFailedSum, TrueUnitsSum DEF RowFacts
<1>4. n \in DOMAIN WorkField => Work(n) = SumOver(w, S)
  BY <1>1, WorkSum DEF RowFacts
<1>. HIDE DEF S, a, b, c, w, t
<1>5. (\A i \in S : a[i] \in Nat) /\ (\A i \in S : b[i] \in Nat) /\ (\A i \in S : c[i] \in Nat)
  BY <1>1, <1>2 DEF RowFacts
<1>6. SumOver(a, S) \in Nat /\ SumOver(b, S) \in Nat /\ SumOver(c, S) \in Nat
  BY <1>1, <1>5, SumType
<1>7. SumOver(a, S) <= SumOver(b, S)
  <2>1. \A i \in S : a[i] \in Nat /\ b[i] \in Nat /\ a[i] <= b[i]
    BY <1>1, <1>2 DEF RowFacts
  <2>. QED  BY <1>1, <2>1, SumMonotone
<1>8. n \in DOMAIN WorkField => SumOver(w, S) \in Nat
  <2>. SUFFICES ASSUME n \in DOMAIN WorkField PROVE SumOver(w, S) \in Nat
    OBVIOUS
  <2>1. \A i \in S : w[i] \in Nat
    BY <1>1, <1>2 DEF RowFacts
  <2>. QED  BY <1>1, <2>1, SumType
<1>9. ASSUME n \in CountsFailures
      PROVE  SumOver(a, S) = SumOver(b, S) /\ SumOver(a, S) <= SumOver(w, S) /\ SumOver(w, S) = SumOver(c, S)
  <2>0. n \in DOMAIN WorkField
    BY <1>9 DEF CountsFailures, WorkField
  <2>1. \A i \in S : /\ a[i] \in Nat /\ a[i] = b[i] /\ w[i] \in Nat /\ w[i] = c[i] /\ a[i] <= w[i]
    BY <1>1, <1>2, <1>9, <2>0 DEF RowFacts
  <2>2. \A i \in S : a[i] \in Nat /\ a[i] = b[i]
    BY <2>1
  <2>3. \A i \in S : w[i] \in Nat /\ w[i] = c[i]
    BY <2>1
  <2>4. \A i \in S : a[i] \in Nat /\ w[i] \in Nat /\ a[i] <= w[i]
    BY <2>1
  <2>5. SumOver(a, S) = SumOver(b, S)
    BY <1>1, <2>2, SumEqual
  <2>6. SumOver(w, S) = SumOver(c, S)
    BY <1>1, <2>3, SumEqual
  <2>7. SumOver(a, S) <= SumOver(w, S)
    BY <1>1, <2>4, SumMonotone
  <2>. QED  BY <2>5, <2>6, <2>7
<1>10. ASSUME n = "eval"
       PROVE  SumOver(a, S) = SumOver(b, S) /\ SumOver(w, S) + SumOver(a, S) <= SumOver(c, S)
  <2>0. n \in DOMAIN WorkField
    BY <1>10 DEF WorkField
  <2>1. \A i \in S : /\ a[i] \in Nat /\ a[i] = b[i] /\ w[i] \in Nat /\ c[i] \in Nat
                     /\ w[i] + a[i] <= c[i] /\ t[i] = w[i] + a[i]
    BY <1>1, <1>2, <1>10, <2>0 DEF RowFacts
  <2>2. \A i \in S : a[i] \in Nat /\ a[i] = b[i]
    BY <2>1
  <2>3. \A i \in S : w[i] \in Nat /\ a[i] \in Nat /\ t[i] = w[i] + a[i]
    BY <2>1
  <2>4. \A i \in S : t[i] \in Nat /\ c[i] \in Nat /\ t[i] <= c[i]
    BY <2>1
  <2>5. SumOver(a, S) = SumOver(b, S)
    BY <1>1, <2>2, SumEqual
  <2>6. SumOver(t, S) = SumOver(w, S) + SumOver(a, S)
    BY <1>1, <2>3, SumOfSums
  <2>7. SumOver(t, S) <= SumOver(c, S)
    BY <1>1, <2>4, SumMonotone
  <2>. QED  BY <2>5, <2>6, <2>7
<1>11. n \in CountsFailures => n \in DOMAIN WorkField
  BY DEF CountsFailures, WorkField
<1>12. n = "eval" => n \in DOMAIN WorkField
  BY DEF WorkField
<1>13. /\ Failures(n) \in Nat /\ TrueFailed(n) \in Nat /\ TrueUnits(n) \in Nat
       /\ Failures(n) <= TrueFailed(n)
       /\ n \in DOMAIN WorkField => Work(n) \in Nat
  BY <1>3, <1>4, <1>6, <1>7, <1>8
<1>14. n \in CountsFailures => /\ Failures(n) = TrueFailed(n) /\ Failures(n) <= Work(n)
                               /\ Work(n) = TrueUnits(n)
  BY <1>3, <1>4, <1>9, <1>11
<1>15. n = "eval" => Failures(n) = TrueFailed(n) /\ Work(n) + Failures(n) <= TrueUnits(n)
  BY <1>3, <1>4, <1>10, <1>12
<1>. QED  BY <1>13, <1>14, <1>15

\* When as large a share of what the evaluation came to failed as the threshold says,
\* as large a share of what it counted did.
LEMMA AlertRaised ==
  ASSUME NEW w \in Nat, NEW f \in Nat, NEW u \in Nat, w + f <= u, u > 0, 10000 * f >= ErrorRate * u
  PROVE  w + f > 0 /\ 10000 * f >= ErrorRate * (w + f)
<1>1. ErrorRate \in Nat /\ ErrorRate >= 1
  BY PassLogAssumption
<1>2. PICK k \in Nat : u = (w + f) + k
  <2>1. u - (w + f) \in Nat /\ u = (w + f) + (u - (w + f))
    OBVIOUS
  <2>. QED  BY <2>1
<1>. DEFINE a == w + f
            p == ErrorRate * a
            q == ErrorRate * k
            r == ErrorRate * u
<1>3. a \in Nat
  OBVIOUS
<1>4. ErrorRate * (a + k) = p + q /\ p \in Nat /\ q \in Nat
  <2>. HIDE DEF a
  <2>. QED  BY <1>1, <1>3
<1>5. r = p + q
  BY <1>2, <1>4
<1>6. r >= 1
  <2>1. PICK j \in Nat : u = 1 + j
    <3>1. u - 1 \in Nat /\ u = 1 + (u - 1)
      OBVIOUS
    <3>. QED  BY <3>1
  <2>2. ErrorRate * (1 + j) = ErrorRate + ErrorRate * j /\ ErrorRate * j \in Nat
    BY <1>1
  <2>. QED  BY <1>1, <2>1, <2>2
<1>. HIDE DEF p, q, r
<1>7. 10000 * f >= r
  BY DEF r
<1>8. f > 0
  BY <1>6, <1>7, <1>4, <1>5
<1>9. 10000 * f >= p
  BY <1>4, <1>5, <1>7
<1>. QED  BY <1>8, <1>9 DEF p

\* The digest does not mislead, for any number of passes and units, and any threshold.
THEOREM DigestIsTrueHolds == PassLogSpec => []DigestIsTrue
<1>1. PassLogInv => DigestIsTrue
  <2>. SUFFICES ASSUME PassLogInv, NEW n \in {pass_runs[i].pass_name : i \in DOMAIN pass_runs}
                PROVE  DigestTrueOf(n)
    BY DEF DigestIsTrue
  <2>1. n \in PassNames
    BY DEF PassLogInv, PassRow
  <2>. DEFINE f == Failures(n)
              g == TrueFailed(n)
              u == TrueUnits(n)
              w == Work(n)
  <2>2. /\ f \in Nat /\ g \in Nat /\ u \in Nat /\ f <= g
        /\ n \in DOMAIN WorkField => w \in Nat
        /\ n \in CountsFailures => f = g /\ f <= w /\ w = u
        /\ n = "eval" => f = g /\ w + f <= u
    BY <2>1, DigestOfPass
  <2>3. Attempts(n) = IF n \in CountsFailures THEN w ELSE w + f
    BY DEF Attempts
  <2>4. n = "eval" => n \in DOMAIN WorkField /\ n \notin CountsFailures
    BY DEF WorkField, CountsFailures
  <2>. HIDE DEF f, g, u, w
  <2>5. n \in DOMAIN WorkField => f <= Attempts(n)
    BY <2>2, <2>3
  <2>6. n \in CountsFailures => f = g /\ Attempts(n) = u
    BY <2>2, <2>3
  <2>. DEFINE often == 10000 * g >= ErrorRate * u
              raised == "eval_failure_rate" \in Alerts
  <2>7. ASSUME n = "eval", u > 0, often PROVE raised
    <3>1. f = g /\ w + f <= u /\ w \in Nat /\ Attempts(n) = w + f /\ n \in DOMAIN WorkField
      BY <2>2, <2>3, <2>4, <2>7
    <3>2. 10000 * f >= ErrorRate * u
      BY <2>7, <3>1
    <3>3. w + f > 0 /\ 10000 * f >= ErrorRate * (w + f)
      BY <2>2, <2>7, <3>1, <3>2, AlertRaised, SMTT(30)
    <3>4. AtLeast("eval", ErrorRate)
      BY <2>7, <3>1, <3>3 DEF AtLeast, HasRate, f
    <3>. QED  BY <3>4 DEF Alerts
  <2>8. f <= g
    BY <2>2
  <2>. HIDE DEF often, raised
  <2>9. ASSUME n = "eval", TrueUnits(n) > 0, 10000 * TrueFailed(n) >= ErrorRate * TrueUnits(n)
        PROVE  "eval_failure_rate" \in Alerts
    <3>1. u > 0
      BY <2>9 DEF u
    <3>2. often
      BY <2>9 DEF often, g, u
    <3>3. raised
      BY <2>7, <2>9, <3>1, <3>2
    <3>. QED  BY <3>3 DEF raised
  <2>10. Failures(n) <= TrueFailed(n)
    BY <2>8 DEF f, g
  <2>11. n \in DOMAIN WorkField => Failures(n) <= Attempts(n)
    BY <2>5 DEF f
  <2>12. n \in CountsFailures => Failures(n) = TrueFailed(n) /\ Attempts(n) = TrueUnits(n)
    BY <2>6 DEF f, g, u
  <2>. QED  BY <2>9, <2>10, <2>11, <2>12, SMT DEF DigestTrueOf
<1>. QED  BY <1>1, PassLogHolds, PTL

-------------------------------------------------------------------------------
(* All parts.                                                                *)

\* The composition adds nothing to what a part does: every behaviour of it is a
\* behaviour of the introductions, of the screening, of the pass log and of the
\* accounts, the steps of the other parts being stutters.
THEOREM PartsBehave ==
  CommunitySpec => Spec /\ ScreeningSpec /\ PassLogSpec /\ AccountSpec
<1>1. CommunityInit => Init /\ ScreeningInit /\ PassLogInit /\ AccountInit
  BY DEF CommunityInit
<1>2. [CommunityNext]_communityVars => [Next]_vars
  <2>. SUFFICES ASSUME [CommunityNext]_communityVars PROVE [Next]_vars
    OBVIOUS
  <2>. QED  BY DEF CommunityNext, communityVars
<1>3. [CommunityNext]_communityVars => [ScreeningNext]_screeningVars
  BY DEF CommunityNext, communityVars
<1>4. [CommunityNext]_communityVars => [PassLogNext]_passLogVars
  BY DEF CommunityNext, communityVars
<1>5. [CommunityNext]_communityVars => [AccountNext]_authVars
  BY DEF CommunityNext, communityVars
<1>. QED  BY <1>1, <1>2, <1>3, <1>4, <1>5, PTL
  DEF CommunitySpec, Spec, ScreeningSpec, PassLogSpec, AccountSpec

\* The rows of every part are as they are declared.
THEOREM CommunityTypes == CommunitySpec => []CommunityTypeOK
BY PartsBehave, IntroTypeCorrect, ScreeningTypeCorrect, AccountTypes, PTL DEF CommunityTypeOK

\* What is proved of a part holds of the whole: the snapshots, the verdicts, the
\* digest, the accounts and the meets.
THEOREM CommunityHolds ==
  CommunitySpec => [](/\ SnapshotIsWhole /\ VerdictsAreFair /\ DigestIsTrue /\ AccountsAreWhole
                      /\ MeetIffMutual /\ ShownOnce)
BY PartsBehave, SnapshotIsWholeHolds, VerdictsAreFairHolds, DigestIsTrueHolds, AccountsStayWhole,
   MeetsIffMutual, ShownOnceHolds, PTL
================================================================================
