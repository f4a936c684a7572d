------------------------------- MODULE Community ------------------------------
(***************************************************************************)
(* Around the introductions: what a nightly pass reads and writes between  *)
(* others (Introductions), what it computes (Screening), what it reports   *)
(* (PassLog), and the accounts of the people it is about (Accounts).       *)
(*                                                                         *)
(* The four meet in values the modules leave open to chance (a profile, a  *)
(* verdict, a failure), never in a variable.  So a behaviour of all is an  *)
(* interleaving of one of each, and one that follows a single part, here   *)
(* `part`, shows everything that part can do.                              *)
(***************************************************************************)
EXTENDS Introductions, Screening, PassLog, Accounts

VARIABLE part

communityVars == <<vars, screeningVars, passLogVars, authVars, part>>

CommunityInit ==
  /\ part \in {"introductions", "screening", "passlog", "accounts"}
  /\ Init /\ ScreeningInit /\ PassLogInit /\ AccountInit

CommunityNext ==
  \/ part = "introductions" /\ Next /\ UNCHANGED <<screeningVars, passLogVars, authVars, part>>
  \/ part = "screening" /\ ScreeningNext /\ UNCHANGED <<vars, passLogVars, authVars, part>>
  \/ part = "passlog" /\ PassLogNext /\ UNCHANGED <<vars, screeningVars, authVars, part>>
  \/ part = "accounts" /\ AccountNext /\ UNCHANGED <<vars, screeningVars, passLogVars, part>>

CommunitySpec == CommunityInit /\ [][CommunityNext]_communityVars

CommunityTypeOK == IntroTypeOK /\ ScreeningTypeOK /\ AccountTypeOK
===============================================================================
