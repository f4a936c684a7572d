-------------------------------- MODULE PassLog --------------------------------
(***************************************************************************)
(* What the connections service tells of its own nightly passes: each pass *)
(* counts the work it did and the failures it swallowed, and records both  *)
(* in a row when it ends, however it ends; the digest adds up the rows of  *)
(* the last hours and raises alerts.                                       *)
(*                                                                         *)
(* A unit of work is a user, for the evaluation a pair, for the clustering *)
(* a node or a group.                                                      *)
(***************************************************************************)
EXTENDS Naturals, FiniteSets, FiniteSetsExt, Sequences

CONSTANTS
  MaxUnits,   \* bound: units of work of a pass
  MaxRuns,    \* bound: passes run
  ErrorRate   \* eval_error_rate_threshold, in ten-thousandths

ASSUME PassLogAssumption ==
  /\ MaxUnits \in Nat /\ MaxRuns \in Nat /\ ErrorRate \in 1 .. 10000

VARIABLES
  running,   \* the pass under way, or "none"
  tally,     \* its counters, by field
  truth,     \* history: the units it came to, and those that failed
  pass_runs, \* the rows of the window, with the truth beside each
  begun      \* passes begun so far

passLogVars == <<running, tally, truth, pass_runs, begun>>

\* PASS_ORDER, with the fields each pass reports.
Reported == [
  ingest  |-> {"users_processed", "failures"},
  score   |-> {"users_processed", "failures"},
  eval    |-> {"pairs_evaluated", "llm_failures", "flagged_for_review"},
  surface |-> {"checkins_queued", "brain_failures"},
  cluster |-> {"groups_proposed", "groups_surfaced", "failures"} ]
PassNames == DOMAIN Reported

PassLogInit ==
  /\ running = "none" /\ tally = [f \in {} |-> 0] /\ truth = [units |-> 0, failed |-> 0]
  /\ pass_runs = <<>> /\ begun = 0

-------------------------------------------------------------------------------
(* A pass counts.                                                            *)

BeginRun(n) ==
  /\ running = "none" /\ begun < MaxRuns
  /\ running' = n /\ begun' = begun + 1
  /\ tally' = [f \in Reported[n] |-> 0]
  /\ truth' = [units |-> 0, failed |-> 0]
  /\ UNCHANGED pass_runs

\* One unit was come to: the fields of `up` go up by one.
Unit(n, up, fails) ==
  /\ running = n /\ truth.units < MaxUnits
  /\ tally' = [f \in DOMAIN tally |-> IF f \in up THEN tally[f] + 1 ELSE tally[f]]
  /\ truth' = [units |-> truth.units + 1, failed |-> truth.failed + (IF fails THEN 1 ELSE 0)]
  /\ UNCHANGED <<running, pass_runs, begun>>

\* run_ingest and scoring_pass: users processed, those that failed included.
IngestUser(fails) ==
  Unit("ingest", {"users_processed"} \cup (IF fails THEN {"failures"} ELSE {}), fails)
ScoredUser(fails) ==
  Unit("score", {"users_processed"} \cup (IF fails THEN {"failures"} ELSE {}), fails)

\* eval_pass: evaluated, flagged or not; malformed or out of the pool, which
\* counts nowhere; or an exception of a read or of the model.
EvalUnit(fails) ==
  \E up \in IF fails THEN {{"llm_failures"}}
             ELSE {{"pairs_evaluated"}, {"pairs_evaluated", "flagged_for_review"}, {}} :
    Unit("eval", up, fails)

\* surface_pass: the check-in was queued or the brain refused it.  An exception
\* (of the read, or of the row that follows) is in the log only.
SurfaceUnit(fails) ==
  \E up \in IF fails THEN {{}, {"brain_failures"}} ELSE {{"checkins_queued"}} :
    Unit("surface", up, fails)

\* cluster_pass and _surface_groups: a node proposed a group or not, a group was
\* surfaced or not, or one of them failed.
ClusterUnit(fails) ==
  \E up \in IF fails THEN {{"failures"}} ELSE {{"groups_proposed"}, {"groups_surfaced"}, {}} :
    Unit("cluster", up, fails)

-------------------------------------------------------------------------------
(* The pass ends, by itself or by an exception outside of its units.         *)

FailureKeys == {"failures", "llm_failures", "brain_failures"}

\* Mutant: only the general name counts.
CountGeneral(fields) == MapThenSumSet(LAMBDA f : fields[f], DOMAIN fields \cap {"failures"})

\* _failure_count
FailureCount(fields) == MapThenSumSet(LAMBDA f : fields[f], DOMAIN fields \cap FailureKeys)

RunOver ==
  /\ running' = "none" /\ tally' = [f \in {} |-> 0]
  /\ truth' = [units |-> 0, failed |-> 0]
  /\ UNCHANGED begun

\* emit_pass_summary and record_pass_run
EmitSummary ==
  /\ running # "none"
  /\ pass_runs' = Append(pass_runs, [pass_name |-> running, fields |-> tally,
                                     failures |-> FailureCount(tally), truth |-> truth])
  /\ RunOver

\* The row cannot be stored, or the process dies: nothing is recorded.
SummaryLost ==
  /\ running # "none"
  /\ UNCHANGED pass_runs
  /\ RunOver

\* Hours pass: the oldest row leaves digest_window_hours.
RowAges ==
  /\ pass_runs # <<>>
  /\ pass_runs' = Tail(pass_runs)
  /\ UNCHANGED <<running, tally, truth, begun>>

PassLogNext ==
  \/ \E n \in PassNames : BeginRun(n)
  \/ \E fails \in BOOLEAN : \/ IngestUser(fails) \/ ScoredUser(fails)
                            \/ EvalUnit(fails) \/ SurfaceUnit(fails) \/ ClusterUnit(fails)
  \/ EmitSummary \/ SummaryLost \/ RowAges

PassLogSpec == PassLogInit /\ [][PassLogNext]_passLogVars

-------------------------------------------------------------------------------
(* The digest.                                                               *)

\* _WORK: the field that counts a pass's work, if any; in two passes it counts
\* the failures too.
WorkField == [ingest |-> "users_processed", score |-> "users_processed",
              eval |-> "pairs_evaluated", surface |-> "checkins_queued"]
CountsFailures == {"ingest", "score"}

RowsOf(n) == {i \in DOMAIN pass_runs : pass_runs[i].pass_name = n}
Total(rows, Value(_)) == MapThenSumSet(LAMBDA i : Value(pass_runs[i]), rows)

Work(n) == Total(RowsOf(n), LAMBDA r : r.fields[WorkField[n]])
Failures(n) == Total(RowsOf(n), LAMBDA r : r.failures)

\* Mutant: the work is taken to include the failures.
WorkOnly(n) == Work(n)

Attempts(n) == IF n \in CountsFailures THEN Work(n) ELSE Work(n) + Failures(n)

\* build_digest: the failure rate of a pass, "none" without a denominator.
HasRate(n) == n \in DOMAIN WorkField /\ Attempts(n) > 0
AtLeast(n, rate) == HasRate(n) /\ 10000 * Failures(n) >= rate * Attempts(n)

\* alerts
Alerts == (IF AtLeast("eval", ErrorRate) THEN {"eval_failure_rate"} ELSE {})
          \cup {n \in PassNames : RowsOf(n) = {}}

-------------------------------------------------------------------------------
(* Properties.                                                               *)

\* The failures and the units there really were.
TrueFailed(n) == Total(RowsOf(n), LAMBDA r : r.truth.failed)
TrueUnits(n)  == Total(RowsOf(n), LAMBDA r : r.truth.units)

\* Of one pass.
DigestTrueOf(n) ==
  LET failed == TrueFailed(n)
      units  == TrueUnits(n)
  IN  /\ Failures(n) <= failed
      /\ n \in DOMAIN WorkField => Failures(n) <= Attempts(n)
      /\ n \in CountsFailures => Failures(n) = failed /\ Attempts(n) = units
      /\ n = "eval" /\ units > 0 /\ 10000 * failed >= ErrorRate * units
         => "eval_failure_rate" \in Alerts

\* The digest does not mislead: no pass fails more often than it tried, no pass
\* is charged with failures that did not happen, the ingest and the scoring are
\* charged with all of theirs, and when the model failed on as large a share of
\* the units the evaluation came to as the threshold says, the alert is raised.
DigestIsTrue == \A n \in {pass_runs[i].pass_name : i \in DOMAIN pass_runs} : DigestTrueOf(n)
===============================================================================
