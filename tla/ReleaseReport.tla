----------------------------- MODULE ReleaseReport -----------------------------
(***************************************************************************)
(* A release report in the making, in a server that runs the support loop: *)
(* assess_release_readiness of src/app/release_readiness.py.  Its ten      *)
(* executions run one after the other, and each scenario in them issues a  *)
(* warrant at one instant and uses it at another.  The clock goes on in    *)
(* between, so a scenario may stall while all others are prompt.           *)
(* The report shares that clock with the loop, and nothing else.           *)
(***************************************************************************)
EXTENDS Reports

CONSTANTS NoTime, NoReport      \* model values, of no time and no report

ASSUME NoTimeAssumption == NoTime \notin 0..MaxTime

VARIABLES
    turn,           \* the execution under way, 0 without a report
    step,           \* its scenario
    issued,         \* when the warrant of that scenario was issued
    pace,           \* the spans of the scenarios so far, of the last report
    published       \* the last report, with the state of the files it read

report == <<turn, step, issued, pace, published>>

(* The scenarios in the order of a judge demo. *)
Steps == <<"loop", "forged", "race", "earned", "evaluation">>

(* The executions that are judge demos; the others are the two suites of a *)
(* demo verification, which have no run of a demo's loop before them.  A   *)
(* demo never raises: the evidence of its run is always linked.            *)
Demos == {1, 3, 5, 6, 8, 9}

FirstStep(k) == IF k \in Demos THEN 1 ELSE 2

ReportInit ==
    /\ LoopInit
    /\ turn = 0
    /\ step = 1
    /\ issued = NoTime
    /\ pace = NoReport
    /\ published = NoReport

-----------------------------------------------------------------------------
ReportBegins ==
    /\ turn = 0
    /\ turn' = 1
    /\ step' = FirstStep(1)
    /\ pace' = [k \in 1..10 |-> [x \in Scenarios |-> DemoTime]]
    /\ published' = NoReport
    /\ UNCHANGED issued

(* The scenario issues its warrant, on a gateway of its own. *)
ScenarioIssues ==
    /\ turn \in 1..10 /\ issued = NoTime
    /\ issued' = now
    /\ UNCHANGED <<turn, step, pace, published>>

(* It uses the warrant; the next one follows, of this or the next execution.*)
ScenarioUses ==
    /\ issued # NoTime
    /\ pace' = [pace EXCEPT ![turn][Steps[step]] = [from |-> issued, to |-> now]]
    /\ issued' = NoTime
    /\ turn' = IF step < Len(Steps) THEN turn ELSE turn + 1
    /\ step' = IF step < Len(Steps) THEN step + 1 ELSE FirstStep(turn + 1)
    /\ UNCHANGED published

(* The report is answered.  The files are of the image, in order or not. *)
ReportEnds(files) ==
    /\ turn = 11
    /\ turn' = 0
    /\ published' = [files |-> files, gates |-> Readiness(pace, files, DeployedFleet)]
    /\ UNCHANGED <<step, issued, pace>>

ReportNext ==
    \/ ReportBegins
    \/ ScenarioIssues
    \/ ScenarioUses
    \/ \E files \in BOOLEAN : ReportEnds(files)

ServerNext ==
    \/ LoopNext /\ UNCHANGED report
    \/ ReportNext /\ UNCHANGED <<gateway, loop>>

ServerSpec == ReportInit /\ [][ServerNext]_<<gateway, loop, report>>

-----------------------------------------------------------------------------
(* The gates of a published report open exactly when the evaluations they  *)
(* rest on were in time: the commit gate on the two of its demo            *)
(* verification, the preflight on six of the eight after them, besides the *)
(* files.  No other scenario that stalls, and no evaluation of the judge   *)
(* demos that the bundle and the proof verification link, 5 and 8, closes  *)
(* a gate: the outcome a judge demo shows is that of its own run, and      *)
(* behind an open gate it may be a denial.                                 *)
GatesFollowEvaluations ==
    published # NoReport =>
        LET gates == published.gates IN
        /\ gates.source_commit # "blocked" <=> \A k \in 1..2 : InTime(pace[k].evaluation)
        /\ gates.cloud_run_preflight = "passed" <=>
              published.files /\ \A k \in {3, 4, 6, 7, 9, 10} : InTime(pace[k].evaluation)
        /\ \A k \in Demos :
              JudgeDemo(pace[k]).outcome = "simulated" <=> InTime(pace[k].loop)

(* What the server reports of itself is so: its gates follow the           *)
(* evaluations, wherever the clock went on and whatever the loop did; its  *)
(* audit is sound, and its approvals are true.                             *)
ReportsHold == GatesFollowEvaluations /\ AuditIsSound /\ ApprovalIsTrue

=============================================================================
