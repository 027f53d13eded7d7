----------------------------- MODULE EventLedger -----------------------------
(***************************************************************************)
(* What the registry watch promises about every event it is handed, with   *)
(* no handlers, sources or store: the event is accepted at most once, an   *)
(* accepted event sends the owner at most one brief, and it is closed at   *)
(* most once, with an outcome that accounts for the brief.                 *)
(***************************************************************************)
EXTENDS Naturals

CONSTANTS
    Event,      \* the events, by idempotency key
    NoOutcome   \* the outcome of an event that is not closed

QuietOutcome == {"baseline_captured", "no_change"}
BriefOutcome == {"brief_delivered", "brief_prepared"}

VARIABLES
    accepted,   \* the events accepted so far
    briefs,     \* how many briefs the owner received for every event
    outcome     \* how every event was closed

ledger == <<accepted, briefs, outcome>>

Init ==
    /\ accepted = {}
    /\ briefs = [e \in Event |-> 0]
    /\ outcome = [e \in Event |-> NoOutcome]

Open(e) == e \in accepted /\ outcome[e] = NoOutcome

Accept(e) ==
    /\ e \notin accepted
    /\ accepted' = accepted \cup {e}
    /\ UNCHANGED <<briefs, outcome>>

Brief(e) ==
    /\ Open(e)
    /\ briefs[e] = 0
    /\ briefs' = [briefs EXCEPT ![e] = 1]
    /\ UNCHANGED <<accepted, outcome>>

(* A delivered brief was received; a quiet event sent none; a prepared     *)
(* brief may have reached the owner although its receipt says it failed.   *)
Close(e, o) ==
    /\ Open(e)
    /\ o = "brief_delivered" => briefs[e] = 1
    /\ o \in QuietOutcome => briefs[e] = 0
    /\ outcome' = [outcome EXCEPT ![e] = o]
    /\ UNCHANGED <<accepted, briefs>>

Next ==
    \E e \in Event :
        \/ Accept(e)
        \/ Brief(e)
        \/ \E o \in QuietOutcome \cup BriefOutcome : Close(e, o)

Spec == Init /\ [][Next]_ledger

=============================================================================
