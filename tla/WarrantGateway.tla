---------------------------- MODULE WarrantGateway ----------------------------
(***************************************************************************)
(* The Action Warrant gateway of src/app/warrant_gateway.py.  Callers ask  *)
(* for warrants and present them, each time with the capability controls   *)
(* they know of; between the checks of a presented warrant, its claim and  *)
(* the tool, other callers run and time passes.                            *)
(***************************************************************************)
EXTENDS Integers

CONSTANTS
    Caller,         \* threads that use the gateway
    Event,          \* synthetic events, each with the run of its own
    KnownCase,      \* events whose case is a registered fixture
    Transition,     \* ticket transitions a caller may name
    Allowed,        \* allowed_transitions of the fixture
    TTL,            \* WARRANT_TTL_SECONDS, in ticks
    MaxTime,        \* bound on the clock
    NoUse           \* model value: the caller presents no warrant

ASSUME TimeAssumption == TTL \in Nat /\ MaxTime \in Nat
ASSUME FixtureAssumption == KnownCase \subseteq Event /\ Allowed \subseteq Transition

(* A signed warrant.  Its warrant_id hashes the event key, the run, the    *)
(* arguments and the instant of issue: warrants with equal fields are one. *)
Warrant == [event : Event, transition : Transition, issued : 0..MaxTime]

(* What a caller presents: a warrant, the event and transition to use it   *)
(* for, and the clock reading its expiry was checked at.                   *)
Use == [warrant : Warrant, event : Event, transition : Transition,
        checked : 0..MaxTime]

ASSUME NoUseAssumption == NoUse \notin Use

Controls == [kill : BOOLEAN, disabled : BOOLEAN]

VARIABLES
    now,            \* the clock of the server
    warrants,       \* warrants issued and signed so far
    consumed,       \* warrants with a claim record
    executed,       \* history: how often the tool ran on every warrant
    pc,             \* "idle", "claim" or "execute"
    use             \* what the caller presented

gateway == <<now, warrants, consumed, executed, pc, use>>

Init ==
    /\ now = 0
    /\ warrants = {}
    /\ consumed = {}
    /\ executed = [w \in Warrant |-> 0]
    /\ pc = [c \in Caller |-> "idle"]
    /\ use = [c \in Caller |-> NoUse]

-----------------------------------------------------------------------------
(* CapabilityControlState.allows for the one registered capability. *)
Allows(view) == ~view.kill /\ ~view.disabled

(* The guards of issue_simulated_ticket_warrant, in the order they deny. *)
IssueReason(e, t, authorized, view) ==
    IF view.kill THEN "global_kill_switch_engaged"
    ELSE IF view.disabled THEN "capability_kill_switch_engaged"
    ELSE IF ~authorized THEN "policy_does_not_authorize_registered_tool"
    ELSE IF e \notin KnownCase THEN "synthetic_case_evidence_unavailable"
    ELSE IF t \notin Allowed THEN "synthetic_transition_not_allowed"
    ELSE "action_warrant_issued"

(* Faulty variant: a warrant is still good at the instant it expires. *)
ExpiredLate(w, time) == w.issued + TTL < time

Expired(w, time) == w.issued + TTL <= time

(* Faulty variant: event, run and arguments of the use are not compared. *)
UseReasonUnscoped(signed, w, e, t, view, time) ==
    IF view.kill THEN "global_kill_switch_engaged"
    ELSE IF view.disabled THEN "capability_kill_switch_engaged"
    ELSE IF w \notin signed THEN "invalid_action_warrant_signature"
    ELSE IF Expired(w, time) THEN "action_warrant_expired"
    ELSE IF e \notin KnownCase THEN "synthetic_case_evidence_unavailable"
    ELSE "action_warrant_checked"

(* The guards of validate_and_consume before its claim, in the order they  *)
(* deny.  A signature, over the tool and the versions too, is valid on the *)
(* warrants the gateway signed and on no other.                            *)
UseReason(signed, w, e, t, view, time) ==
    IF view.kill THEN "global_kill_switch_engaged"
    ELSE IF view.disabled THEN "capability_kill_switch_engaged"
    ELSE IF w \notin signed THEN "invalid_action_warrant_signature"
    ELSE IF Expired(w, time) THEN "action_warrant_expired"
    ELSE IF e \notin KnownCase THEN "synthetic_case_evidence_unavailable"
    ELSE IF w.event # e \/ w.transition # t THEN "action_warrant_scope_mismatch"
    ELSE "action_warrant_checked"

Tick ==
    /\ now < MaxTime
    /\ now' = now + 1
    /\ UNCHANGED <<warrants, consumed, executed, pc, use>>

(* Faulty variant: the lifetime ends, instead of starts, at the issue. *)
IssueBackdated(e, t, authorized, view) ==
    /\ IssueReason(e, t, authorized, view) = "action_warrant_issued"
    /\ warrants' = warrants \cup {[event |-> e, transition |-> t, issued |-> now - TTL]}
    /\ UNCHANGED <<now, consumed, executed, pc, use>>

(* A denial returns a reason and changes nothing. *)
Issue(e, t, authorized, view) ==
    /\ IssueReason(e, t, authorized, view) = "action_warrant_issued"
    /\ warrants' = warrants \cup {[event |-> e, transition |-> t, issued |-> now]}
    /\ UNCHANGED <<now, consumed, executed, pc, use>>

(* The checks of validate_and_consume, on the controls the caller brings. *)
Validate(c, w, e, t, view) ==
    /\ pc[c] = "idle"
    /\ UseReason(warrants, w, e, t, view, now) = "action_warrant_checked"
    /\ pc' = [pc EXCEPT ![c] = "claim"]
    /\ use' = [use EXCEPT ![c] = [warrant |-> w, event |-> e, transition |-> t,
                                  checked |-> now]]
    /\ UNCHANGED <<now, warrants, consumed, executed>>

(* Faulty variant: the result of the claim is ignored. *)
ConsumeUnchecked(c) ==
    /\ pc[c] = "claim"
    /\ pc' = [pc EXCEPT ![c] = "execute"]
    /\ consumed' = consumed \cup {use[c].warrant}
    /\ UNCHANGED <<now, warrants, executed, use>>

(* claim_once of the warrant_id: the first claim goes on to the tool, any  *)
(* other one is denied as action_warrant_already_consumed.                 *)
Consume(c) ==
    /\ pc[c] = "claim"
    /\ pc' = [pc EXCEPT ![c] = IF use[c].warrant \in consumed THEN "idle"
                               ELSE "execute"]
    /\ use' = [use EXCEPT ![c] = IF use[c].warrant \in consumed THEN NoUse ELSE @]
    /\ consumed' = consumed \cup {use[c].warrant}
    /\ UNCHANGED <<now, warrants, executed>>

(* Faulty variant: the claim record goes when the tool has run. *)
ExecuteReleases(c) ==
    /\ pc[c] = "execute"
    /\ executed' = [executed EXCEPT ![use[c].warrant] = @ + 1]
    /\ pc' = [pc EXCEPT ![c] = "idle"]
    /\ use' = [use EXCEPT ![c] = NoUse]
    /\ consumed' = consumed \ {use[c].warrant}
    /\ UNCHANGED <<now, warrants>>

(* prepare_simulated_ticket_transition runs on the consumed warrant. *)
Execute(c) ==
    /\ pc[c] = "execute"
    /\ executed' = [executed EXCEPT ![use[c].warrant] = @ + 1]
    /\ pc' = [pc EXCEPT ![c] = "idle"]
    /\ use' = [use EXCEPT ![c] = NoUse]
    /\ UNCHANGED <<now, warrants, consumed>>

(* The caller stops between two steps of a use. *)
Abort(c) ==
    /\ pc[c] # "idle"
    /\ pc' = [pc EXCEPT ![c] = "idle"]
    /\ use' = [use EXCEPT ![c] = NoUse]
    /\ UNCHANGED <<now, warrants, consumed, executed>>

-----------------------------------------------------------------------------
Next ==
    \/ Tick
    \/ \E e \in Event, t \in Transition, authorized \in BOOLEAN, view \in Controls :
          Issue(e, t, authorized, view)
    \/ \E c \in Caller :
          \/ \E w \in Warrant, e \in Event, t \in Transition, view \in Controls :
                Validate(c, w, e, t, view)
          \/ Consume(c)
          \/ Execute(c)
          \/ Abort(c)

Spec == Init /\ [][Next]_gateway

-----------------------------------------------------------------------------
(* The type invariant. *)
TypeOK ==
    /\ now \in 0..MaxTime
    /\ warrants \subseteq Warrant
    /\ consumed \subseteq Warrant
    /\ executed \in [Warrant -> Nat]
    /\ pc \in [Caller -> {"idle", "claim", "execute"}]
    /\ use \in [Caller -> Use \cup {NoUse}]

(* "One-use": however many callers present a warrant, and in whatever      *)
(* order their checks, claims and executions fall, the tool runs on it at  *)
(* most once, a use that was begun and not yet executed included.          *)
OneUse ==
    \A w \in Warrant :
        /\ executed[w] <= 1
        /\ \A c, d \in Caller :
              /\ pc[c] = "execute" /\ use[c].warrant = w => executed[w] = 0
              /\ pc[c] = "execute" /\ pc[d] = "execute"
                 /\ use[c].warrant = w /\ use[d].warrant = w => c = d

(* The tool only runs on a warrant the gateway issued, for a registered    *)
(* case and one of its allowed transitions, and for the very event and     *)
(* transition it was issued for.                                           *)
Authorized ==
    /\ \A w \in Warrant : executed[w] > 0 =>
          w \in warrants /\ w.event \in KnownCase /\ w.transition \in Allowed
    /\ \A c \in Caller : pc[c] = "execute" =>
          /\ use[c].warrant \in warrants
          /\ use[c].event = use[c].warrant.event /\ use[c].event \in KnownCase
          /\ use[c].transition = use[c].warrant.transition
          /\ use[c].transition \in Allowed

(* Every use in progress was checked within the lifetime of its warrant,   *)
(* the instant of expiry excluded.                                         *)
TimelyUse ==
    \A c \in Caller : pc[c] # "idle" =>
        /\ use[c].warrant.issued <= use[c].checked
        /\ use[c].checked < use[c].warrant.issued + TTL

(* A consumed warrant stays consumed, and is never executed by a caller    *)
(* that presents it after that: replays are denied for good.               *)
ReplayDenied ==
    [][\A w \in consumed :
          /\ w \in consumed'
          /\ \A c \in Caller :
                pc'[c] = "execute" /\ use'[c].warrant = w => pc[c] = "execute"]_gateway

=============================================================================
