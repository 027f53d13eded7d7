------------------------------ MODULE SupportLoop ------------------------------
(***************************************************************************)
(* The synthetic support loop of src/app/support_loop.py, on one gateway   *)
(* and one event claim store.  A call claims its event, asks the gateway   *)
(* for a warrant, uses it, and answers with an outcome receipt.  It reads  *)
(* the capability controls once, when it begins, and hands that reading to *)
(* both gateway operations; the server may change the controls meanwhile.  *)
(* The claim is the indivisible one that ClaimStore promises.  A call may  *)
(* stop between any two steps, the run of the tool and its receipt too; a  *)
(* denial changes nothing before its receipt, so the two are one step.     *)
(***************************************************************************)
EXTENDS WarrantGateway

CONSTANTS NoJob, NoWarrant      \* model values

Receipt == [event : Event, state : {"simulated", "deny"},
            warrant : Warrant \cup {NoWarrant}]

Job == [event : Event, transition : Transition, view : Controls,
        warrant : Warrant \cup {NoWarrant}, attempt : Use \cup {NoUse}]

ASSUME NoJobAssumption == NoJob \notin Job /\ NoWarrant \notin Warrant

VARIABLES
    controls,       \* the capability controls of the server
    claimed,        \* events with a claim record
    phase,          \* "idle", "issue", "use" or "receipt"
    job,            \* the locals of a call
    receipts,       \* receipts answered so far
    inflight        \* history: callers at work since before the kill switch

loop == <<controls, claimed, phase, job, receipts, inflight>>

LoopInit ==
    /\ Init
    /\ controls \in Controls
    /\ claimed = {}
    /\ phase = [c \in Caller |-> "idle"]
    /\ job = [c \in Caller |-> NoJob]
    /\ receipts = {}
    /\ inflight = {}

-----------------------------------------------------------------------------
(* Faulty variant: the locals of a finished call stay behind. *)
FinishKeepsJob(c, state) ==
    /\ receipts' = receipts \cup {[event |-> job[c].event, state |-> state,
                                   warrant |-> job[c].warrant]}
    /\ phase' = [phase EXCEPT ![c] = "idle"]
    /\ job' = job

(* The call is over: the receipt is answered and the locals are gone. *)
Finish(c, state) ==
    /\ receipts' = receipts \cup {[event |-> job[c].event, state |-> state,
                                   warrant |-> job[c].warrant]}
    /\ phase' = [phase EXCEPT ![c] = "idle"]
    /\ job' = [job EXCEPT ![c] = NoJob]

(* Faulty variant: a duplicate event is processed again. *)
BeginUnclaimed(c, e, t) ==
    /\ phase[c] = "idle" /\ e \in KnownCase
    /\ claimed' = claimed \cup {e}
    /\ phase' = [phase EXCEPT ![c] = "issue"]
    /\ job' = [job EXCEPT ![c] = [event |-> e, transition |-> t, view |-> controls,
                                  warrant |-> NoWarrant, attempt |-> NoUse]]
    /\ inflight' = inflight \ {c}
    /\ UNCHANGED <<controls, receipts, gateway>>

(* Faulty variant: the call starts on default controls. *)
BeginDefault(c, e, t) ==
    /\ phase[c] = "idle" /\ e \in KnownCase /\ e \notin claimed
    /\ claimed' = claimed \cup {e}
    /\ phase' = [phase EXCEPT ![c] = "issue"]
    /\ job' = [job EXCEPT ![c] = [event |-> e, transition |-> t,
                                  view |-> [kill |-> FALSE, disabled |-> FALSE],
                                  warrant |-> NoWarrant, attempt |-> NoUse]]
    /\ inflight' = inflight \ {c}
    /\ UNCHANGED <<controls, receipts, gateway>>

(* The call claims a known event, once; its run, policy decision and       *)
(* handoff follow from the event.  A duplicate answers and an unknown case *)
(* raises, before the claim: both change nothing.                          *)
Begin(c, e, t) ==
    /\ phase[c] = "idle" /\ e \in KnownCase /\ e \notin claimed
    /\ claimed' = claimed \cup {e}
    /\ phase' = [phase EXCEPT ![c] = "issue"]
    /\ job' = [job EXCEPT ![c] = [event |-> e, transition |-> t, view |-> controls,
                                  warrant |-> NoWarrant, attempt |-> NoUse]]
    /\ inflight' = inflight \ {c}
    /\ UNCHANGED <<controls, receipts, gateway>>

(* The policy allows every known case; the gateway has its own denials. *)
IssueWarrant(c) ==
    LET j == job[c] IN
    /\ phase[c] = "issue"
    /\ Issue(j.event, j.transition, TRUE, j.view)
    /\ phase' = [phase EXCEPT ![c] = "use"]
    /\ job' = [job EXCEPT ![c].warrant = [event |-> j.event, transition |-> j.transition,
                                          issued |-> now]]
    /\ UNCHANGED <<controls, claimed, receipts, inflight>>

IssueDenied(c) ==
    LET j == job[c] IN
    /\ phase[c] = "issue"
    /\ IssueReason(j.event, j.transition, TRUE, j.view) # "action_warrant_issued"
    /\ Finish(c, "deny")
    /\ UNCHANGED <<controls, claimed, inflight, gateway>>

(* Faulty variant: the call runs the tool without the checks and claim. *)
UseWarrantUnchecked(c) ==
    LET j == job[c] IN
    /\ phase[c] = "use" /\ pc[c] = "idle"
    /\ pc' = [pc EXCEPT ![c] = "execute"]
    /\ use' = [use EXCEPT ![c] = [warrant |-> j.warrant, event |-> j.event,
                                  transition |-> j.transition, checked |-> now]]
    /\ UNCHANGED <<now, warrants, consumed, executed, loop>>

UseWarrant(c) ==
    LET j == job[c] IN
    /\ phase[c] = "use" /\ pc[c] = "idle"
    /\ Validate(c, j.warrant, j.event, j.transition, j.view)
    /\ UNCHANGED loop

(* Faulty variant: the receipt of a denied use does not name its warrant. *)
UseDeniedUnnamed(c) ==
    LET j == job[c] IN
    /\ phase[c] = "use" /\ pc[c] = "idle"
    /\ UseReason(warrants, j.warrant, j.event, j.transition, j.view, now) # "action_warrant_checked"
    /\ receipts' = receipts \cup {[event |-> j.event, state |-> "deny",
                                   warrant |-> NoWarrant]}
    /\ phase' = [phase EXCEPT ![c] = "idle"]
    /\ job' = [job EXCEPT ![c] = NoJob]
    /\ UNCHANGED <<controls, claimed, inflight, gateway>>

UseDenied(c) ==
    LET j == job[c] IN
    /\ phase[c] = "use" /\ pc[c] = "idle"
    /\ UseReason(warrants, j.warrant, j.event, j.transition, j.view, now) # "action_warrant_checked"
    /\ Finish(c, "deny")
    /\ UNCHANGED <<controls, claimed, inflight, gateway>>

(* A warrant that was consumed before gets a denied receipt. *)
ConsumeWarrant(c) ==
    /\ Consume(c)
    /\ IF use[c].warrant \in consumed THEN Finish(c, "deny")
       ELSE UNCHANGED <<phase, job, receipts>>
    /\ UNCHANGED <<controls, claimed, inflight>>

(* The tool has run: the gateway returns the attempt, here its use. *)
RunTool(c) ==
    /\ Execute(c)
    /\ phase' = [phase EXCEPT ![c] = "receipt"]
    /\ job' = [job EXCEPT ![c].attempt = use[c]]
    /\ UNCHANGED <<controls, claimed, receipts, inflight>>

(* Faulty variant: the attempt counts as denied whatever the tool says. *)
WriteReceiptDenied(c) ==
    /\ phase[c] = "receipt"
    /\ Finish(c, "deny")
    /\ UNCHANGED <<controls, claimed, inflight, gateway>>

(* The receipt of a run: the call answers. *)
WriteReceipt(c) ==
    /\ phase[c] = "receipt"
    /\ Finish(c, "simulated")
    /\ UNCHANGED <<controls, claimed, inflight, gateway>>

(* A call stops on the way: its event stays claimed, without a receipt,    *)
(* whether its tool has run or not.                                        *)
Stop(c) ==
    /\ phase[c] # "idle"
    /\ IF pc[c] = "idle" THEN UNCHANGED gateway ELSE Abort(c)
    /\ phase' = [phase EXCEPT ![c] = "idle"]
    /\ job' = [job EXCEPT ![c] = NoJob]
    /\ UNCHANGED <<controls, claimed, receipts, inflight>>

(* The server engages or releases a kill switch. *)
SetControls(view) ==
    /\ view # controls
    /\ controls' = view
    /\ inflight' = IF Allows(view) THEN {}
                   ELSE IF Allows(controls) THEN {c \in Caller : phase[c] # "idle"}
                   ELSE inflight
    /\ UNCHANGED <<claimed, phase, job, receipts, gateway>>

-----------------------------------------------------------------------------
LoopNext ==
    \/ Tick /\ UNCHANGED loop
    \/ \E view \in Controls : SetControls(view)
    \/ \E c \in Caller :
          \/ \E e \in Event, t \in Transition : Begin(c, e, t)
          \/ IssueWarrant(c)
          \/ IssueDenied(c)
          \/ UseWarrant(c)
          \/ UseDenied(c)
          \/ ConsumeWarrant(c)
          \/ RunTool(c)
          \/ WriteReceipt(c)
          \/ Stop(c)

LoopSpec == LoopInit /\ [][LoopNext]_<<gateway, loop>>

-----------------------------------------------------------------------------
(* The type invariant: a call in progress has locals, an idle caller none, *)
(* and only a call that holds a warrant is at work in the gateway.         *)
LoopTypeOK ==
    /\ TypeOK
    /\ controls \in Controls
    /\ claimed \subseteq Event
    /\ phase \in [Caller -> {"idle", "issue", "use", "receipt"}]
    /\ job \in [Caller -> Job \cup {NoJob}]
    /\ receipts \subseteq Receipt
    /\ inflight \subseteq Caller
    /\ \A c \in Caller :
          /\ phase[c] = "idle" <=> job[c] = NoJob
          /\ pc[c] # "idle" => phase[c] = "use"

(* However many deliveries of an event the loop gets, and in whatever      *)
(* order their calls run, the event has one warrant, one run of the tool   *)
(* and one receipt at most.                                                *)
OneActionPerEvent ==
    /\ \A v, w \in warrants : v.event = w.event => v = w
    /\ \A w \in Warrant : executed[w] <= 1
    /\ \A r, s \in receipts : r.event = s.event => r = s

(* A receipt says what happened: simulated if and only if the tool ran on  *)
(* the warrant it names, and without a warrant only when none was signed   *)
(* for its event.  A run is not lost on a call that goes on: of the calls  *)
(* at work, exactly those whose event had its run are at a receipt, and so *)
(* a run without one is the work of a call that is there or stopped there. *)
ReceiptsAgree ==
    /\ \A r \in receipts :
          /\ r.warrant = NoWarrant => \A w \in warrants : w.event # r.event
          /\ r.warrant # NoWarrant =>
                r.warrant \in warrants /\ r.warrant.event = r.event
          /\ r.state = "simulated" <=>
                r.warrant # NoWarrant /\ executed[r.warrant] = 1
    /\ \A c \in Caller : phase[c] # "idle" =>
          (phase[c] = "receipt" <=>
              \E w \in warrants : w.event = job[c].event /\ executed[w] = 1)

(* While a kill switch is engaged the tool only runs for calls that read   *)
(* the controls before: no later call, however it interleaves, reaches it. *)
KillSwitchStopsNewWork ==
    [][\A c \in Caller :
          pc[c] = "execute" /\ executed' # executed /\ pc'[c] = "idle" /\ ~Allows(controls)
          => c \in inflight]_<<gateway, loop>>

(* The loop uses the gateway as any caller may: what holds of the gateway  *)
(* under all callers holds under the loop.                                 *)
LoopUsesGateway == Spec

=============================================================================
