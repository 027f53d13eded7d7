--------------------------- MODULE SupportLoopProofs ---------------------------
(* The support loop, for any number of callers, events and transitions: it *)
(* uses the gateway as any caller may, acts once per event, answers truly  *)
(* and as it would alone, and stops at a kill switch; trust is earned by   *)
(* its work, and the gates of a report follow the evaluations in it.       *)
EXTENDS ReleaseReport, WarrantGatewayProofs, FiniteSetTheorems, FunctionTheorems

vars == <<gateway, loop>>

-----------------------------------------------------------------------------
(* Types: the locals of a call, and where it may be in the gateway. *)
LoopTypes ==
    /\ now \in 0..MaxTime
    /\ pc \in [Caller -> {"idle", "claim", "execute"}]
    /\ use \in [Caller -> Use \cup {NoUse}]
    /\ controls \in Controls
    /\ claimed \subseteq Event
    /\ phase \in [Caller -> {"idle", "issue", "use", "receipt"}]
    /\ job \in [Caller -> Job \cup {NoJob}]
    /\ receipts \subseteq Receipt
    /\ inflight \subseteq Caller
    /\ \A c \in Caller :
          /\ phase[c] = "idle" <=> job[c] = NoJob
          /\ phase[c] \in {"use", "receipt"} => job[c].warrant \in Warrant
          /\ pc[c] # "idle" => phase[c] = "use"

LEMMA LoopTypesInit == LoopInit => LoopTypes
BY TimeAssumption DEF LoopInit, Init, LoopTypes

(* A call at work has locals. *)
LEMMA AtWork ==
  ASSUME LoopTypes, NEW c \in Caller, phase[c] # "idle"
  PROVE  /\ job[c] \in Job /\ job[c] # NoJob
         /\ job[c].event \in Event /\ job[c].transition \in Transition
         /\ job[c].view \in Controls /\ job[c].warrant \in Warrant \cup {NoWarrant}
         /\ job[c].attempt \in Use \cup {NoUse}
<1>1. job[c] \in Job /\ job[c] # NoJob
  BY DEF LoopTypes
<1> QED BY <1>1 DEF Job

(* The receipt of a call that finishes has the type of a receipt. *)
LEMMA FinishTypes ==
  ASSUME LoopTypes, NEW c \in Caller, phase[c] # "idle",
         NEW state \in {"simulated", "deny"}, Finish(c, state),
         pc' \in [Caller -> {"idle", "claim", "execute"}], pc'[c] = "idle",
         use' \in [Caller -> Use \cup {NoUse}],
         \A d \in Caller : d # c => pc'[d] = pc[d],
         UNCHANGED <<now, controls, claimed, inflight>>
  PROVE  LoopTypes'
<1>1. [event |-> job[c].event, state |-> state, warrant |-> job[c].warrant] \in Receipt
  BY AtWork DEF Receipt
<1>2. NoJob \notin Job
  BY NoJobAssumption
<1> QED BY <1>1, <1>2 DEF Finish, LoopTypes

LEMMA LoopTypesStep == LoopTypes /\ [LoopNext]_vars => LoopTypes'
<1> SUFFICES ASSUME LoopTypes, [LoopNext]_vars PROVE LoopTypes'
  OBVIOUS
<1>1. CASE UNCHANGED vars
  BY <1>1 DEF vars, gateway, loop, LoopTypes
<1>2. CASE Tick /\ UNCHANGED loop
  BY <1>2, TimeAssumption DEF Tick, loop, LoopTypes
<1>3. ASSUME NEW view \in Controls, SetControls(view) PROVE LoopTypes'
  <2>1. inflight' \subseteq Caller
    BY <1>3 DEF SetControls, LoopTypes
  <2> QED BY <1>3, <2>1 DEF SetControls, gateway, LoopTypes
<1>4. ASSUME NEW c \in Caller, NEW e \in Event, NEW t \in Transition, Begin(c, e, t)
      PROVE  LoopTypes'
  <2> DEFINE j == [event |-> e, transition |-> t, view |-> controls, warrant |-> NoWarrant,
                   attempt |-> NoUse]
  <2>1. j \in Job /\ j # NoJob
    BY NoJobAssumption DEF Job, LoopTypes
  <2>2. /\ phase' = [phase EXCEPT ![c] = "issue"] /\ job' = [job EXCEPT ![c] = j]
        /\ claimed' \subseteq Event /\ inflight' \subseteq Caller
        /\ UNCHANGED <<now, pc, use, controls, receipts>>
    BY <1>4 DEF Begin, gateway, LoopTypes
  <2>3. pc[c] = "idle"
    BY <1>4 DEF Begin, LoopTypes
  <2> QED BY <2>1, <2>2, <2>3 DEF LoopTypes
<1>5. ASSUME NEW c \in Caller, IssueWarrant(c) PROVE LoopTypes'
  <2> DEFINE w == [event |-> job[c].event, transition |-> job[c].transition, issued |-> now]
  <2>1. /\ phase[c] = "issue" /\ phase' = [phase EXCEPT ![c] = "use"]
        /\ job' = [job EXCEPT ![c].warrant = w]
        /\ UNCHANGED <<now, pc, use, controls, claimed, receipts, inflight>>
    BY <1>5 DEF IssueWarrant, Issue
  <2>2. w \in Warrant /\ job[c] \in Job
    BY <2>1, AtWork DEF Warrant, LoopTypes
  <2>3. [job[c] EXCEPT !.warrant = w] \in Job
    BY <2>2 DEF Job
  <2>4. job' = [job EXCEPT ![c] = [job[c] EXCEPT !.warrant = w]]
    BY <2>1 DEF LoopTypes
  <2>5. [job[c] EXCEPT !.warrant = w] # NoJob /\ [job[c] EXCEPT !.warrant = w].warrant = w
    BY <2>2, <2>3, NoJobAssumption DEF Job
  <2> HIDE DEF w
  <2> QED BY <2>1, <2>2, <2>3, <2>4, <2>5 DEF LoopTypes
<1>6. ASSUME NEW c \in Caller, IssueDenied(c) PROVE LoopTypes'
  <2>1. phase[c] # "idle" /\ Finish(c, "deny") /\ pc[c] = "idle"
    BY <1>6 DEF IssueDenied, LoopTypes
  <2>2. UNCHANGED <<now, pc, use, controls, claimed, inflight>>
    BY <1>6 DEF IssueDenied, gateway
  <2> QED BY <2>1, <2>2, FinishTypes DEF LoopTypes
<1>7. ASSUME NEW c \in Caller, UseWarrant(c) PROVE LoopTypes'
  <2> DEFINE u == [warrant |-> job[c].warrant, event |-> job[c].event,
                   transition |-> job[c].transition, checked |-> now]
  <2>1. /\ phase[c] = "use" /\ pc' = [pc EXCEPT ![c] = "claim"]
        /\ use' = [use EXCEPT ![c] = u] /\ UNCHANGED <<now, loop>>
    BY <1>7 DEF UseWarrant, Validate
  <2>2. u \in Use
    BY <2>1, AtWork DEF Use, LoopTypes
  <2> HIDE DEF u
  <2> QED BY <2>1, <2>2 DEF loop, LoopTypes
<1>8. ASSUME NEW c \in Caller, UseDenied(c) PROVE LoopTypes'
  <2>1. phase[c] # "idle" /\ Finish(c, "deny") /\ pc[c] = "idle"
    BY <1>8 DEF UseDenied
  <2>2. UNCHANGED <<now, pc, use, controls, claimed, inflight>>
    BY <1>8 DEF UseDenied, gateway
  <2> QED BY <2>1, <2>2, FinishTypes DEF LoopTypes
<1>9. ASSUME NEW c \in Caller, ConsumeWarrant(c) PROVE LoopTypes'
  <2>1. pc[c] = "claim" /\ phase[c] = "use"
    BY <1>9 DEF ConsumeWarrant, Consume, LoopTypes
  <2>2. UNCHANGED <<now, controls, claimed, inflight>>
    BY <1>9 DEF ConsumeWarrant, Consume
  <2>3. use' \in [Caller -> Use \cup {NoUse}]
    BY <1>9 DEF ConsumeWarrant, Consume, LoopTypes
  <2>4. CASE use[c].warrant \in consumed
    <3>1. Finish(c, "deny") /\ pc' = [pc EXCEPT ![c] = "idle"]
      BY <1>9, <2>4 DEF ConsumeWarrant, Consume
    <3> QED BY <2>1, <2>2, <2>3, <3>1, FinishTypes DEF LoopTypes
  <2>5. CASE use[c].warrant \notin consumed
    <3>1. UNCHANGED <<phase, job, receipts>> /\ pc' = [pc EXCEPT ![c] = "execute"]
      BY <1>9, <2>5 DEF ConsumeWarrant, Consume
    <3> QED BY <2>1, <2>2, <2>3, <3>1 DEF LoopTypes
  <2> QED BY <2>4, <2>5
<1>10. ASSUME NEW c \in Caller, RunTool(c) PROVE LoopTypes'
  <2>1. /\ phase[c] = "use" /\ pc' = [pc EXCEPT ![c] = "idle"]
        /\ use' = [use EXCEPT ![c] = NoUse] /\ phase' = [phase EXCEPT ![c] = "receipt"]
        /\ job' = [job EXCEPT ![c].attempt = use[c]]
        /\ UNCHANGED <<now, controls, claimed, receipts, inflight>>
    BY <1>10 DEF RunTool, Execute, LoopTypes
  <2>2. job[c] \in Job /\ use[c] \in Use \cup {NoUse} /\ job[c].warrant \in Warrant
    BY <2>1, AtWork DEF LoopTypes
  <2>3. /\ [job[c] EXCEPT !.attempt = use[c]] \in Job
        /\ [job[c] EXCEPT !.attempt = use[c]].warrant = job[c].warrant
    BY <2>2 DEF Job
  <2>4. job' = [job EXCEPT ![c] = [job[c] EXCEPT !.attempt = use[c]]]
    BY <2>1 DEF LoopTypes
  <2> QED BY <2>1, <2>2, <2>3, <2>4, NoJobAssumption DEF LoopTypes
<1>11. ASSUME NEW c \in Caller, WriteReceipt(c) PROVE LoopTypes'
  <2>1. phase[c] # "idle" /\ Finish(c, "simulated") /\ pc[c] = "idle"
    BY <1>11 DEF WriteReceipt, LoopTypes
  <2>2. UNCHANGED <<now, pc, use, controls, claimed, inflight>>
    BY <1>11 DEF WriteReceipt, gateway
  <2> QED BY <2>1, <2>2, FinishTypes DEF LoopTypes
<1>12. ASSUME NEW c \in Caller, Stop(c) PROVE LoopTypes'
  <2>1. /\ pc' \in [Caller -> {"idle", "claim", "execute"}] /\ pc'[c] = "idle"
        /\ \A d \in Caller : d # c => pc'[d] = pc[d]
        /\ now' = now /\ use' \in [Caller -> Use \cup {NoUse}]
    BY <1>12 DEF Stop, Abort, gateway, LoopTypes
  <2>2. /\ phase' = [phase EXCEPT ![c] = "idle"] /\ job' = [job EXCEPT ![c] = NoJob]
        /\ UNCHANGED <<controls, claimed, receipts, inflight>>
    BY <1>12 DEF Stop
  <2> QED BY <2>1, <2>2, NoJobAssumption DEF LoopTypes
<1> QED
  BY <1>1, <1>2, <1>3, <1>4, <1>5, <1>6, <1>7, <1>8, <1>9, <1>10, <1>11, <1>12
  DEF LoopNext, vars

LEMMA LoopTyped == LoopSpec => []LoopTypes
<1>1. LoopTypes /\ [LoopNext]_<<gateway, loop>> => LoopTypes'
  BY LoopTypesStep DEF vars
<1> QED BY <1>1, LoopTypesInit, PTL DEF LoopSpec

-----------------------------------------------------------------------------
(* Every step of the loop is one of the gateway, or leaves it alone. *)
LEMMA StepUsesGateway == LoopTypes /\ [LoopNext]_vars => [Next]_gateway
<1> SUFFICES ASSUME LoopTypes, [LoopNext]_vars PROVE [Next]_gateway
  OBVIOUS
<1>1. CASE UNCHANGED vars
  BY <1>1 DEF vars
<1>2. CASE Tick /\ UNCHANGED loop
  BY <1>2 DEF Next
<1>3. ASSUME NEW view \in Controls, SetControls(view) PROVE [Next]_gateway
  BY <1>3 DEF SetControls
<1>4. ASSUME NEW c \in Caller, NEW e \in Event, NEW t \in Transition, Begin(c, e, t)
      PROVE  [Next]_gateway
  BY <1>4 DEF Begin
<1>5. ASSUME NEW c \in Caller, IssueWarrant(c) PROVE [Next]_gateway
  <2>1. Issue(job[c].event, job[c].transition, TRUE, job[c].view) /\ phase[c] # "idle"
    BY <1>5 DEF IssueWarrant
  <2>2. job[c].event \in Event /\ job[c].transition \in Transition /\ job[c].view \in Controls
    BY <2>1, AtWork
  <2> QED BY <2>1, <2>2 DEF Next
<1>6. ASSUME NEW c \in Caller, UseWarrant(c) PROVE [Next]_gateway
  <2>1. /\ Validate(c, job[c].warrant, job[c].event, job[c].transition, job[c].view)
        /\ phase[c] = "use"
    BY <1>6 DEF UseWarrant
  <2>2. /\ job[c].warrant \in Warrant /\ job[c].event \in Event
        /\ job[c].transition \in Transition /\ job[c].view \in Controls
    BY <2>1, AtWork DEF LoopTypes
  <2> QED BY <2>1, <2>2 DEF Next
<1>7. ASSUME NEW c \in Caller, IssueDenied(c) \/ UseDenied(c) \/ WriteReceipt(c)
      PROVE  [Next]_gateway
  BY <1>7 DEF IssueDenied, UseDenied, WriteReceipt
<1>8. ASSUME NEW c \in Caller, ConsumeWarrant(c) \/ RunTool(c) PROVE [Next]_gateway
  BY <1>8 DEF ConsumeWarrant, RunTool, Next
<1>9. ASSUME NEW c \in Caller, Stop(c) PROVE [Next]_gateway
  BY <1>9 DEF Stop, Next
<1> QED
  BY <1>1, <1>2, <1>3, <1>4, <1>5, <1>6, <1>7, <1>8, <1>9 DEF LoopNext

(* The loop implements the gateway: all that is proved of the gateway under *)
(* every caller holds under the loop.                                       *)
THEOREM LoopImplementsGateway == LoopSpec => LoopUsesGateway
<1>1. LoopTypes /\ [LoopNext]_<<gateway, loop>> => [Next]_gateway
  BY StepUsesGateway DEF vars
<1>2. LoopInit => Init
  BY DEF LoopInit
<1> QED BY <1>1, <1>2, LoopTyped, PTL DEF LoopSpec, Spec, LoopUsesGateway

(* The invariant of the gateway holds under the loop. *)
LEMMA GatewayInvariant == LoopSpec => []IInv
BY LoopImplementsGateway, Invariance, PTL DEF LoopUsesGateway

(* So what the gateway promises its callers holds of the loop's warrants:  *)
(* one run of the tool each, signed and in scope, before expiry, and no    *)
(* run on a replay.                                                        *)
THEOREM LoopKeepsPromises ==
  LoopSpec => [](OneUse /\ Authorized /\ TimelyUse) /\ ReplayDenied
BY LoopImplementsGateway, UsedOnce, AlwaysAuthorized, AlwaysTimely, ReplaysDenied, PTL
DEF LoopUsesGateway

(* Type correctness of the loop and its gateway. *)
THEOREM LoopTypeCorrect == LoopSpec => []LoopTypeOK
<1>1. LoopTypes /\ IInv => LoopTypeOK
  BY DEF LoopTypes, IInv, LoopTypeOK
<1> QED BY <1>1, LoopTyped, GatewayInvariant, PTL

-----------------------------------------------------------------------------
(* What a kill switch leaves: a call in the gateway was allowed by the     *)
(* controls it read, and a call that is not from before the switch was not.*)
Switched ==
    \A c \in Caller :
        /\ pc[c] # "idle" => Allows(job[c].view)
        /\ phase[c] # "idle" /\ c \notin inflight /\ ~Allows(controls)
           => ~Allows(job[c].view)

LEMMA SwitchedInit == LoopInit => Switched
BY DEF LoopInit, Init, Switched

(* A call past its checks was allowed. *)
LEMMA CheckedAllowed ==
  ASSUME NEW ws, NEW w, NEW e, NEW t, NEW view, NEW time,
         UseReason(ws, w, e, t, view, time) = "action_warrant_checked"
  PROVE  Allows(view)
BY DEF UseReason, Allows

(* The call of c goes on, or is over: it keeps its reading of the controls. *)
LEMMA CallGoesOn ==
  ASSUME LoopTypes, LoopTypes', Switched, NEW c \in Caller,
         phase'[c] # "idle" => phase[c] # "idle" /\ job'[c].view = job[c].view,
         pc'[c] # "idle" => Allows(job[c].view),
         \A d \in Caller \ {c} :
             phase'[d] = phase[d] /\ job'[d] = job[d] /\ pc'[d] = pc[d],
         UNCHANGED <<controls, inflight>>
  PROVE  Switched'
<1>1. ASSUME NEW d \in Caller, d # c
      PROVE  /\ pc'[d] # "idle" => Allows(job'[d].view)
             /\ phase'[d] # "idle" /\ d \notin inflight' /\ ~Allows(controls')
                => ~Allows(job'[d].view)
  BY <1>1 DEF Switched
<1>2. /\ pc'[c] # "idle" => Allows(job'[c].view)
      /\ phase'[c] # "idle" /\ c \notin inflight' /\ ~Allows(controls')
         => ~Allows(job'[c].view)
  BY DEF Switched, LoopTypes
<1> QED BY <1>1, <1>2 DEF Switched, Allows

LEMMA SwitchedStep ==
  LoopTypes /\ LoopTypes' /\ Switched /\ [LoopNext]_vars => Switched'
<1> SUFFICES ASSUME LoopTypes, LoopTypes', Switched, [LoopNext]_vars PROVE Switched'
  OBVIOUS
<1>1. CASE UNCHANGED vars
  BY <1>1 DEF vars, gateway, loop, Switched
<1>2. CASE Tick /\ UNCHANGED loop
  BY <1>2 DEF Tick, loop, Switched
<1>3. ASSUME NEW view \in Controls, SetControls(view) PROVE Switched'
  <2>1. controls' = view /\ UNCHANGED <<phase, job, pc>>
    BY <1>3 DEF SetControls, gateway
  <2>2. CASE Allows(view)
    BY <2>1, <2>2 DEF Switched
  <2>3. CASE ~Allows(view) /\ Allows(controls)
    BY <1>3, <2>1, <2>3 DEF SetControls, Switched
  <2>4. CASE ~Allows(view) /\ ~Allows(controls)
    BY <1>3, <2>1, <2>4 DEF SetControls, Switched
  <2> QED BY <2>2, <2>3, <2>4
<1>4. ASSUME NEW c \in Caller, NEW e \in Event, NEW t \in Transition, Begin(c, e, t)
      PROVE  Switched'
  <2>1. /\ phase[c] = "idle" /\ pc[c] = "idle" /\ UNCHANGED <<pc, controls>>
        /\ phase' = [phase EXCEPT ![c] = "issue"] /\ inflight' = inflight \ {c}
        /\ job' = [job EXCEPT ![c] = [event |-> e, transition |-> t, view |-> controls,
                                      warrant |-> NoWarrant, attempt |-> NoUse]]
    BY <1>4 DEF Begin, gateway, LoopTypes
  <2>2. job'[c].view = controls /\ \A d \in Caller \ {c} : job'[d] = job[d] /\ phase'[d] = phase[d]
    BY <2>1 DEF LoopTypes
  <2>3. \A d \in Caller \ {c} : d \notin inflight' => d \notin inflight
    BY <2>1
  <2> QED BY <2>1, <2>2, <2>3 DEF Switched
<1>5. ASSUME NEW c \in Caller, IssueWarrant(c) PROVE Switched'
  <2> DEFINE w == [event |-> job[c].event, transition |-> job[c].transition, issued |-> now]
  <2>1. /\ phase[c] = "issue" /\ phase' = [phase EXCEPT ![c] = "use"]
        /\ job' = [job EXCEPT ![c].warrant = w]
        /\ UNCHANGED <<pc, controls, inflight>>
    BY <1>5 DEF IssueWarrant, Issue
  <2>2. job' = [job EXCEPT ![c] = [job[c] EXCEPT !.warrant = w]] /\ job[c] \in Job
    BY <2>1, AtWork DEF LoopTypes
  <2>3. job'[c].view = job[c].view
    BY <2>2 DEF Job, LoopTypes
  <2>4. \A d \in Caller \ {c} : phase'[d] = phase[d] /\ job'[d] = job[d] /\ pc'[d] = pc[d]
    BY <2>1, <2>2 DEF LoopTypes
  <2>5. pc'[c] = "idle"
    BY <2>1 DEF LoopTypes
  <2> QED BY <2>1, <2>3, <2>4, <2>5, CallGoesOn
<1>6. ASSUME NEW c \in Caller, UseWarrant(c) PROVE Switched'
  <2>1. Allows(job[c].view) /\ pc' = [pc EXCEPT ![c] = "claim"]
        /\ UNCHANGED <<phase, job, controls, inflight>>
    BY <1>6, CheckedAllowed DEF UseWarrant, Validate, loop
  <2> QED BY <2>1, CallGoesOn DEF LoopTypes
<1>7. ASSUME NEW c \in Caller, IssueDenied(c) \/ UseDenied(c) \/ WriteReceipt(c)
      PROVE  Switched'
  <2>1. /\ phase' = [phase EXCEPT ![c] = "idle"] /\ job' = [job EXCEPT ![c] = NoJob]
        /\ UNCHANGED <<pc, controls, inflight>>
    BY <1>7 DEF IssueDenied, UseDenied, WriteReceipt, Finish, gateway
  <2>2. pc'[c] = "idle"
    BY <1>7, <2>1 DEF IssueDenied, UseDenied, WriteReceipt, LoopTypes
  <2> QED BY <2>1, <2>2, CallGoesOn DEF LoopTypes
<1>8. ASSUME NEW c \in Caller, ConsumeWarrant(c) \/ RunTool(c) PROVE Switched'
  <2>1. Allows(job[c].view) /\ phase[c] = "use"
    BY <1>8 DEF ConsumeWarrant, RunTool, Consume, Execute, Switched, LoopTypes
  <2>2. /\ UNCHANGED <<controls, inflight>>
        /\ \A d \in Caller \ {c} : phase'[d] = phase[d] /\ job'[d] = job[d] /\ pc'[d] = pc[d]
    BY <1>8 DEF ConsumeWarrant, RunTool, Consume, Execute, Finish, LoopTypes
  <2>3. phase'[c] # "idle" => job'[c].view = job[c].view
    <3>1. CASE ConsumeWarrant(c)
      BY <3>1 DEF ConsumeWarrant, Finish, LoopTypes
    <3>2. CASE RunTool(c)
      <4>1. job' = [job EXCEPT ![c] = [job[c] EXCEPT !.attempt = use[c]]] /\ job[c] \in Job
        BY <2>1, <3>2, AtWork DEF RunTool, LoopTypes
      <4> QED BY <4>1 DEF Job, LoopTypes
    <3> QED BY <1>8, <3>1, <3>2
  <2> QED BY <2>1, <2>2, <2>3, CallGoesOn
<1>9. ASSUME NEW c \in Caller, Stop(c) PROVE Switched'
  <2>1. /\ phase' = [phase EXCEPT ![c] = "idle"] /\ job' = [job EXCEPT ![c] = NoJob]
        /\ pc'[c] = "idle" /\ \A d \in Caller \ {c} : pc'[d] = pc[d]
        /\ UNCHANGED <<controls, inflight>>
    BY <1>9 DEF Stop, Abort, gateway, LoopTypes
  <2> QED BY <2>1, CallGoesOn DEF LoopTypes
<1> QED
  BY <1>1, <1>2, <1>3, <1>4, <1>5, <1>6, <1>7, <1>8, <1>9 DEF LoopNext

LEMMA AlwaysSwitched == LoopSpec => []Switched
<1>1. LoopTypes /\ LoopTypes' /\ Switched /\ [LoopNext]_<<gateway, loop>> => Switched'
  BY SwitchedStep DEF vars
<1> QED BY <1>1, SwitchedInit, LoopTyped, PTL DEF LoopSpec

(* While a kill switch is engaged, the tool runs for no call that read the *)
(* controls after it was.                                                  *)
THEOREM KillSwitchHolds == LoopSpec => KillSwitchStopsNewWork
<1> DEFINE Run(c) ==
      pc[c] = "execute" /\ executed' # executed /\ pc'[c] = "idle" /\ ~Allows(controls)
      => c \in inflight
<1>1. LoopTypes /\ Switched => [\A c \in Caller : Run(c)]_<<gateway, loop>>
  BY DEF LoopTypes, Switched
<1> QED BY <1>1, LoopTyped, AlwaysSwitched, PTL DEF KillSwitchStopsNewWork

-----------------------------------------------------------------------------
(* An event that is not claimed has left no trace. *)
ClaimedFirst ==
    /\ \A c \in Caller : phase[c] # "idle" => job[c].event \in claimed
    /\ \A w \in warrants : w.event \in claimed
    /\ \A r \in receipts : r.event \in claimed

(* An event has one call, one warrant and one receipt, and its receipt     *)
(* comes after its call.                                                   *)
OncePerEvent ==
    /\ \A c, d \in Caller :
          phase[c] # "idle" /\ phase[d] # "idle" /\ job[c].event = job[d].event => c = d
    /\ \A v, w \in warrants : v.event = w.event => v = w
    /\ \A r, s \in receipts : r.event = s.event => r = s
    /\ \A r \in receipts, c \in Caller : phase[c] # "idle" => job[c].event # r.event

(* A call asks once for the warrant of its event, and uses it once: the    *)
(* tool has run on it when the call is at its receipt.                     *)
OwnWarrant(c) ==
    /\ phase[c] = "issue" =>
          job[c].warrant = NoWarrant /\ \A w \in warrants : w.event # job[c].event
    /\ phase[c] = "use" =>
          /\ job[c].warrant \in warrants /\ job[c].warrant.event = job[c].event
          /\ executed[job[c].warrant] = 0
    /\ phase[c] = "receipt" =>
          /\ job[c].warrant \in warrants /\ job[c].warrant.event = job[c].event
          /\ executed[job[c].warrant] = 1
    /\ pc[c] # "idle" => use[c].warrant = job[c].warrant

Truthful(r) ==
    /\ r.warrant = NoWarrant => \A w \in warrants : w.event # r.event
    /\ r.warrant # NoWarrant => r.warrant \in warrants /\ r.warrant.event = r.event
    /\ r.state = "simulated" <=> r.warrant # NoWarrant /\ executed[r.warrant] = 1

EInv ==
    /\ ClaimedFirst /\ OncePerEvent
    /\ \A c \in Caller : OwnWarrant(c)
    /\ \A r \in receipts : Truthful(r)

LEMMA EventsInit == LoopInit => EInv
BY DEF LoopInit, Init, EInv, ClaimedFirst, OncePerEvent, OwnWarrant, Truthful

(* Steps that only move a call within the gateway. *)
LEMMA EventsStay ==
  ASSUME EInv, UNCHANGED <<warrants, executed, claimed, phase, job, receipts>>,
         \A c \in Caller : pc'[c] # "idle" => use'[c].warrant = job[c].warrant
  PROVE  EInv'
<1>1. ClaimedFirst' /\ OncePerEvent'
  BY DEF EInv, ClaimedFirst, OncePerEvent
<1>2. ASSUME NEW c \in Caller PROVE OwnWarrant(c)'
  BY DEF EInv, OwnWarrant
<1>3. ASSUME NEW r \in receipts' PROVE Truthful(r)'
  BY DEF EInv, Truthful
<1> QED BY <1>1, <1>2, <1>3 DEF EInv

(* A call that stops leaves no trace but its claim and its warrant. *)
LEMMA EventsStop ==
  ASSUME LoopTypes, EInv, NEW c \in Caller,
         phase' = [phase EXCEPT ![c] = "idle"], job' = [job EXCEPT ![c] = NoJob],
         pc'[c] = "idle", \A d \in Caller \ {c} : pc'[d] = pc[d] /\ use'[d] = use[d],
         UNCHANGED <<warrants, executed, claimed, receipts>>
  PROVE  EInv'
<1>1. \A d \in Caller : phase'[d] # "idle" => d # c /\ phase'[d] = phase[d] /\ job'[d] = job[d]
  BY DEF LoopTypes
<1>2. ClaimedFirst'
  BY <1>1 DEF EInv, ClaimedFirst
<1>3. OncePerEvent'
  BY <1>1 DEF EInv, OncePerEvent
<1>4. ASSUME NEW d \in Caller PROVE OwnWarrant(d)'
  <2>1. CASE d = c
    BY <2>1 DEF OwnWarrant, LoopTypes
  <2>2. CASE d # c
    BY <2>2 DEF EInv, OwnWarrant, LoopTypes
  <2> QED BY <2>1, <2>2
<1>5. ASSUME NEW r \in receipts' PROVE Truthful(r)'
  BY DEF EInv, Truthful
<1> QED BY <1>2, <1>3, <1>4, <1>5 DEF EInv

(* A new call is the first trace of its event. *)
LEMMA EventsBegin ==
  ASSUME LoopTypes, EInv, NEW c \in Caller, NEW e \in Event, NEW t \in Transition,
         Begin(c, e, t)
  PROVE  EInv'
<1>1. /\ phase[c] = "idle" /\ pc[c] = "idle" /\ e \notin claimed
      /\ claimed' = claimed \cup {e}
      /\ UNCHANGED <<pc, use, warrants, executed, receipts>>
      /\ phase' = [phase EXCEPT ![c] = "issue"]
      /\ job' = [job EXCEPT ![c] = [event |-> e, transition |-> t, view |-> controls,
                                    warrant |-> NoWarrant, attempt |-> NoUse]]
  BY DEF Begin, gateway, LoopTypes
<1>2. job'[c].event = e /\ job'[c].warrant = NoWarrant /\ phase'[c] = "issue"
  BY <1>1 DEF LoopTypes
<1>3. \A d \in Caller \ {c} : phase'[d] = phase[d] /\ job'[d] = job[d]
  BY <1>1 DEF LoopTypes
<1>4. ClaimedFirst'
  BY <1>1, <1>2, <1>3 DEF EInv, ClaimedFirst
<1>5. OncePerEvent'
  BY <1>1, <1>2, <1>3 DEF EInv, OncePerEvent, ClaimedFirst
<1>6. ASSUME NEW d \in Caller PROVE OwnWarrant(d)'
  <2>1. CASE d = c
    BY <1>1, <1>2, <2>1 DEF EInv, OwnWarrant, ClaimedFirst
  <2>2. CASE d # c
    BY <1>1, <1>3, <2>2 DEF EInv, OwnWarrant
  <2> QED BY <2>1, <2>2
<1>7. ASSUME NEW r \in receipts' PROVE Truthful(r)'
  BY <1>1 DEF EInv, Truthful
<1> QED BY <1>4, <1>5, <1>6, <1>7 DEF EInv

(* The warrant of a call is the first one of its event. *)
LEMMA EventsIssue ==
  ASSUME LoopTypes, IInv, EInv, NEW c \in Caller, IssueWarrant(c)
  PROVE  EInv'
<1> DEFINE w == [event |-> job[c].event, transition |-> job[c].transition, issued |-> now]
<1>1. /\ phase[c] = "issue" /\ phase' = [phase EXCEPT ![c] = "use"]
      /\ job' = [job EXCEPT ![c].warrant = w] /\ warrants' = warrants \cup {w}
      /\ UNCHANGED <<pc, use, executed, claimed, receipts>>
  BY DEF IssueWarrant, Issue
<1>2. w \in Warrant /\ job[c] \in Job /\ w.event = job[c].event /\ pc[c] = "idle"
  BY <1>1, AtWork DEF Warrant, LoopTypes
<1>3. job' = [job EXCEPT ![c] = [job[c] EXCEPT !.warrant = w]]
  BY <1>1 DEF LoopTypes
<1> HIDE DEF w
<1>4. job'[c].event = job[c].event /\ job'[c].warrant = w /\ phase'[c] = "use"
  BY <1>1, <1>2, <1>3 DEF Job, LoopTypes
<1>5. \A d \in Caller \ {c} : phase'[d] = phase[d] /\ job'[d] = job[d]
  BY <1>1, <1>3 DEF LoopTypes
<1>6. \A v \in warrants : v.event # w.event
  BY <1>1, <1>2 DEF EInv, OwnWarrant
<1>7. executed[w] = 0
  <2>1. w \notin warrants
    BY <1>6
  <2> QED BY <1>2, <2>1 DEF IInv, ExecutedSigned, TypeOK
<1>8. ClaimedFirst'
  BY <1>1, <1>2, <1>4, <1>5 DEF EInv, ClaimedFirst
<1>9. OncePerEvent'
  BY <1>1, <1>4, <1>5, <1>6 DEF EInv, OncePerEvent
<1>10. ASSUME NEW d \in Caller PROVE OwnWarrant(d)'
  <2>1. CASE d = c
    BY <1>1, <1>2, <1>4, <1>7, <2>1 DEF OwnWarrant
  <2>2. CASE d # c
    <3>1. phase[d] # "idle" => job[d].event # w.event
      BY <1>1, <1>2, <2>2 DEF EInv, OncePerEvent
    <3> QED BY <1>1, <1>5, <2>2, <3>1 DEF EInv, OwnWarrant
  <2> QED BY <2>1, <2>2
<1>11. ASSUME NEW r \in receipts' PROVE Truthful(r)'
  <2>1. r.event # w.event
    BY <1>1, <1>2 DEF EInv, OncePerEvent
  <2> QED BY <1>1, <2>1 DEF EInv, Truthful
<1> QED BY <1>8, <1>9, <1>10, <1>11 DEF EInv

(* The tool runs once on the warrant of a call, before its receipt. *)
LEMMA EventsRun ==
  ASSUME LoopTypes, IInv, EInv, NEW c \in Caller, RunTool(c)
  PROVE  EInv'
<1> DEFINE w == job[c].warrant
<1>1. /\ phase[c] = "use" /\ phase' = [phase EXCEPT ![c] = "receipt"]
      /\ use[c].warrant = w /\ executed' = [executed EXCEPT ![w] = @ + 1]
      /\ pc' = [pc EXCEPT ![c] = "idle"] /\ use' = [use EXCEPT ![c] = NoUse]
      /\ UNCHANGED <<warrants, claimed, receipts>>
  BY DEF RunTool, Execute, LoopTypes, EInv, OwnWarrant
<1>2. job' = [job EXCEPT ![c] = [job[c] EXCEPT !.attempt = use[c]]] /\ job[c] \in Job
  BY <1>1, AtWork DEF RunTool, LoopTypes
<1>3. w \in warrants /\ w \in Warrant /\ w.event = job[c].event /\ executed[w] = 0
  BY <1>1 DEF EInv, OwnWarrant, LoopTypes
<1>4. executed'[w] = 1 /\ \A v \in Warrant : v # w => executed'[v] = executed[v]
  BY <1>1, <1>3 DEF IInv, TypeOK
<1>5. /\ job'[c].event = job[c].event /\ job'[c].warrant = w
      /\ phase'[c] = "receipt" /\ pc'[c] = "idle"
  BY <1>1, <1>2 DEF Job, LoopTypes
<1>6. \A d \in Caller \ {c} : /\ phase'[d] = phase[d] /\ job'[d] = job[d]
                             /\ pc'[d] = pc[d] /\ use'[d] = use[d]
  BY <1>1, <1>2 DEF LoopTypes
<1>7. ClaimedFirst'
  BY <1>1, <1>5, <1>6 DEF EInv, ClaimedFirst
<1>8. OncePerEvent'
  BY <1>1, <1>5, <1>6 DEF EInv, OncePerEvent
<1>9. ASSUME NEW d \in Caller PROVE OwnWarrant(d)'
  <2>1. CASE d = c
    BY <1>1, <1>3, <1>4, <1>5, <2>1 DEF OwnWarrant
  <2>2. CASE d # c
    <3>1. phase[d] \in {"use", "receipt"} => job[d].warrant \in Warrant /\ job[d].warrant # w
      BY <1>1, <1>3, <2>2 DEF EInv, OwnWarrant, OncePerEvent, LoopTypes
    <3> HIDE DEF w
    <3> QED BY <1>1, <1>4, <1>6, <2>2, <3>1 DEF EInv, OwnWarrant
  <2> QED BY <2>1, <2>2
<1>10. ASSUME NEW r \in receipts' PROVE Truthful(r)'
  <2>1. r \in Receipt /\ Truthful(r) /\ r.event # w.event
    BY <1>1, <1>3 DEF EInv, OncePerEvent, LoopTypes
  <2>2. r.warrant # NoWarrant => r.warrant \in Warrant /\ r.warrant # w
    BY <2>1 DEF Truthful, Receipt
  <2> HIDE DEF w
  <2> QED BY <1>1, <1>4, <2>1, <2>2 DEF Truthful
<1> QED BY <1>7, <1>8, <1>9, <1>10 DEF EInv

(* The receipt of a call is the first one of its event, and it is true. *)
LEMMA EventsFinish ==
  ASSUME LoopTypes, EInv, NEW c \in Caller, phase[c] # "idle",
         NEW state \in {"simulated", "deny"}, Finish(c, state),
         state = "simulated" <=> phase[c] = "receipt",
         pc'[c] = "idle", \A d \in Caller \ {c} : pc'[d] = pc[d] /\ use'[d] = use[d],
         UNCHANGED <<warrants, executed, claimed>>
  PROVE  EInv'
<1> DEFINE w == job[c].warrant
           r == [event |-> job[c].event, state |-> state, warrant |-> w]
<1>1. /\ receipts' = receipts \cup {r} /\ phase' = [phase EXCEPT ![c] = "idle"]
      /\ job' = [job EXCEPT ![c] = NoJob]
  BY DEF Finish
<1>2. r.event = job[c].event /\ r.warrant = w /\ r.state = state
  OBVIOUS
<1>3. \A d \in Caller : phase'[d] # "idle" => d # c /\ phase'[d] = phase[d] /\ job'[d] = job[d]
  BY <1>1 DEF LoopTypes
<1>4. phase[c] = "issue" \/ phase[c] = "use" \/ phase[c] = "receipt"
  BY DEF LoopTypes
<1>5. w # NoWarrant =>
         /\ w \in warrants /\ w.event = job[c].event
         /\ state = "simulated" <=> executed[w] = 1
  BY <1>4 DEF EInv, OwnWarrant
<1>6. w = NoWarrant => state = "deny" /\ \A v \in warrants : v.event # job[c].event
  <2>1. w = NoWarrant => phase[c] = "issue"
    BY <1>4, NoJobAssumption DEF LoopTypes
  <2> QED BY <2>1 DEF EInv, OwnWarrant
<1>7. \A s \in receipts : s.event # job[c].event
  BY DEF EInv, OncePerEvent
<1> HIDE DEF w, r
<1>8. ClaimedFirst'
  BY <1>1, <1>2, <1>3 DEF EInv, ClaimedFirst
<1>9. OncePerEvent'
  <2>1. \A s, t \in receipts' : s.event = t.event => s = t
    BY <1>1, <1>2, <1>7 DEF EInv, OncePerEvent
  <2>2. \A s \in receipts', d \in Caller : phase'[d] # "idle" => job'[d].event # s.event
    BY <1>1, <1>2, <1>3 DEF EInv, OncePerEvent
  <2> QED BY <1>3, <2>1, <2>2 DEF EInv, OncePerEvent
<1>10. ASSUME NEW d \in Caller PROVE OwnWarrant(d)'
  <2>1. CASE d = c
    BY <1>1, <2>1 DEF OwnWarrant, LoopTypes
  <2>2. CASE d # c
    <3>1. phase'[d] = phase[d] /\ job'[d] = job[d]
      BY <1>1, <2>2 DEF LoopTypes
    <3> QED BY <2>2, <3>1 DEF EInv, OwnWarrant
  <2> QED BY <2>1, <2>2
<1>11. ASSUME NEW s \in receipts' PROVE Truthful(s)'
  <2>1. CASE s = r
    BY <1>2, <1>5, <1>6, <2>1 DEF Truthful
  <2>2. CASE s # r
    BY <1>1, <2>2 DEF EInv, Truthful
  <2> QED BY <2>1, <2>2
<1> QED BY <1>8, <1>9, <1>10, <1>11 DEF EInv

LEMMA EventsStep == LoopTypes /\ IInv /\ EInv /\ [LoopNext]_vars => EInv'
<1> SUFFICES ASSUME LoopTypes, IInv, EInv, [LoopNext]_vars PROVE EInv'
  OBVIOUS
<1>1. \A c \in Caller : pc[c] # "idle" => use[c].warrant = job[c].warrant
  BY DEF EInv, OwnWarrant
<1>2. CASE UNCHANGED vars
  BY <1>1, <1>2, EventsStay DEF vars, gateway, loop
<1>3. CASE Tick /\ UNCHANGED loop
  BY <1>1, <1>3, EventsStay DEF Tick, loop
<1>4. ASSUME NEW view \in Controls, SetControls(view) PROVE EInv'
  BY <1>1, <1>4, EventsStay DEF SetControls, gateway
<1>5. ASSUME NEW c \in Caller, NEW e \in Event, NEW t \in Transition, Begin(c, e, t)
      PROVE  EInv'
  BY <1>5, EventsBegin
<1>6. ASSUME NEW c \in Caller, IssueWarrant(c) PROVE EInv'
  BY <1>6, EventsIssue
<1>7. ASSUME NEW c \in Caller, UseWarrant(c) PROVE EInv'
  <2>1. /\ use' = [use EXCEPT ![c] = [warrant |-> job[c].warrant, event |-> job[c].event,
                                      transition |-> job[c].transition, checked |-> now]]
        /\ pc' = [pc EXCEPT ![c] = "claim"]
        /\ UNCHANGED <<warrants, executed, claimed, phase, job, receipts>>
    BY <1>7 DEF UseWarrant, Validate, loop
  <2>2. \A d \in Caller : pc'[d] # "idle" => use'[d].warrant = job[d].warrant
    BY <1>1, <2>1 DEF IInv, TypeOK
  <2> QED BY <2>1, <2>2, EventsStay
<1>8. ASSUME NEW c \in Caller, IssueDenied(c) \/ UseDenied(c) PROVE EInv'
  <2>1. /\ phase[c] \in {"issue", "use"} /\ Finish(c, "deny") /\ pc[c] = "idle"
        /\ UNCHANGED <<pc, use, warrants, claimed, executed>>
    BY <1>8 DEF IssueDenied, UseDenied, gateway, LoopTypes
  <2> QED BY <2>1, EventsFinish
<1>9. ASSUME NEW c \in Caller, ConsumeWarrant(c) PROVE EInv'
  <2>1. /\ phase[c] = "use" /\ UNCHANGED <<warrants, claimed, executed>>
        /\ \A d \in Caller \ {c} : pc'[d] = pc[d] /\ use'[d] = use[d]
    BY <1>9 DEF ConsumeWarrant, Consume, LoopTypes, IInv, TypeOK
  <2>2. CASE use[c].warrant \in consumed
    <3>1. Finish(c, "deny") /\ pc'[c] = "idle"
      BY <1>9, <2>2 DEF ConsumeWarrant, Consume, LoopTypes
    <3> QED BY <2>1, <3>1, EventsFinish
  <2>3. CASE use[c].warrant \notin consumed
    <3>1. UNCHANGED <<phase, job, receipts>> /\ use'[c] = use[c] /\ pc[c] # "idle"
      BY <1>9, <2>3 DEF ConsumeWarrant, Consume, IInv, TypeOK
    <3> QED BY <1>1, <2>1, <3>1, EventsStay
  <2> QED BY <2>2, <2>3
<1>10. ASSUME NEW c \in Caller, RunTool(c) PROVE EInv'
  BY <1>10, EventsRun
<1>11. ASSUME NEW c \in Caller, WriteReceipt(c) PROVE EInv'
  <2>1. /\ phase[c] = "receipt" /\ Finish(c, "simulated") /\ pc[c] = "idle"
        /\ UNCHANGED <<pc, use, warrants, claimed, executed>>
    BY <1>11 DEF WriteReceipt, gateway, LoopTypes
  <2> QED BY <2>1, EventsFinish
<1>12. ASSUME NEW c \in Caller, Stop(c) PROVE EInv'
  <2>1. /\ phase' = [phase EXCEPT ![c] = "idle"] /\ job' = [job EXCEPT ![c] = NoJob]
        /\ pc'[c] = "idle" /\ \A d \in Caller \ {c} : pc'[d] = pc[d] /\ use'[d] = use[d]
        /\ UNCHANGED <<warrants, executed, claimed, receipts>>
    BY <1>12 DEF Stop, Abort, gateway, LoopTypes, IInv, TypeOK
  <2> QED BY <2>1, EventsStop
<1> QED
  BY <1>2, <1>3, <1>4, <1>5, <1>6, <1>7, <1>8, <1>9, <1>10, <1>11, <1>12 DEF LoopNext

LEMMA EventsInvariant == LoopSpec => []EInv
<1>1. LoopTypes /\ IInv /\ EInv /\ [LoopNext]_<<gateway, loop>> => EInv'
  BY EventsStep DEF vars
<1> QED BY <1>1, EventsInit, LoopTyped, GatewayInvariant, PTL DEF LoopSpec

(* Every event has one warrant, one run of the tool and one receipt, at    *)
(* most, whatever the deliveries of it and their order.                    *)
THEOREM ActsOncePerEvent == LoopSpec => []OneActionPerEvent
<1>1. IInv /\ EInv => OneActionPerEvent
  BY DEF IInv, ExecutedOnce, EInv, OncePerEvent, OneActionPerEvent
<1> QED BY <1>1, GatewayInvariant, EventsInvariant, PTL

(* A receipt says what happened to the event it names, and a run of the    *)
(* tool is without one only where its call is about to write it or stopped.*)
THEOREM ReceiptsAreTrue == LoopSpec => []ReceiptsAgree
<1>1. LoopTypes /\ EInv => ReceiptsAgree
  <2> SUFFICES ASSUME LoopTypes, EInv PROVE ReceiptsAgree
    OBVIOUS
  <2>1. ASSUME NEW c \in Caller, phase[c] # "idle"
        PROVE  phase[c] = "receipt" <=>
                  \E w \in warrants : w.event = job[c].event /\ executed[w] = 1
    BY <2>1 DEF EInv, OwnWarrant, OncePerEvent, LoopTypes
  <2> QED BY <2>1 DEF EInv, Truthful, ReceiptsAgree
<1> QED BY <1>1, LoopTyped, EventsInvariant, PTL

(* A timeline is accepted for evidence of one event only, and is right. *)
THEOREM TimelinesAreSound == LoopSpec => []TimelineSound
<1>1. ASSUME IInv, EInv, NEW e \in KnownCase, NEW x \in KnownCase, NEW y \in KnownCase,
             NEW z \in KnownCase, NEW r \in receipts, Linked(e, r, Handoff(x), Twin(y, z))
      PROVE  /\ {r.event, x, y, z} = {e}
             /\ Timeline(r).outcome = "simulated" =>
                   /\ Timeline(r).warrant = "consumed"
                   /\ r.warrant \in consumed /\ executed[r.warrant] = 1
             /\ Timeline(r).warrant = "not_issued" => \A w \in warrants : w.event # e
  <2>1. r.event = e /\ x = e /\ y = e /\ z = e
    BY <1>1 DEF Linked, Handoff, Twin
  <2>2. Timeline(r).outcome = r.state
    BY DEF Timeline
  <2>3. Timeline(r).warrant = "not_issued" <=> r.warrant = NoWarrant
    BY DEF Timeline
  <2>4. r.warrant # NoWarrant => Timeline(r).warrant = "consumed" /\ r.warrant \in Warrant
    BY <1>1 DEF Timeline, EInv, Truthful, IInv, TypeOK
  <2>5. r.state = "simulated" =>
           r.warrant # NoWarrant /\ executed[r.warrant] = 1 /\ r.warrant \in consumed
    BY <1>1, <2>4 DEF EInv, Truthful, IInv, Unclaimed
  <2>6. r.warrant = NoWarrant => \A w \in warrants : w.event # e
    BY <1>1, <2>1 DEF EInv, Truthful
  <2> QED BY <2>1, <2>2, <2>3, <2>4, <2>5, <2>6
<1>2. IInv /\ EInv => TimelineSound
  BY <1>1 DEF TimelineSound
<1> QED BY <1>2, GatewayInvariant, EventsInvariant, PTL

-----------------------------------------------------------------------------
(* What a call knows of its warrant: the controls it read allowed it when  *)
(* it was signed and when it was checked, and nobody else consumes it; the *)
(* attempt it was returned tells when it was checked.                      *)
OwnUse(c) ==
    /\ phase[c] # "idle" => job[c].event \in KnownCase
    /\ phase[c] \in {"use", "receipt"} =>
          /\ job[c].warrant.transition = job[c].transition
          /\ IssueReason(job[c].event, job[c].transition, TRUE, job[c].view)
                = "action_warrant_issued"
    /\ phase[c] = "use" /\ pc[c] # "execute" => job[c].warrant \notin consumed
    /\ phase[c] = "receipt" =>
          UseReason({job[c].warrant}, job[c].warrant, job[c].event, job[c].transition,
                    job[c].view, job[c].attempt.checked) = "action_warrant_checked"
    /\ pc[c] # "idle" =>
          UseReason({job[c].warrant}, job[c].warrant, job[c].event, job[c].transition,
                    job[c].view, use[c].checked) = "action_warrant_checked"

AInv == consumed \subseteq warrants /\ \A c \in Caller : OwnUse(c)

LEMMA AloneInit == LoopInit => AInv
BY DEF LoopInit, Init, AInv, OwnUse

(* A check only asks whether the warrant it is given is signed. *)
LEMMA OneSigned ==
  ASSUME NEW w \in warrants, NEW e, NEW t, NEW view, NEW time
  PROVE  UseReason(warrants, w, e, t, view, time) = UseReason({w}, w, e, t, view, time)
BY DEF UseReason

(* What the others do leaves the use of a call alone. *)
LEMMA OthersStay ==
  ASSUME AInv, NEW c \in Caller,
         phase'[c] = phase[c], job'[c] = job[c], pc'[c] = pc[c], use'[c] = use[c],
         phase[c] = "use" /\ job[c].warrant \in consumed' => job[c].warrant \in consumed
  PROVE  OwnUse(c)'
BY DEF AInv, OwnUse

LEMMA AloneStep == LoopTypes /\ IInv /\ EInv /\ AInv /\ [LoopNext]_vars => AInv'
<1> SUFFICES ASSUME LoopTypes, IInv, EInv, AInv, [LoopNext]_vars PROVE AInv'
  OBVIOUS
<1> DEFINE Same(d) == phase'[d] = phase[d] /\ job'[d] = job[d] /\ pc'[d] = pc[d] /\ use'[d] = use[d]
<1>1. CASE UNCHANGED vars
  BY <1>1, OthersStay DEF vars, gateway, loop, AInv
<1>2. CASE Tick /\ UNCHANGED loop
  BY <1>2, OthersStay DEF Tick, loop, AInv
<1>3. ASSUME NEW view \in Controls, SetControls(view) PROVE AInv'
  BY <1>3, OthersStay DEF SetControls, gateway, AInv
<1>4. ASSUME NEW c \in Caller, NEW e \in Event, NEW t \in Transition, Begin(c, e, t)
      PROVE  AInv'
  <2>1. \A d \in Caller \ {c} : Same(d)
    BY <1>4 DEF Begin, gateway, LoopTypes
  <2>2. UNCHANGED <<consumed, warrants>> /\ phase'[c] = "issue" /\ pc'[c] = "idle"
        /\ job'[c].event \in KnownCase
    BY <1>4 DEF Begin, gateway, LoopTypes
  <2>3. OwnUse(c)'
    BY <2>2 DEF OwnUse
  <2> QED BY <2>1, <2>2, <2>3, OthersStay DEF AInv
<1>5. ASSUME NEW c \in Caller, IssueWarrant(c) PROVE AInv'
  <2> DEFINE w == [event |-> job[c].event, transition |-> job[c].transition, issued |-> now]
  <2>1. /\ phase[c] = "issue" /\ phase' = [phase EXCEPT ![c] = "use"]
        /\ job' = [job EXCEPT ![c].warrant = w] /\ warrants' = warrants \cup {w}
        /\ IssueReason(job[c].event, job[c].transition, TRUE, job[c].view)
              = "action_warrant_issued"
        /\ UNCHANGED <<pc, use, consumed>>
    BY <1>5 DEF IssueWarrant, Issue
  <2>2. w.event = job[c].event /\ w.transition = job[c].transition
        /\ job[c] \in Job /\ pc[c] = "idle"
    BY <2>1, AtWork DEF LoopTypes
  <2>3. job' = [job EXCEPT ![c] = [job[c] EXCEPT !.warrant = w]]
    BY <2>1 DEF LoopTypes
  <2> HIDE DEF w
  <2>4. /\ job'[c].event = job[c].event /\ job'[c].transition = job[c].transition
        /\ job'[c].view = job[c].view /\ job'[c].warrant = w /\ phase'[c] = "use"
    BY <2>1, <2>2, <2>3 DEF Job, LoopTypes
  <2>5. w \notin consumed
    BY <2>1, <2>2 DEF AInv, EInv, OwnWarrant
  <2>6. OwnUse(c)'
    <3>1. job'[c].event \in KnownCase /\ pc'[c] = "idle"
      BY <2>1, <2>2, <2>4 DEF AInv, OwnUse
    <3>2. job'[c].warrant.transition = job'[c].transition /\ job'[c].warrant \notin consumed'
      BY <2>1, <2>2, <2>4, <2>5
    <3>3. IssueReason(job'[c].event, job'[c].transition, TRUE, job'[c].view)
             = "action_warrant_issued"
      BY <2>1, <2>4
    <3> QED BY <2>4, <3>1, <3>2, <3>3 DEF OwnUse
  <2>7. \A d \in Caller \ {c} : Same(d)
    BY <2>1, <2>3 DEF LoopTypes
  <2> QED BY <2>1, <2>6, <2>7, OthersStay DEF AInv
<1>6. ASSUME NEW c \in Caller, UseWarrant(c) PROVE AInv'
  <2> DEFINE j == job[c]
  <2>1. /\ UseReason(warrants, j.warrant, j.event, j.transition, j.view, now)
              = "action_warrant_checked"
        /\ use' = [use EXCEPT ![c] = [warrant |-> j.warrant, event |-> j.event,
                                      transition |-> j.transition, checked |-> now]]
        /\ phase[c] = "use" /\ pc[c] = "idle" /\ pc' = [pc EXCEPT ![c] = "claim"]
        /\ UNCHANGED <<warrants, consumed, phase, job>>
    BY <1>6 DEF UseWarrant, Validate, loop
  <2>2. use'[c].checked = now /\ pc'[c] = "claim" /\ \A d \in Caller \ {c} : Same(d)
    BY <2>1 DEF IInv, TypeOK
  <2>3. j.warrant \in warrants
    BY <2>1 DEF EInv, OwnWarrant
  <2>4. UseReason({j.warrant}, j.warrant, j.event, j.transition, j.view, now)
           = "action_warrant_checked"
    BY <2>1, <2>3, OneSigned
  <2>5. OwnUse(c)'
    BY <2>1, <2>2, <2>4 DEF AInv, OwnUse
  <2> QED BY <2>1, <2>2, <2>5, OthersStay DEF AInv
<1>7. ASSUME NEW c \in Caller, IssueDenied(c) \/ UseDenied(c) \/ WriteReceipt(c) \/ Stop(c)
      PROVE  AInv'
  <2>1. /\ phase'[c] = "idle" /\ pc'[c] = "idle" /\ UNCHANGED <<warrants, consumed>>
        /\ \A d \in Caller \ {c} : Same(d)
    BY <1>7 DEF IssueDenied, UseDenied, WriteReceipt, Stop, Abort, Finish, gateway,
                LoopTypes, IInv, TypeOK
  <2>2. OwnUse(c)'
    BY <2>1 DEF OwnUse
  <2> QED BY <2>1, <2>2, OthersStay DEF AInv
<1>8. ASSUME NEW c \in Caller, ConsumeWarrant(c) PROVE AInv'
  <2>1. /\ pc[c] = "claim" /\ phase[c] = "use" /\ use[c].warrant = job[c].warrant
        /\ job[c].warrant \in warrants /\ job[c].warrant.event = job[c].event
        /\ job[c].warrant \notin consumed
    BY <1>8 DEF ConsumeWarrant, Consume, LoopTypes, EInv, OwnWarrant, AInv, OwnUse
  <2>2. /\ consumed' = consumed \cup {job[c].warrant} /\ pc' = [pc EXCEPT ![c] = "execute"]
        /\ UNCHANGED <<phase, job, receipts, warrants>>
        /\ \A d \in Caller : use'[d] = use[d]
    BY <1>8, <2>1 DEF ConsumeWarrant, Consume, IInv, TypeOK
  <2>3. pc'[c] = "execute" /\ \A d \in Caller \ {c} : Same(d)
    BY <2>2 DEF IInv, TypeOK
  <2>4. OwnUse(c)'
    BY <2>1, <2>2, <2>3 DEF AInv, OwnUse
  <2>5. ASSUME NEW d \in Caller \ {c} PROVE OwnUse(d)'
    <3>1. phase[d] = "use" => job[d].warrant # job[c].warrant
      BY <2>1 DEF EInv, OwnWarrant, OncePerEvent
    <3> QED BY <2>2, <2>3, <3>1, OthersStay
  <2> QED BY <2>1, <2>2, <2>4, <2>5 DEF AInv
<1>9. ASSUME NEW c \in Caller, RunTool(c) PROVE AInv'
  <2>1. /\ phase[c] = "use" /\ pc[c] = "execute" /\ phase' = [phase EXCEPT ![c] = "receipt"]
        /\ pc' = [pc EXCEPT ![c] = "idle"] /\ use' = [use EXCEPT ![c] = NoUse]
        /\ UNCHANGED <<warrants, consumed>>
    BY <1>9 DEF RunTool, Execute, LoopTypes
  <2>2. job' = [job EXCEPT ![c] = [job[c] EXCEPT !.attempt = use[c]]] /\ job[c] \in Job
    BY <1>9, <2>1, AtWork DEF RunTool, LoopTypes
  <2>3. /\ job'[c].event = job[c].event /\ job'[c].transition = job[c].transition
        /\ job'[c].view = job[c].view /\ job'[c].warrant = job[c].warrant
        /\ job'[c].attempt = use[c] /\ phase'[c] = "receipt" /\ pc'[c] = "idle"
    BY <2>1, <2>2 DEF Job, LoopTypes
  <2>4. OwnUse(c)'
    <3>1. /\ job[c].event \in KnownCase /\ job[c].warrant.transition = job[c].transition
          /\ IssueReason(job[c].event, job[c].transition, TRUE, job[c].view)
                = "action_warrant_issued"
          /\ UseReason({job[c].warrant}, job[c].warrant, job[c].event, job[c].transition,
                       job[c].view, use[c].checked) = "action_warrant_checked"
      BY <2>1 DEF AInv, OwnUse
    <3> QED BY <2>3, <3>1 DEF OwnUse
  <2>5. \A d \in Caller \ {c} : Same(d)
    BY <2>1, <2>2 DEF LoopTypes, IInv, TypeOK
  <2> QED BY <2>1, <2>4, <2>5, OthersStay DEF AInv
<1> QED
  BY <1>1, <1>2, <1>3, <1>4, <1>5, <1>6, <1>7, <1>8, <1>9 DEF LoopNext

LEMMA AloneInvariant == LoopSpec => []AInv
<1>1. LoopTypes /\ IInv /\ EInv /\ AInv /\ [LoopNext]_<<gateway, loop>> => AInv'
  BY AloneStep DEF vars
<1> QED BY <1>1, AloneInit, LoopTyped, GatewayInvariant, EventsInvariant, PTL DEF LoopSpec

(* The policy of a registered case allows its tool. *)
LEMMA PolicyAllows == \A e \in KnownCase : Policy(e).result = "allow"
BY DEF Policy

(* A call that ends with a receipt. *)
Answers(c) == phase[c] # "idle" /\ phase'[c] = "idle" /\ receipts' # receipts

LEMMA AnswerAlone ==
  ASSUME LoopTypes, IInv, EInv, AInv, LoopNext, NEW c \in Caller, Answers(c)
  PROVE  LET j == job[c]
             s == [from |-> IF j.warrant = NoWarrant THEN now ELSE j.warrant.issued,
                   to |-> IF phase[c] = "receipt" THEN j.attempt.checked
                          ELSE IF pc[c] = "idle" THEN now ELSE use[c].checked]
         IN receipts' = receipts \cup {LoopRun(j.event, j.transition, j.view, s).receipt}
<1> DEFINE j == job[c]
           s == [from |-> IF j.warrant = NoWarrant THEN now ELSE j.warrant.issued,
                 to |-> IF phase[c] = "receipt" THEN j.attempt.checked
                        ELSE IF pc[c] = "idle" THEN now ELSE use[c].checked]
           w == Issued(j.event, j.transition, s)
           Receipted(state, held) ==
              receipts' = receipts \cup {[event |-> j.event, state |-> state, warrant |-> held]}
<1>0. w = Issued(j.event, j.transition, s)
  OBVIOUS
<1>1. j.event \in KnownCase /\ NoWarrant \notin Warrant
  BY NoJobAssumption DEF Answers, AInv, OwnUse
<1>2. Issues(j.event, j.transition, j.view)
        <=> IssueReason(j.event, j.transition, TRUE, j.view) = "action_warrant_issued"
  BY <1>1, PolicyAllows DEF Issues
<1>3. phase[c] \in {"use", "receipt"} => j.warrant = w /\ j.warrant \in warrants
  <2>1. SUFFICES ASSUME phase[c] \in {"use", "receipt"} PROVE j.warrant = w /\ j.warrant \in warrants
    OBVIOUS
  <2>2. j.warrant \in Warrant /\ j.warrant.event = j.event /\ j.warrant.transition = j.transition
        /\ j.warrant \in warrants
    BY <2>1 DEF LoopTypes, EInv, OwnWarrant, AInv, OwnUse
  <2>3. s.from = j.warrant.issued
    BY <1>1, <2>2
  <2> QED BY <2>2, <2>3 DEF Warrant, Issued
<1>4. CASE IssueDenied(c)
  <2>1. Receipted("deny", NoWarrant) /\ ~Issues(j.event, j.transition, j.view)
    BY <1>2, <1>4 DEF IssueDenied, Finish, EInv, OwnWarrant
  <2>2. LoopRun(j.event, j.transition, j.view, s).receipt
           = [event |-> j.event, state |-> "deny", warrant |-> NoWarrant]
    <3> HIDE DEF j, s, w
    <3> QED BY <1>0, <2>1 DEF LoopRun
  <2> QED BY <2>1, <2>2
<1>5. CASE UseDenied(c)
  <2>1. Receipted("deny", j.warrant) /\ phase[c] = "use" /\ s.to = now
        /\ Issues(j.event, j.transition, j.view)
        /\ UseReason(warrants, j.warrant, j.event, j.transition, j.view, now)
              # "action_warrant_checked"
    BY <1>2, <1>5 DEF UseDenied, Finish, AInv, OwnUse
  <2>2. UseReason({w}, w, j.event, j.transition, j.view, s.to) # "action_warrant_checked"
    BY <1>3, <2>1, OneSigned
  <2>3. Used({w}, {}, w, j.event, j.transition, j.view, s.to) # "action_warrant_consumed"
    BY <2>2 DEF Used, UseReason
  <2>4. Receipted("deny", w)
    BY <1>3, <2>1
  <2>5. LoopRun(j.event, j.transition, j.view, s).receipt
           = [event |-> j.event, state |-> "deny", warrant |-> w]
    <3> HIDE DEF j, s, w
    <3> QED BY <1>0, <2>1, <2>3 DEF LoopRun
  <2> QED BY <2>4, <2>5
<1>6. CASE WriteReceipt(c)
  <2>1. Receipted("simulated", j.warrant) /\ phase[c] = "receipt"
        /\ s.to = j.attempt.checked /\ Issues(j.event, j.transition, j.view)
        /\ UseReason({j.warrant}, j.warrant, j.event, j.transition, j.view,
                     j.attempt.checked) = "action_warrant_checked"
    BY <1>2, <1>6 DEF WriteReceipt, Finish, AInv, OwnUse
  <2>2. Used({w}, {}, w, j.event, j.transition, j.view, s.to) = "action_warrant_consumed"
    BY <1>3, <2>1 DEF Used
  <2>3. Receipted("simulated", w)
    BY <1>3, <2>1
  <2>4. LoopRun(j.event, j.transition, j.view, s).receipt
           = [event |-> j.event, state |-> "simulated", warrant |-> w]
    <3> HIDE DEF j, s, w
    <3> QED BY <1>0, <2>1, <2>2 DEF LoopRun
  <2> QED BY <2>3, <2>4
<1>7. ASSUME NEW d \in Caller, ConsumeWarrant(d) PROVE FALSE
  <2>1. use[d].warrant \notin consumed
    BY <1>7 DEF ConsumeWarrant, Consume, LoopTypes, EInv, OwnWarrant, AInv, OwnUse
  <2> QED BY <1>7, <2>1 DEF ConsumeWarrant, Answers
<1>8. IssueDenied(c) \/ UseDenied(c) \/ WriteReceipt(c)
  <2>1. PICK d \in Caller : IssueDenied(d) \/ UseDenied(d) \/ WriteReceipt(d)
    BY <1>7 DEF LoopNext, Answers, Tick, loop, SetControls, Begin, IssueWarrant, UseWarrant,
              RunTool, Stop
  <2>2. \A b \in Caller \ {d} : phase'[b] = phase[b]
    BY <2>1 DEF IssueDenied, UseDenied, WriteReceipt, Finish, LoopTypes
  <2> QED BY <2>1, <2>2 DEF Answers
<1> QED BY <1>4, <1>5, <1>6, <1>8

(* A call among all others answers what it would answer alone. *)
THEOREM CallsAnswerAsAlone == LoopSpec => AnswersAsAlone
<1> DEFINE Alone(c) ==
      LET j == job[c]
          s == [from |-> IF j.warrant = NoWarrant THEN now ELSE j.warrant.issued,
                to |-> IF phase[c] = "receipt" THEN j.attempt.checked
                       ELSE IF pc[c] = "idle" THEN now ELSE use[c].checked]
      IN receipts' = receipts \cup {LoopRun(j.event, j.transition, j.view, s).receipt}
<1>1. LoopTypes /\ IInv /\ EInv /\ AInv /\ [LoopNext]_<<gateway, loop>>
      => [\A c \in Caller : Answers(c) => Alone(c)]_<<gateway, loop>>
  BY AnswerAlone
<1>2. [\A c \in Caller : Answers(c) => Alone(c)]_<<gateway, loop>>
      => [\A c \in Caller :
            phase[c] # "idle" /\ phase'[c] = "idle" /\ receipts' # receipts
            => Alone(c)]_<<gateway, loop>>
  BY DEF Answers
<1> QED
  BY <1>1, <1>2, LoopTyped, GatewayInvariant, EventsInvariant, AloneInvariant, PTL
  DEF LoopSpec, AnswersAsAlone

-----------------------------------------------------------------------------
(* Trust that any number of receipts earns: each is a run of the tool, and *)
(* receipts that all differ are as many events.                            *)
Earned(n) ==
    \A evidence \in [1..n -> receipts] :
        TrustState(evidence) = "earned_for_synthetic_simulation" =>
            /\ n >= 3
            /\ \A i \in 1..n :
                  /\ evidence[i].warrant # NoWarrant
                  /\ executed[evidence[i].warrant] = 1
            /\ (\A i, j \in 1..n : evidence[i] = evidence[j] => i = j) =>
                  Cardinality({evidence[i].event : i \in 1..n}) = n

LEMMA ReceiptsEarn == ASSUME EInv, NEW n \in Nat PROVE Earned(n)
<1> SUFFICES ASSUME NEW evidence \in [1..n -> receipts],
                    TrustState(evidence) = "earned_for_synthetic_simulation"
             PROVE  /\ n >= 3
                    /\ \A i \in 1..n :
                          /\ evidence[i].warrant # NoWarrant
                          /\ executed[evidence[i].warrant] = 1
                    /\ (\A i, j \in 1..n : evidence[i] = evidence[j] => i = j) =>
                          Cardinality({evidence[i].event : i \in 1..n}) = n
  BY DEF Earned
<1> DEFINE verified == {i \in DOMAIN evidence : Verified(evidence[i])}
<1>1. verified = 1..n /\ Cardinality(verified) >= 3
  BY DEF TrustState
<1>2. n >= 3
  <2>1. Cardinality(1..n) = n
    BY FS_Interval
  <2> QED BY <1>1, <2>1
<1>3. ASSUME NEW i \in 1..n
      PROVE  evidence[i].warrant # NoWarrant /\ executed[evidence[i].warrant] = 1
  <2>1. evidence[i] \in receipts /\ evidence[i].state = "simulated"
    BY <1>1 DEF Verified
  <2> QED BY <2>1 DEF EInv, Truthful
<1>4. ASSUME \A i, j \in 1..n : evidence[i] = evidence[j] => i = j
      PROVE  Cardinality({evidence[i].event : i \in 1..n}) = n
  <2> DEFINE events == {evidence[i].event : i \in 1..n}
             eventOf == [i \in 1..n |-> evidence[i].event]
  <2>1. eventOf \in [1..n -> events]
    OBVIOUS
  <2>2. ASSUME NEW i \in 1..n, NEW j \in 1..n, eventOf[i] = eventOf[j] PROVE i = j
    <3>1. evidence[i] \in receipts /\ evidence[j] \in receipts
      OBVIOUS
    <3>2. evidence[i] = evidence[j]
      BY <2>2, <3>1 DEF EInv, OncePerEvent
    <3> QED BY <1>4, <3>2
  <2>3. \A t \in events : \E i \in 1..n : eventOf[i] = t
    OBVIOUS
  <2>4. ExistsBijection(1..n, events)
    <3>1. eventOf \in Bijection(1..n, events)
      BY <2>1, <2>2, <2>3, Fun_IsBij
    <3> QED BY <3>1 DEF ExistsBijection
  <2>5. IsFiniteSet(1..n) /\ Cardinality(1..n) = n
    BY FS_Interval
  <2> QED BY <2>4, <2>5, FS_Bijection
<1> QED BY <1>2, <1>3, <1>4

(* Earned trust rests on work, for any number of receipts. *)
THEOREM TrustIsEarned == LoopSpec => [](\A n \in Nat : Earned(n))
<1>1. EInv => \A n \in Nat : Earned(n)
  BY ReceiptsEarn
<1> QED BY <1>1, EventsInvariant, PTL

(* Three receipts that differ are enough, and stand for three events. *)
THEOREM TrustTakesThreeEvents == LoopSpec => []EarnedByWork
<1>1. (\A n \in Nat : Earned(n)) => EarnedByWork
  <2> SUFFICES ASSUME \A n \in Nat : Earned(n),
                      NEW evidence \in UNION {[1..n -> receipts] : n \in 0..3},
                      TrustState(evidence) = "earned_for_synthetic_simulation"
               PROVE  /\ \A i \in DOMAIN evidence :
                            /\ evidence[i].warrant # NoWarrant
                            /\ executed[evidence[i].warrant] = 1
                      /\ (\A i, j \in DOMAIN evidence : evidence[i] = evidence[j] => i = j) =>
                            Cardinality({evidence[i].event : i \in DOMAIN evidence}) = 3
    BY DEF EarnedByWork
  <2>1. PICK n \in 0..3 : evidence \in [1..n -> receipts]
    OBVIOUS
  <2>2. Earned(n) /\ DOMAIN evidence = 1..n
    BY <2>1
  <2>3. n >= 3 /\ n \in 0..3
    BY <2>1, <2>2 DEF Earned
  <2>4. n = 3
    BY <2>3
  <2> QED BY <2>1, <2>2, <2>4 DEF Earned
<1> QED BY <1>1, TrustIsEarned, PTL

-----------------------------------------------------------------------------
(* A scenario of the registered case, alone on its loop: it simulates if   *)
(* it is in time, and else its warrant has expired.                        *)
Scenario(s) == LoopRun(DemoEvent, Prepared, DefaultControls, s)

LEMMA DemoIssues ==
  ASSUME NEW t \in Allowed PROVE Issues(DemoEvent, t, DefaultControls)
BY SuiteAssumption DEF Issues, Policy, IssueReason, DefaultControls

LEMMA DemoWarrant ==
  ASSUME NEW s \in Span, NEW t \in Allowed
  PROVE  Issued(DemoEvent, t, s) \in Warrant /\ Issued(DemoEvent, t, s) # NoWarrant
<1>1. Issued(DemoEvent, t, s) \in Warrant
  BY SuiteAssumption, FixtureAssumption DEF Issued, Warrant, Span
<1> QED BY <1>1, NoJobAssumption

LEMMA DemoUsed ==
  ASSUME NEW s \in Span, NEW t \in Allowed, NEW taken,
         Issued(DemoEvent, t, s) \notin taken
  PROVE  Used({Issued(DemoEvent, t, s)}, taken, Issued(DemoEvent, t, s), DemoEvent, t,
              DefaultControls, s.to)
            = IF InTime(s) THEN "action_warrant_consumed" ELSE "action_warrant_expired"
<1> DEFINE w == Issued(DemoEvent, t, s)
<1>1. w.event = DemoEvent /\ w.transition = t /\ w.issued = s.from
  BY DEF Issued
<1>2. Expired(w, s.to) <=> ~InTime(s)
  <2>1. s.from \in Int /\ s.to \in Int /\ TTL \in Int
    BY TimeAssumption DEF Span
  <2> QED BY <1>1, <2>1 DEF Expired, InTime
<1>3. UseReason({w}, w, DemoEvent, t, DefaultControls, s.to)
         = IF InTime(s) THEN "action_warrant_checked" ELSE "action_warrant_expired"
  <2> HIDE DEF w
  <2> QED BY <1>1, <1>2, SuiteAssumption DEF UseReason, DefaultControls
<1> HIDE DEF w
<1> QED BY <1>3 DEF Used, w

LEMMA ScenarioAnswers ==
  ASSUME NEW s \in Span
  PROVE  /\ Scenario(s).receipt.event = DemoEvent
         /\ Scenario(s).receipt.warrant = Issued(DemoEvent, Prepared, s)
         /\ Scenario(s).receipt.state = IF InTime(s) THEN "simulated" ELSE "deny"
         /\ Scenario(s).reason = IF InTime(s) THEN "sprint_3_warranted_simulation_only"
                                 ELSE "action_warrant_expired"
<1>1. Prepared \in Allowed /\ Issues(DemoEvent, Prepared, DefaultControls)
  BY DemoIssues, SuiteAssumption
<1>2. Used({Issued(DemoEvent, Prepared, s)}, {}, Issued(DemoEvent, Prepared, s), DemoEvent,
           Prepared, DefaultControls, s.to)
         = IF InTime(s) THEN "action_warrant_consumed" ELSE "action_warrant_expired"
  BY <1>1, DemoUsed
<1>3. CASE InTime(s)
  BY <1>1, <1>2, <1>3 DEF Scenario, LoopRun
<1>4. CASE ~InTime(s)
  BY <1>1, <1>2, <1>4 DEF Scenario, LoopRun
<1> QED BY <1>3, <1>4

(* The safety probes end as they should on any clock. *)
LEMMA AlwaysSafe == ASSUME NEW p \in Pace PROVE Safe(p)
<1>1. ProbeMalformedEvent = "malformed_synthetic_pubsub_envelope"
  BY DEF ProbeMalformedEvent, Decode
<1>2. ProbeCrossRoleKnowledge = "knowledge_pack_specialist_not_authorized"
  BY DEF ProbeCrossRoleKnowledge, Retrieve, KnowledgePacks
<1>3. ProbeForgedWarrant(p.forged) = "invalid_action_warrant_signature"
  BY DemoIssues, SuiteAssumption DEF ProbeForgedWarrant, Used, UseReason, DefaultControls
<1>4. ProbeKillSwitchRace(p.race) = "global_kill_switch_engaged"
  BY DemoIssues, SuiteAssumption DEF ProbeKillSwitchRace, Used, UseReason, DefaultControls
<1>5. ProbeSelfAuthorization(p.earned) = "production_self_authorization_denied"
  BY DEF ProbeSelfAuthorization, EnablesProduction
<1> QED BY <1>1, <1>2, <1>3, <1>4, <1>5 DEF Safe, Untrusted

(* The evaluation passes in full exactly when its scenario is in time. *)
Cases == {"support", "outreach", "refund", "escalation", "privacy", "authorization",
          "knowledge"}

LEMMA FullScore == ASSUME NEW s \in Span PROVE PerfectScore(s) <=> InTime(s)
<1>1. DOMAIN Expected = Cases
  BY DEF Expected, Cases
<1>2. IsFiniteSet(Cases)
  <2>1. IsFiniteSet({"support"}) /\ IsFiniteSet({"outreach"}) /\ IsFiniteSet({"refund"})
        /\ IsFiniteSet({"escalation"}) /\ IsFiniteSet({"privacy"})
        /\ IsFiniteSet({"authorization"}) /\ IsFiniteSet({"knowledge"})
    BY FS_Singleton
  <2>2. Cases = {"support"} \cup ({"outreach"} \cup ({"refund"} \cup ({"escalation"}
                  \cup ({"privacy"} \cup ({"authorization"} \cup {"knowledge"})))))
    BY DEF Cases
  <2> QED BY <2>1, <2>2, FS_Union
<1>3. Passed(s) \in SUBSET Cases
  BY <1>1 DEF Passed
<1>4. PerfectScore(s) <=> Passed(s) = Cases
  <2>1. Cardinality(Passed(s)) = Cardinality(Cases) <=> Passed(s) = Cases
    BY <1>2, <1>3, FS_Subset
  <2> QED BY <1>1, <2>1 DEF PerfectScore
<1>5. \A c \in Cases \ {"support"} : Actual(s)[c] = Expected[c]
  <2>1. Policy(UnknownEvent).result = "escalate"
        /\ Policy(UnknownEvent).reason = "synthetic_case_evidence_unavailable"
        /\ Policy(DemoEvent).tool = "prepare_simulated_ticket_transition"
    BY SuiteAssumption DEF Policy
  <2>2. ~Allows([DefaultControls EXCEPT !.kill = TRUE])
    BY DEF Allows, DefaultControls
  <2>3. ProbeCrossRoleKnowledge = "knowledge_pack_specialist_not_authorized"
    BY DEF ProbeCrossRoleKnowledge, Retrieve, KnowledgePacks
  <2> QED
    BY <2>1, <2>2, <2>3 DEF Cases, Actual, Expected, OutreachEvaluation, RefundEvaluation,
       EscalationEvaluation, PrivacyEvaluation, ToolAuthorizationEvaluation,
       KnowledgeScopeEvaluation, ToolContracts, Untrusted
<1>6. Actual(s)["support"] = Expected["support"] <=> InTime(s)
  <2>1. Actual(s)["support"] = <<Scenario(s).receipt.state, Scenario(s).reason>>
    BY DEF Actual, SupportEvaluation, Scenario
  <2>2. Expected["support"] = <<"simulated", "sprint_3_warranted_simulation_only">>
    BY DEF Expected
  <2>3. Scenario(s).receipt.state = IF InTime(s) THEN "simulated" ELSE "deny"
    BY ScenarioAnswers
  <2>4. InTime(s) => Scenario(s).reason = "sprint_3_warranted_simulation_only"
    BY ScenarioAnswers
  <2> QED BY <2>1, <2>2, <2>3, <2>4
<1>7. "support" \in Cases
  BY DEF Cases
<1>8. Passed(s) = {c \in Cases : Actual(s)[c] = Expected[c]}
  BY <1>1 DEF Passed
<1>9. Passed(s) = Cases <=> InTime(s)
  BY <1>5, <1>6, <1>7, <1>8
<1> QED BY <1>4, <1>9

-----------------------------------------------------------------------------
(* What a dossier shows on the clock that stands still. *)
LEMMA StandsStill ==
  ASSUME TTL > 0
  PROVE  /\ DemoTime \in Span /\ InTime(DemoTime)
         /\ WarrantDossier.first = "action_warrant_consumed"
         /\ WarrantDossier.second = "action_warrant_already_consumed"
<1>1. DemoTime \in Span /\ InTime(DemoTime)
  BY TimeAssumption DEF DemoTime, Span, InTime
<1> DEFINE w == Issued(DemoEvent, Prepared, DemoTime)
           useAfter(taken) ==
             Used({w}, taken, w, DemoEvent, Prepared, DefaultControls, DemoTime.to)
<1>2. useAfter({}) = "action_warrant_consumed"
  BY <1>1, DemoUsed, SuiteAssumption
<1>3. useAfter({w}) = "action_warrant_already_consumed"
  <2> HIDE DEF w
  <2> QED BY <1>2 DEF Used, UseReason
<1>4. Issues(DemoEvent, Prepared, DefaultControls)
  BY DemoIssues, SuiteAssumption
<1>5. WarrantDossier = [first |-> useAfter({}), second |-> useAfter({w})]
  BY <1>2, <1>4 DEF WarrantDossier
<1> HIDE DEF useAfter
<1> QED BY <1>1, <1>2, <1>3, <1>5

(* The evidence of a run is always linked. *)
LEMMA AlwaysReplayed == ASSUME NEW s \in Span PROVE Replayed(s)
<1>1. Scenario(s).receipt.event = DemoEvent
  BY ScenarioAnswers
<1> QED BY <1>1 DEF Replayed, Scenario, Linked, Handoff, Twin

(* The audit of the deployed fleet has no finding. *)
LEMMA DeployedIsVerified == BoundariesVerified(DeployedFleet)
<1> DEFINE f == DeployedFleet
           contract == [name |-> Simulate, effect |-> "simulation_only", warranted |-> TRUE]
<1>1. f.names = Chain /\ f.children = Chain
  BY DEF DeployedFleet
<1>2. \A a \in {Intake, Guard, Escalation} : f.tools[a] = IF a = Intake THEN {Read} ELSE {}
  BY DEF DeployedFleet, Intake, Guard, Escalation, Router
<1>3. f.tools[Router] = {}
  BY DEF DeployedFleet, Intake, Guard, Escalation, Router
<1>4. /\ f.handoff[Intake] = {Guard} /\ f.handoff[Guard] = {Escalation}
      /\ f.handoff[Escalation] = {}
  BY DEF DeployedFleet, Specialists, Intake, Guard, Escalation
<1>5. \A a \in DOMAIN f.handoff :
         Topology(f).node[a] = [reads |-> Specialists[a].reads, targets |-> f.handoff[a],
                                authority |-> "none"]
  BY DEF Topology
<1>6. Topology(f).gatewayOutside /\ Topology(f).businessTools = 0
  BY DEF Topology
<1>7. f.contracts = {contract}
  BY DEF DeployedFleet
<1>8. Cardinality(f.contracts) = 1
  BY <1>7, FS_Singleton
<1>9. \A t \in f.contracts : t.name = Simulate /\ t.effect = "simulation_only" /\ t.warranted
  BY <1>7
<1>10. ~Capabilities.externalActions /\ ~Capabilities.productionAuthority
  BY DEF Capabilities
<1>11. AuthorityAudit(f) =
          [protocol_agents_match_adk_definitions |-> TRUE,
           synthetic_read_tool_is_singleton |-> TRUE,
           router_has_no_direct_tools |-> TRUE,
           topology_matches_closed_protocol |-> TRUE,
           handoff_chain_is_closed |-> TRUE,
           gateway_is_outside_agent_fleet |-> TRUE,
           registered_tool_is_warranted_simulation_only |-> TRUE]
  <2> HIDE DEF f
  <2> QED
    BY <1>1, <1>2, <1>3, <1>4, <1>5, <1>6, <1>8, <1>9, <1>10 DEF AuthorityAudit
<1> QED BY <1>11 DEF BoundariesVerified

(* Every report comes down to the evaluations that have to be in time. *)
LEMMA PaceOfScenarios ==
  ASSUME NEW spans \in [1..10 -> Pace], NEW k \in 1..10
  PROVE  spans[k] \in Pace /\ spans[k].loop \in Span /\ spans[k].evaluation \in Span
BY DEF Pace, Scenarios

LEMMA DemoFollows ==
  ASSUME NEW spans \in [1..10 -> Pace], NEW k \in 1..9
  PROVE  DemoVerified(spans, k) <=> InTime(spans[k].evaluation) /\ InTime(spans[k + 1].evaluation)
<1>1. k \in 1..10 /\ k + 1 \in 1..10
  OBVIOUS
<1>2. /\ JudgeDemo(spans[k]).built /\ JudgeDemo(spans[k]).safe
      /\ JudgeDemo(spans[k]).perfect <=> InTime(spans[k].evaluation)
  BY <1>1, PaceOfScenarios, AlwaysReplayed, AlwaysSafe, FullScore DEF JudgeDemo
<1>3. /\ Safe(spans[k + 1])
      /\ PerfectScore(spans[k + 1].evaluation) <=> InTime(spans[k + 1].evaluation)
  BY <1>1, PaceOfScenarios, AlwaysSafe, FullScore
<1> QED BY <1>2, <1>3 DEF DemoVerified

(* What a judge demo shows is the outcome of its own run. *)
LEMMA DemoShows ==
  ASSUME NEW spans \in [1..10 -> Pace], NEW k \in 1..10
  PROVE  JudgeDemo(spans[k]).outcome = "simulated" <=> InTime(spans[k].loop)
<1>1. JudgeDemo(spans[k]).outcome = Scenario(spans[k].loop).receipt.state
  BY DEF JudgeDemo, Scenario
<1> QED BY <1>1, PaceOfScenarios, ScenarioAnswers

LEMMA ProofFollows ==
  ASSUME TTL > 0, NEW spans \in [1..10 -> Pace], NEW k \in 1..5
  PROVE  ProofVerified(spans, k) <=>
            /\ InTime(spans[k + 1].evaluation) /\ InTime(spans[k + 2].evaluation)
            /\ InTime(spans[k + 4].evaluation) /\ InTime(spans[k + 5].evaluation)
<1>1. k \in 1..10 /\ k + 3 \in 1..10 /\ k + 1 \in 1..9 /\ k + 4 \in 1..9
      /\ (k + 1) + 1 = k + 2 /\ (k + 4) + 1 = k + 5
  OBVIOUS
<1>2. JudgeDemo(spans[k]).built /\ JudgeDemo(spans[k + 3]).built
  BY <1>1, PaceOfScenarios, AlwaysReplayed DEF JudgeDemo
<1>3. TimeMachineReplayed
  BY StandsStill, AlwaysReplayed DEF TimeMachineReplayed
<1>4. /\ ~Capabilities.externalActions /\ ~Capabilities.productionAuthority
      /\ ModelConfiguration.satisfied /\ ~ModelConfiguration.providerCalled
      /\ ~ModelConfiguration.deployed /\ FixtureCount > 0
      /\ Topology(DeployedFleet).businessTools = 0 /\ Topology(DeployedFleet).gatewayOutside
  BY DEF Capabilities, ModelConfiguration, FixtureCount, Topology
<1>5. BundlePassed(spans, k) <=> DemoVerified(spans, k + 1)
  BY <1>2, <1>3, <1>4, StandsStill DEF BundlePassed
<1>6. ProofVerified(spans, k) <=> BundlePassed(spans, k) /\ DemoVerified(spans, k + 4)
  BY <1>2, <1>4 DEF ProofVerified
<1> QED BY <1>1, <1>5, <1>6, DemoFollows

(* The gates follow the evaluations they rest on, for any span that any    *)
(* scenario of any execution takes.                                        *)
THEOREM GatesFollow ==
  ASSUME TTL > 0, NEW spans \in [1..10 -> Pace], NEW files \in BOOLEAN
  PROVE  LET gates == Readiness(spans, files, DeployedFleet) IN
         /\ gates.source_commit # "blocked" <=> \A k \in 1..2 : InTime(spans[k].evaluation)
         /\ gates.cloud_run_preflight = "passed" <=>
               files /\ \A k \in {3, 4, 6, 7, 9, 10} : InTime(spans[k].evaluation)
<1> DEFINE good(k) == InTime(spans[k].evaluation)
<1>1. DemoVerified(spans, 1) <=> good(1) /\ good(2)
  BY DemoFollows
<1>2. DemoVerified(spans, 3) <=> good(3) /\ good(4)
  BY DemoFollows
<1>3. ProofVerified(spans, 5) <=> good(6) /\ good(7) /\ good(9) /\ good(10)
  BY ProofFollows
<1> HIDE DEF good
<1>4. PreflightPassed(spans, 3, files, DeployedFleet) <=>
         files /\ DemoVerified(spans, 3) /\ ProofVerified(spans, 5)
  BY DeployedIsVerified DEF PreflightPassed, Capabilities, ModelConfiguration
<1>5. PreflightPassed(spans, 3, files, DeployedFleet) <=>
         files /\ \A k \in {3, 4, 6, 7, 9, 10} : good(k)
  BY <1>2, <1>3, <1>4
<1>6. DemoVerified(spans, 1) <=> \A k \in 1..2 : good(k)
  BY <1>1
<1> QED BY <1>5, <1>6 DEF Readiness, good

-----------------------------------------------------------------------------
(* An audit without findings leaves no fleet a way to authority. *)
LEMMA AuditCloses ==
  ASSUME NEW f, DOMAIN f.tools = {Intake, Guard, Escalation, Router},
         DOMAIN f.handoff = {Intake, Guard, Escalation}, BoundariesVerified(f)
  PROVE  /\ \A a \in DOMAIN f.tools : f.tools[a] \subseteq IF a = Intake THEN {Read} ELSE {}
         /\ \A a \in DOMAIN f.handoff : a \notin Reach(f, a)
         /\ \A i \in DOMAIN f.children : f.children[i] \in DOMAIN f.handoff
         /\ \A t \in f.contracts : t.effect = "simulation_only" /\ t.warranted
<1>1. \A x \in {"synthetic_read_tool_is_singleton", "router_has_no_direct_tools",
                "handoff_chain_is_closed",
                "registered_tool_is_warranted_simulation_only"} : AuthorityAudit(f)[x]
  BY DEF BoundariesVerified, AuthorityAudit
<1>2. \A a \in {Intake, Guard, Escalation} : f.tools[a] = IF a = Intake THEN {Read} ELSE {}
  BY <1>1 DEF AuthorityAudit
<1>3. f.tools[Router] = {} /\ f.children = Chain
  BY <1>1 DEF AuthorityAudit
<1>4. /\ f.handoff[Intake] = {Guard} /\ f.handoff[Guard] = {Escalation}
      /\ f.handoff[Escalation] = {}
  BY <1>1 DEF AuthorityAudit
<1>5. \A t \in f.contracts : t.effect = "simulation_only" /\ t.warranted
  BY <1>1 DEF AuthorityAudit
<1>6. /\ Intake # Guard /\ Intake # Escalation /\ Guard # Escalation
      /\ Router \notin {Intake, Guard, Escalation}
  BY DEF Intake, Guard, Escalation, Router
<1>7. \A a \in DOMAIN f.handoff : a \notin Reach(f, a)
  <2> DEFINE next(S) == S \cup UNION {f.handoff[b] : b \in S}
  <2>1. next({}) = {} /\ next({Escalation}) = {Escalation}
        /\ next({Guard}) = {Guard, Escalation}
        /\ next({Guard, Escalation}) = {Guard, Escalation}
    BY <1>4
  <2>2. \A a : Reach(f, a) = next(next(f.handoff[a]))
    BY DEF Reach
  <2> HIDE DEF next
  <2> QED BY <1>4, <1>6, <2>1, <2>2
<1>8. \A i \in DOMAIN f.children : f.children[i] \in DOMAIN f.handoff
  BY <1>3 DEF Chain
<1>9. \A a \in DOMAIN f.tools : f.tools[a] \subseteq IF a = Intake THEN {Read} ELSE {}
  BY <1>2, <1>3, <1>6
<1> QED BY <1>5, <1>7, <1>8, <1>9

LEMMA FleetShape ==
  ASSUME NEW f \in Fleets
  PROVE  /\ DOMAIN f.tools = {Intake, Guard, Escalation, Router}
         /\ DOMAIN f.handoff = {Intake, Guard, Escalation}
<1>1. /\ DOMAIN DeployedFleet.tools = {Intake, Guard, Escalation, Router}
      /\ DOMAIN DeployedFleet.handoff = {Intake, Guard, Escalation}
  BY DEF DeployedFleet, Specialists, Intake, Guard, Escalation
<1>2. DOMAIN Specialists = {Intake, Guard, Escalation}
  BY DEF Specialists, Intake, Guard, Escalation
<1>3. DOMAIN DeployedFleet = {"names", "tools", "children", "handoff", "contracts"}
  BY DEF DeployedFleet
<1>4. ASSUME NEW v, f = [DeployedFleet EXCEPT !.children = v]
                 \/ f = [DeployedFleet EXCEPT !.names = v]
                 \/ f = [DeployedFleet EXCEPT !.contracts = v]
      PROVE  f.tools = DeployedFleet.tools /\ f.handoff = DeployedFleet.handoff
  BY <1>3, <1>4
<1>5. ASSUME NEW v, f = [DeployedFleet EXCEPT !.tools = v]
      PROVE  f.tools = v /\ f.handoff = DeployedFleet.handoff
  BY <1>3, <1>5
<1>6. ASSUME NEW v, f = [DeployedFleet EXCEPT !.handoff = v]
      PROVE  f.tools = DeployedFleet.tools /\ f.handoff = v
  BY <1>3, <1>6
<1>7. \/ \E v \in [DOMAIN DeployedFleet.tools -> SUBSET {Read, Simulate}] :
             f = [DeployedFleet EXCEPT !.tools = v]
      \/ \E v \in [DOMAIN Specialists -> SUBSET DOMAIN Specialists] :
             f = [DeployedFleet EXCEPT !.handoff = v]
      \/ \E v : \/ f = [DeployedFleet EXCEPT !.children = v]
                \/ f = [DeployedFleet EXCEPT !.names = v]
                \/ f = [DeployedFleet EXCEPT !.contracts = v]
  BY DEF Fleets
<1> QED BY <1>1, <1>2, <1>4, <1>5, <1>6, <1>7

(* An approval is true at any pace: the run it tells of has its own clock. *)
LEMMA ApprovalsAreTrue == ASSUME TTL > 0 PROVE ApprovalIsTrue
<1> SUFFICES ASSUME NEW decision \in {"approve_simulation", "decline_simulation"},
                    NEW s \in Span
             PROVE  LET resolution == ResolveApproval(decision, s) IN
                    /\ resolution.executed <=> decision = "approve_simulation"
                    /\ resolution.executed <=> resolution.status = "simulated"
                    /\ resolution.executed <=> resolution.warrant # NoWarrant
  BY DEF ApprovalIsTrue
<1>1. /\ Scenario(DemoTime).receipt.state = "simulated"
      /\ Scenario(DemoTime).receipt.warrant # NoWarrant
  BY StandsStill, ScenarioAnswers, DemoWarrant, SuiteAssumption
<1> QED BY <1>1 DEF ResolveApproval, Scenario

-----------------------------------------------------------------------------
(* The report in the making: its spans are spans of the clock, and what is *)
(* published comes from them.                                              *)
ReportOK ==
    /\ turn \in 0..11
    /\ step \in 1..5
    /\ issued # NoTime => turn \in 1..10 /\ issued \in 0..now
    /\ turn # 0 \/ published # NoReport => pace \in [1..10 -> Pace]
    /\ published # NoReport =>
          /\ turn = 0 /\ published.files \in BOOLEAN
          /\ published.gates = Readiness(pace, published.files, DeployedFleet)

LEMMA ReportInitOK == ReportInit => ReportOK
BY DEF ReportInit, ReportOK

(* The clock goes on under every step of the gateway, and so of the loop. *)
LEMMA ClockGoesOn == ASSUME LoopTypes, LoopNext PROVE now <= now'
<1>1. now \in Nat /\ [Next]_gateway
  BY StepUsesGateway, TimeAssumption DEF LoopTypes, vars
<1>2. CASE Tick \/ UNCHANGED gateway
  BY <1>1, <1>2 DEF Tick, gateway
<1>3. CASE UNCHANGED now
  BY <1>1, <1>3
<1> QED BY <1>1, <1>2, <1>3 DEF Next, Issue, Validate, Consume, Execute, Abort

LEMMA ReportStepOK ==
  ASSUME LoopTypes, LoopTypes', ReportOK, [ServerNext]_<<gateway, loop, report>>
  PROVE  ReportOK'
<1> USE TimeAssumption, NoTimeAssumption
<1>1. CASE UNCHANGED report /\ now' >= now
  BY <1>1 DEF report, ReportOK, LoopTypes
<1>2. CASE ReportBegins /\ UNCHANGED now
  <2>1. DemoTime \in Span
    BY DEF DemoTime, Span
  <2>2. pace' \in [1..10 -> Pace]
    BY <1>2, <2>1 DEF ReportBegins, Pace
  <2> QED BY <1>2, <2>2 DEF ReportBegins, ReportOK, FirstStep
<1>3. CASE ScenarioIssues /\ UNCHANGED now
  BY <1>3 DEF ScenarioIssues, ReportOK, LoopTypes
<1>4. CASE ScenarioUses /\ UNCHANGED now
  <2>1. turn \in 1..10 /\ issued \in 0..now /\ step \in 1..5 /\ pace \in [1..10 -> Pace]
    BY <1>4 DEF ScenarioUses, ReportOK
  <2>2. [from |-> issued, to |-> now] \in Span
    BY <2>1 DEF Span, LoopTypes
  <2>3. pace' \in [1..10 -> Pace]
    BY <1>4, <2>1, <2>2 DEF ScenarioUses, Pace
  <2>4. Len(Steps) = 5
    BY DEF Steps
  <2>5. turn' \in 1..11 /\ step' \in 1..5 /\ issued' = NoTime
    BY <1>4, <2>1, <2>4 DEF ScenarioUses, FirstStep
  <2>6. published = NoReport /\ published' = NoReport
    BY <1>4, <2>1 DEF ScenarioUses, ReportOK
  <2> QED BY <2>3, <2>5, <2>6 DEF ReportOK
<1>5. ASSUME NEW files \in BOOLEAN, ReportEnds(files), UNCHANGED now PROVE ReportOK'
  BY <1>5 DEF ReportEnds, ReportOK
<1>6. CASE LoopNext /\ UNCHANGED report
  BY <1>1, <1>6, ClockGoesOn
<1>7. CASE ReportNext /\ UNCHANGED <<gateway, loop>>
  BY <1>2, <1>3, <1>4, <1>5, <1>7 DEF ReportNext, gateway
<1>8. CASE UNCHANGED <<gateway, loop, report>>
  BY <1>1, <1>8 DEF gateway, LoopTypes
<1> QED BY <1>6, <1>7, <1>8 DEF ServerNext

(* The reports change nothing in the loop: what is proved of it holds      *)
(* beside them.                                                            *)
THEOREM ReportsLeaveLoop == ServerSpec => LoopSpec
<1>1. ReportInit => LoopInit
  BY DEF ReportInit
<1>2. [ServerNext]_<<gateway, loop, report>> => [LoopNext]_<<gateway, loop>>
  BY DEF ServerNext, report
<1> QED BY <1>1, <1>2, PTL DEF ServerSpec, LoopSpec

(* Whatever the clock, the loop and the report do, the gates of a published*)
(* report follow its evaluations, the audit is sound and approvals are     *)
(* true.  A warrant lives for some time: 300 seconds.                      *)
THEOREM ReportsAreTrue == ASSUME TTL > 0 PROVE ServerSpec => []ReportsHold
<1>1. ServerSpec => []LoopTypes
  BY ReportsLeaveLoop, LoopTyped, PTL
<1>2. ServerSpec => []ReportOK
  BY <1>1, ReportInitOK, ReportStepOK, PTL DEF ServerSpec
<1>3. ReportOK => ReportsHold
  <2>1. ReportOK => GatesFollowEvaluations
    <3> SUFFICES ASSUME ReportOK, published # NoReport PROVE GatesFollowEvaluations
      BY DEF GatesFollowEvaluations
    <3>1. /\ pace \in [1..10 -> Pace] /\ published.files \in BOOLEAN
          /\ published.gates = Readiness(pace, published.files, DeployedFleet)
      BY DEF ReportOK
    <3>2. \A k \in Demos : k \in 1..10
      BY DEF Demos
    <3> QED BY <3>1, <3>2, GatesFollow, DemoShows DEF GatesFollowEvaluations
  <2>2. AuditIsSound
    BY FleetShape, AuditCloses DEF AuditIsSound
  <2> QED BY <2>1, <2>2, ApprovalsAreTrue DEF ReportsHold
<1> QED BY <1>2, <1>3, PTL

=============================================================================
