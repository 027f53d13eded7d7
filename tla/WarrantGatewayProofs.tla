------------------------- MODULE WarrantGatewayProofs -------------------------
(* The one-use and scope guarantees of the Action Warrant gateway, for any *)
(* number of callers, events, transitions and any lifetime of a warrant.   *)
EXTENDS WarrantGateway, TLAPS

(* The gateway only signs warrants for a fixture and what it allows. *)
WarrantsGranted ==
    \A w \in warrants : w.event \in KnownCase /\ w.transition \in Allowed

(* A use in progress is of a signed warrant, within its scope and time. *)
UseGood(c) ==
    /\ use[c] \in Use
    /\ use[c].warrant \in warrants
    /\ use[c].event = use[c].warrant.event
    /\ use[c].transition = use[c].warrant.transition
    /\ use[c].warrant.issued <= use[c].checked
    /\ use[c].checked < use[c].warrant.issued + TTL

UsesGood == \A c \in Caller : pc[c] # "idle" => UseGood(c)

(* A warrant goes from unclaimed to claimed by one caller to executed. *)
Unclaimed == \A w \in Warrant : w \notin consumed => executed[w] = 0
Claimed   == \A c \in Caller : pc[c] = "execute" =>
                 use[c].warrant \in consumed /\ executed[use[c].warrant] = 0
OneClaimer ==
    \A c, d \in Caller :
        /\ pc[c] = "execute" /\ pc[d] = "execute"
        /\ use[c].warrant = use[d].warrant
        => c = d
ExecutedOnce == \A w \in Warrant : executed[w] <= 1
ExecutedSigned == \A w \in Warrant : executed[w] > 0 => w \in warrants

IssuedEarlier == \A w \in warrants : w.issued <= now

IInv ==
    /\ TypeOK /\ WarrantsGranted /\ UsesGood /\ Unclaimed /\ Claimed
    /\ OneClaimer /\ ExecutedOnce /\ ExecutedSigned /\ IssuedEarlier

Parts == UsesGood /\ Unclaimed /\ Claimed /\ OneClaimer /\ ExecutedOnce
         /\ ExecutedSigned

(* No caller is at work and nothing is signed when the gateway starts. *)
LEMMA InitInvariant == Init => IInv
BY TimeAssumption
DEF Init, IInv, TypeOK, WarrantsGranted, UsesGood, Unclaimed, Claimed,
    OneClaimer, ExecutedOnce, ExecutedSigned, IssuedEarlier

(* What validate_and_consume has checked when it reaches its claim. *)
LEMMA Checked ==
  ASSUME NEW w \in Warrant, NEW e \in Event, NEW t \in Transition, NEW view, NEW time,
         UseReason(warrants, w, e, t, view, time) = "action_warrant_checked"
  PROVE  /\ w \in warrants /\ ~Expired(w, time) /\ e \in KnownCase
         /\ w.event = e /\ w.transition = t
BY DEF UseReason

(* Passing time and signing leave the uses alone. *)
LEMMA UsesStay ==
  ASSUME IInv, warrants \subseteq warrants', UNCHANGED <<consumed, executed, pc, use>>
  PROVE  Parts'
<1> USE DEF IInv
<1>1. ASSUME NEW c \in Caller, pc'[c] # "idle" PROVE UseGood(c)'
  BY <1>1 DEF UsesGood, UseGood
<1>2. UsesGood'
  BY <1>1 DEF UsesGood
<1>3. Unclaimed' /\ Claimed' /\ OneClaimer' /\ ExecutedOnce'
  BY DEF Unclaimed, Claimed, OneClaimer, ExecutedOnce
<1>4. ExecutedSigned'
  BY DEF ExecutedSigned
<1> QED BY <1>2, <1>3, <1>4 DEF Parts

(* Issue signs one more warrant, within what the fixture allows. *)
LEMMA IssueStep ==
  ASSUME IInv, NEW e \in Event, NEW t \in Transition, NEW authorized, NEW view,
         Issue(e, t, authorized, view)
  PROVE  IInv'
<1> DEFINE w == [event |-> e, transition |-> t, issued |-> now]
<1> USE DEF IInv
<1>1. w \in Warrant /\ w.event \in KnownCase /\ w.transition \in Allowed
  BY DEF Issue, IssueReason, Warrant, TypeOK
<1>2. warrants' = warrants \cup {w} /\ UNCHANGED <<now, consumed, executed, pc, use>>
  BY DEF Issue
<1>3. Parts'
  BY <1>2, UsesStay
<1>4. TypeOK'
  BY <1>1, <1>2 DEF TypeOK
<1>5. WarrantsGranted'
  BY <1>1, <1>2 DEF WarrantsGranted
<1>6. IssuedEarlier'
  BY <1>2 DEF IssuedEarlier, TypeOK
<1> QED BY <1>3, <1>4, <1>5, <1>6 DEF Parts

(* A use that passed its checks is of a signed warrant, in scope and time. *)
LEMMA ValidateStep ==
  ASSUME IInv, NEW c \in Caller, NEW w \in Warrant, NEW e \in Event,
         NEW t \in Transition, NEW view, Validate(c, w, e, t, view)
  PROVE  IInv'
<1> DEFINE u == [warrant |-> w, event |-> e, transition |-> t, checked |-> now]
<1> USE DEF IInv
<1>1. /\ w \in warrants /\ ~Expired(w, now) /\ w.event = e /\ w.transition = t
  BY Checked DEF Validate
<1>2. /\ u \in Use /\ w.issued <= now /\ now < w.issued + TTL
  BY <1>1, TimeAssumption DEF Use, TypeOK, Expired, IssuedEarlier, Warrant
<1>3. /\ pc' = [pc EXCEPT ![c] = "claim"] /\ use' = [use EXCEPT ![c] = u]
      /\ UNCHANGED <<now, warrants, consumed, executed>>
  BY DEF Validate
<1>4. TypeOK'
  BY <1>2, <1>3 DEF TypeOK
<1>5. UsesGood'
  <2>1. UseGood(c)'
    BY <1>1, <1>2, <1>3 DEF UseGood, TypeOK
  <2>2. ASSUME NEW d \in Caller, d # c, pc'[d] # "idle" PROVE UseGood(d)'
    BY <1>3, <2>2 DEF UseGood, UsesGood, TypeOK
  <2> QED BY <2>1, <2>2 DEF UsesGood
<1>6. Claimed' /\ OneClaimer'
  BY <1>3 DEF Claimed, OneClaimer, TypeOK
<1> QED
  BY <1>3, <1>4, <1>5, <1>6
  DEF WarrantsGranted, Unclaimed, ExecutedOnce, ExecutedSigned, IssuedEarlier

(* The claim lets the first use of a warrant through, and no other. *)
LEMMA ConsumeStep ==
  ASSUME IInv, NEW c \in Caller, Consume(c)
  PROVE  IInv'
<1> DEFINE w == use[c].warrant
<1> USE DEF IInv
<1>1. UseGood(c) /\ w \in Warrant
  BY DEF Consume, UsesGood, UseGood, Use
<1>2. UNCHANGED <<now, warrants, executed>> /\ consumed' = consumed \cup {w}
  BY DEF Consume
<1>3. TypeOK'
  BY <1>1 DEF Consume, TypeOK
<1>4. Unclaimed'
  BY <1>2 DEF Unclaimed
<1>5. CASE w \in consumed
  <2>1. pc' = [pc EXCEPT ![c] = "idle"] /\ use' = [use EXCEPT ![c] = NoUse]
    BY <1>5 DEF Consume
  <2>2. UsesGood'
    BY <1>2, <2>1 DEF UsesGood, UseGood, TypeOK
  <2>3. Claimed' /\ OneClaimer'
    BY <1>2, <2>1 DEF Claimed, OneClaimer, TypeOK
  <2> QED BY <1>2, <1>3, <1>4, <2>2, <2>3
          DEF WarrantsGranted, ExecutedOnce, ExecutedSigned, IssuedEarlier
<1>6. CASE w \notin consumed
  <2>1. pc' = [pc EXCEPT ![c] = "execute"] /\ use' = use
    BY <1>6 DEF Consume, TypeOK
  <2>2. UsesGood'
    BY <1>1, <1>2, <2>1 DEF UsesGood, UseGood, TypeOK
  <2>3. Claimed'
    BY <1>1, <1>2, <1>6, <2>1 DEF Claimed, Unclaimed, TypeOK
  <2>4. OneClaimer'
    BY <1>6, <2>1 DEF OneClaimer, Claimed, TypeOK
  <2> QED BY <1>2, <1>3, <1>4, <2>2, <2>3, <2>4
          DEF WarrantsGranted, ExecutedOnce, ExecutedSigned, IssuedEarlier
<1> QED BY <1>5, <1>6

(* The tool runs on a warrant that only its caller has claimed. *)
LEMMA ExecuteStep ==
  ASSUME IInv, NEW c \in Caller, Execute(c)
  PROVE  IInv'
<1> DEFINE w == use[c].warrant
<1> USE DEF IInv
<1>1. UseGood(c) /\ w \in Warrant /\ w \in consumed /\ executed[w] = 0 /\ w \in warrants
  BY DEF Execute, UsesGood, UseGood, Use, Claimed
<1>2. /\ UNCHANGED <<now, warrants, consumed>>
      /\ executed' = [executed EXCEPT ![w] = 1]
      /\ pc' = [pc EXCEPT ![c] = "idle"] /\ use' = [use EXCEPT ![c] = NoUse]
  BY <1>1 DEF Execute, TypeOK
<1>3. TypeOK'
  BY <1>2 DEF TypeOK
<1>4. UsesGood'
  BY <1>2 DEF UsesGood, UseGood, TypeOK
<1>5. Claimed'
  <2>1. SUFFICES ASSUME NEW d \in Caller, pc'[d] = "execute"
                 PROVE  use'[d].warrant \in consumed' /\ executed'[use'[d].warrant] = 0
    BY DEF Claimed
  <2>2. d # c /\ pc[d] = "execute" /\ use'[d] = use[d]
    BY <1>2, <2>1 DEF TypeOK
  <2>3. use[d].warrant # w /\ use[d].warrant \in Warrant
    BY <2>2 DEF OneClaimer, Execute, UsesGood, UseGood, Use
  <2> QED BY <1>2, <2>2, <2>3 DEF Claimed, TypeOK
<1>6. OneClaimer'
  BY <1>2 DEF OneClaimer, TypeOK
<1>7. Unclaimed' /\ ExecutedOnce' /\ ExecutedSigned'
  BY <1>1, <1>2 DEF Unclaimed, ExecutedOnce, ExecutedSigned, TypeOK
<1> QED BY <1>2, <1>3, <1>4, <1>5, <1>6, <1>7 DEF WarrantsGranted, IssuedEarlier

(* A use that is given up leaves its warrant consumed. *)
LEMMA AbortStep ==
  ASSUME IInv, NEW c \in Caller, Abort(c)
  PROVE  IInv'
<1> USE DEF IInv
<1>1. TypeOK'
  BY DEF Abort, TypeOK
<1>2. UsesGood'
  BY DEF Abort, UsesGood, UseGood, TypeOK
<1>3. Claimed' /\ OneClaimer'
  BY DEF Abort, Claimed, OneClaimer, TypeOK
<1> QED BY <1>1, <1>2, <1>3
        DEF Abort, WarrantsGranted, Unclaimed, ExecutedOnce, ExecutedSigned, IssuedEarlier

(* The inductive invariant: what is claimed, by whom, and what has run. *)
THEOREM Invariance == Spec => []IInv
<1>1. IInv /\ [Next]_gateway => IInv'
  <2> SUFFICES ASSUME IInv, [Next]_gateway PROVE IInv'
    OBVIOUS
  <2> USE DEF IInv
  <2>1. CASE UNCHANGED gateway \/ Tick
    <3>1. UNCHANGED <<warrants, consumed, executed, pc, use>> /\ now' \in 0..MaxTime
          /\ now <= now'
      BY <2>1, TimeAssumption DEF gateway, Tick, TypeOK
    <3>2. Parts'
      BY <3>1, UsesStay
    <3>3. TypeOK' /\ WarrantsGranted'
      BY <3>1 DEF TypeOK, WarrantsGranted
    <3>4. IssuedEarlier'
      BY <3>1 DEF IssuedEarlier, TypeOK, Warrant
    <3> QED BY <3>2, <3>3, <3>4 DEF Parts
  <2>2. ASSUME NEW e \in Event, NEW t \in Transition, NEW authorized \in BOOLEAN,
               NEW view \in Controls, Issue(e, t, authorized, view)
        PROVE  IInv'
    BY <2>2, IssueStep
  <2>3. ASSUME NEW c \in Caller, NEW w \in Warrant, NEW e \in Event, NEW t \in Transition,
               NEW view \in Controls, Validate(c, w, e, t, view)
        PROVE  IInv'
    BY <2>3, ValidateStep
  <2>4. ASSUME NEW c \in Caller, Consume(c) \/ Execute(c) \/ Abort(c) PROVE IInv'
    BY <2>4, ConsumeStep, ExecuteStep, AbortStep
  <2> QED BY <2>1, <2>2, <2>3, <2>4 DEF Next
<1> QED BY <1>1, InitInvariant, PTL DEF Spec

(* Type correctness of the gateway. *)
THEOREM TypeCorrect == Spec => []TypeOK
<1>1. IInv => TypeOK
  BY DEF IInv
<1> QED BY <1>1, Invariance, PTL

(* A warrant is good for one use, however many callers present it. *)
THEOREM UsedOnce == Spec => []OneUse
<1>1. IInv => OneUse
  BY DEF IInv, OneUse, ExecutedOnce, Claimed, OneClaimer
<1> QED BY <1>1, Invariance, PTL

(* The tool runs for what was signed, and for nothing else. *)
THEOREM AlwaysAuthorized == Spec => []Authorized
<1>1. IInv => Authorized
  BY DEF IInv, Authorized, ExecutedSigned, WarrantsGranted, UsesGood, UseGood
<1> QED BY <1>1, Invariance, PTL

(* No use is accepted at or after the expiry of its warrant. *)
THEOREM AlwaysTimely == Spec => []TimelyUse
<1>1. IInv => TimelyUse
  BY DEF IInv, TimelyUse, UsesGood, UseGood
<1> QED BY <1>1, Invariance, PTL

(* A replay of a consumed warrant never reaches the tool. *)
THEOREM ReplaysDenied == Spec => ReplayDenied
<1>1. IInv /\ [Next]_gateway =>
        [\A w \in consumed :
            /\ w \in consumed'
            /\ \A c \in Caller :
                  pc'[c] = "execute" /\ use'[c].warrant = w => pc[c] = "execute"]_gateway
  <2> SUFFICES ASSUME IInv, Next, NEW w \in consumed
               PROVE  /\ w \in consumed'
                      /\ \A c \in Caller :
                            pc'[c] = "execute" /\ use'[c].warrant = w => pc[c] = "execute"
    OBVIOUS
  <2> USE DEF IInv
  <2>1. CASE Tick \/ \E e \in Event, t \in Transition, a \in BOOLEAN, view \in Controls :
                        Issue(e, t, a, view)
    BY <2>1 DEF Tick, Issue
  <2>2. ASSUME NEW c \in Caller, NEW v \in Warrant, NEW e \in Event, NEW t \in Transition,
               NEW view \in Controls, Validate(c, v, e, t, view)
        PROVE  /\ w \in consumed'
               /\ \A d \in Caller :
                     pc'[d] = "execute" /\ use'[d].warrant = w => pc[d] = "execute"
    BY <2>2 DEF Validate, TypeOK
  <2>3. ASSUME NEW c \in Caller, Consume(c)
        PROVE  /\ w \in consumed'
               /\ \A d \in Caller :
                     pc'[d] = "execute" /\ use'[d].warrant = w => pc[d] = "execute"
    BY <2>3 DEF Consume, TypeOK
  <2>4. ASSUME NEW c \in Caller, Execute(c) \/ Abort(c)
        PROVE  /\ w \in consumed'
               /\ \A d \in Caller :
                     pc'[d] = "execute" /\ use'[d].warrant = w => pc[d] = "execute"
    BY <2>4 DEF Execute, Abort, TypeOK
  <2> QED BY <2>1, <2>2, <2>3, <2>4 DEF Next
<1> QED BY <1>1, Invariance, PTL DEF Spec, ReplayDenied

=============================================================================
