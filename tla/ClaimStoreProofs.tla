--------------------------- MODULE ClaimStoreProofs ---------------------------
(* The claim stores keep the promise of claim_once, for any number of      *)
(* callers, keys, records and attempts: the Firestore store under all of   *)
(* them, the store in memory for keys that one thread alone claims.        *)
EXTENDS ClaimStore, TLAPS

OneThreadPerKey ==
    \A c, d \in Caller : \A k \in Asks[c] \cap Asks[d] :
        c = d \/ StoreOf[k] = "firestore"

(* A key that somebody was told to have claimed has its record, and was    *)
(* claimed by that call alone.                                             *)
WinsRecorded ==
    \A k \in Key : wins[k] = 0 \/ (wins[k] = 1 /\ records[k] # NoRecord)

(* A caller is idle when it is in no call, or in one that it was asked for. *)
IdleOrCalling ==
    \A c \in Caller :
        /\ pc[c] = "idle" <=> call[c] = {}
        /\ \A a \in call[c] : a.key \in Asks[c] /\ call[c] = {a}

(* What the store in memory looked up still holds when it is written. *)
LookupHolds ==
    \A c \in Caller : \A a \in call[c] :
        pc[c] = "put" /\ StoreOf[a.key] = "in_memory" => records[a.key] = NoRecord

IInv == TypeOK /\ WinsRecorded /\ IdleOrCalling /\ LookupHolds

(* A reply is a well-typed change of the caller's own variables. *)
LEMMA ReplyType ==
  ASSUME TypeOK, NEW c \in Caller, NEW result \in Answer, Reply(c, result)
  PROVE  /\ pc' \in [Caller -> {"idle", "get", "put", "unheard"}]
         /\ call' \in [Caller -> SUBSET Call]
         /\ attempts' \in [Caller -> 0..MaxAttempts]
         /\ answer' \in [Caller -> Answer]
BY AttemptAssumption DEF TypeOK, Reply

(* A caller that stores its record while the key has none keeps it all:    *)
(* no other thread looked the same key up in memory.                       *)
LEMMA PutStep ==
  ASSUME OneThreadPerKey, IInv, NEW c \in Caller, NEW a \in Call, Put(c, a),
         records[a.key] = NoRecord
  PROVE  IInv'
<1> USE DEF IInv
<1>1. a.key \in Key /\ a.record \in Record /\ a.record # NoRecord
  BY NoRecordAssumption DEF Call
<1>2. [claimed |-> TRUE, record |-> a.record] \in Answer
  BY <1>1 DEF Answer
<1>3. TypeOK'
  BY <1>1, <1>2, ReplyType DEF TypeOK, Put
<1>4. WinsRecorded'
  BY <1>1 DEF TypeOK, Put, Reply, WinsRecorded
<1>5. IdleOrCalling'
  BY DEF TypeOK, Put, Reply, IdleOrCalling
<1>6. ASSUME NEW d \in Caller, NEW b \in call'[d], pc'[d] = "put",
             StoreOf[b.key] = "in_memory"
      PROVE  records'[b.key] = NoRecord
  <2>1. d # c /\ b \in call[d] /\ pc[d] = "put"
    BY <1>6 DEF TypeOK, Put, Reply
  <2>2. b.key # a.key
    <3>1. a.key \in Asks[c] /\ b.key \in Asks[d]
      BY <2>1 DEF Put, IdleOrCalling
    <3> QED BY <3>1, <2>1, <1>6 DEF OneThreadPerKey
  <2>3. b.key \in Key
    BY <2>1 DEF TypeOK, Call
  <2> QED BY <1>6, <1>1, <2>1, <2>2, <2>3 DEF Put, TypeOK, LookupHolds
<1> QED BY <1>3, <1>4, <1>5, <1>6 DEF LookupHolds

(* Every step keeps the invariant. *)
LEMMA InvariantStep ==
  ASSUME OneThreadPerKey, IInv, [Next]_claim
  PROVE  IInv'
<1> USE DEF IInv
<1>1. CASE UNCHANGED claim
  BY <1>1 DEF claim, TypeOK, WinsRecorded, IdleOrCalling, LookupHolds
<1>2. ASSUME NEW c \in Caller, Aborted(c) PROVE IInv'
  <2>1. TypeOK'
    BY <1>2, AttemptAssumption DEF TypeOK, Aborted
  <2>2. WinsRecorded' /\ IdleOrCalling'
    BY <1>2 DEF Aborted, WinsRecorded, IdleOrCalling, TypeOK
  <2>3. LookupHolds'
    BY <1>2 DEF Aborted, LookupHolds, TypeOK
  <2> QED BY <2>1, <2>2, <2>3
<1>3. ASSUME NEW c \in Caller, Fails(c) PROVE IInv'
  <2>1. Raised \in Answer
    BY DEF Raised, Answer
  <2>2. TypeOK'
    BY <1>3, <2>1, ReplyType DEF TypeOK, Fails
  <2>3. WinsRecorded' /\ IdleOrCalling'
    BY <1>3 DEF Fails, Reply, WinsRecorded, IdleOrCalling, TypeOK
  <2>4. LookupHolds'
    BY <1>3 DEF Fails, Reply, LookupHolds, TypeOK
  <2> QED BY <2>2, <2>3, <2>4
<1>4. ASSUME NEW c \in Caller, NEW a \in Call, ClaimOnce(c, a) PROVE IInv'
  <2>1. TypeOK'
    BY <1>4, AttemptAssumption DEF TypeOK, ClaimOnce
  <2>2. WinsRecorded' /\ IdleOrCalling'
    BY <1>4 DEF ClaimOnce, WinsRecorded, IdleOrCalling, TypeOK
  <2>3. LookupHolds'
    BY <1>4 DEF ClaimOnce, LookupHolds, TypeOK
  <2> QED BY <2>1, <2>2, <2>3
<1>5. ASSUME NEW c \in Caller, NEW a \in Call, GetExisting(c, a) PROVE IInv'
  <2>1. [claimed |-> FALSE, record |-> records[a.key]] \in Answer
    BY DEF TypeOK, Answer, Call
  <2>2. TypeOK'
    BY <1>5, <2>1, ReplyType DEF TypeOK, GetExisting
  <2>3. WinsRecorded' /\ IdleOrCalling'
    BY <1>5 DEF GetExisting, Reply, WinsRecorded, IdleOrCalling, TypeOK
  <2>4. LookupHolds'
    BY <1>5 DEF GetExisting, Reply, LookupHolds, TypeOK
  <2> QED BY <2>2, <2>3, <2>4
<1>6. ASSUME NEW c \in Caller, NEW a \in Call, GetNothing(c, a) PROVE IInv'
  <2>1. TypeOK'
    BY <1>6 DEF TypeOK, GetNothing
  <2>2. WinsRecorded' /\ IdleOrCalling'
    BY <1>6 DEF GetNothing, WinsRecorded, IdleOrCalling, TypeOK
  <2>3. call[c] = {a}
    BY <1>6 DEF GetNothing, IdleOrCalling
  <2>4. LookupHolds'
    BY <1>6, <2>3 DEF GetNothing, LookupHolds, TypeOK
  <2> QED BY <2>1, <2>2, <2>4
<1>7. ASSUME NEW c \in Caller, NEW a \in Call, PutInMemory(c, a) PROVE IInv'
  <2>1. records[a.key] = NoRecord
    BY <1>7 DEF PutInMemory, Put, LookupHolds
  <2> QED BY <1>7, <2>1, PutStep DEF PutInMemory
<1>8. ASSUME NEW c \in Caller, NEW a \in Call, Commit(c, a) PROVE IInv'
  BY <1>8, PutStep DEF Commit
<1>9. ASSUME NEW c \in Caller, NEW a \in Call, CommitUnheard(c, a) PROVE IInv'
  <2>1. a.key \in Key /\ a.record \in Record /\ a.record # NoRecord
    BY NoRecordAssumption DEF Call
  <2>2. TypeOK'
    BY <1>9, <2>1 DEF TypeOK, CommitUnheard
  <2>3. WinsRecorded' /\ IdleOrCalling'
    BY <1>9, <2>1 DEF TypeOK, CommitUnheard, WinsRecorded, IdleOrCalling
  <2>4. LookupHolds'
    BY <1>9, <2>1 DEF TypeOK, CommitUnheard, LookupHolds, Call
  <2> QED BY <2>2, <2>3, <2>4
<1> QED BY <1>1, <1>2, <1>3, <1>4, <1>5, <1>6, <1>7, <1>8, <1>9 DEF Next

(* No claim exists and nobody is calling at the start. *)
LEMMA InitInvariant == Init => IInv
BY AttemptAssumption
   DEF Init, IInv, TypeOK, WinsRecorded, IdleOrCalling, LookupHolds, Raised, Answer

(* The inductive invariant holds as long as no two threads claim one key   *)
(* in memory; the run claim_race shows what happens when they do.          *)
THEOREM Invariance == ASSUME OneThreadPerKey PROVE Spec => []IInv
<1>1. IInv /\ [Next]_claim => IInv'
  BY InvariantStep
<1> QED BY <1>1, InitInvariant, PTL DEF Spec

(* Every variable of the claim stores keeps its type. *)
THEOREM TypeCorrect == ASSUME OneThreadPerKey PROVE Spec => []TypeOK
<1>1. IInv => TypeOK
  BY DEF IInv
<1> QED BY <1>1, Invariance, PTL

(* Duplicate protection: no two calls are told that they claimed a key,    *)
(* whatever commits are aborted and whatever answers are lost.             *)
THEOREM AtMostOneWinner == ASSUME OneThreadPerKey PROVE Spec => []OneWinner
<1>1. IInv => OneWinner
  BY DEF IInv, TypeOK, WinsRecorded, OneWinner
<1> QED BY <1>1, Invariance, PTL

-----------------------------------------------------------------------------
(* The store starts as the indivisible claim does. *)
LEMMA InitMaps == Init => Once!Init
BY DEF Init, Raised, Once!Init, Once!Raised

(* Every step of the store is a step of the indivisible claim or leaves it *)
(* unchanged.                                                              *)
LEMMA StepMaps ==
  ASSUME OneThreadPerKey, IInv, [Next]_claim
  PROVE  [Once!Next]_(Once!once)
<1> USE DEF IInv
<1>1. CASE UNCHANGED claim
  BY <1>1 DEF claim, Once!once
<1>2. ASSUME NEW c \in Caller, Aborted(c) PROVE UNCHANGED Once!once
  BY <1>2 DEF Aborted, Once!once
<1>3. ASSUME NEW c \in Caller, NEW a \in Call, GetNothing(c, a)
      PROVE  UNCHANGED Once!once
  BY <1>3 DEF GetNothing, Once!once
<1>4. ASSUME NEW c \in Caller, Fails(c) PROVE Once!Next
  <2>1. Once!Fail(c)
    BY <1>4 DEF Fails, Reply, Raised, IdleOrCalling, Once!Fail, Once!Reply, Once!Raised
  <2> QED BY <2>1 DEF Once!Next
<1>5. ASSUME NEW c \in Caller, NEW a \in Call PROVE a \in Once!Call
  BY DEF Call, Once!Call
<1>6. ASSUME NEW c \in Caller, NEW a \in Call, ClaimOnce(c, a) PROVE Once!Next
  <2>1. Once!Ask(c, a)
    BY <1>6 DEF ClaimOnce, IdleOrCalling, Once!Ask
  <2> QED BY <1>5, <2>1 DEF Once!Next
<1>7. ASSUME NEW c \in Caller, NEW a \in Call, GetExisting(c, a) PROVE Once!Next
  <2>1. Once!Lose(c, a)
    BY <1>7 DEF GetExisting, Reply, Once!Lose, Once!Reply
  <2> QED BY <1>5, <2>1 DEF Once!Next
<1>8. ASSUME NEW c \in Caller, NEW a \in Call, Put(c, a), records[a.key] = NoRecord
      PROVE  Once!Next
  <2>1. wins[a.key] = 0
    BY <1>8 DEF Call, WinsRecorded
  <2>2. Once!Win(c, a)
    BY <1>8, <2>1 DEF Put, Reply, Once!Win, Once!Reply
  <2> QED BY <1>5, <2>2 DEF Once!Next
<1>10. ASSUME NEW c \in Caller, NEW a \in Call, PutInMemory(c, a) \/ Commit(c, a)
       PROVE  Once!Next
  <2>1. Put(c, a) /\ records[a.key] = NoRecord
    BY <1>10 DEF PutInMemory, Commit, Put, LookupHolds
  <2> QED BY <1>8, <2>1
<1>9. ASSUME NEW c \in Caller, NEW a \in Call, CommitUnheard(c, a) PROVE Once!Next
  <2>1. Once!Unheard(c, a)
    BY <1>9 DEF CommitUnheard, Once!Unheard
  <2> QED BY <1>5, <2>1 DEF Once!Next
<1> QED BY <1>1, <1>2, <1>3, <1>4, <1>6, <1>7, <1>9, <1>10 DEF Next

(* The stores implement the indivisible claim that process(), the event    *)
(* claims and the warrant gateway build on.                                *)
THEOREM ClaimIsIndivisible == ASSUME OneThreadPerKey PROVE Spec => KeepsClaimOnce
<1>1. IInv /\ [Next]_claim => [Once!Next]_(Once!once)
  BY StepMaps
<1> QED BY <1>1, Invariance, InitMaps, PTL DEF Spec, KeepsClaimOnce, Once!Spec

=============================================================================
