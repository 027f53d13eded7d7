------------------------------ MODULE ClaimStore ------------------------------
(***************************************************************************)
(* claim_once of src/app/claim_store.py, as threads of the synchronous     *)
(* FastAPI endpoints call it.  FirestoreClaimStore reads the claim and     *)
(* creates it in one optimistic transaction; InMemoryClaimStore looks the  *)
(* key up and stores it in two dictionary operations without a lock.  One  *)
(* runtime has both: the events of the registry watch are claimed in       *)
(* Firestore, the synthetic ones and the warrants in memory.               *)
(***************************************************************************)
EXTENDS Integers

CONSTANTS
    Caller,         \* threads that call claim_once
    Key,            \* (tenant, claim_kind, idempotency_key)
    Record,         \* record ids callers propose
    NoRecord,       \* model value: the key has no claim
    StoreOf,        \* the store that holds the claim of a key
    Asks,           \* the keys that a thread may be asked to claim
    MaxAttempts     \* how often the client library runs a transaction

ASSUME StoreAssumption == StoreOf \in [Key -> {"firestore", "in_memory"}]
ASSUME AsksAssumption == Asks \in [Caller -> SUBSET Key]
ASSUME AttemptAssumption == MaxAttempts \in Nat \ {0}
ASSUME NoRecordAssumption == NoRecord \notin Record

Call   == [key : Key, record : Record]
Answer == [claimed : BOOLEAN, record : Record \cup {NoRecord}]

(* A call that raised has no ClaimResult. *)
Raised == [claimed |-> FALSE, record |-> NoRecord]

VARIABLES
    records,        \* claim documents, or the dictionary of the process
    wins,           \* history: how many calls were told they claimed a key
    pc,             \* "idle", "get", "put" or "unheard"
    call,           \* the call every caller is in, as a set of at most one
    attempts,       \* runs of the transaction so far
    answer          \* the last ClaimResult of every caller

claim == <<records, wins, pc, call, attempts, answer>>

Init ==
    /\ records = [k \in Key |-> NoRecord]
    /\ wins = [k \in Key |-> 0]
    /\ pc = [c \in Caller |-> "idle"]
    /\ call = [c \in Caller |-> {}]
    /\ attempts = [c \in Caller |-> 0]
    /\ answer = [c \in Caller |-> Raised]

-----------------------------------------------------------------------------
Reply(c, result) ==
    /\ pc' = [pc EXCEPT ![c] = "idle"]
    /\ call' = [call EXCEPT ![c] = {}]
    /\ attempts' = [attempts EXCEPT ![c] = 0]
    /\ answer' = [answer EXCEPT ![c] = result]

ClaimOnce(c, a) ==
    /\ pc[c] = "idle" /\ a.key \in Asks[c]
    /\ pc' = [pc EXCEPT ![c] = "get"]
    /\ call' = [call EXCEPT ![c] = {a}]
    /\ attempts' = [attempts EXCEPT ![c] = 1]
    /\ UNCHANGED <<records, wins, answer>>

(* Faulty variant: the answer names the key in the place of the record. *)
GetExistingKey(c, a) ==
    /\ pc[c] = "get" /\ a \in call[c]
    /\ records[a.key] # NoRecord
    /\ Reply(c, [claimed |-> FALSE, record |-> a.key])
    /\ UNCHANGED <<records, wins>>

(* Faulty variant: the answer names the record the caller proposed. *)
GetExistingOwn(c, a) ==
    /\ pc[c] = "get" /\ a \in call[c]
    /\ records[a.key] # NoRecord
    /\ Reply(c, [claimed |-> FALSE, record |-> a.record])
    /\ UNCHANGED <<records, wins>>

(* Both stores first look the key up and answer with an existing record. *)
GetExisting(c, a) ==
    /\ pc[c] = "get" /\ a \in call[c]
    /\ records[a.key] # NoRecord
    /\ Reply(c, [claimed |-> FALSE, record |-> records[a.key]])
    /\ UNCHANGED <<records, wins>>

GetNothing(c, a) ==
    /\ pc[c] = "get" /\ a \in call[c]
    /\ records[a.key] = NoRecord
    /\ pc' = [pc EXCEPT ![c] = "put"]
    /\ UNCHANGED <<records, wins, call, attempts, answer>>

(* The caller stores its record and is told that it claimed the key. *)
Put(c, a) ==
    /\ pc[c] = "put" /\ a \in call[c]
    /\ records' = [records EXCEPT ![a.key] = a.record]
    /\ wins' = [wins EXCEPT ![a.key] = @ + 1]
    /\ Reply(c, [claimed |-> TRUE, record |-> a.record])

(* self._records[key] = record_id, whatever came in since the lookup. *)
PutInMemory(c, a) == StoreOf[a.key] = "in_memory" /\ Put(c, a)

(* Faulty variant: set() in the place of the transaction's create(). *)
CommitOverwrites(c, a) == StoreOf[a.key] = "firestore" /\ Put(c, a)

(* The commit goes through while what the transaction read still holds. *)
Commit(c, a) ==
    /\ StoreOf[a.key] = "firestore"
    /\ records[a.key] = NoRecord
    /\ Put(c, a)

(* The commit goes through but its answer is lost on the way. *)
CommitUnheard(c, a) ==
    /\ StoreOf[a.key] = "firestore"
    /\ pc[c] = "put" /\ a \in call[c]
    /\ records[a.key] = NoRecord
    /\ records' = [records EXCEPT ![a.key] = a.record]
    /\ pc' = [pc EXCEPT ![c] = "unheard"]
    /\ UNCHANGED <<wins, call, attempts, answer>>

(* The client library runs the transaction again from its read: Firestore  *)
(* aborted it, for contention or a stale read, or its answer was lost.     *)
Aborted(c) ==
    /\ \A a \in call[c] : StoreOf[a.key] = "firestore"
    /\ pc[c] \in {"put", "unheard"}
    /\ attempts[c] < MaxAttempts
    /\ pc' = [pc EXCEPT ![c] = "get"]
    /\ attempts' = [attempts EXCEPT ![c] = @ + 1]
    /\ UNCHANGED <<records, wins, call, answer>>

(* The store cannot be reached, or the last attempt was aborted: the call  *)
(* raises.                                                                 *)
Fails(c) ==
    /\ \A a \in call[c] : StoreOf[a.key] = "firestore"
    /\ pc[c] # "idle"
    /\ Reply(c, Raised)
    /\ UNCHANGED <<records, wins>>

-----------------------------------------------------------------------------
Next ==
    \E c \in Caller :
        \/ Aborted(c)
        \/ Fails(c)
        \/ \E a \in Call :
              \/ ClaimOnce(c, a)
              \/ GetExisting(c, a)
              \/ GetNothing(c, a)
              \/ PutInMemory(c, a)
              \/ Commit(c, a)
              \/ CommitUnheard(c, a)

Spec == Init /\ [][Next]_claim

-----------------------------------------------------------------------------
(* The type invariant. *)
TypeOK ==
    /\ records \in [Key -> Record \cup {NoRecord}]
    /\ wins \in [Key -> Nat]
    /\ pc \in [Caller -> {"idle", "get", "put", "unheard"}]
    /\ call \in [Caller -> SUBSET Call]
    /\ attempts \in [Caller -> 0..MaxAttempts]
    /\ answer \in [Caller -> Answer]

(* "Duplicate protection": at most one call is ever told that it claimed a *)
(* key, whatever the threads, the aborted commits and the lost answers.    *)
OneWinner == \A k \in Key : wins[k] <= 1

(* The store of this module, seen as an indivisible claim. *)
Once == INSTANCE ClaimOnce

(* What claim_once promises, as the abstract specification says it. *)
KeepsClaimOnce == Once!Spec

=============================================================================
