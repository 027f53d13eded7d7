------------------------------- MODULE ClaimOnce -------------------------------
(***************************************************************************)
(* What ClaimStore.claim_once promises its callers: the first claim of a   *)
(* key decides, in one indivisible step, and every later one is told which *)
(* record came first.  A call may fail, with or without leaving the claim  *)
(* behind, but no two calls are ever told that they claimed a key.         *)
(***************************************************************************)

CONSTANTS
    Caller,         \* threads that call claim_once
    Key,            \* (tenant, claim_kind, idempotency_key)
    Record,         \* record ids callers propose
    NoRecord        \* model value: the key has no claim

VARIABLES
    records,        \* the claim of every key
    wins,           \* history: how many calls were told they claimed a key
    call,           \* the call every caller is waiting for, as a set
    answer          \* the last ClaimResult of every caller

once == <<records, wins, call, answer>>

Call   == [key : Key, record : Record]
Answer == [claimed : BOOLEAN, record : Record \cup {NoRecord}]

(* A call that raised has no ClaimResult. *)
Raised == [claimed |-> FALSE, record |-> NoRecord]

Init ==
    /\ records = [k \in Key |-> NoRecord]
    /\ wins = [k \in Key |-> 0]
    /\ call = [c \in Caller |-> {}]
    /\ answer = [c \in Caller |-> Raised]

Ask(c, a) ==
    /\ call[c] = {}
    /\ call' = [call EXCEPT ![c] = {a}]
    /\ UNCHANGED <<records, wins, answer>>

Reply(c, result) ==
    /\ call' = [call EXCEPT ![c] = {}]
    /\ answer' = [answer EXCEPT ![c] = result]

(* The first claim of the key. *)
Win(c, a) ==
    /\ a \in call[c]
    /\ records[a.key] = NoRecord
    /\ records' = [records EXCEPT ![a.key] = a.record]
    /\ wins' = [wins EXCEPT ![a.key] = 1]
    /\ Reply(c, [claimed |-> TRUE, record |-> a.record])

(* The key is claimed already. *)
Lose(c, a) ==
    /\ a \in call[c]
    /\ records[a.key] # NoRecord
    /\ Reply(c, [claimed |-> FALSE, record |-> records[a.key]])
    /\ UNCHANGED <<records, wins>>

(* The claim is stored but its caller is not told, not yet or not ever. *)
Unheard(c, a) ==
    /\ a \in call[c]
    /\ records[a.key] = NoRecord
    /\ records' = [records EXCEPT ![a.key] = a.record]
    /\ UNCHANGED <<wins, call, answer>>

Fail(c) ==
    /\ call[c] # {}
    /\ Reply(c, Raised)
    /\ UNCHANGED <<records, wins>>

Next ==
    \E c \in Caller :
        \/ Fail(c)
        \/ \E a \in Call : Ask(c, a) \/ Win(c, a) \/ Lose(c, a) \/ Unheard(c, a)

Spec == Init /\ [][Next]_once

=============================================================================
