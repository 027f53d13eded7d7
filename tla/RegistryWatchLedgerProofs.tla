---------------------- MODULE RegistryWatchLedgerProofs ----------------------
(* The registry watch implements the event ledger, for every constant. *)
EXTENDS RegistryWatchLedger, RegistryWatchProofs, SequenceTheorems

(* The ledger seen through the mapping. *)
Briefs  == [e \in Event |-> Len(mailbox[e])]
Outcome == [e \in Event |-> IF runs[e] = NoRun THEN NoRun ELSE runs[e].status]

(* The ledger of the empty store accepts, briefs and closes nothing. *)
LEMMA InitMaps == Init => Ledger!Init
BY DEF Init, Ledger!Init

(* A delivery step sends one brief for an open event, or none. *)
LEMMA DeliveryMaps ==
  ASSUME IInv, NEW w \in Worker, DeliverBrief(w) \/ DeliveryFails(w)
  PROVE  Ledger!Next \/ UNCHANGED <<claims, Briefs, Outcome>>
<1> USE DEF IInv, TypeOK
<1>1. /\ pc[w] = "deliver" /\ UNCHANGED <<claims, runs>>
      /\ mailbox' = [mailbox EXCEPT ![event[w]] = mailbox'[event[w]]]
      /\ mailbox'[event[w]] \in {<<>>, <<ChangeOf(w)>>}
  BY DeliveryEffect DEF store
<1>2. /\ event[w] \in Event /\ event[w] \in claims /\ runs[event[w]] = NoRun
      /\ mailbox[event[w]] = <<>>
  BY <1>1 DEF HasEvent, ClaimHeld, MailAccounted, Running
<1>3. UNCHANGED Outcome
  BY <1>1 DEF Outcome
<1>4. CASE mailbox'[event[w]] = <<>>
  <2>1. mailbox' = mailbox
    BY <1>1, <1>2, <1>4
  <2> QED
    BY <1>1, <1>3, <2>1 DEF Briefs
<1>5. CASE mailbox'[event[w]] = <<ChangeOf(w)>>
  <2>1. Len(mailbox[event[w]]) = 0 /\ Len(mailbox'[event[w]]) = 1
    BY <1>2, <1>5
  <2>2. Briefs' = [Briefs EXCEPT ![event[w]] = 1]
    BY <1>1, <1>2, <2>1 DEF Briefs
  <2>3. Briefs[event[w]] = 0 /\ Outcome[event[w]] = NoRun
    BY <1>2, <2>1 DEF Briefs, Outcome
  <2>4. Ledger!Brief(event[w])
    BY <1>1, <1>2, <1>3, <2>2, <2>3 DEF Ledger!Brief, Ledger!Open, Briefs, Outcome
  <2>5. Ledger!Next
    <3> HIDE DEF IInv, TypeOK
    <3> QED
      BY <1>2, <2>4 DEF Ledger!Next, Ledger!Brief
  <2> QED
    BY <2>5
<1> QED
  BY <1>1, <1>4, <1>5

(* save_run closes an open event with an outcome that fits its mail. *)
LEMMA SaveRunMaps ==
  ASSUME IInv, NEW w \in Worker, SaveRun(w)
  PROVE  Ledger!Next
<1> USE DEF IInv, TypeOK
<1>1. /\ pc[w] = "save_run" /\ UNCHANGED <<claims, mailbox>>
      /\ runs' = [runs EXCEPT ![event[w]] = [status |-> status[w], snapshot |-> capture[w]]]
  BY DEF SaveRun, Step
<1>2. /\ event[w] \in Event /\ event[w] \in claims /\ runs[event[w]] = NoRun
      /\ status[w] \in RunStatus /\ capture[w] \in Snapshot
  BY <1>1 DEF HasEvent, HasCapture, ClaimHeld, Running
<1>3. runs'[event[w]] # NoRun /\ runs'[event[w]].status = status[w]
  BY <1>1, <1>2, NoneAssumption
<1>4. Outcome' = [Outcome EXCEPT ![event[w]] = status[w]]
  BY <1>1, <1>2, <1>3 DEF Outcome
<1>5. /\ mailbox[event[w]] \in Seq(Change) /\ Len(mailbox[event[w]]) <= 1
      /\ status[w] = "brief_delivered" => mailbox[event[w]] # <<>>
      /\ status[w] \notin {"brief_delivered", "brief_prepared"} =>
            DOMAIN mailbox[event[w]] = {}
  BY <1>1, <1>2 DEF MailAccounted, MailedOnce
<1>6. /\ status[w] = "brief_delivered" => Len(mailbox[event[w]]) = 1
      /\ status[w] \in Ledger!QuietOutcome => Len(mailbox[event[w]]) = 0
  <2>1. ASSUME NEW q \in Seq(Change), Len(q) <= 1
        PROVE  /\ q # <<>> => Len(q) = 1
               /\ DOMAIN q = {} => Len(q) = 0
    <3>1. Len(q) \in Nat /\ DOMAIN q = 1..Len(q)
      BY LenProperties
    <3>2. Len(q) = 0 => q = <<>>
      BY <3>1, EmptySeq
    <3>3. Len(q) = 1 => DOMAIN q # {}
      BY <3>1
    <3> QED
      BY <2>1, <3>1, <3>2, <3>3
  <2>2. status[w] \in Ledger!QuietOutcome =>
           status[w] \notin {"brief_delivered", "brief_prepared"}
    BY DEF Ledger!QuietOutcome
  <2> HIDE DEF IInv, TypeOK
  <2> QED
    BY <1>5, <2>1, <2>2
<1>7. Ledger!Close(event[w], status[w])
  <2>1. Outcome[event[w]] = NoRun
    BY <1>2 DEF Outcome
  <2>2. UNCHANGED Briefs
    BY <1>1 DEF Briefs
  <2>3. Briefs[event[w]] = Len(mailbox[event[w]])
    BY <1>2 DEF Briefs
  <2> HIDE DEF IInv, TypeOK
  <2> QED
    BY <1>1, <1>2, <1>4, <1>6, <2>1, <2>2, <2>3
       DEF Ledger!Close, Ledger!Open, Briefs, Outcome
<1>8. status[w] \in Ledger!QuietOutcome \cup Ledger!BriefOutcome
  BY <1>2 DEF RunStatus, Ledger!QuietOutcome, Ledger!BriefOutcome
<1> HIDE DEF IInv, TypeOK
<1> QED
  BY <1>2, <1>7, <1>8 DEF Ledger!Next, Ledger!Close

(* A claim accepts an event; a lost claim changes nothing in the ledger. *)
LEMMA ClaimMaps ==
  ASSUME IInv, NEW w \in Worker, ClaimEvent(w)
  PROVE  Ledger!Next \/ UNCHANGED <<claims, Briefs, Outcome>>
<1> USE DEF IInv, TypeOK
<1>1. event[w] \in Event /\ claims' = claims \cup {event[w]}
      /\ UNCHANGED <<Briefs, Outcome>>
  BY DEF ClaimEvent, Step, HasEvent, Briefs, Outcome
<1>2. CASE event[w] \in claims
  BY <1>1, <1>2
<1>3. CASE event[w] \notin claims
  <2>1. Ledger!Accept(event[w])
    BY <1>1, <1>3 DEF Ledger!Accept, Briefs, Outcome
  <2> QED
    BY <1>1, <2>1 DEF Ledger!Next
<1> QED
  BY <1>2, <1>3

(* Every other step leaves claims, mail and runs alone. *)
LEMMA OtherSteps ==
  ASSUME [Next]_vars
  PROVE  \/ UNCHANGED <<claims, mailbox, runs>>
         \/ \E w \in Worker : \/ DeliverBrief(w) \/ DeliveryFails(w)
                              \/ SaveRun(w) \/ ClaimEvent(w)
BY DEF Next, Process, Publish, Receive, Crash, Resolve, LookupRun, Fetch,
     FetchFails, ReadPrior, SaveSnapshot, GenerateBrief, BriefFails,
     SaveCandidate, Respond, Answer, vars, store

(* The watch keeps the ledger: every initial state is an initial state of  *)
(* the ledger, and every step of the watch is a step of it or changes      *)
(* nothing that it can see.                                                *)
THEOREM LedgerKept == Spec => KeepsLedger
<1>1. Init => Ledger!Init
  BY InitMaps
<1>2. IInv /\ [Next]_vars => [Ledger!Next]_<<claims, Briefs, Outcome>>
  <2> SUFFICES ASSUME IInv, [Next]_vars
               PROVE  Ledger!Next \/ UNCHANGED <<claims, Briefs, Outcome>>
    OBVIOUS
  <2>1. CASE UNCHANGED <<claims, mailbox, runs>>
    BY <2>1 DEF Briefs, Outcome
  <2> QED
    BY <2>1, OtherSteps, DeliveryMaps, SaveRunMaps, ClaimMaps
<1>3. [Ledger!Next]_<<claims, Briefs, Outcome>> => [Ledger!Next]_Ledger!ledger
  BY DEF Ledger!ledger, Briefs, Outcome
<1> QED
  BY <1>1, <1>2, <1>3, Invariance, PTL DEF Spec, KeepsLedger, Ledger!Spec

=============================================================================
