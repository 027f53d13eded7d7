------------------------- MODULE RegistryWatchProofs -------------------------
(***************************************************************************)
(* Theorems about RegistryWatch and ChangedContent for every set of        *)
(* handlers, events, sources and pages, and every choice of faults.        *)
(***************************************************************************)
EXTENDS ChangedContent, FiniteSetTheorems, TLAPS

(* A busy handler has an event, of an approved source once it is accepted. *)
HasEvent ==
    \A w \in Worker :
        /\ pc[w] # "idle" => event[w] \in Event
        /\ pc[w] \notin {"idle", "respond"} => SourceOf(w) \in Source

(* What the later steps read has been captured by the earlier ones. *)
HasCapture ==
    \A w \in Worker :
        /\ pc[w] \in {"read_prior", "save_snapshot", "brief", "queue",
                      "deliver", "save_run"} => capture[w] \in Snapshot
        /\ pc[w] \in {"brief", "queue", "deliver"} =>
              /\ prior[w] \in Snapshot
              /\ prior[w].page.evidence # capture[w].page.evidence
        /\ pc[w] = "save_run" => status[w] \in RunStatus
        /\ pc[w] = "deliver" => candidates[ChangeOf(w)] # "absent"

(* The claim stands for the attempt: until it saves its run, the event has *)
(* a claim and no run; without a claim there is neither run nor mail.      *)
ClaimHeld ==
    /\ \A w \in Worker : Running(w) => /\ event[w] \in claims
                                       /\ runs[event[w]] = NoRun
    /\ \A e \in Event \ claims : runs[e] = NoRun /\ mailbox[e] = <<>>

(* Nothing is mailed before the delivery step, and what the delivery step  *)
(* mailed is what the run about to be saved will account for.              *)
MailAccounted ==
    \A w \in Worker :
        /\ Running(w) /\ pc[w] # "save_run" => mailbox[event[w]] = <<>>
        /\ pc[w] = "save_run" =>
              /\ status[w] = "brief_delivered" => mailbox[event[w]] # <<>>
              /\ \A i \in DOMAIN mailbox[event[w]] :
                    /\ status[w] \in {"brief_delivered", "brief_prepared"}
                    /\ mailbox[event[w]][i][1] = EventSource[event[w]]
                    /\ mailbox[event[w]][i][2] # mailbox[event[w]][i][3]
                    /\ mailbox[event[w]][i][3] = capture[w].page.evidence

(* The inductive invariant. *)
IInv ==
    /\ TypeOK /\ HasEvent /\ HasCapture /\ ClaimHeld /\ MailAccounted
    /\ OneRunner /\ MailedOnce /\ MailedIsQueued
    /\ AnswerIsRecorded /\ RunAccountsForMail

-----------------------------------------------------------------------------
(* The initial state satisfies the inductive invariant. *)
LEMMA InitInv == Init => IInv
<1> SUFFICES ASSUME Init PROVE IInv
  OBVIOUS
<1>1. site \in [Source -> Snapshot]
  BY VersionAssumption DEF Init, Snapshot
<1>2. TypeOK
  BY <1>1 DEF Init, TypeOK, CandidateStatus
<1>3. HasEvent /\ HasCapture /\ ClaimHeld /\ MailAccounted
  BY DEF Init, HasEvent, HasCapture, ClaimHeld, MailAccounted, Running
<1>4. OneRunner /\ AnswerIsRecorded
  BY DEF Init, OneRunner, Running, AnswerIsRecorded
<1>5. MailedOnce /\ MailedIsQueued /\ RunAccountsForMail
  BY DEF Init, MailedOnce, MailedIsQueued, RunAccountsForMail
<1> QED
  BY <1>2, <1>3, <1>4, <1>5 DEF IInv

(* The change a handler briefs is a change of its source. *)
LEMMA ChangeType ==
  ASSUME NEW w \in Worker, SourceOf(w) \in Source,
         prior[w] \in Snapshot, capture[w] \in Snapshot
  PROVE  ChangeOf(w) \in Change
BY DEF ChangeOf, Change, Snapshot, Page

(* Every step keeps every variable in its type. *)
LEMMA TypeStep == TypeOK /\ HasEvent /\ HasCapture /\ [Next]_vars => TypeOK'
<1> SUFFICES ASSUME TypeOK, HasEvent, HasCapture, [Next]_vars PROVE TypeOK'
  OBVIOUS
<1> USE DEF TypeOK
<1>1. ASSUME NEW s \in Source, Publish(s) PROVE TypeOK'
  <2>1. site' \in [Source -> Snapshot]
    BY <1>1, VersionAssumption DEF Publish, Snapshot
  <2> QED
    BY <1>1, <2>1 DEF Publish, store, local
<1>2. ASSUME NEW w \in Worker, NEW e \in Event, Receive(w, e) PROVE TypeOK'
  BY <1>2 DEF Receive, Step, store
<1>3. ASSUME NEW w \in Worker, ClaimEvent(w) PROVE TypeOK'
  <2>1. event[w] \in Event
    BY <1>3 DEF ClaimEvent, Step, HasEvent
  <2> QED
    BY <1>3, <2>1 DEF ClaimEvent, Step
<1>4. ASSUME NEW w \in Worker, LookupRun(w) PROVE TypeOK'
  <2>1. event[w] \in Event
    BY <1>4 DEF LookupRun, Answer, Step, HasEvent
  <2>2. runs[event[w]] # NoRun => runs[event[w]].status \in RunStatus
    BY <2>1
  <2> QED
    BY <1>4, <2>2 DEF LookupRun, Answer, Step, store
<1>5. ASSUME NEW w \in Worker, Fetch(w) PROVE TypeOK'
  <2>1. site[SourceOf(w)] \in Snapshot
    BY <1>5 DEF Fetch, Step, HasEvent
  <2> QED
    BY <1>5, <2>1 DEF Fetch, Step, store
<1>6. ASSUME NEW w \in Worker, FetchFails(w) \/ BriefFails(w) PROVE TypeOK'
  BY <1>6 DEF FetchFails, BriefFails, Answer, Step, store
<1>7. ASSUME NEW w \in Worker, ReadPrior(w) PROVE TypeOK'
  <2>1. snapshots[SourceOf(w)] \in Snapshot \cup {NoSnapshot}
    BY <1>7 DEF ReadPrior, Step, HasEvent
  <2> QED
    BY <1>7, <2>1 DEF ReadPrior, Step, store
<1>8. ASSUME NEW w \in Worker, SaveSnapshot(w) PROVE TypeOK'
  <2>1. SourceOf(w) \in Source /\ capture[w] \in Snapshot
    BY <1>8 DEF SaveSnapshot, Step, HasEvent, HasCapture
  <2>2. Overwritten(w) \subseteq Change
    <3>1. snapshots[SourceOf(w)] # NoSnapshot =>
             snapshots[SourceOf(w)].page.evidence \in Evidence
      BY <2>1 DEF Snapshot, Page
    <3>2. capture[w].page.evidence \in Evidence
      BY <2>1 DEF Snapshot, Page
    <3> QED
      BY <2>1, <3>1, <3>2 DEF Overwritten, Change
  <2>3. snapshots' \in [Source -> Snapshot \cup {NoSnapshot}]
    BY <1>8, <2>1 DEF SaveSnapshot
  <2>4. observed' \subseteq Change
    BY <1>8, <2>2 DEF SaveSnapshot
  <2>5. status' \in [Worker -> RunStatus \cup {"duplicate", "error", NoStatus}]
    BY <1>8 DEF SaveSnapshot, RunStatus
  <2> QED
    BY <1>8, <2>3, <2>4, <2>5 DEF SaveSnapshot, Step
<1>9. ASSUME NEW w \in Worker, GenerateBrief(w) PROVE TypeOK'
  BY <1>9 DEF GenerateBrief, Step, store
<1>10. ASSUME NEW w \in Worker, SaveCandidate(w) PROVE TypeOK'
  BY <1>10 DEF SaveCandidate, Step, CandidateStatus
<1>11. ASSUME NEW w \in Worker, DeliverBrief(w) \/ DeliveryFails(w) PROVE TypeOK'
  <2>1. event[w] \in Event /\ ChangeOf(w) \in Change
    BY <1>11, ChangeType DEF DeliverBrief, DeliveryFails, Step, HasEvent, HasCapture
  <2>2. Mail(w) => mailbox' \in [Event -> Seq(Change)]
    BY <2>1 DEF Mail
  <2>3. status' \in [Worker -> RunStatus \cup {"duplicate", "error", NoStatus}]
    BY <1>11 DEF DeliverBrief, DeliveryFails, RunStatus
  <2> QED
    BY <1>11, <2>2, <2>3 DEF DeliverBrief, DeliveryFails, Step, store
<1>12. ASSUME NEW w \in Worker, SaveRun(w) PROVE TypeOK'
  <2>1. event[w] \in Event /\ capture[w] \in Snapshot /\ status[w] \in RunStatus
    BY <1>12 DEF SaveRun, Step, HasEvent, HasCapture
  <2>2. runs' \in [Event -> [status : RunStatus, snapshot : Snapshot] \cup {NoRun}]
    BY <1>12, <2>1 DEF SaveRun
  <2> QED
    BY <1>12, <2>2 DEF SaveRun, Step
<1>13. ASSUME NEW w \in Worker, Respond(w) \/ Crash(w) PROVE TypeOK'
  BY <1>13 DEF Respond, Crash, Forget, Step, store
<1>14. ASSUME NEW c \in Change, NEW d \in {"owner_acknowledged", "owner_archived"},
              Resolve(c, d) PROVE TypeOK'
  BY <1>14 DEF Resolve, local, CandidateStatus
<1>15. CASE UNCHANGED vars
  BY <1>15 DEF vars, store, local
<1> QED
  BY <1>1, <1>2, <1>3, <1>4, <1>5, <1>6, <1>7, <1>8, <1>9, <1>10, <1>11,
     <1>12, <1>13, <1>14, <1>15 DEF Next, Process

(* A step of a handler changes the locals of no other handler. *)
LEMMA OtherHandlers ==
  ASSUME TypeOK, [Next]_vars, NEW w \in Worker, pc'[w] = pc[w]
  PROVE  event'[w] = event[w] /\ capture'[w] = capture[w]
         /\ prior'[w] = prior[w] /\ status'[w] = status[w]
<1> USE DEF TypeOK
<1>1. ASSUME NEW v \in Worker, NEW e \in Event, Receive(v, e)
      PROVE  event'[w] = event[w] /\ capture'[w] = capture[w]
             /\ prior'[w] = prior[w] /\ status'[w] = status[w]
  BY <1>1 DEF Receive, Step
<1>2. ASSUME NEW v \in Worker, Process(v)
      PROVE  event'[w] = event[w] /\ capture'[w] = capture[w]
             /\ prior'[w] = prior[w] /\ status'[w] = status[w]
  BY <1>2 DEF Process, ClaimEvent, LookupRun, Fetch, FetchFails, ReadPrior,
       SaveSnapshot, GenerateBrief, BriefFails, SaveCandidate, DeliverBrief,
       DeliveryFails, SaveRun, Respond, Forget, Answer, Step
<1>3. ASSUME NEW v \in Worker, Crash(v)
      PROVE  event'[w] = event[w] /\ capture'[w] = capture[w]
             /\ prior'[w] = prior[w] /\ status'[w] = status[w]
  BY <1>3 DEF Crash, Forget
<1> QED
  BY <1>1, <1>2, <1>3 DEF Next, Publish, Resolve, vars, local

(* A handler moves by its own steps only. *)
LEMMA OwnStep ==
  ASSUME TypeOK, [Next]_vars, NEW w \in Worker, pc'[w] # pc[w]
  PROVE  (\E e \in Event : Receive(w, e)) \/ Process(w) \/ Crash(w)
<1> USE DEF TypeOK
<1>1. ASSUME NEW v \in Worker, v # w, Process(v) PROVE pc'[w] = pc[w]
  BY <1>1 DEF Process, ClaimEvent, LookupRun, Fetch, FetchFails, ReadPrior,
       SaveSnapshot, GenerateBrief, BriefFails, SaveCandidate, DeliverBrief,
       DeliveryFails, SaveRun, Respond, Answer, Step
<1>2. ASSUME NEW v \in Worker, v # w, NEW e \in Event, Receive(v, e)
      PROVE  pc'[w] = pc[w]
  BY <1>2 DEF Receive, Step
<1>3. ASSUME NEW v \in Worker, v # w, Crash(v) PROVE pc'[w] = pc[w]
  BY <1>3 DEF Crash
<1> QED
  BY <1>1, <1>2, <1>3 DEF Next, Publish, Resolve, vars, local

(* Candidates never leave the queue. *)
LEMMA CandidatesStay ==
  ASSUME TypeOK, [Next]_vars, NEW c, candidates[c] # "absent", c \in Change
  PROVE  candidates'[c] # "absent"
<1> USE DEF TypeOK
<1>1. ASSUME NEW w \in Worker, Process(w) PROVE candidates'[c] # "absent"
  BY <1>1 DEF Process, ClaimEvent, LookupRun, Fetch, FetchFails, ReadPrior,
       SaveSnapshot, GenerateBrief, BriefFails, SaveCandidate, DeliverBrief,
       DeliveryFails, SaveRun, Respond, Answer, store
<1> QED
  BY <1>1 DEF Next, Publish, Receive, Crash, Resolve, vars, store

(* Every busy handler keeps an event of an approved source. *)
LEMMA HasEventStep == TypeOK /\ HasEvent /\ [Next]_vars => HasEvent'
<1> SUFFICES ASSUME TypeOK, HasEvent, [Next]_vars PROVE HasEvent'
  OBVIOUS
<1> USE DEF TypeOK, HasEvent, SourceOf
<1>1. ASSUME NEW w \in Worker, NEW e \in Event, Receive(w, e) PROVE HasEvent'
  BY <1>1 DEF Receive, Step
<1>2. ASSUME NEW w \in Worker, Process(w) PROVE HasEvent'
  BY <1>2 DEF Process, ClaimEvent, LookupRun, Fetch, FetchFails, ReadPrior,
       SaveSnapshot, GenerateBrief, BriefFails, SaveCandidate, DeliverBrief,
       DeliveryFails, SaveRun, Respond, Forget, Answer, Step
<1>3. ASSUME NEW w \in Worker, Crash(w) PROVE HasEvent'
  BY <1>3 DEF Crash, Forget
<1> QED
  BY <1>1, <1>2, <1>3 DEF Next, Publish, Resolve, vars, local

(* What a handler relies on has been read, and its candidate stays queued. *)
LEMMA HasCaptureStep == TypeOK /\ HasEvent /\ HasCapture /\ [Next]_vars => HasCapture'
<1> SUFFICES ASSUME TypeOK, HasEvent, HasCapture, [Next]_vars,
                    NEW w \in Worker
             PROVE  /\ pc'[w] \in {"read_prior", "save_snapshot", "brief", "queue",
                                   "deliver", "save_run"} => capture'[w] \in Snapshot
                    /\ pc'[w] \in {"brief", "queue", "deliver"} =>
                          /\ prior'[w] \in Snapshot
                          /\ prior'[w].page.evidence # capture'[w].page.evidence
                    /\ pc'[w] = "save_run" => status'[w] \in RunStatus
                    /\ pc'[w] = "deliver" => candidates'[ChangeOf(w)'] # "absent"
  BY DEF HasCapture
<1> USE DEF TypeOK
<1>1. CASE pc'[w] = pc[w]
  <2>1. event'[w] = event[w] /\ capture'[w] = capture[w]
        /\ prior'[w] = prior[w] /\ status'[w] = status[w]
    BY <1>1, OtherHandlers
  <2>2. ChangeOf(w)' = ChangeOf(w)
    BY <2>1 DEF ChangeOf, SourceOf
  <2>3. ASSUME pc[w] = "deliver" PROVE candidates'[ChangeOf(w)] # "absent"
    <3>1. ChangeOf(w) \in Change /\ candidates[ChangeOf(w)] # "absent"
      BY <2>3, ChangeType DEF HasEvent, HasCapture
    <3> QED
      BY <3>1, CandidatesStay
  <2> QED
    BY <1>1, <2>1, <2>2, <2>3 DEF HasCapture
<1>2. CASE pc'[w] # pc[w]
  <2>1. ASSUME NEW e \in Event, Receive(w, e)
        PROVE  pc'[w] \in {"claim", "respond"}
    BY <2>1 DEF Receive, Step
  <2>2. ASSUME Respond(w) \/ Crash(w) PROVE pc'[w] = "idle"
    BY <2>2 DEF Respond, Crash, Step
  <2>3. ASSUME ClaimEvent(w) PROVE pc'[w] \in {"lookup", "fetch"}
    BY <2>3 DEF ClaimEvent, Step
  <2>4. ASSUME LookupRun(w) \/ FetchFails(w) \/ BriefFails(w) \/ SaveRun(w)
        PROVE  pc'[w] = "respond"
    BY <2>4 DEF LookupRun, FetchFails, BriefFails, SaveRun, Answer, Step
  <2>5. ASSUME Fetch(w) PROVE pc'[w] = "read_prior" /\ capture'[w] \in Snapshot
    BY <2>5 DEF Fetch, Step, HasEvent
  <2>6. ASSUME ReadPrior(w)
        PROVE  pc'[w] = "save_snapshot" /\ capture'[w] \in Snapshot
    BY <2>6 DEF ReadPrior, Step, HasCapture
  <2>7. ASSUME SaveSnapshot(w)
        PROVE  \/ /\ pc'[w] = "save_run" /\ status'[w] \in RunStatus
                  /\ capture'[w] \in Snapshot
               \/ /\ pc'[w] = "brief" /\ capture'[w] \in Snapshot
                  /\ prior'[w] \in Snapshot
                  /\ prior'[w].page.evidence # capture'[w].page.evidence
    BY <2>7 DEF SaveSnapshot, Step, IsBaseline, HasCapture, RunStatus
  <2>8. ASSUME GenerateBrief(w)
        PROVE  pc'[w] = "queue" /\ capture'[w] \in Snapshot /\ prior'[w] \in Snapshot
               /\ prior'[w].page.evidence # capture'[w].page.evidence
    BY <2>8 DEF GenerateBrief, Step, HasCapture
  <2>9. ASSUME SaveCandidate(w)
        PROVE  pc'[w] = "deliver" /\ capture'[w] \in Snapshot /\ prior'[w] \in Snapshot
               /\ prior'[w].page.evidence # capture'[w].page.evidence
               /\ candidates'[ChangeOf(w)'] # "absent"
    <3>1. ChangeOf(w)' = ChangeOf(w)
      BY <2>9 DEF SaveCandidate, ChangeOf, SourceOf
    <3>2. ChangeOf(w) \in Change
      BY <2>9, ChangeType DEF SaveCandidate, Step, HasEvent, HasCapture
    <3> QED
      BY <2>9, <3>1, <3>2 DEF SaveCandidate, Step, HasCapture
  <2>10. ASSUME DeliverBrief(w) \/ DeliveryFails(w)
         PROVE  pc'[w] = "save_run" /\ capture'[w] \in Snapshot
                /\ status'[w] \in RunStatus
    BY <2>10 DEF DeliverBrief, DeliveryFails, Step, HasCapture, RunStatus
  <2>11. \/ \E e \in Event : Receive(w, e)
         \/ Process(w) \/ Crash(w)
    BY <1>2, OwnStep
  <2> QED
    BY <2>1, <2>2, <2>3, <2>4, <2>5, <2>6, <2>7, <2>8, <2>9, <2>10, <2>11
       DEF Process
<1> QED
  BY <1>1, <1>2

(* A claim is made once and never withdrawn, and runs stay recorded; only  *)
(* the running handler of an event touches its run and its mail.           *)
LEMMA ClaimHeldStep ==
  TypeOK /\ HasEvent /\ ClaimHeld /\ OneRunner /\ [Next]_vars
    => ClaimHeld' /\ OneRunner'
<1> SUFFICES ASSUME TypeOK, HasEvent, ClaimHeld, OneRunner, [Next]_vars
             PROVE  ClaimHeld' /\ OneRunner'
  OBVIOUS
<1> USE DEF TypeOK, ClaimHeld, OneRunner, Running
<1>1. ASSUME NEW w \in Worker, NEW e \in Event, Receive(w, e)
      PROVE  ClaimHeld' /\ OneRunner'
  BY <1>1 DEF Receive, Step, store
<1>2. ASSUME NEW w \in Worker, ClaimEvent(w) PROVE ClaimHeld' /\ OneRunner'
  <2>1. event[w] \in Event /\ event' = event /\ runs' = runs /\ mailbox' = mailbox
        /\ claims' = claims \cup {event[w]}
    BY <1>2 DEF ClaimEvent, Step, HasEvent
  <2>2. CASE event[w] \in claims
    BY <1>2, <2>1, <2>2 DEF ClaimEvent, Step
  <2>3. CASE event[w] \notin claims
    <3>1. \A v \in Worker : Running(v)' => v = w \/ Running(v)
      BY <1>2 DEF ClaimEvent, Step
    <3>2. \A v \in Worker : Running(v) => event[v] # event[w]
      BY <2>3
    <3> HIDE DEF Running
    <3> QED
      BY <2>1, <2>3, <3>1, <3>2
  <2> QED
    BY <2>2, <2>3
<1>3. ASSUME NEW w \in Worker,
             LookupRun(w) \/ FetchFails(w) \/ BriefFails(w) \/ Respond(w) \/ Crash(w)
      PROVE  ClaimHeld' /\ OneRunner'
  <2>1. UNCHANGED <<claims, runs, mailbox>>
    BY <1>3 DEF LookupRun, FetchFails, BriefFails, Respond, Crash, Answer, store
  <2>2. \A v \in Worker : Running(v)' => Running(v) /\ event'[v] = event[v]
    <3>1. CASE LookupRun(w) \/ FetchFails(w) \/ BriefFails(w)
      BY <3>1 DEF LookupRun, FetchFails, BriefFails, Answer, Step
    <3>2. CASE Respond(w) \/ Crash(w)
      BY <3>2 DEF Respond, Crash, Forget, Step
    <3> QED
      BY <1>3, <3>1, <3>2
  <2> HIDE DEF Running
  <2> QED
    BY <2>1, <2>2
<1>4. ASSUME NEW w \in Worker,
             Fetch(w) \/ ReadPrior(w) \/ SaveSnapshot(w) \/ GenerateBrief(w)
             \/ SaveCandidate(w)
      PROVE  ClaimHeld' /\ OneRunner'
  <2>1. /\ UNCHANGED <<event, claims, runs, mailbox>>
        /\ \A v \in Worker : Running(v)' <=> Running(v)
    BY <1>4 DEF Fetch, ReadPrior, SaveSnapshot, GenerateBrief, SaveCandidate,
         Step, store
  <2> HIDE DEF Running
  <2> QED
    BY <2>1
<1>5. ASSUME NEW w \in Worker, DeliverBrief(w) \/ DeliveryFails(w)
      PROVE  ClaimHeld' /\ OneRunner'
  <2>1. event[w] \in claims /\ \A e \in Event \ {event[w]} : mailbox'[e] = mailbox[e]
    BY <1>5 DEF DeliverBrief, DeliveryFails, Mail, Step
  <2> QED
    BY <1>5, <2>1 DEF DeliverBrief, DeliveryFails, Step, store
<1>6. ASSUME NEW w \in Worker, SaveRun(w) PROVE ClaimHeld' /\ OneRunner'
  <2>1. event[w] \in claims /\ \A e \in Event \ {event[w]} : runs'[e] = runs[e]
    BY <1>6 DEF SaveRun, Step
  <2>2. \A v \in Worker \ {w} : Running(v) => event[v] # event[w]
    BY <1>6 DEF SaveRun, Step
  <2> QED
    BY <1>6, <2>1, <2>2 DEF SaveRun, Step, HasEvent
<1> QED
  BY <1>1, <1>2, <1>3, <1>4, <1>5, <1>6
     DEF Next, Process, Publish, Resolve, vars, store, local

(* Only a delivery step mails, and only save_run writes a run. *)
LEMMA OnlyDeliveryMails ==
  ASSUME [Next]_vars
  PROVE  mailbox' = mailbox \/ \E w \in Worker : DeliverBrief(w) \/ DeliveryFails(w)
BY DEF Next, Process, Publish, Receive, Crash, Resolve, ClaimEvent, LookupRun,
     Fetch, FetchFails, ReadPrior, SaveSnapshot, GenerateBrief, BriefFails,
     SaveCandidate, SaveRun, Respond, Answer, vars

(* No step but save_run writes a run document. *)
LEMMA OnlySaveRunRecords ==
  ASSUME [Next]_vars
  PROVE  runs' = runs \/ \E w \in Worker : SaveRun(w)
BY DEF Next, Process, Publish, Receive, Crash, Resolve, ClaimEvent, LookupRun,
     Fetch, FetchFails, ReadPrior, SaveSnapshot, GenerateBrief, BriefFails,
     SaveCandidate, DeliverBrief, DeliveryFails, Respond, Answer, vars, store

(* What a delivery step leaves in the mailbox of its event. *)
LEMMA DeliveryEffect ==
  ASSUME TypeOK, HasEvent, HasCapture, MailAccounted, NEW w \in Worker,
         DeliverBrief(w) \/ DeliveryFails(w)
  PROVE  /\ pc[w] = "deliver" /\ pc' = [pc EXCEPT ![w] = "save_run"]
         /\ UNCHANGED <<site, store, observed, event, capture, prior>>
         /\ status' = [status EXCEPT ![w] = status'[w]]
         /\ status'[w] \in {"brief_delivered", "brief_prepared"}
         /\ mailbox' = [mailbox EXCEPT ![event[w]] = mailbox'[event[w]]]
         /\ mailbox'[event[w]] \in {<<>>, <<ChangeOf(w)>>}
         /\ status'[w] = "brief_delivered" => mailbox'[event[w]] = <<ChangeOf(w)>>
<1> USE DEF TypeOK
<1>1. event[w] \in Event /\ mailbox[event[w]] = <<>>
  BY DEF DeliverBrief, DeliveryFails, Step, HasEvent, MailAccounted, Running
<1>2. Append(<<>>, ChangeOf(w)) = <<ChangeOf(w)>>
  OBVIOUS
<1>3. Mail(w) => /\ mailbox' = [mailbox EXCEPT ![event[w]] = mailbox'[event[w]]]
                 /\ mailbox'[event[w]] = <<ChangeOf(w)>>
  BY <1>1, <1>2 DEF Mail
<1> QED
  BY <1>1, <1>3 DEF DeliverBrief, DeliveryFails, Step

(* The mail of an event is what its running handler will account for. *)
LEMMA MailAccountedStep ==
  TypeOK /\ HasEvent /\ HasCapture /\ ClaimHeld /\ OneRunner /\ MailAccounted
    /\ [Next]_vars => MailAccounted'
<1> SUFFICES ASSUME TypeOK, HasEvent, HasCapture, ClaimHeld, OneRunner,
                    MailAccounted, [Next]_vars
             PROVE  MailAccounted'
  OBVIOUS
<1> USE DEF TypeOK
<1>1. ASSUME NEW w \in Worker, DeliverBrief(w) \/ DeliveryFails(w)
      PROVE  MailAccounted'
  <2>1. /\ pc[w] = "deliver" /\ pc' = [pc EXCEPT ![w] = "save_run"]
        /\ UNCHANGED <<event, capture, prior>>
        /\ status' = [status EXCEPT ![w] = status'[w]]
        /\ status'[w] \in {"brief_delivered", "brief_prepared"}
        /\ mailbox' = [mailbox EXCEPT ![event[w]] = mailbox'[event[w]]]
        /\ mailbox'[event[w]] \in {<<>>, <<ChangeOf(w)>>}
        /\ status'[w] = "brief_delivered" => mailbox'[event[w]] = <<ChangeOf(w)>>
    BY <1>1, DeliveryEffect
  <2>2. /\ ChangeOf(w)[1] = EventSource[event[w]]
        /\ ChangeOf(w)[2] # ChangeOf(w)[3]
        /\ ChangeOf(w)[3] = capture[w].page.evidence
    BY <2>1 DEF ChangeOf, SourceOf, HasCapture
  <2>3. \A v \in Worker \ {w} : Running(v) => event[v] # event[w]
    BY <2>1 DEF OneRunner, Running
  <2>4. \A v \in Worker \ {w} :
           /\ pc'[v] = pc[v] /\ status'[v] = status[v]
           /\ Running(v) => mailbox'[event[v]] = mailbox[event[v]]
    BY <2>1, <2>3 DEF HasEvent, Running
  <2> SUFFICES ASSUME NEW v \in Worker
               PROVE  /\ Running(v)' /\ pc'[v] # "save_run" => mailbox'[event[v]] = <<>>
                      /\ pc'[v] = "save_run" =>
                            /\ status'[v] = "brief_delivered" => mailbox'[event[v]] # <<>>
                            /\ \A i \in DOMAIN mailbox'[event[v]] :
                                  /\ status'[v] \in {"brief_delivered", "brief_prepared"}
                                  /\ mailbox'[event[v]][i][1] = EventSource[event[v]]
                                  /\ mailbox'[event[v]][i][2] # mailbox'[event[v]][i][3]
                                  /\ mailbox'[event[v]][i][3] = capture[v].page.evidence
    BY <2>1 DEF MailAccounted
  <2>5. CASE v = w
    <3>1. CASE mailbox'[event[w]] = <<>>
      BY <2>1, <2>5, <3>1
    <3>2. CASE mailbox'[event[w]] = <<ChangeOf(w)>>
      <4>1. DOMAIN mailbox'[event[w]] = {1} /\ mailbox'[event[w]][1] = ChangeOf(w)
        BY <3>2
      <4> QED
        BY <2>1, <2>2, <2>5, <4>1
    <3> QED
      BY <2>1, <3>1, <3>2
  <2>6. CASE v # w
    BY <2>4, <2>6 DEF MailAccounted, Running
  <2> QED
    BY <2>5, <2>6
<1>2. CASE mailbox' = mailbox
  <2> SUFFICES ASSUME NEW v \in Worker, Running(v)'
               PROVE  /\ pc'[v] # "save_run" => mailbox[event'[v]] = <<>>
                      /\ pc'[v] = "save_run" =>
                            /\ status'[v] = "brief_delivered" => mailbox[event'[v]] # <<>>
                            /\ \A i \in DOMAIN mailbox[event'[v]] :
                                  /\ status'[v] \in {"brief_delivered", "brief_prepared"}
                                  /\ mailbox[event'[v]][i][1] = EventSource[event'[v]]
                                  /\ mailbox[event'[v]][i][2] # mailbox[event'[v]][i][3]
                                  /\ mailbox[event'[v]][i][3] = capture'[v].page.evidence
    BY <1>2 DEF MailAccounted, Running
  <2>1. CASE pc'[v] = pc[v]
    BY <2>1, OtherHandlers DEF MailAccounted, Running
  <2>2. CASE pc'[v] # pc[v]
    <3>1. CASE DeliverBrief(v) \/ DeliveryFails(v)
      BY <1>1, <1>2, <3>1 DEF MailAccounted, Running
    <3>2. CASE ClaimEvent(v)
      <4>1. event'[v] = event[v] /\ event[v] \in Event \ claims /\ pc'[v] = "fetch"
        BY <3>2 DEF ClaimEvent, Step, Running, HasEvent
      <4> QED
        BY <4>1 DEF ClaimHeld
    <3>3. CASE Fetch(v) \/ ReadPrior(v) \/ SaveSnapshot(v) \/ GenerateBrief(v)
               \/ SaveCandidate(v)
      <4>1. /\ Running(v) /\ pc[v] # "save_run" /\ event'[v] = event[v]
            /\ pc'[v] = "save_run" => status'[v] # "brief_delivered"
        BY <3>3 DEF Fetch, ReadPrior, SaveSnapshot, GenerateBrief, SaveCandidate,
             Step, Running
      <4>2. mailbox[event'[v]] = <<>>
        BY <4>1 DEF MailAccounted
      <4> QED
        BY <4>1, <4>2
    <3>4. \/ DeliverBrief(v) \/ DeliveryFails(v) \/ ClaimEvent(v)
          \/ Fetch(v) \/ ReadPrior(v) \/ SaveSnapshot(v) \/ GenerateBrief(v)
          \/ SaveCandidate(v)
      <4>1. (\E e \in Event : Receive(v, e)) \/ Process(v) \/ Crash(v)
        BY <2>2, OwnStep
      <4> QED
        BY <4>1 DEF Process, Receive, LookupRun, FetchFails, BriefFails, SaveRun,
           Respond, Crash, Answer, Step, Running
    <3> QED
      BY <3>1, <3>2, <3>3, <3>4
  <2> QED
    BY <2>1, <2>2
<1> QED
  BY <1>1, <1>2, OnlyDeliveryMails

(* Runs, mail and answers stay consistent with each other. *)
LEMMA RecordsStep ==
  IInv /\ [Next]_vars => MailedOnce' /\ MailedIsQueued' /\ RunAccountsForMail'
<1> SUFFICES ASSUME IInv, [Next]_vars
             PROVE  MailedOnce' /\ MailedIsQueued' /\ RunAccountsForMail'
  OBVIOUS
<1> USE DEF TypeOK, IInv
<1>1. ASSUME NEW w \in Worker, DeliverBrief(w) \/ DeliveryFails(w)
      PROVE  MailedOnce' /\ MailedIsQueued' /\ RunAccountsForMail'
  <2>1. /\ pc[w] = "deliver" /\ UNCHANGED <<candidates, runs>>
        /\ mailbox' = [mailbox EXCEPT ![event[w]] = mailbox'[event[w]]]
        /\ mailbox'[event[w]] \in {<<>>, <<ChangeOf(w)>>}
    BY <1>1, DeliveryEffect DEF store
  <2>2. event[w] \in Event /\ runs[event[w]] = NoRun
    BY <2>1 DEF HasEvent, ClaimHeld, Running
  <2>3. candidates[ChangeOf(w)] # "absent"
    BY <2>1 DEF HasCapture
  <2>4. /\ Len(mailbox'[event[w]]) <= 1
        /\ \A i \in DOMAIN mailbox'[event[w]] :
              candidates[mailbox'[event[w]][i]] # "absent"
    <3>1. CASE mailbox'[event[w]] = <<>>
      BY <3>1
    <3>2. CASE mailbox'[event[w]] = <<ChangeOf(w)>>
      <4>1. /\ Len(mailbox'[event[w]]) = 1 /\ DOMAIN mailbox'[event[w]] = {1}
            /\ mailbox'[event[w]][1] = ChangeOf(w)
        BY <3>2
      <4> QED
        BY <4>1, <2>3
    <3> QED
      BY <2>1, <3>1, <3>2
  <2>5. \A e \in Event \ {event[w]} : mailbox'[e] = mailbox[e]
    BY <2>1
  <2>6. MailedOnce'
    BY <2>4, <2>5 DEF MailedOnce
  <2>7. MailedIsQueued'
    <3> SUFFICES ASSUME NEW e \in Event, NEW i \in DOMAIN mailbox'[e]
                 PROVE  candidates'[mailbox'[e][i]] # "absent"
      BY DEF MailedIsQueued
    <3>1. CASE e = event[w]
      BY <2>1, <2>4, <3>1
    <3>2. CASE e # event[w]
      <4>1. mailbox'[e] = mailbox[e] /\ candidates' = candidates
        BY <2>1, <2>5, <3>2
      <4>2. candidates[mailbox[e][i]] # "absent"
        BY <4>1 DEF MailedIsQueued
      <4> QED
        BY <4>1, <4>2
    <3> QED
      BY <3>1, <3>2
  <2>8. RunAccountsForMail'
    BY <2>1, <2>2, <2>5 DEF RunAccountsForMail
  <2> QED
    BY <2>6, <2>7, <2>8
<1>2. CASE mailbox' = mailbox
  <2>1. MailedOnce'
    BY <1>2 DEF MailedOnce
  <2>2. MailedIsQueued'
    <3> SUFFICES ASSUME NEW e \in Event, NEW i \in DOMAIN mailbox[e]
                 PROVE  candidates'[mailbox[e][i]] # "absent"
      BY <1>2 DEF MailedIsQueued
    <3>1. mailbox[e][i] \in Change
      OBVIOUS
    <3> QED
      BY <3>1, CandidatesStay DEF MailedIsQueued
  <2>3. RunAccountsForMail'
    <3>1. ASSUME NEW w \in Worker, SaveRun(w) PROVE RunAccountsForMail'
      <4>1. /\ pc[w] = "save_run" /\ event[w] \in Event
            /\ capture[w] \in Snapshot /\ status[w] \in RunStatus
            /\ runs' = [runs EXCEPT ![event[w]] =
                           [status |-> status[w], snapshot |-> capture[w]]]
        BY <3>1 DEF SaveRun, Step, HasEvent, HasCapture
      <4>2. /\ runs'[event[w]].status = status[w]
            /\ runs'[event[w]].snapshot = capture[w]
            /\ \A e \in Event \ {event[w]} : runs'[e] = runs[e]
        BY <4>1
      <4> SUFFICES ASSUME NEW e \in Event, runs'[e] # NoRun
                   PROVE  /\ runs'[e].status = "brief_delivered" => mailbox[e] # <<>>
                          /\ \A i \in DOMAIN mailbox[e] :
                                /\ runs'[e].status \in {"brief_delivered", "brief_prepared"}
                                /\ mailbox[e][i][1] = EventSource[e]
                                /\ mailbox[e][i][2] # mailbox[e][i][3]
                                /\ mailbox[e][i][3] = runs'[e].snapshot.page.evidence
        BY <1>2 DEF RunAccountsForMail
      <4>3. CASE e = event[w]
        BY <4>1, <4>2, <4>3 DEF MailAccounted
      <4>4. CASE e # event[w]
        BY <4>2, <4>4 DEF RunAccountsForMail
      <4> QED
        BY <4>3, <4>4
    <3>2. CASE runs' = runs
      BY <1>2, <3>2 DEF RunAccountsForMail
    <3> QED
      BY <3>1, <3>2, OnlySaveRunRecords
  <2> QED
    BY <2>1, <2>2, <2>3
<1> QED
  BY <1>1, <1>2, OnlyDeliveryMails

(* An answer that carries a run status is the stored run's. *)
LEMMA AnswerStep == IInv /\ [Next]_vars => AnswerIsRecorded'
<1> SUFFICES ASSUME IInv, [Next]_vars, NEW w \in Worker,
                    pc'[w] = "respond", status'[w] \in RunStatus
             PROVE  runs'[event'[w]] # NoRun /\ runs'[event'[w]].status = status'[w]
  BY DEF AnswerIsRecorded
<1> USE DEF TypeOK, IInv
<1>1. ASSUME NEW e \in Event, runs[e] # NoRun PROVE runs'[e] = runs[e]
  <2>1. ASSUME NEW v \in Worker, SaveRun(v) PROVE runs'[e] = runs[e]
    BY <1>1, <2>1 DEF SaveRun, Step, ClaimHeld, Running
  <2> QED
    BY <2>1, OnlySaveRunRecords
<1>2. CASE pc'[w] = pc[w]
  <2>1. event'[w] = event[w] /\ status'[w] = status[w] /\ event[w] \in Event
    BY <1>2, OtherHandlers DEF HasEvent
  <2> QED
    BY <1>1, <1>2, <2>1 DEF AnswerIsRecorded
<1>3. CASE pc'[w] # pc[w]
  <2>1. ASSUME NEW e \in Event, Receive(w, e) PROVE status'[w] \notin RunStatus
    BY <2>1, NoneAssumption DEF Receive, RunStatus
  <2>2. ASSUME FetchFails(w) \/ BriefFails(w) PROVE status'[w] \notin RunStatus
    BY <2>2 DEF FetchFails, BriefFails, Answer, RunStatus
  <2>3. ASSUME LookupRun(w)
        PROVE  runs'[event'[w]] # NoRun /\ runs'[event'[w]].status = status'[w]
    <3>1. /\ runs' = runs /\ event' = event
          /\ status'[w] = IF runs[event[w]] = NoRun THEN "duplicate"
                          ELSE runs[event[w]].status
      BY <2>3 DEF LookupRun, Answer, store
    <3> QED
      BY <3>1 DEF RunStatus
  <2>4. ASSUME SaveRun(w)
        PROVE  runs'[event'[w]] # NoRun /\ runs'[event'[w]].status = status'[w]
    <3>1. /\ event[w] \in Event /\ capture[w] \in Snapshot /\ status[w] \in RunStatus
          /\ event' = event /\ status' = status
          /\ runs'[event[w]] = [status |-> status[w], snapshot |-> capture[w]]
      BY <2>4 DEF SaveRun, Step, HasEvent, HasCapture
    <3> QED
      BY <3>1, NoneAssumption
  <2>5. \/ \E e \in Event : Receive(w, e)
        \/ FetchFails(w) \/ BriefFails(w) \/ LookupRun(w) \/ SaveRun(w)
    BY <1>3, OwnStep DEF Process, ClaimEvent, Fetch, ReadPrior, SaveSnapshot,
       GenerateBrief, SaveCandidate, DeliverBrief, DeliveryFails, Respond, Crash, Step
  <2> QED
    BY <2>1, <2>2, <2>3, <2>4, <2>5
<1> QED
  BY <1>2, <1>3

(* The inductive invariant holds in every reachable state. *)
THEOREM Invariance == Spec => []IInv
<1>1. Init => IInv
  BY InitInv
<1>2. IInv /\ [Next]_vars => IInv'
  BY TypeStep, HasEventStep, HasCaptureStep, ClaimHeldStep, MailAccountedStep,
     RecordsStep, AnswerStep DEF IInv
<1> QED
  BY <1>1, <1>2, PTL DEF Spec

(* Type correctness. *)
THEOREM TypeCorrect == Spec => []TypeOK
BY Invariance, PTL DEF IInv

(* At most one handler at a time works on an event, for every number of    *)
(* handlers and deliveries and every pattern of faults: claim_once lets    *)
(* one attempt through.                                                    *)
THEOREM AtMostOneRunner == Spec => []OneRunner
BY Invariance, PTL DEF IInv

(* The owner never receives two briefs for one event. *)
THEOREM AtMostOneMail == Spec => []MailedOnce
BY Invariance, PTL DEF IInv

(* Every brief the owner received has its candidate in the review queue. *)
THEOREM MailHasCandidate == Spec => []MailedIsQueued
BY Invariance, PTL DEF IInv

(* Every answer with a run status is given from the stored run. *)
THEOREM AnswersAgree == Spec => []AnswerIsRecorded
BY Invariance, PTL DEF IInv

(* The stored run accounts for the mail of its event and its evidence. *)
THEOREM RunsAccount == Spec => []RunAccountsForMail
BY Invariance, PTL DEF IInv

(* A recorded run is never rewritten. *)
THEOREM RunsAreFinal == Spec => RunFinal
<1>1. ASSUME IInv, [Next]_vars, NEW e \in Event, runs[e] # NoRun
      PROVE  runs'[e] = runs[e]
  <2>1. ASSUME NEW w \in Worker, SaveRun(w) PROVE runs'[e] = runs[e]
    BY <1>1, <2>1 DEF SaveRun, Step, IInv, TypeOK, ClaimHeld, Running
  <2> QED
    BY <1>1, <2>1, OnlySaveRunRecords
<1>2. IInv /\ [Next]_vars => [\A e \in Event : runs[e] # NoRun => runs'[e] = runs[e]]_vars
  BY <1>1
<1> QED
  BY <1>2, Invariance, PTL DEF Spec, RunFinal

(* An event whose attempt is gone is never run, mailed for or recorded     *)
(* again, however often it is delivered and whichever instance restarts.   *)
THEOREM NoRepeatAfterRestart == Spec => RestartNeverRepeats
<1>1. ASSUME IInv, [Next]_vars, NEW e \in Event, Abandoned(e)
      PROVE  Abandoned(e)' /\ mailbox'[e] = mailbox[e]
  <2> USE DEF IInv, TypeOK
  <2>1. runs'[e] = runs[e]
    <3>1. ASSUME NEW w \in Worker, SaveRun(w) PROVE runs'[e] = runs[e]
      BY <1>1, <3>1 DEF SaveRun, Step, Abandoned, Running
    <3> QED
      BY <1>1, <3>1, OnlySaveRunRecords
  <2>2. mailbox'[e] = mailbox[e]
    <3>1. ASSUME NEW w \in Worker, DeliverBrief(w) \/ DeliveryFails(w)
          PROVE  mailbox'[e] = mailbox[e]
      BY <1>1, <3>1 DEF DeliverBrief, DeliveryFails, Mail, Step, Abandoned, Running
    <3> QED
      BY <1>1, <3>1, OnlyDeliveryMails
  <2>3. e \in claims'
    BY <1>1 DEF Abandoned, Next, Process, Publish, Receive, Crash, Resolve, ClaimEvent,
       LookupRun, Fetch, FetchFails, ReadPrior, SaveSnapshot, GenerateBrief,
       BriefFails, SaveCandidate, DeliverBrief, DeliveryFails, SaveRun, Respond,
       Answer, vars, store
  <2>4. ASSUME NEW w \in Worker, Running(w)' PROVE event'[w] # e
    <3>1. CASE pc'[w] = pc[w]
      BY <1>1, <2>4, <3>1, OtherHandlers DEF Abandoned, Running
    <3>2. CASE pc'[w] # pc[w]
      <4>1. (\E d \in Event : Receive(w, d)) \/ Process(w) \/ Crash(w)
        BY <1>1, <3>2, OwnStep
      <4>2. CASE ClaimEvent(w)
        BY <1>1, <2>4, <4>2 DEF ClaimEvent, Step, Running, Abandoned
      <4>3. CASE ~ClaimEvent(w)
        BY <1>1, <2>4, <4>1, <4>3 DEF Process, Receive, Crash, LookupRun, Fetch,
           FetchFails, ReadPrior, SaveSnapshot, GenerateBrief, BriefFails,
           SaveCandidate, DeliverBrief, DeliveryFails, SaveRun, Respond, Answer,
           Step, Running, Abandoned
      <4> QED
        BY <4>2, <4>3
    <3> QED
      BY <3>1, <3>2
  <2> QED
    BY <1>1, <2>1, <2>2, <2>3, <2>4 DEF Abandoned
<1>2. IInv /\ [Next]_vars =>
        [\A e \in Event : Abandoned(e) =>
            Abandoned(e)' /\ mailbox'[e] = mailbox[e]]_vars
  BY <1>1
<1> QED
  BY <1>2, Invariance, PTL DEF Spec, RestartNeverRepeats

-----------------------------------------------------------------------------
(* A page is a finite sequence of sentences. *)
LEMMA PagesAreFinite ==
  ASSUME NEW e \in Evidence, NEW I \in SUBSET (DOMAIN Text[e])
  PROVE  IsFiniteSet(I) /\ Cardinality(I) <= Cardinality(DOMAIN Text[e])
                        /\ Cardinality(I) \in Nat /\ Cardinality(DOMAIN Text[e]) \in Nat
<1>1. Text[e] \in Seq(Sentence)
  BY TextAssumption
<1>2. DOMAIN Text[e] = 1..Len(Text[e]) /\ Len(Text[e]) \in Nat
  BY <1>1
<1>3. IsFiniteSet(DOMAIN Text[e])
  BY <1>2, FS_Interval
<1> QED
  BY <1>3, FS_Subset, FS_CardinalityType

(* A set of positions that is not larger than the limit is not cut. *)
LEMMA FirstKeepsAll ==
  ASSUME NEW e \in Evidence, NEW I \in SUBSET (DOMAIN Text[e]),
         NEW n \in Nat, Cardinality(I) <= n
  PROVE  First(n, I) = I
<1>1. ASSUME NEW i \in I PROVE Cardinality({j \in I : j <= i}) <= n
  <2>1. {j \in I : j <= i} \in SUBSET I
    OBVIOUS
  <2>2. Cardinality({j \in I : j <= i}) <= Cardinality(I)
    BY <2>1, PagesAreFinite, FS_Subset
  <2>3. Cardinality({j \in I : j <= i}) \in Nat /\ Cardinality(I) \in Nat
    BY <2>1, PagesAreFinite
  <2> QED
    BY <2>2, <2>3
<1> QED
  BY <1>1 DEF First

(* The pages a handler compares are pages of the source. *)
LEMMA BriefedPages ==
  ASSUME IInv, NEW w \in Worker, pc[w] = "brief"
  PROVE  prior[w].page.evidence \in Evidence /\ capture[w].page.evidence \in Evidence
BY DEF IInv, HasCapture, Snapshot, Page

(* With a store that keeps the segment hashes, whatever is in an excerpt   *)
(* is new: the prior page does not have it.                                *)
THEOREM ExcerptIsNew ==
  ASSUME StoreKind = "in_memory"
  PROVE  Spec => []ExcerptIsolatesChange
<1>1. IInv => ExcerptIsolatesChange
  <2> SUFFICES ASSUME IInv, NEW w \in Worker, pc[w] = "brief",
                      Cardinality(DOMAIN Text[prior[w].page.evidence]) <= MaxSegments,
                      NEW t \in At(capture[w].page.evidence, ChangedSegments(w)),
                      t \in Sentences(prior[w].page.evidence)
               PROVE  FALSE
    BY DEF ExcerptIsolatesChange
  <2> DEFINE old == prior[w].page.evidence
             long == {j \in DOMAIN Text[old] : Text[old][j] \notin Short}
  <2>1. old \in Evidence
    BY BriefedPages
  <2>2. t \notin Short /\ t \notin PriorHashes(w)
    BY DEF At, ChangedSegments, ContentSegments, First
  <2>3. PICK j \in DOMAIN Text[old] : t = Text[old][j]
    BY DEF Sentences, At
  <2>4. j \in long
    BY <2>2, <2>3
  <2>5. Cardinality(long) <= MaxSegments
    <3>1. long \in SUBSET (DOMAIN Text[old])
      OBVIOUS
    <3> QED
      BY <2>1, <3>1, PagesAreFinite, ExcerptAssumption
  <2>6. ContentSegments(old) = long
    BY <2>1, <2>5, FirstKeepsAll, ExcerptAssumption DEF ContentSegments
  <2> QED
    BY <2>2, <2>3, <2>4, <2>6 DEF PriorHashes, SegmentHashes, At
<1> QED
  BY <1>1, Invariance, PTL

(* What fits an excerpt still fits when segments are left out.             *)
LEMMA FewerFit ==
  ASSUME NEW e \in Evidence, NEW K \in SUBSET (DOMAIN Text[e]), NEW J \in SUBSET K,
         Fits(e, K)
  PROVE  Fits(e, J)
<1> DEFINE Box == (DOMAIN Text[e]) \X (0..MaxSize)
<1>1. IsFiniteSet(Box)
  <2>1. IsFiniteSet(0..MaxSize)
    BY SizeAssumption, FS_Interval
  <2>2. IsFiniteSet(DOMAIN Text[e])
    BY PagesAreFinite
  <2> QED
    BY <2>1, <2>2, FS_Product
<1>2. Characters(e, K) \subseteq Box
  <2>1. ASSUME NEW i \in K PROVE {i} \X (0..Size[Text[e][i]]) \subseteq Box
    <3>1. Text[e] \in Seq(Sentence) /\ i \in DOMAIN Text[e]
      BY TextAssumption
    <3>2. Text[e][i] \in Sentence
      BY <3>1
    <3>3. 0..Size[Text[e][i]] \subseteq 0..MaxSize
      BY <3>2, SizeAssumption
    <3> QED
      BY <3>1, <3>3
  <2> QED
    BY <2>1 DEF Characters
<1>3. Characters(e, J) \subseteq Characters(e, K)
  BY DEF Characters
<1>4. IsFiniteSet(Characters(e, K)) /\ IsFiniteSet(Characters(e, J))
  BY <1>1, <1>2, <1>3, FS_Subset
<1>5. Cardinality(Characters(e, J)) <= Cardinality(Characters(e, K))
  BY <1>3, <1>4, FS_Subset
<1>6. Cardinality(Characters(e, J)) \in Nat /\ Cardinality(Characters(e, K)) \in Nat
  BY <1>4, FS_CardinalityType
<1> QED
  BY <1>5, <1>6, SizeAssumption DEF Fits

(* Whichever the store, an excerpt that has room shows all that is new. *)
THEOREM ExcerptIsComplete == Spec => []ChangeIsShown
<1>1. IInv => ChangeIsShown
  <2> SUFFICES ASSUME IInv, NEW w \in Worker, pc[w] = "brief",
                      Cardinality(ContentSegments(capture[w].page.evidence)) <= MaxShown,
                      Fits(capture[w].page.evidence,
                           ContentSegments(capture[w].page.evidence)),
                      NEW t \in SegmentHashes(capture[w].page.evidence),
                      t \notin Sentences(prior[w].page.evidence)
               PROVE  t \in Excerpt(w)
    BY DEF ChangeIsShown
  <2> DEFINE page == capture[w].page.evidence
             fresh == {i \in ContentSegments(page) : Text[page][i] \notin PriorHashes(w)}
  <2>1. page \in Evidence /\ prior[w].page.evidence \in Evidence
    BY BriefedPages
  <2>2. PICK i \in ContentSegments(page) : t = Text[page][i]
    BY DEF SegmentHashes, At
  <2>3. t \notin PriorHashes(w)
    BY DEF PriorHashes, SegmentHashes, At, ContentSegments, First, Sentences
  <2>4. Cardinality(fresh) <= MaxShown
    <3>1. ContentSegments(page) \in SUBSET (DOMAIN Text[page])
      BY DEF ContentSegments, First
    <3>2. fresh \in SUBSET ContentSegments(page)
      OBVIOUS
    <3>3. IsFiniteSet(ContentSegments(page))
      BY <2>1, <3>1, PagesAreFinite
    <3>4. Cardinality(fresh) <= Cardinality(ContentSegments(page))
      BY <3>2, <3>3, FS_Subset
    <3>5. Cardinality(fresh) \in Nat /\ Cardinality(ContentSegments(page)) \in Nat
      BY <3>2, <3>3, FS_Subset, FS_CardinalityType
    <3> QED
      BY <3>4, <3>5, ExcerptAssumption
  <2>5. First(MaxShown, fresh) = fresh
    <3>1. fresh \in SUBSET (DOMAIN Text[page])
      BY DEF ContentSegments, First
    <3> QED
      BY <2>1, <2>4, <3>1, FirstKeepsAll, ExcerptAssumption
  <2>6. i \in fresh
    BY <2>2, <2>3
  <2>7. ChangedSegments(w) = fresh
    BY <2>5 DEF ChangedSegments
  <2>8. Fits(page, {j \in fresh : j <= i})
    <3>1. ContentSegments(page) \in SUBSET (DOMAIN Text[page])
      BY DEF ContentSegments, First
    <3>2. {j \in fresh : j <= i} \in SUBSET ContentSegments(page)
      OBVIOUS
    <3> QED
      BY <2>1, <3>1, <3>2, FewerFit
  <2> QED
    BY <2>2, <2>6, <2>7, <2>8 DEF Excerpt, At
<1> QED
  BY <1>1, Invariance, PTL

(* Positions are natural numbers.                                          *)
LEMMA PositionsAreNat ==
  ASSUME NEW e \in Evidence, NEW I \in SUBSET (DOMAIN Text[e])
  PROVE  I \subseteq Nat
<1>1. Text[e] \in Seq(Sentence)
  BY TextAssumption
<1> QED
  BY <1>1

(* Of two positions the later one has more positions up to it.             *)
LEMMA LaterHasMore ==
  ASSUME NEW e \in Evidence, NEW I \in SUBSET (DOMAIN Text[e]),
         NEW i \in I, NEW k \in I, i < k
  PROVE  Cardinality({j \in I : j <= i}) < Cardinality({j \in I : j <= k})
<1> DEFINE UpToI == {j \in I : j <= i}
           UpToK == {j \in I : j <= k}
<1>1. I \subseteq Nat
  BY PositionsAreNat
<1>2. UpToI \subseteq UpToK /\ k \in UpToK /\ k \notin UpToI
  <2>1. i \in Nat /\ k \in Nat
    BY <1>1
  <2>2. ASSUME NEW j \in I, j <= i PROVE j <= k
    <3>1. j \in Nat
      BY <1>1
    <3> QED
      BY <2>1, <2>2, <3>1
  <2>3. k <= k /\ ~(k <= i)
    BY <2>1
  <2> QED
    BY <2>2, <2>3
<1>3. UpToI \in SUBSET (DOMAIN Text[e]) /\ UpToK \in SUBSET (DOMAIN Text[e])
  OBVIOUS
<1>4. IsFiniteSet(UpToK) /\ Cardinality(UpToK) \in Nat /\ Cardinality(UpToI) \in Nat
  BY <1>3, PagesAreFinite
<1> HIDE DEF UpToI, UpToK
<1>5. Cardinality(UpToI) <= Cardinality(UpToK) /\ Cardinality(UpToI) # Cardinality(UpToK)
  BY <1>2, <1>4, FS_Subset
<1>6. Cardinality(UpToI) < Cardinality(UpToK)
  BY <1>4, <1>5
<1> QED
  BY <1>6 DEF UpToI, UpToK

(* The first n of the positions are n at most: the number of positions up  *)
(* to each of them is between 1 and n and differs from the others'.        *)
LEMMA FirstIsBounded ==
  ASSUME NEW e \in Evidence, NEW I \in SUBSET (DOMAIN Text[e]), NEW n \in Nat
  PROVE  Cardinality(First(n, I)) <= n
<1> DEFINE J == First(n, I)
           Rank[i \in J] == Cardinality({j \in I : j <= i})
<1>1. J \subseteq I /\ J \in SUBSET (DOMAIN Text[e]) /\ I \subseteq Nat
  BY PositionsAreNat DEF First
<1>2. IsFiniteSet(J) /\ Cardinality(J) \in Nat
  BY <1>1, PagesAreFinite
<1>3. IsFiniteSet(1..n) /\ Cardinality(1..n) = n
  BY FS_Interval
<1>4. ASSUME NEW i \in J PROVE Cardinality({j \in I : j <= i}) \in 1..n
  <2>1. i \in I /\ i \in Nat /\ Cardinality({j \in I : j <= i}) <= n
    BY <1>1, <1>4 DEF First
  <2>2. {j \in I : j <= i} \in SUBSET (DOMAIN Text[e]) /\ i \in {j \in I : j <= i}
    <3>1. i <= i
      BY <2>1
    <3> QED
      BY <2>1, <3>1
  <2>3. /\ IsFiniteSet({j \in I : j <= i})
        /\ Cardinality({j \in I : j <= i}) \in Nat
    BY <2>2, PagesAreFinite
  <2>4. Cardinality({j \in I : j <= i}) # 0
    BY <2>2, <2>3, FS_EmptySet
  <2> QED
    BY <2>1, <2>3, <2>4
<1>5. Rank \in [J -> 1..n]
  BY <1>4
<1>6. ASSUME NEW i \in J, NEW k \in J, i # k PROVE Rank[i] # Rank[k]
  <2>1. i < k \/ k < i
    <3>1. i \in Nat /\ k \in Nat
      BY <1>1, <1>6
    <3> QED
      BY <1>6, <3>1
  <2>2. /\ Rank[i] = Cardinality({j \in I : j <= i})
        /\ Rank[k] = Cardinality({j \in I : j <= k})
    BY <1>6
  <2>3. Rank[i] \in 1..n /\ Rank[k] \in 1..n
    BY <1>5, <1>6
  <2>4. i \in I /\ k \in I
    BY <1>1, <1>6
  <2> HIDE DEF J, Rank
  <2>5. Rank[i] < Rank[k] \/ Rank[k] < Rank[i]
    BY <2>1, <2>2, <2>4, LaterHasMore
  <2> QED
    BY <2>3, <2>5
<1> HIDE DEF J, Rank
<1>7. ~(n < Cardinality(J))
  BY <1>2, <1>3, <1>5, <1>6, FS_PigeonHole
<1>8. Cardinality(J) <= n
  BY <1>2, <1>7
<1> QED
  BY <1>8 DEF J

(* _changed_content_segments, whatever the pages: 12 segments at most, of  *)
(* the 120 at most that are compared, and cut at the end: what it shows    *)
(* comes before every new segment that it leaves out.                      *)
THEOREM ExcerptIsCutAtTheEnd ==
  ASSUME NEW w \in Worker, capture[w] \in Snapshot
  PROVE  LET page == capture[w].page.evidence IN
         /\ Cardinality(ContentSegments(page)) <= MaxSegments
         /\ Cardinality(ChangedSegments(w)) <= MaxShown
         /\ \A i \in ContentSegments(page) \ ChangedSegments(w) :
               Text[page][i] \notin PriorHashes(w) =>
                  \A j \in ChangedSegments(w) : j < i
<1> DEFINE page == capture[w].page.evidence
           long == {i \in DOMAIN Text[page] : Text[page][i] \notin Short}
           fresh == {i \in ContentSegments(page) : Text[page][i] \notin PriorHashes(w)}
<1>1. page \in Evidence /\ DOMAIN Text[page] \subseteq Nat
  <2>1. page \in Evidence
    BY DEF Snapshot, Page
  <2> QED
    BY <2>1, TextAssumption
<1>2. ContentSegments(page) = First(MaxSegments, long)
  BY DEF ContentSegments
<1>3. ChangedSegments(w) = First(MaxShown, fresh)
  BY DEF ChangedSegments
<1>4. long \in SUBSET (DOMAIN Text[page]) /\ fresh \in SUBSET (DOMAIN Text[page])
  BY <1>2 DEF First
<1>5. /\ Cardinality(ContentSegments(page)) <= MaxSegments
      /\ Cardinality(ChangedSegments(w)) <= MaxShown
  BY <1>1, <1>2, <1>3, <1>4, FirstIsBounded, ExcerptAssumption
<1>6. ASSUME NEW i \in fresh, i \notin First(MaxShown, fresh),
             NEW j \in First(MaxShown, fresh)
      PROVE  j < i
  <2>1. i \in Nat /\ j \in Nat /\ j \in fresh
    BY <1>1, <1>4 DEF First
  <2>2. SUFFICES ASSUME i <= j PROVE FALSE
    BY <2>1
  <2>3. {k \in fresh : k <= i} \subseteq {k \in fresh : k <= j}
    BY <1>1, <1>4, <2>1, <2>2
  <2>4. Cardinality({k \in fresh : k <= i}) <= Cardinality({k \in fresh : k <= j})
    <3>1. {k \in fresh : k <= j} \in SUBSET (DOMAIN Text[page])
      BY <1>4
    <3> QED
      BY <1>1, <2>3, <3>1, PagesAreFinite, FS_Subset
  <2>5. /\ Cardinality({k \in fresh : k <= i}) \in Nat
        /\ Cardinality({k \in fresh : k <= j}) \in Nat
    <3>1. /\ {k \in fresh : k <= i} \in SUBSET (DOMAIN Text[page])
          /\ {k \in fresh : k <= j} \in SUBSET (DOMAIN Text[page])
      BY <1>4
    <3> QED
      BY <1>1, <3>1, PagesAreFinite
  <2>6. Cardinality({k \in fresh : k <= j}) <= MaxShown
    BY DEF First
  <2> QED
    BY <1>6, <2>4, <2>5, <2>6, ExcerptAssumption DEF First
<1> QED
  BY <1>3, <1>5, <1>6

=============================================================================
