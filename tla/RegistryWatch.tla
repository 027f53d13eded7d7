---------------------------- MODULE RegistryWatch ----------------------------
(***************************************************************************)
(* The registry change watch of src/app/registry_watch.py in its Firestore *)
(* deployment.  Request handlers (threads of one or several Cloud Run      *)
(* instances) run RegistryWatchEngine.process on at-least-once events.     *)
(* Every round trip to the store, to the public source, to the brief       *)
(* provider and to the mail channel is a step of its own, so handlers of   *)
(* different events, of the same source or not, interleave between them.   *)
(***************************************************************************)
EXTENDS Integers, Sequences

CONSTANTS
    Worker,         \* request handlers; each runs one process() at a time
    Event,          \* registry.watch.requested events, by idempotency key
    Source,         \* the approved sources of the engine
    EventSource,    \* the source_id an event names: [Event -> Source or not]
    Evidence,       \* evidence_sha256 values of normalized public content
    Norm,           \* normalization versions, chosen by the content type
    Revision,       \* which page a source may publish after which
    LastVersion,    \* bound on the revisions a source publishes
    Fault,          \* what may go wrong: a subset of FaultKind
    NoEvent, NoSnapshot, NoRun, NoStatus    \* model values for "none"

FaultKind == {"fetch", "brief", "delivery", "crash"}
RunStatus == {"baseline_captured", "no_change", "brief_delivered",
              "brief_prepared"}

Page     == [evidence : Evidence, norm : Norm]
Snapshot == [version : 0..LastVersion, page : Page]

(* One RegistryActionCandidate per change: brief_id hashes the source and  *)
(* both evidence hashes, and candidate_id hashes the brief_id.             *)
Change == Source \X Evidence \X Evidence

CandidateStatus == {"absent", "awaiting_owner_review",
                    "owner_acknowledged", "owner_archived"}

ASSUME VersionAssumption == LastVersion \in Nat
ASSUME FaultAssumption == Fault \subseteq FaultKind
ASSUME RevisionAssumption == Revision \subseteq Page \X Page
ASSUME NoneAssumption ==
    /\ NoEvent \notin Event
    /\ NoSnapshot \notin Snapshot
    /\ NoRun \notin [status : RunStatus, snapshot : Snapshot]
    /\ NoStatus \notin RunStatus \cup {"duplicate", "error"}

VARIABLES
    site,           \* what every public source serves now
    claims,         \* events with a claim document
    snapshots,      \* latest snapshot document of every source
    runs,           \* run document of every event
    candidates,     \* owner-review queue: the status of every candidate
    mailbox,        \* history: the briefs the owner received for each event
    observed,       \* history: the changes save_snapshot wrote to the store
    pc, event, capture, prior, status    \* the locals of every handler

store == <<claims, snapshots, runs, candidates>>
local == <<pc, event, capture, prior, status>>
vars  == <<site, store, mailbox, observed, local>>

-----------------------------------------------------------------------------
Init ==
    /\ site \in [Source -> [version : {0}, page : Page]]
    /\ claims = {}
    /\ snapshots = [s \in Source |-> NoSnapshot]
    /\ runs = [e \in Event |-> NoRun]
    /\ candidates = [c \in Change |-> "absent"]
    /\ mailbox = [e \in Event |-> <<>>]
    /\ observed = {}
    /\ pc = [w \in Worker |-> "idle"]
    /\ event = [w \in Worker |-> NoEvent]
    /\ capture = [w \in Worker |-> NoSnapshot]
    /\ prior = [w \in Worker |-> NoSnapshot]
    /\ status = [w \in Worker |-> NoStatus]

-----------------------------------------------------------------------------
(* The source a handler works for, and the change its brief is about. *)
SourceOf(w) == EventSource[event[w]]
ChangeOf(w) == <<SourceOf(w), prior[w].page.evidence, capture[w].page.evidence>>

(* A normalization upgrade or a first capture is recorded without a brief. *)
IsBaseline(w) ==
    \/ prior[w] = NoSnapshot
    \/ prior[w].page.norm # capture[w].page.norm

Step(w, from, to) ==
    /\ pc[w] = from
    /\ pc' = [pc EXCEPT ![w] = to]

(* The handler answers its request with the status st. *)
Answer(w, from, st) ==
    /\ Step(w, from, "respond")
    /\ status' = [status EXCEPT ![w] = st]

(* A public source revises the page it serves. *)
Publish(s) ==
    /\ site[s].version < LastVersion
    /\ \E p \in Page :
          /\ <<site[s].page, p>> \in Revision
          /\ site' = [site EXCEPT ![s] =
                        [version |-> site[s].version + 1, page |-> p]]
    /\ UNCHANGED <<store, mailbox, observed, local>>

(* Scheduler, Pub/Sub or a retry hands an event to a free handler; an event *)
(* of an unregistered source is refused before anything is claimed.         *)
Receive(w, e) ==
    /\ Step(w, "idle", IF EventSource[e] \in Source THEN "claim" ELSE "respond")
    /\ event' = [event EXCEPT ![w] = e]
    /\ status' = [status EXCEPT ![w] =
                    IF EventSource[e] \in Source THEN NoStatus ELSE "error"]
    /\ UNCHANGED <<site, store, mailbox, observed, capture, prior>>

(* Faulty variant: the outcome of the claim is ignored. *)
ClaimEventUnchecked(w) ==
    /\ Step(w, "claim", "fetch")
    /\ claims' = claims \cup {event[w]}
    /\ UNCHANGED <<site, snapshots, runs, candidates, mailbox, observed,
                   event, capture, prior, status>>

(* Faulty variant: a claim is reported but not committed. *)
ClaimEventUncommitted(w) ==
    /\ Step(w, "claim", IF event[w] \in claims THEN "lookup" ELSE "fetch")
    /\ UNCHANGED <<site, store, mailbox, observed, event, capture, prior, status>>

(* claim_once: one Firestore transaction creates the claim or finds it. *)
ClaimEvent(w) ==
    /\ Step(w, "claim", IF event[w] \in claims THEN "lookup" ELSE "fetch")
    /\ claims' = claims \cup {event[w]}
    /\ UNCHANGED <<site, snapshots, runs, candidates, mailbox, observed,
                   event, capture, prior, status>>

(* Faulty variant: a lost claim without a run is taken for a crashed first *)
(* attempt and tried again.                                                *)
LookupRunRetries(w) ==
    /\ Step(w, "lookup", IF runs[event[w]] = NoRun THEN "fetch" ELSE "respond")
    /\ status' = [status EXCEPT ![w] = IF runs[event[w]] = NoRun THEN NoStatus
                                       ELSE runs[event[w]].status]
    /\ UNCHANGED <<site, store, mailbox, observed, event, capture, prior>>

(* A lost claim answers with the recorded run, or with a duplicate receipt *)
(* when no run is recorded (the first attempt is in flight or was lost).   *)
LookupRun(w) ==
    /\ Answer(w, "lookup", IF runs[event[w]] = NoRun THEN "duplicate"
                           ELSE runs[event[w]].status)
    /\ UNCHANGED <<site, store, mailbox, observed, event, capture, prior>>

Fetch(w) ==
    /\ Step(w, "fetch", "read_prior")
    /\ capture' = [capture EXCEPT ![w] = site[SourceOf(w)]]
    /\ UNCHANGED <<site, store, mailbox, observed, event, prior, status>>

(* Transport error, refused status or content type, oversized body. *)
FetchFails(w) ==
    /\ "fetch" \in Fault
    /\ Answer(w, "fetch", "error")
    /\ UNCHANGED <<site, store, mailbox, observed, event, capture, prior>>

(* Faulty variant: the prior is read after the capture was stored. *)
ReadPriorLate(w) ==
    /\ Step(w, "read_prior", "save_snapshot")
    /\ prior' = [prior EXCEPT ![w] = capture[w]]
    /\ UNCHANGED <<site, store, mailbox, observed, event, capture, status>>

(* Faulty variant: the prior and the capture are swapped. *)
ReadPriorSwapped(w) ==
    LET stored == snapshots[SourceOf(w)]
    IN  /\ Step(w, "read_prior", "save_snapshot")
        /\ prior' = [prior EXCEPT ![w] = IF stored = NoSnapshot THEN stored
                                         ELSE capture[w]]
        /\ capture' = [capture EXCEPT ![w] = IF stored = NoSnapshot THEN @ ELSE stored]
        /\ UNCHANGED <<site, store, mailbox, observed, event, status>>

ReadPrior(w) ==
    /\ Step(w, "read_prior", "save_snapshot")
    /\ prior' = [prior EXCEPT ![w] = snapshots[SourceOf(w)]]
    /\ UNCHANGED <<site, store, mailbox, observed, event, capture, status>>

(* The change that writing capture over the stored snapshot amounts to. *)
Overwritten(w) ==
    LET old == snapshots[SourceOf(w)]
    IN  IF /\ old # NoSnapshot
           /\ old.page.norm = capture[w].page.norm
           /\ old.page.evidence # capture[w].page.evidence
        THEN {<<SourceOf(w), old.page.evidence, capture[w].page.evidence>>}
        ELSE {}

(* save_snapshot is a blind set, made before the capture is classified     *)
(* against the prior that was read earlier.                                *)
SaveSnapshot(w) ==
    LET same == ~IsBaseline(w) /\ prior[w].page.evidence = capture[w].page.evidence
    IN  /\ Step(w, "save_snapshot",
                IF IsBaseline(w) \/ same THEN "save_run" ELSE "brief")
        /\ snapshots' = [snapshots EXCEPT ![SourceOf(w)] = capture[w]]
        /\ observed' = observed \cup Overwritten(w)
        /\ status' = [status EXCEPT ![w] =
                        IF IsBaseline(w) THEN "baseline_captured"
                        ELSE IF same THEN "no_change" ELSE NoStatus]
        /\ UNCHANGED <<site, claims, runs, candidates, mailbox,
                       event, capture, prior>>

(* Faulty variant: the brief goes to the delivery before its candidate is *)
(* stored.                                                                *)
GenerateBriefUnqueued(w) ==
    /\ Step(w, "brief", "deliver")
    /\ UNCHANGED <<site, store, mailbox, observed, event, capture, prior, status>>

(* Faulty variant: the run of a change is saved without a delivery state. *)
GenerateBriefUndelivered(w) ==
    /\ Step(w, "brief", "save_run")
    /\ UNCHANGED <<site, store, mailbox, observed, event, capture, prior, status>>

GenerateBrief(w) ==
    /\ Step(w, "brief", "queue")
    /\ UNCHANGED <<site, store, mailbox, observed, event, capture, prior, status>>

(* The provider fails or its answer breaks the schema: process() raises. *)
BriefFails(w) ==
    /\ "brief" \in Fault
    /\ Answer(w, "brief", "error")
    /\ UNCHANGED <<site, store, mailbox, observed, event, capture, prior>>

(* Faulty variant: a new candidate reopens the queue of its source. *)
SaveCandidateReopens(w) ==
    /\ Step(w, "queue", "deliver")
    /\ candidates' = [c \in Change |->
                        IF c = ChangeOf(w) \/ (c[1] = SourceOf(w) /\ candidates[c] # "absent")
                        THEN "awaiting_owner_review" ELSE candidates[c]]
    /\ UNCHANGED <<site, claims, snapshots, runs, mailbox, observed,
                   event, capture, prior, status>>

(* save_action_candidate is a blind set of a fresh, undecided candidate. *)
SaveCandidate(w) ==
    /\ Step(w, "queue", "deliver")
    /\ candidates' = [candidates EXCEPT ![ChangeOf(w)] = "awaiting_owner_review"]
    /\ UNCHANGED <<site, claims, snapshots, runs, mailbox, observed,
                   event, capture, prior, status>>

Mail(w) == mailbox' = [mailbox EXCEPT ![event[w]] = Append(@, ChangeOf(w))]

DeliverBrief(w) ==
    /\ Step(w, "deliver", "save_run")
    /\ Mail(w)
    /\ status' = [status EXCEPT ![w] = "brief_delivered"]
    /\ UNCHANGED <<site, store, observed, event, capture, prior>>

(* Faulty variant: a failed delivery is tried again. *)
DeliveryFailsRetried(w) ==
    /\ "delivery" \in Fault
    /\ pc[w] = "deliver"
    /\ Mail(w) \/ UNCHANGED mailbox
    /\ UNCHANGED <<site, store, observed, local>>

(* Faulty variant: a failed delivery is recorded as delivered. *)
DeliveryFailsUnnoticed(w) ==
    /\ "delivery" \in Fault
    /\ Step(w, "deliver", "save_run")
    /\ Mail(w) \/ UNCHANGED mailbox
    /\ status' = [status EXCEPT ![w] = "brief_delivered"]
    /\ UNCHANGED <<site, store, observed, event, capture, prior>>

(* Faulty variant: a failed delivery raises out of process(). *)
DeliveryFailsRaises(w) ==
    /\ "delivery" \in Fault
    /\ Answer(w, "deliver", "error")
    /\ Mail(w) \/ UNCHANGED mailbox
    /\ UNCHANGED <<site, store, observed, event, capture, prior>>

(* A failed or disabled channel is a receipt, not an exception.  The mail  *)
(* may have gone out all the same: the provider accepted it and its answer *)
(* was lost or unreadable.                                                 *)
DeliveryFails(w) ==
    /\ "delivery" \in Fault
    /\ Step(w, "deliver", "save_run")
    /\ Mail(w) \/ UNCHANGED mailbox
    /\ status' = [status EXCEPT ![w] = "brief_prepared"]
    /\ UNCHANGED <<site, store, observed, event, capture, prior>>

(* Faulty variant: the run is answered but not stored. *)
SaveRunSkipped(w) ==
    /\ Step(w, "save_run", "respond")
    /\ UNCHANGED <<site, store, mailbox, observed, event, capture, prior, status>>

SaveRun(w) ==
    /\ Step(w, "save_run", "respond")
    /\ runs' = [runs EXCEPT ![event[w]] =
                  [status |-> status[w], snapshot |-> capture[w]]]
    /\ UNCHANGED <<site, claims, snapshots, candidates, mailbox, observed,
                   event, capture, prior, status>>

(* The locals of a handler go with its frame. *)
Forget(w) ==
    /\ event' = [event EXCEPT ![w] = NoEvent]
    /\ capture' = [capture EXCEPT ![w] = NoSnapshot]
    /\ prior' = [prior EXCEPT ![w] = NoSnapshot]
    /\ status' = [status EXCEPT ![w] = NoStatus]

Respond(w) ==
    /\ Step(w, "respond", "idle")
    /\ Forget(w)
    /\ UNCHANGED <<site, store, mailbox, observed>>

(* The instance stops, or a store call raises, between any two round trips. *)
Crash(w) ==
    /\ "crash" \in Fault
    /\ pc[w] # "idle"
    /\ pc' = [pc EXCEPT ![w] = "idle"]
    /\ Forget(w)
    /\ UNCHANGED <<site, store, mailbox, observed>>

(* The owner's decision: one transaction that refuses a decided candidate. *)
Resolve(c, decided) ==
    /\ candidates[c] = "awaiting_owner_review"
    /\ candidates' = [candidates EXCEPT ![c] = decided]
    /\ UNCHANGED <<site, claims, snapshots, runs, mailbox, observed, local>>

-----------------------------------------------------------------------------
(* process() runs on by itself from the claim to the response. *)
Process(w) ==
    \/ ClaimEvent(w) \/ LookupRun(w)
    \/ Fetch(w) \/ FetchFails(w)
    \/ ReadPrior(w) \/ SaveSnapshot(w)
    \/ GenerateBrief(w) \/ BriefFails(w)
    \/ SaveCandidate(w)
    \/ DeliverBrief(w) \/ DeliveryFails(w)
    \/ SaveRun(w) \/ Respond(w)

Next ==
    \/ \E s \in Source : Publish(s)
    \/ \E w \in Worker, e \in Event : Receive(w, e)
    \/ \E w \in Worker : Process(w)
    \/ \E w \in Worker : Crash(w)
    \/ \E c \in Change, decided \in {"owner_acknowledged", "owner_archived"} :
          Resolve(c, decided)

Spec == Init /\ [][Next]_vars

(* A handler that was given an event is scheduled until it responds; no    *)
(* event, publication or owner decision is ever owed.                      *)
FairSpec == Spec /\ \A w \in Worker : WF_vars(Process(w))

-----------------------------------------------------------------------------
(* The type invariant: what every variable and every local may hold. *)
TypeOK ==
    /\ site \in [Source -> Snapshot]
    /\ claims \subseteq Event
    /\ snapshots \in [Source -> Snapshot \cup {NoSnapshot}]
    /\ runs \in [Event -> [status : RunStatus, snapshot : Snapshot] \cup {NoRun}]
    /\ candidates \in [Change -> CandidateStatus]
    /\ mailbox \in [Event -> Seq(Change)]
    /\ observed \subseteq Change
    /\ pc \in [Worker -> {"idle", "claim", "lookup", "fetch", "read_prior",
                          "save_snapshot", "brief", "queue", "deliver",
                          "save_run", "respond"}]
    /\ event \in [Worker -> Event \cup {NoEvent}]
    /\ capture \in [Worker -> Snapshot \cup {NoSnapshot}]
    /\ prior \in [Worker -> Snapshot \cup {NoSnapshot}]
    /\ status \in [Worker -> RunStatus \cup {"duplicate", "error", NoStatus}]

(* The handlers that won the claim of their event and still work on it. *)
Running(w) == pc[w] \in {"fetch", "read_prior", "save_snapshot", "brief",
                         "queue", "deliver", "save_run"}

(* An event whose first attempt ended without a run: it failed or crashed. *)
Abandoned(e) ==
    /\ e \in claims
    /\ runs[e] = NoRun
    /\ \A w \in Worker : ~(Running(w) /\ event[w] = e)

(* However often an event is delivered, at most one handler at a time works *)
(* on it: the claim of process() lets one attempt through.                  *)
OneRunner ==
    \A v, w \in Worker :
        Running(v) /\ Running(w) /\ event[v] = event[w] => v = w

(* The owner receives at most one brief for an event, whatever is retried, *)
(* crashes or is answered late ("without another delivery").               *)
MailedOnce == \A e \in Event : Len(mailbox[e]) <= 1

(* A brief the owner has read has its candidate in the review queue: the   *)
(* candidate is stored before the delivery is tried.                       *)
MailedIsQueued ==
    \A e \in Event : \A i \in DOMAIN mailbox[e] :
        candidates[mailbox[e][i]] # "absent"

(* A request answered with a run status, by the first attempt or by any    *)
(* retry, is answered with the run stored for the event.                   *)
AnswerIsRecorded ==
    \A w \in Worker :
        pc[w] = "respond" /\ status[w] \in RunStatus =>
            /\ runs[event[w]] # NoRun
            /\ runs[event[w]].status = status[w]

(* The stored run accounts for the mail: "brief_delivered" is recorded only *)
(* when the owner got the brief, and a mailed brief is on the source of the *)
(* event, about evidence that did change, and cites the run's own snapshot. *)
RunAccountsForMail ==
    \A e \in Event : runs[e] # NoRun =>
        /\ runs[e].status = "brief_delivered" => mailbox[e] # <<>>
        /\ \A i \in DOMAIN mailbox[e] :
              /\ runs[e].status \in {"brief_delivered", "brief_prepared"}
              /\ mailbox[e][i][1] = EventSource[e]
              /\ mailbox[e][i][2] # mailbox[e][i][3]
              /\ mailbox[e][i][3] = runs[e].snapshot.page.evidence

(* A recorded run is final: no retry, no late handler and no restart ever  *)
(* rewrites the run document that earlier answers were given from.         *)
RunFinal ==
    [][\A e \in Event : runs[e] # NoRun => runs'[e] = runs[e]]_vars

(* "A container restart must not repeat a previously claimed event": once  *)
(* the first attempt of an event is gone, no later delivery of the event   *)
(* runs it, mails for it or records a run for it.                          *)
RestartNeverRepeats ==
    [][\A e \in Event : Abandoned(e) =>
           Abandoned(e)' /\ mailbox'[e] = mailbox[e]]_vars

(* When no handler is busy, every change that was written over an earlier  *)
(* snapshot has its owner-review candidate.                                *)
EveryChangeQueued ==
    (\A w \in Worker : pc[w] = "idle") =>
        \A c \in observed : candidates[c] # "absent"

(* A brief says that the source advanced from the prior version to the     *)
(* current one: the capture is of a later revision than the prior.         *)
ForwardChange ==
    \A w \in Worker :
        pc[w] \in {"brief", "queue", "deliver"} =>
            prior[w].version < capture[w].version

(* The owner's decision on a candidate is persisted: nothing undoes it.    *)
DecisionStands ==
    [][\A c \in Change :
          candidates[c] \in {"owner_acknowledged", "owner_archived"} =>
              candidates'[c] = candidates[c]]_vars

(* An accepted event ends as a stored run when fetch and brief succeed, a  *)
(* failing delivery channel included.                                      *)
AcceptedIsRecorded ==
    \A e \in Event : e \in claims ~> runs[e] # NoRun

=============================================================================
