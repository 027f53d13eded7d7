---------------------- MODULE RegistryWatchScheduleProofs ----------------------
(***************************************************************************)
(* What the registry watch keeps under its intended schedule: one event of *)
(* a source at a time.  The code does not enforce that schedule, so it is  *)
(* a hypothesis here, []OnePerSource, and each theorem names what else it  *)
(* needs: no brief fault and no crash, or no page served twice.            *)
(***************************************************************************)
EXTENDS RegistryWatchProofs

(* No two handlers work on events of one source at the same time. *)
OnePerSource ==
    \A v, w \in Worker :
        Running(v) /\ Running(w) /\ SourceOf(v) = SourceOf(w) => v = w

(* A measure of captures that grows with every revision of a source. *)
Measure(m) ==
    /\ m \in [Snapshot -> Nat]
    /\ \A x, y \in Snapshot :
          y.version = x.version + 1 /\ <<x.page, y.page>> \in Revision => m[x] < m[y]

UpTo(m, x, y) == x = y \/ m[x] < m[y]

(* Along a measure the store is never ahead of the site, and a handler     *)
(* stands between them: it fetched what the site served, it compares with  *)
(* what is still stored, and so the change it briefs goes forward.         *)
SourceOrdered(m, s) == snapshots[s] # NoSnapshot => UpTo(m, snapshots[s], site[s])

HandlerOrdered(m, w) ==
    LET s == SourceOf(w) IN
    /\ pc[w] \in {"read_prior", "save_snapshot"} =>
          /\ UpTo(m, capture[w], site[s])
          /\ snapshots[s] # NoSnapshot => UpTo(m, snapshots[s], capture[w])
    /\ pc[w] = "save_snapshot" => prior[w] = snapshots[s]
    /\ pc[w] \in {"brief", "queue", "deliver"} => UpTo(m, prior[w], capture[w])

Ordered(m) ==
    /\ \A s \in Source : SourceOrdered(m, s)
    /\ \A w \in Worker : HandlerOrdered(m, w)

-----------------------------------------------------------------------------
(* A site is revised, or serves what it served. *)
LEMMA SiteMoves ==
  ASSUME TypeOK, [Next]_vars, NEW m, Measure(m), NEW s \in Source,
         NEW x \in Snapshot, UpTo(m, x, site[s])
  PROVE  UpTo(m, x, site'[s])
<1>1. CASE Publish(s)
  <2>1. PICK p \in Page :
           /\ <<site[s].page, p>> \in Revision
           /\ site' = [site EXCEPT ![s] = [version |-> site[s].version + 1, page |-> p]]
    BY <1>1 DEF Publish
  <2>2. /\ site[s] \in Snapshot /\ site[s].version < LastVersion
        /\ site'[s] = [version |-> site[s].version + 1, page |-> p]
    BY <1>1, <2>1 DEF Publish, TypeOK
  <2>3. site'[s] \in Snapshot
    BY <2>2, VersionAssumption DEF Snapshot
  <2>4. m[site[s]] < m[site'[s]]
    BY <2>1, <2>2, <2>3 DEF Measure
  <2>5. m[x] \in Nat /\ m[site[s]] \in Nat /\ m[site'[s]] \in Nat
    BY <2>2, <2>3 DEF Measure
  <2> QED
    BY <2>4, <2>5 DEF UpTo
<1>2. CASE ~Publish(s)
  <2>1. site'[s] = site[s]
    <3>1. ASSUME NEW t \in Source, t # s, Publish(t) PROVE site'[s] = site[s]
      BY <3>1 DEF Publish, TypeOK
    <3>2. ASSUME NEW w \in Worker, Process(w) PROVE site'[s] = site[s]
      BY <3>2 DEF Process, ClaimEvent, LookupRun, Fetch, FetchFails, ReadPrior,
         SaveSnapshot, GenerateBrief, BriefFails, SaveCandidate, DeliverBrief,
         DeliveryFails, SaveRun, Respond, Answer
    <3> QED
      BY <1>2, <3>1, <3>2 DEF Next, Receive, Crash, Resolve, vars
  <2> QED
    BY <2>1
<1> QED
  BY <1>1, <1>2

(* Only save_snapshot writes a snapshot, that of the source it works for. *)
LEMMA OnlySaveSnapshotStores ==
  ASSUME TypeOK, [Next]_vars, NEW s \in Source,
         \A w \in Worker : SaveSnapshot(w) => SourceOf(w) # s
  PROVE  snapshots'[s] = snapshots[s]
<1>1. ASSUME NEW w \in Worker, SaveSnapshot(w) PROVE snapshots'[s] = snapshots[s]
  BY <1>1 DEF SaveSnapshot, TypeOK
<1>2. ASSUME NEW w \in Worker, Process(w), ~SaveSnapshot(w)
      PROVE  snapshots' = snapshots
  BY <1>2 DEF Process, ClaimEvent, LookupRun, Fetch, FetchFails, ReadPrior,
     GenerateBrief, BriefFails, SaveCandidate, DeliverBrief, DeliveryFails,
     SaveRun, Respond, Answer, store
<1> QED
  BY <1>1, <1>2 DEF Next, Publish, Receive, Crash, Resolve, vars, store

(* While a handler works on a source, nobody else stores its snapshot. *)
LEMMA OthersKeepSnapshot ==
  ASSUME TypeOK, HasEvent, OnePerSource, [Next]_vars,
         NEW w \in Worker, Running(w), ~SaveSnapshot(w)
  PROVE  snapshots'[SourceOf(w)] = snapshots[SourceOf(w)]
<1>1. SourceOf(w) \in Source
  BY DEF HasEvent, Running
<1>2. \A v \in Worker : SaveSnapshot(v) => SourceOf(v) # SourceOf(w)
  BY DEF OnePerSource, Running, SaveSnapshot, Step
<1> QED
  BY <1>1, <1>2, OnlySaveSnapshotStores

(* The snapshot of a source stays behind its site. *)
LEMMA SourceOrderedStep ==
  ASSUME IInv, OnePerSource, [Next]_vars, NEW m, Measure(m), Ordered(m),
         NEW s \in Source
  PROVE  SourceOrdered(m, s)'
<1> SUFFICES ASSUME snapshots'[s] # NoSnapshot PROVE UpTo(m, snapshots'[s], site'[s])
  BY DEF SourceOrdered
<1> USE DEF IInv
<1>1. CASE \E w \in Worker : SaveSnapshot(w) /\ SourceOf(w) = s
  <2>1. PICK w \in Worker : SaveSnapshot(w) /\ SourceOf(w) = s
    BY <1>1
  <2>2. /\ snapshots'[s] = capture[w] /\ capture[w] \in Snapshot
        /\ UpTo(m, capture[w], site[s])
    BY <2>1 DEF SaveSnapshot, Step, TypeOK, HasCapture, Ordered, HandlerOrdered
  <2> QED
    BY <2>2, SiteMoves
<1>2. CASE ~ \E w \in Worker : SaveSnapshot(w) /\ SourceOf(w) = s
  <2>1. snapshots'[s] = snapshots[s]
    BY <1>2, OnlySaveSnapshotStores
  <2>2. snapshots[s] \in Snapshot /\ UpTo(m, snapshots[s], site[s])
    BY <2>1 DEF TypeOK, Ordered, SourceOrdered
  <2> QED
    BY <2>1, <2>2, SiteMoves
<1> QED
  BY <1>1, <1>2

(* What a handler has fetched and read stays in order until it is briefed. *)
LEMMA HandlerOrderedStep ==
  ASSUME IInv, OnePerSource, [Next]_vars, NEW m, Measure(m), Ordered(m),
         NEW w \in Worker
  PROVE  HandlerOrdered(m, w)'
<1> USE DEF IInv
<1>1. CASE pc'[w] = pc[w]
  <2>1. /\ SourceOf(w)' = SourceOf(w)
        /\ capture'[w] = capture[w] /\ prior'[w] = prior[w]
    BY <1>1, OtherHandlers DEF SourceOf
  <2>2. ASSUME pc[w] \in {"read_prior", "save_snapshot"}
        PROVE  /\ UpTo(m, capture[w], site'[SourceOf(w)])
               /\ snapshots'[SourceOf(w)] = snapshots[SourceOf(w)]
    <3>1. SourceOf(w) \in Source /\ capture[w] \in Snapshot
      BY <2>2 DEF HasEvent, HasCapture
    <3>2. ~SaveSnapshot(w)
      BY <1>1 DEF SaveSnapshot, Step, TypeOK
    <3>3. UpTo(m, capture[w], site[SourceOf(w)])
      BY <2>2 DEF Ordered, HandlerOrdered
    <3> QED
      BY <2>2, <3>1, <3>2, <3>3, SiteMoves, OthersKeepSnapshot DEF Running
  <2>3. HandlerOrdered(m, w)
    BY DEF Ordered
  <2> QED
    BY <1>1, <2>1, <2>2, <2>3 DEF HandlerOrdered
<1>2. CASE pc'[w] # pc[w]
  <2>1. ASSUME Fetch(w) PROVE HandlerOrdered(m, w)'
    <3>1. /\ pc'[w] = "read_prior" /\ SourceOf(w) \in Source
          /\ SourceOf(w)' = SourceOf(w) /\ capture'[w] = site[SourceOf(w)]
          /\ site' = site /\ snapshots' = snapshots
      BY <2>1 DEF Fetch, Step, store, TypeOK, HasEvent, SourceOf
    <3>2. SourceOrdered(m, SourceOf(w))
      BY <3>1 DEF Ordered
    <3> QED
      BY <3>1, <3>2 DEF HandlerOrdered, SourceOrdered, UpTo
  <2>2. ASSUME ReadPrior(w) PROVE HandlerOrdered(m, w)'
    <3>1. /\ pc[w] = "read_prior" /\ pc'[w] = "save_snapshot"
          /\ SourceOf(w)' = SourceOf(w) /\ prior'[w] = snapshots[SourceOf(w)]
          /\ site' = site /\ snapshots' = snapshots /\ capture' = capture
      BY <2>2 DEF ReadPrior, Step, store, TypeOK, SourceOf
    <3>2. HandlerOrdered(m, w)
      BY DEF Ordered
    <3> QED
      BY <3>1, <3>2 DEF HandlerOrdered
  <2>3. ASSUME SaveSnapshot(w) PROVE HandlerOrdered(m, w)'
    <3>1. /\ pc[w] = "save_snapshot" /\ pc'[w] \in {"save_run", "brief"}
          /\ pc'[w] = "brief" => prior[w] # NoSnapshot
          /\ capture' = capture /\ prior' = prior
      BY <2>3 DEF SaveSnapshot, Step, TypeOK, IsBaseline
    <3>2. HandlerOrdered(m, w)
      BY DEF Ordered
    <3> QED
      BY <3>1, <3>2 DEF HandlerOrdered
  <2>4. ASSUME GenerateBrief(w) \/ SaveCandidate(w) PROVE HandlerOrdered(m, w)'
    <3>1. /\ pc[w] \in {"brief", "queue"} /\ pc'[w] \in {"queue", "deliver"}
          /\ capture' = capture /\ prior' = prior
      BY <2>4 DEF GenerateBrief, SaveCandidate, Step, TypeOK
    <3>2. HandlerOrdered(m, w)
      BY DEF Ordered
    <3> QED
      BY <3>1, <3>2 DEF HandlerOrdered
  <2>5. CASE pc'[w] \notin {"read_prior", "save_snapshot", "brief", "queue", "deliver"}
    BY <2>5 DEF HandlerOrdered
  <2>6. \/ Fetch(w) \/ ReadPrior(w) \/ SaveSnapshot(w) \/ GenerateBrief(w)
        \/ SaveCandidate(w)
        \/ pc'[w] \notin {"read_prior", "save_snapshot", "brief", "queue", "deliver"}
    <3>1. (\E e \in Event : Receive(w, e)) \/ Process(w) \/ Crash(w)
      BY <1>2, OwnStep
    <3> QED
      BY <3>1 DEF Process, Receive, ClaimEvent, LookupRun, FetchFails, BriefFails,
         DeliverBrief, DeliveryFails, SaveRun, Respond, Crash, Answer, Step, TypeOK
  <2> QED
    BY <2>1, <2>2, <2>3, <2>4, <2>5, <2>6
<1> QED
  BY <1>1, <1>2

(* The order is there from the start and is kept on the schedule. *)
LEMMA OrderedInit == ASSUME NEW m, Init PROVE Ordered(m)
BY DEF Init, Ordered, SourceOrdered, HandlerOrdered

LEMMA OrderedStep ==
  ASSUME NEW m, Measure(m), IInv, OnePerSource, Ordered(m), [Next]_vars
  PROVE  Ordered(m)'
<1>1. ASSUME NEW s \in Source PROVE SourceOrdered(m, s)'
  BY SourceOrderedStep
<1>2. ASSUME NEW w \in Worker PROVE HandlerOrdered(m, w)'
  BY HandlerOrderedStep
<1> QED
  BY <1>1, <1>2 DEF Ordered

-----------------------------------------------------------------------------
(* Revisions are numbered upwards. *)
Version == [x \in Snapshot |-> x.version]

LEMMA VersionOrdered == Spec /\ []OnePerSource => []Ordered(Version)
<1>1. Measure(Version)
  BY DEF Measure, Version, Snapshot
<1>2. Init => Ordered(Version)
  BY OrderedInit
<1>3. IInv /\ OnePerSource /\ Ordered(Version) /\ [Next]_vars => Ordered(Version)'
  BY <1>1, OrderedStep
<1> QED
  BY <1>2, <1>3, Invariance, PTL DEF Spec

(* Under the intended schedule every brief goes forward, whatever fails,   *)
(* crashes or is delivered again, and even if pages return.                *)
THEOREM BriefsGoForward == Spec /\ []OnePerSource => []ForwardChange
<1>1. IInv /\ Ordered(Version) => ForwardChange
  <2> SUFFICES ASSUME IInv, Ordered(Version), NEW w \in Worker,
                      pc[w] \in {"brief", "queue", "deliver"}
               PROVE  prior[w].version < capture[w].version
    BY DEF ForwardChange
  <2>1. /\ prior[w] \in Snapshot /\ capture[w] \in Snapshot
        /\ prior[w].page.evidence # capture[w].page.evidence
    BY DEF IInv, HasCapture
  <2>2. UpTo(Version, prior[w], capture[w])
    BY DEF Ordered, HandlerOrdered
  <2> QED
    BY <2>1, <2>2 DEF UpTo, Version
<1> QED
  BY <1>1, VersionOrdered, Invariance, PTL

-----------------------------------------------------------------------------
(* A change that was written over a snapshot is queued, or its handler is  *)
(* about to queue it.                                                      *)
ChangeKept ==
    \A c \in observed :
        \/ candidates[c] # "absent"
        \/ \E w \in Worker : pc[w] \in {"brief", "queue"} /\ ChangeOf(w) = c

(* What a handler stores over a snapshot is the change it will brief. *)
LEMMA OverwrittenIsBriefed ==
  ASSUME IInv, Ordered(Version), NEW w \in Worker, SaveSnapshot(w),
         NEW c \in Overwritten(w)
  PROVE  pc'[w] = "brief" /\ ChangeOf(w)' = c
<1>1. /\ pc[w] = "save_snapshot" /\ prior[w] = snapshots[SourceOf(w)]
  BY DEF Ordered, HandlerOrdered, SaveSnapshot, Step
<1>2. /\ prior[w] # NoSnapshot /\ prior[w].page.norm = capture[w].page.norm
      /\ prior[w].page.evidence # capture[w].page.evidence
      /\ c = <<SourceOf(w), prior[w].page.evidence, capture[w].page.evidence>>
  BY <1>1 DEF Overwritten
<1>3. UNCHANGED <<event, capture, prior>>
  BY DEF SaveSnapshot
<1> QED
  BY <1>2, <1>3 DEF SaveSnapshot, Step, IsBaseline, ChangeOf, SourceOf, IInv, TypeOK

(* A handler keeps its change until it is queued. *)
LEMMA ChangeCarried ==
  ASSUME IInv, [Next]_vars, "brief" \notin Fault, "crash" \notin Fault,
         NEW w \in Worker, pc[w] \in {"brief", "queue"}
  PROVE  \/ pc'[w] \in {"brief", "queue"} /\ ChangeOf(w)' = ChangeOf(w)
         \/ candidates'[ChangeOf(w)] # "absent"
<1> USE DEF IInv
<1>1. CASE pc'[w] = pc[w]
  BY <1>1, OtherHandlers DEF ChangeOf, SourceOf
<1>2. CASE GenerateBrief(w)
  BY <1>2 DEF GenerateBrief, Step, TypeOK, ChangeOf, SourceOf
<1>3. CASE SaveCandidate(w)
  <2>1. ChangeOf(w) \in Change
    BY ChangeType DEF HasEvent, HasCapture
  <2> QED
    BY <1>3, <2>1 DEF SaveCandidate, TypeOK
<1>4. pc'[w] # pc[w] => GenerateBrief(w) \/ SaveCandidate(w)
  <2>1. pc'[w] # pc[w] => (\E e \in Event : Receive(w, e)) \/ Process(w) \/ Crash(w)
    BY OwnStep
  <2> QED
    BY <2>1 DEF Process, Receive, ClaimEvent, LookupRun, Fetch, FetchFails, ReadPrior,
       SaveSnapshot, BriefFails, DeliverBrief, DeliveryFails, SaveRun, Respond, Crash,
       Answer, Step
<1> QED
  BY <1>1, <1>2, <1>3, <1>4

LEMMA ChangeKeptStep ==
  ASSUME IInv, Ordered(Version), ChangeKept, [Next]_vars,
         "brief" \notin Fault, "crash" \notin Fault
  PROVE  ChangeKept'
<1> SUFFICES ASSUME NEW c \in observed'
             PROVE  \/ candidates'[c] # "absent"
                    \/ \E w \in Worker : pc'[w] \in {"brief", "queue"} /\ ChangeOf(w)' = c
  BY DEF ChangeKept
<1>1. CASE c \in observed
  <2>1. CASE candidates[c] # "absent"
    BY <1>1, <2>1, CandidatesStay DEF IInv, TypeOK
  <2>2. ASSUME NEW w \in Worker, pc[w] \in {"brief", "queue"}, ChangeOf(w) = c
        PROVE  \/ candidates'[c] # "absent"
               \/ pc'[w] \in {"brief", "queue"} /\ ChangeOf(w)' = c
    BY <2>2, ChangeCarried
  <2> QED
    BY <1>1, <2>1, <2>2 DEF ChangeKept
<1>2. CASE c \notin observed
  <2>1. PICK w \in Worker : SaveSnapshot(w)
    <3>1. ASSUME NEW w \in Worker, Process(w), ~SaveSnapshot(w) PROVE observed' = observed
      BY <3>1 DEF Process, ClaimEvent, LookupRun, Fetch, FetchFails, ReadPrior,
         GenerateBrief, BriefFails, SaveCandidate, DeliverBrief, DeliveryFails,
         SaveRun, Respond, Answer
    <3> QED
      BY <1>2, <3>1 DEF Next, Publish, Receive, Crash, Resolve, vars
  <2>2. c \in Overwritten(w)
    BY <1>2, <2>1 DEF SaveSnapshot
  <2> QED
    BY <2>1, <2>2, OverwrittenIsBriefed
<1> QED
  BY <1>1, <1>2

(* Under the intended schedule, and while neither the brief provider fails *)
(* nor an instance stops, no change is lost: a change that a snapshot was  *)
(* overwritten with is in the owner's queue when the handlers are done,    *)
(* even if fetches and deliveries fail and pages return.                   *)
THEOREM NoChangeIsLost ==
  ASSUME "brief" \notin Fault, "crash" \notin Fault
  PROVE  Spec /\ []OnePerSource => []EveryChangeQueued
<1>1. Init => ChangeKept
  BY DEF Init, ChangeKept
<1>2. IInv /\ Ordered(Version) /\ ChangeKept /\ [Next]_vars => ChangeKept'
  BY ChangeKeptStep
<1>3. ChangeKept => EveryChangeQueued
  BY DEF ChangeKept, EveryChangeQueued
<1> QED
  BY <1>1, <1>2, <1>3, VersionOrdered, Invariance, PTL DEF Spec

-----------------------------------------------------------------------------
(* No source serves content it has served before. *)
GrowsWith(rank) == \A r \in Revision : rank[r[1].evidence] < rank[r[2].evidence]
NewContentOnly  == \E rank \in [Evidence -> Nat] : GrowsWith(rank)

Rank == CHOOSE rank \in [Evidence -> Nat] : GrowsWith(rank)
Age  == [x \in Snapshot |-> Rank[x.page.evidence]]

LEMMA AgeGrows ==
  ASSUME NewContentOnly
  PROVE  Rank \in [Evidence -> Nat] /\ Measure(Age)
<1>1. Rank \in [Evidence -> Nat] /\ GrowsWith(Rank)
  BY DEF NewContentOnly, Rank
<1>2. ASSUME NEW x \in Snapshot, NEW y \in Snapshot, <<x.page, y.page>> \in Revision
      PROVE  Age[x] < Age[y]
  BY <1>1, <1>2 DEF Age, GrowsWith
<1>3. Age \in [Snapshot -> Nat]
  BY <1>1 DEF Age, Snapshot, Page
<1> QED
  BY <1>1, <1>2, <1>3 DEF Measure

(* The queue of a source reaches no further than its stored snapshot, and  *)
(* the change a handler briefs is not in it.                               *)
QueuedIsStored(c) ==
    candidates[c] # "absent" =>
        /\ snapshots[c[1]] # NoSnapshot
        /\ Rank[c[3]] <= Rank[snapshots[c[1]].page.evidence]

BriefedIsNew(w) ==
    pc[w] \in {"brief", "queue"} =>
        /\ candidates[ChangeOf(w)] = "absent"
        /\ snapshots[SourceOf(w)] = capture[w]

QueueOrdered ==
    /\ \A c \in Change : QueuedIsStored(c)
    /\ \A w \in Worker : BriefedIsNew(w)

(* What a handler goes on to brief is younger than what it compared with. *)
LEMMA BriefedIsYounger ==
  ASSUME NewContentOnly, IInv, Ordered(Age), NEW w \in Worker,
         pc[w] \in {"brief", "queue"}
  PROVE  /\ prior[w] \in Snapshot /\ capture[w] \in Snapshot
         /\ Rank[prior[w].page.evidence] < Rank[capture[w].page.evidence]
<1>1. /\ prior[w] \in Snapshot /\ capture[w] \in Snapshot
      /\ prior[w].page.evidence # capture[w].page.evidence
  BY DEF IInv, HasCapture
<1>2. UpTo(Age, prior[w], capture[w])
  BY DEF Ordered, HandlerOrdered
<1> QED
  BY <1>1, <1>2 DEF UpTo, Age

(* The stored snapshot of a source never grows younger. *)
LEMMA StoredAges ==
  ASSUME NewContentOnly, IInv, Ordered(Age), [Next]_vars,
         NEW s \in Source, snapshots[s] # NoSnapshot
  PROVE  /\ snapshots[s] \in Snapshot /\ snapshots'[s] \in Snapshot
         /\ Rank[snapshots[s].page.evidence] <= Rank[snapshots'[s].page.evidence]
<1> USE DEF IInv
<1>0. snapshots[s] \in Snapshot /\ Rank \in [Evidence -> Nat]
  BY AgeGrows DEF TypeOK
<1>1. CASE \E w \in Worker : SaveSnapshot(w) /\ SourceOf(w) = s
  <2>1. PICK w \in Worker : SaveSnapshot(w) /\ SourceOf(w) = s
    BY <1>1
  <2>2. /\ snapshots'[s] = capture[w] /\ capture[w] \in Snapshot
        /\ UpTo(Age, snapshots[s], capture[w])
    BY <2>1 DEF SaveSnapshot, Step, TypeOK, HasCapture, Ordered, HandlerOrdered
  <2> QED
    BY <1>0, <2>2 DEF UpTo, Age, Snapshot, Page
<1>2. CASE ~ \E w \in Worker : SaveSnapshot(w) /\ SourceOf(w) = s
  <2>1. snapshots'[s] = snapshots[s]
    BY <1>2, OnlySaveSnapshotStores
  <2> QED
    BY <1>0, <2>1 DEF Snapshot, Page
<1> QED
  BY <1>1, <1>2

(* Only save_action_candidate puts a candidate in the queue. *)
LEMMA OnlySaveCandidateQueues ==
  ASSUME TypeOK, [Next]_vars, NEW c \in Change,
         candidates[c] = "absent", candidates'[c] # "absent"
  PROVE  \E w \in Worker : SaveCandidate(w) /\ ChangeOf(w) = c
<1>1. ASSUME NEW w \in Worker, Process(w), ~SaveCandidate(w)
      PROVE  candidates' = candidates
  BY <1>1 DEF Process, ClaimEvent, LookupRun, Fetch, FetchFails, ReadPrior,
     SaveSnapshot, GenerateBrief, BriefFails, DeliverBrief, DeliveryFails, SaveRun,
     Respond, Answer, store
<1>2. ASSUME NEW d \in Change, NEW decided, Resolve(d, decided)
      PROVE  candidates'[c] = candidates[c]
  BY <1>2 DEF Resolve, TypeOK
<1>3. ASSUME NEW w \in Worker, SaveCandidate(w), ChangeOf(w) # c
      PROVE  candidates'[c] = candidates[c]
  BY <1>3 DEF SaveCandidate, TypeOK
<1> QED
  BY <1>1, <1>2, <1>3 DEF Next, Publish, Receive, Crash, vars, store

LEMMA QueuedIsStoredStep ==
  ASSUME NewContentOnly, IInv, OnePerSource, Ordered(Age), QueueOrdered, [Next]_vars,
         NEW c \in Change
  PROVE  QueuedIsStored(c)'
<1> SUFFICES ASSUME candidates'[c] # "absent"
             PROVE  /\ snapshots'[c[1]] # NoSnapshot
                    /\ Rank[c[3]] <= Rank[snapshots'[c[1]].page.evidence]
  BY DEF QueuedIsStored
<1>1. /\ c[1] \in Source /\ c[3] \in Evidence
      /\ Rank \in [Evidence -> Nat]
  BY AgeGrows DEF Change
<1>2. CASE candidates[c] # "absent"
  <2>1. /\ snapshots[c[1]] # NoSnapshot
        /\ Rank[c[3]] <= Rank[snapshots[c[1]].page.evidence]
    BY <1>2 DEF QueueOrdered, QueuedIsStored
  <2>2. /\ snapshots[c[1]] \in Snapshot /\ snapshots'[c[1]] \in Snapshot
        /\ Rank[snapshots[c[1]].page.evidence] <= Rank[snapshots'[c[1]].page.evidence]
    BY <1>1, <2>1, StoredAges
  <2> QED
    BY <1>1, <2>1, <2>2, NoneAssumption DEF Snapshot, Page
<1>3. CASE candidates[c] = "absent"
  <2>1. PICK w \in Worker : SaveCandidate(w) /\ ChangeOf(w) = c
    BY <1>3, OnlySaveCandidateQueues DEF IInv
  <2>2. pc[w] = "queue" /\ snapshots' = snapshots
    BY <2>1 DEF SaveCandidate, Step
  <2>3. /\ capture[w] \in Snapshot /\ snapshots[SourceOf(w)] = capture[w]
        /\ c[1] = SourceOf(w) /\ c[3] = capture[w].page.evidence
    BY <2>1, <2>2, BriefedIsYounger DEF QueueOrdered, BriefedIsNew, ChangeOf
  <2> QED
    BY <1>1, <2>2, <2>3, NoneAssumption
<1> QED
  BY <1>2, <1>3

LEMMA BriefedIsNewStep ==
  ASSUME NewContentOnly, IInv, OnePerSource, Ordered(Age), QueueOrdered, [Next]_vars,
         NEW w \in Worker
  PROVE  BriefedIsNew(w)'
<1> USE DEF IInv
<1> SUFFICES ASSUME pc'[w] \in {"brief", "queue"}
             PROVE  /\ candidates'[ChangeOf(w)'] = "absent"
                    /\ snapshots'[SourceOf(w)'] = capture'[w]
  BY DEF BriefedIsNew
<1>1. CASE pc'[w] = pc[w] \/ GenerateBrief(w)
  <2>1. /\ pc[w] \in {"brief", "queue"}
        /\ ChangeOf(w)' = ChangeOf(w) /\ SourceOf(w)' = SourceOf(w)
        /\ capture'[w] = capture[w]
    <3>1. CASE pc'[w] = pc[w]
      BY <3>1, OtherHandlers DEF ChangeOf, SourceOf
    <3>2. CASE GenerateBrief(w)
      BY <3>2 DEF GenerateBrief, Step, TypeOK, ChangeOf, SourceOf
    <3> QED
      BY <1>1, <3>1, <3>2
  <2>2. candidates[ChangeOf(w)] = "absent" /\ snapshots[SourceOf(w)] = capture[w]
    BY <2>1 DEF QueueOrdered, BriefedIsNew
  <2>3. snapshots'[SourceOf(w)] = snapshots[SourceOf(w)]
    BY <2>1, OthersKeepSnapshot DEF Running, SaveSnapshot, Step
  <2>4. candidates'[ChangeOf(w)] = "absent"
    <3>1. SUFFICES ASSUME candidates'[ChangeOf(w)] # "absent" PROVE FALSE
      OBVIOUS
    <3>2. ChangeOf(w) \in Change
      BY <2>1, ChangeType DEF HasEvent, HasCapture
    <3>3. PICK v \in Worker : SaveCandidate(v) /\ ChangeOf(v) = ChangeOf(w)
      BY <2>2, <3>1, <3>2, OnlySaveCandidateQueues
    <3>4. pc[v] = "queue" /\ SourceOf(v) = SourceOf(w)
      BY <3>3 DEF SaveCandidate, Step, ChangeOf
    <3>5. v = w
      BY <2>1, <3>4 DEF OnePerSource, Running
    <3> QED
      BY <1>1, <3>3, <3>5 DEF SaveCandidate, GenerateBrief, Step, TypeOK
  <2> QED
    BY <2>1, <2>2, <2>3, <2>4
<1>2. CASE SaveSnapshot(w)
  <2>1. /\ pc[w] = "save_snapshot" /\ pc'[w] = "brief"
        /\ SourceOf(w)' = SourceOf(w) /\ ChangeOf(w)' = ChangeOf(w)
        /\ capture'[w] = capture[w] /\ candidates' = candidates
        /\ prior[w] # NoSnapshot /\ prior[w].page.evidence # capture[w].page.evidence
        /\ SourceOf(w) \in Source /\ prior[w] = snapshots[SourceOf(w)]
        /\ UpTo(Age, prior[w], capture[w]) /\ capture[w] \in Snapshot
    BY <1>2 DEF SaveSnapshot, Step, TypeOK, ChangeOf, SourceOf, IsBaseline, HasEvent,
       HasCapture, Ordered, HandlerOrdered
  <2>2. prior[w] \in Snapshot /\ snapshots'[SourceOf(w)] = capture[w]
    BY <1>2, <2>1 DEF SaveSnapshot, TypeOK
  <2>3. Rank[prior[w].page.evidence] < Rank[capture[w].page.evidence]
    BY <2>1, <2>2 DEF UpTo, Age
  <2>4. candidates[ChangeOf(w)] = "absent"
    <3>1. SUFFICES ASSUME candidates[ChangeOf(w)] # "absent" PROVE FALSE
      OBVIOUS
    <3>2. ChangeOf(w) \in Change
      BY <2>1, <2>2 DEF ChangeOf, Change, Snapshot, Page
    <3>3. Rank[capture[w].page.evidence] <= Rank[prior[w].page.evidence]
      BY <2>1, <3>1, <3>2 DEF QueueOrdered, QueuedIsStored, ChangeOf
    <3> QED
      BY <2>1, <2>2, <2>3, <3>3, AgeGrows DEF Snapshot, Page
  <2> QED
    BY <2>1, <2>2, <2>4
<1>3. pc'[w] = pc[w] \/ GenerateBrief(w) \/ SaveSnapshot(w)
  <2>1. pc'[w] # pc[w] => (\E e \in Event : Receive(w, e)) \/ Process(w) \/ Crash(w)
    BY OwnStep
  <2> QED
    BY <2>1 DEF Process, Receive, ClaimEvent, LookupRun, Fetch, FetchFails, ReadPrior,
       BriefFails, SaveCandidate, DeliverBrief, DeliveryFails, SaveRun, Respond, Crash,
       Answer, Step, TypeOK
<1> QED
  BY <1>1, <1>2, <1>3

(* Under the intended schedule, and while no source serves old content     *)
(* again, a decision of the owner stands: no later brief is about a change *)
(* that was queued before, whatever fails or crashes.                      *)
THEOREM DecisionsStand ==
  ASSUME NewContentOnly
  PROVE  Spec /\ []OnePerSource => DecisionStands
<1>1. Init => Ordered(Age) /\ QueueOrdered
  BY OrderedInit DEF Init, QueueOrdered, QueuedIsStored, BriefedIsNew
<1>2. IInv /\ OnePerSource /\ Ordered(Age) /\ QueueOrdered /\ [Next]_vars
        => Ordered(Age)' /\ QueueOrdered'
  <2> SUFFICES ASSUME IInv, OnePerSource, Ordered(Age), QueueOrdered, [Next]_vars
               PROVE  Ordered(Age)' /\ QueueOrdered'
    OBVIOUS
  <2>1. Ordered(Age)'
    BY AgeGrows, OrderedStep
  <2>2. ASSUME NEW c \in Change PROVE QueuedIsStored(c)'
    BY QueuedIsStoredStep
  <2>3. ASSUME NEW w \in Worker PROVE BriefedIsNew(w)'
    BY BriefedIsNewStep
  <2> QED
    BY <2>1, <2>2, <2>3 DEF QueueOrdered
<1>3. ASSUME IInv, QueueOrdered, [Next]_vars, NEW c \in Change,
             candidates[c] \in {"owner_acknowledged", "owner_archived"}
      PROVE  candidates'[c] = candidates[c]
  <2>1. ASSUME NEW w \in Worker, Process(w), ~SaveCandidate(w)
        PROVE  candidates' = candidates
    BY <2>1 DEF Process, ClaimEvent, LookupRun, Fetch, FetchFails, ReadPrior,
       SaveSnapshot, GenerateBrief, BriefFails, DeliverBrief, DeliveryFails, SaveRun,
       Respond, Answer, store
  <2>2. ASSUME NEW w \in Worker, SaveCandidate(w)
        PROVE  candidates'[c] = candidates[c]
    BY <1>3, <2>2 DEF SaveCandidate, Step, IInv, TypeOK, QueueOrdered, BriefedIsNew
  <2>3. ASSUME NEW d \in Change, NEW decided, Resolve(d, decided)
        PROVE  candidates'[c] = candidates[c]
    BY <1>3, <2>3 DEF Resolve, IInv, TypeOK
  <2> QED
    BY <1>3, <2>1, <2>2, <2>3 DEF Next, Publish, Receive, Crash, vars, store
<1>4. IInv /\ QueueOrdered /\ [Next]_vars =>
        [\A c \in Change :
           candidates[c] \in {"owner_acknowledged", "owner_archived"} =>
               candidates'[c] = candidates[c]]_vars
  BY <1>3
<1> QED
  BY <1>1, <1>2, <1>4, Invariance, PTL DEF Spec, DecisionStands

-----------------------------------------------------------------------------
(* Two settings in which the schedule is kept: a service that works on one *)
(* request at a time, and sources that have one event each.  The claim of  *)
(* an event keeps a second handler away from it, not from its source.      *)
THEOREM ScheduleIsKept ==
  ASSUME \/ \A v, w \in Worker : v = w
         \/ \A d, e \in Event : EventSource[d] = EventSource[e] => d = e
  PROVE  Spec => []OnePerSource
<1>1. IInv => OnePerSource
  BY DEF IInv, HasEvent, OneRunner, OnePerSource, Running, SourceOf
<1> QED
  BY <1>1, Invariance, PTL

=============================================================================
