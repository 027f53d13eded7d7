# Formal models of Vice CEO: registry watch, warrants, evidence and effects

TLA+ modules, TLC runs and TLAPS proofs kept beside `src/`. The subject is the
Python service under `src/app`: a FastAPI application on Cloud Run that watches
public registries for its owner, sends business mails when it is allowed to, and
demonstrates signed, one-use Action Warrants on synthetic cases, with evidence
and release reports built from them. Line numbers below are those of `src/app`.

## 1. Inventory

| Component | State it keeps | Operations | What makes it correct |
|---|---|---|---|
| Registry watch engine (`registry_watch.py`, `RegistryWatchEngine`) | none of its own; locals of `process` | `process`, `resolve_owner_action`, `list_owner_actions`, overview, delivery probe | one attempt per event, at most one mail, a run that tells the truth, no lost change |
| Registry watch store, Firestore and in memory | claims, latest snapshot per source, run per event, owner-review candidates | `claim_event`, `latest_snapshot`, `save_snapshot`, `save_run`, `save_action_candidate`, `resolve_action_candidate`, `get_run` | claims and runs are final; an owner's decision persists |
| Source fetcher, normalisation | none | `fetch`; visible text of HTML, segment hashes | a volatile page does not look changed |
| Brief generators (deterministic, guarded, Gemini) | none | `generate` | a brief describes a change that happened, forwards |
| Owner mail (SMTP, Resend, disabled) | none | `deliver` | a failure is a receipt, not an exception |
| Ingress (`fast_api_app.py`) | module-level engine and event claims | Pub/Sub, Scheduler, owner and demo routes | stable event ids, at-least-once is harmless |
| Claim store (`claim_store.py`) | claim per (tenant, kind, key) | `claim_once` | one winner per key |
| Action Warrant gateway (`warrant_gateway.py`) | signing key, consumed warrants (in a claim store) | issue, validate and consume, execute | one use, in scope, in time, controls honoured |
| Synthetic support loop (`support_loop.py`) | event claims, a gateway | `process` | one simulated action per event; receipts that say what happened; a kill switch that stops new work |
| Event contracts, policy, tools (`event_contracts.py`, `tools.py`) | claims of synthetic events | decode, `claim`, policy, fixture reads | only named fixtures pass |
| Business actions (`business_actions.py`) | completed keys of a service object, which lives for one request | customer reply, outreach follow-up | eligible recipients only; receipts that stand for mails; no second send |
| Provider canary (`provider_canary.py`, `provider_evidence.py`) | terminal claim of the process, receipts in the log | status, run, verification of a receipt | one paid request per process; log, claim and answers that agree |
| Deployment settings (`fast_api_app.py`, `registry_watch.py`) | the environment of a process | every route that can reach an effect | no effect without its own approval |
| Human approval (`human_approval.py`) | none | preview, resolve | an approval tells of a simulation, a decline runs nothing |
| Specialist protocol and agents (`specialist_protocol.py`, `specialist_agents.py`, `agent*.py`) | none | handoffs, fleet, topology | only the listed routes, no tool but the reading of a case |
| Trust engine, operational twin, time machine, knowledge packs | none | pure functions of evidence | trust rests on work; a timeline is of one event |
| Suites and reports (`adversarial_safety_suite`, `evaluation_suite`, `judge_demo`, `proof_bundle`, `proof_verification`, `agent_authority_audit`, `cloud_run_preflight`, `release_readiness`, ...) | none; each run has a loop or gateway of its own | run suites, build reports | a gate follows the evaluations it rests on; an approval tells what ran |
| Artifact, submission, recording and replay documents; consoles, CLIs, scripts | none | hash files, render | covered by the repository's tests |

### How they interact

Pub/Sub and Cloud Scheduler call the two watch routes. Both are synchronous
FastAPI functions, so each request runs on a thread of a pool, and Cloud Run may
run several instances. A request calls `RegistryWatchEngine.process`, which goes
through the claim store, the public source, the snapshot store, the brief
provider, the candidate store, the mail channel and the run store, in that
order, with no lock and no transaction around more than one of them. The owner
reads the queue and decides candidates through routes of the same application.
The support loop claims a synthetic event, asks the gateway for a warrant and
has the gateway use it. Gateway and event claims build on the claim store. The
trust engine, the time machine and the reports read the receipts of the loop;
suites and reports make a loop for every execution, so that one report rests on
many of them and shares only the clock with the server. The business lane and
the canary call external providers, on routes that the environment opens.

### What is hard

* *Concurrency*: deliveries of one event race on its claim; events of one source
  race on its snapshot; the owner races a handler; canary requests race on one claim.
* *Failure*: every external call of `process` may fail, and the instance may stop
  between any two of them. The mail provider may take a mail and fail to say so.
  A transaction may be aborted, or commit unheard.
* *Ordering*: the snapshot is stored before the change is briefed; the candidate
  before the mail; the run last.
* *Time*: a warrant expires between issue and use, and a suite that stalls fails.
* *Stale views*: a call of the support loop keeps the controls it read at its start;
  a snapshot comes back from the store without its segment hashes.
* *Lifetimes*: claims and completed keys live as long as a process, or a request;
  logs, mails and documents outlive them.

`PROJECT.json` lists these as `hazards`, each at its line, with the property
that covers it or the reason why none does yet.

## 2. Plan

| # | Module(s) | State | Content |
|---|---|---|---|
| 1 | `RegistryWatch`, `RegistryWatchProofs` | done | the watch and its safety, proved |
| 2 | `EventLedger`, `RegistryWatchLedger`, `RegistryWatchLedgerProofs` | done | abstract promise of the watch; the watch refines it, proved |
| 3 | `ClaimOnce`, `ClaimStore`, `ClaimStoreProofs` | done | `claim_once` of both stores, abstract and detailed, proved |
| 4 | `WarrantGateway`, `WarrantGatewayProofs` | done | one-use warrants, proved |
| 5 | `ChangedContent` on `RegistryWatch` | done | the excerpt a brief is made from, with and without restored hashes, proved with the watch |
| 6 | `SupportLoop` on `WarrantGateway`, `SupportLoopProofs` | done | the loop on a shared gateway, proved; it implements the gateway |
| 7 | `Evidence`, `Suites`, `Reports`, `ReleaseReport` on `SupportLoop` | done | trust, timelines and suites over the loop's evidence, a release report on the running clock, proved with the loop |
| 8 | `BusinessActions`, `ProviderCanary`, `Service`, and their proofs | done | the effects of a process and the settings that open them, proved |
| 9 | owner inbox and overview in a module on `RegistryWatch` | open | listings limited to 100 candidates, newest first |
| 10 | `RegistryWatchScheduleProofs` | done | the intended schedule: no change lost, briefs forward, decisions kept, each with the hypothesis it needs |

The claim step of modules 1, 4 and 6 is the indivisible claim that module 3
justifies, under the conditions stated there.

## 3. The modules

**RegistryWatch** models the Firestore deployment. A handler (`Worker`) has the
locals of `process`: `event`, `capture`, `prior` and `status`, and `pc`, the next
round trip it will make. `claims`, `snapshots`, `runs` and `candidates` are the
four kinds of documents. `site` is what the public sources serve. `mailbox` and
`observed` are history: the mails the owner received for an event, and the
changes a `save_snapshot` wrote over an older snapshot.

| Action | Code |
|---|---|
| `Receive` | the two watch routes; `_validate_event` refuses unregistered sources before the claim |
| `ClaimEvent`, `LookupRun` | 1132-1135; the recorded run, or a duplicate receipt |
| `Fetch`, `FetchFails` | 1138-1139, `HttpsRegistrySourceFetcher` |
| `ReadPrior` | 1140, `latest_snapshot` |
| `SaveSnapshot` | 1141, then the classification of 1143-1165 on the prior read before |
| `GenerateBrief`, `BriefFails` | 1174; a failure raises out of `process` |
| `SaveCandidate` | 1176, a blind `set` |
| `DeliverBrief`, `DeliveryFails` | 1177-1187; a failure becomes `brief_prepared`, and the mail may have gone out |
| `SaveRun`, `Respond` | 1200, and the answer of the route |
| `Crash` | the instance stops or a store call raises; locals are gone, documents stay |
| `Resolve` | the transaction of `resolve_action_candidate` |
| `Publish` | the environment revises a page |

A page is an evidence hash under a normalisation version. A candidate is
identified by source, prior evidence and current evidence, because `brief_id`
hashes just these. `version` in a snapshot numbers the revisions of a source;
the code never compares it, only `ForwardChange` does.

**EventLedger** says what the watch promises of each event: accepted at most
once, at most one brief while open, closed at most once with an outcome that
fits the brief. **RegistryWatchLedger** maps the watch onto it.

**ChangedContent** extends the watch at the step between `save_snapshot` and the
brief: the sentences of a page that are long enough become segments, the first
`MaxSegments` are compared with the hashes of the prior snapshot, and the first
`MaxShown` new ones make the excerpt, which is cut to `MaxText` characters. A page
is a sequence of sentences and a segment a position in it, so a page may repeat a
sentence; `First` takes the least positions of a set. `Excerpt` holds the segments
that the cut leaves whole. `PriorHashes` depends on the store: the one in memory
keeps the hashes, `latest_snapshot` of Firestore does not restore them.

**ClaimOnce** is the indivisible claim. **ClaimStore** is `claim_once` of both
stores side by side (`StoreOf` says where a key lives, `Asks` which threads may
claim it), with the lookup and the write as separate steps. On Firestore the write
is a commit that succeeds while the key is still unclaimed, is aborted and run
again up to `MaxAttempts` times, goes through unheard, or fails. In memory it is
a plain assignment.

**WarrantGateway** has the clock, the controls, the signed warrants, the
consumed ones and, per caller, the use in progress. `Validate` is the list of
checks of `validate_and_consume`, `Consume` its claim, `Execute` the tool. A
signature is valid on the warrants the gateway signed and on no others. The
claim is indivisible, as on the Firestore store. The gateway in `src/` is built
with the in-memory store and used by one thread at a time; sharing one between
threads needs a store that keeps `KeepsClaimOnce`.

**SupportLoop** is `process` on one shared gateway, extending its module. A call
(`Caller`) has its event, transition, `view` of the controls, warrant and `attempt`
as locals. `Begin` is the claim and the reading of the controls (a duplicate and an
unknown case change nothing), `IssueWarrant`/`IssueDenied` the first gateway
call, `UseWarrant`/`UseDenied`, `ConsumeWarrant` and `RunTool` the parts of the
second (the tool at `warrant_gateway.py:233`, back at `support_loop.py:135-141` with
the attempt), `WriteReceipt` the receipt of 142-154 and the answer. `Stop` is the end
of a call between any two steps, the run and its receipt included; a denial has
changed nothing before its receipt, so there the two are one step. `SetControls` is
the server's.
Receipts are kept as the set answered so far; `inflight` is history, the callers
at work when a kill switch was engaged.

**Evidence** reads those receipts: `TrustState` (a sequence, because the engine
counts a receipt presented twice twice), `Linked` and `Timeline` of the business
time machine. **Suites** is what the demo runs on itself: knowledge packs, the
event decoder, the safety probes, the seven evaluations, the dossiers, the judge
demo and the human approval, each on a loop of its own (`LoopRun`) over a span of
the clock from issue to use. A composed execution has a `Pace`: a span for each
scenario in it that reads the clock, since the judge demo's own run
(`judge_demo.py:63`), the probes of its safety suite (73) and its evaluation suite
(74) may each stall alone. **Reports** composes them, with the
authority audit of a fleet and the preflight's files. These definitions are functions
of code and paces: suites build gateways and loops of their own and read no state of
the server. **ReleaseReport** makes one release report beside the loop, as
`get_release_readiness` does: ten executions in order, each scenario an issue
(`ScenarioIssues`) and a use (`ScenarioUses`) between which the clock of the server may
go on, and at the end the gates (`ReportEnds`). `ServerSpec` is loop and report on one
clock. A judge demo raises when its evidence is not linked; it always is
(`AlwaysReplayed`), so no action stands for that.

**BusinessActions** is a request to the business lane from the construction of its
service to its answer: eligibility, the completed keys of that service, a
recording channel or the mail provider, which may fail before or after it took
the mail. **ProviderCanary** is the one request of a process to the model
provider: the terminal claim, final events with and without text, the receipt on
standard output, exceptions, cancellation at an await, and new processes;
`log`, `heard`, `answered` and `broken` outlive the process. **Service** puts both
into a process with an environment: which routes exist, which mail channel and
which switches they find, whether the process starts at all (`Starts`), and
`Deploy`, which replaces the process. `calls` counts the requests of the canary; a
brief of the watch that asks Gemini (702-765, 1174) is not among them. The owner's mail is a counter here; how the
watch sends it is the subject of `RegistryWatch`.

Operators called *Faulty variant* are not part of any specification. Each is a
plausible mistake in the definition that follows it, and `PROJECT.json` names the
property that detects it.

## 4. The runs

| Run | Instance | Checks |
|---|---|---|
| `watch_safety` | 2 handlers, 2 events and an unregistered one, 1 source, 2 contents, HTML and text, 3 revisions, every fault | types, one runner, one mail, queue before mail, answers, runs, restarts, no new segment left out, refinement of `EventLedger` |
| `watch_serial` | 1 handler, 4 events, content never repeats, snapshots with hashes, mail may fail, fair handler | no change is lost, briefs go forward and show only what is new, decisions stand, an accepted event ends as a stored run |
| `claim` | 3 threads on a Firestore key, one of them on an in-memory key, 2 attempts | one winner, refinement of `ClaimOnce` |
| `gateway` | 2 callers, 2 events (one without a fixture), 3 transitions (2 allowed), lifetime 2, clock 0 to 2 | one use, scope, expiry, replay |
| `support` | 2 calls, 3 known events of which 2 share an event id, an unknown one, 2 transitions (1 allowed), lifetime 1, clock 0 to 1, every setting of the controls; a release report in the making | one action and one true receipt per event, kill switch, answers as alone, trust, timelines, gates that follow the evaluations, refinement of the gateway |
| `service` | 14 environments, 2 clients with 4 bodies, 2 canary requests, 2 requests with an effect, 1 redeployment | mails, owner mails and canary requests only with their approval; receipts backed; one paid request; log and claim agree |
| `watch_lost_change`, `watch_reopened`, `watch_reversed`, `watch_excerpt`, `claim_race`, `business_resend` | smaller instances of the same modules | a property the documentation states and the code does not keep |

*Why the bounds are enough.* Two handlers are enough for every race between an
attempt and its retry or between two events of a source; a third delivery is a
handler that became free. Two contents and three revisions let a source change
and change back; three contents are needed only where content never repeats.
Two revisions of a source and four events give a baseline, two changes and one
unchanged capture. A page has up to four sentences, one of them too short to
count, under `MaxSegments` 4, `MaxShown` 2 and `MaxText` 3 (120, 12 and 6000 in the
code): its segments fit an excerpt, are too many for it, or too long. Three events are the threshold of the trust engine, so its
sequences have up to three receipts. A lifetime and clock of one give warrants
that are used in time and at their expiry. A release report has 46 scenarios of two
steps and the clock may go on at any of them, so each of them stalls alone in some
behaviour; `GatesFollow` proves every other pace. The report is explored while the loop
has no call and no kill switch is engaged (`Apart`), since they share the clock and
nothing else; the theorems know no such bound. The audit is evaluated on
the deployed fleet and on every fleet that differs from it in the tools, the
handoffs, the children, the names or the contracts. The environments are
everything off, everything on, and everything on but one setting, before and
after one redeployment: a setting that matters alone is caught.
Symmetry is on handlers, callers and clients, which the models never compare; it
is not used in runs with liveness. `LastVersion`, `MaxTime`, `MaxAttempts`,
`MaxAsked` and `MaxBoot` are the only bounds on counters, each a guard of one
action. Deadlock is checked except in the two runs of `Service`: there the
requests and the deployments are bounded and the canary is terminal, so a process
that has served them really has nothing left to do. Everywhere else a system at
its bounds can be given one more event, present a warrant or change the controls.

*Fairness.* `FairSpec` gives each handler weak fairness on `Process`, the steps
from the claim to the answer: a thread that was given a request is scheduled and
every external call has a timeout, so it returns or raises. Nothing is assumed
of the environment: no event is ever owed, no page has to change, no owner has
to decide. `Crash` is outside the fairness; the run with liveness (`watch_serial`) has no crash, brief
or fetch fault, since with them an accepted event is abandoned by design.

## 5. Findings

* **A change can be lost** (`watch_lost_change`). `save_snapshot` (1141) precedes
  the brief and the candidate (1174-1176). If the brief fails, or the instance
  stops, the event is claimed, the snapshot is new, and the next event sees no
  change. `docs/REGISTRY_CHANGE_WATCH.md:34` promises a durable candidate for
  every changed source.
* **A decided candidate can become undecided** (`watch_reopened`). When a source
  goes A, B, A, B, the second change from A to B has the id of the first and
  overwrites it, with the owner's decision.
* **A brief can run backwards** (`watch_reversed`). Two events of one source read
  and store its snapshot without a transaction; the older capture can be stored
  last and is briefed as an advance.
* **An excerpt shows old text as new** (`watch_excerpt`). `latest_snapshot` of the
  Firestore store (433) does not restore `content_segment_hashes`, so every
  segment of a changed page passes for new. `docs/REGISTRY_CHANGE_WATCH.md:29`
  promises a comparison that isolates newly observed text. `watch_serial` shows
  the promise kept by the store in memory. No new segment is left out in either
  store (`ChangeIsShown`, proved), as long as the page fits an excerpt.
* **Two threads can win one in-memory claim** (`claim_race`), on
  `/pubsub/synthetic-events`, whose claims are always in memory. Keys that one
  thread claims are safe (`claim`, and the proof).
* **A repeated business request is sent twice** (`business_resend`). Each private
  request builds a service whose set of completed keys is empty
  (`fast_api_app.py:404`). `docs/BUSINESS_ACTIONS.md:6` says that a stable
  idempotency key stops the same action being sent twice.

`watch_serial` shows the other side: with one handler, no brief fault, content
that never repeats and a store that restores hashes, none of the first four can
happen.

Observations made while modelling, without a run of their own:

* `create_claim_store_from_environment` has no caller in `app/`: setting
  `VICE_CEO_CLAIM_STORE=firestore` as README.md:197-199 describes has no effect.
* The capability ledger and README.md speak of a runtime without a messaging
  tool, while `business_actions.py` has a live one on its private routes.
* The release gates follow evaluation suites and nothing else that can stall
  (`GatesFollowEvaluations` says exactly which). `demo_verification.py:81-88` looks at
  the suites of a judge demo and not at its third act, so a gate opens although the
  demo's own run (`judge_demo.py:63`) was denied for its expired warrant; the act
  shows that outcome as it is, whatever its claim says. The evaluations of the judge
  demos that proof bundle and proof verification link, the fifth and the eighth
  execution of a release report, do not count either.
* A call of the support loop that stops between the tool and its receipt leaves a run
  without one: its event stays claimed, so the receipt never comes.
* The topology finding of the audit compares two views of one table, so it cannot
  fail; the other findings carry `AuditIsSound`.
* A human approval reports an executed simulation without looking at its outcome.
  That is true (`ApprovalIsTrue`) because its clock stands still.
* The trust engine counts a receipt again when it is presented again.
* Twelve segments of up to 800 characters can be longer than the 6000 characters an
  excerpt is cut to (1573), while the brief reports the number of segments before
  that cut (1601): a brief may count segments that its excerpt does not show.

## 6. The proofs

All proofs hold for every value of the constants that satisfies the named
assumptions: bounds are naturals, model values for "none" lie outside the sets
they stand beside, the faults are a subset of the four kinds.

**RegistryWatchProofs.** None of the safety invariants is inductive alone. That
the owner gets one mail needs that nothing was mailed before the delivery step
(`MailAccounted`), which needs that nobody else works on the event (`OneRunner`),
which needs that a working handler holds a claim and no run is stored yet
(`ClaimHeld`). `HasEvent` and `HasCapture` say what the locals hold at each step.
`IInv` is the conjunction of these with the type invariant and the properties;
TLC checked it on the instance of `watch_safety` before it was proved. From it
follow `OneRunner`, `MailedOnce`, `MailedIsQueued`, `AnswerIsRecorded`,
`RunAccountsForMail`, and, as action properties, `RunFinal` and
`RestartNeverRepeats`.

The excerpts are proved here too, for all pages and all limits. `ExcerptIsNew`: on a
store that keeps the hashes, what a brief shows is not on the prior page; the
hypothesis is the store kind, and `watch_excerpt` refutes the formula without it.
`ExcerptIsComplete`: a page that fits an excerpt is shown in full, on either store.
`ExcerptIsCutAtTheEnd`: the limits hold and cut at the end. The lemmas underneath say
what `First` and `Fits` do: a set within the limit is not cut (`FirstKeepsAll`), a
larger one is cut to it (`FirstIsBounded`), and leaving segments out never makes the
rest too long (`FewerFit`).

**RegistryWatchScheduleProofs.** Three properties hold only under the schedule the
code was written for: handlers take turns on a source. Nothing in the code enforces
it, so it is a hypothesis, `[]OnePerSource`, and not an assumption on a constant;
`ScheduleIsKept` shows two settings that satisfy it, a single handler and sources of
one event each. Each theorem names what it needs besides, and for each of these
hypotheses a violation run shows that it cannot be dropped (a crash loses a change
as a brief fault does, and has no run of its own):

| Theorem | Property | Hypotheses | Refuted without, by |
|---|---|---|---|
| `BriefsGoForward` | `ForwardChange` | turns | `watch_reversed` |
| `NoChangeIsLost` | `EveryChangeQueued` | turns, no brief fault, no crash | `watch_lost_change` (the brief fault) |
| `DecisionsStand` | `DecisionStands` | turns, a source never serves a content again | `watch_reopened` (old content) |

The invariant is `Ordered`: along a measure of captures that grows with every
revision, the stored snapshot of a source is not ahead of its site, a handler's
capture stands between them, and the prior it read is still the one stored when it
saves. For `ForwardChange` the measure is the version. For `DecisionStands` it is a rank of
contents (`NewContentOnly` says one exists): `QueueOrdered` adds that a queued change
is not younger than the stored snapshot, and that a change being briefed is not in
the queue yet, so no brief meets a decided candidate.

**RegistryWatchLedgerProofs.** `LedgerKept`: the initial states map, and each step
maps to a step of the ledger or to none. Only a winning claim, a mail and
`save_run` are visible; `IInv` supplies that the event is open when they happen.

**ClaimStoreProofs.** Assumed is that a key in memory is claimed by one thread only
(`OneThreadPerKey`); keys in Firestore may be claimed by any. A key somebody won is
recorded and was won once (`WinsRecorded`), so there is one winner, and every step
is one of `ClaimOnce`. Without the assumption `claim_race` refutes the theorem.

**WarrantGatewayProofs.** A warrant goes from unclaimed, to claimed by one caller,
to executed (`Unclaimed`, `Claimed`, `OneClaimer`, `ExecutedOnce`), and a use in
progress was in scope and in time when it was checked (`UsesGood`). `OneUse`,
`Authorized`, `TimelyUse` and `ReplayDenied` follow.

**SupportLoopProofs.** `LoopImplementsGateway`: every step of the loop is a step of
the gateway or leaves it alone, so `UsedOnce`, `AlwaysAuthorized`, `AlwaysTimely`
and `ReplaysDenied` hold under the loop. `LoopTypes` and `IInv` tie the two
modules together: a call has locals exactly while it works, and only with a warrant
is it at work in the gateway. For the kill switch, `Switched` says that a call in
the gateway was allowed by the controls it read, and that a call at work which is
not from before the switch has read controls that do not allow it.
`EInv` says, per event, how far its one call has got: warrants and receipts are of
claimed events and of one call each, a receipt is true, and of the calls at work
exactly those with a run are at their receipt.
`ActsOncePerEvent`, `ReceiptsAreTrue` and `TimelinesAreSound` follow, and so does
`TrustIsEarned`: receipts that all differ are of as many events, by a bijection from
their positions, for every number of receipts and not only the three that TLC tries.
`AInv` adds that a use was checked against the view, controls and warrant of its
call, from which `CallsAnswerAsAlone` follows. `LoopKeepsPromises` draws the
conclusion of the refinement. `ReportsAreTrue` evaluates the scenarios, suites and
reports once and for all: a scenario simulates exactly if it ends within `TTL`
(`ScenarioAnswers`, `StandsStill`), the safety suite passes at any pace (`AlwaysSafe`),
the evaluation suite exactly if its scenario is in time (`FullScore`), and the gates
(`GatesFollow`, for every pace of every scenario) and the audit follow. `ReportOK` is the
invariant of the report in the making: its spans are spans of the clock, since an issue
is never later than `now` and the clock only goes on, and what is published comes from
them. `ReportsLeaveLoop` carries every theorem of the loop over to `ServerSpec`.
`ReportsAreTrue` assumes `TTL > 0`; the source has 300 seconds, and with a lifetime of
zero the gates would never open, even on a clock that stands still.

**ProviderCanaryProofs.** At most one request is at work, it holds the claim, and
the call count, the claim and the log follow its step (`AtWorkOK`); nothing is
recorded for processes that have not started (`NothingAhead`). `CInv` is their
conjunction with the types.

**ServiceProofs.** The runtime implements the canary (`ServiceImplementsCanary`), so
its theorems carry over (`CanaryKeepsPromises`). A request at work on the mail channel has an eligible body
and a process that allows it (`Approved`), a canary request at work has its switch
on (`SwitchedOn`), and the environment is one the process starts with, so a selected
owner channel is approved and complete. Redeployment keeps all three, because it
drops the requests with the process. `ReceiptsAreBacked` counts: `Backed` says, per
key, that the receipts and the requests whose mail was taken but not answered for
are at most the mails. A mail adds one to the right and one waiting request to the
left, an answer turns a waiting request into a receipt.

*Model-checked only*: `AcceptedIsRecorded`, because it is liveness: weak fairness
speaks of ENABLED, which the prover does not treat. Every other property of a passing
run is stated by a theorem, some of them under the hypotheses named above. The three
properties of the schedule are checked by TLC on one handler, where `ScheduleIsKept`
makes the hypothesis hold. Refutations (section 5) are TLC's alone.

## 7. Not modelled

* Hashing, formatting, HTML extraction, the watch's envelopes and prompts: data that
  the properties do not tell apart. That equal hashes mean equal content, and that a
  signature cannot be made without the key, is assumed. The nesting of ignored HTML
  elements is listed as a hazard without a property.
* The limit of 100 in the owner's inbox and the overview: reads without an effect,
  listed as a hazard, planned.
* The dictionaries of the in-memory registry store beyond their segment hashes and
  claims: they are the Firestore documents.
* Artifact hashes, submission, recording and replay documents: hashes of files and
  constant text. The artifact manifest hashes files at request time while the
  verdicts come from loaded code; nothing depends on the difference.
* Consoles, command lines, deployment and recording scripts: rendering, parsing and
  shell around the service.
* Conversations of the agents with their models: prompts and model answers; only the
  fleet's tools and handoffs are modelled.
