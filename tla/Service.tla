-------------------------------- MODULE Service --------------------------------
(***************************************************************************)
(* One process of the runtime, src/app/fast_api_app.py, and the effects    *)
(* its routes can reach under the environment it was deployed with: mails  *)
(* to customers and contacts, mails to the owner, and canary requests.     *)
(* A deployment replaces the process; requests in progress go with it.     *)
(***************************************************************************)
EXTENDS BusinessActions, ProviderCanary, FiniteSets

CONSTANT Deployment             \* environments the runtime is deployed with

Env == [public : BOOLEAN,                           \* VICE_CEO_PUBLIC_DEMO_ONLY
        business : BOOLEAN, email : {"disabled", "resend"}, credentials : BOOLEAN,
        canary : BOOLEAN,
        mode : {"fixture", "configured"}, sources : BOOLEAN,
        brief : {"deterministic", "gemini"}, geminiEnabled : BOOLEAN,
        owner : {"disabled", "smtp", "resend"}, ownerEnabled : BOOLEAN,
        ownerSettings : BOOLEAN, probe : BOOLEAN]

ASSUME DeploymentAssumption == Deployment \subseteq Env

VARIABLES
    env,            \* environment of the process
    ownerMail       \* mails to the owner so far

service == <<env, ownerMail, business, canary>>

(* Faulty variant: a mail channel needs its settings, and no approval. *)
StartsUnapproved(e) ==
    e.mode = "configured" =>
        /\ e.sources
        /\ e.brief = "gemini" => e.geminiEnabled
        /\ e.owner # "disabled" => e.ownerSettings

(* create_registry_watch_worker_from_environment runs at import: it raises,*)
(* and the process does not start, unless everything selected is approved  *)
(* and complete.                                                           *)
Starts(e) ==
    e.mode = "configured" =>
        /\ e.sources
        /\ e.brief = "gemini" => e.geminiEnabled
        /\ e.owner # "disabled" => e.ownerEnabled /\ e.ownerSettings

(* The delivery channel of the worker: the fixture worker has none. *)
OwnerChannel(e) == IF e.mode = "configured" THEN e.owner ELSE "disabled"

ServiceInit ==
    /\ env \in {e \in Deployment : Starts(e)}
    /\ ownerMail = 0
    /\ BusinessInit
    /\ CanaryInit

-----------------------------------------------------------------------------
(* The private routes: not on the public demo, and only through a service  *)
(* that the environment enables.                                           *)
PrivateRoute(c, r) ==
    /\ ~env.public
    /\ env.business /\ env.email = "resend" /\ env.credentials
    /\ Ask(c, r, "resend")
    /\ UNCHANGED <<env, ownerMail, canary>>

(* The demo route works on fixed bodies, everywhere. *)
DemoRoute(c, r) ==
    /\ Ask(c, r, "recording")
    /\ UNCHANGED <<env, ownerMail, canary>>

DeliverMail(c) == Deliver(c) /\ UNCHANGED <<env, ownerMail, canary>>

(* The owner's delivery probe; the answer is an error unless delivered. *)
Probe ==
    /\ ~env.public /\ env.mode = "configured" /\ env.probe
    /\ OwnerChannel(env) # "disabled"
    /\ asked < MaxAsked /\ asked' = asked + 1
    /\ ownerMail' \in {ownerMail, ownerMail + 1}
    /\ UNCHANGED <<env, stage, request, channel, completed, mailbox, receipts, canary>>

(* A watch event that ends in a brief, see RegistryWatch. *)
WatchEvent ==
    /\ ~env.public
    /\ OwnerChannel(env) # "disabled"
    /\ asked < MaxAsked /\ asked' = asked + 1
    /\ ownerMail' \in {ownerMail, ownerMail + 1}
    /\ UNCHANGED <<env, stage, request, channel, completed, mailbox, receipts, canary>>

CanaryRoute(c) ==
    /\ \/ env.canary /\ Enter(c)
       \/ Continue(c)
    /\ UNCHANGED <<env, ownerMail, business>>

(* A new process, of the same or another environment. *)
Deploy(e) ==
    /\ Starts(e)
    /\ env' = e
    /\ Reboot
    /\ stage' = [c \in Client |-> "idle"]
    /\ request' = [c \in Client |-> NoRequest]
    /\ channel' = [c \in Client |-> "recording"]
    /\ completed' = [c \in Client |-> {}]
    /\ UNCHANGED <<ownerMail, mailbox, receipts, asked>>

ServiceNext ==
    \/ \E c \in Client :
          \/ \E r \in Request : PrivateRoute(c, r) \/ DemoRoute(c, r)
          \/ DeliverMail(c)
    \/ \E c \in Caller : CanaryRoute(c)
    \/ Probe
    \/ WatchEvent
    \/ \E e \in Deployment : Deploy(e)

ServiceSpec == ServiceInit /\ [][ServiceNext]_service

-----------------------------------------------------------------------------
(* The requests for a key that the provider answered with an id. *)
Unanswered(k) ==
    {c \in Client : stage[c] = "sent" /\ channel[c] = "resend" /\ request[c].key = k}

(* Every receipt that says provider_accepted stands for a mail of its key  *)
(* that the provider took, mails of requests still at work included; how   *)
(* many requests fail after their mail was taken does not matter.          *)
ReceiptBacked ==
    \A k \in Key :
        receipts["resend"][k] + Cardinality(Unanswered(k)) <= Cardinality(Mails(k))

(* A mail reaches the provider only for a body that was eligible, on the   *)
(* private routes of a process that is not the public demo and has the     *)
(* business lane switched on, whichever processes ran before it.           *)
MailIsAuthorized ==
    [][\A r \in Request : mailbox'[r] > mailbox[r] =>
          /\ r.approved /\ r.sourced /\ r.addressed
          /\ r.lane = "outreach" => ~r.suppressed /\ r.written
          /\ ~env.public /\ env.business]_service

(* Two more effects need their own approval: a mail to the owner an        *)
(* enabled and complete channel of a configured worker off the public      *)
(* demo, and a request of the canary its switch.  The briefs of the watch  *)
(* that ask a model are not counted among calls.                           *)
EffectsNeedOptIn ==
    [][/\ ownerMail' # ownerMail =>
             /\ ~env.public /\ env.mode = "configured" /\ env.owner # "disabled"
             /\ env.ownerEnabled /\ env.ownerSettings
       /\ calls' > calls => env.canary]_service

(* "A stable idempotency key stops the same action being sent twice"       *)
(* (docs/BUSINESS_ACTIONS.md:6): no key gets two receipts that say the     *)
(* provider accepted its mail.                                             *)
SentOnce == \A k \in Key : receipts["resend"][k] <= 1

=============================================================================
