---------------------------- MODULE BusinessActions ----------------------------
(***************************************************************************)
(* The business actions of src/app/business_actions.py behind the routes   *)
(* of fast_api_app.py.  Every request builds a service of its own, with a  *)
(* recording channel on the demo route and the mail provider on the        *)
(* private ones; what the provider did and what it answers may differ.     *)
(***************************************************************************)
EXTENDS Naturals

CONSTANTS
    Client,         \* requests for business actions
    Request,        \* bodies of the private routes
    MaxAsked,       \* bound on the requests
    NoRequest       \* model value

(* A body: the lane, the idempotency key that its action, recipient,       *)
(* subject and source hash to, and what the eligibility checks look at.    *)
ASSUME RequestAssumption ==
    /\ \A r \in Request :
          {"lane", "key", "approved", "sourced", "addressed", "suppressed", "written"}
              = DOMAIN r
    /\ MaxAsked \in Nat /\ NoRequest \notin Request

Channel == {"recording", "resend"}

Key == {r.key : r \in Request}

VARIABLES
    stage,          \* "idle", "send" or "sent"
    request,        \* the body at work
    channel,        \* delivery adapter of the service of a request
    completed,      \* _completed_keys of the service of a request
    mailbox,        \* how many mails of a body the provider took
    receipts,       \* how many receipts of a channel were answered for a key
    asked           \* requests so far

business == <<stage, request, channel, completed, mailbox, receipts, asked>>

BusinessInit ==
    /\ stage = [c \in Client |-> "idle"]
    /\ request = [c \in Client |-> NoRequest]
    /\ channel = [c \in Client |-> "recording"]
    /\ completed = [c \in Client |-> {}]
    /\ mailbox = [r \in Request |-> 0]
    /\ receipts = [a \in Channel |-> [k \in Key |-> 0]]
    /\ asked = 0

-----------------------------------------------------------------------------
(* Faulty variant: a contact who has unsubscribed is written to. *)
EligibleSuppressed(r) == r.approved /\ r.sourced /\ r.addressed /\ r.written

(* The checks of send_customer_reply and send_outreach_follow_up: a known  *)
(* intent or named campaign, an inbound message or consent, an address, no *)
(* suppression, and content.                                               *)
Eligible(r) ==
    /\ r.approved /\ r.sourced /\ r.addressed
    /\ r.lane = "outreach" => ~r.suppressed /\ r.written

(* A route builds the service of this request and sends through it. *)
Ask(c, r, a) ==
    /\ stage[c] = "idle" /\ asked < MaxAsked /\ Eligible(r)
    /\ stage' = [stage EXCEPT ![c] = "send"]
    /\ request' = [request EXCEPT ![c] = r]
    /\ channel' = [channel EXCEPT ![c] = a]
    /\ completed' = [completed EXCEPT ![c] = {}]
    /\ asked' = asked + 1
    /\ UNCHANGED <<mailbox, receipts>>

(* The service refuses what it has completed, then delivers. *)
MayDeliver(c) == stage[c] = "send" /\ request[c].key \notin completed[c]

Record(c) ==
    /\ MayDeliver(c) /\ channel[c] = "recording"
    /\ stage' = [stage EXCEPT ![c] = "sent"]
    /\ UNCHANGED <<request, channel, completed, mailbox, receipts, asked>>

(* The provider takes the mail and answers with its id. *)
ProviderAccepts(c) ==
    /\ MayDeliver(c) /\ channel[c] = "resend"
    /\ mailbox' = [mailbox EXCEPT ![request[c]] = @ + 1]
    /\ stage' = [stage EXCEPT ![c] = "sent"]
    /\ UNCHANGED <<request, channel, completed, receipts, asked>>

(* Faulty variant: status and id of the answer are not looked at. *)
ProviderFailsUnnoticed(c) ==
    /\ MayDeliver(c) /\ channel[c] = "resend"
    /\ \E taken \in BOOLEAN :
          mailbox' = [mailbox EXCEPT ![request[c]] = IF taken THEN @ + 1 ELSE @]
    /\ stage' = [stage EXCEPT ![c] = "sent"]
    /\ UNCHANGED <<request, channel, completed, receipts, asked>>

(* A rejection, a transport failure, a timeout or an answer without an id  *)
(* raises: the request fails, whether or not the provider took the mail.   *)
ProviderFails(c) ==
    /\ MayDeliver(c) /\ channel[c] = "resend"
    /\ \E taken \in BOOLEAN :
          mailbox' = [mailbox EXCEPT ![request[c]] = IF taken THEN @ + 1 ELSE @]
    /\ stage' = [stage EXCEPT ![c] = "idle"]
    /\ request' = [request EXCEPT ![c] = NoRequest]
    /\ UNCHANGED <<channel, completed, receipts, asked>>

(* Faulty variant: the request stays at work after its answer. *)
AnswerKeepsRequest(c) ==
    /\ stage[c] = "sent"
    /\ completed' = [completed EXCEPT ![c] = @ \cup {request[c].key}]
    /\ receipts' = [receipts EXCEPT ![channel[c]][request[c].key] = @ + 1]
    /\ stage' = [stage EXCEPT ![c] = "idle"]
    /\ UNCHANGED <<request, channel, mailbox, asked>>

(* The key is completed and the receipt answered; the service is dropped. *)
Answer(c) ==
    /\ stage[c] = "sent"
    /\ completed' = [completed EXCEPT ![c] = @ \cup {request[c].key}]
    /\ receipts' = [receipts EXCEPT ![channel[c]][request[c].key] = @ + 1]
    /\ stage' = [stage EXCEPT ![c] = "idle"]
    /\ request' = [request EXCEPT ![c] = NoRequest]
    /\ UNCHANGED <<channel, mailbox, asked>>

Deliver(c) == Record(c) \/ ProviderAccepts(c) \/ ProviderFails(c) \/ Answer(c)

-----------------------------------------------------------------------------
(* The mails of a key that the provider has: those of a body are numbered. *)
Mails(k) == UNION {{r} \X (1..mailbox[r]) : r \in {r \in Request : r.key = k}}

(* The type invariant; exactly the requests at work have a body. *)
BusinessTypeOK ==
    /\ stage \in [Client -> {"idle", "send", "sent"}]
    /\ request \in [Client -> Request \cup {NoRequest}]
    /\ \A c \in Client : stage[c] = "idle" <=> request[c] = NoRequest
    /\ channel \in [Client -> Channel]
    /\ completed \in [Client -> SUBSET Key]
    /\ mailbox \in [Request -> Nat]
    /\ receipts \in [Channel -> [Key -> Nat]]
    /\ asked \in 0..MaxAsked

=============================================================================
