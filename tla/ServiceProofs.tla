------------------------------ MODULE ServiceProofs ------------------------------
(* The runtime, for any deployments, requests and bodies: no effect without *)
(* its approval, and the canary as it is alone.                             *)
EXTENDS Service, ProviderCanaryProofs, FiniteSetTheorems

-----------------------------------------------------------------------------
(* The canary of the runtime is the canary. *)
LEMMA ServiceStepsCanary == [ServiceNext]_service => [CanaryNext]_canary
<1> SUFFICES ASSUME [ServiceNext]_service PROVE [CanaryNext]_canary
  OBVIOUS
<1>1. CASE UNCHANGED service
  BY <1>1 DEF service
<1>2. ASSUME NEW c \in Client, NEW r \in Request, PrivateRoute(c, r) \/ DemoRoute(c, r)
      PROVE  [CanaryNext]_canary
  BY <1>2 DEF PrivateRoute, DemoRoute
<1>3. ASSUME NEW c \in Client, DeliverMail(c) PROVE [CanaryNext]_canary
  BY <1>3 DEF DeliverMail
<1>4. ASSUME NEW c \in Caller, CanaryRoute(c) PROVE [CanaryNext]_canary
  BY <1>4 DEF CanaryRoute, CanaryNext
<1>5. CASE Probe \/ WatchEvent
  BY <1>5 DEF Probe, WatchEvent
<1>6. ASSUME NEW e \in Deployment, Deploy(e) PROVE [CanaryNext]_canary
  BY <1>6 DEF Deploy, CanaryNext
<1> QED BY <1>1, <1>2, <1>3, <1>4, <1>5, <1>6 DEF ServiceNext

(* The runtime implements the canary, whatever else it does. *)
THEOREM ServiceImplementsCanary == ServiceSpec => CanarySpec
<1>1. ServiceInit => CanaryInit
  BY DEF ServiceInit
<1> QED BY <1>1, ServiceStepsCanary, PTL DEF ServiceSpec, CanarySpec

(* So a process calls the provider once at most, its receipts stand for    *)
(* that call and its log tells the outcome, whatever is deployed when.     *)
THEOREM CanaryKeepsPromises ==
  ServiceSpec => [](CanaryTypeOK /\ OneCall /\ EvidenceIsReal /\ LogAgreesWithClaim)
BY ServiceImplementsCanary, CanaryTypeCorrect, NeverRetries, ReceiptsAreReal,
   LogTellsTheClaim, PTL

-----------------------------------------------------------------------------
(* The process runs under an environment it starts with, and a request     *)
(* that is at work on the mail channel went through the private routes.    *)
Approved(c) ==
    stage[c] # "idle" /\ channel[c] = "resend" =>
        Eligible(request[c]) /\ ~env.public /\ env.business

SInv ==
    /\ BusinessTypeOK
    /\ Starts(env)
    /\ \A c \in Client : Approved(c)

LEMMA ServiceStarts == ServiceInit => SInv
BY RequestAssumption
DEF ServiceInit, BusinessInit, SInv, BusinessTypeOK, Approved, Channel, Key

(* A request moves between its stages; the others stay where they are. *)
LEMMA AskStep ==
  ASSUME SInv, NEW c \in Client, NEW r \in Request, NEW a \in Channel, Ask(c, r, a),
         env' = env, a = "resend" => ~env.public /\ env.business
  PROVE  SInv'
<1> USE DEF SInv
<1>1. /\ stage' = [stage EXCEPT ![c] = "send"] /\ request' = [request EXCEPT ![c] = r]
      /\ channel' = [channel EXCEPT ![c] = a] /\ completed' = [completed EXCEPT ![c] = {}]
      /\ asked' = asked + 1 /\ asked < MaxAsked /\ Eligible(r)
      /\ UNCHANGED <<mailbox, receipts>>
  BY DEF Ask
<1>2. BusinessTypeOK'
  BY <1>1, RequestAssumption DEF BusinessTypeOK
<1>3. ASSUME NEW d \in Client PROVE Approved(d)'
  <2>1. CASE d = c
    BY <1>1, <2>1 DEF BusinessTypeOK, Approved
  <2>2. CASE d # c
    BY <1>1, <2>2 DEF BusinessTypeOK, Approved
  <2> QED BY <2>1, <2>2
<1> QED BY <1>2, <1>3 DEF Starts

LEMMA DeliverStep ==
  ASSUME SInv, NEW c \in Client, Deliver(c), env' = env
  PROVE  SInv'
<1> USE DEF SInv
<1>1. stage[c] # "idle" /\ request[c] \in Request /\ request[c].key \in Key
  <2>1. stage[c] # "idle"
    BY DEF Deliver, Record, ProviderAccepts, ProviderFails, Answer, MayDeliver
  <2> QED BY <2>1 DEF BusinessTypeOK, Key
<1>2. CASE Record(c)
  <2>1. stage' = [stage EXCEPT ![c] = "sent"]
        /\ UNCHANGED <<request, channel, completed, mailbox, receipts, asked>>
    BY <1>2 DEF Record
  <2> QED BY <1>1, <2>1 DEF BusinessTypeOK, Approved, Starts
<1>3. CASE ProviderAccepts(c)
  <2>1. stage' = [stage EXCEPT ![c] = "sent"]
        /\ mailbox' = [mailbox EXCEPT ![request[c]] = @ + 1]
        /\ UNCHANGED <<request, channel, completed, receipts, asked>>
    BY <1>3 DEF ProviderAccepts
  <2>2. BusinessTypeOK'
    BY <1>1, <2>1 DEF BusinessTypeOK
  <2>3. \A d \in Client : Approved(d)'
    BY <1>1, <2>1 DEF BusinessTypeOK, Approved
  <2> QED BY <2>2, <2>3 DEF Starts
<1>4. CASE ProviderFails(c)
  <2>1. PICK taken \in BOOLEAN :
          mailbox' = [mailbox EXCEPT ![request[c]] = IF taken THEN @ + 1 ELSE @]
    BY <1>4 DEF ProviderFails
  <2>2. mailbox' \in [Request -> Nat]
    BY <1>1, <2>1 DEF BusinessTypeOK
  <2>3. stage' = [stage EXCEPT ![c] = "idle"] /\ request' = [request EXCEPT ![c] = NoRequest]
        /\ UNCHANGED <<channel, completed, receipts, asked>>
    BY <1>4 DEF ProviderFails
  <2>4. BusinessTypeOK'
    BY <2>2, <2>3 DEF BusinessTypeOK
  <2>5. \A d \in Client : Approved(d)'
    BY <2>3 DEF BusinessTypeOK, Approved
  <2> QED BY <2>4, <2>5 DEF Starts
<1>5. CASE Answer(c)
  <2>1. /\ completed' = [completed EXCEPT ![c] = @ \cup {request[c].key}]
        /\ receipts' = [receipts EXCEPT ![channel[c]][request[c].key] = @ + 1]
        /\ stage' = [stage EXCEPT ![c] = "idle"]
        /\ request' = [request EXCEPT ![c] = NoRequest]
        /\ UNCHANGED <<channel, mailbox, asked>>
    BY <1>5 DEF Answer
  <2>2. completed' \in [Client -> SUBSET Key]
    BY <1>1, <2>1 DEF BusinessTypeOK
  <2>3. receipts' \in [Channel -> [Key -> Nat]]
    <3>1. receipts' = [receipts EXCEPT ![channel[c]] =
                          [receipts[channel[c]] EXCEPT ![request[c].key] = @ + 1]]
      BY <2>1
    <3>2. [receipts[channel[c]] EXCEPT ![request[c].key] = @ + 1] \in [Key -> Nat]
      BY <1>1 DEF BusinessTypeOK
    <3> QED BY <3>1, <3>2 DEF BusinessTypeOK
  <2>4. BusinessTypeOK'
    BY <2>1, <2>2, <2>3 DEF BusinessTypeOK
  <2>5. \A d \in Client : Approved(d)'
    BY <2>1 DEF BusinessTypeOK, Approved
  <2> QED BY <2>4, <2>5 DEF Starts
<1> QED BY <1>2, <1>3, <1>4, <1>5 DEF Deliver

LEMMA ServiceStep == SInv /\ [ServiceNext]_service => SInv'
<1> SUFFICES ASSUME SInv, [ServiceNext]_service PROVE SInv'
  OBVIOUS
<1>1. CASE UNCHANGED service
  BY <1>1 DEF service, business, SInv, BusinessTypeOK, Approved, Starts
<1>2. ASSUME NEW c \in Client, NEW r \in Request, PrivateRoute(c, r) PROVE SInv'
  BY <1>2, AskStep DEF PrivateRoute, Channel
<1>3. ASSUME NEW c \in Client, NEW r \in Request, DemoRoute(c, r) PROVE SInv'
  BY <1>3, AskStep DEF DemoRoute, Channel
<1>4. ASSUME NEW c \in Client, DeliverMail(c) PROVE SInv'
  BY <1>4, DeliverStep DEF DeliverMail
<1>5. ASSUME NEW c \in Caller, CanaryRoute(c) PROVE SInv'
  BY <1>5 DEF CanaryRoute, business, SInv, BusinessTypeOK, Approved, Starts
<1>6. CASE Probe \/ WatchEvent
  <2>1. asked' \in 0..MaxAsked
        /\ UNCHANGED <<env, stage, request, channel, completed, mailbox, receipts>>
    BY <1>6, RequestAssumption DEF Probe, WatchEvent, SInv, BusinessTypeOK
  <2> QED BY <2>1 DEF SInv, BusinessTypeOK, Approved, Starts
<1>7. ASSUME NEW e \in Deployment, Deploy(e) PROVE SInv'
  BY <1>7 DEF Deploy, SInv, BusinessTypeOK, Approved, Starts, Channel
<1> QED BY <1>1, <1>2, <1>3, <1>4, <1>5, <1>6, <1>7 DEF ServiceNext

(* The invariant of the runtime. *)
THEOREM ServiceInvariance == ServiceSpec => []SInv
BY ServiceStarts, ServiceStep, PTL DEF ServiceSpec

(* Type correctness of the business actions. *)
THEOREM BusinessTypeCorrect == ServiceSpec => []BusinessTypeOK
<1>1. SInv => BusinessTypeOK
  BY DEF SInv
<1> QED BY <1>1, ServiceInvariance, PTL

(* A step that adds a mail is of a request on the mail channel. *)
LEMMA MailStep ==
  ASSUME SInv, [ServiceNext]_service, NEW r \in Request, mailbox'[r] > mailbox[r]
  PROVE  \E c \in Client : /\ stage[c] # "idle" /\ channel[c] = "resend"
                           /\ request[c] = r
<1> SUFFICES ASSUME \A c \in Client : ~(/\ stage[c] # "idle" /\ channel[c] = "resend"
                                        /\ request[c] = r)
             PROVE  FALSE
  OBVIOUS
<1>0. mailbox'[r] # mailbox[r]
  BY DEF SInv, BusinessTypeOK
<1>1. CASE \E c \in Client : DeliverMail(c)
  <2>1. PICK c \in Client : DeliverMail(c)
    BY <1>1
  <2>2. ProviderAccepts(c) \/ ProviderFails(c)
    BY <1>0, <2>1 DEF DeliverMail, Deliver, Record, Answer
  <2>3. /\ stage[c] # "idle" /\ channel[c] = "resend"
    BY <2>2 DEF ProviderAccepts, ProviderFails, MayDeliver
  <2>4. request[c] # r
    BY <2>3
  <2> QED BY <1>0, <2>2, <2>4 DEF ProviderAccepts, ProviderFails, SInv, BusinessTypeOK
<1>2. CASE ~\E c \in Client : DeliverMail(c)
  BY <1>0, <1>2
  DEF ServiceNext, PrivateRoute, DemoRoute, Ask, CanaryRoute, Probe, WatchEvent, Deploy,
      service, business
<1> QED BY <1>1, <1>2

(* A mail reaches the provider only for an eligible body, on the private   *)
(* routes of a process with the business lane switched on.                 *)
THEOREM MailsAreAuthorized == ServiceSpec => MailIsAuthorized
<1> DEFINE Ok(r) == mailbox'[r] > mailbox[r] =>
          /\ r.approved /\ r.sourced /\ r.addressed
          /\ r.lane = "outreach" => ~r.suppressed /\ r.written
          /\ ~env.public /\ env.business
<1>1. SInv /\ [ServiceNext]_service => [\A r \in Request : Ok(r)]_service
  <2> SUFFICES ASSUME SInv, [ServiceNext]_service, NEW r \in Request,
                      mailbox'[r] > mailbox[r]
               PROVE  Ok(r)
    OBVIOUS
  <2>1. PICK c \in Client : stage[c] # "idle" /\ channel[c] = "resend" /\ request[c] = r
    BY MailStep
  <2>2. Eligible(r) /\ ~env.public /\ env.business
    BY <2>1 DEF SInv, Approved
  <2> QED BY <2>2 DEF Eligible
<1> QED BY <1>1, ServiceInvariance, PTL DEF ServiceSpec, MailIsAuthorized

-----------------------------------------------------------------------------
(* The mails of a key cover its receipts and the requests that will have   *)
(* one; both sets are finite, for requests arrive one by one.              *)
Backed(k) ==
    /\ IsFiniteSet(Mails(k)) /\ IsFiniteSet(Unanswered(k))
    /\ receipts["resend"][k] + Cardinality(Unanswered(k)) <= Cardinality(Mails(k))

(* A taken mail adds to the mails of its key. *)
LEMMA MailAdded ==
  ASSUME mailbox \in [Request -> Nat], NEW r \in Request, NEW k \in Key,
         mailbox' = [mailbox EXCEPT ![r] = @ + 1], IsFiniteSet(Mails(k))
  PROVE  /\ IsFiniteSet(Mails(k)')
         /\ Cardinality(Mails(k)') =
               IF r.key = k THEN Cardinality(Mails(k)) + 1 ELSE Cardinality(Mails(k))
<1> DEFINE m == <<r, mailbox[r] + 1>>
<1>1. m \notin Mails(k)
  BY DEF Mails
<1>2. CASE r.key = k
  <2>1. Mails(k)' = Mails(k) \cup {m}
    <3>1. 1..(mailbox[r] + 1) = (1..mailbox[r]) \cup {mailbox[r] + 1}
      OBVIOUS
    <3>2. {r} \X (1..mailbox'[r]) = ({r} \X (1..mailbox[r])) \cup {m}
      BY <3>1
    <3>3. \A q \in Request \ {r} : mailbox'[q] = mailbox[q]
      OBVIOUS
    <3> QED BY <1>2, <3>2, <3>3 DEF Mails
  <2> QED BY <1>1, <1>2, <2>1, FS_AddElement
<1>3. CASE r.key # k
  <2>1. Mails(k)' = Mails(k)
    BY <1>3 DEF Mails
  <2> QED BY <1>3, <2>1
<1> QED BY <1>2, <1>3

(* A request that moves changes what is unanswered by itself at most. *)
LEMMA BackedDeliver ==
  ASSUME SInv, NEW c \in Client, Deliver(c), NEW k \in Key, Backed(k)
  PROVE  Backed(k)'
<1> USE DEF SInv, BusinessTypeOK
<1>0. /\ Cardinality(Mails(k)) \in Nat /\ Cardinality(Unanswered(k)) \in Nat
      /\ receipts["resend"][k] \in Nat
  BY FS_CardinalityType DEF Backed, Channel
<1>1. stage[c] # "idle" /\ request[c] \in Request /\ request[c].key \in Key
  BY DEF Deliver, Record, ProviderAccepts, ProviderFails, Answer, MayDeliver, Key
<1>2. CASE Record(c)
  <2>1. Unanswered(k)' = Unanswered(k)
    BY <1>2 DEF Record, MayDeliver, Unanswered
  <2>2. Mails(k)' = Mails(k) /\ receipts' = receipts
    BY <1>2 DEF Record, Mails
  <2> QED BY <2>1, <2>2 DEF Backed
<1>3. CASE ProviderAccepts(c)
  <2>1. /\ mailbox' = [mailbox EXCEPT ![request[c]] = @ + 1] /\ receipts' = receipts
        /\ stage[c] = "send" /\ stage' = [stage EXCEPT ![c] = "sent"]
        /\ channel[c] = "resend" /\ channel' = channel /\ request' = request
    BY <1>3 DEF ProviderAccepts, MayDeliver
  <2>2. /\ IsFiniteSet(Mails(k)')
        /\ Cardinality(Mails(k)') = IF request[c].key = k THEN Cardinality(Mails(k)) + 1
                                    ELSE Cardinality(Mails(k))
    BY <1>1, <2>1, MailAdded DEF Backed
  <2>3. c \notin Unanswered(k)
    BY <2>1 DEF Unanswered
  <2>4. Unanswered(k)' = IF request[c].key = k THEN Unanswered(k) \cup {c} ELSE Unanswered(k)
    BY <2>1 DEF Unanswered
  <2>5. /\ IsFiniteSet(Unanswered(k)')
        /\ Cardinality(Unanswered(k)') = IF request[c].key = k
              THEN Cardinality(Unanswered(k)) + 1 ELSE Cardinality(Unanswered(k))
    <3>1. IsFiniteSet(Unanswered(k))
      BY DEF Backed
    <3>2. /\ IsFiniteSet(Unanswered(k) \cup {c})
          /\ Cardinality(Unanswered(k) \cup {c}) = Cardinality(Unanswered(k)) + 1
      BY <2>3, <3>1, FS_AddElement
    <3> QED BY <2>4, <3>1, <3>2
  <2> QED BY <1>0, <2>1, <2>2, <2>5 DEF Backed
<1>4. CASE ProviderFails(c)
  <2>1. PICK taken \in BOOLEAN :
          mailbox' = [mailbox EXCEPT ![request[c]] = IF taken THEN @ + 1 ELSE @]
    BY <1>4 DEF ProviderFails
  <2>2. /\ IsFiniteSet(Mails(k)') /\ Cardinality(Mails(k)') >= Cardinality(Mails(k))
    <3>1. CASE taken
      <4>1. mailbox' = [mailbox EXCEPT ![request[c]] = @ + 1]
        BY <2>1, <3>1
      <4>2. /\ IsFiniteSet(Mails(k)')
            /\ Cardinality(Mails(k)') = IF request[c].key = k THEN Cardinality(Mails(k)) + 1
                                        ELSE Cardinality(Mails(k))
        BY <1>1, <4>1, MailAdded DEF Backed
      <4> QED BY <1>0, <4>2
    <3>2. CASE ~taken
      <4>1. mailbox' = mailbox
        BY <1>1, <2>1, <3>2
      <4>2. Mails(k)' = Mails(k)
        BY <4>1 DEF Mails
      <4> QED BY <1>0, <4>2 DEF Backed
    <3> QED BY <3>1, <3>2
  <2>3. Unanswered(k)' = Unanswered(k) /\ receipts' = receipts
    BY <1>4 DEF ProviderFails, MayDeliver, Unanswered
  <2>4. Cardinality(Mails(k)') \in Nat
    BY <2>2, FS_CardinalityType
  <2> QED BY <1>0, <2>2, <2>3, <2>4 DEF Backed
<1>5. CASE Answer(c)
  <2>1. /\ receipts' = [receipts EXCEPT ![channel[c]][request[c].key] = @ + 1]
        /\ stage[c] = "sent" /\ stage' = [stage EXCEPT ![c] = "idle"]
        /\ request' = [request EXCEPT ![c] = NoRequest]
        /\ channel' = channel /\ mailbox' = mailbox
    BY <1>5 DEF Answer
  <2>2. Mails(k)' = Mails(k)
    BY <2>1 DEF Mails
  <2>3. CASE channel[c] = "resend" /\ request[c].key = k
    <3>1. c \in Unanswered(k)
      BY <2>1, <2>3 DEF Unanswered
    <3>2. Unanswered(k)' = Unanswered(k) \ {c}
      BY <2>1 DEF Unanswered
    <3>3. /\ IsFiniteSet(Unanswered(k)')
          /\ Cardinality(Unanswered(k)') = Cardinality(Unanswered(k)) - 1
      BY <3>1, <3>2, FS_RemoveElement DEF Backed
    <3>4. receipts'["resend"][k] = receipts["resend"][k] + 1
      BY <2>1, <2>3 DEF Channel
    <3> QED BY <1>0, <2>2, <3>3, <3>4 DEF Backed
  <2>4. CASE ~(channel[c] = "resend" /\ request[c].key = k)
    <3>1. Unanswered(k)' = Unanswered(k)
      BY <2>1, <2>4 DEF Unanswered
    <3>2. receipts'["resend"][k] = receipts["resend"][k]
      BY <1>1, <2>1, <2>4 DEF Channel
    <3> QED BY <2>2, <3>1, <3>2 DEF Backed
  <2> QED BY <2>3, <2>4
<1> QED BY <1>2, <1>3, <1>4, <1>5 DEF Deliver

LEMMA BackedStep ==
  ASSUME SInv, [ServiceNext]_service, NEW k \in Key, Backed(k)
  PROVE  Backed(k)'
<1>1. ASSUME UNCHANGED <<stage, request, channel, mailbox, receipts>> PROVE Backed(k)'
  BY <1>1 DEF Backed, Mails, Unanswered
<1>2. ASSUME NEW c \in Client, NEW r \in Request, NEW a, Ask(c, r, a) PROVE Backed(k)'
  <2>1. Unanswered(k)' = Unanswered(k)
    BY <1>2 DEF Ask, Unanswered, SInv, BusinessTypeOK
  <2>2. Mails(k)' = Mails(k) /\ receipts' = receipts
    BY <1>2 DEF Ask, Mails
  <2> QED BY <2>1, <2>2 DEF Backed
<1>3. ASSUME NEW e \in Deployment, Deploy(e) PROVE Backed(k)'
  <2>1. Unanswered(k)' = {}
    BY <1>3 DEF Deploy, Unanswered
  <2>2. Mails(k)' = Mails(k) /\ receipts' = receipts
    BY <1>3 DEF Deploy, Mails
  <2>3. /\ Cardinality(Mails(k)) \in Nat /\ Cardinality(Unanswered(k)) \in Nat
        /\ receipts["resend"][k] \in Nat
    BY FS_CardinalityType DEF Backed, SInv, BusinessTypeOK, Channel
  <2> QED BY <2>1, <2>2, <2>3, FS_EmptySet DEF Backed
<1> QED
  BY <1>1, <1>2, <1>3, BackedDeliver
  DEF ServiceNext, PrivateRoute, DemoRoute, DeliverMail, CanaryRoute, Probe, WatchEvent,
      service, business

(* Every receipt of the provider is backed by a mail of its key, however   *)
(* many requests fail after their mail was taken.                          *)
THEOREM ReceiptsAreBacked == ServiceSpec => []ReceiptBacked
<1> DEFINE AllBacked == \A k \in Key : Backed(k)
<1>1. ServiceInit => AllBacked
  <2> SUFFICES ASSUME ServiceInit, NEW k \in Key PROVE Backed(k)
    OBVIOUS
  <2>1. Mails(k) = {} /\ Unanswered(k) = {} /\ receipts["resend"][k] = 0
    BY DEF ServiceInit, BusinessInit, Mails, Unanswered, Channel
  <2> QED BY <2>1, FS_EmptySet DEF Backed
<1>2. SInv /\ AllBacked /\ [ServiceNext]_service => AllBacked'
  BY BackedStep
<1>3. AllBacked => ReceiptBacked
  BY DEF Backed, ReceiptBacked
<1> QED BY <1>1, <1>2, <1>3, ServiceInvariance, PTL DEF ServiceSpec

-----------------------------------------------------------------------------
(* A request for the canary is at work only where its switch is on. *)
SwitchedOn == \A c \in Caller : step[c] # "idle" => env.canary

LEMMA SwitchedOnStep ==
  CanaryTypeOK /\ SwitchedOn /\ [ServiceNext]_service => SwitchedOn'
<1> SUFFICES ASSUME CanaryTypeOK, SwitchedOn, [ServiceNext]_service PROVE SwitchedOn'
  OBVIOUS
<1>1. CASE UNCHANGED <<env, canary>>
  BY <1>1 DEF canary, SwitchedOn
<1>2. ASSUME NEW c \in Caller, CanaryRoute(c) PROVE SwitchedOn'
  <2>1. env.canary /\ env' = env
    BY <1>2
    DEF CanaryRoute, Continue, CallProvider, EventsEnd, Raises, Emit, EmitFails, Fail, Cancel,
        FinalEvent, SwitchedOn
  <2> QED BY <2>1 DEF SwitchedOn
<1>3. ASSUME NEW e \in Deployment, Deploy(e) PROVE SwitchedOn'
  BY <1>3 DEF Deploy, Reboot, SwitchedOn
<1> QED
  BY <1>1, <1>2, <1>3 DEF ServiceNext, PrivateRoute, DemoRoute, DeliverMail, Probe, WatchEvent, service

LEMMA CanarySwitchedOn == ServiceSpec => []SwitchedOn
<1>1. ServiceInit => SwitchedOn
  BY DEF ServiceInit, CanaryInit, SwitchedOn
<1> QED
  BY <1>1, SwitchedOnStep, ServiceImplementsCanary, CanaryTypeCorrect, PTL DEF ServiceSpec

(* A step that adds a provider request is one of a request at work. *)
LEMMA CallStep ==
  ASSUME CanaryTypeOK, [ServiceNext]_service, calls' > calls
  PROVE  \E c \in Caller : step[c] # "idle"
<1>1. calls' # calls /\ ~(calls' = 0)
  BY DEF CanaryTypeOK
<1>2. \E c \in Caller : CallProvider(c)
  BY <1>1
  DEF ServiceNext, PrivateRoute, DemoRoute, DeliverMail, CanaryRoute, Enter, Continue,
      EventsEnd, Raises, Emit, EmitFails, Fail, Cancel, FinalEvent, Probe, WatchEvent,
      Deploy, Reboot, service, canary
<1> QED BY <1>2 DEF CallProvider

(* The owner's mails and the canary's requests need their own approval. *)
THEOREM EffectsAreOptIn == ServiceSpec => EffectsNeedOptIn
<1> DEFINE Owned == ownerMail' # ownerMail =>
             /\ ~env.public /\ env.mode = "configured" /\ env.owner # "disabled"
             /\ env.ownerEnabled /\ env.ownerSettings
           Called == calls' > calls => env.canary
<1>1. SInv /\ [ServiceNext]_service => [Owned]_service
  <2> SUFFICES ASSUME SInv, [ServiceNext]_service, ownerMail' # ownerMail
               PROVE  Owned
    OBVIOUS
  <2>1. Probe \/ WatchEvent
    BY DEF ServiceNext, PrivateRoute, DemoRoute, DeliverMail, CanaryRoute, Deploy, service
  <2> QED BY <2>1 DEF Probe, WatchEvent, OwnerChannel, SInv, Starts
<1>2. CanaryTypeOK /\ SwitchedOn /\ [ServiceNext]_service => [Called]_service
  BY CallStep DEF SwitchedOn
<1>3. [Owned]_service /\ [Called]_service => [Owned /\ Called]_service
  OBVIOUS
<1> QED
  BY <1>1, <1>2, <1>3, ServiceInvariance, CanarySwitchedOn, ServiceImplementsCanary,
     CanaryTypeCorrect, PTL
  DEF ServiceSpec, EffectsNeedOptIn

=============================================================================
