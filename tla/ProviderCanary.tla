----------------------------- MODULE ProviderCanary -----------------------------
(***************************************************************************)
(* The provider canary of src/app/provider_canary.py: one request to the   *)
(* model provider per process, and one log receipt that says how it went.  *)
(* Requests run concurrently on one event loop; one may be cancelled where *)
(* it awaits, and the process may be replaced by a new one.                *)
(***************************************************************************)
EXTENDS Naturals

CONSTANTS
    Caller,         \* requests for the canary
    MaxBoot         \* bound on the processes, one after the other

ASSUME BootAssumption == MaxBoot \in Nat

Outcome == {"completed", "failed"}

Logged == [boot : 0..MaxBoot, outcome : Outcome]

VARIABLES
    boot,           \* number of the process
    claim,          \* InMemoryProviderCanaryClaim of the process
    step,           \* where a request is
    text,           \* does response_text of a request hold a text?
    calls,          \* history: provider requests of the process
    log,            \* receipts in the log, which outlives the process
    heard,          \* history: processes that the provider answered with a text
    answered,       \* history: processes that answered a request with 200
    broken          \* history: processes whose standard output failed

canary == <<boot, claim, step, text, calls, log, heard, answered, broken>>

CanaryInit ==
    /\ boot = 0
    /\ claim = "available"
    /\ step = [c \in Caller |-> "idle"]
    /\ text = [c \in Caller |-> FALSE]
    /\ calls = 0
    /\ log = {} /\ heard = {} /\ answered = {} /\ broken = {}

-----------------------------------------------------------------------------
Goto(c, s) == step' = [step EXCEPT ![c] = s]

(* Faulty variant: a request that failed may be tried again. *)
EnterFailed(c) ==
    /\ step[c] = "idle" /\ claim \in {"available", "failed"}
    /\ claim' = "claimed"
    /\ Goto(c, "session")
    /\ text' = [text EXCEPT ![c] = FALSE]
    /\ UNCHANGED <<boot, calls, log, heard, answered, broken>>

(* claim() lets one request of a process in; any later one is a conflict. *)
Enter(c) ==
    /\ step[c] = "idle" /\ claim = "available"
    /\ claim' = "claimed"
    /\ Goto(c, "session")
    /\ text' = [text EXCEPT ![c] = FALSE]
    /\ UNCHANGED <<boot, calls, log, heard, answered, broken>>

(* The session is there and the runner sends the fixed prompt. *)
CallProvider(c) ==
    /\ step[c] = "session"
    /\ calls' = calls + 1
    /\ Goto(c, "provider")
    /\ UNCHANGED <<boot, claim, text, log, heard, answered, broken>>

(* Every final event replaces the text, one without text by None. *)
FinalEvent(c, hasText) ==
    /\ step[c] = "provider"
    /\ text' = [text EXCEPT ![c] = hasText]
    /\ heard' = IF hasText THEN heard \cup {boot} ELSE heard
    /\ UNCHANGED <<boot, claim, step, calls, log, answered, broken>>

(* Faulty variant: a request without a final text counts as completed. *)
EventsEndUnchecked(c) ==
    /\ step[c] = "provider"
    /\ claim' = "completed"
    /\ Goto(c, "emit")
    /\ UNCHANGED <<boot, text, calls, log, heard, answered, broken>>

(* The events end: the claim is completed, or the final text is missing. *)
EventsEnd(c) ==
    /\ step[c] = "provider"
    /\ IF text[c] /\ claim = "claimed"
       THEN claim' = "completed" /\ Goto(c, "emit")
       ELSE claim' = claim /\ Goto(c, "failing")
    /\ UNCHANGED <<boot, text, calls, log, heard, answered, broken>>

(* The session service, the runner or the provider raises. *)
Raises(c) ==
    /\ step[c] \in {"session", "provider"}
    /\ Goto(c, "failing")
    /\ UNCHANGED <<boot, claim, text, calls, log, heard, answered, broken>>

(* Faulty variant: the receipt is built and answered, and not written. *)
EmitSilent(c) ==
    /\ step[c] = "emit"
    /\ answered' = answered \cup {boot}
    /\ Goto(c, "idle")
    /\ UNCHANGED <<boot, claim, text, calls, log, heard, broken>>

Emit(c) ==
    /\ step[c] = "emit"
    /\ log' = log \cup {[boot |-> boot, outcome |-> "completed"]}
    /\ answered' = answered \cup {boot}
    /\ Goto(c, "idle")
    /\ UNCHANGED <<boot, claim, text, calls, heard, broken>>

(* Writing the receipt raises, before or after the line is out. *)
EmitFails(c) ==
    /\ step[c] = "emit"
    /\ log' \in {log, log \cup {[boot |-> boot, outcome |-> "completed"]}}
    /\ broken' = broken \cup {boot}
    /\ Goto(c, "failing")
    /\ UNCHANGED <<boot, claim, text, calls, heard, answered>>

(* Faulty variant: the claim of a failed request is not closed. *)
FailOpen(c) ==
    /\ step[c] = "failing"
    /\ claim' = IF claim = "claimed" THEN "available" ELSE claim
    /\ \/ /\ log' = log \cup {[boot |-> boot, outcome |-> "failed"]}
          /\ broken' \in {broken, broken \cup {boot}}
       \/ log' = log /\ broken' = broken \cup {boot}
    /\ Goto(c, "idle")
    /\ UNCHANGED <<boot, text, calls, heard, answered>>

(* The handler of every exception fails a claim that is still open, and    *)
(* writes a failed receipt; writing may raise here too.                    *)
Fail(c) ==
    /\ step[c] = "failing"
    /\ claim' = IF claim = "claimed" THEN "failed" ELSE claim
    /\ \/ /\ log' = log \cup {[boot |-> boot, outcome |-> "failed"]}
          /\ broken' \in {broken, broken \cup {boot}}
       \/ log' = log /\ broken' = broken \cup {boot}
    /\ Goto(c, "idle")
    /\ UNCHANGED <<boot, text, calls, heard, answered>>

(* A cancellation passes the handler: the claim stays with nobody. *)
Cancel(c) ==
    /\ step[c] \in {"session", "provider"}
    /\ Goto(c, "idle")
    /\ UNCHANGED <<boot, claim, text, calls, log, heard, answered, broken>>

(* A new process starts; only the log is left. *)
Reboot ==
    /\ boot < MaxBoot
    /\ boot' = boot + 1
    /\ claim' = "available" /\ calls' = 0
    /\ step' = [c \in Caller |-> "idle"]
    /\ text' = [c \in Caller |-> FALSE]
    /\ UNCHANGED <<log, heard, answered, broken>>

Continue(c) ==
    \/ CallProvider(c) \/ EventsEnd(c) \/ Raises(c)
    \/ Emit(c) \/ EmitFails(c) \/ Fail(c) \/ Cancel(c)
    \/ \E hasText \in BOOLEAN : FinalEvent(c, hasText)

CanaryNext == Reboot \/ \E c \in Caller : Enter(c) \/ Continue(c)

CanarySpec == CanaryInit /\ [][CanaryNext]_canary

(* verify_provider_receipt of an exported log entry: what the canary fixes *)
(* in every receipt is as expected, the outcome has to be.                 *)
Verified(r) == r.outcome = "completed"

-----------------------------------------------------------------------------
(* The type invariant; a claim that is available has not been used, and a  *)
(* request writes a completed receipt only under a completed claim.        *)
CanaryTypeOK ==
    /\ boot \in 0..MaxBoot
    /\ claim \in {"available", "claimed", "completed", "failed"}
    /\ step \in [Caller -> {"idle", "session", "provider", "emit", "failing"}]
    /\ text \in [Caller -> BOOLEAN]
    /\ calls \in Nat
    /\ log \subseteq Logged
    /\ heard \subseteq 0..MaxBoot
    /\ answered \subseteq 0..MaxBoot
    /\ broken \subseteq 0..MaxBoot
    /\ claim = "available" => calls = 0 /\ \A c \in Caller : step[c] = "idle"
    /\ \A c \in Caller : step[c] = "emit" => claim = "completed"

(* "Never retries a paid provider request": however requests interleave,   *)
(* fail or are cancelled, a process calls the provider once at most, and    *)
(* only one of them is ever between the claim and its end.                  *)
OneCall ==
    /\ calls <= 1
    /\ \A c, d \in Caller : step[c] # "idle" /\ step[d] # "idle" => c = d

(* A receipt the verifier accepts is of a process that the provider really *)
(* answered, and a process that answered 200 has such a receipt logged.    *)
EvidenceIsReal ==
    /\ \A r \in log : Verified(r) => r.boot \in heard
    /\ \A b \in answered : [boot |-> b, outcome |-> "completed"] \in log

(* When the request is over, log and claim agree: a terminal claim has the *)
(* receipt of its outcome and no other one, unless standard output failed; *)
(* a claim that is still open has no receipt at all.                       *)
LogAgreesWithClaim ==
    (\A c \in Caller : step[c] = "idle") /\ boot \notin broken =>
        {r \in log : r.boot = boot} =
            IF claim \in Outcome THEN {[boot |-> boot, outcome |-> claim]} ELSE {}

=============================================================================
