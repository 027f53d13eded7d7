-------------------------- MODULE ProviderCanaryProofs --------------------------
(* The provider canary, for any number of requests and processes: one call *)
(* to the provider per process, and a log that tells how it went.          *)
EXTENDS ProviderCanary, TLAPS

(* What a request at work knows: its claim, its one call, what it heard,   *)
(* and that the process has logged nothing yet.                            *)
AtWorkOK(c) ==
    /\ step[c] \in {"session", "provider"} => claim = "claimed"
    /\ step[c] = "session" => calls = 0 /\ ~text[c]
    /\ step[c] = "provider" /\ text[c] => boot \in heard
    /\ step[c] = "emit" => boot \in heard
    /\ step[c] = "failing" /\ boot \notin broken => claim = "claimed"
    /\ step[c] # "idle" /\ boot \notin broken => \A r \in log : r.boot # boot

(* No process to come has left anything. *)
NothingAhead ==
    /\ \A r \in log : r.boot <= boot
    /\ \A b \in broken : b <= boot

CInv ==
    /\ CanaryTypeOK /\ OneCall /\ EvidenceIsReal /\ LogAgreesWithClaim
    /\ NothingAhead
    /\ \A c \in Caller : AtWorkOK(c)

LEMMA CanaryStarts == CanaryInit => CInv
BY BootAssumption
DEF CanaryInit, CInv, CanaryTypeOK, OneCall, EvidenceIsReal, LogAgreesWithClaim,
    NothingAhead, AtWorkOK, Outcome

(* Nobody but c is at work, before and after a step of c. *)
Alone(c) == \A d \in Caller : d # c => step[d] = "idle"

LEMMA OneAtWork ==
  ASSUME OneCall, NEW c \in Caller, step[c] # "idle"
  PROVE  Alone(c)
BY DEF OneCall, Alone

LEMMA OtherStepsStay ==
  ASSUME CInv, NEW c \in Caller, Alone(c), NEW s, Goto(c, s)
  PROVE  Alone(c)' /\ step'[c] = s
BY DEF CInv, CanaryTypeOK, Goto, Alone

(* What is left to show of a step of the one request at work. *)
LEMMA RequestStep ==
  ASSUME NEW c \in Caller, CanaryTypeOK', Alone(c)', calls' <= 1, EvidenceIsReal',
         NothingAhead', AtWorkOK(c)', step'[c] = "idle" => LogAgreesWithClaim'
  PROVE  CInv'
<1>1. OneCall' /\ \A d \in Caller : AtWorkOK(d)'
  BY DEF OneCall, Alone, AtWorkOK
<1>2. LogAgreesWithClaim'
  BY DEF LogAgreesWithClaim
<1> QED BY <1>1, <1>2 DEF CInv

LEMMA CanaryStep == CInv /\ [CanaryNext]_canary => CInv'
<1> SUFFICES ASSUME CInv, [CanaryNext]_canary PROVE CInv'
  OBVIOUS
<1> USE DEF CInv
<1>1. CASE UNCHANGED canary
  BY <1>1
  DEF canary, CanaryTypeOK, OneCall, EvidenceIsReal, LogAgreesWithClaim, NothingAhead,
      AtWorkOK
<1>2. CASE Reboot
  <2>1. CanaryTypeOK'
    BY <1>2, BootAssumption DEF Reboot, CanaryTypeOK
  <2>2. boot \in Nat /\ boot' = boot + 1
    BY <1>2, BootAssumption DEF Reboot, CanaryTypeOK
  <2>6. OneCall' /\ EvidenceIsReal'
    BY <1>2 DEF Reboot, OneCall, EvidenceIsReal
  <2>7. NothingAhead'
    <3>1. \A r \in log : r.boot \in Nat
      BY BootAssumption DEF CanaryTypeOK, Logged
    <3>2. \A b \in broken : b \in Nat
      BY BootAssumption DEF CanaryTypeOK
    <3> QED BY <1>2, <2>2, <3>1, <3>2 DEF Reboot, NothingAhead
  <2>3. \A r \in log' : r.boot # boot'
    BY <1>2, <2>2 DEF Reboot, NothingAhead, CanaryTypeOK, Logged
  <2>4. LogAgreesWithClaim'
    BY <1>2, <2>3 DEF Reboot, LogAgreesWithClaim, Outcome
  <2>5. \A c \in Caller : AtWorkOK(c)'
    BY <1>2, <2>3 DEF Reboot, AtWorkOK
  <2> QED BY <2>1, <2>4, <2>5, <2>6, <2>7
<1>3. ASSUME NEW c \in Caller, Enter(c) PROVE CInv'
  <2>1. Alone(c)' /\ step'[c] = "session"
    <3>1. Alone(c)
      BY <1>3 DEF Enter, CanaryTypeOK, Alone
    <3> QED BY <1>3, <3>1, OtherStepsStay DEF Enter
  <2>2. CanaryTypeOK'
    BY <1>3, <2>1 DEF Enter, Goto, CanaryTypeOK, Alone
  <2>3. calls = 0 /\ claim \notin Outcome /\ \A d \in Caller : step[d] = "idle"
    BY <1>3 DEF Enter, CanaryTypeOK, Outcome
  <2>4. boot \notin broken => \A r \in log : r.boot # boot
    BY <2>3 DEF LogAgreesWithClaim
  <2>5. AtWorkOK(c)'
    <3>1. text'[c] = FALSE /\ claim' = "claimed" /\ UNCHANGED <<calls, boot, heard, broken, log>>
      BY <1>3 DEF Enter, CanaryTypeOK
    <3>2. ~text'[c]
      BY <3>1
    <3> QED BY <2>1, <2>3, <2>4, <3>1, <3>2 DEF AtWorkOK
  <2>6. calls' <= 1 /\ EvidenceIsReal' /\ NothingAhead'
    BY <1>3, <2>3 DEF Enter, EvidenceIsReal, NothingAhead
  <2> QED BY <2>1, <2>2, <2>5, <2>6, RequestStep
<1>4. ASSUME NEW c \in Caller, Continue(c) PROVE CInv'
  <2>1. step[c] # "idle" /\ Alone(c)
    <3>1. step[c] # "idle"
      BY <1>4
      DEF Continue, CallProvider, EventsEnd, Raises, Emit, EmitFails, Fail, Cancel, FinalEvent
    <3> QED BY <3>1, OneAtWork
  <2>2. Alone(c)'
    BY <1>4, <2>1, OtherStepsStay
    DEF Continue, CallProvider, EventsEnd, Raises, Emit, EmitFails, Fail, Cancel,
        FinalEvent, Alone
  <2>3. CASE CallProvider(c)
    <3>1. step'[c] = "provider" /\ CanaryTypeOK'
      BY <2>1, <2>2, <2>3 DEF CallProvider, Goto, CanaryTypeOK, Alone
    <3>2. AtWorkOK(c)'
      BY <2>1, <2>3, <3>1 DEF CallProvider, AtWorkOK, CanaryTypeOK
    <3>3. calls' <= 1 /\ EvidenceIsReal' /\ NothingAhead'
      BY <2>1, <2>3 DEF CallProvider, EvidenceIsReal, NothingAhead, OneCall, AtWorkOK, CanaryTypeOK
    <3> QED BY <2>2, <3>1, <3>2, <3>3, RequestStep
  <2>4. ASSUME NEW hasText \in BOOLEAN, FinalEvent(c, hasText) PROVE CInv'
    <3>1. step'[c] = "provider" /\ CanaryTypeOK'
      BY <2>1, <2>2, <2>4 DEF FinalEvent, Goto, CanaryTypeOK, Alone
    <3>2. AtWorkOK(c)'
      <4>1. text'[c] = hasText /\ step[c] = "provider" /\ (hasText => boot \in heard')
            /\ UNCHANGED <<boot, claim, log, broken>>
        BY <2>4 DEF FinalEvent, CanaryTypeOK
      <4>2. text'[c] => boot' \in heard'
        BY <4>1
      <4> QED BY <3>1, <4>1, <4>2 DEF AtWorkOK
    <3>3. calls' <= 1 /\ EvidenceIsReal' /\ NothingAhead'
      BY <2>1, <2>4 DEF FinalEvent, EvidenceIsReal, NothingAhead, OneCall, AtWorkOK, CanaryTypeOK
    <3> QED BY <2>2, <3>1, <3>2, <3>3, RequestStep
  <2>5. CASE EventsEnd(c)
    <3>1. step'[c] \in {"emit", "failing"} /\ CanaryTypeOK'
      BY <2>1, <2>2, <2>5 DEF EventsEnd, Goto, CanaryTypeOK, Alone
    <3>2. AtWorkOK(c)'
      <4>1. step[c] = "provider" /\ claim = "claimed" /\ UNCHANGED <<boot, heard, log, broken>>
        BY <2>5 DEF EventsEnd, AtWorkOK
      <4>2. CASE text[c]
        <5>1. step'[c] = "emit" /\ boot \in heard
          BY <2>5, <4>1, <4>2 DEF EventsEnd, AtWorkOK, Goto, CanaryTypeOK
        <5> QED BY <4>1, <5>1 DEF AtWorkOK
      <4>3. CASE ~text[c]
        <5>1. step'[c] = "failing" /\ claim' = "claimed"
          BY <2>5, <4>1, <4>3 DEF EventsEnd, Goto, CanaryTypeOK
        <5> QED BY <4>1, <5>1 DEF AtWorkOK
      <4> QED BY <4>2, <4>3
    <3>3. calls' <= 1 /\ EvidenceIsReal' /\ NothingAhead'
      BY <2>1, <2>5 DEF EventsEnd, EvidenceIsReal, NothingAhead, OneCall, AtWorkOK, CanaryTypeOK
    <3> QED BY <2>2, <3>1, <3>2, <3>3, RequestStep
  <2>6. CASE Raises(c)
    <3>1. step'[c] = "failing" /\ CanaryTypeOK'
      BY <2>1, <2>2, <2>6 DEF Raises, Goto, CanaryTypeOK, Alone
    <3>2. AtWorkOK(c)'
      BY <2>1, <2>6, <3>1 DEF Raises, AtWorkOK, CanaryTypeOK
    <3>3. calls' <= 1 /\ EvidenceIsReal' /\ NothingAhead'
      BY <2>1, <2>6 DEF Raises, EvidenceIsReal, NothingAhead, OneCall, AtWorkOK, CanaryTypeOK
    <3> QED BY <2>2, <3>1, <3>2, <3>3, RequestStep
  <2>7. CASE Emit(c)
    <3>1. step'[c] = "idle" /\ CanaryTypeOK'
      BY <2>1, <2>2, <2>7 DEF Emit, Goto, CanaryTypeOK, Alone, Logged, Outcome
    <3>2. AtWorkOK(c)'
      BY <2>1, <2>7, <3>1 DEF Emit, AtWorkOK, CanaryTypeOK
    <3>3. calls' <= 1 /\ EvidenceIsReal' /\ NothingAhead'
      BY <2>1, <2>7 DEF Emit, EvidenceIsReal, NothingAhead, OneCall, AtWorkOK, CanaryTypeOK, Verified
    <3>4. LogAgreesWithClaim'
      BY <2>1, <2>7 DEF Emit, LogAgreesWithClaim, Outcome, AtWorkOK, CanaryTypeOK
    <3> QED BY <2>2, <3>1, <3>2, <3>3, <3>4, RequestStep
  <2>8. CASE EmitFails(c)
    <3>1. step'[c] = "failing" /\ CanaryTypeOK'
      BY <2>1, <2>2, <2>8 DEF EmitFails, Goto, CanaryTypeOK, Alone, Logged, Outcome
    <3>2. AtWorkOK(c)'
      BY <2>1, <2>8, <3>1 DEF EmitFails, AtWorkOK, CanaryTypeOK
    <3>3. calls' <= 1 /\ EvidenceIsReal' /\ NothingAhead'
      BY <2>1, <2>8 DEF EmitFails, EvidenceIsReal, NothingAhead, OneCall, AtWorkOK, CanaryTypeOK, Verified
    <3> QED BY <2>2, <3>1, <3>2, <3>3, RequestStep
  <2>9. CASE Fail(c)
    <3>1. step'[c] = "idle" /\ CanaryTypeOK'
      <4>1. [boot |-> boot, outcome |-> "failed"] \in Logged
        BY DEF CanaryTypeOK, Logged, Outcome
      <4>2. log' \subseteq Logged /\ broken' \subseteq 0..MaxBoot
        BY <2>9, <4>1 DEF Fail, CanaryTypeOK
      <4>3. step' = [step EXCEPT ![c] = "idle"] /\ claim \in {"claimed", "completed", "failed"}
            /\ claim' \in {"completed", "failed"}
            /\ UNCHANGED <<boot, text, calls, heard, answered>>
        BY <2>1, <2>9 DEF Fail, Goto, CanaryTypeOK
      <4> QED BY <2>1, <4>2, <4>3 DEF CanaryTypeOK, Alone
    <3>2. AtWorkOK(c)'
      BY <2>1, <2>9, <3>1 DEF Fail, AtWorkOK, CanaryTypeOK
    <3>3. calls' <= 1 /\ EvidenceIsReal' /\ NothingAhead'
      <4>1. log' \subseteq log \cup {[boot |-> boot, outcome |-> "failed"]} /\ log \subseteq log'
            /\ broken' \subseteq broken \cup {boot} /\ UNCHANGED <<boot, calls, heard, answered>>
        BY <2>9 DEF Fail
      <4>2. boot <= boot /\ ~Verified([boot |-> boot, outcome |-> "failed"])
        BY BootAssumption DEF CanaryTypeOK, Verified
      <4> QED BY <4>1, <4>2 DEF EvidenceIsReal, NothingAhead, OneCall, Verified
    <3>4. LogAgreesWithClaim'
      BY <2>1, <2>9 DEF Fail, LogAgreesWithClaim, Outcome, AtWorkOK, CanaryTypeOK
    <3> QED BY <2>2, <3>1, <3>2, <3>3, <3>4, RequestStep
  <2>10. CASE Cancel(c)
    <3>1. step'[c] = "idle" /\ CanaryTypeOK'
      BY <2>1, <2>2, <2>10 DEF Cancel, Goto, CanaryTypeOK, Alone
    <3>2. AtWorkOK(c)'
      BY <2>1, <2>10, <3>1 DEF Cancel, AtWorkOK, CanaryTypeOK
    <3>3. calls' <= 1 /\ EvidenceIsReal' /\ NothingAhead'
      BY <2>1, <2>10 DEF Cancel, EvidenceIsReal, NothingAhead, OneCall, AtWorkOK, CanaryTypeOK
    <3>4. LogAgreesWithClaim'
      BY <2>1, <2>10 DEF Cancel, LogAgreesWithClaim, Outcome, AtWorkOK, CanaryTypeOK
    <3> QED BY <2>2, <3>1, <3>2, <3>3, <3>4, RequestStep
  <2> QED
    BY <1>4, <2>3, <2>4, <2>5, <2>6, <2>7, <2>8, <2>9, <2>10 DEF Continue
<1> QED BY <1>1, <1>2, <1>3, <1>4 DEF CanaryNext

(* The invariant of the canary. *)
THEOREM CanaryInvariance == CanarySpec => []CInv
BY CanaryStarts, CanaryStep, PTL DEF CanarySpec

(* Type correctness of the canary. *)
THEOREM CanaryTypeCorrect == CanarySpec => []CanaryTypeOK
<1>1. CInv => CanaryTypeOK
  BY DEF CInv
<1> QED BY <1>1, CanaryInvariance, PTL

(* However many requests there are, a process calls the provider once. *)
THEOREM NeverRetries == CanarySpec => []OneCall
<1>1. CInv => OneCall
  BY DEF CInv
<1> QED BY <1>1, CanaryInvariance, PTL

(* A receipt that verifies, and an answer, stand for an answered call. *)
THEOREM ReceiptsAreReal == CanarySpec => []EvidenceIsReal
<1>1. CInv => EvidenceIsReal
  BY DEF CInv
<1> QED BY <1>1, CanaryInvariance, PTL

(* The log tells the outcome of the claim, and nothing else. *)
THEOREM LogTellsTheClaim == CanarySpec => []LogAgreesWithClaim
<1>1. CInv => LogAgreesWithClaim
  BY DEF CInv
<1> QED BY <1>1, CanaryInvariance, PTL

=============================================================================
