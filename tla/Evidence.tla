-------------------------------- MODULE Evidence --------------------------------
(***************************************************************************)
(* What is read from the evidence of the support loop: the trust engine    *)
(* (src/app/trust_engine.py), the operational twin and the business time   *)
(* machine (src/app/business_time_machine.py).  All three are pure; they   *)
(* are evaluated on whatever evidence the loop has produced so far.        *)
(***************************************************************************)
EXTENDS SupportLoop, FiniteSets, Sequences

CONSTANT EventId                \* the event_id of an event: not a key

ASSUME EventIdAssumption == DOMAIN EventId = Event

(* Faulty variant: the action state of a receipt is not looked at. *)
VerifiedAnyState(r) == r \in Receipt

(* _is_verified_simulation: no receipt of the loop claims an effect. *)
Verified(r) == r.state = "simulated"

(* assess_synthetic_trust of a sequence of receipts of the one fixture     *)
(* tenant.  It counts entries: a receipt presented twice counts twice.     *)
TrustState(evidence) ==
    LET verified == {i \in DOMAIN evidence : Verified(evidence[i])} IN
    IF verified # DOMAIN evidence THEN "suspended"
    ELSE IF Cardinality(verified) >= 3 THEN "earned_for_synthetic_simulation"
    ELSE IF verified # {} THEN "observing_synthetic_evidence"
    ELSE "unproven"

(* The run_id hashes the content of the event, and so does the source      *)
(* reference: both are the event.  A twin is computed for any run_id.      *)
Handoff(e) == [run |-> e, id |-> EventId[e], source |-> e]

Twin(run, e) == [run |-> run, id |-> EventId[e], source |-> e]

(* Faulty variant: the source references are not compared. *)
LinkedById(e, r, h, twin) ==
    /\ r.event = h.run /\ r.event = twin.run
    /\ EventId[e] = EventId[r.event] /\ EventId[e] = h.id /\ EventId[e] = twin.id

(* The evidence that replay_synthetic_evidence accepts; fixture and tenant *)
(* are those of the one registered case.                                   *)
Linked(e, r, h, twin) ==
    /\ r.event = h.run /\ r.event = twin.run
    /\ EventId[e] = EventId[r.event] /\ EventId[e] = h.id /\ EventId[e] = twin.id
    /\ e = r.event /\ e = h.source /\ e = twin.source

(* The action_warrant and outcome_receipt entries of the timeline. *)
Timeline(r) == [warrant |-> IF r.warrant = NoWarrant THEN "not_issued" ELSE "consumed",
                outcome |-> r.state]

-----------------------------------------------------------------------------
(* Earned trust rests on work, however the receipts are picked: every      *)
(* entry of the evidence stands for a run of the tool on the warrant it    *)
(* names, and where no receipt is presented twice, for three events that   *)
(* each had a run of their own.                                            *)
EarnedByWork ==
    \A evidence \in UNION {[1..n -> receipts] : n \in 0..3} :
        TrustState(evidence) = "earned_for_synthetic_simulation" =>
            /\ \A i \in DOMAIN evidence :
                  /\ evidence[i].warrant # NoWarrant
                  /\ executed[evidence[i].warrant] = 1
            /\ (\A i, j \in DOMAIN evidence : evidence[i] = evidence[j] => i = j) =>
                  Cardinality({evidence[i].event : i \in DOMAIN evidence}) = 3

(* A timeline is accepted for evidence of one event only, even where events *)
(* share their event_id and the twin names the run of either, and tells    *)
(* what happened to it: a simulated outcome was reached on a warrant that  *)
(* is consumed, and an event shown as not_issued has no warrant.           *)
TimelineSound ==
    \A e, x, y, z \in KnownCase, r \in receipts :
        Linked(e, r, Handoff(x), Twin(y, z)) =>
            /\ {r.event, x, y, z} = {e}
            /\ Timeline(r).outcome = "simulated" =>
                  /\ Timeline(r).warrant = "consumed"
                  /\ r.warrant \in consumed /\ executed[r.warrant] = 1
            /\ Timeline(r).warrant = "not_issued" =>
                  \A w \in warrants : w.event # e

=============================================================================
