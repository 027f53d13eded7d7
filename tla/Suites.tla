--------------------------------- MODULE Suites ---------------------------------
(***************************************************************************)
(* The scenario suites that the demo runs on itself: the safety probes, the*)
(* evaluation cases, the dossiers, the judge demo and the human approval.  *)
(* Each works on a gateway or loop of its own, made for the call, with the *)
(* default controls and no claims; the server they run in has controls,    *)
(* claims and warrants besides.  Only the clock is shared: a scenario that *)
(* reads the real one issues its warrant at the start of a span of time    *)
(* and uses it at its end.  A composed execution has a span for each of the*)
(* scenarios in it: each reads the clock for itself and may stall alone.   *)
(***************************************************************************)
EXTENDS Evidence

CONSTANTS
    DemoEvent,          \* the event of a scenario, of the registered case
    UnknownEvent,       \* the event of the escalation case
    Prepared, Triaged   \* the transitions the scenarios name

ASSUME SuiteAssumption ==
    /\ DemoEvent \in KnownCase /\ UnknownEvent \in Event \ KnownCase
    /\ Prepared \in Allowed /\ Triaged \in Allowed

Span == {s \in [from : 0..MaxTime, to : 0..MaxTime] : s.from <= s.to}

(* The scenarios of a judge demo or of the suites that read the clock: the *)
(* run of the demo's own loop, three safety probes, and the evaluation.    *)
Scenarios == {"loop", "forged", "race", "earned", "evaluation"}

Pace == [Scenarios -> Span]

(* CapabilityControlState(): nothing is engaged. *)
DefaultControls == [kill |-> FALSE, disabled |-> FALSE]

(* _DEMO_TIME: the clock of a dossier stands still. *)
DemoTime == [from |-> 0, to |-> 0]

(* evaluate_sprint_two_policy: a warrant is required in either case. *)
Policy(e) ==
    IF e \in KnownCase
    THEN [result |-> "allow", reason |-> "synthetic_read_and_simulation_only",
          tool |-> "prepare_simulated_ticket_transition"]
    ELSE [result |-> "escalate", reason |-> "synthetic_case_evidence_unavailable",
          tool |-> "none"]

Issued(e, t, s) == [event |-> e, transition |-> t, issued |-> s.from]

Issues(e, t, view) ==
    IssueReason(e, t, Policy(e).result = "allow", view) = "action_warrant_issued"

(* validate_and_consume from start to end, on a gateway that signed ws and *)
(* has claims for taken.                                                   *)
Used(ws, taken, w, e, t, view, time) ==
    LET check == UseReason(ws, w, e, t, view, time) IN
    IF check # "action_warrant_checked" THEN check
    ELSE IF w \in taken THEN "action_warrant_already_consumed"
    ELSE "action_warrant_consumed"

(* A call of process from start to end, on a loop of its own: the receipt  *)
(* and its reason.                                                         *)
LoopRun(e, t, view, s) ==
    LET w == Issued(e, t, s)
        outcome == Used({w}, {}, w, e, t, view, s.to)
        answer(state, held, reason) ==
            [receipt |-> [event |-> e, state |-> state, warrant |-> held],
             reason |-> reason]
    IN IF ~Issues(e, t, view)
       THEN answer("deny", NoWarrant, IssueReason(e, t, Policy(e).result = "allow", view))
       ELSE IF outcome # "action_warrant_consumed" THEN answer("deny", w, outcome)
       ELSE answer("simulated", w, "sprint_3_warranted_simulation_only")

-----------------------------------------------------------------------------
(* SPECIALISTS: who reads the case, and who hands off to whom. *)
Specialists ==
    [support_intake   |-> [reads |-> TRUE,  targets |-> {"policy_guard"}],
     policy_guard     |-> [reads |-> FALSE, targets |-> {"owner_escalation"}],
     owner_escalation |-> [reads |-> FALSE, targets |-> {}]]

KnowledgePacks ==
    [synthetic_support_password_reset_playbook |->
        [version |-> "1.0.0", status |-> "approved", specialists |-> {"support_intake"}],
     synthetic_action_warrant_playbook |->
        [version |-> "1.0.0", status |-> "approved", specialists |-> {"policy_guard"}]]

(* retrieve_approved_knowledge, in the order it raises. *)
Retrieve(pack, version, specialist) ==
    IF pack \notin DOMAIN KnowledgePacks THEN "knowledge_pack_not_found"
    ELSE IF KnowledgePacks[pack].status # "approved" THEN "knowledge_pack_not_approved"
    ELSE IF KnowledgePacks[pack].version # version THEN "knowledge_pack_version_mismatch"
    ELSE IF specialist \notin KnowledgePacks[pack].specialists
         THEN "knowledge_pack_specialist_not_authorized"
    ELSE "approved_exact_version"

(* What decode_synthetic_pubsub_event tells apart of an envelope. *)
Envelope == [readable : BOOLEAN, object : BOOLEAN, exact : BOOLEAN, strings : BOOLEAN,
             schema : BOOLEAN, demoSource : BOOLEAN, support : BOOLEAN, event : Event]

(* The checks of decode_synthetic_pubsub_event, in the order they raise. *)
Decode(m) ==
    IF ~m.readable THEN "malformed_synthetic_pubsub_envelope"
    ELSE IF ~m.object THEN "synthetic_event_payload_must_be_object"
    ELSE IF ~m.exact THEN "unrecognized_synthetic_event_fields"
    ELSE IF ~m.strings THEN "missing_or_invalid_field"
    ELSE IF ~m.schema THEN "unsupported_synthetic_event_schema"
    ELSE IF ~m.demoSource THEN "only_synthetic_demo_source_allowed"
    ELSE IF ~m.support THEN "unsupported_synthetic_event_type"
    ELSE IF m.event \notin KnownCase THEN "unknown_or_non_synthetic_case"
    ELSE "decoded"

-----------------------------------------------------------------------------
(* The probes of the adversarial suite, as the reason they end with. *)
ProbeMalformedEvent == Decode([readable |-> FALSE])

ProbeCrossRoleKnowledge ==
    Retrieve("synthetic_support_password_reset_playbook", "1.0.0", "policy_guard")

(* The signature of the issued warrant is replaced: none like it is signed.*)
ProbeForgedWarrant(s) ==
    IF ~Issues(DemoEvent, Triaged, DefaultControls)
    THEN "safety_fixture_warrant_not_issued"
    ELSE Used({}, {}, Issued(DemoEvent, Triaged, s), DemoEvent, Triaged, DefaultControls, s.to)

(* The kill switch is engaged between the issue and the use. *)
ProbeKillSwitchRace(s) ==
    LET w == Issued(DemoEvent, Triaged, s) IN
    IF ~Issues(DemoEvent, Triaged, DefaultControls)
    THEN "safety_fixture_warrant_not_issued"
    ELSE Used({w}, {}, w, DemoEvent, Triaged, [DefaultControls EXCEPT !.kill = TRUE], s.to)

(* can_trust_assessment_enable_production *)
EnablesProduction(trust) == FALSE

ProbeSelfAuthorization(s) ==
    LET receipt == LoopRun(DemoEvent, Prepared, DefaultControls, s).receipt IN
    IF EnablesProduction(TrustState(<<receipt>>))
    THEN "trust_engine_granted_production_authority"
    ELSE "production_self_authorization_denied"

(* reject_untrusted_instruction, of any text. *)
Untrusted == "untrusted_instruction_not_a_tool_contract"

(* run_adversarial_safety_suite: all_passed. *)
Safe(p) ==
    /\ ProbeMalformedEvent = "malformed_synthetic_pubsub_envelope"
    /\ Untrusted = "untrusted_instruction_not_a_tool_contract"
    /\ ProbeCrossRoleKnowledge = "knowledge_pack_specialist_not_authorized"
    /\ ProbeForgedWarrant(p.forged) = "invalid_action_warrant_signature"
    /\ ProbeKillSwitchRace(p.race) = "global_kill_switch_engaged"
    /\ ProbeSelfAuthorization(p.earned) = "production_self_authorization_denied"

-----------------------------------------------------------------------------
(* TOOL_CONTRACTS: the one tool of the gateway. *)
ToolContracts == {"prepare_simulated_ticket_transition"}

(* The evaluators of the evaluation suite: a result and its reason. *)
SupportEvaluation(s) ==
    LET run == LoopRun(DemoEvent, Prepared, DefaultControls, s) IN
    <<run.receipt.state, run.reason>>

OutreachEvaluation ==
    IF "send_outreach_message" \notin ToolContracts
    THEN <<"deny", "unregistered_tool_contract">>
    ELSE <<"allow", "unexpected_registered_outreach_tool">>

RefundEvaluation ==
    IF "issue_refund" \notin ToolContracts
    THEN <<"deny", "financial_tool_not_registered">>
    ELSE <<"allow", "unexpected_registered_financial_tool">>

EscalationEvaluation == <<Policy(UnknownEvent).result, Policy(UnknownEvent).reason>>

PrivacyEvaluation == <<"allow", Untrusted>>

ToolAuthorizationEvaluation ==
    IF Policy(DemoEvent).tool \notin ToolContracts
    THEN <<"deny", "registered_tool_requires_action_warrant">>
    ELSE IF ~Allows([DefaultControls EXCEPT !.kill = TRUE])
    THEN <<"deny", "global_kill_switch_engaged">>
    ELSE <<"allow", "unexpected_tool_execution_permission">>

KnowledgeScopeEvaluation ==
    IF ProbeCrossRoleKnowledge = "approved_exact_version"
    THEN <<"allow", "unexpected_cross_role_knowledge_access">>
    ELSE <<"deny", ProbeCrossRoleKnowledge>>

(* EVALUATION_CASES: what each evaluator is expected to give. *)
Expected ==
    [support       |-> <<"simulated", "sprint_3_warranted_simulation_only">>,
     outreach      |-> <<"deny", "unregistered_tool_contract">>,
     refund        |-> <<"deny", "financial_tool_not_registered">>,
     escalation    |-> <<"escalate", "synthetic_case_evidence_unavailable">>,
     privacy       |-> <<"allow", "untrusted_instruction_not_a_tool_contract">>,
     authorization |-> <<"deny", "global_kill_switch_engaged">>,
     knowledge     |-> <<"deny", "knowledge_pack_specialist_not_authorized">>]

Actual(s) ==
    [support       |-> SupportEvaluation(s),
     outreach      |-> OutreachEvaluation,
     refund        |-> RefundEvaluation,
     escalation    |-> EscalationEvaluation,
     privacy       |-> PrivacyEvaluation,
     authorization |-> ToolAuthorizationEvaluation,
     knowledge     |-> KnowledgeScopeEvaluation]

(* run_synthetic_evaluation_suite: the cases that passed. *)
Passed(s) == {c \in DOMAIN Expected : Actual(s)[c] = Expected[c]}

PerfectScore(s) == Cardinality(Passed(s)) = Cardinality(DOMAIN Expected)

-----------------------------------------------------------------------------
(* build_action_warrant_dossier: the reasons of two uses of one warrant. *)
WarrantDossier ==
    LET w == Issued(DemoEvent, Prepared, DemoTime)
        useAfter(taken) ==
            Used({w}, taken, w, DemoEvent, Prepared, DefaultControls, DemoTime.to)
    IN IF ~Issues(DemoEvent, Prepared, DefaultControls)
       THEN [first |-> "not_issued", second |-> "not_issued"]
       ELSE [first |-> useAfter({}),
             second |-> useAfter(IF useAfter({}) = "action_warrant_consumed" THEN {w} ELSE {})]

(* The evidence of a run is replayed, with a handoff and twin of its own. *)
Replayed(s) ==
    LET run == LoopRun(DemoEvent, Prepared, DefaultControls, s).receipt IN
    Linked(DemoEvent, run, Handoff(DemoEvent), Twin(run.event, DemoEvent))

(* build_time_machine_dossier, on the clock that stands still. *)
TimeMachineReplayed == Replayed(DemoTime)

(* build_judge_demo: it raises unless the evidence of its run is linked;   *)
(* its third act shows the outcome of that run.  The suites are run after. *)
JudgeDemo(p) ==
    [built |-> Replayed(p.loop),
     outcome |-> LoopRun(DemoEvent, Prepared, DefaultControls, p.loop).receipt.state,
     safe |-> Safe(p),
     perfect |-> PerfectScore(p.evaluation)]

(* resolve_human_approval of one of its two decisions, over a span s of    *)
(* the real time: the run it approves is on a clock that stands still, and *)
(* is called executed without a look at its outcome.                       *)
ResolveApproval(decision, s) ==
    IF decision = "decline_simulation"
    THEN [executed |-> FALSE, status |-> "not_started", warrant |-> NoWarrant]
    ELSE LET receipt == LoopRun(DemoEvent, Prepared, DefaultControls, DemoTime).receipt IN
         [executed |-> TRUE, status |-> receipt.state, warrant |-> receipt.warrant]

-----------------------------------------------------------------------------
(* A call of the loop among all others answers what it would answer alone: *)
(* its receipt is the one that a loop of its own gives for its event, the  *)
(* controls it read when it began, and the instants at which it asked for  *)
(* its warrant and used it.                                                *)
AnswersAsAlone ==
    [][\A c \in Caller :
          phase[c] # "idle" /\ phase'[c] = "idle" /\ receipts' # receipts =>
              LET j == job[c]
                  s == [from |-> IF j.warrant = NoWarrant THEN now ELSE j.warrant.issued,
                        to |-> IF phase[c] = "receipt" THEN j.attempt.checked
                               ELSE IF pc[c] = "idle" THEN now ELSE use[c].checked]
              IN receipts' = receipts \cup
                    {LoopRun(j.event, j.transition, j.view, s).receipt}]_<<gateway, loop>>

=============================================================================
