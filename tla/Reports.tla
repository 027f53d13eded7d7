-------------------------------- MODULE Reports --------------------------------
(***************************************************************************)
(* The reports that rest on the scenario suites, up to the release gates:  *)
(* demo verification, proof bundle, proof verification, authority audit,   *)
(* deployment preflight and release readiness.  A report runs the suites   *)
(* anew wherever it needs them, so one report rests on many executions,    *)
(* each at its own pace: execution k of a report is the one at pace[k].    *)
(***************************************************************************)
EXTENDS Suites

(* The fleet as the audit sees it: the agents in the order of the audit,   *)
(* the tools of every agent, the children of the router, the protocol with *)
(* its handoffs, and the registered tool contracts with their effect.      *)
Intake == "support_intake"

Guard == "policy_guard"

Escalation == "owner_escalation"

Router == "vice_ceo_router_demo"

Chain == <<Intake, Guard, Escalation>>

Read == "read_synthetic_case"

Simulate == "prepare_simulated_ticket_transition"

Contract == [name : {Simulate, "send_mail"}, effect : {"simulation_only", "external"},
             warranted : BOOLEAN]

DeployedFleet ==
    [names |-> Chain,
     tools |-> [a \in {Intake, Guard, Escalation, Router} |->
                   IF a = Intake THEN {Read} ELSE {}],
     children |-> Chain,
     handoff |-> [a \in DOMAIN Specialists |-> Specialists[a].targets],
     contracts |-> {[name |-> Simulate, effect |-> "simulation_only", warranted |-> TRUE]}]

(* build_agent_topology_manifest: what it says of every specialist, which  *)
(* it takes from the protocol, and its two constants.                      *)
Topology(f) ==
    [node |-> [a \in DOMAIN f.handoff |->
                  [reads |-> Specialists[a].reads, targets |-> f.handoff[a],
                   authority |-> "none"]],
     gatewayOutside |-> TRUE,
     businessTools |-> 0]

(* build_capability_boundary_manifest, the part that others read. *)
Capabilities == [externalActions |-> FALSE, productionAuthority |-> FALSE]

(* build_agent_authority_audit: its findings. *)
AuthorityAudit(f) ==
    [protocol_agents_match_adk_definitions |-> f.names = Chain,
     synthetic_read_tool_is_singleton |->
        \A a \in {Intake, Guard, Escalation} :
            f.tools[a] = IF a = Intake THEN {Read} ELSE {},
     router_has_no_direct_tools |-> f.tools[Router] = {} /\ f.children = Chain,
     topology_matches_closed_protocol |->
        \A a \in DOMAIN f.handoff :
            Topology(f).node[a] = [reads |-> Specialists[a].reads,
                                   targets |-> f.handoff[a], authority |-> "none"],
     handoff_chain_is_closed |->
        /\ f.handoff[Intake] = {Guard} /\ f.handoff[Guard] = {Escalation}
        /\ f.handoff[Escalation] = {},
     gateway_is_outside_agent_fleet |->
        Topology(f).gatewayOutside /\ Topology(f).businessTools = 0,
     registered_tool_is_warranted_simulation_only |->
        /\ Cardinality(f.contracts) = 1
        /\ \A t \in f.contracts :
              t.name = Simulate /\ t.effect = "simulation_only" /\ t.warranted
        /\ ~Capabilities.externalActions /\ ~Capabilities.productionAuthority]

BoundariesVerified(f) == \A x \in DOMAIN AuthorityAudit(f) : AuthorityAudit(f)[x]

-----------------------------------------------------------------------------
(* resolve_gemini_model_config: any other model raises at import. *)
ModelConfiguration == [satisfied |-> TRUE, providerCalled |-> FALSE, deployed |-> FALSE]

(* build_synthetic_fixture_manifest: the registered cases. *)
FixtureCount == 1

(* Faulty variant: the suites are not run again, the demo ran them. *)
DemoVerifiedOnDemo(pace, k) ==
    LET demo == JudgeDemo(pace[k]) IN demo.built /\ demo.safe /\ demo.perfect

(* build_demo_verification_report: all_verified, of the judge demo at      *)
(* pace[k] and of the suites once more at pace[k + 1].  It looks at the    *)
(* suites of the demo, and not at the outcome of the demo's own run.       *)
DemoVerified(pace, k) ==
    LET demo == JudgeDemo(pace[k])
        suites == pace[k + 1]
    IN /\ demo.built /\ Safe(suites) /\ PerfectScore(suites.evaluation)
       /\ demo.safe /\ demo.perfect

(* build_proof_bundle: all_local_proof_checks_passed, of a judge demo and a*)
(* demo verification.                                                      *)
BundlePassed(pace, k) ==
    /\ JudgeDemo(pace[k]).built
    /\ DemoVerified(pace, k + 1)
    /\ ~Capabilities.externalActions /\ ~Capabilities.productionAuthority
    /\ FixtureCount > 0
    /\ WarrantDossier.first = "action_warrant_consumed"
    /\ WarrantDossier.second = "action_warrant_already_consumed"
    /\ TimeMachineReplayed
    /\ Topology(DeployedFleet).businessTools = 0
    /\ Topology(DeployedFleet).gatewayOutside
    /\ ModelConfiguration.satisfied /\ ~ModelConfiguration.providerCalled

(* build_proof_verification_report: all_checks_passed, of a bundle, a judge*)
(* demo and a demo verification of its own.  The link checks compare ids   *)
(* that hash constants, and hashes of the same files.                      *)
ProofVerified(pace, k) ==
    /\ JudgeDemo(pace[k + 3]).built
    /\ BundlePassed(pace, k) /\ DemoVerified(pace, k + 4)
    /\ ModelConfiguration.satisfied /\ ~ModelConfiguration.providerCalled
    /\ ~ModelConfiguration.deployed
    /\ ~Capabilities.externalActions /\ ~Capabilities.productionAuthority

(* build_cloud_run_preflight_report: all_local_preflight_checks_passed, of *)
(* files, the Dockerfile, manifest and script of the source, that are in   *)
(* order, a demo verification, a proof verification and the audit.         *)
PreflightPassed(pace, k, files, f) ==
    /\ files
    /\ ModelConfiguration.satisfied
    /\ DemoVerified(pace, k) /\ ProofVerified(pace, k + 2)
    /\ BoundariesVerified(f)
    /\ ~Capabilities.externalActions /\ ~Capabilities.productionAuthority

(* assess_release_readiness: the statuses of its gates. *)
Readiness(pace, files, f) ==
    LET ready == DemoVerified(pace, 1)
        preflight == PreflightPassed(pace, 3, files, f)
    IN [local_verification |-> IF ready THEN "passed" ELSE "blocked",
        gemini_3_5_model_configuration |->
            IF ModelConfiguration.satisfied THEN "passed" ELSE "blocked",
        source_commit |-> IF ready THEN "ready_for_user_commit" ELSE "blocked",
        cloud_run_preflight |-> IF preflight THEN "passed" ELSE "blocked",
        cloud_run_deployment |-> "not_started",
        provider_connectivity |-> "not_applicable_to_synthetic_runtime",
        production_authority |-> "blocked_by_design"]

-----------------------------------------------------------------------------
(* The bounded inputs: fleets that deviate from the deployed one in one    *)
(* respect.                                                                *)
Fleets ==
    {[DeployedFleet EXCEPT !.tools = t] :
        t \in [DOMAIN DeployedFleet.tools -> SUBSET {Read, Simulate}]}
    \cup {[DeployedFleet EXCEPT !.handoff = h] :
        h \in [DOMAIN Specialists -> SUBSET DOMAIN Specialists]}
    \cup {[DeployedFleet EXCEPT !.children = s] :
        s \in {<<Intake, Guard>>, <<Guard, Intake, Escalation>>}}
    \cup {[DeployedFleet EXCEPT !.names = s] : s \in {<<Intake, Guard>>, <<Guard, Intake>>}}
    \cup {[DeployedFleet EXCEPT !.contracts = t] : t \in SUBSET Contract}

(* The agents within reach of a: by handoffs, of which there are three.    *)
Reach(f, a) ==
    LET next(S) == S \cup UNION {f.handoff[b] : b \in S}
    IN next(next(f.handoff[a]))

(* A scenario in time uses its warrant before it expires. *)
InTime(s) == s.to < s.from + TTL

(* An audit that passes every finding leaves no way to authority: no agent *)
(* the router reaches has a tool but the reading of the case, only intake  *)
(* has that one, no handoffs lead back, and no contract has an effect.     *)
AuditIsSound ==
    \A f \in Fleets : BoundariesVerified(f) =>
        /\ \A a \in DOMAIN f.tools : f.tools[a] \subseteq IF a = Intake THEN {Read} ELSE {}
        /\ \A a \in DOMAIN f.handoff : a \notin Reach(f, a)
        /\ \A i \in DOMAIN f.children : f.children[i] \in DOMAIN f.handoff
        /\ \A t \in f.contracts : t.effect = "simulation_only" /\ t.warranted

(* An approval that says executed tells of a simulation on a warrant, at   *)
(* whatever pace the server runs, and a decline tells of none.             *)
ApprovalIsTrue ==
    \A decision \in {"approve_simulation", "decline_simulation"}, s \in Span :
        LET resolution == ResolveApproval(decision, s) IN
        /\ resolution.executed <=> decision = "approve_simulation"
        /\ resolution.executed <=> resolution.status = "simulated"
        /\ resolution.executed <=> resolution.warrant # NoWarrant

=============================================================================
