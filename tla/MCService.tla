------------------------------- MODULE MCService -------------------------------
(* A small instance of the runtime for TLC. *)
EXTENDS Service, TLC

CONSTANTS c1, c2, b1, b2, k1, k2

Body(lane, key) ==
    [lane |-> lane, key |-> key, approved |-> TRUE, sourced |-> TRUE,
     addressed |-> TRUE, suppressed |-> FALSE, written |-> TRUE]

(* A reply, a follow-up, the same follow-up to a contact who unsubscribed, *)
(* and one without a consent record.                                       *)
SomeBodies ==
    {Body("reply", k1), Body("outreach", k2),
     [Body("outreach", k2) EXCEPT !.suppressed = TRUE],
     [Body("outreach", k2) EXCEPT !.sourced = FALSE]}

Off == [public |-> FALSE, business |-> FALSE, email |-> "disabled", credentials |-> FALSE,
        canary |-> FALSE, mode |-> "fixture", sources |-> FALSE,
        brief |-> "deterministic", geminiEnabled |-> FALSE, owner |-> "disabled",
        ownerEnabled |-> FALSE, ownerSettings |-> FALSE, probe |-> FALSE]

On == [public |-> FALSE, business |-> TRUE, email |-> "resend", credentials |-> TRUE,
       canary |-> TRUE, mode |-> "configured", sources |-> TRUE,
       brief |-> "gemini", geminiEnabled |-> TRUE, owner |-> "resend",
       ownerEnabled |-> TRUE, ownerSettings |-> TRUE, probe |-> TRUE]

(* Nothing on, everything on, and everything on but one setting. *)
SomeDeployments ==
    {Off, On, [On EXCEPT !.public = TRUE], [On EXCEPT !.business = FALSE],
     [On EXCEPT !.email = "disabled"], [On EXCEPT !.credentials = FALSE],
     [On EXCEPT !.canary = FALSE], [On EXCEPT !.mode = "fixture"],
     [On EXCEPT !.sources = FALSE], [On EXCEPT !.geminiEnabled = FALSE],
     [On EXCEPT !.owner = "disabled"], [On EXCEPT !.ownerEnabled = FALSE],
     [On EXCEPT !.ownerSettings = FALSE], [On EXCEPT !.probe = FALSE]}

Private == {[On EXCEPT !.canary = FALSE, !.owner = "disabled"]}

RequestSymmetry == Permutations(Caller) \cup Permutations(Client)

=============================================================================
