------------------------- MODULE RegistryWatchLedger -------------------------
(* The registry watch keeps the event ledger: the refinement mapping. *)
EXTENDS RegistryWatch

(* An event is accepted with its claim document, briefed with every mail,  *)
(* and closed with its run document.                                       *)
Ledger == INSTANCE EventLedger WITH
    NoOutcome <- NoRun,
    accepted  <- claims,
    briefs    <- [e \in Event |-> Len(mailbox[e])],
    outcome   <- [e \in Event |-> IF runs[e] = NoRun THEN NoRun
                                  ELSE runs[e].status]

(* Every behaviour of the watch, whatever fails, crashes or is delivered   *)
(* again, is a behaviour of the ledger: process() keeps its promises.      *)
KeepsLedger == Ledger!Spec

=============================================================================
