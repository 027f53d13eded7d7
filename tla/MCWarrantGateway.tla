--------------------------- MODULE MCWarrantGateway ---------------------------
(* A small instance of WarrantGateway for TLC. *)
EXTENDS WarrantGateway, TLC

CONSTANTS c1, c2, ev1, ev2

CallerSymmetry == Permutations(Caller)

=============================================================================
