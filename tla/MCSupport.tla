------------------------------- MODULE MCSupport -------------------------------
(* A small instance of a server: the support loop, its evidence, and the    *)
(* reports that are made beside it.                                        *)
EXTENDS ReleaseReport, TLC

CONSTANTS c1, c2, ev1, ev2, ev3, ghost, id1, id2

(* Two events with one event_id and different content. *)
SharedId == [e \in Event |-> IF e \in {ev1, ev2} THEN id1 ELSE id2]

(* A report is explored while the loop has no call and no kill switch is   *)
(* engaged: the two share the clock and nothing else.                      *)
Apart ==
    \/ turn = 0 /\ published = NoReport
    \/ claimed = {} /\ controls = DefaultControls

CallerSymmetry == Permutations(Caller)

=============================================================================
