----------------------------- MODULE MCClaimStore -----------------------------
(* Small instances of ClaimStore for TLC. *)
EXTENDS ClaimStore, TLC

CONSTANTS c1, c2, c3, k1, k2, r1, r2

(* The registry watch claims k1 in Firestore, the others claim k2 in the   *)
(* memory of the process.                                                  *)
TwoStores == k1 :> "firestore" @@ k2 :> "in_memory"

(* Three threads for the watch, and one of them for the claims in memory. *)
OneThread == c1 :> {k1, k2} @@ c2 :> {k1} @@ c3 :> {k1}

(* Any thread for any key, as the synchronous endpoints do it. *)
AnyThread == [c \in Caller |-> Key]

=============================================================================
