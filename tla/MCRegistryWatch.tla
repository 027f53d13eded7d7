--------------------------- MODULE MCRegistryWatch ---------------------------
(* Small instances of RegistryWatch for TLC. *)
EXTENDS RegistryWatchLedger, ChangedContent, TLC

CONSTANTS w1, w2, e1, e2, e3, e4, bad, s1, s2, A, B, C, html, text, title, rule, ended, added, also

OneSource == [e \in Event |-> IF e = bad THEN "unregistered_source" ELSE s1]

(* A source may go back to a page it served before. *)
AnyRevision == {r \in Page \X Page : r[1] # r[2]}

(* Every revision is content the source never served before. *)
Rank == A :> 1 @@ B :> 2 @@ C :> 3
NewRevision == {r \in Page \X Page : Rank[r[1].evidence] < Rank[r[2].evidence]}

(* Pages with a short title, a rule they share, and one of their own; C    *)
(* has more new segments than an excerpt shows.                            *)
Pages == A :> <<title, rule, ended>> @@ B :> <<title, added, rule>>
         @@ C :> <<title, rule, added, also>>

(* B fits an excerpt; the two segments of A are too long for one. *)
Sizes == [s \in Sentence |-> IF s = ended THEN 2 ELSE 1]

ServedPages == [e \in Evidence |-> Pages[e]]

WorkerSymmetry == Permutations(Worker)

=============================================================================
