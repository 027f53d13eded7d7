---------------------------- MODULE ChangedContent ----------------------------
(***************************************************************************)
(* What a brief of the registry watch is made from.  process() compares    *)
(* the segments of the captured page with the segment hashes of the prior  *)
(* snapshot, and hands the brief generator an excerpt of the new ones.  A  *)
(* hash of a segment is the segment: it is only ever compared.  A segment  *)
(* is named by its position in the page, for a page may repeat a sentence. *)
(***************************************************************************)
EXTENDS RegistryWatch, FiniteSets

CONSTANTS
    Sentence,       \* the sentences of public pages
    Text,           \* the page with an evidence hash: its sentences in order
    Short,          \* sentences of less than 24 characters
    MaxSegments,    \* segments of a page that are compared: 120
    MaxShown,       \* segments that make an excerpt: 12
    Size,           \* characters of a sentence as a segment
    MaxSize,        \* characters a segment is cut to: 800
    MaxText,        \* characters an excerpt is cut to: 6000
    StoreKind       \* VICE_CEO_REGISTRY_WATCH_STORE

ASSUME TextAssumption == Text \in [Evidence -> Seq(Sentence)]
ASSUME ExcerptAssumption == MaxSegments \in Nat /\ MaxShown \in Nat
ASSUME SizeAssumption ==
    /\ MaxSize \in Nat /\ MaxText \in Nat
    /\ Size \in [Sentence -> 0..MaxSize]
ASSUME StoreKindAssumption == StoreKind \in {"in_memory", "firestore"}

(* The first n of a set of positions, and the sentences at positions. *)
First(n, positions) ==
    {i \in positions : Cardinality({j \in positions : j <= i}) <= n}

At(evidence, positions) == {Text[evidence][i] : i \in positions}

Sentences(evidence) == At(evidence, DOMAIN Text[evidence])

(* _content_segments: the first sentences that are long enough. *)
ContentSegments(evidence) ==
    First(MaxSegments, {i \in DOMAIN Text[evidence] : Text[evidence][i] \notin Short})

SegmentHashes(evidence) == At(evidence, ContentSegments(evidence))

(* Faulty variant: the hashes are those of the snapshot just stored. *)
PriorHashesCurrent(w) == SegmentHashes(capture[w].page.evidence)

(* Faulty variant: no store restores the hashes. *)
PriorHashesLost(w) == {}

(* content_segment_hashes of the prior: the snapshot in memory has them,   *)
(* latest_snapshot of the Firestore store does not restore the field.      *)
PriorHashes(w) ==
    IF StoreKind = "in_memory" THEN SegmentHashes(prior[w].page.evidence) ELSE {}

(* _changed_content_segments: those the brief counts.  No segment makes an *)
(* excerpt that is a fixed sentence.                                       *)
ChangedSegments(w) ==
    LET page == capture[w].page.evidence
    IN  First(MaxShown, {i \in ContentSegments(page) : Text[page][i] \notin PriorHashes(w)})

(* The characters of segments on a line each, and whether they fit an      *)
(* excerpt: the last line has no break.                                    *)
Characters(evidence, positions) ==
    UNION {{i} \X (0..Size[Text[evidence][i]]) : i \in positions}

Fits(evidence, positions) ==
    Cardinality(Characters(evidence, positions)) <= MaxText + 1

(* _changed_content_excerpt: the changed segments that the cut leaves whole. *)
Excerpt(w) ==
    LET page == capture[w].page.evidence IN
    At(page, {i \in ChangedSegments(w) : Fits(page, {j \in ChangedSegments(w) : j <= i})})

-----------------------------------------------------------------------------
(* "Segment comparison that isolates newly observed public text"           *)
(* (docs/REGISTRY_CHANGE_WATCH.md:29): whatever the source served before   *)
(* and whichever content type it had, no segment that the brief shows or   *)
(* counts is on the prior page, as long as the whole of that was compared. *)
ExcerptIsolatesChange ==
    \A w \in Worker :
        /\ pc[w] = "brief"
        /\ Cardinality(DOMAIN Text[prior[w].page.evidence]) <= MaxSegments
        => At(capture[w].page.evidence, ChangedSegments(w))
              \cap Sentences(prior[w].page.evidence) = {}

(* A page that fits an excerpt is briefed in full: no segment the prior    *)
(* page did not have is missing from the excerpt, however handlers of the  *)
(* source overtook each other.                                             *)
ChangeIsShown ==
    \A w \in Worker :
        LET page == capture[w].page.evidence IN
        /\ pc[w] = "brief"
        /\ Cardinality(ContentSegments(page)) <= MaxShown
        /\ Fits(page, ContentSegments(page))
        => SegmentHashes(page) \ Sentences(prior[w].page.evidence) \subseteq Excerpt(w)

=============================================================================
