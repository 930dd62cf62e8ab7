----------------------------- MODULE OrderedKeys -----------------------------
(***************************************************************************)
(* Keys in the order they were inserted or last used, each at most once:   *)
(* the order a collections.OrderedDict keeps, and a queue of waiting tasks.*)
(***************************************************************************)
EXTENDS SequencesExt

Without(q, k) ==
    IF k \in ToSet(q)
    THEN RemoveAt(q, CHOOSE i \in DOMAIN q : q[i] = k)
    ELSE q

\* OrderedDict.move_to_end, and an insertion
MoveToEnd(q, k) == Append(Without(q, k), k)

\* What is left once popitem(last=False) has run until at most n keys are left.
KeepNewest(q, n) ==
    IF Len(q) > n THEN SubSeq(q, Len(q) - n + 1, Len(q)) ELSE q
=============================================================================
