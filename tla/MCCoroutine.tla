----------------------------- MODULE MCCoroutine -----------------------------
(***************************************************************************)
(* Coroutine on a small instance.  As many nodes as ids are enough: a node *)
(* is allocated only when the free list is empty, for an id not in the map.*)
(***************************************************************************)
EXTENDS Coroutine, TLC, FiniteSets

CONSTANTS f1, k1, t1, n1, n2, n3

MCIds        == 0..2
MCNodes      == {n1, n2, n3}
MCFunctions  == {f1}
MCExceptions == {k1, t1}
MCSizes      == -1..1

MCSymmetry == Permutations(MCNodes) \cup Permutations(MCExceptions)

ASSUME EnoughNodes == Cardinality(MCNodes) >= Cardinality(MCIds)
==============================================================================
