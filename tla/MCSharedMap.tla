---------------------------- MODULE MCSharedMap -----------------------------
(***************************************************************************)
(* An instance of SharedMap: two maps that share an allocator, as the maps *)
(* of hw5_test do.                                                         *)
(***************************************************************************)
EXTENDS SharedMap, TLC

CONSTANTS p1, p2, m1, m2, a1, k1, v0, v1

Shared == m1 :> a1 @@ m2 :> a1
MCSize == (k1 :> 0) @@ (v0 :> 0) @@ (v1 :> 1)
\* All kinds of operations on m1, on m2 the one that allocates and frees most.
MCOffered ==
  {o \in Ops : \/ o.map = m1 /\ <<o.kind, o.value>> # <<"insert", v0>>
               \/ o.map = m2 /\ o.kind = "insert_or_assign" /\ o.value = v1}
=============================================================================
