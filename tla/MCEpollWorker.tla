---------------------------- MODULE MCEpollWorker ----------------------------
(***************************************************************************)
(* EpollWorker on small instances.  One map node per descriptor and thread *)
(* is enough: a routine is created for a descriptor and the free list is   *)
(* used before storage is.                                                 *)
(***************************************************************************)
EXTENDS EpollWorker, TLC

CONSTANTS w1, w2, c1, c2, c3

OneWorker  == {w1}
TwoWorkers == {w1, w2}
TwoConns   == {c1, c2}
ThreeConns == {c1, c2, c3}
TwoNodes   == {1, 2}
ThreeNodes == {1, 2, 3}

SmallFds == {4, 5}

\* A program may have closed its standard input: a client then gets the number that
\* is also the id of the main routine.
FdsWithZero == {0, 4, 5}

\* The default, no limit, and one that ends.
BothTimeouts == {-1, 0}
Limited      == {0}

\* accept fails at any time, not only with EMFILE.
Failures == {"epoll_add", "epoll_pwait", "accept", "uncaught"}
NoFailures == {}

Interchangeable == Permutations(Workers) \cup Permutations(Conns)
==============================================================================
