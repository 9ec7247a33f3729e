---------------------------- MODULE MCGlobalLogger ----------------------------
(***************************************************************************)
(* GlobalLogger on a small instance: the first logger and a Safe one write *)
(* to std::cout, the third is a Safe logger with a file of its own.        *)
(***************************************************************************)
EXTENDS GlobalLogger, TLC

CONSTANTS t1, t2, l1, l2, l3, cout, file

TwoThreads   == {t1, t2}
ThreeLoggers == {l1, l2, l3}
SafeOnes     == {l2, l3}
TwoStreams   == {cout, file}
Sinks        == l1 :> cout @@ l2 :> cout @@ l3 :> file
===============================================================================
