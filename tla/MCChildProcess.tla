--------------------------- MODULE MCChildProcess ---------------------------
(***************************************************************************)
(* Instances of ChildProcess: two objects and two children, one of which   *)
(* ignores SIGTERM.                                                        *)
(***************************************************************************)
EXTENDS ChildProcess

MCMessage == <<1, 2>>
=============================================================================
