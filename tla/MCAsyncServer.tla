---------------------------- MODULE MCAsyncServer ----------------------------
(***************************************************************************)
(* An instance of AsyncServer: with and without limits, fewer descriptors  *)
(* than connections, and a second call of event_loop.                      *)
(***************************************************************************)
EXTENDS AsyncServer

MCConfigs ==
  { [epoll_timeout |-> -1, max_accept |-> -1, after_accept |-> FALSE],
    [epoll_timeout |-> 0,  max_accept |-> 1,  after_accept |-> TRUE] }
==============================================================================
