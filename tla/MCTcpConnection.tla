---------------------------- MODULE MCTcpConnection ----------------------------
(***************************************************************************)
(* TcpConnection with an asynchronous client and a synchronous object that *)
(* accepts it or connects itself.                                          *)
(***************************************************************************)
EXTENDS TcpConnection

CONSTANTS client, other

TwoObjects == {client, other}
Clients == {client}
ThreeSockets == 3..5
===============================================================================
