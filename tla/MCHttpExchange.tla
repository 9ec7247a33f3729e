--------------------------- MODULE MCHttpExchange ---------------------------
(***************************************************************************)
(* Instances of HttpExchange.  The heads put the end of the headers at the *)
(* start of the search window, across reads, and after partial matches.    *)
(***************************************************************************)
EXTENDS HttpExchange

End4    == <<CR, LF, CR, LF>>
Plain   == <<Other>> \o End4
Headers == <<Other, CR, LF, CR, Other, CR>> \o End4

MCRequests ==
  { [head |-> End4,   body |-> << >>,           length |-> 0],
    [head |-> Headers, body |-> << >>,           length |-> 0],
    [head |-> Plain,   body |-> <<Other, CR>>,    length |-> 2],
    [head |-> Plain,   body |-> End4 \o <<Other>>, length |-> 3],
    [head |-> Plain,   body |-> <<Other>>,         length |-> 2] }

\* Without a file, with one, with one that is cut or grows while it is sent.
MCResponses ==
  { [size |-> 1, file |-> 0, actual |-> 0],
    [size |-> 4, file |-> 0, actual |-> 0],
    [size |-> 2, file |-> 5, actual |-> 5],
    [size |-> 2, file |-> 3, actual |-> 2],
    [size |-> 2, file |-> 3, actual |-> 5] }
=============================================================================
