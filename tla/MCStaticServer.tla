---------------------------- MODULE MCStaticServer ----------------------------
(***************************************************************************)
(* StaticServer on all short urls, request lines and headers, and on urls  *)
(* and queries that a client has encoded.                                  *)
(***************************************************************************)
EXTENDS StaticServer

UpTo(S, n) == UNION {[1..i -> S] : i \in 0..n}
End == <<NL, NL>>

UrlTexts ==
  {<<"GET", " ">> \o u \o <<" ", "HTTP", "/", "1.1">> \o End :
     u \in UpTo({"%", "2", "5", "&", "=", "?", "+"}, 5) \cup UpTo({"%", "0", "D", "a"}, 6)}
LineTexts == {l \o End : l \in UpTo({"GET", "PATCH", " ", "/", "0.9"}, 6)}
HeaderTexts ==
  {<<"POST", " ", "/", " ", "/", "1.0", NL>> \o h \o End :
     h \in UpTo({"A", "a", ":", " ", NL}, 5)}
FileTexts ==
  {<<m, " ", "/", "f">> \o q \o <<" ", "HTTP", "/", v>> \o End :
     m \in {"GET", "HEAD"}, q \in {<<>>, <<"?", "a", "=">>}, v \in {"0.9", "1.1"}}

Paths == {<<"/">> \o p : p \in UpTo({"a", "?", "%", "+", " "}, 2)}
Pairs == {<<k, v>> : k \in {<<"a">>, <<"=">>, <<"+", "a">>}, v \in UpTo({"a", "&", "=", "%"}, 1)}
MCIntents == {[path |-> p, params |-> q] : p \in Paths, q \in UpTo(Pairs, 1)}
               \cup {[path |-> <<"/">>, params |-> q] : q \in UpTo(Pairs, 2)}

Characters == Letters \cup {"a", "f", "PATCH"}
AllTexts ==
  (UrlTexts \cup LineTexts) \cup (HeaderTexts \cup FileTexts)
TheFile == <<"/", "f">>
===============================================================================
