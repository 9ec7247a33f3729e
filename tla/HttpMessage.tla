------------------------------ MODULE HttpMessage ------------------------------
(***************************************************************************)
(* tinyhttp: what the classes HttpRequestLine, HttpQueryParameters,        *)
(* HttpHeaders and HttpRequest read from a text and print again, and what  *)
(* HttpResponse starts with.  Pure operators: the state is in StaticServer.*)
(*                                                                         *)
(* A text is a sequence of characters.  NL stands for a CR that a LF       *)
(* follows, wherever the two come from; "other" is any character without a *)
(* meaning; a method, a version and "HTTP" are one character each; urls are*)
(* spelt out, because decoding counts their characters.  Every parsing     *)
(* error is an exception that nothing in event_loop catches: they are told *)
(* from the texts that parse by the predicates Is....                      *)
(***************************************************************************)
EXTENDS Integers, Sequences, SequencesExt, FiniteSetsExt

CONSTANT Character  (* what texts are made of *)

NL == "NL"

Methods == {"GET", "HEAD", "POST", "PUT", "DELETE", "CONNECT", "OPTIONS", "TRACE"}
Versions == {"0.9", "1.0", "1.1"}

\* http_response_status; the table of texts has an entry for each.
Statuses ==
  100..103 \cup 200..208 \cup {226} \cup (300..308 \ {306}) \cup 400..418
    \cup (421..431 \ {427, 430}) \cup {451} \cup (500..511 \ {509})
StatusesWithText == Statuses

(***************************************************************************)
(* std::string_view                                                        *)
(***************************************************************************)
\* find: 0 is npos.
Find(s, c) == SelectInSeq(s, LAMBDA x : x = c)
From(s, i) == SubSeq(s, i, Len(s))
Until(s, i) == SubSeq(s, 1, i - 1)

\* The parts between the separators c.
Split(s, c) ==
  LET split[r \in Seq(Character)] ==
        LET i == Find(r, c)
        IN  IF i = 0 THEN <<r>> ELSE <<Until(r, i)>> \o split[From(r, i + 1)]
  IN  split[s]

\* unordered_map::emplace of each pair in turn: the first of a key stays.
Emplaced(pairs) ==
  [k \in {p[1] : p \in ToSet(pairs)} |->
     pairs[SelectInSeq(pairs, LAMBDA p : p[1] = k)][2]]

(***************************************************************************)
(* Urls and query parameters                                               *)
(***************************************************************************)
\* to_lower of a character.
LowerOf == [A |-> "a", B |-> "b", C |-> "c", D |-> "d", E |-> "e", F |-> "f"]

Hexadecimal ==
  {"0", "1", "2", "3", "4", "5", "6", "7", "8", "9"} \cup DOMAIN LowerOf \cup ToSet(LowerOf)
Digit(c) ==
  IF c \in ToSet(LowerOf) THEN CHOOSE u \in DOMAIN LowerOf : LowerOf[u] = c ELSE c

\* strtoul of two characters, as the escape of that number: white space and a sign
\* in front are skipped, and what is not hexadecimal ends the number.
AsEscape(a, b) ==
  CASE a \in Hexadecimal /\ b \in Hexadecimal       -> <<"%", Digit(a), Digit(b)>>
    [] a \in Hexadecimal /\ b \notin Hexadecimal    -> <<"%", "0", Digit(a)>>
    [] a \in {"+", "CR", "LF"} /\ b \in Hexadecimal  -> <<"%", "0", Digit(b)>>
    [] OTHER                                        -> <<"%", "0", "0">>

\* The characters with a meaning that have an escape.
Escape ==
  [c \in {"?", "&", "=", "+", "%", " ", "CR", "LF"} |->
     CASE c = "?"  -> <<"%", "3", "F">> [] c = "&"  -> <<"%", "2", "6">>
       [] c = "="  -> <<"%", "3", "D">> [] c = "+"  -> <<"%", "2", "B">>
       [] c = "%"  -> <<"%", "2", "5">> [] c = " "  -> <<"%", "2", "0">>
       [] c = "CR" -> <<"%", "0", "D">> [] c = "LF" -> <<"%", "0", "A">>]
Unescaped(a, b) ==
  IF \E c \in DOMAIN Escape : Escape[c] = AsEscape(a, b)
  THEN CHOOSE c \in DOMAIN Escape : Escape[c] = AsEscape(a, b)
  ELSE "other"

\* decoded_url += c.  A LF after a CR is an end of a line.
Put(decoded, c) ==
  IF c = "LF" /\ decoded # <<>> /\ Last(decoded) = "CR" THEN Append(Front(decoded), NL)
  ELSE Append(decoded, c)

\* One turn of the loop for the rest of the url and what was decoded before it.
\* An escape that is cut off by the end makes the whole result empty.
DecodeUrl(url) ==
  LET decode[state \in Seq(Character) \X Seq(Character)] ==
        LET rest == state[1]
            decoded == state[2]
        IN  CASE rest = <<>> -> decoded
              [] rest # <<>> /\ rest[1] = "%" ->
                   IF Len(rest) < 3 THEN <<>>
                   ELSE decode[<<From(rest, 4), Put(decoded, Unescaped(rest[2], rest[3]))>>]
              [] rest # <<>> /\ rest[1] = "+" -> decode[<<From(rest, 2), Append(decoded, " ")>>]
              [] OTHER -> decode[<<From(rest, 2), Put(decoded, rest[1])>>]
  IN  decode[<<url, <<>>>>]

\* Mutant: what stands before the first ampersand is all.
FirstParam(query) == <<Split(query, "&")[1]>>

Params(query) == Split(query, "&")

\* HttpQueryParameters(query_string): each parameter has an equal sign.
IsQuery(query) == query = <<>> \/ \A p \in ToSet(Params(query)) : Find(p, "=") # 0
KeyAndValue(param) ==
  LET sep == Find(param, "=") IN <<Until(param, sep), From(param, sep + 1)>>
QueryParameters(query) ==
  IF query = <<>> THEN <<>>
  ELSE Emplaced([i \in DOMAIN Params(query) |-> KeyAndValue(Params(query)[i])])

\* Parts printed one after another, with c between them.
Joined(parts, c) ==
  LET join[i \in 0..Len(parts)] ==
        IF i = 0 THEN <<>>
        ELSE IF i = 1 THEN parts[1] ELSE join[i - 1] \o <<c>> \o parts[i]
  IN  join[Len(parts)]

\* HttpQueryParameters::to_string, in one of the orders an unordered_map may have.
PrintedQuery(params) ==
  LET keys == SetToSeq(DOMAIN params)
  IN  Joined([i \in DOMAIN keys |-> keys[i] \o <<"=">> \o params[keys[i]]], "&")

(***************************************************************************)
(* The request line                                                        *)
(***************************************************************************)
MethodCodes == {<<m>> : m \in Methods}
VersionCodes == {<<v>> : v \in Versions}

\* Neither missing nor at the end.
Within(s, i) == i # 0 /\ i # Len(s)

\* Where the decoded url has its query; a question mark at the end belongs to
\* the url.
QueryAt(url) == IF Within(url, Find(url, "?")) THEN Find(url, "?") ELSE Len(url) + 1

\* The parts of the line: method, decoded target, version.
MethodOf(text) == Until(text, Find(text, " "))
AfterMethod(text) == From(text, Find(text, " ") + 1)
TargetOf(text) == DecodeUrl(MethodOf(AfterMethod(text)))
Protocol(text) == AfterMethod(AfterMethod(text))
VersionOf(text) == From(Protocol(text), Find(Protocol(text), "/") + 1)
QueryOf(text) == From(TargetOf(text), QueryAt(TargetOf(text)) + 1)

\* HttpRequestLine(request_line)
IsRequestLine(text) ==
  /\ Within(text, Find(text, " ")) /\ MethodOf(text) \in MethodCodes
  /\ Within(AfterMethod(text), Find(AfterMethod(text), " "))
  /\ IsQuery(QueryOf(text))
  /\ Within(Protocol(text), Find(Protocol(text), "/")) /\ VersionOf(text) \in VersionCodes
RequestLine(text) ==
  [method |-> MethodOf(text)[1], version |-> VersionOf(text)[1],
   url |-> Until(TargetOf(text), QueryAt(TargetOf(text))),
   params |-> QueryParameters(QueryOf(text))]

\* HttpRequestLine::to_string: what was decoded is not encoded again, so that an end
\* of a line in the url ends the request line here.
PrintedLine(line) ==
  <<line.method, " ">> \o line.url
    \o (IF line.params = <<>> THEN <<>> ELSE <<"?">> \o PrintedQuery(line.params))
    \o <<" ", "HTTP", "/", line.version>>

(***************************************************************************)
(* Headers                                                                 *)
(***************************************************************************)
\* to_lower of a name.
ToLower(name) ==
  [i \in DOMAIN name |-> IF name[i] \in DOMAIN LowerOf THEN LowerOf[name[i]] ELSE name[i]]

\* Mutant: the spaces after the colon stay.
Untrimmed(value) == value

Trimmed(value) ==
  LET i == SelectInSeq(value, LAMBDA c : c # " ")
  IN  IF i = 0 THEN <<>> ELSE From(value, i)

\* The lines up to the first that is empty; what follows the last NL is no line.
HeaderLines(text) ==
  LET lines == Front(Split(text, NL))
      end == SelectInSeq(lines, LAMBDA l : l = <<>>)
  IN  IF end = 0 THEN lines ELSE Until(lines, end)

\* HttpHeaders(headers_values_view)
IsHeaders(text) == \A l \in ToSet(HeaderLines(text)) : Find(l, ":") # 0
NameAndValue(l) ==
  <<ToLower(Until(l, Find(l, ":"))), Trimmed(From(l, Find(l, ":") + 1))>>
Headers(text) ==
  Emplaced([i \in DOMAIN HeaderLines(text) |-> NameAndValue(HeaderLines(text)[i])])

\* HttpHeaders::to_string, in one of the orders an unordered_map may have.
PrintedHeaders(headers) ==
  LET names == SetToSeq(DOMAIN headers)
  IN  Joined([i \in DOMAIN names |-> names[i] \o <<":", " ">> \o headers[names[i]]], NL)

(***************************************************************************)
(* The characters that have a meaning, or are printed, or decoded.         *)
(***************************************************************************)
Letters ==
  {NL, " ", "HTTP", "/", ":", "other"} \cup Methods \cup Versions
    \cup DOMAIN LowerOf \cup ToSet(LowerOf)
    \cup DOMAIN Escape \cup UNION {ToSet(e) : e \in ToSet(Escape)}

ASSUME CharacterAssumption == Letters \subseteq Character

(***************************************************************************)
(* Requests and responses                                                  *)
(***************************************************************************)
\* read_http_request: text has an end of the headers, NL NL.
LineOf(text) == Until(text, Find(text, NL))
HeadersOf(text) ==
  LET end == Min({i \in 1..(Len(text) - 1) : text[i] = NL /\ text[i + 1] = NL})
  IN  SubSeq(text, Find(text, NL) + 1, end)
IsRequest(text) == IsRequestLine(LineOf(text)) /\ IsHeaders(HeadersOf(text))
Request(text) == [line |-> RequestLine(LineOf(text)), headers |-> Headers(HeadersOf(text))]

\* HttpRequest::to_string
Printed(request) ==
  PrintedLine(request.line) \o <<NL>> \o PrintedHeaders(request.headers) \o <<NL, NL>>

\* HttpResponse(status, version) with set_basic_headers.
BasicHeaders(version) ==
  {"server", "date"} \cup (IF version = "0.9" THEN {} ELSE {"connection"})
NoLength == -1
Response(status, version) ==
  [status |-> status, version |-> version, headers |-> BasicHeaders(version),
   length |-> NoLength]
===============================================================================
