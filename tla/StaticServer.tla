----------------------------- MODULE StaticServer -----------------------------
(***************************************************************************)
(* tinyhttp::BasicStaticServer: from the text of one request to the answer *)
(* that on_request decides on and its sender begins, while other programs  *)
(* change the file that the url names.                                     *)
(*                                                                         *)
(* on_request looks at the file system up to seven times, by path: every   *)
(* look is an action.  `entry` is what the path names; of all other urls   *)
(* nothing exists.  The bytes of the answer are in HttpExchange.           *)
(***************************************************************************)
EXTENDS HttpMessage

CONSTANTS
  Texts,      (* requests as read_http_request finds them: NL NL is in each *)
  Intents,    (* what clients mean: a path and a sequence of parameters   *)
  Path,       (* the url that names entry                                 *)
  Sizes,
  MaxChanges  (* bound: changes of entry during the request               *)

ASSUME TextsAssumption ==
  /\ Texts \subseteq Seq(Character)
  /\ \A t \in Texts : \E i \in 1..(Len(t) - 1) : t[i] = NL /\ t[i + 1] = NL
  /\ \A t \in Texts : \A i \in 1..(Len(t) - 1) : ~(t[i] = "CR" /\ t[i + 1] = "LF")
  /\ Sizes \subseteq Nat /\ MaxChanges \in Nat

\* What a client means by a path, a key or a value is on one line.
OneLine == Seq(Character \ {NL, "CR", "LF"})
ASSUME IntentsAssumption ==
  \A i \in Intents : i.path \in OneLine /\ i.params \in Seq(OneLine \X OneLine)

VARIABLES
  text,     (* the request as sent                                        *)
  meant,    (* history: what an encoding client meant by it               *)
  request,  (* HttpRequest, once parsed                                   *)
  pc,       (* the next look of on_request, or how it ended               *)
  entry,    (* what the path of the url names                             *)
  target,   (* file_path: the path, or its index.html                     *)
  answer,   (* the HttpResponse                                           *)
  seen,     (* history: the values of entry since the request began       *)
  changes

vars == <<text, meant, request, pc, entry, target, answer, seen, changes>>

(***************************************************************************)
(* The file system (external).  Denied is what the server may not stat.    *)
(* Outside is what leads out of the document root, but not to a place that *)
(* has the root's name as a prefix: the test compares strings, so that a   *)
(* sibling root2 of root is served, as any entry is.                       *)
(***************************************************************************)
Absent  == [kind |-> "absent"]
Denied  == [kind |-> "denied"]
Outside == [kind |-> "outside"]
Files == {[kind |-> "file", size |-> n, readable |-> r] : n \in Sizes, r \in BOOLEAN}
Leaves == {Absent, Denied} \cup Files
Directories == {[kind |-> "dir", index |-> i] : i \in Leaves \cup {[kind |-> "dir"]}}
Entries == Leaves \cup Directories \cup {Outside}

\* What file_path names in a state of the file system.
At(e, path) ==
  IF path = "path" THEN e
  ELSE IF e.kind = "dir" THEN e.index
  ELSE IF e.kind = "denied" THEN Denied ELSE Absent

File == At(entry, target)

\* A client's request for a path with parameters, each character escaped that
\* has an escape.
Escaped(s) == FlattenSeq([n \in DOMAIN s |-> IF s[n] \in DOMAIN Escape THEN Escape[s[n]] ELSE <<s[n]>>])
TextOf(i) ==
  LET params == [n \in DOMAIN i.params |->
                   <<IF n = 1 THEN "?" ELSE "&">> \o Escaped(i.params[n][1])
                     \o <<"=">> \o Escaped(i.params[n][2])]
  IN  <<"GET", " ">> \o Escaped(i.path) \o FlattenSeq(params)
        \o <<" ", "HTTP", "/", "1.1", NL, NL>>

NoIntent == [path |-> <<>>]
NoAnswer == [status |-> 0]
NoRequest == [line |-> <<>>]

Init ==
  /\ \/ text \in Texts /\ meant = NoIntent
     \/ meant \in Intents /\ text = TextOf(meant)
  /\ request = NoRequest /\ pc = "read" /\ target = "path"
  /\ entry \in IF IsRequest(text) /\ Request(text).line.url = Path
               THEN Entries ELSE {Absent}
  /\ answer = NoAnswer /\ seen = {entry} /\ changes = 0

Looking == pc \in {"exists", "canonical", "is_directory", "index", "exists_again",
                   "file_size", "open", "sendfile"}

\* Another program creates, replaces, removes, cuts or locks the file.
Change ==
  /\ Looking /\ changes < MaxChanges
  /\ request.line.url = Path /\ entry # Outside
  /\ entry' \in Entries \ {entry, Outside}
  /\ seen' = seen \cup {entry'} /\ changes' = changes + 1
  /\ UNCHANGED <<text, meant, request, pc, target, answer>>

(***************************************************************************)
(* read_http_request, and the head of on_request.                          *)
(***************************************************************************)
Served == {"GET", "HEAD"}

Parse ==
  /\ pc = "read"
  /\ IF IsRequest(text) THEN request' = Request(text) /\ pc' = "parsed"
     ELSE pc' = "rejected" /\ UNCHANGED request
  /\ UNCHANGED <<text, meant, entry, target, answer, seen, changes>>

Answer(response) == answer' = response /\ pc' = "answered"
Refuse(status) == Answer(Response(status, request.line.version))
\* A filesystem_error or runtime_error leaves on_request or the sender.
Throw == pc' = "thrown" /\ UNCHANGED answer
GoOn(look) == pc' = look /\ UNCHANGED answer

Begin ==
  /\ pc = "parsed"
  /\ IF request.line.method \in Served THEN GoOn("exists") ELSE Refuse(405)
  /\ UNCHANGED <<text, meant, request, entry, target, seen, changes>>

(***************************************************************************)
(* The looks of on_request.                                                *)
(***************************************************************************)
\* fs::exists with an error_code: false, with an error only if it cannot tell.
Exists(file) == file.kind \notin {"absent", "denied"}

\* Mutant: the error_code is not looked at.
MissingAnyhow(file) == Refuse(404)

Missing(file) == IF file.kind = "denied" THEN Refuse(403) ELSE Refuse(404)

FirstExists ==
  /\ pc = "exists"
  /\ IF Exists(File) THEN GoOn("canonical") ELSE Missing(File)
  /\ UNCHANGED <<text, meant, request, entry, target, seen, changes>>

\* fs::canonical throws if a part of the path is gone.
Canonical ==
  /\ pc = "canonical"
  /\ IF ~Exists(File) THEN Throw
     ELSE IF File = Outside THEN Refuse(400) ELSE GoOn("is_directory")
  /\ UNCHANGED <<text, meant, request, entry, target, seen, changes>>

\* fs::is_directory without an error_code throws if it cannot tell.
IsDirectory ==
  /\ pc = "is_directory"
  /\ IF File.kind = "denied" THEN Throw /\ UNCHANGED target
     ELSE IF File.kind = "dir" THEN target' = "index" /\ GoOn("index")
     ELSE GoOn("exists_again") /\ UNCHANGED target
  /\ UNCHANGED <<text, meant, request, entry, seen, changes>>

IndexExists ==
  /\ pc = "index"
  /\ IF Exists(File) THEN GoOn("exists_again")
     ELSE Refuse(IF File.kind = "denied" THEN 500 ELSE 403)
  /\ UNCHANGED <<text, meant, request, entry, target, seen, changes>>

ExistsAgain ==
  /\ pc = "exists_again"
  /\ IF Exists(File) THEN GoOn("file_size") ELSE Missing(File)
  /\ UNCHANGED <<text, meant, request, entry, target, seen, changes>>

OkResponse(size) ==
  LET basic == Response(200, request.line.version)
  IN  [basic EXCEPT !.headers = @ \cup {"content-length", "content-type"},
                    !.length = size]

\* fs::file_size throws for what is not a regular file.
FileSize ==
  /\ pc = "file_size"
  /\ IF File.kind # "file" THEN Throw
     ELSE IF request.line.method = "HEAD" THEN Answer(OkResponse(File.size))
     ELSE answer' = OkResponse(File.size) /\ pc' = "open"
  /\ UNCHANGED <<text, meant, request, entry, target, seen, changes>>

(***************************************************************************)
(* The sender: it opens the file, prints the response into the buffer and  *)
(* sends the file.                                                         *)
(***************************************************************************)
\* Mutant: the headers of the announced file stay in the response.
ResetKept(response) == [response EXCEPT !.status = 500]

\* reset_headers and set_response_status.
Reset(response) == Response(500, response.version)

\* open(O_RDONLY); a directory can be opened.
Opens(file) == file.kind = "dir" \/ (file.kind = "file" /\ file.readable)

\* Or the server has no descriptor left.
Open ==
  /\ pc = "open"
  /\ \/ IF ~Opens(File) THEN Answer(Reset(answer))
        ELSE IF File.kind = "dir" THEN GoOn("sendfile")
        ELSE GoOn("answered")
     \/ answer' = Reset(answer) /\ pc' = "exhausted"
  /\ UNCHANGED <<text, meant, request, entry, target, seen, changes>>

\* The descriptor that was opened is that of a directory; nothing is sent of a file
\* that was empty.
SendDirectory ==
  /\ pc = "sendfile"
  /\ IF answer.length = 0 THEN GoOn("answered") ELSE Throw
  /\ UNCHANGED <<text, meant, request, entry, target, seen, changes>>

OnRequest ==
  \/ Begin \/ FirstExists \/ Canonical \/ IsDirectory \/ IndexExists
  \/ ExistsAgain \/ FileSize \/ Open \/ SendDirectory

Next == Parse \/ OnRequest \/ Change

Spec == Init /\ [][Next]_vars

(***************************************************************************)
(* Properties                                                              *)
(***************************************************************************)
IsMap(f) == /\ \A k \in DOMAIN f : ToSet(k) \subseteq Character /\ ToSet(f[k]) \subseteq Character

\* Types; a request that was parsed is complete, and only what is announced to
\* be sent with status 200 has a length.
TypeOK ==
  /\ ToSet(text) \subseteq Character /\ entry \in Entries /\ target \in {"path", "index"}
  /\ pc \in {"read", "parsed", "rejected", "answered", "exhausted", "thrown"} \/ Looking
  /\ seen \subseteq Entries /\ entry \in seen /\ changes \in 0..MaxChanges
  /\ request = NoRequest \/
       /\ request.line.method \in Methods /\ request.line.version \in Versions
       /\ ToSet(request.line.url) \subseteq Character
       /\ IsMap(request.line.params) /\ IsMap(request.headers)
  /\ answer = NoAnswer \/
       /\ answer.status \in StatusesWithText
       /\ {"server", "date"} \subseteq answer.headers
       /\ answer.status = 200 <=> answer.length \in Sizes
       /\ answer.status = 200 <=> "content-length" \in answer.headers

\* No characters that decoding or splitting would take for something else.
Plain(s) == ToSet(s) \cap {"%", "+", " ", NL, "CR", "LF"} = {}

\* A request that was parsed prints as a text that is parsed to the same
\* request, whatever was missing, doubled or malformed in what was sent, unless
\* what was decoded needs to be encoded again (the to_string methods): a space, a
\* percent sign, a plus or an end of a line, which would be a second line.
PrintsBack ==
  ( /\ pc = "parsed" /\ Plain(request.line.url)
    /\ \A k \in DOMAIN request.line.params : Plain(k) /\ Plain(request.line.params[k]) )
  => Request(Printed(request)) = request

\* A client that escapes every character with a meaning gets through what it
\* meant, a plus and a percent sign included; the exceptions are those that the
\* server splits at after it has decoded: a question mark in the path, an
\* ampersand in the query, an equal sign in a key.
IntentKept ==
  ( /\ meant # NoIntent /\ pc \in {"parsed", "rejected"}
    /\ "?" \notin ToSet(meant.path)
    /\ \A p \in ToSet(meant.params) : "&" \notin ToSet(p[1] \o p[2]) /\ "=" \notin ToSet(p[1]) )
  => /\ pc = "parsed"
     /\ request.line.url = meant.path /\ request.line.params = Emplaced(meant.params)

\* What the server answers if nothing changes meanwhile.
Wanted(e) == IF e.kind = "dir" THEN "index" ELSE "path"
FileOf(e) == At(e, Wanted(e))
Whole(e) == FileOf(e).kind = "file"
AtomicStatus(e) ==
  CASE e.kind = "absent" -> 404 [] e.kind = "denied" -> 403 [] e.kind = "outside" -> 400
    [] Whole(e) -> IF request.line.method = "HEAD" \/ Opens(FileOf(e)) THEN 200 ELSE 500
    [] OTHER -> IF FileOf(e).kind = "absent" THEN 403 ELSE 500

\* The exceptions, with a change of the entry from e to f between two looks: the
\* index of the directory e is gone, perhaps with the directory (403, or 404 if
\* it was seen before), or cannot be looked for (500, 403 if it was seen before);
\* the file of e, announced, cannot be opened any more (500), or, announced as empty,
\* is a directory then, of which nothing is sent (200).
Torn(status) ==
  \E e \in seen : \E f \in seen \ {e} :
    \/ /\ e.kind = "dir" /\ At(f, "index").kind = "absent" /\ status \in {403, 404}
       /\ status = 404 => Exists(e.index)
    \/ /\ e.kind = "dir" /\ At(f, "index").kind = "denied" /\ status \in {403, 500}
       /\ status = 403 => Exists(e.index)
    \/ Whole(e) /\ ~Opens(At(f, Wanted(e))) /\ status = 500
    \/ /\ Whole(e) /\ FileOf(e).size = 0 /\ At(f, Wanted(e)).kind = "dir" /\ status = 200

\* The answer to GET and HEAD was true of some moment of the request, with the
\* exceptions of Torn and of a server without a descriptor, which says 500 of a
\* file that it could send; an exception leaves on_request only if at some moment
\* there was no file to be read, or a file became a directory or the reverse; and
\* a length that is announced was the length of the file at some moment.
AnswerWasTrue ==
  /\ (pc = "answered" /\ request.line.method \in Served) =>
       (\E e \in seen : answer.status = AtomicStatus(e)) \/ Torn(answer.status)
  /\ (pc = "answered" /\ answer.status = 200) =>
       \E e \in seen : Whole(e) /\ answer.length = FileOf(e).size
  /\ pc = "thrown" => \E e \in seen, f \in seen : ~Whole(e) \/ Wanted(e) # Wanted(f)
===============================================================================
