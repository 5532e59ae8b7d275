-------------------------------- MODULE Http --------------------------------
(***************************************************************************)
(* src/dll_src/httpp/src: the parser of HTTP requests and its binding. One *)
(* program gives one parser texts; a step of the model reads one byte. The *)
(* callbacks end what they report with a NUL in the caller's own buffer,   *)
(* so that the texts change under the parser and for a later call.         *)
(***************************************************************************)
EXTENDS Integers, SequencesExt

CONSTANTS Texts,   \* what the program gives the parser
          Later,   \* what it gives it, alone or after the old text, afterwards
          MaxCalls \* bound: calls of httpp_execute

Octet == 0 .. 255

ASSUME TextsAreTexts == Texts \cup Later \subseteq Seq(Octet)

NUL == 0
LF == 10
CR == 13
Space == 32
Percent == 37
Star == 42
Slash == 47
Colon == 58
Semicolon == 59
Question == 63

DigitByte == 48 .. 57
Upper == 65 .. 90
Lower == 97 .. 122
Hex == DigitByte \cup 65 .. 70 \cup 97 .. 102
MethodByte == DigitByte \cup Upper \cup {36, 45, 46, 95}
SchemeByte == DigitByte \cup Upper \cup Lower \cup {43, 45, 46}
\* char is signed: bytes from 128 on are below 0, and so not refused.
UriByte == (33 .. 126 \ {34, 35, Percent, Semicolon, 60, 62, Question}) \cup 128 .. 255
FieldByte == DigitByte \cup Upper \cup 94 .. 122 \cup {33, 42, 43, 45, 46, 124, 126} \cup 35 .. 39

start == 0
error == 1
first_final == 53

VARIABLES parser,   \* struct http_parser
          neko_val, \* the object the fields are written to
          buffer,   \* the string the program passed, as it is now
          p, cs,    \* locals of http_parser_execute
          pc,       \* "idle", "running" or "aborted" by an assertion
          sent,     \* the string as it was passed
          told,     \* the objects header_done passed on in this call
          calls     \* calls made

httpVars == <<parser, neko_val, buffer, p, cs, pc, sent, told, calls>>

-----------------------------------------------------------------------------
(* The machine: where a byte leads and what is done on the way *)

Go(st) == [to |-> st, acts |-> <<>>]
Do(acts, st) == [to |-> st, acts |-> acts]
Refuse == Go(error)

MethodStart(c) == IF c \in MethodByte THEN Do(<<"mark">>, 2) ELSE Refuse

\* Slip: the method may have one letter more.
SlipMethod(st, c) ==
  CASE c = Space -> Do(<<"request_method">>, 3)
    [] c \in MethodByte -> Go(IF st = 2 THEN 34 ELSE IF st = 52 THEN 52 ELSE st + 1)
    [] OTHER -> Refuse

\* 2, 34 to 52: a method of at most twenty letters.
Method(st, c) ==
  CASE c = Space -> Do(<<"request_method">>, 3)
    [] c \in MethodByte /\ st # 52 -> Go(IF st = 2 THEN 34 ELSE st + 1)
    [] OTHER -> Refuse

UriStart(c) ==
  CASE c = Star -> Do(<<"mark">>, 4)
    [] c \in SchemeByte -> Do(<<"mark">>, 20)
    [] c = Slash -> Do(<<"mark">>, 24)
    [] c = Colon -> Do(<<"mark">>, 21)
    [] OTHER -> Refuse

UriStar(c) == IF c = Space THEN Do(<<"request_uri">>, 5) ELSE Refuse

Scheme(c) ==
  CASE c \in SchemeByte -> Go(20)
    [] c = Colon -> Go(21)
    [] OTHER -> Refuse

\* Behind the scheme everything is one part.
Absolute(c) ==
  CASE c = Space -> Do(<<"request_uri">>, 5)
    [] c = Percent -> Go(22)
    [] c \in UriByte \cup {Semicolon, Question} -> Go(21)
    [] OTHER -> Refuse

Path(c) ==
  CASE c = Space -> Do(<<"request_path", "request_uri">>, 5)
    [] c = Percent -> Go(25)
    [] c = Semicolon -> Do(<<"request_path">>, 27)
    [] c = Question -> Do(<<"request_path">>, 30)
    [] c \in UriByte -> Go(24)
    [] OTHER -> Refuse

Params(c) ==
  CASE c = Space -> Do(<<"request_uri">>, 5)
    [] c = Percent -> Go(28)
    [] c = Question -> Go(30)
    [] c \in UriByte \cup {Semicolon} -> Go(27)
    [] OTHER -> Refuse

QueryStart(c) ==
  CASE c = Space -> Do(<<"query_start", "query_string", "request_uri">>, 5)
    [] c = Percent -> Do(<<"query_start">>, 32)
    [] c \in UriByte \cup {Semicolon, Question} -> Do(<<"query_start">>, 31)
    [] OTHER -> Refuse

Query(c) ==
  CASE c = Space -> Do(<<"query_string", "request_uri">>, 5)
    [] c = Percent -> Go(32)
    [] c \in UriByte \cup {Semicolon, Question} -> Go(31)
    [] OTHER -> Refuse

\* 22, 25, 28 and 32, and the second digit behind each.
Escape(st, c) ==
  IF c \notin Hex THEN Refuse
  ELSE Go(CASE st \in {22, 25, 28, 32} -> st + 1
            [] st \in {23, 26, 29, 33} -> st - 2)

\* 5 to 12: "HTTP/", digits, a point, digits.
Version(st, c) ==
  CASE st = 5 /\ c = 72 -> Do(<<"mark">>, 6)
    [] st \in {6, 7} /\ c = 84 -> Go(st + 1)
    [] st = 8 /\ c = 80 -> Go(9)
    [] st = 9 /\ c = Slash -> Go(10)
    [] st \in {10, 11} /\ c \in DigitByte -> Go(11)
    [] st = 11 /\ c = 46 -> Go(12)
    [] st \in {12, 13} /\ c \in DigitByte -> Go(13)
    [] st = 13 /\ c = CR -> Do(<<"http_version">>, 14)
    [] OTHER -> Refuse

LineEnd(st, c) ==
  CASE st = 14 /\ c = LF -> Go(15)
    [] st = 15 /\ c = CR -> Go(16)
    [] st = 15 /\ c \in FieldByte -> Do(<<"field_start">>, 17)
    [] st = 16 /\ c = LF -> Do(<<"header_done">>, first_final)
    [] OTHER -> Refuse

FieldName(c) ==
  CASE c = Colon -> Do(<<"field_len">>, 18)
    [] c \in FieldByte -> Go(17)
    [] OTHER -> Refuse

\* Slip: spaces in front of a value belong to it.
SlipFieldValue(st, c) ==
  CASE c = CR -> Do(<<"http_field">>, 14)
    [] st = 18 /\ c # CR -> Do(<<"mark">>, 19)
    [] OTHER -> Go(19)

\* A value that is empty leaves the mark where it was.
FieldValue(st, c) ==
  CASE c = CR -> Do(<<"http_field">>, 14)
    [] st = 18 /\ c = Space -> Do(<<"mark">>, 18)
    [] st = 18 /\ c \notin {CR, Space} -> Do(<<"mark">>, 19)
    [] OTHER -> Go(19)

Move(st, c) ==
  CASE st = start -> MethodStart(c)
    [] st = 2 \/ st \in 34 .. 52 -> Method(st, c)
    [] st = 3 -> UriStart(c)
    [] st = 4 -> UriStar(c)
    [] st \in 5 .. 13 -> Version(st, c)
    [] st \in 14 .. 16 -> LineEnd(st, c)
    [] st = 17 -> FieldName(c)
    [] st \in {18, 19} -> FieldValue(st, c)
    [] st = 20 -> Scheme(c)
    [] st = 21 -> Absolute(c)
    [] st = 24 -> Path(c)
    [] st = 27 -> Params(c)
    [] st = 30 -> QueryStart(c)
    [] st = 31 -> Query(c)
    [] OTHER -> Escape(st, c)

-----------------------------------------------------------------------------
(* The callbacks. Offsets count from 0: offset o is at index o + 1. *)

\* The C string at an offset: the string object ends in a NUL of its own.
CString(b, at) ==
  LET end == CHOOSE i \in at .. Len(b) : (i = Len(b) \/ b[i + 1] = NUL)
                                         /\ \A j \in at .. i - 1 : b[j + 1] # NUL
  IN SubSeq(b, at + 1, end)

\* atoi: white space, a sign and digits; the numbers stay small.
Numeral(text) ==
  LET first == CHOOSE i \in 1 .. Len(text) + 1 :
                 (i > Len(text) \/ text[i] \notin {32} \cup 9 .. 13)
                 /\ \A j \in 1 .. i - 1 : text[j] \in {32} \cup 9 .. 13
      signed == first <= Len(text) /\ text[first] \in {43, 45}
      digits == IF signed THEN first + 1 ELSE first
      all == CHOOSE n \in digits .. Len(text) + 1 :
               (n > Len(text) \/ text[n] \notin DigitByte)
               /\ \A j \in digits .. n - 1 : text[j] \in DigitByte
      size == FoldLeft(LAMBDA n, c : 10 * n + c - 48, 0, SubSeq(text, digits, all - 1))
  IN IF signed /\ text[first] = 45 THEN -size ELSE size

REQUEST_METHOD == <<82, 69, 81, 85, 69, 83, 84, 95, 77, 69, 84, 72, 79, 68>>
REQUEST_URI == <<82, 69, 81, 85, 69, 83, 84, 95, 85, 82, 73>>
REQUEST_PATH == <<82, 69, 81, 85, 69, 83, 84, 95, 80, 65, 84, 72>>
QUERY_STRING == <<81, 85, 69, 82, 89, 95, 83, 84, 82, 73, 78, 71>>
HTTP_VERSION == <<72, 84, 84, 80, 95, 86, 69, 82, 83, 73, 79, 78>>
ContentLength == <<67, 111, 110, 116, 101, 110, 116, 45, 76, 101, 110, 103, 116, 104>>

\* Every name that begins with Content-Length has a number for its value.
Given(name, text) ==
  IF IsPrefix(ContentLength, name) THEN [int |-> Numeral(text)] ELSE [str |-> text]

With(object, name, value) ==
  [x \in DOMAIN object \cup {name} |-> IF x = name THEN value ELSE object[x]]

\* s has the fields the callbacks change: the struct, the buffer and the object.
Ended(b, at) == [b EXCEPT ![at + 1] = NUL]

Element(s, name, from, at) ==
  LET b == Ended(s.b, at)
  IN [s EXCEPT !.b = b, !.obj = With(@, name, [str |-> CString(b, from)])]

\* Slip: the NUL of a name is written one byte too late.
Sliphttp_field(s, at) ==
  LET b == Ended(Ended(s.b, s.q.field_start + s.q.field_len + 1), at)
      name == CString(b, s.q.field_start)
  IN [s EXCEPT !.b = b, !.obj = With(@, name, Given(name, CString(b, s.q.mark)))]

http_field(s, at) ==
  LET b == Ended(Ended(s.b, s.q.field_start + s.q.field_len), at)
      name == CString(b, s.q.field_start)
  IN [s EXCEPT !.b = b, !.obj = With(@, name, Given(name, CString(b, s.q.mark)))]

header_done(s, at) ==
  [s EXCEPT !.q.body_start = at + 1, !.told = Append(@, s.obj)]

Act(s, act, at) ==
  CASE act = "mark" -> [s EXCEPT !.q.mark = at]
    [] act = "query_start" -> [s EXCEPT !.q.query_start = at]
    [] act = "field_start" -> [s EXCEPT !.q.field_start = at]
    [] act = "field_len" -> [s EXCEPT !.q.field_len = at - s.q.field_start]
    [] act = "request_method" -> Element(s, REQUEST_METHOD, s.q.mark, at)
    [] act = "request_uri" -> Element(s, REQUEST_URI, s.q.mark, at)
    [] act = "request_path" -> Element(s, REQUEST_PATH, s.q.mark, at)
    [] act = "query_string" -> Element(s, QUERY_STRING, s.q.query_start, at)
    [] act = "http_version" -> Element(s, HTTP_VERSION, s.q.mark, at)
    [] act = "http_field" -> http_field(s, at)
    [] act = "header_done" -> header_done(s, at)

-----------------------------------------------------------------------------
(* Actions *)

NoObject == << >>

\* calloc, and http_parser_init, which leaves query_start alone.
Fresh(query_start) ==
  [cs |-> start, body_start |-> 0, nread |-> 0, mark |-> 0,
   field_start |-> 0, field_len |-> 0, query_start |-> query_start]

\* httpp_init.
HttpInit ==
  /\ parser = Fresh(0) /\ neko_val = NoObject
  /\ buffer = <<>> /\ sent = <<>> /\ p = 0 /\ cs = start
  /\ pc = "idle" /\ told = <<>> /\ calls = 0

\* httpp_execute: every call starts again at the first byte.
Execute(text) ==
  /\ pc = "idle" /\ calls < MaxCalls
  /\ parser' = Fresh(parser.query_start)
  /\ neko_val' = NoObject /\ told' = <<>>
  /\ buffer' = text /\ sent' = text /\ p' = 0 /\ cs' = start
  /\ pc' = "running" /\ calls' = calls + 1

\* What is done with a byte, in order: three things at most.
Acts(s, acts, at) ==
  LET one(r, k) == IF k \in DOMAIN acts THEN Act(r, acts[k], at) ELSE r
  IN one(one(one(s, 1), 2), 3)

\* One byte: an error and the end of the header leave it unread.
TakeByte ==
  /\ pc = "running" /\ p < Len(buffer) /\ cs \notin {error, first_final}
  /\ \E move \in {Move(cs, buffer[p + 1])} :
       \E s \in {Acts([q |-> parser, b |-> buffer, obj |-> neko_val, told |-> told], move.acts, p)} :
         /\ parser' = s.q /\ buffer' = s.b /\ neko_val' = s.obj /\ told' = s.told
         /\ cs' = move.to
         /\ p' = IF move.to \in {error, first_final} THEN p ELSE p + 1
  /\ UNCHANGED <<pc, sent, calls>>

Asserted(q, len) ==
  /\ q.nread <= len /\ q.body_start <= len /\ q.mark < len
  /\ q.field_len <= len /\ q.field_start < len

\* _out: the assertions come before nread counts the last LF.
Out ==
  /\ pc = "running" /\ (p = Len(buffer) \/ cs \in {error, first_final})
  /\ LET q == [parser EXCEPT !.cs = cs, !.nread = @ + p]
     IN IF Asserted(q, Len(buffer))
        THEN /\ parser' = [q EXCEPT !.nread = IF q.body_start > 0 THEN @ + 1 ELSE @]
             /\ neko_val' = NoObject /\ pc' = "idle"
        ELSE parser' = q /\ pc' = "aborted" /\ UNCHANGED neko_val
  /\ UNCHANGED <<buffer, p, cs, sent, told, calls>>

\* httpp_reset.
Reset ==
  /\ pc = "idle"
  /\ parser' = Fresh(parser.query_start)
  /\ UNCHANGED <<neko_val, buffer, p, cs, pc, sent, told, calls>>

\* A first text, and later another one or more bytes at the end of the old one.
HttpNext ==
  \/ calls = 0 /\ \E text \in Texts : Execute(text)
  \/ calls > 0 /\ \E text \in Later : Execute(text)
  \/ calls > 0 /\ \E text \in Later : Execute(buffer \o text)
  \/ TakeByte \/ Out \/ Reset

HttpSpec == HttpInit /\ [][HttpNext]_httpVars

http_parser_has_error == parser.cs = error
http_parser_is_finished == parser.cs = first_final

http_parser_finish ==
  IF http_parser_has_error THEN -1 ELSE IF http_parser_is_finished THEN 1 ELSE 0

-----------------------------------------------------------------------------
(* What a request is, said without the machine: a line of three parts and    *)
(* lines with fields, each with CR LF behind it, up to the first empty line. *)
(* A part is given by its first and its last position in the text.           *)

AllIn(t, i, j, bytes) == \A k \in i .. j : t[k] \in bytes

IsMethod(t, i, j) == j - i \in 0 .. 19 /\ AllIn(t, i, j, MethodByte)

\* Bytes of an address, and % only in front of two hexadecimal digits.
Escaped(t, i, j) ==
  /\ AllIn(t, i, j, UriByte \cup {Percent, Semicolon, Question})
  /\ \A k \in i .. j : t[k] = Percent => k + 2 <= j /\ AllIn(t, k + 1, k + 2, Hex)

IsUri(t, i, j) ==
  \/ i = j /\ t[i] = Star
  \/ i <= j /\ t[i] = Slash /\ Escaped(t, i, j)
  \/ \E c \in i .. j :
       t[c] = Colon /\ AllIn(t, i, c - 1, SchemeByte) /\ Escaped(t, c + 1, j)

\* "HTTP/"
Protocol == <<72, 84, 84, 80, Slash>>

IsVersion(t, i, j) ==
  /\ \A k \in 1 .. 5 : t[i + k - 1] = Protocol[k]
  /\ \E d \in i + 6 .. j - 1 :
       t[d] = 46 /\ AllIn(t, i + 5, d - 1, DigitByte) /\ AllIn(t, d + 1, j, DigitByte)

\* The request line, up to its CR.
IsRequestLine(t, end) ==
  /\ t[end] = CR
  /\ \E i \in 1 .. end : \E j \in i + 1 .. end - 7 :
       /\ t[i] = Space /\ t[j] = Space
       /\ IsMethod(t, 1, i - 1) /\ IsUri(t, i + 1, j - 1) /\ IsVersion(t, j + 1, end - 1)

\* A field begins with its name and a colon.
IsField(t, i, j) == \E c \in i + 1 .. j : t[c] = Colon /\ AllIn(t, i, c - 1, FieldByte)

\* From the end of one line to that of another: a CR has an LF and a field behind it.
AreLines(t, i, j) == \A k \in i .. j - 1 : t[k] = CR => t[k + 1] = LF /\ IsField(t, k + 2, j)

EmptyLines(t) ==
  {i \in 1 .. Len(t) - 3 : t[i] = CR /\ t[i + 1] = LF /\ t[i + 2] = CR /\ t[i + 3] = LF}

\* The bytes up to the end of the first empty line.
HeaderLength(t) == Min(EmptyLines(t)) + 3

IsRequest(t) ==
  /\ EmptyLines(t) # {}
  /\ LET last == Min(EmptyLines(t))
     IN \E end \in 1 .. last : IsRequestLine(t, end) /\ AreLines(t, end, last)

\* The ends of the lines within n bytes, and the line in front of one.
Ends(t, n) == {e \in 1 .. n : t[e] = CR}

Line(t, e) ==
  LET above == Ends(t, e - 1)
  IN SubSeq(t, IF above = {} THEN 1 ELSE Max(above) + 2, e - 1)

\* The position of the first of some bytes, or one behind the end.
First(t, bytes) == Min({i \in DOMAIN t : t[i] \in bytes} \cup {Len(t) + 1})

From(t, i) == SubSeq(t, i, Len(t))
UpTo(t, bytes) == SubSeq(t, 1, First(t, bytes) - 1)
Past(t, bytes) == From(t, First(t, bytes) + 1)

MethodOf(line) == UpTo(line, {Space})
UriOf(line) == UpTo(Past(line, {Space}), {Space})
VersionOf(line) == Past(Past(line, {Space}), {Space})

\* What a request line of a given address says. An address that is a path has a
\* query behind its first question mark.
OfLine(line, uri) ==
  LET u == UriOf(line)
      isPath == u[1] = Slash
      path == UpTo(u, {Semicolon, Question})
      hasQuery == isPath /\ \E k \in DOMAIN u : u[k] = Question
      value(name) == CASE name = REQUEST_METHOD -> MethodOf(line)
                       [] name = REQUEST_URI -> uri
                       [] name = REQUEST_PATH -> path
                       [] name = QUERY_STRING -> Past(u, {Question})
                       [] name = HTTP_VERSION -> VersionOf(line)
  IN [name \in {REQUEST_METHOD, REQUEST_URI, HTTP_VERSION}
                \cup (IF isPath THEN {REQUEST_PATH} ELSE {})
                \cup (IF hasQuery THEN {QUERY_STRING} ELSE {}) |-> [str |-> value(name)]]

Parameters(line) == OfLine(line, UriOf(line))

\* The name in front of the colon of a line, and what is behind it.
NameOf(line) == UpTo(line, {Colon})
RestOf(line) == Past(line, {Colon})

IsBlank(text) == AllIn(text, 1, Len(text), {Space})

\* The value of a line: what is behind the colon and the spaces that follow it.
ValueOf(line) ==
  LET text == RestOf(line)
  IN IF IsBlank(text) THEN <<>> ELSE From(text, Min({i \in DOMAIN text : text[i] # Space}))

\* The length of the content is a number, "as it's used on every request"
\* (http11neko.c 33).
Meant(name, text) == IF name = ContentLength THEN [int |-> Numeral(text)] ELSE [str |-> text]

\* The lines of the header up to the one that ends at n: the request line and the fields.
FirstEnd(t, n) == Min(Ends(t, n))
FieldLines(t, n) == Ends(t, n) \ {FirstEnd(t, n)}
Names(t, n) == {NameOf(Line(t, e)) : e \in FieldLines(t, n)}

\* Of the fields with one name the last.
LastOf(t, n, name) == Line(t, Max({e \in FieldLines(t, n) : NameOf(Line(t, e)) = name}))

LastEnd(t) == HeaderLength(t) - 3
HeaderNames(t) == Names(t, LastEnd(t))
LineOf(t, name) == LastOf(t, LastEnd(t), name)
RequestLine(t) == Line(t, FirstEnd(t, LastEnd(t)))

\* What a request says: its line, and each of its fields.
Fields(t) ==
  LET given == Parameters(RequestLine(t))
  IN [name \in HeaderNames(t) \cup DOMAIN given |->
        IF name \in HeaderNames(t) THEN Meant(name, ValueOf(LineOf(t, name))) ELSE given[name]]

-----------------------------------------------------------------------------
(* Properties *)

Answered == pc = "idle" /\ calls > 0 /\ parser.cs = cs

\* The parser is done with exactly the texts that begin with a request, it has
\* read to the end of the empty line, and the program was told once
\* (http_parser_finish, 1071; nread, 1051 and 1065; header_done, 327-334). Only
\* an empty string makes an assertion behind the loop fail (1053-1058). An error is
\* final: no request begins with what was read, so that a program that waits for
\* more is never told to give up too early (_out1, 87-88).
AcceptsRequests ==
  /\ pc = "aborted" => sent = <<>>
  /\ Answered /\ http_parser_has_error =>
       \A t \in Texts \cup Later : IsPrefix(SubSeq(sent, 1, p + 1), t) => ~IsRequest(t)
  /\ Answered =>
       /\ http_parser_finish = 1 <=> IsRequest(sent)
       /\ Len(told) = (IF IsRequest(sent) THEN 1 ELSE 0)
       /\ IsRequest(sent) =>
            parser.nread = HeaderLength(sent) /\ parser.body_start = HeaderLength(sent)

\* A path with parameters or a query.
IsSplit(uri) == uri[1] = Slash /\ \E k \in DOMAIN uri : uri[k] \in {Semicolon, Question}

\* The values that come out wrong: the address of a path with a query
\* (AddressIsWhole), a field without a value (ValuesAreOwn), one with a NUL, which
\* ends it, and one whose name goes on behind Content-Length, which is taken for
\* a number (http11neko.c 32).
IsSpoilt(t, name) ==
  IF name \in HeaderNames(t)
  THEN LET text == RestOf(LineOf(t, name))
       IN \/ IsBlank(text) \/ \E k \in DOMAIN text : text[k] = NUL
          \/ IsPrefix(ContentLength, name) /\ name # ContentLength
  ELSE name = REQUEST_URI /\ IsSplit(UriOf(RequestLine(t)))

\* The object the program is told of has exactly the names of the request and says
\* of each, but for those that IsSpoilt, what the request says, although every
\* callback cuts the buffer that the following ones read (http11neko.c 28-75).
ToldTheRequest ==
  told # <<>> =>
    /\ Len(told) = 1
    /\ DOMAIN told[1] = DOMAIN Fields(sent)
    /\ \A name \in DOMAIN told[1] : ~IsSpoilt(sent, name) => told[1][name] = Fields(sent)[name]

\* The address is told whole: request_uri has its beginning and its length, and
\* the text they are of is const (element_cb, http11_parser.h 14).
AddressIsWhole ==
  told # <<>> /\ REQUEST_URI \notin HeaderNames(sent) =>
    told[1][REQUEST_URI] = Fields(sent)[REQUEST_URI]

\* A field whose line ends at the colon is told as empty: http_field has the value
\* of its own field (field_cb, http11_parser.h 15).
ValuesAreOwn ==
  told # <<>> =>
    \A name \in HeaderNames(sent) :
      RestOf(LineOf(sent, name)) = <<>> => told[1][name] = Fields(sent)[name]

\* What the program is told is the text of the request, as its callbacks are
\* declared to get it: const, with a beginning and a length (http11_parser.h 14-15).
ToldAsWritten == AddressIsWhole /\ ValuesAreOwn

\* The NULs fall on separators only, never on a byte of a name or a value (http11neko.c 29, 30, 43, 50, 57, 64, 71).
OnlySeparatorsLost ==
  \A i \in DOMAIN sent : buffer[i] # sent[i] =>
    buffer[i] = NUL /\ sent[i] \in {Space, Semicolon, Question, Colon, CR}
=============================================================================
