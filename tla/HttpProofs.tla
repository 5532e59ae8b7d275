----------------------------- MODULE HttpProofs -----------------------------
(***************************************************************************)
(* Proofs about Http, for texts of any length and any number of calls: the *)
(* parser accepts what is a request and nothing else, its assertions hold, *)
(* its callbacks overwrite separators only, and the program is told what   *)
(* the request says.                                                       *)
(***************************************************************************)
EXTENDS Http, SequenceTheorems, WellFoundedInduction, TLAPS

USE DEF NUL, LF, CR, Space, Percent, Star, Slash, Colon, Semicolon, Question,
        start, error, first_final

-----------------------------------------------------------------------------
(* What the parser has read when it is in a state *)

IsMethodEnd(t, i) == t[i] = Space /\ IsMethod(t, 1, i - 1)

\* An address in which the last % may still wait for its digits: it is the last
\* of the bytes read (open = 1) or the one before (open = 2).
Address(t, i, j, open) ==
  /\ open = 0 => Escaped(t, i, j)
  /\ open = 1 => i <= j /\ t[j] = Percent /\ Escaped(t, i, j - 1)
  /\ open = 2 => i < j /\ t[j - 1] = Percent /\ t[j] \in Hex /\ Escaped(t, i, j - 2)

IsUriEnd(t, j) ==
  t[j] = Space /\ \E i \in 1 .. j - 1 : IsMethodEnd(t, i) /\ IsUri(t, i + 1, j - 1)

IsProtocol(t, i, n) == \A k \in 1 .. n : t[i + k] = Protocol[k]

\* From the request line that ends at e to the line that ends at n.
LinesTo(t, n) ==
  t[n] = CR /\ \E e \in 1 .. n : IsRequestLine(t, e) /\ AreLines(t, e, n)

\* In the line behind the one that ends at b.
InLine(t, b) == t[b + 1] = LF /\ LinesTo(t, b)

ReadMethod(st, t, n) == n = (IF st = 2 THEN 1 ELSE st - 32) /\ IsMethod(t, 1, n)

ReadScheme(t, n) == \E i \in 1 .. n - 1 : IsMethodEnd(t, i) /\ AllIn(t, i + 1, n, SchemeByte)

ReadAbsolute(t, n, open) ==
  \E i \in 1 .. n - 1 : \E c \in i + 1 .. n :
    /\ IsMethodEnd(t, i)
    /\ t[c] = Colon /\ AllIn(t, i + 1, c - 1, SchemeByte) /\ Address(t, c + 1, n, open)

ReadPath(t, n, open) ==
  \E i \in 1 .. n - 1 : IsMethodEnd(t, i) /\ t[i + 1] = Slash /\ Address(t, i + 1, n, open)

ReadVersion(st, t, n) ==
  \E j \in 1 .. n :
    /\ IsUriEnd(t, j)
    /\ IsProtocol(t, j, IF st <= 10 THEN st - 5 ELSE 5)
    /\ st <= 10 => n = j + st - 5
    /\ st = 11 => j + 6 <= n /\ AllIn(t, j + 6, n, DigitByte)
    /\ st = 12 => j + 7 <= n /\ AllIn(t, j + 6, n - 1, DigitByte) /\ t[n] = 46
    /\ st = 13 => \E d \in j + 7 .. n - 1 :
                    /\ AllIn(t, j + 6, d - 1, DigitByte) /\ t[d] = 46
                    /\ AllIn(t, d + 1, n, DigitByte)

ReadFieldName(t, n) ==
  \E b \in 1 .. n - 2 : InLine(t, b) /\ AllIn(t, b + 2, n, FieldByte)

ReadField(t, n) ==
  \E b \in 1 .. n - 3 : \E c \in b + 3 .. n :
    /\ InLine(t, b) /\ AllIn(t, b + 2, c - 1, FieldByte) /\ t[c] = Colon
    /\ \A k \in c + 1 .. n : t[k] # CR

\* Whether the first n bytes of t are what leads to a state.
Read(st, t, n) ==
  /\ st = start => n = 0
  /\ st = 2 \/ st \in 34 .. 52 => ReadMethod(st, t, n)
  /\ st = 3 => n >= 1 /\ IsMethodEnd(t, n)
  /\ st = 4 => n >= 2 /\ IsMethodEnd(t, n - 1) /\ t[n] = Star
  /\ st \in 5 .. 13 => ReadVersion(st, t, n)
  /\ st = 14 => n >= 1 /\ LinesTo(t, n)
  /\ st = 15 => n >= 2 /\ InLine(t, n - 1)
  /\ st = 16 => n >= 3 /\ InLine(t, n - 2) /\ t[n] = CR
  /\ st = 17 => ReadFieldName(t, n)
  /\ st \in {18, 19} => ReadField(t, n)
  /\ st = 20 => ReadScheme(t, n)
  /\ st \in 21 .. 23 => ReadAbsolute(t, n, st - 21)
  /\ st \in 24 .. 26 => ReadPath(t, n, st - 24)
  /\ st \in 27 .. 29 => ReadPath(t, n, st - 27)
  /\ st \in {30, 31} => ReadPath(t, n, 0)
  /\ st \in {32, 33} => ReadPath(t, n, st - 31)

-----------------------------------------------------------------------------
(* What a text says of its parts *)

\* The bytes that end a part do not occur in it.
LEMMA ByteClasses ==
  /\ \A c \in MethodByte : c \in Octet /\ c \notin {Space, CR}
  /\ \A c \in SchemeByte : c \in Octet /\ c \notin {Space, CR, Colon, Slash, Star, Percent}
  /\ \A c \in UriByte : c \in Octet /\ c \notin {Space, CR, Percent, Semicolon, Question}
  /\ \A c \in FieldByte : c \in Octet /\ c \notin {Space, CR, Colon}
  /\ \A c \in DigitByte : c \in Octet /\ c \notin {Space, CR, Slash, 46}
  /\ \A c \in Hex : c \in Octet /\ c \notin {Space, CR, Percent}
BY DEF MethodByte, SchemeByte, UriByte, FieldByte, DigitByte, Upper, Lower, Hex, Octet

\* No space and no CR is part of an address.
LEMMA UriHasNoSpace ==
  ASSUME NEW t, NEW i \in Int, NEW j \in Int, NEW k \in i .. j, IsUri(t, i, j)
  PROVE  t[k] \notin {Space, CR}
<1>1. \A a, b \in Int : \A m \in a .. b : Escaped(t, a, b) => t[m] \notin {Space, CR}
  BY ByteClasses DEF Escaped, AllIn
<1>2. CASE \E c \in i .. j :
             t[c] = Colon /\ AllIn(t, i, c - 1, SchemeByte) /\ Escaped(t, c + 1, j)
  <2> PICK c \in i .. j : t[c] = Colon /\ AllIn(t, i, c - 1, SchemeByte) /\ Escaped(t, c + 1, j)
    BY <1>2
  <2>1. CASE k < c
    BY <2>1, ByteClasses DEF AllIn
  <2>2. CASE k > c
    BY <2>2, <1>1
  <2> QED
    BY <2>1, <2>2
<1> QED
  BY <1>1, <1>2 DEF IsUri

\* The least of some positions.
LEMMA MinOf ==
  ASSUME NEW S \in SUBSET Nat, NEW x \in S, \A y \in S : x <= y
  PROVE  Min(S) = x
<1>1. Min(S) \in S /\ \A y \in S : Min(S) <= y
  BY DEF Min
<1>2. Min(S) \in Nat /\ x \in Nat /\ Min(S) <= x /\ x <= Min(S)
  BY <1>1
<1> QED
  BY <1>2

LEMMA MinIsLeast ==
  ASSUME NEW S \in SUBSET Nat, S # {}
  PROVE  Min(S) \in S /\ \A y \in S : Min(S) <= y
<1> DEFINE Less == OpToRel(<, Nat)
<1>1. PICK x \in S : \A y \in S : ~(<<y, x>> \in Less)
  BY NatLessThanWellFounded, WFMin
<1>2. \A y \in S : ~(y < x)
  BY <1>1 DEF OpToRel
<1>3. \A y \in S : x <= y
  BY <1>2
<1> QED
  BY <1>3, MinOf

\* The parts of a request.
Parts(t, i, j, end, last) ==
  /\ i \in 2 .. Len(t) /\ j \in i + 1 .. Len(t) /\ end \in j + 8 .. Len(t)
  /\ last \in end .. Len(t) - 3
  /\ IsMethodEnd(t, i)
  /\ t[j] = Space /\ IsUri(t, i + 1, j - 1)
  /\ IsVersion(t, j + 1, end - 1)
  /\ t[end] = CR /\ AreLines(t, end, last)
  /\ t[last] = CR /\ t[last + 1] = LF /\ t[last + 2] = CR /\ t[last + 3] = LF

LEMMA RequestHasParts ==
  ASSUME NEW t \in Seq(Octet), IsRequest(t)
  PROVE  \E i, j, end, last \in Int : Parts(t, i, j, end, last)
<1> DEFINE last == Min(EmptyLines(t))
<1>1. EmptyLines(t) # {} /\ EmptyLines(t) \subseteq Nat /\ Len(t) \in Nat
  BY SMTT(30) DEF EmptyLines, IsRequest
<1>2. last \in EmptyLines(t)
  BY <1>1, MinIsLeast
<1>3. last \in 1 .. Len(t) - 3
      /\ t[last] = CR /\ t[last + 1] = LF /\ t[last + 2] = CR /\ t[last + 3] = LF
  BY <1>2 DEF EmptyLines
<1> HIDE DEF last
<1>4. PICK end \in 1 .. last : IsRequestLine(t, end) /\ AreLines(t, end, last)
  BY DEF IsRequest, last
<1>5. PICK i \in 1 .. end : \E j \in i + 1 .. end - 7 :
        /\ t[i] = Space /\ t[j] = Space
        /\ IsMethod(t, 1, i - 1) /\ IsUri(t, i + 1, j - 1) /\ IsVersion(t, j + 1, end - 1)
  BY <1>4 DEF IsRequestLine
<1>6. PICK j \in i + 1 .. end - 7 :
        /\ t[i] = Space /\ t[j] = Space
        /\ IsMethod(t, 1, i - 1) /\ IsUri(t, i + 1, j - 1) /\ IsVersion(t, j + 1, end - 1)
  BY <1>5
<1>7. j + 8 <= end
  BY <1>1, <1>3, <1>6 DEF IsVersion
<1>8. i >= 2
  BY <1>1, <1>3, <1>6 DEF IsMethod
<1>9. /\ i \in 2 .. Len(t) /\ j \in i + 1 .. Len(t) /\ end \in j + 8 .. Len(t)
      /\ last \in end .. Len(t) - 3
  BY <1>1, <1>3, <1>7, <1>8
<1>10. Parts(t, i, j, end, last)
  BY <1>3, <1>4, <1>6, <1>9 DEF Parts, IsMethodEnd, IsRequestLine
<1> QED
  BY <1>1, <1>3, <1>10

-----------------------------------------------------------------------------
(* The states, one by one *)

LEMMA LeadsTo == \A acts, st : Go(st).to = st /\ Do(acts, st).to = st
BY DEF Go, Do

LEMMA MethodMoves ==
  ASSUME NEW c, NEW st \in {2} \cup 34 .. 52
  PROVE  /\ c \in MethodByte => MethodStart(c) = Do(<<"mark">>, 2)
         /\ c \notin MethodByte => MethodStart(c) = Refuse
         /\ c = Space => Method(st, c) = Do(<<"request_method">>, 3)
         /\ c \in MethodByte /\ st # 52 => Method(st, c) = Go(IF st = 2 THEN 34 ELSE st + 1)
         /\ c # Space /\ ~(c \in MethodByte /\ st # 52) => Method(st, c) = Refuse
BY ByteClasses DEF Method, MethodStart

LEMMA UriMoves ==
  ASSUME NEW c
  PROVE  /\ c = Star => UriStart(c) = Do(<<"mark">>, 4)
         /\ c \in SchemeByte => UriStart(c) = Do(<<"mark">>, 20)
         /\ c = Slash => UriStart(c) = Do(<<"mark">>, 24)
         /\ c = Colon => UriStart(c) = Do(<<"mark">>, 21)
         /\ c \notin {Star, Slash, Colon} \cup SchemeByte => UriStart(c) = Refuse
         /\ c = Space => UriStar(c) = Do(<<"request_uri">>, 5)
         /\ c # Space => UriStar(c) = Refuse
         /\ c \in SchemeByte => Scheme(c) = Go(20)
         /\ c = Colon => Scheme(c) = Go(21)
         /\ c \notin {Colon} \cup SchemeByte => Scheme(c) = Refuse
BY ByteClasses DEF UriStart, UriStar, Scheme

AddressByte == UriByte \cup {Percent, Semicolon, Question}

LEMMA AddressMoves ==
  ASSUME NEW c
  PROVE  /\ c = Space => /\ Absolute(c) = Do(<<"request_uri">>, 5)
                         /\ Path(c) = Do(<<"request_path", "request_uri">>, 5)
                         /\ Params(c) = Do(<<"request_uri">>, 5)
                         /\ QueryStart(c) = Do(<<"query_start", "query_string", "request_uri">>, 5)
                         /\ Query(c) = Do(<<"query_string", "request_uri">>, 5)
         /\ c = Percent => /\ Absolute(c) = Go(22) /\ Path(c) = Go(25) /\ Params(c) = Go(28)
                           /\ QueryStart(c) = Do(<<"query_start">>, 32) /\ Query(c) = Go(32)
         /\ c = Semicolon => Path(c) = Do(<<"request_path">>, 27)
         /\ c = Question => Path(c) = Do(<<"request_path">>, 30) /\ Params(c) = Go(30)
         /\ c \in UriByte => Path(c) = Go(24)
         /\ c \in UriByte \cup {Semicolon} => Params(c) = Go(27)
         /\ c \in UriByte \cup {Semicolon, Question} =>
              Absolute(c) = Go(21) /\ QueryStart(c) = Do(<<"query_start">>, 31) /\ Query(c) = Go(31)
         /\ c \notin AddressByte \cup {Space} =>
              /\ Absolute(c) = Refuse /\ Path(c) = Refuse /\ Params(c) = Refuse
              /\ QueryStart(c) = Refuse /\ Query(c) = Refuse
<1>1. c \in UriByte => c \notin {Space, Percent, Semicolon, Question}
  BY ByteClasses
<1>2. c \notin AddressByte \cup {Space} <=>
        c \notin UriByte /\ c # Space /\ c # Percent /\ c # Semicolon /\ c # Question
  BY DEF AddressByte
<1> QED
  BY <1>1, <1>2 DEF Absolute, Path, Params, QueryStart, Query

LEMMA EscapeMoves ==
  ASSUME NEW c, NEW st \in {22, 23, 25, 26, 28, 29, 32, 33}
  PROVE  /\ c \notin Hex => Escape(st, c) = Refuse
         /\ c \in Hex /\ st \in {22, 25, 28, 32} => Escape(st, c) = Go(st + 1)
         /\ c \in Hex /\ st \in {23, 26, 29, 33} => Escape(st, c) = Go(st - 2)
BY DEF Escape

LEMMA VersionMoves ==
  ASSUME NEW c, NEW st \in 5 .. 13
  PROVE  /\ st = 5 /\ c = 72 => Version(st, c) = Do(<<"mark">>, 6)
         /\ st \in {6, 7} /\ c = 84 => Version(st, c) = Go(st + 1)
         /\ st = 8 /\ c = 80 => Version(st, c) = Go(9)
         /\ st = 9 /\ c = Slash => Version(st, c) = Go(10)
         /\ st \in {10, 11} /\ c \in DigitByte => Version(st, c) = Go(11)
         /\ st = 11 /\ c = 46 => Version(st, c) = Go(12)
         /\ st \in {12, 13} /\ c \in DigitByte => Version(st, c) = Go(13)
         /\ st = 13 /\ c = CR => Version(st, c) = Do(<<"http_version">>, 14)
         /\ \/ st = 5 /\ c = 72
            \/ st \in {6, 7} /\ c = 84
            \/ st = 8 /\ c = 80
            \/ st = 9 /\ c = Slash
            \/ st \in {10, 11, 12, 13} /\ c \in DigitByte
            \/ st = 11 /\ c = 46
            \/ st = 13 /\ c = CR
            \/ Version(st, c) = Refuse
BY ByteClasses DEF Version

LEMMA LineMoves ==
  ASSUME NEW c, NEW st \in {14, 15, 16}
  PROVE  /\ st = 14 /\ c = LF => LineEnd(st, c) = Go(15)
         /\ st = 15 /\ c = CR => LineEnd(st, c) = Go(16)
         /\ st = 15 /\ c \in FieldByte => LineEnd(st, c) = Do(<<"field_start">>, 17)
         /\ st = 16 /\ c = LF => LineEnd(st, c) = Do(<<"header_done">>, first_final)
         /\ \/ st \in {14, 16} /\ c = LF
            \/ st = 15 /\ c = CR
            \/ st = 15 /\ c \in FieldByte
            \/ LineEnd(st, c) = Refuse
BY ByteClasses DEF LineEnd

LEMMA FieldNameMoves ==
  ASSUME NEW c
  PROVE  /\ c = Colon => FieldName(c) = Do(<<"field_len">>, 18)
         /\ c \in FieldByte => FieldName(c) = Go(17)
         /\ c # Colon /\ c \notin FieldByte => FieldName(c) = Refuse
BY ByteClasses DEF FieldName

LEMMA FieldValueMoves ==
  ASSUME NEW c, NEW st \in {18, 19}
  PROVE  /\ c = CR => FieldValue(st, c) = Do(<<"http_field">>, 14)
         /\ st = 18 /\ c = Space => FieldValue(st, c) = Do(<<"mark">>, 18)
         /\ st = 18 /\ c # Space /\ c # CR => FieldValue(st, c) = Do(<<"mark">>, 19)
         /\ st = 19 /\ c # CR => FieldValue(st, c) = Go(19)
BY DEF FieldValue

LEMMA MoveOf ==
  ASSUME NEW st \in 0 .. 52, NEW c
  PROVE  /\ st = start => Move(st, c) = MethodStart(c)
         /\ st = 2 \/ st \in 34 .. 52 => Move(st, c) = Method(st, c)
         /\ st = 3 => Move(st, c) = UriStart(c)
         /\ st = 4 => Move(st, c) = UriStar(c)
         /\ st \in 5 .. 13 => Move(st, c) = Version(st, c)
         /\ st \in 14 .. 16 => Move(st, c) = LineEnd(st, c)
         /\ st = 17 => Move(st, c) = FieldName(c)
         /\ st \in {18, 19} => Move(st, c) = FieldValue(st, c)
         /\ st = 20 => Move(st, c) = Scheme(c)
         /\ st = 21 => Move(st, c) = Absolute(c)
         /\ st = 24 => Move(st, c) = Path(c)
         /\ st = 27 => Move(st, c) = Params(c)
         /\ st = 30 => Move(st, c) = QueryStart(c)
         /\ st = 31 => Move(st, c) = Query(c)
         /\ st \in {22, 23, 25, 26, 28, 29, 32, 33} => Move(st, c) = Escape(st, c)
BY DEF Move

\* The bytes a state takes.
Expects(st, c) ==
  /\ st = start => c \in MethodByte
  /\ st = 2 \/ st \in 34 .. 52 => c = Space \/ (c \in MethodByte /\ st # 52)
  /\ st = 3 => c \in {Star, Slash, Colon} \cup SchemeByte
  /\ st = 4 => c = Space
  /\ st = 5 => c = 72
  /\ st \in {6, 7} => c = 84
  /\ st = 8 => c = 80
  /\ st = 9 => c = Slash
  /\ st \in {10, 12} => c \in DigitByte
  /\ st = 11 => c \in DigitByte \cup {46}
  /\ st = 13 => c \in DigitByte \cup {CR}
  /\ st \in {14, 16} => c = LF
  /\ st = 15 => c \in FieldByte \cup {CR}
  /\ st = 17 => c \in FieldByte \cup {Colon}
  /\ st = 20 => c \in SchemeByte \cup {Colon}
  /\ st \in {21, 24, 27, 30, 31} => c \in AddressByte \cup {Space}
  /\ st \in {22, 23, 25, 26, 28, 29, 32, 33} => c \in Hex

LEMMA ExpectedIsTaken ==
  ASSUME NEW st \in 0 .. 52, NEW c, st # error, Expects(st, c)
  PROVE  Move(st, c).to # error
<1>1. CASE st \in {start, 2} \cup 34 .. 52
  BY <1>1, MoveOf, LeadsTo, MethodMoves DEF Expects
<1>2. CASE st \in {3, 4, 20}
  BY <1>2, MoveOf, LeadsTo, UriMoves DEF Expects
<1>3. CASE st \in 5 .. 13
  BY <1>3, MoveOf, LeadsTo, VersionMoves DEF Expects
<1>4. CASE st \in 14 .. 16
  BY <1>4, MoveOf, LeadsTo, LineMoves DEF Expects
<1>5. CASE st = 17
  BY <1>5, MoveOf, LeadsTo, FieldNameMoves DEF Expects
<1>6. CASE st \in {18, 19}
  BY <1>6, MoveOf, LeadsTo, FieldValueMoves DEF Expects
<1>7. CASE st \in {21, 24, 27, 30, 31}
  BY <1>7, MoveOf, LeadsTo, AddressMoves DEF Expects, AddressByte
<1>8. CASE st \in {22, 23, 25, 26, 28, 29, 32, 33}
  BY <1>8, MoveOf, LeadsTo, EscapeMoves DEF Expects
<1> QED
  BY <1>1, <1>2, <1>3, <1>4, <1>5, <1>6, <1>7, <1>8

-----------------------------------------------------------------------------
(* No request is refused: a byte of one leads on from every state *)

LEMMA MethodEndIsUnique ==
  ASSUME NEW t, NEW i \in Nat \ {0}, NEW j \in Nat \ {0}, IsMethodEnd(t, i), IsMethodEnd(t, j)
  PROVE  i = j
<1>1. i - 1 \in Int /\ j - 1 \in Int
  OBVIOUS
<1>2. \A k \in 1 .. i - 1 : t[k] # Space
  BY ByteClasses DEF IsMethodEnd, IsMethod, AllIn
<1>3. \A k \in 1 .. j - 1 : t[k] # Space
  BY ByteClasses DEF IsMethodEnd, IsMethod, AllIn
<1> QED
  BY <1>1, <1>2, <1>3 DEF IsMethodEnd

LEMMA UriEndIsUnique ==
  ASSUME NEW t, NEW j \in Nat \ {0}, NEW k \in Nat \ {0}, IsUriEnd(t, j), IsUriEnd(t, k)
  PROVE  j = k
<1>1. PICK i \in 1 .. j - 1 : IsMethodEnd(t, i) /\ IsUri(t, i + 1, j - 1)
  BY DEF IsUriEnd
<1>2. PICK m \in 1 .. k - 1 : IsMethodEnd(t, m) /\ IsUri(t, m + 1, k - 1)
  BY DEF IsUriEnd
<1>3. i = m
  BY <1>1, <1>2, MethodEndIsUnique
<1>4. CASE j < k
  <2>1. m + 1 \in Int /\ k - 1 \in Int /\ j \in m + 1 .. k - 1
    BY <1>1, <1>3, <1>4
  <2> QED
    BY <1>2, <2>1, UriHasNoSpace DEF IsUriEnd
<1>5. CASE k < j
  <2>1. i + 1 \in Int /\ j - 1 \in Int /\ k \in i + 1 .. j - 1
    BY <1>2, <1>3, <1>5
  <2> QED
    BY <1>1, <2>1, UriHasNoSpace DEF IsUriEnd
<1> QED
  BY <1>4, <1>5

\* A request line has no CR in it.
LEMMA RequestLineHasNoCR ==
  ASSUME NEW t, NEW end \in Nat, NEW k \in 1 .. end - 1, IsRequestLine(t, end)
  PROVE  t[k] # CR
<1>1. PICK i \in 1 .. end : \E j \in i + 1 .. end - 7 :
        /\ t[i] = Space /\ t[j] = Space
        /\ IsMethod(t, 1, i - 1) /\ IsUri(t, i + 1, j - 1) /\ IsVersion(t, j + 1, end - 1)
  BY DEF IsRequestLine
<1>2. PICK j \in i + 1 .. end - 7 :
        /\ t[i] = Space /\ t[j] = Space
        /\ IsMethod(t, 1, i - 1) /\ IsUri(t, i + 1, j - 1) /\ IsVersion(t, j + 1, end - 1)
  BY <1>1
<1>3. CASE k < i
  BY <1>2, <1>3, ByteClasses DEF IsMethod, AllIn
<1>4. CASE k > i /\ k < j
  <2>1. i + 1 \in Int /\ j - 1 \in Int /\ k \in i + 1 .. j - 1
    BY <1>4
  <2> QED
    BY <1>2, <2>1, UriHasNoSpace
<1>5. CASE k > j
  <2>1. \A m \in 1 .. 5 : t[j + m] # CR
    BY <1>2 DEF IsVersion, Protocol
  <2>2. PICK d \in j + 7 .. end - 2 :
          /\ t[d] = 46 /\ AllIn(t, j + 6, d - 1, DigitByte) /\ AllIn(t, d + 1, end - 1, DigitByte)
    BY <1>2 DEF IsVersion
  <2>3. \/ k - j \in 1 .. 5 /\ k = j + (k - j)
        \/ k \in j + 6 .. d - 1 \/ k = d \/ k \in d + 1 .. end - 1
    BY <1>5, <2>2
  <2> QED
    BY <2>1, <2>2, <2>3, ByteClasses DEF AllIn
<1> QED
  BY <1>2, <1>3, <1>4, <1>5

LEMMA RequestLineIsUnique ==
  ASSUME NEW t, NEW e \in Nat \ {0}, NEW end \in Nat \ {0},
         IsRequestLine(t, e), IsRequestLine(t, end)
  PROVE  e = end
<1>1. ~(e < end) /\ ~(end < e)
  BY RequestLineHasNoCR DEF IsRequestLine
<1> QED
  BY <1>1

LEMMA MethodGoesOn ==
  ASSUME NEW t \in Seq(Octet), NEW n \in Nat, NEW st \in {start, 2, 3} \cup 34 .. 52,
         NEW i \in Int, NEW j \in Int, NEW end \in Int, NEW last \in Int,
         Parts(t, i, j, end, last), Read(st, t, n)
  PROVE  n < Len(t) /\ Expects(st, t[n + 1])
<1>1. i \in 2 .. Len(t) /\ j \in i + 1 .. Len(t) /\ Len(t) \in Nat
  BY DEF Parts
<1>2. t[i] = Space /\ i <= 21 /\ \A k \in 1 .. i - 1 : t[k] \in MethodByte
  BY <1>1 DEF Parts, IsMethodEnd, IsMethod, AllIn
<1>3. CASE st = start
  <2>1. n = 0 /\ t[1] \in MethodByte
    BY <1>1, <1>2, <1>3 DEF Read
  <2> QED
    BY <1>1, <1>3, <2>1 DEF Expects
<1>4. CASE st = 2 \/ st \in 34 .. 52
  <2>1. n = (IF st = 2 THEN 1 ELSE st - 32) /\ \A k \in 1 .. n : t[k] \in MethodByte
    BY <1>4 DEF Read, ReadMethod, IsMethod, AllIn
  <2>2. n < i
    BY <1>1, <1>2, <2>1, ByteClasses
  <2>3. t[n + 1] = Space \/ (t[n + 1] \in MethodByte /\ st # 52)
    BY <1>1, <1>2, <2>1, <2>2
  <2> QED
    BY <1>1, <1>4, <2>2, <2>3 DEF Expects
<1>5. CASE st = 3
  <2>1. n = i
    BY <1>1, <1>5, MethodEndIsUnique DEF Read, Parts
  <2>2. t[i + 1] \in {Star, Slash, Colon} \cup SchemeByte
    <3>1. IsUri(t, i + 1, j - 1)
      BY DEF Parts
    <3>2. ASSUME NEW c \in i + 1 .. j - 1, t[c] = Colon, AllIn(t, i + 1, c - 1, SchemeByte)
          PROVE  t[i + 1] \in {Colon} \cup SchemeByte
      BY <1>1, <3>2 DEF AllIn
    <3> QED
      BY <3>1, <3>2 DEF IsUri
  <2> QED
    BY <1>1, <1>5, <2>1, <2>2 DEF Expects
<1> QED
  BY <1>3, <1>4, <1>5

\* In an address a space, a byte of an address or the digit that is due comes next.
LEMMA AddressGoesOn ==
  ASSUME NEW t, NEW a \in Int, NEW n \in Int, NEW j \in Int, NEW open \in 0 .. 2,
         a - 1 <= n, a <= j, Address(t, a, n, open), Escaped(t, a, j - 1), t[j] = Space
  PROVE  /\ n < j
         /\ open = 0 => t[n + 1] \in AddressByte \cup {Space}
         /\ open # 0 => t[n + 1] \in Hex
<1>1. \A k \in a .. n : t[k] # Space
  <2> SUFFICES ASSUME NEW k \in a .. n PROVE t[k] # Space
    OBVIOUS
  <2> QED
    BY ByteClasses DEF Address, Escaped, AllIn
<1>2. n < j
  BY <1>1
<1>3. CASE open = 0
  BY <1>2, <1>3 DEF Address, AddressByte, Escaped, AllIn
<1>4. CASE open = 1
  <2>1. n \in a .. j - 1 /\ t[n] = Percent
    BY <1>2, <1>4 DEF Address
  <2> QED
    BY <1>2, <1>4, <2>1 DEF Escaped, AllIn
<1>5. CASE open = 2
  <2>1. n - 1 \in a .. j - 1 /\ t[n - 1] = Percent
    BY <1>2, <1>5 DEF Address
  <2>2. n - 1 + 2 \in (n - 1) + 1 .. (n - 1) + 2 /\ n - 1 + 2 = n + 1
    OBVIOUS
  <2>3. AllIn(t, (n - 1) + 1, (n - 1) + 2, Hex)
    BY <2>1 DEF Escaped
  <2> QED
    BY <1>2, <1>5, <2>2, <2>3 DEF AllIn
<1> QED
  BY <1>3, <1>4, <1>5

LEMMA UriGoesOn ==
  ASSUME NEW t \in Seq(Octet), NEW n \in Nat, NEW st \in {4} \cup 20 .. 33,
         NEW i \in Int, NEW j \in Int, NEW end \in Int, NEW last \in Int,
         Parts(t, i, j, end, last), Read(st, t, n)
  PROVE  n < Len(t) /\ Expects(st, t[n + 1])
<1>1. i \in 2 .. Len(t) /\ j \in i + 1 .. Len(t) /\ Len(t) \in Nat
  BY DEF Parts
<1>2. IsMethodEnd(t, i) /\ t[j] = Space /\ IsUri(t, i + 1, j - 1)
  BY DEF Parts
<1>3. CASE st = 4
  <2>1. n = i + 1 /\ t[n] = Star
    <3>1. n - 1 \in Nat \ {0} /\ IsMethodEnd(t, n - 1) /\ t[n] = Star
      BY <1>3 DEF Read
    <3>2. n - 1 = i
      BY <1>1, <1>2, <3>1, MethodEndIsUnique
    <3> QED
      BY <3>1, <3>2
  <2>2. j = n + 1
    BY <1>1, <1>2, <2>1, ByteClasses DEF IsUri, AllIn
  <2> QED
    BY <1>1, <1>2, <1>3, <2>2 DEF Expects
<1>4. CASE st = 20
  <2>1. PICK m \in 1 .. n - 1 : IsMethodEnd(t, m) /\ AllIn(t, m + 1, n, SchemeByte)
    BY <1>4 DEF Read, ReadScheme
  <2>2. m = i
    BY <1>1, <1>2, <2>1, MethodEndIsUnique
  <2>3. t[i + 1] \in SchemeByte
    BY <2>1, <2>2 DEF AllIn
  <2>4. PICK c \in i + 1 .. j - 1 : t[c] = Colon /\ AllIn(t, i + 1, c - 1, SchemeByte)
    BY <1>1, <1>2, <2>3, ByteClasses DEF IsUri
  <2>5. n < c
    BY <2>1, <2>2, <2>4, ByteClasses DEF AllIn
  <2>6. n + 1 \in i + 1 .. c /\ (t[n + 1] = Colon \/ t[n + 1] \in SchemeByte)
    BY <2>1, <2>2, <2>4, <2>5 DEF AllIn
  <2> QED
    BY <1>1, <1>4, <2>4, <2>5, <2>6 DEF Expects
<1>5. CASE st \in 21 .. 23
  <2> DEFINE open == st - 21
  <2>1. PICK m \in 1 .. n - 1 : \E c \in m + 1 .. n :
          /\ IsMethodEnd(t, m)
          /\ t[c] = Colon /\ AllIn(t, m + 1, c - 1, SchemeByte) /\ Address(t, c + 1, n, open)
    BY <1>5 DEF Read, ReadAbsolute
  <2>2. m = i
    BY <1>1, <1>2, <2>1, MethodEndIsUnique
  <2>3. PICK c \in i + 1 .. n :
          t[c] = Colon /\ AllIn(t, i + 1, c - 1, SchemeByte) /\ Address(t, c + 1, n, open)
    BY <2>1, <2>2
  <2>4. t[i + 1] = Colon \/ t[i + 1] \in SchemeByte
    BY <1>1, <2>3 DEF AllIn
  <2>5. PICK d \in i + 1 .. j - 1 :
          t[d] = Colon /\ AllIn(t, i + 1, d - 1, SchemeByte) /\ Escaped(t, d + 1, j - 1)
    BY <1>1, <1>2, <2>4, ByteClasses DEF IsUri
  <2>6. d = c
    BY <1>1, <2>3, <2>5, ByteClasses DEF AllIn
  <2>7. Escaped(t, c + 1, j - 1) /\ open \in 0 .. 2
    BY <1>5, <2>5, <2>6
  <2>8. /\ n < j
        /\ open = 0 => t[n + 1] \in AddressByte \cup {Space}
        /\ open # 0 => t[n + 1] \in Hex
    <3>1. c + 1 \in Int /\ (c + 1) - 1 <= n /\ c + 1 <= j /\ n \in Int /\ j \in Int
      BY <1>1, <2>3, <2>5, <2>6
    <3>2. Address(t, c + 1, n, open)
      BY <2>3
    <3> HIDE DEF open
    <3> QED
      BY <1>2, <2>7, <3>1, <3>2, AddressGoesOn
  <2>9. open = 0 <=> st = 21
    BY <1>5
  <2> HIDE DEF open
  <2> QED
    BY <1>1, <1>5, <2>8, <2>9 DEF Expects
<1>6. CASE st \in 24 .. 33
  <2> DEFINE open == IF st \in 24 .. 26 THEN st - 24 ELSE IF st \in 27 .. 29 THEN st - 27
                     ELSE IF st \in {30, 31} THEN 0 ELSE st - 31
  <2>1. ReadPath(t, n, open)
    BY <1>6 DEF Read
  <2>2. open \in 0 .. 2
    BY <1>6
  <2>3. open = 0 <=> st \in {24, 27, 30, 31}
    BY <1>6
  <2> HIDE DEF open
  <2>4. PICK m \in 1 .. n - 1 :
          IsMethodEnd(t, m) /\ t[m + 1] = Slash /\ Address(t, m + 1, n, open)
    BY <2>1 DEF ReadPath
  <2>5. m = i
    BY <1>1, <1>2, <2>4, MethodEndIsUnique
  <2>6. i + 1 <= j - 1 /\ Escaped(t, i + 1, j - 1)
    BY <1>1, <1>2, <2>4, <2>5, ByteClasses DEF IsUri, AllIn
  <2>7. /\ n < j
        /\ open = 0 => t[n + 1] \in AddressByte \cup {Space}
        /\ open # 0 => t[n + 1] \in Hex
    <3>1. i + 1 \in Int /\ (i + 1) - 1 <= n /\ i + 1 <= j /\ n \in Int /\ j \in Int
      BY <1>1, <2>4, <2>5
    <3>2. Address(t, i + 1, n, open)
      BY <2>4, <2>5
    <3> QED
      BY <1>2, <2>2, <2>6, <3>1, <3>2, AddressGoesOn
  <2> QED
    BY SMTT(30), <1>1, <1>6, <2>3, <2>7 DEF Expects
<1> QED
  BY <1>3, <1>4, <1>5, <1>6

LEMMA VersionGoesOn ==
  ASSUME NEW t \in Seq(Octet), NEW n \in Nat, NEW st \in 5 .. 13,
         NEW i \in Int, NEW j \in Int, NEW end \in Int, NEW last \in Int,
         Parts(t, i, j, end, last), Read(st, t, n)
  PROVE  n < Len(t) /\ Expects(st, t[n + 1])
<1>1. i \in 2 .. Len(t) /\ j \in i + 1 .. Len(t) /\ end \in j + 8 .. Len(t) /\ Len(t) \in Nat
  BY DEF Parts
<1>2. IsUriEnd(t, j) /\ j \in Nat \ {0} /\ t[end] = CR
  BY SMTT(30), <1>1 DEF Parts, IsUriEnd
<1>3. PICK d \in j + 7 .. end - 2 :
        /\ t[d] = 46 /\ AllIn(t, j + 6, d - 1, DigitByte) /\ AllIn(t, d + 1, end - 1, DigitByte)
  <2>1. IsVersion(t, j + 1, end - 1)
    BY DEF Parts
  <2>2. PICK d \in (j + 1) + 6 .. (end - 1) - 1 :
          /\ t[d] = 46 /\ AllIn(t, (j + 1) + 5, d - 1, DigitByte) /\ AllIn(t, d + 1, end - 1, DigitByte)
    BY <2>1 DEF IsVersion
  <2>3. (j + 1) + 5 = j + 6 /\ d \in j + 7 .. end - 2
    BY <1>1
  <2> QED
    BY <2>2, <2>3
<1>4. \A k \in 1 .. 5 : t[j + k] = Protocol[k]
  <2>1. \A k \in 1 .. 5 : t[(j + 1) + k - 1] = Protocol[k]
    BY DEF Parts, IsVersion
  <2>2. \A k \in 1 .. 5 : (j + 1) + k - 1 = j + k
    BY <1>1
  <2> QED
    BY <2>1, <2>2
<1>5. t[j + 1] = 72 /\ t[j + 2] = 84 /\ t[j + 3] = 84 /\ t[j + 4] = 80 /\ t[j + 5] = Slash
  BY <1>4 DEF Protocol
<1>6. PICK m \in 1 .. n :
        /\ IsUriEnd(t, m)
        /\ st <= 10 => n = m + st - 5
        /\ st = 11 => m + 6 <= n /\ AllIn(t, m + 6, n, DigitByte)
        /\ st = 12 => m + 7 <= n /\ AllIn(t, m + 6, n - 1, DigitByte) /\ t[n] = 46
        /\ st = 13 => \E x \in m + 7 .. n - 1 :
                        /\ AllIn(t, m + 6, x - 1, DigitByte) /\ t[x] = 46
                        /\ AllIn(t, x + 1, n, DigitByte)
  BY DEF Read, ReadVersion
<1>7. m = j
  BY <1>2, <1>6, UriEndIsUnique
<1>8. t[j + 6] \in DigitByte
  BY <1>3 DEF AllIn
<1>9. CASE st \in 5 .. 10
  <2>1. n = j + st - 5 /\ n < Len(t)
    BY <1>1, <1>6, <1>7, <1>9
  <2>2. /\ st = 5 => n + 1 = j + 1
        /\ st = 6 => n + 1 = j + 2
        /\ st = 7 => n + 1 = j + 3
        /\ st = 8 => n + 1 = j + 4
        /\ st = 9 => n + 1 = j + 5
        /\ st = 10 => n + 1 = j + 6
    BY <1>1, <2>1
  <2>3. /\ st = 5 => t[n + 1] = 72
        /\ st \in {6, 7} => t[n + 1] = 84
        /\ st = 8 => t[n + 1] = 80
        /\ st = 9 => t[n + 1] = Slash
        /\ st = 10 => t[n + 1] \in DigitByte
    BY ZenonT(40), <1>5, <1>8, <2>2
  <2> QED
    BY <1>9, <2>1, <2>3 DEF Expects
<1>10. CASE st = 11
  <2>1. n < d
    BY <1>3, <1>6, <1>7, <1>10, ByteClasses DEF AllIn
  <2>2. n + 1 = d \/ n + 1 \in j + 6 .. d - 1
    BY <1>6, <1>7, <1>10, <2>1
  <2> QED
    BY <1>1, <1>3, <1>10, <2>1, <2>2 DEF Expects, AllIn
<1>11. CASE st = 12
  <2>1. n = d
    BY <1>3, <1>6, <1>7, <1>11, ByteClasses DEF AllIn
  <2> QED
    BY <1>1, <1>3, <1>11, <2>1 DEF Expects, AllIn
<1>12. CASE st = 13
  <2>1. PICK x \in j + 7 .. n - 1 :
          AllIn(t, j + 6, x - 1, DigitByte) /\ t[x] = 46 /\ AllIn(t, x + 1, n, DigitByte)
    BY <1>6, <1>7, <1>12
  <2>2. x = d
    BY <1>3, <2>1, ByteClasses DEF AllIn
  <2>3. n < end
    BY <1>2, <1>3, <2>1, <2>2, ByteClasses DEF AllIn
  <2>4. n + 1 = end \/ n + 1 \in d + 1 .. end - 1
    BY <2>1, <2>2, <2>3
  <2> QED
    BY <1>1, <1>2, <1>3, <1>12, <2>3, <2>4 DEF Expects, AllIn
<1> QED
  BY <1>9, <1>10, <1>11, <1>12

\* The lines of a request that were read are lines of it up to the empty one.
LEMMA LinesBelow ==
  ASSUME NEW t \in Seq(Octet), NEW n \in Nat \ {0},
         NEW i \in Int, NEW j \in Int, NEW end \in Int, NEW last \in Int,
         Parts(t, i, j, end, last), LinesTo(t, n)
  PROVE  /\ n <= last /\ t[n + 1] = LF
         /\ n = last \/ IsField(t, n + 2, last)
<1>1. i \in 2 .. Len(t) /\ j \in i + 1 .. Len(t) /\ end \in j + 8 .. Len(t) /\ Len(t) \in Nat
      /\ last \in end .. Len(t) - 3
  BY DEF Parts
<1>2. IsRequestLine(t, end) /\ AreLines(t, end, last)
  BY SMTT(30), <1>1 DEF Parts, IsRequestLine, IsMethodEnd
<1>3. PICK e \in 1 .. n : IsRequestLine(t, e) /\ AreLines(t, e, n)
  BY DEF LinesTo
<1>4. e = end
  BY <1>1, <1>2, <1>3, RequestLineIsUnique
<1>5. n <= last
  <2> SUFFICES ASSUME last < n PROVE FALSE
    BY <1>1
  <2>1. t[last] = CR /\ last \in end .. n - 1
    BY <1>1 DEF Parts
  <2>2. IsField(t, last + 2, n)
    BY <1>3, <1>4, <2>1 DEF AreLines
  <2>3. t[last + 2] \in FieldByte
    BY <1>1, <2>2 DEF IsField, AllIn
  <2> QED
    BY <2>3, ByteClasses DEF Parts
<1>6. CASE n = last
  BY <1>5, <1>6 DEF Parts
<1>7. CASE n < last
  <2>1. n \in end .. last - 1 /\ t[n] = CR
    BY <1>3, <1>4, <1>7 DEF LinesTo
  <2> QED
    BY <1>2, <1>5, <2>1 DEF AreLines
<1> QED
  BY <1>5, <1>6, <1>7, <1>1

LEMMA FieldGoesOn ==
  ASSUME NEW t \in Seq(Octet), NEW n \in Nat, NEW st \in 14 .. 19,
         NEW i \in Int, NEW j \in Int, NEW end \in Int, NEW last \in Int,
         Parts(t, i, j, end, last), Read(st, t, n)
  PROVE  n < Len(t) /\ Expects(st, t[n + 1])
<1>1. Len(t) \in Nat /\ last \in 1 .. Len(t) - 3
  BY DEF Parts
<1>2. t[last] = CR /\ t[last + 1] = LF /\ t[last + 2] = CR /\ t[last + 3] = LF
  BY DEF Parts
<1>3. \A b \in Int : IsField(t, b, last) => t[b] \in FieldByte
  BY <1>1 DEF IsField, AllIn
<1>4. CASE st = 14
  <2>1. n \in Nat \ {0} /\ LinesTo(t, n)
    BY <1>4 DEF Read
  <2> QED
    BY <1>1, <1>4, <2>1, LinesBelow DEF Expects
<1>5. CASE st = 15
  <2>1. n - 1 \in Nat \ {0} /\ LinesTo(t, n - 1)
    BY <1>5 DEF Read, InLine
  <2>2. n - 1 <= last /\ (n - 1 = last \/ IsField(t, n - 1 + 2, last)) /\ n - 1 + 2 = n + 1
    BY <2>1, LinesBelow
  <2>3. t[n + 1] = CR \/ t[n + 1] \in FieldByte
    BY <1>2, <1>3, <2>2
  <2> QED
    BY <1>1, <1>5, <2>2, <2>3 DEF Expects
<1>6. CASE st = 16
  <2>1. n - 2 \in Nat \ {0} /\ LinesTo(t, n - 2) /\ t[n] = CR
    BY <1>6 DEF Read, InLine
  <2>2. n - 2 <= last /\ (n - 2 = last \/ IsField(t, n - 2 + 2, last)) /\ n - 2 + 2 = n
    BY <2>1, LinesBelow
  <2>3. n - 2 = last
    BY <1>3, <2>1, <2>2, ByteClasses
  <2> QED
    BY <1>1, <1>2, <1>6, <2>3 DEF Expects
<1>7. CASE st = 17
  <2>1. PICK b \in 1 .. n - 2 : InLine(t, b) /\ AllIn(t, b + 2, n, FieldByte)
    BY <1>7 DEF Read, ReadFieldName
  <2>2. b <= last /\ (b = last \/ IsField(t, b + 2, last))
    BY <2>1, LinesBelow DEF InLine
  <2>3. t[b + 2] \in FieldByte
    BY <2>1 DEF AllIn
  <2>4. b # last
    BY <1>2, <2>3, ByteClasses
  <2>5. PICK c \in b + 3 .. last : t[c] = Colon /\ AllIn(t, b + 2, c - 1, FieldByte)
    BY <2>2, <2>4 DEF IsField
  <2>6. n < c
    BY <2>1, <2>5, ByteClasses DEF AllIn
  <2>7. n + 1 = c \/ n + 1 \in b + 2 .. c - 1
    BY <2>1, <2>5, <2>6
  <2> QED
    BY <1>1, <1>7, <2>5, <2>6, <2>7 DEF Expects, AllIn
<1>8. CASE st \in {18, 19}
  <2>1. PICK b \in 1 .. n - 3 : \E c \in b + 3 .. n :
          /\ InLine(t, b) /\ AllIn(t, b + 2, c - 1, FieldByte) /\ t[c] = Colon
          /\ \A k \in c + 1 .. n : t[k] # CR
    BY <1>8 DEF Read, ReadField
  <2>2. PICK c \in b + 3 .. n :
          /\ InLine(t, b) /\ AllIn(t, b + 2, c - 1, FieldByte) /\ t[c] = Colon
          /\ \A k \in c + 1 .. n : t[k] # CR
    BY <2>1
  <2>3. b <= last /\ t[b + 1] = LF
    BY <2>2, LinesBelow DEF InLine
  <2>4. b # last
    BY <1>2, <2>2, ByteClasses DEF AllIn
  <2>5. \A k \in b + 1 .. n : t[k] # CR
    BY SMTT(30), <2>2, <2>3, ByteClasses DEF AllIn
  <2>6. n < last
    BY <1>1, <1>2, <2>3, <2>4, <2>5
  <2> QED
    BY SMTT(60), <1>1, <1>8, <2>6 DEF Expects
<1> QED
  BY <1>4, <1>5, <1>6, <1>7, <1>8

\* A beginning of a request leads the parser neither to its end nor to an error.
LEMMA RequestGoesOn ==
  ASSUME NEW t \in Seq(Octet), NEW n \in Nat, NEW st \in 0 .. 52, st # error,
         IsRequest(t), Read(st, t, n)
  PROVE  n < Len(t) /\ Move(st, t[n + 1]).to # error
<1>1. PICK i, j, end, last \in Int : Parts(t, i, j, end, last)
  BY RequestHasParts
<1>2. CASE st \in {start, 2, 3} \cup 34 .. 52
  BY <1>1, <1>2, MethodGoesOn, ExpectedIsTaken
<1>3. CASE st \in {4} \cup 20 .. 33
  BY <1>1, <1>3, UriGoesOn, ExpectedIsTaken
<1>4. CASE st \in 5 .. 13
  BY <1>1, <1>4, VersionGoesOn, ExpectedIsTaken
<1>5. CASE st \in 14 .. 19
  BY <1>1, <1>5, FieldGoesOn, ExpectedIsTaken
<1> QED
  BY <1>2, <1>3, <1>4, <1>5

-----------------------------------------------------------------------------
(* A byte takes what was read in one state to what is read in the next *)

LEMMA ReadOf ==
  ASSUME NEW t, NEW n \in Nat, NEW st \in 0 .. 52,
         \/ (st = 2 \/ st \in 34 .. 52) /\ ReadMethod(st, t, n)
         \/ st = 3 /\ n >= 1 /\ IsMethodEnd(t, n)
         \/ st = 4 /\ n >= 2 /\ IsMethodEnd(t, n - 1) /\ t[n] = Star
         \/ st \in 5 .. 13 /\ ReadVersion(st, t, n)
         \/ st = 14 /\ n >= 1 /\ LinesTo(t, n)
         \/ st = 15 /\ n >= 2 /\ InLine(t, n - 1)
         \/ st = 16 /\ n >= 3 /\ InLine(t, n - 2) /\ t[n] = CR
         \/ st = 17 /\ ReadFieldName(t, n)
         \/ st \in {18, 19} /\ ReadField(t, n)
         \/ st = 20 /\ ReadScheme(t, n)
         \/ st \in 21 .. 23 /\ ReadAbsolute(t, n, st - 21)
         \/ st \in 24 .. 26 /\ ReadPath(t, n, st - 24)
         \/ st \in 27 .. 29 /\ ReadPath(t, n, st - 27)
         \/ st \in {30, 31} /\ ReadPath(t, n, 0)
         \/ st \in {32, 33} /\ ReadPath(t, n, st - 31)
  PROVE  Read(st, t, n)
BY DEF Read

LEMMA MethodTo ==
  ASSUME NEW c, NEW st \in {2} \cup 34 .. 52
  PROVE  /\ Move(start, c).to = IF c \in MethodByte THEN 2 ELSE error
         /\ c = Space => Move(st, c).to = 3
         /\ c \in MethodByte /\ st # 52 => Move(st, c).to = IF st = 2 THEN 34 ELSE st + 1
         /\ c # Space /\ ~(c \in MethodByte /\ st # 52) => Move(st, c).to = error
<1>1. Move(start, c) = MethodStart(c) /\ Move(st, c) = Method(st, c)
  BY MoveOf
<1> QED
  BY <1>1, LeadsTo, MethodMoves DEF Refuse

LEMMA MethodRead ==
  ASSUME NEW t \in Seq(Octet), NEW n \in Nat, NEW st \in {start, 2} \cup 34 .. 52,
         NEW to, to = Move(st, t[n + 1]).to, to # error, Read(st, t, n)
  PROVE  to \in 2 .. 52 /\ Read(to, t, n + 1)
<1>1. CASE st = start
  <2>1. t[n + 1] \in MethodByte /\ to = 2
    BY <1>1, MethodTo
  <2>2. n = 0
    BY <1>1 DEF Read
  <2>3. ReadMethod(2, t, 1)
    BY <2>1, <2>2 DEF ReadMethod, IsMethod, AllIn
  <2> QED
    BY <2>1, <2>2, <2>3, ReadOf
<1>2. CASE st = 2 \/ st \in 34 .. 52
  <2>1. n = (IF st = 2 THEN 1 ELSE st - 32) /\ IsMethod(t, 1, n)
    BY <1>2 DEF Read, ReadMethod
  <2>2. CASE t[n + 1] = Space
    <3>1. to = 3
      BY <1>2, <2>2, MethodTo
    <3>2. IsMethodEnd(t, n + 1)
      BY <2>1, <2>2 DEF IsMethodEnd
    <3> QED
      BY <2>1, <3>1, <3>2, ReadOf
  <2>3. CASE t[n + 1] \in MethodByte /\ st # 52
    <3>1. to = IF st = 2 THEN 34 ELSE st + 1
      BY <1>2, <2>3, MethodTo
    <3>2. n + 1 = to - 32 /\ n + 1 \in 1 .. 20
      BY <1>2, <2>1, <2>3, <3>1
    <3>3. IsMethod(t, 1, n + 1)
      BY <2>1, <2>3, <3>2 DEF IsMethod, AllIn
    <3>4. to \in 34 .. 52
      BY <1>2, <2>3, <3>1
    <3>5. ReadMethod(to, t, n + 1)
      BY <3>2, <3>3, <3>4 DEF ReadMethod
    <3>6. n + 1 \in Nat /\ to \in 0 .. 52 /\ ((to = 2 \/ to \in 34 .. 52) /\ ReadMethod(to, t, n + 1))
      BY <3>4, <3>5
    <3>7. Read(to, t, n + 1)
      BY <3>6, ReadOf
    <3> QED
      BY <3>4, <3>7
  <2> QED
    BY ZenonT(60), <1>2, <2>2, <2>3, MethodTo
<1> QED
  BY <1>1, <1>2

\* The next byte of an address.
LEMMA AddressRead ==
  ASSUME NEW t, NEW a \in Int, NEW n \in Int, a - 1 <= n, NEW open \in 0 .. 2,
         Address(t, a, n, open)
  PROVE  /\ open = 0 /\ t[n + 1] \in UriByte \cup {Semicolon, Question} => Address(t, a, n + 1, 0)
         /\ open = 0 /\ t[n + 1] = Percent => Address(t, a, n + 1, 1)
         /\ open = 1 /\ t[n + 1] \in Hex => Address(t, a, n + 1, 2)
         /\ open = 2 /\ t[n + 1] \in Hex => Address(t, a, n + 1, 0)
<1>1. CASE open = 0 /\ t[n + 1] \in UriByte \cup {Semicolon, Question}
  <2>1. t[n + 1] # Percent
    BY <1>1, ByteClasses
  <2>2. Escaped(t, a, n + 1)
    BY <1>1, <2>1 DEF Address, Escaped, AllIn
  <2> QED
    BY <1>1, <2>1, <2>2 DEF Address
<1>2. CASE open = 0 /\ t[n + 1] = Percent
  <2>1. n + 1 - 1 = n /\ Percent \notin UriByte \cup {Semicolon, Question}
    BY ByteClasses
  <2> QED
    BY <1>2, <2>1 DEF Address
<1>3. CASE open = 1 /\ t[n + 1] \in Hex
  <2>1. n + 1 - 1 = n /\ n + 1 - 2 = n - 1
    OBVIOUS
  <2> QED
    BY <1>3, <2>1 DEF Address
<1>4. CASE open = 2 /\ t[n + 1] \in Hex
  <2>1. a < n /\ t[n - 1] = Percent /\ t[n] \in Hex /\ Escaped(t, a, n - 2)
    BY <1>4 DEF Address
  <2>2. \A c \in Hex : c \in UriByte /\ c # Percent
    BY ByteClasses DEF Hex, UriByte, DigitByte
  <2>3. AllIn(t, a, n + 1, UriByte \cup {Percent, Semicolon, Question})
    <3>1. \A k \in a .. n + 1 : k \in a .. n - 2 \/ k = n - 1 \/ k = n \/ k = n + 1
      OBVIOUS
    <3> QED
      BY <1>4, <2>1, <2>2, <3>1 DEF Escaped, AllIn
  <2>4. ASSUME NEW k \in a .. n + 1, t[k] = Percent
        PROVE  k + 2 <= n + 1 /\ AllIn(t, k + 1, k + 2, Hex)
    <3>1. k \in a .. n - 2 \/ k = n - 1
      BY <1>4, <2>1, <2>2, <2>4
    <3>2. CASE k \in a .. n - 2
      BY <2>1, <2>4, <3>2 DEF Escaped
    <3>3. CASE k = n - 1
      BY <1>4, <2>1, <3>3 DEF AllIn
    <3> QED
      BY <3>1, <3>2, <3>3
  <2> QED
    BY <1>4, <2>3, <2>4 DEF Address, Escaped
<1> QED
  BY <1>1, <1>2, <1>3, <1>4


LEMMA UriTo ==
  ASSUME NEW c
  PROVE  /\ c = Star => Move(3, c).to = 4
         /\ c \in SchemeByte => Move(3, c).to = 20
         /\ c = Slash => Move(3, c).to = 24
         /\ c = Colon => Move(3, c).to = 21
         /\ c \notin {Star, Slash, Colon} \cup SchemeByte => Move(3, c).to = error
         /\ c = Space => Move(4, c).to = 5
         /\ c # Space => Move(4, c).to = error
         /\ c \in SchemeByte => Move(20, c).to = 20
         /\ c = Colon => Move(20, c).to = 21
         /\ c \notin {Colon} \cup SchemeByte => Move(20, c).to = error
<1>1. Move(3, c) = UriStart(c) /\ Move(4, c) = UriStar(c) /\ Move(20, c) = Scheme(c)
  BY MoveOf
<1> QED
  BY <1>1, LeadsTo, UriMoves DEF Refuse

\* Where a state waits for digits.
Open(st) ==
  IF st \in {22, 25, 28, 32} THEN 1 ELSE IF st \in {23, 26, 29, 33} THEN 2 ELSE 0

LEMMA AddressTo ==
  ASSUME NEW c, NEW st \in {21, 24, 27, 30, 31}
  PROVE  /\ c = Space => Move(st, c).to = 5
         /\ c = Percent => /\ Move(st, c).to = (IF st = 30 THEN 32 ELSE st + 1)
                           /\ Open(Move(st, c).to) = 1
         /\ c \in UriByte \cup {Semicolon, Question} =>
              /\ Move(st, c).to \in (IF st = 21 THEN {21} ELSE {24, 27, 30, 31})
              /\ Open(Move(st, c).to) = 0
         /\ c \notin AddressByte \cup {Space} => Move(st, c).to = error
<1>1. /\ Move(21, c) = Absolute(c) /\ Move(24, c) = Path(c) /\ Move(27, c) = Params(c)
      /\ Move(30, c) = QueryStart(c) /\ Move(31, c) = Query(c)
  BY MoveOf
<1>2. c = Space => Move(st, c).to = 5
  BY <1>1, LeadsTo, AddressMoves
<1>3. c = Percent => Move(st, c).to = IF st = 30 THEN 32 ELSE st + 1
  BY <1>1, LeadsTo, AddressMoves
<1>4. c \in UriByte \cup {Semicolon, Question} =>
        Move(st, c).to \in IF st = 21 THEN {21} ELSE {24, 27, 30, 31}
  <2>1. CASE st = 21
    BY <1>1, <2>1, LeadsTo, AddressMoves
  <2>2. CASE st = 24
    BY <1>1, <2>2, LeadsTo, AddressMoves
  <2>3. CASE st = 27
    BY <1>1, <2>3, LeadsTo, AddressMoves
  <2>4. CASE st \in {30, 31}
    BY <1>1, <2>4, LeadsTo, AddressMoves
  <2> QED
    BY <2>1, <2>2, <2>3, <2>4
<1>5. c \notin AddressByte \cup {Space} => Move(st, c).to = error
  BY <1>1, LeadsTo, AddressMoves DEF Refuse
<1> QED
  BY <1>2, <1>3, <1>4, <1>5 DEF Open

LEMMA EscapeTo ==
  ASSUME NEW c, NEW st \in {22, 23, 25, 26, 28, 29, 32, 33}
  PROVE  /\ c \notin Hex => Move(st, c).to = error
         /\ c \in Hex => Move(st, c).to = (IF Open(st) = 1 THEN st + 1 ELSE st - 2)
<1>1. Move(st, c) = Escape(st, c)
  BY MoveOf
<1> QED
  BY <1>1, LeadsTo, EscapeMoves DEF Refuse, Open

LEMMA UriRead ==
  ASSUME NEW t \in Seq(Octet), NEW n \in Nat, NEW st \in {3, 4, 20},
         NEW to, to = Move(st, t[n + 1]).to, to # error, Read(st, t, n)
  PROVE  to \in {4, 5, 20, 21, 24} /\ Read(to, t, n + 1)
<1>1. CASE st = 3
  <2>1. n >= 1 /\ IsMethodEnd(t, n)
    BY <1>1 DEF Read
  <2>2. CASE t[n + 1] = Star
    <3>1. to = 4 /\ n + 1 >= 2 /\ n + 1 - 1 = n
      BY <1>1, <2>1, <2>2, UriTo
    <3> QED
      BY <2>1, <2>2, <3>1, ReadOf
  <2>3. CASE t[n + 1] \in SchemeByte
    <3>1. to = 20
      BY <1>1, <2>3, UriTo
    <3>2. ReadScheme(t, n + 1)
      BY <2>1, <2>3 DEF ReadScheme, AllIn
    <3> QED
      BY <3>1, <3>2, ReadOf
  <2>4. CASE t[n + 1] = Slash
    <3>1. to = 24
      BY <1>1, <2>4, UriTo
    <3>2. Address(t, n + 1, n + 1, 0)
      <4>1. Slash \in UriByte /\ Slash # Percent
        BY DEF UriByte
      <4>2. \A k \in n + 1 .. n + 1 : t[k] = Slash
        BY <2>4
      <4> QED
        BY <4>1, <4>2 DEF Address, Escaped, AllIn
    <3>3. ReadPath(t, n + 1, 0)
      BY <2>1, <2>4, <3>2 DEF ReadPath
    <3> QED
      BY <3>1, <3>3, ReadOf
  <2>5. CASE t[n + 1] = Colon
    <3>1. to = 21
      BY <1>1, <2>5, UriTo
    <3>2. Address(t, n + 2, n + 1, 0) /\ AllIn(t, n + 1, n + 1 - 1, SchemeByte)
      BY DEF Address, Escaped, AllIn
    <3>3. ReadAbsolute(t, n + 1, 0)
      BY <2>1, <2>5, <3>2 DEF ReadAbsolute
    <3> QED
      BY <3>1, <3>3, ReadOf
  <2> QED
    BY <1>1, <2>2, <2>3, <2>4, <2>5, UriTo
<1>2. CASE st = 4
  <2>1. n >= 2 /\ IsMethodEnd(t, n - 1) /\ t[n] = Star
    BY <1>2 DEF Read
  <2>2. t[n + 1] = Space /\ to = 5
    BY <1>2, UriTo
  <2>3. IsUri(t, n - 1 + 1, n + 1 - 1)
    BY <2>1 DEF IsUri
  <2>4. IsUriEnd(t, n + 1)
    BY <2>1, <2>2, <2>3 DEF IsUriEnd
  <2>5. ReadVersion(5, t, n + 1)
    BY <2>4 DEF ReadVersion, IsProtocol
  <2> QED
    BY <2>2, <2>5, ReadOf
<1>3. CASE st = 20
  <2>1. PICK i \in 1 .. n - 1 : IsMethodEnd(t, i) /\ AllIn(t, i + 1, n, SchemeByte)
    BY <1>3 DEF Read, ReadScheme
  <2>2. CASE t[n + 1] \in SchemeByte
    <3>1. to = 20
      BY <1>3, <2>2, UriTo
    <3>2. ReadScheme(t, n + 1)
      BY <2>1, <2>2 DEF ReadScheme, AllIn
    <3> QED
      BY <3>1, <3>2, ReadOf
  <2>3. CASE t[n + 1] = Colon
    <3>1. to = 21
      BY <1>3, <2>3, UriTo
    <3>2. Address(t, n + 2, n + 1, 0) /\ AllIn(t, i + 1, n + 1 - 1, SchemeByte)
      BY <2>1 DEF Address, Escaped, AllIn
    <3>3. ReadAbsolute(t, n + 1, 0)
      BY <2>1, <2>3, <3>2 DEF ReadAbsolute
    <3> QED
      BY <3>1, <3>3, ReadOf
  <2> QED
    BY <1>3, <2>2, <2>3, UriTo
<1> QED
  BY <1>1, <1>2, <1>3


\* The next byte of an address, state by state.
LEMMA OpenTo ==
  ASSUME NEW t, NEW a \in Int, NEW n \in Int, a - 1 <= n, NEW st \in 21 .. 33,
         NEW to, to = Move(st, t[n + 1]).to, to # error, t[n + 1] # Space,
         Address(t, a, n, Open(st))
  PROVE  /\ Address(t, a, n + 1, Open(to))
         /\ st \in 21 .. 23 => to \in 21 .. 23
         /\ st \in 24 .. 33 => to \in 24 .. 33
<1>1. CASE st \in {21, 24, 27, 30, 31}
  <2>1. Open(st) = 0
    BY <1>1 DEF Open
  <2>2. t[n + 1] = Percent \/ t[n + 1] \in UriByte \cup {Semicolon, Question}
    BY <1>1, AddressTo DEF AddressByte
  <2>3. CASE t[n + 1] = Percent
    <3>1. to = (IF st = 30 THEN 32 ELSE st + 1) /\ Open(to) = 1
      BY <1>1, <2>3, AddressTo
    <3> QED
      BY <1>1, <2>1, <2>3, <3>1, AddressRead
  <2>4. CASE t[n + 1] \in UriByte \cup {Semicolon, Question}
    <3>1. to \in (IF st = 21 THEN {21} ELSE {24, 27, 30, 31}) /\ Open(to) = 0
      BY <1>1, <2>4, AddressTo
    <3> QED
      BY <1>1, <2>1, <2>4, <3>1, AddressRead
  <2> QED
    BY <2>2, <2>3, <2>4
<1>2. CASE st \in {22, 23, 25, 26, 28, 29, 32, 33}
  <2>1. t[n + 1] \in Hex /\ to = IF Open(st) = 1 THEN st + 1 ELSE st - 2
    BY <1>2, EscapeTo
  <2>2. CASE Open(st) = 1
    <3>1. st \in {22, 25, 28, 32}
      BY <1>2, <2>2 DEF Open
    <3>2. to = st + 1 /\ Open(to) = 2
      BY <2>1, <2>2, <3>1 DEF Open
    <3> QED
      BY <2>1, <2>2, <3>1, <3>2, AddressRead
  <2>3. CASE Open(st) = 2
    <3>1. st \in {23, 26, 29, 33}
      BY <1>2, <2>3 DEF Open
    <3>2. to = st - 2 /\ Open(to) = 0
      BY <2>1, <2>3, <3>1 DEF Open
    <3> QED
      BY <2>1, <2>3, <3>1, <3>2, AddressRead
  <2> QED
    BY <1>2, <2>2, <2>3 DEF Open
<1> QED
  BY <1>1, <1>2

LEMMA EndOfUriRead ==
  ASSUME NEW t, NEW n \in Nat, NEW st \in 21 .. 33, NEW to,
         to = Move(st, t[n + 1]).to, to # error, t[n + 1] = Space
  PROVE  Open(st) = 0 /\ to = 5 /\ (IsUriEnd(t, n + 1) => Read(5, t, n + 1))
<1>1. Space \notin Hex
  BY ByteClasses
<1>2. st \in {21, 24, 27, 30, 31} /\ to = 5
  BY <1>1, AddressTo, EscapeTo
<1>3. IsUriEnd(t, n + 1) => ReadVersion(5, t, n + 1)
  BY DEF ReadVersion, IsProtocol
<1> QED
  BY <1>2, <1>3, ReadOf DEF Open

LEMMA AbsoluteRead ==
  ASSUME NEW t \in Seq(Octet), NEW n \in Nat, NEW st \in 21 .. 23,
         NEW to, to = Move(st, t[n + 1]).to, to # error, Read(st, t, n)
  PROVE  to \in {5} \cup 21 .. 23 /\ Read(to, t, n + 1)
<1>1. \A s \in 21 .. 23 : Open(s) = s - 21
  BY DEF Open
<1>2. PICK i \in 1 .. n - 1 : \E c \in i + 1 .. n :
        /\ IsMethodEnd(t, i)
        /\ t[c] = Colon /\ AllIn(t, i + 1, c - 1, SchemeByte) /\ Address(t, c + 1, n, Open(st))
  BY <1>1 DEF Read, ReadAbsolute
<1>3. PICK c \in i + 1 .. n :
        /\ IsMethodEnd(t, i)
        /\ t[c] = Colon /\ AllIn(t, i + 1, c - 1, SchemeByte) /\ Address(t, c + 1, n, Open(st))
  BY <1>2
<1>4. CASE t[n + 1] = Space
  <2>1. Open(st) = 0 /\ to = 5 /\ (IsUriEnd(t, n + 1) => Read(5, t, n + 1))
    BY <1>4, EndOfUriRead
  <2>2. Escaped(t, c + 1, n) /\ n + 1 - 1 = n
    BY <1>3, <2>1 DEF Address
  <2>3. IsUri(t, i + 1, n)
    BY <1>3, <2>2 DEF IsUri
  <2>4. IsUriEnd(t, n + 1)
    BY <1>3, <1>4, <2>2, <2>3 DEF IsUriEnd
  <2> QED
    BY <2>1, <2>4
<1>5. CASE t[n + 1] # Space
  <2>1. c + 1 \in Int /\ n \in Int /\ (c + 1) - 1 <= n /\ st \in 21 .. 33
    BY <1>3
  <2>2. Address(t, c + 1, n + 1, Open(to)) /\ to \in 21 .. 23
    <3>1. Address(t, c + 1, n, Open(st))
      BY <1>3
    <3> QED
      BY <1>5, <2>1, <3>1, OpenTo
  <2>3. Open(to) = to - 21
    BY <1>1, <2>2
  <2>4. i \in 1 .. (n + 1) - 1 /\ c \in i + 1 .. n + 1
    BY <1>3
  <2>5. ReadAbsolute(t, n + 1, to - 21)
    BY <1>3, <2>2, <2>3, <2>4 DEF ReadAbsolute
  <2> QED
    BY <2>2, <2>5, ReadOf
<1> QED
  BY <1>4, <1>5

LEMMA PathRead ==
  ASSUME NEW t \in Seq(Octet), NEW n \in Nat, NEW st \in 24 .. 33,
         NEW to, to = Move(st, t[n + 1]).to, to # error, Read(st, t, n)
  PROVE  to \in {5} \cup 24 .. 33 /\ Read(to, t, n + 1)
<1>1. \A s \in 24 .. 33 :
        Open(s) = IF s \in 24 .. 26 THEN s - 24 ELSE IF s \in 27 .. 29 THEN s - 27
                  ELSE IF s \in {30, 31} THEN 0 ELSE s - 31
  BY DEF Open
<1>2. ReadPath(t, n, Open(st))
  BY <1>1 DEF Read
<1>3. PICK i \in 1 .. n - 1 :
        IsMethodEnd(t, i) /\ t[i + 1] = Slash /\ Address(t, i + 1, n, Open(st))
  BY <1>2 DEF ReadPath
<1>4. CASE t[n + 1] = Space
  <2>1. Open(st) = 0 /\ to = 5 /\ (IsUriEnd(t, n + 1) => Read(5, t, n + 1))
    BY SMTT(30), <1>4, EndOfUriRead
  <2>2. Escaped(t, i + 1, n) /\ n + 1 - 1 = n
    BY <1>3, <2>1 DEF Address
  <2>3. IsUri(t, i + 1, n)
    BY <1>3, <2>2 DEF IsUri
  <2>4. IsUriEnd(t, n + 1)
    BY <1>3, <1>4, <2>2, <2>3 DEF IsUriEnd
  <2> QED
    BY <2>1, <2>4
<1>5. CASE t[n + 1] # Space
  <2>1. i + 1 \in Int /\ n \in Int /\ (i + 1) - 1 <= n /\ st \in 21 .. 33
    BY <1>3
  <2>2. Address(t, i + 1, n + 1, Open(to)) /\ to \in 24 .. 33
    <3>1. Address(t, i + 1, n, Open(st))
      BY <1>3
    <3> QED
      BY <1>5, <2>1, <3>1, OpenTo, SMTT(120)
  <2>3. ReadPath(t, n + 1, Open(to))
    BY <1>3, <2>2 DEF ReadPath
  <2>4. Open(to) = IF to \in 24 .. 26 THEN to - 24 ELSE IF to \in 27 .. 29 THEN to - 27
                   ELSE IF to \in {30, 31} THEN 0 ELSE to - 31
    BY <1>1, <2>2
  <2>5. /\ to \in 24 .. 26 => ReadPath(t, n + 1, to - 24)
        /\ to \in 27 .. 29 => ReadPath(t, n + 1, to - 27)
        /\ to \in {30, 31} => ReadPath(t, n + 1, 0)
        /\ to \in {32, 33} => ReadPath(t, n + 1, to - 31)
    BY SMTT(60), <2>3, <2>4
  <2>6. n + 1 \in Nat
    OBVIOUS
  <2>7. Read(to, t, n + 1)
    <3>1. CASE to \in 24 .. 26
      BY <2>5, <2>6, <3>1, ReadOf
    <3>2. CASE to \in 27 .. 29
      BY SMTT(60), <2>5, <2>6, <3>2, ReadOf
    <3>3. CASE to \in {30, 31}
      BY <2>5, <2>6, <3>3, ReadOf
    <3>4. CASE to \in {32, 33}
      BY <2>5, <2>6, <3>4, ReadOf
    <3> QED
      BY <2>2, <3>1, <3>2, <3>3, <3>4
  <2> QED
    BY <2>2, <2>7
<1> QED
  BY <1>4, <1>5


LEMMA VersionTo ==
  ASSUME NEW c, NEW st \in 5 .. 13, Move(st, c).to # error
  PROVE  \/ st = 5 /\ c = 72 /\ Move(st, c).to = 6
         \/ st \in {6, 7} /\ c = 84 /\ Move(st, c).to = st + 1
         \/ st = 8 /\ c = 80 /\ Move(st, c).to = 9
         \/ st = 9 /\ c = Slash /\ Move(st, c).to = 10
         \/ st \in {10, 11} /\ c \in DigitByte /\ Move(st, c).to = 11
         \/ st = 11 /\ c = 46 /\ Move(st, c).to = 12
         \/ st \in {12, 13} /\ c \in DigitByte /\ Move(st, c).to = 13
         \/ st = 13 /\ c = CR /\ Move(st, c).to = 14
<1>1. Move(st, c) = Version(st, c)
  BY MoveOf
<1> QED
  BY <1>1, LeadsTo, VersionMoves DEF Refuse

LEMMA VersionRead ==
  ASSUME NEW t \in Seq(Octet), NEW n \in Nat, NEW st \in 5 .. 13,
         NEW to, to = Move(st, t[n + 1]).to, to # error, Read(st, t, n)
  PROVE  to \in 6 .. 14 /\ Read(to, t, n + 1)
<1>1. PICK j \in 1 .. n :
        /\ IsUriEnd(t, j)
        /\ IsProtocol(t, j, IF st <= 10 THEN st - 5 ELSE 5)
        /\ st <= 10 => n = j + st - 5
        /\ st = 11 => j + 6 <= n /\ AllIn(t, j + 6, n, DigitByte)
        /\ st = 12 => j + 7 <= n /\ AllIn(t, j + 6, n - 1, DigitByte) /\ t[n] = 46
        /\ st = 13 => \E d \in j + 7 .. n - 1 :
                        /\ AllIn(t, j + 6, d - 1, DigitByte) /\ t[d] = 46
                        /\ AllIn(t, d + 1, n, DigitByte)
  BY DEF Read, ReadVersion
<1>2. j \in 1 .. n + 1 /\ n + 1 \in Nat
  OBVIOUS
<1> DEFINE c == t[n + 1]
<1>9. \/ st = 5 /\ c = 72 /\ to = 6
      \/ st \in {6, 7} /\ c = 84 /\ to = st + 1
      \/ st = 8 /\ c = 80 /\ to = 9
      \/ st = 9 /\ c = Slash /\ to = 10
      \/ st \in {10, 11} /\ c \in DigitByte /\ to = 11
      \/ st = 11 /\ c = 46 /\ to = 12
      \/ st \in {12, 13} /\ c \in DigitByte /\ to = 13
      \/ st = 13 /\ c = CR /\ to = 14
  BY VersionTo
<1>3. CASE st \in 5 .. 9
  <2>1. to = st + 1 /\ n = j + st - 5
    BY <1>1, <1>3, <1>9
  <2>2. t[n + 1] = Protocol[st - 4]
    BY <1>3, <1>9 DEF Protocol
  <2>3. n + 1 = j + (st - 4) /\ to - 5 = st - 4
    BY <1>3, <2>1
  <2>4. \A k \in 1 .. st - 4 : k \in 1 .. st - 5 \/ k = st - 4
    BY <1>3
  <2>5. IsProtocol(t, j, to - 5)
    BY <1>1, <1>3, <2>2, <2>3, <2>4 DEF IsProtocol
  <2>6. ReadVersion(to, t, n + 1)
    BY <1>1, <1>2, <1>3, <2>1, <2>3, <2>5 DEF ReadVersion
  <2> QED
    BY <1>2, <1>3, <2>1, <2>6, ReadOf
<1>4. CASE to = 11
  <2>1. t[n + 1] \in DigitByte /\ st \in {10, 11}
    BY <1>4, <1>9
  <2>2. IsProtocol(t, j, 5)
    BY <1>1, <2>1
  <2>3. j + 6 <= n + 1 /\ AllIn(t, j + 6, n + 1, DigitByte)
    <3>1. CASE st = 10
      <4>1. n + 1 = j + 6
        BY <1>1, <3>1
      <4> QED
        BY <2>1, <4>1 DEF AllIn
    <3>2. CASE st = 11
      BY <1>1, <2>1, <3>2 DEF AllIn
    <3> QED
      BY <2>1, <3>1, <3>2
  <2>4. ReadVersion(11, t, n + 1)
    BY <1>1, <1>2, <2>2, <2>3 DEF ReadVersion
  <2> QED
    BY <1>2, <1>4, <2>4, ReadOf
<1>5. CASE to = 12
  <2>1. t[n + 1] = 46 /\ st = 11
    BY <1>5, <1>9
  <2>2. IsProtocol(t, j, 5) /\ j + 7 <= n + 1 /\ AllIn(t, j + 6, n + 1 - 1, DigitByte)
    BY <1>1, <2>1
  <2>3. ReadVersion(12, t, n + 1)
    BY <1>1, <1>2, <2>1, <2>2 DEF ReadVersion
  <2> QED
    BY <1>2, <1>5, <2>3, ReadOf
<1>6. CASE to = 13
  <2>1. t[n + 1] \in DigitByte /\ st \in {12, 13}
    BY <1>6, <1>9
  <2>2. IsProtocol(t, j, 5)
    BY <1>1, <2>1
  <2>3. \E d \in j + 7 .. n + 1 - 1 :
          AllIn(t, j + 6, d - 1, DigitByte) /\ t[d] = 46 /\ AllIn(t, d + 1, n + 1, DigitByte)
    <3>1. CASE st = 12
      <4>1. n \in j + 7 .. n + 1 - 1 /\ AllIn(t, j + 6, n - 1, DigitByte) /\ t[n] = 46
        BY <1>1, <3>1
      <4>2. AllIn(t, n + 1, n + 1, DigitByte)
        BY <2>1 DEF AllIn
      <4> QED
        BY <4>1, <4>2
    <3>2. CASE st = 13
      <4>1. PICK d \in j + 7 .. n - 1 :
              AllIn(t, j + 6, d - 1, DigitByte) /\ t[d] = 46 /\ AllIn(t, d + 1, n, DigitByte)
        BY <1>1, <3>2
      <4>2. AllIn(t, d + 1, n + 1, DigitByte) /\ d \in j + 7 .. n + 1 - 1
        BY <2>1, <4>1 DEF AllIn
      <4> QED
        BY <4>1, <4>2
    <3> QED
      BY <2>1, <3>1, <3>2
  <2>4. ReadVersion(13, t, n + 1)
    BY <1>1, <1>2, <2>2, <2>3 DEF ReadVersion
  <2> QED
    BY <1>2, <1>6, <2>4, ReadOf
<1>7. CASE to = 14
  <2>1. t[n + 1] = CR /\ st = 13
    BY <1>7, <1>9
  <2>2. PICK d \in j + 7 .. n - 1 :
          AllIn(t, j + 6, d - 1, DigitByte) /\ t[d] = 46 /\ AllIn(t, d + 1, n, DigitByte)
    BY <1>1, <2>1
  <2>3. IsProtocol(t, j, 5)
    BY <1>1, <2>1
  <2>4. IsVersion(t, j + 1, n + 1 - 1)
    <3>1. \A k \in 1 .. 5 : t[(j + 1) + k - 1] = Protocol[k]
      <4>1. \A k \in 1 .. 5 : (j + 1) + k - 1 = j + k
        OBVIOUS
      <4> QED
        BY <2>3, <4>1 DEF IsProtocol
    <3>2. d \in (j + 1) + 6 .. (n + 1 - 1) - 1 /\ (j + 1) + 5 = j + 6 /\ n + 1 - 1 = n
      BY <2>2
    <3>3. AllIn(t, (j + 1) + 5, d - 1, DigitByte) /\ t[d] = 46 /\ AllIn(t, d + 1, n + 1 - 1, DigitByte)
      BY <2>2, <3>2
    <3> QED
      BY <3>1, <3>2, <3>3 DEF IsVersion
  <2>5. PICK i \in 1 .. j - 1 : IsMethodEnd(t, i) /\ IsUri(t, i + 1, j - 1)
    BY <1>1 DEF IsUriEnd
  <2>6. i \in 1 .. n + 1 /\ j \in i + 1 .. n + 1 - 7
    BY <2>2, <2>5
  <2>7. IsRequestLine(t, n + 1)
    BY SMTT(30), <1>1, <2>1, <2>4, <2>5, <2>6 DEF IsRequestLine, IsUriEnd, IsMethodEnd
  <2>8. LinesTo(t, n + 1)
    BY <2>1, <2>7 DEF LinesTo, AreLines
  <2> QED
    BY <1>2, <1>7, <2>8, ReadOf
<1>8. to = 11 \/ to = 12 \/ to = 13 \/ to = 14 \/ st \in 5 .. 9
  BY <1>9
<1> QED
  BY <1>3, <1>4, <1>5, <1>6, <1>7, <1>8


LEMMA LineTo ==
  ASSUME NEW c, NEW st \in 14 .. 19, Move(st, c).to # error
  PROVE  \/ st = 14 /\ c = LF /\ Move(st, c).to = 15
         \/ st = 15 /\ c = CR /\ Move(st, c).to = 16
         \/ st \in {15, 17} /\ c \in FieldByte /\ Move(st, c).to = 17
         \/ st = 16 /\ c = LF /\ Move(st, c).to = first_final
         \/ st = 17 /\ c = Colon /\ Move(st, c).to = 18
         \/ st \in {18, 19} /\ c # CR /\ Move(st, c).to \in {18, 19}
         \/ st \in {18, 19} /\ c = CR /\ Move(st, c).to = 14
<1>1. CASE st \in 14 .. 16
  <2>1. Move(st, c) = LineEnd(st, c)
    BY <1>1, MoveOf
  <2> QED
    BY <1>1, <2>1, LeadsTo, LineMoves DEF Refuse
<1>2. CASE st = 17
  <2>1. Move(st, c) = FieldName(c)
    BY <1>2, MoveOf
  <2> QED
    BY <1>2, <2>1, LeadsTo, FieldNameMoves DEF Refuse
<1>3. CASE st \in {18, 19}
  <2>1. Move(st, c) = FieldValue(st, c)
    BY <1>3, MoveOf
  <2> QED
    BY <1>3, <2>1, LeadsTo, FieldValueMoves
<1> QED
  BY <1>1, <1>2, <1>3

\* A field with its CR is one line more.
LEMMA FieldIsLine ==
  ASSUME NEW t, NEW n \in Nat, ReadField(t, n), t[n + 1] = CR
  PROVE  LinesTo(t, n + 1)
<1>1. PICK b \in 1 .. n - 3 : \E c \in b + 3 .. n :
        /\ InLine(t, b) /\ AllIn(t, b + 2, c - 1, FieldByte) /\ t[c] = Colon
        /\ \A k \in c + 1 .. n : t[k] # CR
  BY DEF ReadField
<1>2. PICK c \in b + 3 .. n :
        /\ InLine(t, b) /\ AllIn(t, b + 2, c - 1, FieldByte) /\ t[c] = Colon
        /\ \A k \in c + 1 .. n : t[k] # CR
  BY <1>1
<1>3. PICK e \in 1 .. b : IsRequestLine(t, e) /\ AreLines(t, e, b)
  BY <1>2 DEF InLine, LinesTo
<1>4. IsField(t, b + 2, n + 1) /\ t[b + 1] = LF
  BY <1>2 DEF IsField, InLine
<1>5. ASSUME NEW k \in e .. n + 1 - 1, t[k] = CR
      PROVE  t[k + 1] = LF /\ IsField(t, k + 2, n + 1)
  <2>1. CASE k < b
    <3>1. k \in e .. b - 1
      BY <2>1
    <3>2. t[k + 1] = LF /\ IsField(t, k + 2, b)
      BY <1>3, <1>5, <3>1 DEF AreLines
    <3>3. b <= n + 1 /\ k \in Int
      OBVIOUS
    <3> QED
      BY <3>2, <3>3 DEF IsField
  <2>2. CASE k = b
    BY <1>4, <2>2
  <2>3. CASE k > b
    <3>1. k = b + 1 \/ k \in b + 2 .. c - 1 \/ k = c \/ k \in c + 1 .. n
      BY <2>3
    <3>2. FALSE
      BY <1>2, <1>4, <1>5, <3>1, ByteClasses DEF AllIn
    <3> QED
      BY <3>2
  <2> QED
    BY <2>1, <2>2, <2>3
<1>6. AreLines(t, e, n + 1)
  BY <1>5 DEF AreLines
<1> QED
  BY <1>3, <1>6 DEF LinesTo

LEMMA LineRead ==
  ASSUME NEW t \in Seq(Octet), NEW n \in Nat, NEW st \in 14 .. 19,
         NEW to, to = Move(st, t[n + 1]).to, to \notin {error, first_final}, Read(st, t, n)
  PROVE  to \in 14 .. 19 /\ Read(to, t, n + 1)
<1> DEFINE c == t[n + 1]
<1>1. \/ st = 14 /\ c = LF /\ to = 15
      \/ st = 15 /\ c = CR /\ to = 16
      \/ st \in {15, 17} /\ c \in FieldByte /\ to = 17
      \/ st = 17 /\ c = Colon /\ to = 18
      \/ st \in {18, 19} /\ c # CR /\ to \in {18, 19}
      \/ st \in {18, 19} /\ c = CR /\ to = 14
  BY LineTo
<1>2. n + 1 \in Nat
  OBVIOUS
<1>3. CASE st = 14 /\ c = LF /\ to = 15
  <2>1. n >= 1 /\ LinesTo(t, n)
    BY <1>3 DEF Read
  <2>2. n + 1 >= 2 /\ InLine(t, n + 1 - 1)
    BY <1>3, <2>1 DEF InLine
  <2> QED
    BY <1>2, <1>3, <2>2, ReadOf
<1>4. CASE st = 15 /\ c = CR /\ to = 16
  <2>1. n >= 2 /\ InLine(t, n - 1) /\ n + 1 - 2 = n - 1
    BY <1>4 DEF Read
  <2>2. n + 1 >= 3 /\ InLine(t, n + 1 - 2) /\ t[n + 1] = CR
    BY <1>4, <2>1
  <2> QED
    BY <1>2, <1>4, <2>2, ReadOf
<1>5. CASE st = 15 /\ c \in FieldByte /\ to = 17
  <2>1. n >= 2 /\ InLine(t, n - 1)
    BY <1>5 DEF Read
  <2>2. AllIn(t, n - 1 + 2, n + 1, FieldByte) /\ n - 1 \in 1 .. n + 1 - 2
    BY <1>5, <2>1 DEF AllIn
  <2>3. ReadFieldName(t, n + 1)
    BY <2>1, <2>2 DEF ReadFieldName
  <2> QED
    BY <1>2, <1>5, <2>3, ReadOf
<1>6. CASE st = 17
  <2>1. PICK b \in 1 .. n - 2 : InLine(t, b) /\ AllIn(t, b + 2, n, FieldByte)
    BY <1>6 DEF Read, ReadFieldName
  <2>2. CASE c \in FieldByte /\ to = 17
    <3>1. AllIn(t, b + 2, n + 1, FieldByte) /\ b \in 1 .. n + 1 - 2
      BY <2>1, <2>2 DEF AllIn
    <3>2. ReadFieldName(t, n + 1)
      BY <2>1, <3>1 DEF ReadFieldName
    <3> QED
      BY <1>2, <2>2, <3>2, ReadOf
  <2>3. CASE c = Colon /\ to = 18
    <3>1. b \in 1 .. n + 1 - 3 /\ n + 1 \in b + 3 .. n + 1 /\ n + 1 - 1 = n
      BY <2>1
    <3>2. AllIn(t, b + 2, n + 1 - 1, FieldByte) /\ \A k \in n + 1 + 1 .. n + 1 : t[k] # CR
      BY <2>1, <3>1
    <3>3. ReadField(t, n + 1)
      BY <2>1, <2>3, <3>1, <3>2 DEF ReadField
    <3> QED
      BY <1>2, <2>3, <3>3, ReadOf
  <2> QED
    BY <1>1, <1>6, <2>2, <2>3
<1>7. CASE st \in {18, 19} /\ c # CR /\ to \in {18, 19}
  <2>1. PICK b \in 1 .. n - 3 : \E x \in b + 3 .. n :
          /\ InLine(t, b) /\ AllIn(t, b + 2, x - 1, FieldByte) /\ t[x] = Colon
          /\ \A k \in x + 1 .. n : t[k] # CR
    BY <1>7 DEF Read, ReadField
  <2>2. PICK x \in b + 3 .. n :
          /\ InLine(t, b) /\ AllIn(t, b + 2, x - 1, FieldByte) /\ t[x] = Colon
          /\ \A k \in x + 1 .. n : t[k] # CR
    BY <2>1
  <2>3. b \in 1 .. n + 1 - 3 /\ x \in b + 3 .. n + 1 /\ \A k \in x + 1 .. n + 1 : t[k] # CR
    BY <1>7, <2>2
  <2>4. ReadField(t, n + 1)
    BY <2>2, <2>3 DEF ReadField
  <2> QED
    BY <1>2, <1>7, <2>4, ReadOf
<1>8. CASE st \in {18, 19} /\ c = CR /\ to = 14
  <2>1. LinesTo(t, n + 1)
    BY <1>8, FieldIsLine DEF Read
  <2> QED
    BY <1>2, <1>8, <2>1, ReadOf
<1> QED
  BY <1>1, <1>3, <1>4, <1>5, <1>6, <1>7, <1>8

\* A byte that is neither refused nor the last one leads to what the next state says.
LEMMA NextRead ==
  ASSUME NEW t \in Seq(Octet), NEW n \in Nat, NEW st \in 0 .. 52, st # error,
         NEW to, to = Move(st, t[n + 1]).to, to \notin {error, first_final}, Read(st, t, n)
  PROVE  to \in 2 .. 52 /\ Read(to, t, n + 1)
<1>0. to # error
  OBVIOUS
<1>1. CASE st \in {start, 2} \cup 34 .. 52
  BY ZenonT(40), <1>1, <1>0, MethodRead
<1>2. CASE st \in {3, 4, 20}
  <2>1. to \in {4, 5, 20, 21, 24} /\ Read(to, t, n + 1)
    BY <1>2, <1>0, UriRead
  <2> QED
    BY <2>1
<1>3. CASE st \in 21 .. 23
  <2>1. to \in {5} \cup 21 .. 23 /\ Read(to, t, n + 1)
    BY <1>3, <1>0, AbsoluteRead
  <2> QED
    BY <2>1
<1>4. CASE st \in 24 .. 33
  <2>1. to \in {5} \cup 24 .. 33 /\ Read(to, t, n + 1)
    BY ZenonT(60), <1>4, <1>0, PathRead
  <2> QED
    BY <2>1
<1>5. CASE st \in 5 .. 13
  <2>1. to \in 6 .. 14 /\ Read(to, t, n + 1)
    BY <1>5, <1>0, VersionRead
  <2> QED
    BY <2>1
<1>6. CASE st \in 14 .. 19
  <2>1. to \in 14 .. 19 /\ Read(to, t, n + 1)
    BY ZenonT(60), <1>6, <1>0, LineRead
  <2> QED
    BY <2>1
<1> QED
  BY <1>1, <1>2, <1>3, <1>4, <1>5, <1>6

\* Only the LF of the first empty line is the end, and what ends there is a request.
LEMMA LastRead ==
  ASSUME NEW t \in Seq(Octet), NEW n \in Nat, n < Len(t), NEW st \in 0 .. 52, st # error,
         Move(st, t[n + 1]).to = first_final, Read(st, t, n)
  PROVE  st = 16 /\ IsRequest(t) /\ HeaderLength(t) = n + 1
<1>1. st = 16 /\ t[n + 1] = LF
  <2>1. CASE st = start
    <3>1. MethodStart(t[n + 1]).to \in {2, error}
      BY LeadsTo DEF MethodStart, Refuse
    <3> QED
      BY <2>1, <3>1, MoveOf
  <2>7. CASE st \in {2} \cup 34 .. 52
    <3>1. Move(st, t[n + 1]).to \in {error, 3, 34} \/ (st # 52 /\ Move(st, t[n + 1]).to = st + 1)
      BY ZenonT(60), <2>7, MethodTo
    <3> QED
      BY <2>7, <3>1
  <2>2. CASE st \in {3, 4, 20}
    BY SMTT(30), <2>2, UriTo
  <2>3. CASE st \in {21, 24, 27, 30, 31}
    <3>1. Move(st, t[n + 1]).to \in {error, 5, 21, 24, 27, 30, 31, 32} \cup {st + 1}
      BY ZenonT(60), <2>3, AddressTo DEF AddressByte
    <3> QED
      BY <2>3, <3>1
  <2>4. CASE st \in {22, 23, 25, 26, 28, 29, 32, 33}
    <3>1. Move(st, t[n + 1]).to \in {error, st + 1, st - 2}
      BY <2>4, EscapeTo
    <3> QED
      BY <2>4, <3>1
  <2>5. CASE st \in 5 .. 13
    BY <2>5, VersionTo
  <2>6. CASE st \in 14 .. 19
    BY <2>6, LineTo
  <2> QED
    BY <2>1, <2>2, <2>3, <2>4, <2>5, <2>6, <2>7
<1>2. n >= 3 /\ LinesTo(t, n - 2) /\ t[n - 2 + 1] = LF /\ t[n] = CR
  BY <1>1 DEF Read, InLine
<1>3. PICK e \in 1 .. n - 2 : IsRequestLine(t, e) /\ AreLines(t, e, n - 2)
  BY <1>2 DEF LinesTo
<1>4. /\ n - 2 \in 1 .. Len(t) - 3 /\ t[n - 2] = CR /\ t[n - 2 + 1] = LF
      /\ t[n - 2 + 2] = CR /\ t[n - 2 + 3] = LF
  <2>1. n - 2 + 2 = n /\ n - 2 + 3 = n + 1 /\ Len(t) \in Nat
    OBVIOUS
  <2> QED
    BY <1>1, <1>2, <2>1 DEF LinesTo
<1>5. n - 2 \in EmptyLines(t)
  BY <1>4 DEF EmptyLines
<1>6. ASSUME NEW m \in EmptyLines(t), m < n - 2
      PROVE  FALSE
  <2>1. m \in Nat /\ m >= 1 /\ t[m] = CR /\ t[m + 2] = CR
    BY <1>6 DEF EmptyLines
  <2>2. m >= e
    <3> SUFFICES ASSUME m < e PROVE FALSE
      BY <2>1
    <3>1. e \in Nat /\ m \in 1 .. e - 1
      BY <2>1
    <3> QED
      BY <1>3, <2>1, <3>1, RequestLineHasNoCR
  <2>3. m \in e .. n - 2 - 1
    BY <1>6, <2>1, <2>2
  <2>4. IsField(t, m + 2, n - 2)
    BY <1>3, <2>1, <2>3 DEF AreLines
  <2>5. t[m + 2] \in FieldByte
    BY <2>1, <2>4 DEF IsField, AllIn
  <2> QED
    BY <2>1, <2>5, ByteClasses
<1>7. EmptyLines(t) \subseteq Nat
  BY DEF EmptyLines
<1>8. \A m \in EmptyLines(t) : n - 2 <= m
  BY <1>6, <1>7
<1>9. Min(EmptyLines(t)) = n - 2
  BY <1>5, <1>7, <1>8, MinOf
<1>10. IsRequest(t)
  BY <1>3, <1>5, <1>9 DEF IsRequest
<1> QED
  BY <1>1, <1>9, <1>10 DEF HeaderLength


-----------------------------------------------------------------------------
(* What is done with a byte *)

Separators == {Space, Semicolon, Question, CR}

\* The lists of callbacks that end a part of the request line.
Endings ==
  {<<"request_method">>, <<"request_uri">>, <<"request_path">>, <<"http_version">>,
   <<"request_path", "request_uri">>, <<"query_string", "request_uri">>,
   <<"query_start", "query_string", "request_uri">>}

LEMMA ActsOfGo ==
  \A acts, st : Go(st).acts = <<>> /\ Do(acts, st).acts = acts
BY DEF Go, Do

\* What is done in the request line.
LEMMA LineActs ==
  ASSUME NEW c, NEW st \in (0 .. 13 \cup 20 .. 52) \ {error}
  PROVE  \/ Move(st, c).acts \in {<<>>, <<"mark">>, <<"query_start">>}
         \/ Move(st, c).acts \in Endings /\ c \in Separators
<1>1. CASE st = start
  <2>1. MethodStart(c).acts \in {<<>>, <<"mark">>}
    BY ActsOfGo DEF MethodStart, Refuse
  <2> QED
    BY <1>1, <2>1, MoveOf
<1>2. CASE st \in {2} \cup 34 .. 52
  <2>1. Move(st, c) = Method(st, c)
    BY <1>2, MoveOf
  <2>2. Method(st, c).acts = <<>> \/ (Method(st, c).acts = <<"request_method">> /\ c = Space)
    <3>1. CASE c = Space
      BY ZenonT(60), <1>2, <3>1, MethodMoves, ActsOfGo
    <3>2. CASE c \in MethodByte /\ st # 52
      BY SMTT(30), <1>2, <3>2, MethodMoves, ActsOfGo
    <3>3. CASE c # Space /\ ~(c \in MethodByte /\ st # 52)
      BY SMTT(60), <1>2, <3>3, MethodMoves, ActsOfGo DEF Refuse
    <3> QED
      BY <3>1, <3>2, <3>3
  <2> QED
    BY <2>1, <2>2 DEF Endings, Separators
<1>3. CASE st \in {3, 4, 20}
  <2>1. /\ UriStart(c).acts \in {<<>>, <<"mark">>} /\ Scheme(c).acts = <<>>
        /\ UriStar(c).acts = <<>> \/ (UriStar(c).acts = <<"request_uri">> /\ c = Space)
    BY UriMoves, ActsOfGo DEF Refuse
  <2>2. Move(3, c) = UriStart(c) /\ Move(4, c) = UriStar(c) /\ Move(20, c) = Scheme(c)
    BY MoveOf
  <2>3. <<"request_uri">> \in Endings /\ Space \in Separators
    BY DEF Endings, Separators
  <2> QED
    BY <1>3, <2>1, <2>2, <2>3
<1>4. CASE st \in {21, 24, 27, 30, 31}
  <2>1. CASE c = Space
    <3>1. /\ Absolute(c).acts \in Endings /\ Path(c).acts \in Endings /\ Params(c).acts \in Endings
          /\ QueryStart(c).acts \in Endings /\ Query(c).acts \in Endings
      BY <2>1, AddressMoves, ActsOfGo DEF Endings
    <3> QED
      BY <1>4, <2>1, <3>1, MoveOf DEF Separators
  <2>2. CASE c # Space
    <3>1. /\ Absolute(c).acts = <<>> /\ Params(c).acts = <<>> /\ Query(c).acts = <<>>
          /\ QueryStart(c).acts \in {<<>>, <<"query_start">>}
      BY <2>2, AddressMoves, ActsOfGo DEF AddressByte, Refuse
    <3>2. Path(c).acts = <<>> \/ (Path(c).acts = <<"request_path">> /\ c \in {Semicolon, Question})
      BY <2>2, AddressMoves, ActsOfGo DEF AddressByte, Refuse
    <3>3. /\ Move(21, c) = Absolute(c) /\ Move(24, c) = Path(c) /\ Move(27, c) = Params(c)
          /\ Move(30, c) = QueryStart(c) /\ Move(31, c) = Query(c)
      BY MoveOf
    <3>4. <<"request_path">> \in Endings /\ Semicolon \in Separators /\ Question \in Separators
      BY DEF Endings, Separators
    <3> QED
      BY <1>4, <3>1, <3>2, <3>3, <3>4
  <2> QED
    BY <2>1, <2>2
<1>5. CASE st \in {22, 23, 25, 26, 28, 29, 32, 33}
  BY <1>5, MoveOf, EscapeMoves, ActsOfGo DEF Refuse
<1>6. CASE st \in 5 .. 13
  <2>1. Move(st, c) = Version(st, c)
    BY <1>6, MoveOf
  <2>2. Version(st, c).acts \in {<<>>, <<"mark">>}
        \/ (Version(st, c).acts = <<"http_version">> /\ c = CR)
    BY SMTT(30), <1>6, VersionMoves, ActsOfGo DEF Refuse
  <2> QED
    BY <2>1, <2>2 DEF Endings, Separators
<1> QED
  BY <1>1, <1>2, <1>3, <1>4, <1>5, <1>6

\* What is done in the fields.
LEMMA FieldActs ==
  ASSUME NEW c, NEW st \in 14 .. 19
  PROVE  \/ Move(st, c).acts \in {<<>>, <<"mark">>} /\ (Move(st, c).to \in {18, 19} => st \in {18, 19})
                                                    /\ Move(st, c).to # first_final
         \/ st = 15 /\ Move(st, c) = Do(<<"field_start">>, 17)
         \/ st = 17 /\ c = Colon /\ Move(st, c) = Do(<<"field_len">>, 18)
         \/ st \in {18, 19} /\ c = CR /\ Move(st, c) = Do(<<"http_field">>, 14)
         \/ st = 16 /\ Move(st, c) = Do(<<"header_done">>, first_final)
<1>1. CASE st \in 14 .. 16
  <2>1. Move(st, c) = LineEnd(st, c)
    BY <1>1, MoveOf
  <2> QED
    BY <1>1, <2>1, LeadsTo, ActsOfGo, LineMoves DEF Refuse
<1>2. CASE st = 17
  <2>1. Move(st, c) = FieldName(c)
    BY <1>2, MoveOf
  <2> QED
    BY <1>2, <2>1, LeadsTo, ActsOfGo, FieldNameMoves DEF Refuse
<1>3. CASE st \in {18, 19}
  <2>1. Move(st, c) = FieldValue(st, c)
    BY <1>3, MoveOf
  <2> QED
    BY <1>3, <2>1, LeadsTo, ActsOfGo, FieldValueMoves
<1> QED
  BY <1>1, <1>2, <1>3


\* A state of the struct, the buffer, the object and the objects passed on.
IsState(s) == s = [q |-> s.q, b |-> s.b, obj |-> s.obj, told |-> s.told]

Parser ==
  [cs : 0 .. 53, body_start : Int, nread : Int, mark : Int,
   field_start : Int, field_len : Int, query_start : Int]

LEMMA MarkDoes ==
  ASSUME NEW s, IsState(s), NEW at
  PROVE  /\ IsState(Act(s, "mark", at))
         /\ Act(s, "mark", at).q = [s.q EXCEPT !.mark = at]
         /\ Act(s, "mark", at).b = s.b /\ Act(s, "mark", at).told = s.told
<1>1. Act(s, "mark", at) = [s EXCEPT !.q.mark = at]
  BY DEF Act
<1> QED
  BY <1>1 DEF IsState

LEMMA QueryStartDoes ==
  ASSUME NEW s, IsState(s), NEW at
  PROVE  /\ IsState(Act(s, "query_start", at))
         /\ Act(s, "query_start", at).q = [s.q EXCEPT !.query_start = at]
         /\ Act(s, "query_start", at).b = s.b /\ Act(s, "query_start", at).told = s.told
<1>1. Act(s, "query_start", at) = [s EXCEPT !.q.query_start = at]
  BY DEF Act
<1> QED
  BY <1>1 DEF IsState

LEMMA FieldStartDoes ==
  ASSUME NEW s, IsState(s), NEW at
  PROVE  /\ Act(s, "field_start", at).q = [s.q EXCEPT !.field_start = at]
         /\ Act(s, "field_start", at).b = s.b /\ Act(s, "field_start", at).told = s.told
<1>1. Act(s, "field_start", at) = [s EXCEPT !.q.field_start = at]
  BY DEF Act
<1> QED
  BY <1>1 DEF IsState

LEMMA FieldLenDoes ==
  ASSUME NEW s, IsState(s), NEW at
  PROVE  /\ Act(s, "field_len", at).q = [s.q EXCEPT !.field_len = at - s.q.field_start]
         /\ Act(s, "field_len", at).b = s.b /\ Act(s, "field_len", at).told = s.told
<1>1. Act(s, "field_len", at) = [s EXCEPT !.q.field_len = at - s.q.field_start]
  BY DEF Act
<1> QED
  BY <1>1 DEF IsState

\* The callbacks that end a part.
Ending == {"request_method", "request_uri", "request_path", "query_string", "http_version"}

LEMMA EndingDoes ==
  ASSUME NEW s, IsState(s), NEW at, NEW act \in Ending
  PROVE  /\ IsState(Act(s, act, at)) /\ Act(s, act, at).b = Ended(s.b, at)
         /\ Act(s, act, at).q = s.q /\ Act(s, act, at).told = s.told
<1>1. PICK name, from : Act(s, act, at) = Element(s, name, from, at)
  BY DEF Act, Ending
<1>2. PICK o : Element(s, name, from, at) = [s EXCEPT !.b = Ended(s.b, at), !.obj = o]
  BY DEF Element
<1> QED
  BY <1>1, <1>2 DEF IsState

LEMMA http_fieldDoes ==
  ASSUME NEW s, IsState(s), NEW at
  PROVE  /\ Act(s, "http_field", at).b = Ended(Ended(s.b, s.q.field_start + s.q.field_len), at)
         /\ Act(s, "http_field", at).q = s.q /\ Act(s, "http_field", at).told = s.told
<1>1. Act(s, "http_field", at) = http_field(s, at)
  BY DEF Act
<1>2. PICK o : http_field(s, at) =
               [s EXCEPT !.b = Ended(Ended(s.b, s.q.field_start + s.q.field_len), at), !.obj = o]
  BY DEF http_field
<1> QED
  BY <1>1, <1>2 DEF IsState

LEMMA header_doneDoes ==
  ASSUME NEW s, IsState(s), NEW at
  PROVE  /\ Act(s, "header_done", at).b = s.b
         /\ Act(s, "header_done", at).q = [s.q EXCEPT !.body_start = at + 1]
         /\ Act(s, "header_done", at).told = Append(s.told, s.obj)
<1>1. PICK w : w = Append(s.told, s.obj)
  OBVIOUS
<1>2. Act(s, "header_done", at) = [s EXCEPT !.q.body_start = at + 1, !.told = w]
  BY <1>1 DEF Act, header_done
<1>3. /\ Act(s, "header_done", at).b = s.b
      /\ Act(s, "header_done", at).q = [s.q EXCEPT !.body_start = at + 1]
      /\ Act(s, "header_done", at).told = w
  BY <1>2 DEF IsState
<1> QED
  BY <1>1, <1>3

LEMMA NoActs == \A s, at : Acts(s, <<>>, at) = s
BY DEF Acts

LEMMA OneAct == \A s, at, x : Acts(s, <<x>>, at) = Act(s, x, at)
BY DEF Acts

LEMMA TwoActs == \A s, at, x, y : Acts(s, <<x, y>>, at) = Act(Act(s, x, at), y, at)
BY DEF Acts

LEMMA ThreeActs ==
  \A s, at, x, y, z : Acts(s, <<x, y, z>>, at) = Act(Act(Act(s, x, at), y, at), z, at)
BY DEF Acts

LEMMA EndedIs ==
  ASSUME NEW b \in Seq(Octet), NEW at \in Int
  PROVE  /\ Ended(b, at) \in Seq(Octet) /\ Len(Ended(b, at)) = Len(b)
         /\ \A i \in 1 .. Len(b) : Ended(b, at)[i] = IF i = at + 1 THEN NUL ELSE b[i]
<1>1. DOMAIN Ended(b, at) = 1 .. Len(b) /\ Len(b) \in Nat
  BY DEF Ended
<1>2. \A i \in 1 .. Len(b) : Ended(b, at)[i] = IF i = at + 1 THEN NUL ELSE b[i]
  BY DEF Ended
<1>3. \A i \in 1 .. Len(b) : Ended(b, at)[i] \in Octet
  <2>1. NUL \in Octet
    BY DEF Octet
  <2>2. \A i \in 1 .. Len(b) : b[i] \in Octet
    OBVIOUS
  <2> QED
    BY <1>2, <2>1, <2>2
<1>4. Ended(b, at) = [i \in 1 .. Len(b) |-> Ended(b, at)[i]]
  BY <1>1 DEF Ended
<1>5. Ended(b, at) \in Seq(Octet)
  BY <1>1, <1>3, <1>4, IsASeq
<1> QED
  BY <1>1, <1>2, <1>5

\* A byte in the request line: it may set a mark and put a NUL in place of itself.
LEMMA LineByte ==
  ASSUME NEW s, IsState(s), s.q \in Parser, s.b \in Seq(Octet), NEW at \in Nat, at < Len(s.b),
         NEW acts \in {<<>>, <<"mark">>, <<"query_start">>} \cup Endings
  PROVE  /\ Acts(s, acts, at).q \in Parser
         /\ Acts(s, acts, at).q.mark \in {s.q.mark, at}
         /\ Acts(s, acts, at).q.field_start = s.q.field_start
         /\ Acts(s, acts, at).q.field_len = s.q.field_len
         /\ Acts(s, acts, at).q.body_start = s.q.body_start
         /\ Acts(s, acts, at).q.nread = s.q.nread
         /\ Acts(s, acts, at).told = s.told
         /\ acts \in {<<>>, <<"mark">>, <<"query_start">>} => Acts(s, acts, at).b = s.b
         /\ acts \in Endings =>
              Acts(s, acts, at).b \in {Ended(s.b, at), Ended(Ended(s.b, at), at)}
<1> DEFINE r == Acts(s, acts, at)
           Marked(q) == q \in {s.q, [s.q EXCEPT !.mark = at], [s.q EXCEPT !.query_start = at]}
<1>1. ASSUME acts \in {<<>>, <<"mark">>, <<"query_start">>}
      PROVE  Marked(r.q) /\ r.told = s.told /\ r.b = s.b
  <2>1. CASE acts = <<>>
    BY <2>1, NoActs
  <2>2. CASE acts = <<"mark">>
    <3>1. r = Act(s, "mark", at)
      BY <2>2, OneAct
    <3>2. r.q = [s.q EXCEPT !.mark = at] /\ r.b = s.b /\ r.told = s.told
      BY <3>1, MarkDoes
    <3> QED
      BY <3>2
  <2>3. CASE acts = <<"query_start">>
    <3>1. r = Act(s, "query_start", at)
      BY <2>3, OneAct
    <3>2. r.q = [s.q EXCEPT !.query_start = at] /\ r.b = s.b /\ r.told = s.told
      BY <3>1, QueryStartDoes
    <3> QED
      BY <3>2
  <2> QED
    BY <1>1, <2>1, <2>2, <2>3
<1>3. ASSUME acts \in Endings
      PROVE  /\ Marked(r.q) /\ r.told = s.told
             /\ r.b \in {Ended(s.b, at), Ended(Ended(s.b, at), at)}
  <2>4. ASSUME acts \in Endings, NEW x \in Ending, acts = <<x>>
        PROVE  r.b = Ended(s.b, at) /\ r.told = s.told /\ r.q = s.q
    <3>1. r = Act(s, x, at)
      BY <2>4, OneAct
    <3> HIDE DEF r
    <3> QED
      BY <3>1, EndingDoes
  <2>5. ASSUME acts \in Endings, NEW x \in Ending, NEW y \in Ending, acts = <<x, y>>
        PROVE  r.b = Ended(Ended(s.b, at), at) /\ r.told = s.told /\ r.q = s.q
    <3> DEFINE s1 == Act(s, x, at)
    <3>1. r = Act(s1, y, at)
      <4>1. Acts(s, <<x, y>>, at) = Act(s1, y, at)
        BY TwoActs
      <4> QED
        BY <2>5, <4>1
    <3>2. IsState(s1) /\ s1.b = Ended(s.b, at) /\ s1.told = s.told /\ s1.q = s.q
      BY EndingDoes
    <3> HIDE DEF r, s1
    <3>3. r.b = Ended(s1.b, at) /\ r.told = s1.told /\ r.q = s1.q
      BY <3>1, <3>2, EndingDoes
    <3> QED
      BY <3>2, <3>3
  <2>6. CASE acts \in Endings /\ acts = <<"query_start", "query_string", "request_uri">>
    <3> DEFINE s1 == Act(s, "query_start", at)
               s2 == Act(s1, "query_string", at)
    <3>1. r = Act(s2, "request_uri", at)
      <4>1. Acts(s, <<"query_start", "query_string", "request_uri">>, at) = Act(s2, "request_uri", at)
        BY ThreeActs
      <4> QED
        BY <2>6, <4>1
    <3>2. IsState(s1) /\ s1.b = s.b /\ s1.told = s.told /\ s1.q = [s.q EXCEPT !.query_start = at]
      BY QueryStartDoes
    <3>0. "query_string" \in Ending /\ "request_uri" \in Ending
      BY DEF Ending
    <3> HIDE DEF s1
    <3>3. IsState(s2) /\ s2.b = Ended(s1.b, at) /\ s2.told = s1.told /\ s2.q = s1.q
      BY <3>0, <3>2, EndingDoes
    <3> HIDE DEF r, s2
    <3>4. r.b = Ended(s2.b, at) /\ r.told = s2.told /\ r.q = s2.q
      BY <3>0, <3>1, <3>3, EndingDoes
    <3> QED
      BY <2>6, <3>2, <3>3, <3>4
  <2>7. \/ \E x \in Ending : acts = <<x>>
        \/ \E x, y \in Ending : acts = <<x, y>>
        \/ acts = <<"query_start", "query_string", "request_uri">>
    BY <1>3 DEF Endings, Ending
  <2> HIDE DEF r
  <2> QED
    BY <1>3, <2>7, <2>4, <2>5, <2>6
<1> HIDE DEF r
<1>2. r.q \in Parser /\ r.q.mark \in {s.q.mark, at} /\ r.q.field_start = s.q.field_start
      /\ r.q.field_len = s.q.field_len /\ r.q.body_start = s.q.body_start /\ r.q.nread = s.q.nread
  <2>1. at \in Int
    OBVIOUS
  <2>2. CASE r.q = s.q
    BY <2>2
  <2>3. CASE r.q = [s.q EXCEPT !.mark = at]
    BY <2>1, <2>3 DEF Parser
  <2>4. CASE r.q = [s.q EXCEPT !.query_start = at]
    BY <2>1, <2>4 DEF Parser
  <2> QED
    BY <1>1, <1>3, <2>2, <2>3, <2>4
<1> QED
  BY <1>1, <1>2, <1>3 DEF r


LEMMA LineLeads ==
  ASSUME NEW c, NEW st \in (0 .. 13 \cup 20 .. 52) \ {error}
  PROVE  Move(st, c).to \in 0 .. 14 \cup 20 .. 52
<1>1. CASE st = start
  <2>1. MethodStart(c).to \in {2, error}
    BY LeadsTo DEF MethodStart, Refuse
  <2> QED
    BY <1>1, <2>1, MoveOf
<1>2. CASE st \in {2} \cup 34 .. 52
  <2>1. Move(st, c).to \in {error, 3, 34} \/ (st # 52 /\ Move(st, c).to = st + 1)
    BY <1>2, MethodTo
  <2> QED
    BY <1>2, <2>1
<1>3. CASE st \in {3, 4, 20}
  BY <1>3, UriTo
<1>4. CASE st \in {21, 24, 27, 30, 31}
  <2>1. Move(st, c).to \in {error, 5, 21, 24, 27, 30, 31, 32} \cup {st + 1}
    BY <1>4, AddressTo DEF AddressByte
  <2> QED
    BY <1>4, <2>1
<1>5. CASE st \in {22, 23, 25, 26, 28, 29, 32, 33}
  <2>1. Move(st, c).to \in {error, st + 1, st - 2}
    BY <1>5, EscapeTo
  <2> QED
    BY <1>5, <2>1 DEF Open
<1>6. CASE st \in 5 .. 13
  BY <1>6, VersionTo
<1> QED
  BY <1>1, <1>2, <1>3, <1>4, <1>5, <1>6

\* What a byte at an offset does to the struct, the buffer and the objects.
Changes(s, r, st, c, to, at) ==
  /\ r.q \in Parser /\ r.q.nread = s.q.nread
  /\ r.q.mark \in {s.q.mark, at} /\ r.q.field_start \in {s.q.field_start, at}
  /\ r.q.field_len \in {s.q.field_len, at - s.q.field_start}
  /\ to = first_final => r.q.body_start = at + 1 /\ \E o : r.told = Append(s.told, o)
  /\ to # first_final => r.q.body_start = s.q.body_start /\ r.told = s.told
  /\ r.b \in Seq(Octet) /\ Len(r.b) = Len(s.b)
  /\ \A i \in 1 .. Len(s.b) :
       \/ r.b[i] = s.b[i]
       \/ r.b[i] = NUL /\ i = at + 1 /\ c \in Separators
       \/ r.b[i] = NUL /\ st \in {18, 19} /\ i = s.q.field_start + s.q.field_len + 1
  /\ to \in {18, 19} =>
       \/ /\ st \in {18, 19}
          /\ r.q.field_start = s.q.field_start /\ r.q.field_len = s.q.field_len
       \/ c = Colon /\ r.q.field_start + r.q.field_len = at

LEMMA ByteChanges ==
  ASSUME NEW s, IsState(s), s.q \in Parser, s.b \in Seq(Octet), NEW at \in Nat, at < Len(s.b),
         NEW st \in 0 .. 52, st # error, NEW c
  PROVE  Changes(s, Acts(s, Move(st, c).acts, at), st, c, Move(st, c).to, at)
<1> DEFINE acts == Move(st, c).acts
           to == Move(st, c).to
           r == Acts(s, acts, at)
<1>0. at \in Int /\ s.q.field_start \in Int /\ s.q.field_len \in Int
  BY DEF Parser
<1>1. \A i \in 1 .. Len(s.b) : Ended(s.b, at)[i] = IF i = at + 1 THEN NUL ELSE s.b[i]
  BY <1>0, EndedIs
<1>2. Ended(s.b, at) \in Seq(Octet) /\ Len(Ended(s.b, at)) = Len(s.b)
  BY <1>0, EndedIs
<1>3. /\ Ended(Ended(s.b, at), at) \in Seq(Octet) /\ Len(Ended(Ended(s.b, at), at)) = Len(s.b)
      /\ \A i \in 1 .. Len(s.b) :
           Ended(Ended(s.b, at), at)[i] = IF i = at + 1 THEN NUL ELSE Ended(s.b, at)[i]
  BY <1>0, <1>2, EndedIs
<1>4. CASE st \notin 14 .. 19
  <2>1. acts \in {<<>>, <<"mark">>, <<"query_start">>} \/ (acts \in Endings /\ c \in Separators)
    BY <1>4, LineActs
  <2>2. to \notin {18, 19, first_final}
    <3>1. st \in (0 .. 13 \cup 20 .. 52) \ {error}
      BY <1>4
    <3>2. to \in 0 .. 14 \cup 20 .. 52
      BY <3>1, LineLeads
    <3> HIDE DEF to
    <3> QED
      BY <3>2
  <2> HIDE DEF acts, to
  <2>3. /\ r.q \in Parser /\ r.q.mark \in {s.q.mark, at}
        /\ r.q.field_start = s.q.field_start /\ r.q.field_len = s.q.field_len
        /\ r.q.body_start = s.q.body_start /\ r.q.nread = s.q.nread /\ r.told = s.told
        /\ acts \in {<<>>, <<"mark">>, <<"query_start">>} => r.b = s.b
        /\ acts \in Endings => r.b \in {Ended(s.b, at), Ended(Ended(s.b, at), at)}
    <3>1. acts \in {<<>>, <<"mark">>, <<"query_start">>} \cup Endings
      BY <2>1
    <3> QED
      BY <3>1, LineByte
  <2> HIDE DEF r
  <2>4. /\ r.b \in Seq(Octet) /\ Len(r.b) = Len(s.b)
        /\ \A i \in 1 .. Len(s.b) :
             r.b[i] = s.b[i] \/ (r.b[i] = NUL /\ i = at + 1 /\ c \in Separators)
    BY <1>1, <1>2, <1>3, <2>1, <2>3
  <2>5. Changes(s, r, st, c, to, at)
    BY <2>2, <2>3, <2>4 DEF Changes
  <2> QED
    BY <2>5 DEF r, acts, to
<1>5. CASE st \in 14 .. 19 /\ acts \in {<<>>, <<"mark">>}
           /\ (to \in {18, 19} => st \in {18, 19}) /\ to # first_final
  <2>1. /\ r.q \in Parser /\ r.q.mark \in {s.q.mark, at}
        /\ r.q.field_start = s.q.field_start /\ r.q.field_len = s.q.field_len
        /\ r.q.body_start = s.q.body_start /\ r.q.nread = s.q.nread /\ r.told = s.told
        /\ r.b = s.b
    <3>1. CASE acts = <<>>
      BY <3>1, NoActs
    <3>2. CASE acts = <<"mark">>
      <4>1. r = Act(s, "mark", at)
        BY <3>2, OneAct
      <4>2. r.q = [s.q EXCEPT !.mark = at] /\ r.b = s.b /\ r.told = s.told
        BY <4>1, MarkDoes
      <4> HIDE DEF r
      <4> QED
        BY <1>0, <4>2 DEF Parser
    <3> QED
      BY <1>5, <3>1, <3>2
  <2> HIDE DEF r, acts, to
  <2>2. Changes(s, r, st, c, to, at)
    BY <1>5, <2>1 DEF Changes
  <2> QED
    BY <2>2 DEF r, acts, to
<1>6. CASE st = 15 /\ acts = <<"field_start">> /\ to = 17
  <2>1. r = Act(s, "field_start", at)
    BY <1>6, OneAct
  <2>2. r.q = [s.q EXCEPT !.field_start = at] /\ r.b = s.b /\ r.told = s.told
    BY <2>1, FieldStartDoes
  <2> HIDE DEF r, acts, to
  <2>3. /\ r.q \in Parser /\ r.q.mark = s.q.mark /\ r.q.field_start = at /\ r.q.field_len = s.q.field_len
        /\ r.q.body_start = s.q.body_start /\ r.q.nread = s.q.nread
    BY <1>0, <2>2 DEF Parser
  <2>4. Changes(s, r, st, c, to, at)
    BY <1>6, <2>2, <2>3 DEF Changes
  <2> QED
    BY <2>4 DEF r, acts, to
<1>7. CASE st = 17 /\ c = Colon /\ acts = <<"field_len">> /\ to = 18
  <2>1. r = Act(s, "field_len", at)
    BY <1>7, OneAct
  <2>2. r.q = [s.q EXCEPT !.field_len = at - s.q.field_start] /\ r.b = s.b /\ r.told = s.told
    BY <2>1, FieldLenDoes
  <2> DEFINE len == at - s.q.field_start
  <2>6. len \in Int /\ s.q.field_start + len = at
    BY <1>0
  <2>7. r.q = [s.q EXCEPT !.field_len = len]
    BY <2>2
  <2> HIDE DEF r, acts, to, len
  <2>3. /\ r.q \in Parser /\ r.q.mark = s.q.mark /\ r.q.field_start = s.q.field_start
        /\ r.q.field_len = len
        /\ r.q.body_start = s.q.body_start /\ r.q.nread = s.q.nread
    BY <1>0, <2>6, <2>7 DEF Parser
  <2>4. r.q.field_start + r.q.field_len = at
    BY <2>3, <2>6
  <2>5. Changes(s, r, st, c, to, at)
    BY <1>7, <2>2, <2>3, <2>4 DEF Changes, len
  <2> QED
    BY <2>5 DEF r, acts, to
<1>8. CASE st \in {18, 19} /\ c = CR /\ acts = <<"http_field">> /\ to = 14
  <2> DEFINE name == s.q.field_start + s.q.field_len
             b1 == Ended(s.b, name)
  <2>1. r = Act(s, "http_field", at)
    BY <1>8, OneAct
  <2>2. r.b = Ended(b1, at) /\ r.q = s.q /\ r.told = s.told
    BY <2>1, http_fieldDoes
  <2>3. name \in Int
    BY <1>0
  <2> HIDE DEF r, acts, to, name
  <2>4. /\ b1 \in Seq(Octet) /\ Len(b1) = Len(s.b)
        /\ \A i \in 1 .. Len(s.b) : b1[i] = IF i = name + 1 THEN NUL ELSE s.b[i]
    BY <2>3, EndedIs
  <2> HIDE DEF b1
  <2>5. /\ Ended(b1, at) \in Seq(Octet) /\ Len(Ended(b1, at)) = Len(s.b)
        /\ \A i \in 1 .. Len(s.b) : Ended(b1, at)[i] = IF i = at + 1 THEN NUL ELSE b1[i]
    BY <1>0, <2>4, EndedIs
  <2>6. c \in Separators
    BY <1>8 DEF Separators
  <2>7. /\ r.b \in Seq(Octet) /\ Len(r.b) = Len(s.b)
        /\ \A i \in 1 .. Len(s.b) :
             \/ r.b[i] = s.b[i]
             \/ r.b[i] = NUL /\ i = at + 1 /\ c \in Separators
             \/ r.b[i] = NUL /\ st \in {18, 19} /\ i = name + 1
    BY <1>8, <2>2, <2>4, <2>5, <2>6
  <2>8. Changes(s, r, st, c, to, at)
    BY <1>8, <2>2, <2>7 DEF Changes, name
  <2> QED
    BY <2>8 DEF r, acts, to
<1>9. CASE st = 16 /\ acts = <<"header_done">> /\ to = first_final
  <2>1. r = Act(s, "header_done", at)
    BY ZenonT(40), <1>9, OneAct
  <2>2. r.q = [s.q EXCEPT !.body_start = at + 1] /\ r.b = s.b /\ r.told = Append(s.told, s.obj)
    <3> HIDE DEF r
    <3> QED
      BY <2>1, header_doneDoes, Zenon
  <2> DEFINE body == at + 1
  <2>6. body \in Int
    BY <1>0
  <2>7. r.q = [s.q EXCEPT !.body_start = body]
    BY <2>2
  <2> HIDE DEF r, acts, to, body
  <2>3. /\ r.q \in Parser /\ r.q.mark = s.q.mark /\ r.q.field_start = s.q.field_start
        /\ r.q.field_len = s.q.field_len /\ r.q.body_start = body /\ r.q.nread = s.q.nread
    BY <1>0, <2>6, <2>7 DEF Parser
  <2>4. \E o : r.told = Append(s.told, o)
    BY <2>2
  <2>5. Changes(s, r, st, c, to, at)
    BY <1>9, <2>2, <2>3, <2>4 DEF Changes, body
  <2> QED
    BY <2>5 DEF r, acts, to
<1>10. CASE st \in 14 .. 19
  <2>1. \A l, k : Do(l, k).acts = l /\ Do(l, k).to = k
    BY LeadsTo, ActsOfGo
  <2> QED
    BY <1>5, <1>6, <1>7, <1>8, <1>9, <1>10, <2>1, FieldActs
<1> QED
  BY <1>4, <1>10


-----------------------------------------------------------------------------
(* The inductive invariant *)

TypeOK ==
  /\ sent \in Seq(Octet) /\ buffer \in Seq(Octet) /\ Len(buffer) = Len(sent)
  /\ p \in 0 .. Len(sent) /\ cs \in 0 .. 53 /\ parser \in Parser
  /\ calls \in Nat /\ pc \in {"idle", "running", "aborted"}

\* The texts that begin with the first n bytes of the one that was sent.
Beginning(n) == {t \in Seq(Octet) : n <= Len(t) /\ \A i \in 1 .. n : t[i] = sent[i]}

\* What the state says of every text that begins with what was read.
Understood ==
  /\ cs \notin {error, first_final} => \A t \in Beginning(p) : Read(cs, t, p)
  /\ cs = error => p < Len(sent) /\ \A t \in Beginning(p + 1) : ~IsRequest(t)
  /\ cs = first_final => p < Len(sent) /\ IsRequest(sent) /\ HeaderLength(sent) = p + 1

\* Nothing ahead of the parser is overwritten; the colon it will overwrite is one.
Kept ==
  /\ OnlySeparatorsLost
  /\ cs \notin {error, first_final} => \A i \in p + 1 .. Len(sent) : buffer[i] = sent[i]
  /\ pc = "running" /\ cs \in {18, 19} =>
       /\ parser.field_start + parser.field_len \in 0 .. p - 1
       /\ sent[parser.field_start + parser.field_len + 1] = Colon

Reported ==
  /\ cs # first_final => told = <<>>
  /\ cs = first_final => \E o : told = <<o>>

\* The numbers the assertions of a call are about.
Within(q, len) ==
  /\ q.mark \in Nat /\ q.field_start \in Nat /\ q.field_len <= len
  /\ len > 0 => q.mark < len /\ q.field_start < len

Body == IF cs = first_final THEN p + 1 ELSE 0

Counted ==
  /\ pc = "running" => parser.nread = 0 /\ parser.body_start = Body /\ Within(parser, Len(sent))
  /\ pc = "idle" => /\ parser.cs \in {cs, start}
                    /\ calls > 0 => cs # start
                    /\ cs \in {error, first_final} \/ p = Len(sent)
                    /\ parser.cs = cs =>
                         /\ parser.body_start = Body
                         /\ parser.nread = IF cs = first_final THEN p + 1 ELSE p
  /\ pc = "aborted" => sent = <<>>

IInv == TypeOK /\ Understood /\ Kept /\ Reported /\ Counted

LEMMA FreshIsParser ==
  ASSUME NEW n \in Int
  PROVE  /\ Fresh(n) \in Parser /\ Fresh(n).cs = start /\ Fresh(n).nread = 0
         /\ Fresh(n).body_start = 0 /\ \A len \in Nat : Within(Fresh(n), len)
BY DEF Fresh, Parser, Within

LEMMA StartIsUnderstood ==
  ASSUME p = 0, cs = start PROVE Understood
<1>1. \A t : Read(start, t, 0)
  BY DEF Read
<1> QED
  BY <1>1 DEF Understood

LEMMA Begins == HttpInit => IInv
<1> SUFFICES ASSUME HttpInit PROVE IInv
  OBVIOUS
<1>1. Fresh(0) \in Parser
  BY FreshIsParser
<1>2. TypeOK
  BY <1>1 DEF HttpInit, TypeOK
<1>3. Understood
  BY StartIsUnderstood DEF HttpInit
<1>4. Kept
  BY DEF HttpInit, Kept, OnlySeparatorsLost
<1>5. Reported
  BY DEF HttpInit, Reported
<1>6. Counted
  BY FreshIsParser DEF HttpInit, Counted, Body
<1> QED
  BY <1>2, <1>3, <1>4, <1>5, <1>6 DEF IInv

LEMMA ExecuteKeeps ==
  ASSUME IInv, NEW text \in Seq(Octet), Execute(text)
  PROVE  IInv'
<1>1. /\ Fresh(parser.query_start) \in Parser /\ Fresh(parser.query_start).cs = start
      /\ Fresh(parser.query_start).nread = 0 /\ Fresh(parser.query_start).body_start = 0
      /\ \A len \in Nat : Within(Fresh(parser.query_start), len)
  <2>1. parser.query_start \in Int
    BY DEF IInv, TypeOK, Parser
  <2> QED
    BY <2>1, FreshIsParser
<1>2. TypeOK'
  BY <1>1 DEF Execute, TypeOK, IInv
<1>3. Understood'
  <2>1. \A t : Read(start, t, 0)
    BY DEF Read
  <2> QED
    BY <2>1 DEF Execute, Understood
<1>4. Kept'
  BY DEF Execute, Kept, OnlySeparatorsLost
<1>5. Reported'
  BY DEF Execute, Reported
<1>6. Counted'
  BY <1>1 DEF Execute, Counted, Body
<1> QED
  BY <1>2, <1>3, <1>4, <1>5, <1>6 DEF IInv

LEMMA ResetKeeps ==
  ASSUME IInv, Reset
  PROVE  IInv'
<1>1. Fresh(parser.query_start) \in Parser /\ Fresh(parser.query_start).cs = start
      /\ Fresh(parser.query_start).nread = 0 /\ Fresh(parser.query_start).body_start = 0
  <2>1. parser.query_start \in Int
    BY DEF IInv, TypeOK, Parser
  <2> QED
    BY <2>1, FreshIsParser
<1>2. TypeOK'
  BY <1>1 DEF Reset, TypeOK, IInv
<1>3. Understood'
  BY DEF Reset, IInv, Understood, Beginning
<1>4. Kept'
  BY DEF Reset, IInv, Kept, OnlySeparatorsLost
<1>5. Reported'
  BY DEF Reset, IInv, Reported
<1>6. Counted'
  <2>1. cs = start => p = 0
    <3>1. sent \in Beginning(p)
      BY DEF IInv, TypeOK, Beginning
    <3> QED
      BY <3>1 DEF IInv, Understood, Read
  <2> QED
    BY <1>1, <2>1 DEF Reset, IInv, Counted, Body
<1> QED
  BY <1>2, <1>3, <1>4, <1>5, <1>6 DEF IInv

LEMMA OutKeeps ==
  ASSUME IInv, Out
  PROVE  IInv'
<1> DEFINE q == [parser EXCEPT !.cs = cs, !.nread = @ + p]
<1>0. sent \in Seq(Octet) /\ Len(sent) \in Nat /\ Len(buffer) = Len(sent) /\ p \in 0 .. Len(sent)
      /\ cs \in 0 .. 53 /\ parser \in Parser
  BY DEF IInv, TypeOK
<1>1. /\ pc = "running" /\ (p = Len(sent) \/ cs \in {error, first_final})
      /\ parser.nread = 0 /\ parser.body_start = Body /\ Within(parser, Len(sent))
  BY <1>0 DEF Out, IInv, Counted
<1>2. /\ q \in Parser /\ q.cs = cs /\ q.nread = p /\ q.body_start = Body
      /\ q.mark = parser.mark /\ q.field_start = parser.field_start
      /\ q.field_len = parser.field_len
  <2>1. parser.nread + p = p /\ p \in Int
    BY <1>0, <1>1
  <2>2. q = [parser EXCEPT !.cs = cs, !.nread = p]
    BY <2>1
  <2> HIDE DEF q
  <2> QED
    BY <1>0, <1>1, <2>1, <2>2 DEF Parser
<1>3. Body <= Len(sent) /\ Body >= 0 /\ (Body > 0 <=> cs = first_final)
  BY <1>0 DEF IInv, Understood, Body
<1>4. Len(sent) > 0 => Asserted(q, Len(buffer))
  BY <1>0, <1>1, <1>2, <1>3 DEF Within, Asserted
<1>5. ~Asserted(q, Len(buffer)) => sent = <<>>
  BY <1>0, <1>4, EmptySeq
<1>6. Asserted(q, Len(buffer)) => Len(sent) > 0
  BY <1>0, <1>1, <1>2 DEF Within, Asserted
<1>7. Asserted(q, Len(buffer)) => cs # start
  <2>1. cs = start => p = 0
    <3>1. sent \in Beginning(p)
      BY <1>0 DEF Beginning
    <3> QED
      BY <3>1 DEF IInv, Understood, Read
  <2> QED
    BY <1>1, <1>6, <2>1
<1>8. /\ UNCHANGED <<buffer, p, cs, sent, told, calls>>
      /\ \/ /\ Asserted(q, Len(buffer)) /\ pc' = "idle"
            /\ parser' = [q EXCEPT !.nread = IF q.body_start > 0 THEN @ + 1 ELSE @]
         \/ ~Asserted(q, Len(buffer)) /\ parser' = q /\ pc' = "aborted"
  BY DEF Out
<1> HIDE DEF q
<1>9. parser' \in Parser /\ (pc' = "idle" =>
        /\ parser'.cs = cs /\ parser'.body_start = Body
        /\ parser'.nread = IF cs = first_final THEN p + 1 ELSE p)
  BY <1>0, <1>2, <1>3, <1>8 DEF Parser
<1>10. TypeOK'
  BY <1>8, <1>9 DEF IInv, TypeOK
<1>11. Understood'
  BY <1>8 DEF IInv, Understood, Beginning
<1>12. Kept'
  BY <1>8 DEF IInv, Kept, OnlySeparatorsLost
<1>13. Reported'
  BY <1>8 DEF IInv, Reported
<1>14. Counted'
  BY <1>0, <1>1, <1>5, <1>7, <1>8, <1>9 DEF Counted, Body
<1> QED
  BY <1>10, <1>11, <1>12, <1>13, <1>14 DEF IInv


LEMMA MoveLeads ==
  ASSUME NEW c, NEW st \in 0 .. 52, st # error
  PROVE  Move(st, c).to \in 0 .. 53
<1>1. CASE st \in 14 .. 19
  <2>1. Move(st, c).to \in {error, 14, 15, 16, 17, 18, 19, first_final}
    BY <1>1, LineTo
  <2> QED
    BY <2>1
<1>2. CASE st \in (0 .. 13 \cup 20 .. 52) \ {error}
  BY <1>2, LineLeads
<1> QED
  BY <1>1, <1>2

LEMMA ByteKeeps ==
  ASSUME IInv, TakeByte
  PROVE  IInv'
<1> DEFINE c == buffer[p + 1]
           s == [q |-> parser, b |-> buffer, obj |-> neko_val, told |-> told]
           to == Move(cs, c).to
           r == Acts(s, Move(cs, c).acts, p)
<1>1. /\ sent \in Seq(Octet) /\ buffer \in Seq(Octet) /\ Len(buffer) = Len(sent)
      /\ p \in 0 .. Len(sent) /\ cs \in 0 .. 53 /\ parser \in Parser /\ Len(sent) \in Nat
  BY DEF IInv, TypeOK
<1>2. pc = "running" /\ p < Len(buffer) /\ cs \in 0 .. 52 /\ cs # error /\ p \in Nat
  BY <1>1 DEF TakeByte
<1>3. /\ parser' = r.q /\ buffer' = r.b /\ told' = r.told /\ cs' = to
      /\ p' = IF to \in {error, first_final} THEN p ELSE p + 1
      /\ UNCHANGED <<pc, sent, calls>>
  BY DEF TakeByte
<1>4. c = sent[p + 1]
  BY <1>1, <1>2 DEF IInv, Kept
<1>5. to \in 0 .. 53
  BY <1>2, MoveLeads
<1>6. Changes(s, r, cs, c, to, p)
  <2>1. IsState(s) /\ s.q = parser /\ s.b = buffer
    BY DEF IsState
  <2> HIDE DEF s
  <2> QED
    BY <1>1, <1>2, <2>1, ByteChanges
<1>7. s.q = parser /\ s.b = buffer /\ s.told = told
  OBVIOUS
<1> HIDE DEF s, r
<1>8. TypeOK'
  <2>1. r.q \in Parser /\ r.b \in Seq(Octet) /\ Len(r.b) = Len(buffer)
    BY <1>6, <1>7 DEF Changes
  <2>2. p' \in 0 .. Len(sent)
    BY <1>1, <1>2, <1>3
  <2> HIDE DEF to
  <2> QED
    BY <1>1, <1>3, <1>5, <2>1, <2>2 DEF IInv, TypeOK
<1>9. Understood'
  <2>1. \A t \in Beginning(p + 1) : /\ t \in Seq(Octet) /\ t \in Beginning(p) /\ t[p + 1] = c
                                    /\ Read(cs, t, p)
    BY <1>1, <1>2, <1>4 DEF Beginning, IInv, Understood
  <2>2. sent \in Beginning(p + 1)
    BY <1>1, <1>2 DEF Beginning
  <2>3. CASE to = error
    <3>1. ASSUME NEW t \in Beginning(p + 1), IsRequest(t) PROVE FALSE
      <4>1. Move(cs, t[p + 1]).to # error
        BY <1>2, <2>1, <3>1, RequestGoesOn
      <4> QED
        BY <2>1, <2>3, <4>1
    <3> QED
      BY <1>1, <1>2, <1>3, <2>3, <3>1 DEF Understood, Beginning
  <2>4. CASE to = first_final
    <3>1. Read(cs, sent, p) /\ Move(cs, sent[p + 1]).to = first_final
      BY <1>4, <2>1, <2>2, <2>4
    <3>2. IsRequest(sent) /\ HeaderLength(sent) = p + 1
      BY ZenonT(40), <1>1, <1>2, <3>1, LastRead
    <3> QED
      BY <1>1, <1>2, <1>3, <2>4, <3>2 DEF Understood
  <2>5. CASE to \notin {error, first_final}
    <3>1. ASSUME NEW t \in Beginning(p + 1) PROVE Read(to, t, p + 1)
      <4>1. to = Move(cs, t[p + 1]).to
        BY <2>1
      <4> HIDE DEF to
      <4> QED
        BY <1>2, <2>1, <2>5, <4>1, NextRead
    <3> QED
      BY <1>3, <2>5, <3>1 DEF Understood, Beginning
  <2> QED
    BY <2>3, <2>4, <2>5
<1>10. Kept'
  <2> HIDE DEF to, c
  <2>1. \A i \in 1 .. Len(sent) :
          \/ r.b[i] = buffer[i]
          \/ r.b[i] = NUL /\ i = p + 1 /\ c \in Separators
          \/ r.b[i] = NUL /\ cs \in {18, 19} /\ i = parser.field_start + parser.field_len + 1
    BY <1>1, <1>6, <1>7 DEF Changes
  <2>2. cs \in {18, 19} =>
          /\ parser.field_start + parser.field_len \in 0 .. p - 1
          /\ sent[parser.field_start + parser.field_len + 1] = Colon
    BY <1>2 DEF IInv, Kept
  <2>3. OnlySeparatorsLost'
    <3> SUFFICES ASSUME NEW i \in 1 .. Len(sent), r.b[i] # sent[i]
                 PROVE  r.b[i] = NUL /\ sent[i] \in {Space, Semicolon, Question, Colon, CR}
      BY <1>1, <1>3 DEF OnlySeparatorsLost
    <3>1. buffer[i] # sent[i] => buffer[i] = NUL /\ sent[i] \in {Space, Semicolon, Question, Colon, CR}
      BY <1>1 DEF IInv, Kept, OnlySeparatorsLost
    <3>2. CASE r.b[i] = buffer[i]
      BY <3>1, <3>2
    <3>3. CASE r.b[i] = NUL /\ i = p + 1 /\ c \in Separators
      BY <1>4, <3>3 DEF Separators
    <3>4. CASE r.b[i] = NUL /\ cs \in {18, 19} /\ i = parser.field_start + parser.field_len + 1
      BY <2>2, <3>4
    <3> QED
      BY <2>1, <3>2, <3>3, <3>4
  <2>4. to \notin {error, first_final} => \A i \in p + 2 .. Len(sent) : r.b[i] = sent[i]
    <3> SUFFICES ASSUME NEW i \in p + 2 .. Len(sent) PROVE r.b[i] = sent[i]
      OBVIOUS
    <3>1. buffer[i] = sent[i] /\ i \in 1 .. Len(sent)
      BY <1>1, <1>2 DEF IInv, Kept
    <3>2. i # p + 1 /\ (cs \in {18, 19} => i # parser.field_start + parser.field_len + 1)
      BY <1>1, <2>2
    <3> QED
      BY <2>1, <3>1, <3>2
  <2>5. to \in {18, 19} => /\ r.q.field_start + r.q.field_len \in 0 .. p
                           /\ sent[r.q.field_start + r.q.field_len + 1] = Colon
    <3>1. to \in {18, 19} =>
            \/ /\ cs \in {18, 19}
               /\ r.q.field_start = parser.field_start /\ r.q.field_len = parser.field_len
            \/ c = Colon /\ r.q.field_start + r.q.field_len = p
      BY <1>6, <1>7 DEF Changes
    <3> QED
      BY <1>2, <1>4, <2>2, <3>1
  <2>6. p' = p + 1 => p' + 1 = p + 2 /\ p' - 1 = p
    BY <1>2
  <2>7. to \notin {error, first_final} => \A i \in p' + 1 .. Len(sent) : r.b[i] = sent[i]
    BY <1>3, <2>4, <2>6
  <2>8. to \in {18, 19} => r.q.field_start + r.q.field_len \in 0 .. p' - 1
    BY <1>3, <2>5, <2>6
  <2> QED
    BY <1>3, <2>3, <2>5, <2>7, <2>8 DEF Kept
<1>11. Reported'
  <2> HIDE DEF to, c
  <2>1. told = <<>>
    BY <1>2 DEF IInv, Reported
  <2>2. /\ to # first_final => r.told = told
        /\ to = first_final => \E o : r.told = Append(told, o)
    BY <1>6, <1>7 DEF Changes
  <2>3. \A o : Append(<<>>, o) = <<o>>
    OBVIOUS
  <2> QED
    BY <1>3, <2>1, <2>2, <2>3 DEF Reported
<1>12. Counted'
  <2> HIDE DEF to, c
  <2>1. /\ parser.nread = 0 /\ parser.body_start = 0 /\ Within(parser, Len(sent))
    BY <1>2 DEF IInv, Counted, Body
  <2>2. /\ r.q.nread = parser.nread
        /\ r.q.mark \in {parser.mark, p} /\ r.q.field_start \in {parser.field_start, p}
        /\ r.q.field_len \in {parser.field_len, p - parser.field_start}
        /\ to = first_final => r.q.body_start = p + 1
        /\ to # first_final => r.q.body_start = parser.body_start
    BY <1>6, <1>7 DEF Changes
  <2>3. Within(r.q, Len(sent))
    BY <1>1, <1>2, <2>1, <2>2 DEF Within, Parser
  <2>4. r.q.body_start = Body'
    BY <1>3, <2>1, <2>2 DEF Body
  <2> QED
    BY <1>2, <1>3, <2>1, <2>2, <2>3, <2>4 DEF Counted
<1> QED
  BY <1>8, <1>9, <1>10, <1>11, <1>12 DEF IInv


LEMMA NextKeeps == IInv /\ [HttpNext]_httpVars => IInv'
<1> SUFFICES ASSUME IInv, [HttpNext]_httpVars PROVE IInv'
  OBVIOUS
<1>1. ASSUME NEW text \in Texts, Execute(text) PROVE IInv'
  BY <1>1, TextsAreTexts, ExecuteKeeps
<1>2. ASSUME NEW text \in Later, Execute(text) PROVE IInv'
  BY <1>2, TextsAreTexts, ExecuteKeeps
<1>3. ASSUME NEW text \in Later, Execute(buffer \o text) PROVE IInv'
  <2>1. buffer \o text \in Seq(Octet)
    BY <1>3, TextsAreTexts DEF IInv, TypeOK
  <2> QED
    BY <1>3, <2>1, ExecuteKeeps
<1>4. CASE UNCHANGED httpVars
  <2>1. TypeOK' /\ Understood' /\ Reported'
    BY <1>4 DEF httpVars, IInv, TypeOK, Understood, Beginning, Reported
  <2>2. Kept' /\ Counted'
    BY <1>4 DEF httpVars, IInv, Kept, OnlySeparatorsLost, Counted, Body
  <2> QED
    BY <2>1, <2>2 DEF IInv
<1> QED
  BY <1>1, <1>2, <1>3, <1>4, ByteKeeps, OutKeeps, ResetKeeps DEF HttpNext

\* The inductive invariant: what was read is what the state stands for, and what
\* the buffer lost are separators behind the parser (http_parser_execute).
THEOREM Invariance == HttpSpec => []IInv
<1>1. HttpInit => IInv
  BY Begins
<1>2. IInv /\ [HttpNext]_httpVars => IInv'
  BY NextKeeps
<1> QED
  BY <1>1, <1>2, PTL DEF HttpSpec

\* The NULs of the callbacks fall on separators only, whatever texts are parsed.
THEOREM SeparatorsOnly == HttpSpec => []OnlySeparatorsLost
<1>1. IInv => OnlySeparatorsLost
  BY DEF IInv, Kept
<1> QED
  BY <1>1, Invariance, PTL

LEMMA PrefixBegins ==
  ASSUME NEW t \in Seq(Octet), TypeOK, p < Len(sent), IsPrefix(SubSeq(sent, 1, p + 1), t)
  PROVE  t \in Beginning(p + 1)
<1> DEFINE b == SubSeq(sent, 1, p + 1)
<1>1. sent \in Seq(Octet) /\ p + 1 \in 1 .. Len(sent) /\ Len(sent) \in Nat
  BY DEF TypeOK
<1>2. b \in Seq(Octet) /\ Len(b) = p + 1 /\ \A i \in 1 .. p + 1 : b[i] = sent[i]
  BY <1>1
<1>3. Len(b) <= Len(t) /\ SubSeq(b, 1, Len(b)) = SubSeq(t, 1, Len(b))
  BY DEF IsPrefix
<1>4. \A i \in 1 .. p + 1 : SubSeq(t, 1, p + 1)[i] = t[i] /\ SubSeq(b, 1, p + 1)[i] = b[i]
  BY <1>1, <1>2, <1>3
<1> HIDE DEF b
<1>5. \A i \in 1 .. p + 1 : t[i] = sent[i]
  BY <1>2, <1>3, <1>4
<1> QED
  BY <1>2, <1>3, <1>5 DEF Beginning

LEMMA AcceptsFromIInv == IInv => AcceptsRequests
<1> SUFFICES ASSUME IInv PROVE AcceptsRequests
  OBVIOUS
<1>1. TypeOK /\ Understood /\ Reported /\ Counted
  BY DEF IInv
<1>2. sent \in Seq(Octet) /\ Len(sent) \in Nat /\ p \in 0 .. Len(sent) /\ cs \in 0 .. 53
  BY <1>1 DEF TypeOK
<1>3. pc = "aborted" => sent = <<>>
  BY <1>1 DEF Counted
<1>4. ASSUME Answered, http_parser_has_error, NEW t \in Texts \cup Later,
             IsPrefix(SubSeq(sent, 1, p + 1), t)
      PROVE  ~IsRequest(t)
  <2>1. p < Len(sent) /\ \A x \in Beginning(p + 1) : ~IsRequest(x)
    BY <1>1, <1>4 DEF Understood, Answered, http_parser_has_error
  <2>2. t \in Seq(Octet)
    BY TextsAreTexts
  <2> QED
    BY <1>1, <1>4, <2>1, <2>2, PrefixBegins
<1>5. ASSUME Answered
      PROVE  /\ cs = first_final <=> IsRequest(sent)
             /\ Len(told) = (IF IsRequest(sent) THEN 1 ELSE 0)
             /\ IsRequest(sent) =>
                  parser.nread = HeaderLength(sent) /\ parser.body_start = HeaderLength(sent)
  <2>1. pc = "idle" /\ calls > 0 /\ parser.cs = cs /\ (cs \in {error, first_final} \/ p = Len(sent))
    BY <1>1, <1>5 DEF Answered, Counted
  <2>2. CASE cs = first_final
    <3>1. IsRequest(sent) /\ HeaderLength(sent) = p + 1 /\ \E o : told = <<o>>
      BY <1>1, <2>2 DEF Understood, Reported
    <3>2. parser.nread = p + 1 /\ parser.body_start = p + 1
      BY <1>1, <2>1, <2>2 DEF Counted, Body
    <3>3. Len(told) = 1
      BY <3>1
    <3> QED
      BY <2>2, <3>1, <3>2, <3>3
  <2>3. CASE cs = error
    <3>1. p < Len(sent) /\ \A x \in Beginning(p + 1) : ~IsRequest(x)
      BY <1>1, <2>3 DEF Understood
    <3>2. sent \in Beginning(p + 1)
      BY <1>2, <3>1 DEF Beginning
    <3>3. told = <<>>
      BY <1>1, <2>3 DEF Reported
    <3> QED
      BY <2>3, <3>1, <3>2, <3>3
  <2>4. CASE cs \notin {error, first_final}
    <3>1. sent \in Beginning(p)
      BY <1>2 DEF Beginning
    <3>2. Read(cs, sent, p)
      BY <1>1, <2>4, <3>1 DEF Understood
    <3>3. ~IsRequest(sent)
      <4>1. p \in Nat /\ cs \in 0 .. 52 /\ cs # error /\ ~(p < Len(sent))
        BY <1>2, <2>1, <2>4
      <4> QED
        BY <1>2, <3>2, <4>1, RequestGoesOn
    <3>4. told = <<>>
      BY <1>1, <2>4 DEF Reported
    <3> QED
      BY <2>4, <3>3, <3>4
  <2> QED
    BY <2>2, <2>3, <2>4
<1>6. Answered => (http_parser_finish = 1 <=> cs = first_final)
  BY DEF Answered, http_parser_finish, http_parser_has_error, http_parser_is_finished
<1> QED
  BY <1>3, <1>4, <1>5, <1>6 DEF AcceptsRequests

\* For texts of any length the parser is done with exactly those that begin with
\* a request, it has read to the end of the empty line, the program is told once,
\* no assertion fails but for an empty text, and an error is final.
THEOREM Accepts == HttpSpec => []AcceptsRequests
BY AcceptsFromIInv, Invariance, PTL

-----------------------------------------------------------------------------
(* Pieces of a text, and the strings that end at a NUL                       *)

LEMMA PieceIs ==
  ASSUME NEW S, NEW t \in Seq(S), NEW i \in Nat \ {0}, NEW j \in Nat, i <= j + 1, j <= Len(t)
  PROVE  /\ SubSeq(t, i, j) \in Seq(S) /\ Len(SubSeq(t, i, j)) = j - i + 1
         /\ DOMAIN SubSeq(t, i, j) = 1 .. j - i + 1
         /\ \A k \in 1 .. j - i + 1 : SubSeq(t, i, j)[k] = t[i + k - 1]
<1>1. SubSeq(t, i, j) = [k \in 1 .. j - i + 1 |-> t[i + k - 1]]
  OBVIOUS
<1>2. j - i + 1 \in Nat /\ \A k \in 1 .. j - i + 1 : t[i + k - 1] \in S
  OBVIOUS
<1> QED
  BY <1>1, <1>2, IsASeq

LEMMA SamePiece ==
  ASSUME NEW S, NEW s \in Seq(S), NEW r \in Seq(S), Len(s) = Len(r),
         \A k \in 1 .. Len(s) : s[k] = r[k]
  PROVE  s = r
BY SeqEqual

LEMMA PieceOfPiece ==
  ASSUME NEW S, NEW t \in Seq(S), NEW i \in Nat \ {0}, NEW j \in Nat, i <= j + 1, j <= Len(t),
         NEW a \in Nat \ {0}, NEW b \in Nat, a <= b + 1, b <= j - i + 1
  PROVE  SubSeq(SubSeq(t, i, j), a, b) = SubSeq(t, i + a - 1, i + b - 1)
<1> DEFINE s == SubSeq(t, i, j)
<1>1. s \in Seq(S) /\ Len(s) = j - i + 1 /\ \A k \in 1 .. j - i + 1 : s[k] = t[i + k - 1]
  BY PieceIs
<1> HIDE DEF s
<1>2. /\ SubSeq(s, a, b) \in Seq(S) /\ Len(SubSeq(s, a, b)) = b - a + 1
      /\ \A k \in 1 .. b - a + 1 : SubSeq(s, a, b)[k] = s[a + k - 1]
  BY <1>1, PieceIs
<1> DEFINE x == i + a - 1
           y == i + b - 1
<1>3. x \in Nat \ {0} /\ y \in Nat /\ x <= y + 1 /\ y <= Len(t) /\ y - x = b - a
  BY <1>1
<1> HIDE DEF x, y
<1>4. /\ SubSeq(t, x, y) \in Seq(S) /\ Len(SubSeq(t, x, y)) = b - a + 1
      /\ \A k \in 1 .. b - a + 1 : SubSeq(t, x, y)[k] = t[x + k - 1]
  BY <1>3, PieceIs
<1>5. \A k \in 1 .. b - a + 1 : s[a + k - 1] = t[x + k - 1]
  BY <1>1 DEF x
<1>6. SubSeq(s, a, b) = SubSeq(t, x, y)
  BY <1>2, <1>4, <1>5, SamePiece
<1> QED
  BY <1>6 DEF s, x, y

\* Where a piece is divided: at the first of some bytes.
LEMMA DividedAt ==
  ASSUME NEW S, NEW t \in Seq(S), NEW i \in Nat \ {0}, NEW j \in Nat, j <= Len(t),
         NEW k \in i .. j, NEW bytes, t[k] \in bytes, \A m \in i .. k - 1 : t[m] \notin bytes
  PROVE  /\ UpTo(SubSeq(t, i, j), bytes) = SubSeq(t, i, k - 1)
         /\ Past(SubSeq(t, i, j), bytes) = SubSeq(t, k + 1, j)
         /\ First(SubSeq(t, i, j), bytes) = k - i + 1
<1> DEFINE s == SubSeq(t, i, j)
           f == k - i + 1
<1>1. /\ s \in Seq(S) /\ Len(s) = j - i + 1 /\ DOMAIN s = 1 .. j - i + 1
      /\ \A m \in 1 .. j - i + 1 : s[m] = t[i + m - 1]
  BY PieceIs
<1>2. f \in 1 .. Len(s) /\ f \in Nat
  BY <1>1
<1> HIDE DEF s
<1>3. s[f] \in bytes /\ \A m \in 1 .. f - 1 : s[m] \notin bytes
  <2>1. i + f - 1 = k /\ \A m \in 1 .. f - 1 : i + m - 1 \in i .. k - 1 /\ m \in 1 .. j - i + 1
    BY <1>1, <1>2
  <2>2. s[f] = t[k] /\ \A m \in 1 .. f - 1 : s[m] = t[i + m - 1]
    BY <1>1, <1>2, <2>1
  <2> QED
    BY <2>1, <2>2
<1> HIDE DEF f
<1>4. First(s, bytes) = f
  <2> DEFINE R == {m \in DOMAIN s : s[m] \in bytes} \cup {Len(s) + 1}
  <2>1. R \subseteq Nat /\ f \in R
    BY <1>1, <1>2, <1>3
  <2>2. \A m \in R : f <= m
    BY <1>1, <1>2, <1>3
  <2>3. Min(R) = f
    BY <2>1, <2>2, MinOf
  <2> QED
    BY <2>3 DEF First
<1>5. /\ UpTo(s, bytes) = SubSeq(s, 1, f - 1)
      /\ Past(s, bytes) = SubSeq(s, f + 1, j - i + 1)
  BY <1>1, <1>4 DEF UpTo, Past, From
<1>6. SubSeq(s, 1, f - 1) = SubSeq(t, i, k - 1)
  <2> DEFINE b == f - 1
  <2>0. b \in Nat /\ b <= j - i + 1 /\ i + b - 1 = k - 1 /\ i + 1 - 1 = i
    BY <1>1, <1>2 DEF f
  <2> HIDE DEF b
  <2>1. SubSeq(SubSeq(t, i, j), 1, b) = SubSeq(t, i + 1 - 1, i + b - 1)
    BY <2>0, PieceOfPiece
  <2> QED
    BY <2>0, <2>1 DEF b, s
<1>7. SubSeq(s, f + 1, j - i + 1) = SubSeq(t, k + 1, j)
  <2> DEFINE a == f + 1
             b == j - i + 1
  <2>0. a \in Nat \ {0} /\ b \in Nat /\ a <= b + 1 /\ b <= j - i + 1 /\ i + a - 1 = k + 1 /\ i + b - 1 = j
    BY <1>1, <1>2 DEF f
  <2> HIDE DEF a, b
  <2>1. SubSeq(SubSeq(t, i, j), a, b) = SubSeq(t, i + a - 1, i + b - 1)
    BY <2>0, PieceOfPiece
  <2> QED
    BY <2>0, <2>1 DEF a, b, s
<1> QED
  BY <1>4, <1>5, <1>6, <1>7 DEF f, s

LEMMA NotDivided ==
  ASSUME NEW S, NEW t \in Seq(S), NEW i \in Nat \ {0}, NEW j \in Nat, i <= j + 1, j <= Len(t),
         NEW bytes, \A m \in i .. j : t[m] \notin bytes
  PROVE  UpTo(SubSeq(t, i, j), bytes) = SubSeq(t, i, j)
<1> DEFINE s == SubSeq(t, i, j)
           n == j - i + 1
<1>1. /\ s \in Seq(S) /\ Len(s) = n /\ DOMAIN s = 1 .. n /\ n \in Nat
      /\ \A m \in 1 .. n : s[m] = t[i + m - 1]
  BY PieceIs
<1>2. \A m \in 1 .. n : i + m - 1 \in i .. j
  OBVIOUS
<1> HIDE DEF s, n
<1>3. First(s, bytes) = n + 1
  <2> DEFINE R == {m \in DOMAIN s : s[m] \in bytes} \cup {Len(s) + 1}
  <2>1. R = {n + 1}
    BY <1>1, <1>2
  <2>2. Min(R) = n + 1
    BY <1>1, <2>1, MinOf
  <2> QED
    BY <2>2 DEF First
<1>4. UpTo(s, bytes) = SubSeq(s, 1, n)
  BY <1>1, <1>3 DEF UpTo
<1>5. SubSeq(s, 1, n) = s
  <2>1. /\ SubSeq(s, 1, n) \in Seq(S) /\ Len(SubSeq(s, 1, n)) = n - 1 + 1
        /\ \A k \in 1 .. n - 1 + 1 : SubSeq(s, 1, n)[k] = s[1 + k - 1]
    BY <1>1, PieceIs
  <2> QED
    BY <1>1, <2>1, SamePiece
<1> QED
  BY <1>4, <1>5 DEF s

\* The string at an offset ends at the first NUL.
EndsAt(b, from, end) ==
  /\ end \in from .. Len(b) - 1 /\ b[end + 1] = NUL
  /\ \A k \in from + 1 .. end : b[k] # NUL

LEMMA CStringEnds ==
  ASSUME NEW b \in Seq(Octet), NEW from \in Nat, NEW end \in Nat, EndsAt(b, from, end)
  PROVE  CString(b, from) = SubSeq(b, from + 1, end)
<1> DEFINE Is(i) == (i = Len(b) \/ b[i + 1] = NUL) /\ \A j \in from .. i - 1 : b[j + 1] # NUL
<1>1. Len(b) \in Nat /\ end \in from .. Len(b) /\ Is(end)
  BY DEF EndsAt
<1>2. ASSUME NEW i \in from .. Len(b), Is(i) PROVE i = end
  BY <1>1, <1>2 DEF EndsAt
<1>3. (CHOOSE i \in from .. Len(b) : Is(i)) = end
  BY <1>1, <1>2
<1> QED
  BY <1>3 DEF CString

LEMMA CutAt ==
  ASSUME NEW t \in Seq(Octet), NEW i \in Nat \ {0}, NEW at \in Nat, at <= Len(t), NEW f \in i .. at,
         NEW bytes, t[f] \in bytes, \A m \in i .. f - 1 : t[m] \notin bytes
  PROVE  UpTo(SubSeq(t, i, at), bytes) = SubSeq(t, i, f - 1)
BY DividedAt

LEMMA CutAtNul ==
  ASSUME NEW t \in Seq(Octet), NEW at \in Nat, at < Len(t), NEW from \in 0 .. at,
         NEW f \in from + 1 .. at, t[f] = NUL, \A k \in from + 1 .. f - 1 : t[k] # NUL
  PROVE  UpTo(SubSeq(t, from + 1, at), {NUL}) = SubSeq(t, from + 1, f - 1)
<1>1. ASSUME NEW i \in Nat \ {0}, NEW bytes, i = from + 1, bytes = {NUL}
      PROVE  UpTo(SubSeq(t, i, at), bytes) = SubSeq(t, i, f - 1)
  <2>1. at <= Len(t) /\ f \in i .. at /\ t[f] \in bytes
    BY <1>1
  <2>2. \A m \in i .. f - 1 : t[m] \notin bytes
    BY <1>1
  <2> QED
    BY <2>1, <2>2, CutAt
<1> QED
  BY <1>1

\* A NUL was put behind bytes that the buffer has from the text.
LEMMA CStringCutAt ==
  ASSUME NEW b \in Seq(Octet), NEW t \in Seq(Octet), Len(b) = Len(t), NEW at \in Nat, at < Len(t),
         NEW from \in 0 .. at, \A k \in from + 1 .. at : b[k] = t[k],
         NEW f \in from + 1 .. at, t[f] = NUL, \A k \in from + 1 .. f - 1 : t[k] # NUL
  PROVE  /\ CString(b, from) = UpTo(SubSeq(t, from + 1, at), {NUL})
         /\ \E end \in from .. at : EndsAt(b, from, end)
<1>0. Len(t) \in Nat /\ from \in Nat /\ from + 1 \in Nat \ {0} /\ at <= Len(t)
  OBVIOUS
<1> DEFINE end == f - 1
<1>4. end \in from .. at /\ end \in Nat /\ end + 1 = f
  BY <1>0
<1> HIDE DEF end
<1>5. EndsAt(b, from, end)
  BY <1>0, <1>4 DEF EndsAt
<1>6. CString(b, from) = SubSeq(b, from + 1, end)
  BY <1>0, <1>4, <1>5, CStringEnds
<1>7. UpTo(SubSeq(t, from + 1, at), {NUL}) = SubSeq(t, from + 1, f - 1)
  BY CutAtNul
<1>8. SubSeq(b, from + 1, end) = SubSeq(t, from + 1, end)
  BY <1>0, <1>4
<1> QED
  BY <1>4, <1>5, <1>6, <1>7, <1>8 DEF end

LEMMA CStringCut ==
  ASSUME NEW b \in Seq(Octet), NEW t \in Seq(Octet), Len(b) = Len(t), NEW at \in Nat, at < Len(t),
         NEW from \in 0 .. at, \A k \in from + 1 .. at : b[k] = t[k], b[at + 1] = NUL
  PROVE  /\ CString(b, from) = UpTo(SubSeq(t, from + 1, at), {NUL})
         /\ \E end \in from .. at : EndsAt(b, from, end)
<1>0. Len(t) \in Nat /\ from \in Nat /\ from + 1 \in Nat \ {0} /\ at <= Len(t)
  OBVIOUS
<1>1. CASE \A k \in from + 1 .. at : t[k] # NUL
  <2>1. EndsAt(b, from, at) /\ at \in from .. at
    BY <1>0, <1>1 DEF EndsAt
  <2>2. CString(b, from) = SubSeq(b, from + 1, at)
    BY <1>0, <2>1, CStringEnds
  <2>3. UpTo(SubSeq(t, from + 1, at), {NUL}) = SubSeq(t, from + 1, at)
    BY <1>0, <1>1, NotDivided
  <2>4. SubSeq(b, from + 1, at) = SubSeq(t, from + 1, at)
    BY <1>0
  <2> QED
    BY <2>1, <2>2, <2>3, <2>4
<1>2. CASE \E k \in from + 1 .. at : t[k] = NUL
  <2> DEFINE R == {k \in from + 1 .. at : t[k] = NUL}
             f == Min(R)
  <2>1. R \subseteq Nat /\ R # {}
    BY <1>0, <1>2
  <2>2. f \in R /\ \A k \in R : f <= k
    BY <2>1, MinIsLeast
  <2> HIDE DEF f
  <2>3. f \in from + 1 .. at /\ t[f] = NUL /\ \A k \in from + 1 .. f - 1 : t[k] # NUL
    BY <1>0, <2>2
  <2> QED
    BY <2>3, CStringCutAt
<1> QED
  BY <1>1, <1>2

LEMMA CStringPlain ==
  ASSUME NEW b \in Seq(Octet), NEW t \in Seq(Octet), Len(b) = Len(t), NEW at \in Nat, at < Len(t),
         NEW from \in 0 .. at, \A k \in from + 1 .. at : b[k] = t[k] /\ t[k] # NUL, b[at + 1] = NUL
  PROVE  CString(b, from) = SubSeq(t, from + 1, at)
<1>1. CString(b, from) = UpTo(SubSeq(t, from + 1, at), {NUL})
  <2>1. \A k \in from + 1 .. at : b[k] = t[k]
    OBVIOUS
  <2> QED
    BY <2>1, CStringCut
<1>2. from + 1 \in Nat \ {0} /\ from + 1 <= at + 1 /\ at <= Len(t) /\ \A k \in from + 1 .. at : t[k] \notin {NUL}
  OBVIOUS
<1> QED
  BY <1>1, <1>2, NotDivided

\* A string stays the same when its bytes and its NUL do.
LEMMA CStringStays ==
  ASSUME NEW b \in Seq(Octet), NEW d \in Seq(Octet), Len(b) = Len(d), NEW from \in Nat,
         NEW end \in Nat, EndsAt(b, from, end), \A k \in from + 1 .. end + 1 : d[k] = b[k]
  PROVE  EndsAt(d, from, end) /\ CString(d, from) = CString(b, from)
<1>1. end \in from .. Len(b) - 1 /\ Len(b) \in Nat
  BY DEF EndsAt
<1>2. EndsAt(d, from, end)
  BY <1>1 DEF EndsAt
<1>3. SubSeq(b, from + 1, end) = SubSeq(d, from + 1, end)
  BY <1>1
<1> QED
  BY <1>2, <1>3, CStringEnds

-----------------------------------------------------------------------------
(* The object the callbacks of the request line make                         *)

LEMMA SameObject ==
  ASSUME NEW f, NEW g, f = [x \in DOMAIN f |-> f[x]], g = [x \in DOMAIN g |-> g[x]],
         DOMAIN f = DOMAIN g, \A x \in DOMAIN f : f[x] = g[x]
  PROVE  f = g
OBVIOUS

\* What the callbacks make of a request, text by text, said without the machine.
\* An address that is a path is told as far as the path goes: by then the string
\* ends there.
ToldUri(line) ==
  LET u == UriOf(line) IN IF u[1] = Slash THEN UpTo(u, {Semicolon, Question}) ELSE u

ToldLine(line) == OfLine(line, ToldUri(line))

\* One space is left when there is nothing else behind the colon.
ToldText(t) ==
  IF AllIn(t, 1, Len(t), {Space}) THEN <<Space>>
  ELSE From(t, Min({i \in DOMAIN t : t[i] # Space}))

\* A line that ends at its colon has the value above it, the first one the version;
\* a NUL ends any.
ToldValue(t, e) ==
  LET first == Min(Ends(t, e))
      text(d) == Past(Line(t, d), {Colon})
      own == Max({d \in Ends(t, e) : d = first \/ text(d) # <<>>})
  IN IF own = first THEN VersionOf(Line(t, first)) ELSE UpTo(ToldText(text(own)), {NUL})

\* The object after the line that ends at n.
ToldObject(t, n) ==
  LET first == Min(Ends(t, n))
      given == ToldLine(Line(t, first))
      fields == Ends(t, n) \ {first}
      called(name) == {e \in fields : NameOf(Line(t, e)) = name}
      headers == {NameOf(Line(t, e)) : e \in fields}
  IN [name \in headers \cup DOMAIN given |->
        IF name \in headers THEN Given(name, ToldValue(t, Max(called(name)))) ELSE given[name]]

ToldFields(t) == ToldObject(t, HeaderLength(t) - 3)

LEMMA NamesDiffer ==
  /\ REQUEST_METHOD \notin {REQUEST_URI, REQUEST_PATH, QUERY_STRING, HTTP_VERSION}
  /\ REQUEST_URI \notin {REQUEST_PATH, QUERY_STRING, HTTP_VERSION}
  /\ REQUEST_PATH \notin {QUERY_STRING, HTTP_VERSION}
  /\ QUERY_STRING # HTTP_VERSION
<1>1. /\ Len(REQUEST_METHOD) = 14 /\ Len(REQUEST_URI) = 11 /\ Len(REQUEST_PATH) = 12
      /\ Len(QUERY_STRING) = 12 /\ Len(HTTP_VERSION) = 12
      /\ REQUEST_PATH[1] = 82 /\ QUERY_STRING[1] = 81 /\ HTTP_VERSION[1] = 72
  BY DEF REQUEST_METHOD, REQUEST_URI, REQUEST_PATH, QUERY_STRING, HTTP_VERSION
<1> QED
  BY <1>1

IsPath(line) == UriOf(line)[1] = Slash

HasQuery(line) == IsPath(line) /\ \E k \in DOMAIN UriOf(line) : UriOf(line)[k] = Question

PathOf(line) == UpTo(UriOf(line), {Semicolon, Question})

LEMMA ParametersAre ==
  ASSUME NEW line
  PROVE  LET o == ToldLine(line) IN
         /\ o = [x \in DOMAIN o |-> o[x]]
         /\ DOMAIN o = {REQUEST_METHOD, REQUEST_URI, HTTP_VERSION}
                         \cup (IF IsPath(line) THEN {REQUEST_PATH} ELSE {})
                         \cup (IF HasQuery(line) THEN {QUERY_STRING} ELSE {})
         /\ o[REQUEST_METHOD] = [str |-> MethodOf(line)]
         /\ o[REQUEST_URI] = [str |-> IF IsPath(line) THEN PathOf(line) ELSE UriOf(line)]
         /\ o[HTTP_VERSION] = [str |-> VersionOf(line)]
         /\ IsPath(line) => o[REQUEST_PATH] = [str |-> PathOf(line)]
         /\ HasQuery(line) => o[QUERY_STRING] = [str |-> Past(UriOf(line), {Question})]
<1> DEFINE D == {REQUEST_METHOD, REQUEST_URI, HTTP_VERSION}
                  \cup (IF IsPath(line) THEN {REQUEST_PATH} ELSE {})
                  \cup (IF HasQuery(line) THEN {QUERY_STRING} ELSE {})
           V(name) == CASE name = REQUEST_METHOD -> MethodOf(line)
                        [] name = REQUEST_URI -> (IF IsPath(line) THEN PathOf(line) ELSE UriOf(line))
                        [] name = REQUEST_PATH -> PathOf(line)
                        [] name = QUERY_STRING -> Past(UriOf(line), {Question})
                        [] name = HTTP_VERSION -> VersionOf(line)
<1>1. ToldLine(line) = [name \in D |-> [str |-> V(name)]]
  BY DEF ToldLine, OfLine, ToldUri, IsPath, HasQuery, PathOf
<1>2. /\ V(REQUEST_METHOD) = MethodOf(line)
      /\ V(REQUEST_URI) = IF IsPath(line) THEN PathOf(line) ELSE UriOf(line)
      /\ V(REQUEST_PATH) = PathOf(line)
      /\ V(QUERY_STRING) = Past(UriOf(line), {Question})
      /\ V(HTTP_VERSION) = VersionOf(line)
  BY NamesDiffer
<1>3. /\ REQUEST_METHOD \in D /\ REQUEST_URI \in D /\ HTTP_VERSION \in D
      /\ IsPath(line) => REQUEST_PATH \in D
      /\ HasQuery(line) => QUERY_STRING \in D
  OBVIOUS
<1> HIDE DEF V
<1>4. DOMAIN ToldLine(line) = D /\ \A x \in D : ToldLine(line)[x] = [str |-> V(x)]
  BY <1>1
<1>5. ToldLine(line) = [x \in DOMAIN ToldLine(line) |-> ToldLine(line)[x]]
  BY <1>1
<1> QED
  BY <1>2, <1>3, <1>4, <1>5

Str(t, i, j) == [str |-> SubSeq(t, i, j)]

Plain(t, i, j) == \A k \in i .. j : t[k] \notin {NUL, Space, CR}

FirstIn(t, i, k, bytes) == t[k] \in bytes /\ \A m \in i .. k - 1 : t[m] \notin bytes

MethodObject(t, i) == With(NoObject, REQUEST_METHOD, Str(t, 1, i - 1))

PathObject(t, i, s) == With(MethodObject(t, i), REQUEST_PATH, Str(t, i + 1, s - 1))

\* The object when the address between the spaces at i and j was reported.
AddressObject(obj, t, i, j) ==
  \/ t[i + 1] # Slash /\ obj = With(MethodObject(t, i), REQUEST_URI, Str(t, i + 1, j - 1))
  \/ /\ t[i + 1] = Slash /\ \A k \in i + 1 .. j - 1 : t[k] \notin {Semicolon, Question}
     /\ obj = With(PathObject(t, i, j), REQUEST_URI, Str(t, i + 1, j - 1))
  \/ /\ t[i + 1] = Slash /\ \A k \in i + 1 .. j - 1 : t[k] # Question
     /\ \E s \in i + 2 .. j - 1 :
          /\ FirstIn(t, i + 1, s, {Semicolon, Question})
          /\ obj = With(PathObject(t, i, s), REQUEST_URI, Str(t, i + 1, s - 1))
  \/ /\ t[i + 1] = Slash
     /\ \E s \in i + 2 .. j - 1 : \E r \in s .. j - 1 :
          /\ FirstIn(t, i + 1, s, {Semicolon, Question}) /\ FirstIn(t, i + 1, r, {Question})
          /\ obj = With(With(PathObject(t, i, s), QUERY_STRING, Str(t, r + 1, j - 1)),
                        REQUEST_URI, Str(t, i + 1, s - 1))

\* The address is between the spaces at i and j.
Between(t, i, j) ==
  /\ i \in 2 .. j - 2 /\ j <= Len(t) /\ Plain(t, 1, i - 1) /\ t[i] = Space
  /\ Plain(t, i + 1, j - 1) /\ t[j] = Space

LEMMA LineParts ==
  ASSUME NEW t \in Seq(Octet), NEW n \in Nat, n <= Len(t), NEW i \in Nat, NEW j \in 1 .. n, Between(t, i, j)
  PROVE  /\ MethodOf(SubSeq(t, 1, n)) = SubSeq(t, 1, i - 1)
         /\ UriOf(SubSeq(t, 1, n)) = SubSeq(t, i + 1, j - 1)
         /\ VersionOf(SubSeq(t, 1, n)) = SubSeq(t, j + 1, n)
<1>1. /\ i \in 1 .. n /\ t[i] = Space /\ \A m \in 1 .. i - 1 : t[m] # Space
      /\ j \in i + 1 .. n /\ t[j] = Space /\ \A m \in i + 1 .. j - 1 : t[m] # Space
  BY DEF Between, Plain
<1>2. ASSUME NEW a, NEW bytes, a = 1, bytes = {Space}
      PROVE  /\ UpTo(SubSeq(t, a, n), bytes) = SubSeq(t, a, i - 1)
             /\ Past(SubSeq(t, a, n), bytes) = SubSeq(t, i + 1, n)
  <2>1. a \in Nat \ {0} /\ i \in a .. n /\ t[i] \in bytes /\ \A m \in a .. i - 1 : t[m] \notin bytes
    BY <1>1, <1>2
  <2> QED
    BY <2>1, DividedAt
<1>3. ASSUME NEW a, NEW bytes, a = i + 1, bytes = {Space}
      PROVE  /\ UpTo(SubSeq(t, a, n), bytes) = SubSeq(t, a, j - 1)
             /\ Past(SubSeq(t, a, n), bytes) = SubSeq(t, j + 1, n)
  <2>1. a \in Nat \ {0} /\ j \in a .. n /\ t[j] \in bytes /\ \A m \in a .. j - 1 : t[m] \notin bytes
    BY <1>1, <1>3
  <2> QED
    BY <2>1, DividedAt
<1>4. /\ UpTo(SubSeq(t, 1, n), {Space}) = SubSeq(t, 1, i - 1)
      /\ Past(SubSeq(t, 1, n), {Space}) = SubSeq(t, i + 1, n)
  BY <1>2
<1>5. /\ UpTo(SubSeq(t, i + 1, n), {Space}) = SubSeq(t, i + 1, j - 1)
      /\ Past(SubSeq(t, i + 1, n), {Space}) = SubSeq(t, j + 1, n)
  BY <1>3
<1> QED
  BY <1>4, <1>5 DEF MethodOf, UriOf, VersionOf

\* What the parts of an address are.
AddressSays(line, t, i, j) ==
  /\ IsPath(line) <=> t[i + 1] = Slash
  /\ HasQuery(line) <=> t[i + 1] = Slash /\ \E k \in i + 1 .. j - 1 : t[k] = Question
  /\ (\A k \in i + 1 .. j - 1 : t[k] \notin {Semicolon, Question}) =>
       PathOf(line) = SubSeq(t, i + 1, j - 1)
  /\ \A s \in i + 1 .. j - 1 : FirstIn(t, i + 1, s, {Semicolon, Question}) =>
       PathOf(line) = SubSeq(t, i + 1, s - 1)
  /\ \A r \in i + 1 .. j - 1 : FirstIn(t, i + 1, r, {Question}) =>
       Past(UriOf(line), {Question}) = SubSeq(t, r + 1, j - 1)

LEMMA AddressIs ==
  ASSUME NEW t \in Seq(Octet), NEW n \in Nat, n <= Len(t), NEW i \in Nat, NEW j \in 1 .. n, Between(t, i, j),
         NEW line, line = SubSeq(t, 1, n)
  PROVE  AddressSays(line, t, i, j)
<1> DEFINE a == i + 1
           z == j - 1
           u == SubSeq(t, a, z)
<1>1. a \in Nat \ {0} /\ z \in Nat /\ a <= z /\ z <= Len(t) /\ a <= z + 1
  BY DEF Between
<1>2. UriOf(line) = u
  BY LineParts
<1> HIDE DEF a, z
<1>3. /\ u \in Seq(Octet) /\ Len(u) = z - a + 1 /\ DOMAIN u = 1 .. z - a + 1
      /\ \A k \in 1 .. z - a + 1 : u[k] = t[a + k - 1]
  BY <1>1, PieceIs
<1>4. u[1] = t[a]
  BY <1>1, <1>3
<1>5. (\E k \in DOMAIN u : u[k] = Question) <=> (\E k \in a .. z : t[k] = Question)
  <2>1. ASSUME NEW k \in DOMAIN u, u[k] = Question PROVE \E m \in a .. z : t[m] = Question
    <3>1. a + k - 1 \in a .. z
      BY <1>1, <1>3
    <3> QED
      BY <1>3, <2>1, <3>1
  <2>2. ASSUME NEW m \in a .. z, t[m] = Question PROVE \E k \in DOMAIN u : u[k] = Question
    <3>1. m - a + 1 \in 1 .. z - a + 1 /\ a + (m - a + 1) - 1 = m
      BY <1>1
    <3>2. u[m - a + 1] = t[a + (m - a + 1) - 1]
      BY <1>3, <3>1
    <3> QED
      BY <1>3, <2>2, <3>1, <3>2
  <2> QED
    BY <2>1, <2>2
<1>6. (\A k \in a .. z : t[k] \notin {Semicolon, Question}) => UpTo(u, {Semicolon, Question}) = SubSeq(t, a, z)
  <2>1. ASSUME NEW bytes, \A m \in a .. z : t[m] \notin bytes PROVE UpTo(u, bytes) = u
    BY <1>1, <2>1, NotDivided
  <2> QED
    BY <2>1
<1>7. ASSUME NEW k \in a .. z, NEW bytes, FirstIn(t, a, k, bytes)
      PROVE  UpTo(u, bytes) = SubSeq(t, a, k - 1) /\ Past(u, bytes) = SubSeq(t, k + 1, z)
  <2>1. t[k] \in bytes /\ \A m \in a .. k - 1 : t[m] \notin bytes
    BY <1>7 DEF FirstIn
  <2> QED
    BY <1>1, <2>1, DividedAt
<1> HIDE DEF u
<1> QED
  BY <1>2, <1>4, <1>5, <1>6, <1>7 DEF AddressSays, IsPath, HasQuery, PathOf, a, z

LEMMA LineObject ==
  ASSUME NEW t \in Seq(Octet), NEW n \in Nat, n <= Len(t), NEW i \in Nat, NEW j \in 1 .. n, Between(t, i, j),
         NEW obj, AddressObject(obj, t, i, j)
  PROVE  With(obj, HTTP_VERSION, Str(t, j + 1, n)) = ToldLine(SubSeq(t, 1, n))
<1> DEFINE line == SubSeq(t, 1, n)
           o == ToldLine(line)
           w == With(obj, HTTP_VERSION, Str(t, j + 1, n))
           m == MethodObject(t, i)
<1>1. /\ o = [x \in DOMAIN o |-> o[x]]
      /\ DOMAIN o = {REQUEST_METHOD, REQUEST_URI, HTTP_VERSION}
                      \cup (IF IsPath(line) THEN {REQUEST_PATH} ELSE {})
                      \cup (IF HasQuery(line) THEN {QUERY_STRING} ELSE {})
      /\ o[REQUEST_METHOD] = [str |-> MethodOf(line)]
      /\ o[REQUEST_URI] = [str |-> IF IsPath(line) THEN PathOf(line) ELSE UriOf(line)]
      /\ o[HTTP_VERSION] = [str |-> VersionOf(line)]
      /\ IsPath(line) => o[REQUEST_PATH] = [str |-> PathOf(line)]
      /\ HasQuery(line) => o[QUERY_STRING] = [str |-> Past(UriOf(line), {Question})]
  BY ParametersAre
<1>2. /\ MethodOf(line) = SubSeq(t, 1, i - 1)
      /\ UriOf(line) = SubSeq(t, i + 1, j - 1)
      /\ VersionOf(line) = SubSeq(t, j + 1, n)
  BY LineParts
<1>3. /\ IsPath(line) <=> t[i + 1] = Slash
      /\ HasQuery(line) <=> t[i + 1] = Slash /\ \E k \in i + 1 .. j - 1 : t[k] = Question
      /\ (\A k \in i + 1 .. j - 1 : t[k] \notin {Semicolon, Question}) =>
           PathOf(line) = SubSeq(t, i + 1, j - 1)
      /\ \A s \in i + 1 .. j - 1 : FirstIn(t, i + 1, s, {Semicolon, Question}) =>
           PathOf(line) = SubSeq(t, i + 1, s - 1)
      /\ \A r \in i + 1 .. j - 1 : FirstIn(t, i + 1, r, {Question}) =>
           Past(UriOf(line), {Question}) = SubSeq(t, r + 1, j - 1)
  <2>1. AddressSays(line, t, i, j)
    BY AddressIs
  <2> QED
    BY <2>1 DEF AddressSays
<1> HIDE DEF line, o
<1>4. DOMAIN m = {REQUEST_METHOD} /\ m[REQUEST_METHOD] = Str(t, 1, i - 1)
  <2>1. DOMAIN NoObject = {}
    BY DEF NoObject
  <2> QED
    BY <2>1 DEF With, MethodObject
<1> HIDE DEF m
<1>5. /\ DOMAIN w = DOMAIN obj \cup {HTTP_VERSION} /\ w[HTTP_VERSION] = Str(t, j + 1, n)
      /\ \A x \in DOMAIN obj : x # HTTP_VERSION => w[x] = obj[x]
      /\ w = [x \in DOMAIN w |-> w[x]]
  BY DEF With
<1> HIDE DEF w
<1>6. ASSUME NEW s
      PROVE  LET y == PathObject(t, i, s) IN
             /\ DOMAIN y = {REQUEST_METHOD, REQUEST_PATH} /\ y[REQUEST_METHOD] = Str(t, 1, i - 1)
             /\ y[REQUEST_PATH] = Str(t, i + 1, s - 1)
  <2> DEFINE v == Str(t, i + 1, s - 1)
  <2>1. PathObject(t, i, s) = With(m, REQUEST_PATH, Str(t, i + 1, s - 1))
    BY DEF PathObject, m
  <2> QED
    BY <1>4, <2>1, NamesDiffer DEF With
<1>7. CASE t[i + 1] # Slash /\ obj = With(m, REQUEST_URI, Str(t, i + 1, j - 1))
  <2>1. /\ DOMAIN obj = {REQUEST_METHOD, REQUEST_URI} /\ obj[REQUEST_METHOD] = Str(t, 1, i - 1)
        /\ obj[REQUEST_URI] = Str(t, i + 1, j - 1)
    BY <1>4, <1>7, NamesDiffer DEF With
  <2>2. DOMAIN o = {REQUEST_METHOD, REQUEST_URI, HTTP_VERSION} /\ ~IsPath(line)
    BY <1>1, <1>3, <1>7
  <2>3. DOMAIN w = DOMAIN o
    BY <1>5, <2>1, <2>2
  <2>4. \A x \in DOMAIN w : w[x] = o[x]
    BY <1>1, <1>2, <1>5, <2>1, <2>2, NamesDiffer DEF Str
  <2>5. w = o
    BY <1>1, <1>5, <2>3, <2>4, SameObject
  <2> QED
    BY <2>5 DEF w, o, line
<1>8. ASSUME t[i + 1] = Slash, ~HasQuery(line), NEW s, PathOf(line) = SubSeq(t, i + 1, s - 1),
             obj = With(PathObject(t, i, s), REQUEST_URI, Str(t, i + 1, s - 1))
      PROVE  w = o
  <2>1. /\ DOMAIN obj = {REQUEST_METHOD, REQUEST_PATH, REQUEST_URI} /\ obj[REQUEST_METHOD] = Str(t, 1, i - 1)
        /\ obj[REQUEST_URI] = Str(t, i + 1, s - 1) /\ obj[REQUEST_PATH] = Str(t, i + 1, s - 1)
    BY <1>6, <1>8, NamesDiffer DEF With
  <2>2. DOMAIN o = {REQUEST_METHOD, REQUEST_URI, HTTP_VERSION, REQUEST_PATH} /\ IsPath(line)
    BY <1>1, <1>3, <1>8
  <2>3. DOMAIN w = DOMAIN o
    BY <1>5, <2>1, <2>2
  <2>4. \A x \in DOMAIN w : w[x] = o[x]
    BY <1>1, <1>2, <1>5, <1>8, <2>1, <2>2, NamesDiffer DEF Str
  <2> QED
    BY <1>1, <1>5, <2>3, <2>4, SameObject
<1>9. ASSUME t[i + 1] = Slash, HasQuery(line), NEW s, PathOf(line) = SubSeq(t, i + 1, s - 1),
             NEW r, Past(UriOf(line), {Question}) = SubSeq(t, r + 1, j - 1),
             obj = With(With(PathObject(t, i, s), QUERY_STRING, Str(t, r + 1, j - 1)),
                        REQUEST_URI, Str(t, i + 1, s - 1))
      PROVE  w = o
  <2> DEFINE y == With(PathObject(t, i, s), QUERY_STRING, Str(t, r + 1, j - 1))
  <2>1. /\ DOMAIN y = {REQUEST_METHOD, REQUEST_PATH, QUERY_STRING} /\ y[REQUEST_METHOD] = Str(t, 1, i - 1)
        /\ y[QUERY_STRING] = Str(t, r + 1, j - 1) /\ y[REQUEST_PATH] = Str(t, i + 1, s - 1)
    BY <1>6, NamesDiffer DEF With
  <2> HIDE DEF y
  <2>2. obj = With(y, REQUEST_URI, Str(t, i + 1, s - 1))
    BY <1>9 DEF y
  <2>3. /\ DOMAIN obj = {REQUEST_METHOD, REQUEST_PATH, QUERY_STRING, REQUEST_URI}
        /\ obj[REQUEST_METHOD] = Str(t, 1, i - 1) /\ obj[QUERY_STRING] = Str(t, r + 1, j - 1)
        /\ obj[REQUEST_URI] = Str(t, i + 1, s - 1) /\ obj[REQUEST_PATH] = Str(t, i + 1, s - 1)
    BY <2>1, <2>2, NamesDiffer DEF With
  <2>4. DOMAIN o = {REQUEST_METHOD, REQUEST_URI, HTTP_VERSION, REQUEST_PATH, QUERY_STRING} /\ IsPath(line)
    BY <1>1, <1>3, <1>9
  <2>5. DOMAIN w = DOMAIN o
    BY <1>5, <2>3, <2>4
  <2>6. \A x \in DOMAIN w : w[x] = o[x]
    <3>1. /\ w[REQUEST_METHOD] = o[REQUEST_METHOD] /\ w[REQUEST_URI] = o[REQUEST_URI]
          /\ w[REQUEST_PATH] = o[REQUEST_PATH]
      BY <1>1, <1>2, <1>5, <1>9, <2>3, <2>4, NamesDiffer DEF Str
    <3>2. w[QUERY_STRING] = o[QUERY_STRING] /\ w[HTTP_VERSION] = o[HTTP_VERSION]
      BY <1>1, <1>2, <1>5, <1>9, <2>3, <2>4, NamesDiffer DEF Str
    <3> QED
      BY <2>4, <2>5, <3>1, <3>2
  <2> QED
    BY <1>1, <1>5, <2>5, <2>6, SameObject
<1>10. CASE /\ t[i + 1] = Slash /\ \A k \in i + 1 .. j - 1 : t[k] \notin {Semicolon, Question}
            /\ obj = With(PathObject(t, i, j), REQUEST_URI, Str(t, i + 1, j - 1))
  <2>1. ~HasQuery(line) /\ PathOf(line) = SubSeq(t, i + 1, j - 1)
    BY <1>3, <1>10
  <2> QED
    BY <1>8, <1>10, <2>1 DEF w, o, line
<1>11. CASE /\ t[i + 1] = Slash /\ \A k \in i + 1 .. j - 1 : t[k] # Question
            /\ \E s \in i + 2 .. j - 1 :
                 /\ FirstIn(t, i + 1, s, {Semicolon, Question})
                 /\ obj = With(PathObject(t, i, s), REQUEST_URI, Str(t, i + 1, s - 1))
  <2>1. PICK s \in i + 2 .. j - 1 :
               /\ FirstIn(t, i + 1, s, {Semicolon, Question})
               /\ obj = With(PathObject(t, i, s), REQUEST_URI, Str(t, i + 1, s - 1))
    BY <1>11
  <2>2. ~HasQuery(line)
    BY <1>3, <1>11
  <2>3. PathOf(line) = SubSeq(t, i + 1, s - 1)
    BY <1>3, <2>1
  <2> QED
    BY <1>8, <1>11, <2>1, <2>2, <2>3 DEF w, o, line
<1>12. CASE /\ t[i + 1] = Slash
            /\ \E s \in i + 2 .. j - 1 : \E r \in s .. j - 1 :
                 /\ FirstIn(t, i + 1, s, {Semicolon, Question}) /\ FirstIn(t, i + 1, r, {Question})
                 /\ obj = With(With(PathObject(t, i, s), QUERY_STRING, Str(t, r + 1, j - 1)),
                               REQUEST_URI, Str(t, i + 1, s - 1))
  <2>1. PICK s \in i + 2 .. j - 1 : \E r \in s .. j - 1 :
                 /\ FirstIn(t, i + 1, s, {Semicolon, Question}) /\ FirstIn(t, i + 1, r, {Question})
                 /\ obj = With(With(PathObject(t, i, s), QUERY_STRING, Str(t, r + 1, j - 1)),
                               REQUEST_URI, Str(t, i + 1, s - 1))
    BY <1>12
  <2>2. PICK r \in s .. j - 1 :
                 /\ FirstIn(t, i + 1, s, {Semicolon, Question}) /\ FirstIn(t, i + 1, r, {Question})
                 /\ obj = With(With(PathObject(t, i, s), QUERY_STRING, Str(t, r + 1, j - 1)),
                               REQUEST_URI, Str(t, i + 1, s - 1))
    BY <2>1
  <2>3. r \in i + 1 .. j - 1 /\ t[r] = Question /\ s \in i + 1 .. j - 1
    BY <2>2 DEF FirstIn
  <2>4. HasQuery(line)
    BY <1>3, <1>12, <2>3
  <2>5. PathOf(line) = SubSeq(t, i + 1, s - 1) /\ Past(UriOf(line), {Question}) = SubSeq(t, r + 1, j - 1)
    BY <1>3, <2>2, <2>3
  <2> QED
    BY <1>9, <1>12, <2>2, <2>4, <2>5 DEF w, o, line
<1> QED
  BY <1>7, <1>10, <1>11, <1>12 DEF AddressObject, m, w, o, line

-----------------------------------------------------------------------------
(* Lines, values and objects                                                 *)

LEMMA MaxOf ==
  ASSUME NEW S \in SUBSET Nat, NEW x \in S, \A y \in S : y <= x
  PROVE  Max(S) = x
<1>1. Max(S) \in S /\ \A y \in S : Max(S) >= y
  BY DEF Max
<1>2. Max(S) \in Nat /\ x \in Nat /\ Max(S) <= x /\ x <= Max(S)
  BY <1>1
<1> QED
  BY <1>2

\* The ends and the lines up to the first CR.
LEMMA FirstLine ==
  ASSUME NEW t \in Seq(Octet), NEW e \in Nat \ {0}, t[e] = CR, \A k \in 1 .. e - 1 : t[k] # CR
  PROVE  Ends(t, e) = {e} /\ Min(Ends(t, e)) = e /\ Line(t, e) = SubSeq(t, 1, e - 1)
<1>1. Ends(t, e) = {e} /\ Ends(t, e - 1) = {}
  BY DEF Ends
<1>2. Min({e}) = e
  BY MinOf
<1> QED
  BY <1>1, <1>2 DEF Line

\* The CR at n is the next one behind the one at e.
Follows(t, e, n) ==
  /\ e \in Nat \ {0} /\ n \in e + 1 .. Len(t) /\ t[e] = CR /\ t[n] = CR
  /\ \A k \in e + 1 .. n - 1 : t[k] # CR

LEMMA NextLine ==
  ASSUME NEW t \in Seq(Octet), NEW e, NEW n, Follows(t, e, n)
  PROVE  /\ Ends(t, n) = Ends(t, e) \cup {n} /\ Ends(t, e) \subseteq 1 .. e /\ e \in Ends(t, e)
         /\ Min(Ends(t, n)) = Min(Ends(t, e)) /\ Min(Ends(t, e)) \in Ends(t, e)
         /\ Line(t, n) = SubSeq(t, e + 2, n - 1)
<1>1. e \in Nat \ {0} /\ n \in e + 1 .. Len(t) /\ t[e] = CR /\ t[n] = CR /\ n \in Nat
      /\ \A k \in e + 1 .. n - 1 : t[k] # CR
  BY DEF Follows
<1>2. Ends(t, n) = Ends(t, e) \cup {n} /\ Ends(t, n - 1) = Ends(t, e) /\ Ends(t, e) \subseteq 1 .. e
      /\ e \in Ends(t, e)
  BY <1>1 DEF Ends
<1>3. Ends(t, e) \subseteq Nat /\ Ends(t, e) # {} /\ Ends(t, n) \subseteq Nat
  BY <1>1, <1>2
<1>4. Min(Ends(t, e)) \in Ends(t, e) /\ \A y \in Ends(t, e) : Min(Ends(t, e)) <= y
  BY <1>3, MinIsLeast
<1>5. Min(Ends(t, n)) = Min(Ends(t, e))
  <2> DEFINE x == Min(Ends(t, e))
             S == Ends(t, n)
  <2>1. x \in S /\ S \in SUBSET Nat /\ \A y \in S : x <= y
    BY <1>1, <1>2, <1>3, <1>4
  <2> HIDE DEF x, S
  <2>2. Min(S) = x
    BY <2>1, MinOf
  <2> QED
    BY <2>2 DEF x, S
<1>6. Max(Ends(t, e)) = e
  <2> DEFINE S == Ends(t, e)
  <2>1. e \in S /\ S \in SUBSET Nat /\ \A y \in S : y <= e
    BY <1>1, <1>2, <1>3
  <2> HIDE DEF S
  <2>2. Max(S) = e
    BY <2>1, MaxOf
  <2> QED
    BY <2>2 DEF S
<1>7. Line(t, n) = SubSeq(t, e + 2, n - 1)
  BY <1>2, <1>3, <1>6 DEF Line
<1> QED
  BY <1>2, <1>4, <1>5, <1>7

\* The line that ends at n is a field with its colon at c.
Field(t, e, c, n) ==
  /\ Follows(t, e, n) /\ c \in e + 3 .. n - 1 /\ t[c] = Colon /\ AllIn(t, e + 2, c - 1, FieldByte)

LEMMA FieldParts ==
  ASSUME NEW t \in Seq(Octet), NEW e, NEW c, NEW n, Field(t, e, c, n)
  PROVE  /\ NameOf(Line(t, n)) = SubSeq(t, e + 2, c - 1)
         /\ Past(Line(t, n), {Colon}) = SubSeq(t, c + 1, n - 1)
<1>1. Line(t, n) = SubSeq(t, e + 2, n - 1)
  BY NextLine DEF Field
<1>2. ASSUME NEW a, NEW z, NEW bytes, a = e + 2, z = n - 1, bytes = {Colon}
      PROVE  /\ UpTo(SubSeq(t, a, z), bytes) = SubSeq(t, a, c - 1)
             /\ Past(SubSeq(t, a, z), bytes) = SubSeq(t, c + 1, z)
  <2>1. /\ a \in Nat \ {0} /\ z \in Nat /\ z <= Len(t) /\ c \in a .. z /\ t[c] \in bytes
    BY <1>2 DEF Field, Follows
  <2>2. \A m \in a .. c - 1 : t[m] \notin bytes
    BY <1>2, ByteClasses DEF Field, AllIn
  <2> QED
    BY <2>1, <2>2, DividedAt
<1>3. /\ UpTo(SubSeq(t, e + 2, n - 1), {Colon}) = SubSeq(t, e + 2, c - 1)
      /\ Past(SubSeq(t, e + 2, n - 1), {Colon}) = SubSeq(t, c + 1, n - 1)
  BY <1>2
<1> QED
  BY <1>1, <1>3 DEF NameOf

TextOf(t, d) == Past(Line(t, d), {Colon})

\* The ends of the lines that have a value of their own.
Owners(t, n) == {d \in Ends(t, n) : d = Min(Ends(t, n)) \/ TextOf(t, d) # <<>>}

LEMMA ValueIs ==
  ASSUME NEW t, NEW n
  PROVE  ToldValue(t, n) = IF Max(Owners(t, n)) = Min(Ends(t, n))
                         THEN VersionOf(Line(t, Min(Ends(t, n))))
                         ELSE UpTo(ToldText(TextOf(t, Max(Owners(t, n)))), {NUL})
BY DEF ToldValue, Owners, TextOf

LEMMA ValueOfNext ==
  ASSUME NEW t \in Seq(Octet), NEW e, NEW c, NEW n, Field(t, e, c, n)
  PROVE  /\ n = c + 1 => ToldValue(t, n) = ToldValue(t, e)
         /\ n # c + 1 => ToldValue(t, n) = UpTo(ToldText(SubSeq(t, c + 1, n - 1)), {NUL})
<1>1. /\ Ends(t, n) = Ends(t, e) \cup {n} /\ Ends(t, e) \subseteq 1 .. e /\ e \in Ends(t, e)
      /\ Min(Ends(t, n)) = Min(Ends(t, e)) /\ Min(Ends(t, e)) \in Ends(t, e)
  BY NextLine DEF Field
<1>2. TextOf(t, n) = SubSeq(t, c + 1, n - 1)
  BY FieldParts DEF TextOf
<1>3. /\ e \in Nat \ {0} /\ n \in e + 1 .. Len(t) /\ n \in Nat /\ c \in e + 3 .. n - 1 /\ c \in Nat
  BY DEF Field, Follows
<1>4. n # Min(Ends(t, n)) /\ n \notin Ends(t, e)
  BY <1>1, <1>3
<1>5. CASE n = c + 1
  <2>1. TextOf(t, n) = <<>>
    BY <1>2, <1>3, <1>5
  <2>2. Owners(t, n) = Owners(t, e)
    BY <1>1, <1>4, <2>1 DEF Owners
  <2> QED
    BY <1>1, <1>5, <2>2, ValueIs
<1>6. CASE n # c + 1
  <2>1. TextOf(t, n) # <<>>
    <3>1. c + 1 \in Nat \ {0} /\ n - 1 \in Nat /\ c + 1 <= n - 1 /\ n - 1 <= Len(t)
      BY <1>3, <1>6
    <3>2. Len(SubSeq(t, c + 1, n - 1)) = n - 1 - (c + 1) + 1
      BY <3>1
    <3>3. Len(SubSeq(t, c + 1, n - 1)) # 0
      BY <1>3, <3>1, <3>2
    <3>4. Len(TextOf(t, n)) # 0 /\ Len(<<>>) = 0
      BY <1>2, <3>3
    <3> QED
      BY <3>4
  <2> DEFINE S == Owners(t, n)
  <2>2. n \in S /\ S \in SUBSET Nat /\ \A y \in S : y <= n
    BY <1>1, <1>3, <2>1 DEF Owners
  <2> HIDE DEF S
  <2>3. Max(S) = n
    BY <1>3, <2>2, MaxOf
  <2>4. ToldValue(t, n) = UpTo(ToldText(TextOf(t, n)), {NUL})
    BY <1>4, <2>3, ValueIs DEF S
  <2> QED
    BY <1>2, <1>6, <2>4
<1> QED
  BY <1>5, <1>6

\* The spaces in front of a value, or a value of spaces alone.
LEMMA TrimmedIs ==
  ASSUME NEW t \in Seq(Octet), NEW i \in Nat \ {0}, NEW j \in Nat, i <= j, j <= Len(t)
  PROVE  /\ (\A k \in i .. j : t[k] = Space) => ToldText(SubSeq(t, i, j)) = SubSeq(t, j, j)
         /\ \A m \in i .. j : t[m] # Space /\ (\A k \in i .. m - 1 : t[k] = Space) =>
              ToldText(SubSeq(t, i, j)) = SubSeq(t, m, j)
<1> DEFINE u == SubSeq(t, i, j)
           z == j - i + 1
<1>1. /\ u \in Seq(Octet) /\ Len(u) = z /\ DOMAIN u = 1 .. z /\ z \in Nat \ {0}
      /\ \A k \in 1 .. z : u[k] = t[i + k - 1]
  <2>1. i <= j + 1
    OBVIOUS
  <2> QED
    BY <2>1, PieceIs
<1>2. \A k \in 1 .. z : i + k - 1 \in i .. j
  OBVIOUS
<1> HIDE DEF u
<1>3. ASSUME \A k \in i .. j : t[k] = Space
      PROVE  ToldText(u) = SubSeq(t, j, j)
  <2>1. AllIn(u, 1, Len(u), {Space})
    BY <1>1, <1>2, <1>3 DEF AllIn
  <2>2. ToldText(u) = <<Space>>
    BY <2>1 DEF ToldText
  <2>3. t[j] = Space /\ j \in Nat \ {0} /\ j <= j + 1
    BY <1>3
  <2>4. /\ SubSeq(t, j, j) \in Seq(Octet) /\ Len(SubSeq(t, j, j)) = j - j + 1
        /\ \A k \in 1 .. j - j + 1 : SubSeq(t, j, j)[k] = t[j + k - 1]
    BY <2>3, PieceIs
  <2> DEFINE w == SubSeq(t, j, j)
             s == <<Space>>
  <2>5. w \in Seq(Octet) /\ Len(w) = 1 /\ w[1] = Space
    BY <2>3, <2>4
  <2>6. s \in Seq(Octet) /\ Len(s) = 1 /\ s[1] = Space
    BY DEF Octet
  <2> HIDE DEF w, s
  <2>7. w = s
    BY <2>5, <2>6, SamePiece
  <2> QED
    BY <2>2, <2>7 DEF w, s
<1>4. ASSUME NEW m \in i .. j, t[m] # Space, \A k \in i .. m - 1 : t[k] = Space
      PROVE  ToldText(u) = SubSeq(t, m, j)
  <2> DEFINE f == m - i + 1
             S == {k \in DOMAIN u : u[k] # Space}
  <2>1. f \in 1 .. z /\ f \in Nat \ {0} /\ i + f - 1 = m /\ u[f] = t[m]
    <3>1. f \in 1 .. z /\ f \in Nat \ {0} /\ i + f - 1 = m
      OBVIOUS
    <3>2. u[f] = t[i + f - 1]
      BY <1>1, <3>1
    <3> QED
      BY <3>1, <3>2
  <2>2. \A k \in 1 .. f - 1 : i + k - 1 \in i .. m - 1 /\ k \in 1 .. z
    OBVIOUS
  <2>3. \A k \in 1 .. f - 1 : u[k] = Space
    BY <1>1, <1>4, <2>2
  <2> HIDE DEF f
  <2>4. ~AllIn(u, 1, Len(u), {Space})
    BY <1>1, <1>4, <2>1 DEF AllIn
  <2>5. f \in S /\ S \in SUBSET Nat /\ \A k \in S : f <= k
    BY <1>1, <1>4, <2>1, <2>3
  <2> HIDE DEF S
  <2>6. Min(S) = f
    BY <2>1, <2>5, MinOf
  <2>7. ToldText(u) = SubSeq(u, f, z)
    BY <1>1, <2>4, <2>6 DEF ToldText, From, S
  <2>8. SubSeq(u, f, z) = SubSeq(t, m, j)
    <3>1. f <= z + 1 /\ z <= j - i + 1 /\ z \in Nat /\ i <= j + 1 /\ i + f - 1 = m /\ i + z - 1 = j
      BY <2>1
    <3> HIDE DEF z
    <3>2. SubSeq(SubSeq(t, i, j), f, z) = SubSeq(t, i + f - 1, i + z - 1)
      BY <2>1, <3>1, PieceOfPiece
    <3> QED
      BY <3>1, <3>2 DEF u
  <2> QED
    BY <2>7, <2>8
<1> QED
  BY <1>3, <1>4 DEF u

\* The object after one line more.
LEMMA ObjectIs ==
  ASSUME NEW t, NEW n
  PROVE  LET first == Min(Ends(t, n))
             fields == Ends(t, n) \ {first}
             headers == {NameOf(Line(t, e)) : e \in fields}
             given == ToldLine(Line(t, first))
         IN ToldObject(t, n) = [name \in headers \cup DOMAIN given |->
              IF name \in headers
              THEN Given(name, ToldValue(t, Max({e \in fields : NameOf(Line(t, e)) = name})))
              ELSE given[name]]
BY DEF ToldObject

LEMMA FirstObject ==
  ASSUME NEW t \in Seq(Octet), NEW e \in Nat \ {0}, t[e] = CR, \A k \in 1 .. e - 1 : t[k] # CR
  PROVE  /\ ToldObject(t, e) = ToldLine(SubSeq(t, 1, e - 1))
         /\ ToldValue(t, e) = VersionOf(SubSeq(t, 1, e - 1))
<1>1. Ends(t, e) = {e} /\ Min(Ends(t, e)) = e /\ Line(t, e) = SubSeq(t, 1, e - 1)
  BY FirstLine
<1> DEFINE g == ToldLine(SubSeq(t, 1, e - 1))
<1>2. g = [x \in DOMAIN g |-> g[x]]
  BY ParametersAre
<1> HIDE DEF g
<1>3. ToldObject(t, e) = g
  <2> DEFINE headers == {NameOf(Line(t, d)) : d \in Ends(t, e) \ {e}}
  <2>1. headers = {}
    BY <1>1
  <2> HIDE DEF headers
  <2>2. ToldObject(t, e) = [name \in headers \cup DOMAIN g |->
          IF name \in headers
          THEN Given(name, ToldValue(t, Max({d \in Ends(t, e) \ {e} : NameOf(Line(t, d)) = name})))
          ELSE g[name]]
    BY <1>1, ObjectIs DEF headers, g
  <2> QED
    BY <1>2, <2>1, <2>2
<1>4. Owners(t, e) = {e}
  BY <1>1 DEF Owners
<1>5. Max({e}) = e
  BY MaxOf
<1>6. ToldValue(t, e) = VersionOf(SubSeq(t, 1, e - 1))
  BY <1>1, <1>4, <1>5, ValueIs
<1> QED
  BY <1>3, <1>6 DEF g

LEMMA ObjectGrows ==
  ASSUME NEW t \in Seq(Octet), NEW e, NEW n, Follows(t, e, n), NEW name, name = NameOf(Line(t, n))
  PROVE  ToldObject(t, n) = With(ToldObject(t, e), name, Given(name, ToldValue(t, n)))
<1>1. /\ Ends(t, n) = Ends(t, e) \cup {n} /\ Ends(t, e) \subseteq 1 .. e /\ e \in Ends(t, e)
      /\ Min(Ends(t, n)) = Min(Ends(t, e)) /\ Min(Ends(t, e)) \in Ends(t, e)
  BY NextLine
<1>2. n \in Nat /\ e \in Nat /\ e < n
  BY DEF Follows
<1> DEFINE first == Min(Ends(t, e))
           g == ToldLine(Line(t, first))
           F == Ends(t, e) \ {first}
           G == Ends(t, n) \ {first}
           H == {NameOf(Line(t, d)) : d \in F}
           K == {NameOf(Line(t, d)) : d \in G}
           called(x) == {d \in F : NameOf(Line(t, d)) = x}
           now(x) == {d \in G : NameOf(Line(t, d)) = x}
           v == Given(name, ToldValue(t, n))
<1>3. ToldObject(t, e) = [x \in H \cup DOMAIN g |->
        IF x \in H THEN Given(x, ToldValue(t, Max(called(x)))) ELSE g[x]]
  BY ObjectIs
<1>4. ToldObject(t, n) = [x \in K \cup DOMAIN g |->
        IF x \in K THEN Given(x, ToldValue(t, Max(now(x)))) ELSE g[x]]
  BY <1>1, ObjectIs
<1>5. G = F \cup {n} /\ n \notin F /\ F \subseteq 1 .. e
  BY <1>1, <1>2
<1> HIDE DEF F, G, first, g
<1>6. K = H \cup {name}
  BY <1>5
<1>7. ASSUME NEW x, x # name PROVE now(x) = called(x)
  BY <1>5, <1>7
<1>8. Max(now(name)) = n
  <2> DEFINE S == now(name)
  <2>1. n \in S /\ S \in SUBSET Nat /\ \A y \in S : y <= n
    <3>1. n \in S
      BY <1>5
    <3>2. S \subseteq F \cup {n}
      BY <1>5
    <3>3. \A y \in F \cup {n} : y \in Nat /\ y <= n
      BY <1>2, <1>5
    <3> HIDE DEF S
    <3> QED
      BY <3>1, <3>2, <3>3
  <2> HIDE DEF S
  <2>2. Max(S) = n
    BY <2>1, MaxOf
  <2> QED
    BY <2>2 DEF S
<1> DEFINE o == ToldObject(t, e)
           w == With(o, name, v)
           r == ToldObject(t, n)
<1> HIDE DEF H, K, called, now
<1>9. DOMAIN r = K \cup DOMAIN g /\ r = [x \in DOMAIN r |-> r[x]]
      /\ \A x \in K \cup DOMAIN g : r[x] = IF x \in K THEN Given(x, ToldValue(t, Max(now(x)))) ELSE g[x]
  BY <1>4
<1>10. DOMAIN o = H \cup DOMAIN g
       /\ \A x \in H \cup DOMAIN g : o[x] = IF x \in H THEN Given(x, ToldValue(t, Max(called(x)))) ELSE g[x]
  BY <1>3
<1> HIDE DEF o, r, v
<1>11. DOMAIN w = DOMAIN o \cup {name} /\ w = [x \in DOMAIN w |-> w[x]] /\ w[name] = v
       /\ \A x \in DOMAIN o : x # name => w[x] = o[x]
  BY DEF With
<1> HIDE DEF w
<1>12. DOMAIN w = DOMAIN r
  BY <1>6, <1>9, <1>10, <1>11
<1>13. ASSUME NEW x \in DOMAIN w PROVE w[x] = r[x]
  <2>1. CASE x = name
    <3>1. r[name] = Given(name, ToldValue(t, Max(now(name))))
      BY <1>6, <1>9
    <3>2. r[name] = v
      BY <1>8, <3>1 DEF v
    <3> QED
      BY <1>11, <2>1, <3>2
  <2>2. CASE x # name
    <3>1. x \in DOMAIN o /\ w[x] = o[x]
      BY <1>11, <2>2
    <3>2. x \in K <=> x \in H
      BY <1>6, <2>2
    <3>3. now(x) = called(x)
      BY <1>7, <2>2
    <3> QED
      BY <1>6, <1>9, <1>10, <3>1, <3>2, <3>3
  <2> QED
    BY <2>1, <2>2
<1>14. w = r
  BY <1>9, <1>11, <1>12, <1>13, SameObject
<1> QED
  BY <1>14 DEF w, r, o, v

-----------------------------------------------------------------------------
(* What the callbacks do to the object                                       *)

LEMMA MarkIs ==
  ASSUME NEW s, IsState(s), NEW at
  PROVE  Acts(s, <<"mark">>, at) = [q |-> [s.q EXCEPT !.mark = at], b |-> s.b, obj |-> s.obj, told |-> s.told]
<1>1. Acts(s, <<"mark">>, at) = [s EXCEPT !.q.mark = at]
  <2>1. Acts(s, <<"mark">>, at) = Act(s, "mark", at)
    BY OneAct
  <2>2. Act(s, "mark", at) = [s EXCEPT !.q.mark = at]
    BY DEF Act
  <2> QED
    BY <2>1, <2>2
<1> QED
  BY <1>1 DEF IsState

LEMMA QueryStartIs ==
  ASSUME NEW s, IsState(s), NEW at
  PROVE  Acts(s, <<"query_start">>, at) =
           [q |-> [s.q EXCEPT !.query_start = at], b |-> s.b, obj |-> s.obj, told |-> s.told]
<1>1. Acts(s, <<"query_start">>, at) = [s EXCEPT !.q.query_start = at]
  <2>1. Acts(s, <<"query_start">>, at) = Act(s, "query_start", at)
    BY OneAct
  <2>2. Act(s, "query_start", at) = [s EXCEPT !.q.query_start = at]
    BY DEF Act
  <2> QED
    BY <2>1, <2>2
<1> QED
  BY <1>1 DEF IsState

LEMMA FieldStartIs ==
  ASSUME NEW s, IsState(s), NEW at
  PROVE  Acts(s, <<"field_start">>, at) =
           [q |-> [s.q EXCEPT !.field_start = at], b |-> s.b, obj |-> s.obj, told |-> s.told]
<1>1. Acts(s, <<"field_start">>, at) = [s EXCEPT !.q.field_start = at]
  <2>1. Acts(s, <<"field_start">>, at) = Act(s, "field_start", at)
    BY OneAct
  <2>2. Act(s, "field_start", at) = [s EXCEPT !.q.field_start = at]
    BY DEF Act
  <2> QED
    BY <2>1, <2>2
<1> QED
  BY <1>1 DEF IsState

LEMMA FieldLenIs ==
  ASSUME NEW s, IsState(s), NEW at
  PROVE  Acts(s, <<"field_len">>, at) =
           [q |-> [s.q EXCEPT !.field_len = at - s.q.field_start], b |-> s.b, obj |-> s.obj, told |-> s.told]
<1>1. Acts(s, <<"field_len">>, at) = [s EXCEPT !.q.field_len = at - s.q.field_start]
  <2>1. Acts(s, <<"field_len">>, at) = Act(s, "field_len", at)
    BY OneAct
  <2>2. Act(s, "field_len", at) = [s EXCEPT !.q.field_len = at - s.q.field_start]
    BY DEF Act
  <2> QED
    BY <2>1, <2>2
<1> QED
  BY <1>1 DEF IsState

LEMMA ElementIs ==
  ASSUME NEW s, IsState(s), NEW at, NEW name, NEW from
  PROVE  /\ IsState(Element(s, name, from, at))
         /\ Element(s, name, from, at).q = s.q
         /\ Element(s, name, from, at).b = Ended(s.b, at)
         /\ Element(s, name, from, at).obj = With(s.obj, name, [str |-> CString(Ended(s.b, at), from)])
<1> DEFINE b == Ended(s.b, at)
           o == With(s.obj, name, [str |-> CString(b, from)])
<1>1. Element(s, name, from, at) = [s EXCEPT !.b = b, !.obj = o]
  BY DEF Element
<1> HIDE DEF b, o
<1>2. LET r == Element(s, name, from, at) IN IsState(r) /\ r.q = s.q /\ r.b = b /\ r.obj = o
  BY <1>1 DEF IsState
<1> QED
  BY <1>2 DEF b, o

LEMMA PartActs ==
  ASSUME NEW s, IsState(s), NEW at
  PROVE  /\ Act(s, "request_method", at) = Element(s, REQUEST_METHOD, s.q.mark, at)
         /\ Act(s, "request_uri", at) = Element(s, REQUEST_URI, s.q.mark, at)
         /\ Act(s, "request_path", at) = Element(s, REQUEST_PATH, s.q.mark, at)
         /\ Act(s, "query_string", at) = Element(s, QUERY_STRING, s.q.query_start, at)
         /\ Act(s, "http_version", at) = Element(s, HTTP_VERSION, s.q.mark, at)
BY DEF Act

LEMMA http_fieldIs ==
  ASSUME NEW s, IsState(s), NEW at, NEW b, b = Ended(Ended(s.b, s.q.field_start + s.q.field_len), at),
         NEW name, name = CString(b, s.q.field_start)
  PROVE  Acts(s, <<"http_field">>, at) =
           [q |-> s.q, b |-> b, obj |-> With(s.obj, name, Given(name, CString(b, s.q.mark))), told |-> s.told]
<1> DEFINE o == With(s.obj, name, Given(name, CString(b, s.q.mark)))
<1>1. Acts(s, <<"http_field">>, at) = http_field(s, at)
  <2>1. Acts(s, <<"http_field">>, at) = Act(s, "http_field", at)
    BY OneAct
  <2>2. Act(s, "http_field", at) = http_field(s, at)
    BY DEF Act
  <2> QED
    BY <2>1, <2>2
<1>2. http_field(s, at) = [s EXCEPT !.b = b, !.obj = o]
  BY DEF http_field
<1> HIDE DEF o
<1>3. http_field(s, at) = [q |-> s.q, b |-> b, obj |-> o, told |-> s.told]
  BY <1>2 DEF IsState
<1> QED
  BY <1>1, <1>3 DEF o

-----------------------------------------------------------------------------
(* What the object, the buffer and the marks are when the parser is in a     *)
(* state: s has the struct, the buffer, the object and the objects passed on *)

Same(b, t, i, j) == \A k \in i .. j : b[k] = t[k]

InMethod(s, t, n) ==
  n >= 1 /\ s.q.mark = 0 /\ Plain(t, 1, n) /\ Same(s.b, t, 1, n) /\ s.obj = NoObject

BehindMethod(s, t, n) ==
  n >= 2 /\ Plain(t, 1, n - 1) /\ t[n] = Space /\ s.obj = MethodObject(t, n)

InUri(s, t, i, n) ==
  /\ i \in 2 .. n - 1 /\ Plain(t, 1, i - 1) /\ t[i] = Space /\ Plain(t, i + 1, n)
  /\ s.q.mark = i

InWord(s, t, n) ==
  \E i \in 2 .. n - 1 :
    InUri(s, t, i, n) /\ t[i + 1] # Slash /\ Same(s.b, t, i + 1, n) /\ s.obj = MethodObject(t, i)

InPath(s, t, n) ==
  \E i \in 2 .. n - 1 :
    /\ InUri(s, t, i, n) /\ t[i + 1] = Slash /\ Same(s.b, t, i + 1, n) /\ s.obj = MethodObject(t, i)
    /\ \A k \in i + 1 .. n : t[k] \notin {Semicolon, Question}

\* The path ended at s: there is a NUL now.
BehindPath(s, t, i, e) ==
  /\ t[i + 1] = Slash /\ FirstIn(t, i + 1, e, {Semicolon, Question})
  /\ Same(s.b, t, i + 1, e - 1) /\ s.b[e] = NUL /\ s.obj = PathObject(t, i, e)

InParams(s, t, n) ==
  \E i \in 2 .. n - 1 : \E e \in i + 2 .. n :
    InUri(s, t, i, n) /\ BehindPath(s, t, i, e) /\ \A k \in i + 1 .. n : t[k] # Question

InQuery(st, s, t, n) ==
  \E i \in 2 .. n - 1 : \E e \in i + 2 .. n : \E r \in e .. n :
    /\ InUri(s, t, i, n) /\ BehindPath(s, t, i, e) /\ FirstIn(t, i + 1, r, {Question})
    /\ IF st = 30 THEN r = n ELSE s.q.query_start = r
    /\ Same(s.b, t, r + 1, n)

BehindUri(s, t, n) == \E i \in Nat : Between(t, i, n) /\ AddressObject(s.obj, t, i, n)

InVersion(s, t, n) ==
  \E i \in Nat : \E j \in 1 .. n - 1 :
    /\ Between(t, i, j) /\ AddressObject(s.obj, t, i, j)
    /\ s.q.mark = j /\ Plain(t, j + 1, n) /\ Same(s.b, t, j + 1, n)

\* The mark is at the value of the line that ends at e.
Shown(s, t, e) ==
  /\ s.q.mark \in Nat /\ CString(s.b, s.q.mark) = ToldValue(t, e)
  /\ \E end \in s.q.mark .. e - 1 : EndsAt(s.b, s.q.mark, end)

Gathered(s, t, e) ==
  e \in 1 .. Len(t) /\ t[e] = CR /\ s.obj = ToldObject(t, e) /\ Shown(s, t, e)

InName(s, t, n) ==
  \E e \in 1 .. n - 2 :
    /\ Gathered(s, t, e) /\ t[e + 1] = LF /\ AllIn(t, e + 2, n, FieldByte)
    /\ Same(s.b, t, e + 2, n) /\ s.q.field_start = e + 1

\* Behind the colon at c: spaces in front of the value, or the value.
Marked(st, s, t, e, c, n) ==
  IF st = 18
  THEN /\ \A k \in c + 1 .. n : t[k] = Space
       /\ IF n = c THEN Shown(s, t, e) ELSE s.q.mark = n - 1
  ELSE \E m \in c + 1 .. n :
         t[m] # Space /\ (\A k \in c + 1 .. m - 1 : t[k] = Space) /\ s.q.mark = m - 1

InValue(st, s, t, n) ==
  \E e \in 1 .. n - 3 : \E c \in e + 3 .. n :
    /\ t[e] = CR /\ t[e + 1] = LF /\ AllIn(t, e + 2, c - 1, FieldByte) /\ t[c] = Colon
    /\ \A k \in c + 1 .. n : t[k] # CR
    /\ Same(s.b, t, e + 2, n) /\ s.obj = ToldObject(t, e)
    /\ s.q.field_start = e + 1 /\ s.q.field_len = c - e - 2
    /\ Marked(st, s, t, e, c, n)

\* What was collected of the first n bytes of t.
Got(st, s, t, n) ==
  /\ st = start => n = 0 /\ s.obj = NoObject
  /\ st = 2 \/ st \in 34 .. 52 => InMethod(s, t, n)
  /\ st = 3 => BehindMethod(s, t, n)
  /\ st = 4 \/ st \in 20 .. 23 => InWord(s, t, n)
  /\ st \in 24 .. 26 => InPath(s, t, n)
  /\ st \in 27 .. 29 => InParams(s, t, n)
  /\ st \in 30 .. 33 => InQuery(st, s, t, n)
  /\ st = 5 => BehindUri(s, t, n)
  /\ st \in 6 .. 13 => InVersion(s, t, n)
  /\ st = 14 => Gathered(s, t, n)
  /\ st = 15 => Gathered(s, t, n - 1) /\ t[n] = LF
  /\ st = 16 => Gathered(s, t, n - 2)
  /\ st = 17 => InName(s, t, n)
  /\ st \in {18, 19} => InValue(st, s, t, n)

\* The byte ahead is the one of the text.
Ready(s, t, n) ==
  /\ IsState(s) /\ s.q \in Parser /\ s.b \in Seq(Octet) /\ Len(s.b) = Len(t)
  /\ t \in Seq(Octet) /\ n \in Nat /\ n < Len(t) /\ s.b[n + 1] = t[n + 1]

LEMMA GotOf ==
  ASSUME NEW st \in 0 .. 52, NEW s, NEW t, NEW n \in Nat,
         \/ (st = 2 \/ st \in 34 .. 52) /\ InMethod(s, t, n)
         \/ st = 3 /\ BehindMethod(s, t, n)
         \/ (st = 4 \/ st \in 20 .. 23) /\ InWord(s, t, n)
         \/ st \in 24 .. 26 /\ InPath(s, t, n)
         \/ st \in 27 .. 29 /\ InParams(s, t, n)
         \/ st \in 30 .. 33 /\ InQuery(st, s, t, n)
         \/ st = 5 /\ BehindUri(s, t, n)
         \/ st \in 6 .. 13 /\ InVersion(s, t, n)
         \/ st = 14 /\ Gathered(s, t, n)
         \/ st = 15 /\ Gathered(s, t, n - 1) /\ t[n] = LF
         \/ st = 16 /\ Gathered(s, t, n - 2)
         \/ st = 17 /\ InName(s, t, n)
         \/ st \in {18, 19} /\ InValue(st, s, t, n)
  PROVE  Got(st, s, t, n)
BY DEF Got

\* No part of the request line and no name has a NUL in it.
LEMMA NoNUL ==
  \A c \in MethodByte \cup SchemeByte \cup UriByte \cup FieldByte \cup DigitByte \cup Hex
             \cup {Percent, Semicolon, Question, Star, Slash, Colon, 46, 72, 80, 84} :
    c \notin {NUL, Space, CR}
BY ByteClasses DEF MethodByte, SchemeByte, UriByte, FieldByte, DigitByte, Upper, Lower, Hex

LEMMA Grows ==
  ASSUME NEW b, NEW t, NEW i \in Nat, NEW n \in Nat
  PROVE  /\ Plain(t, i, n) /\ t[n + 1] \notin {NUL, Space, CR} => Plain(t, i, n + 1)
         /\ Same(b, t, i, n) /\ b[n + 1] = t[n + 1] => Same(b, t, i, n + 1)
BY DEF Plain, Same

LEMMA Alone ==
  ASSUME NEW b, NEW t, NEW n \in Nat
  PROVE  /\ t[n + 1] \notin {NUL, Space, CR} => Plain(t, n + 1, n + 1)
         /\ b[n + 1] = t[n + 1] => Same(b, t, n + 1, n + 1)
BY DEF Plain, Same

LEMMA EndedKeeps ==
  ASSUME NEW b \in Seq(Octet), NEW n \in Nat, n < Len(b), NEW d, d = Ended(b, n)
  PROVE  /\ d \in Seq(Octet) /\ Len(d) = Len(b) /\ d[n + 1] = NUL
         /\ \A k \in 1 .. Len(b) : d[k] = b[k] \/ (k = n + 1 /\ d[k] = NUL)
<1>1. n \in Int /\ n + 1 \in 1 .. Len(b)
  OBVIOUS
<1>2. /\ d \in Seq(Octet) /\ Len(d) = Len(b)
      /\ \A i \in 1 .. Len(b) : d[i] = IF i = n + 1 THEN NUL ELSE b[i]
  BY <1>1, EndedIs
<1> QED
  BY <1>1, <1>2

\* A part of the text that has a NUL behind it in the buffer.
LEMMA PartIs ==
  ASSUME NEW b \in Seq(Octet), NEW t \in Seq(Octet), Len(b) = Len(t), NEW at \in Nat, at < Len(t),
         NEW from \in 0 .. at, Same(b, t, from + 1, at), Plain(t, from + 1, at), b[at + 1] = NUL
  PROVE  CString(b, from) = SubSeq(t, from + 1, at)
<1>1. \A k \in from + 1 .. at : b[k] = t[k] /\ t[k] # NUL
  BY DEF Same, Plain
<1> QED
  BY <1>1, CStringPlain

LEMMA GotMethod ==
  ASSUME NEW s, NEW t, NEW n, Ready(s, t, n), NEW st \in {start, 2} \cup 34 .. 52,
         NEW move, move = Move(st, t[n + 1]), move.to # error, Got(st, s, t, n)
  PROVE  Got(move.to, Acts(s, move.acts, n), t, n + 1)
<1> DEFINE c == t[n + 1]
<1>0. n \in Nat /\ s.b[n + 1] = c /\ IsState(s) /\ s.q \in Parser
  BY DEF Ready
<1>1. CASE st = start
  <2>1. move = Do(<<"mark">>, 2) /\ c \in MethodByte
    <3>1. Move(start, c) = MethodStart(c)
      BY MoveOf
    <3> QED
      BY <1>1, <3>1, MethodMoves, LeadsTo DEF Refuse
  <2>2. move.to = 2 /\ move.acts = <<"mark">>
    BY <2>1, LeadsTo, ActsOfGo
  <2> DEFINE r == Acts(s, <<"mark">>, n)
  <2>3. r = [q |-> [s.q EXCEPT !.mark = n], b |-> s.b, obj |-> s.obj, told |-> s.told]
    BY <1>0, MarkIs
  <2>4. n = 0 /\ s.obj = NoObject
    BY <1>1 DEF Got
  <2>5. r.q.mark = 0 /\ r.b = s.b /\ r.obj = NoObject
    <3> HIDE DEF r
    <3> QED
      BY <1>0, <2>3, <2>4 DEF Parser
  <2> HIDE DEF r
  <2>6. Plain(t, 1, 1) /\ Same(s.b, t, 1, 1)
    BY <1>0, <2>1, <2>4, NoNUL DEF Plain, Same
  <2>7. InMethod(r, t, 1)
    BY <2>5, <2>6 DEF InMethod
  <2>8. Got(2, r, t, 1)
    BY <2>7, GotOf
  <2> QED
    BY <2>2, <2>4, <2>8 DEF r
<1>2. CASE st # start /\ c = Space
  <2>1. move = Do(<<"request_method">>, 3)
    BY <1>2, MoveOf, MethodMoves
  <2>2. move.to = 3 /\ move.acts = <<"request_method">>
    BY <2>1, LeadsTo, ActsOfGo
  <2>3. InMethod(s, t, n)
    BY <1>2 DEF Got
  <2> DEFINE r == Element(s, REQUEST_METHOD, 0, n)
  <2>4. Acts(s, <<"request_method">>, n) = r
    BY <1>0, <2>3, OneAct, PartActs DEF InMethod
  <2>5. r.obj = With(s.obj, REQUEST_METHOD, [str |-> CString(Ended(s.b, n), 0)])
    BY <1>0, ElementIs
  <2> HIDE DEF r
  <2>6. CString(Ended(s.b, n), 0) = SubSeq(t, 1, n)
    <3>1. ASSUME NEW z, z = 0 PROVE CString(Ended(s.b, n), z) = SubSeq(t, z + 1, n)
      <4> DEFINE d == Ended(s.b, n)
      <4>1. /\ d \in Seq(Octet) /\ Len(d) = Len(s.b) /\ d[n + 1] = NUL
            /\ \A k \in 1 .. Len(s.b) : d[k] = s.b[k] \/ (k = n + 1 /\ d[k] = NUL)
        BY EndedKeeps DEF Ready
      <4> HIDE DEF d
      <4>2. z \in 0 .. n /\ Same(d, t, z + 1, n) /\ Plain(t, z + 1, n)
        BY <3>1, <4>1, <2>3 DEF Ready, InMethod, Same, Plain
      <4>3. t \in Seq(Octet) /\ Len(d) = Len(t) /\ n \in Nat /\ n < Len(t)
        BY <4>1 DEF Ready
      <4>4. CString(d, z) = SubSeq(t, z + 1, n)
        BY <4>1, <4>2, <4>3, PartIs
      <4> QED
        BY <4>4 DEF d
    <3> QED
      BY <3>1
  <2> DEFINE z == n + 1
  <2>7. z - 1 = n /\ z >= 2 /\ t[z] = Space
    BY <1>0, <1>2, <2>3 DEF InMethod
  <2> HIDE DEF z
  <2>10. r.obj = MethodObject(t, z)
    BY <2>3, <2>5, <2>6, <2>7 DEF MethodObject, Str, InMethod
  <2>8. BehindMethod(r, t, z)
    BY <2>3, <2>7, <2>10 DEF BehindMethod, InMethod
  <2>9. Got(3, r, t, n + 1)
    BY <1>0, <2>8, GotOf DEF z
  <2> QED
    BY <2>2, <2>4, <2>9
<1>3. CASE st # start /\ c # Space
  <2>1. c \in MethodByte /\ st # 52 /\ move = Go(IF st = 2 THEN 34 ELSE st + 1)
    <3>1. Move(st, c) = Method(st, c)
      BY <1>3, MoveOf
    <3> QED
      BY <1>3, <3>1, MethodMoves, LeadsTo DEF Refuse
  <2>2. move.to \in 34 .. 52 /\ move.acts = <<>>
    BY <1>3, <2>1, LeadsTo, ActsOfGo
  <2>3. Acts(s, move.acts, n) = s
    BY <2>2, NoActs
  <2>4. InMethod(s, t, n)
    BY <1>3 DEF Got
  <2>5. InMethod(s, t, n + 1)
    <3>1. c \notin {NUL, Space, CR}
      BY <2>1, NoNUL
    <3> QED
      BY <1>0, <2>4, <3>1, Grows DEF InMethod
  <2> QED
    BY <1>0, <2>2, <2>3, <2>5, GotOf
<1> QED
  BY <1>1, <1>2, <1>3

LEMMA WordMove ==
  ASSUME NEW c, NEW st \in {4} \cup 20 .. 23, NEW move, move = Move(st, c), move.to # error
  PROVE  \/ c = Space /\ move = Do(<<"request_uri">>, 5)
         \/ c \notin {NUL, Space, CR} /\ move.acts = <<>> /\ move.to \in 20 .. 23
<1>1. CASE st \in {4, 20}
  <2>1. Move(4, c) = UriStar(c) /\ Move(20, c) = Scheme(c)
    BY MoveOf
  <2> QED
    BY <1>1, <2>1, UriMoves, LeadsTo, ActsOfGo, NoNUL DEF Refuse
<1>2. CASE st = 21
  <2>1. Move(21, c) = Absolute(c)
    BY MoveOf
  <2> QED
    BY <1>2, <2>1, AddressMoves, LeadsTo, ActsOfGo, NoNUL DEF Refuse, AddressByte
<1>3. CASE st \in {22, 23}
  <2>1. Move(st, c) = Escape(st, c)
    BY <1>3, MoveOf
  <2>2. c \in Hex
    BY <1>3, <2>1, EscapeMoves, LeadsTo DEF Refuse
  <2>3. move = Go(IF st = 22 THEN 23 ELSE 21)
    BY <1>3, <2>1, <2>2, EscapeMoves
  <2> QED
    BY <2>2, <2>3, LeadsTo, ActsOfGo, NoNUL
<1> QED
  BY <1>1, <1>2, <1>3

LEMMA PathMove ==
  ASSUME NEW c, NEW st \in 24 .. 26, NEW move, move = Move(st, c), move.to # error
  PROVE  \/ c = Space /\ move = Do(<<"request_path", "request_uri">>, 5)
         \/ c = Semicolon /\ move = Do(<<"request_path">>, 27)
         \/ c = Question /\ move = Do(<<"request_path">>, 30)
         \/ c \notin {NUL, Space, CR, Semicolon, Question} /\ move.acts = <<>> /\ move.to \in 24 .. 26
<1>1. CASE st = 24
  <2>1. Move(24, c) = Path(c)
    BY MoveOf
  <2>2. c \in AddressByte \cup {Space}
    BY <1>1, <2>1, AddressMoves, LeadsTo DEF Refuse
  <2>3. CASE c \in UriByte \cup {Percent}
    <3>1. move = Go(IF c = Percent THEN 25 ELSE 24)
      BY <1>1, <2>1, <2>3, AddressMoves, ByteClasses
    <3>2. c \notin {NUL, Space, CR, Semicolon, Question}
      BY <2>3, NoNUL, ByteClasses
    <3> QED
      BY <3>1, <3>2, LeadsTo, ActsOfGo
  <2>4. CASE c \in {Space, Semicolon, Question}
    BY <1>1, <2>1, <2>4, AddressMoves
  <2> QED
    BY <2>2, <2>3, <2>4 DEF AddressByte
<1>2. CASE st \in {25, 26}
  <2>1. Move(st, c) = Escape(st, c)
    BY <1>2, MoveOf
  <2>2. c \in Hex
    BY <1>2, <2>1, EscapeMoves, LeadsTo DEF Refuse
  <2>3. move = Go(IF st = 25 THEN 26 ELSE 24)
    BY <1>2, <2>1, <2>2, EscapeMoves
  <2>4. c \notin {NUL, Space, CR, Semicolon, Question}
    BY <2>2 DEF Hex, DigitByte
  <2> QED
    BY <2>3, <2>4, LeadsTo, ActsOfGo
<1> QED
  BY <1>1, <1>2

LEMMA ParamsMove ==
  ASSUME NEW c, NEW st \in 27 .. 29, NEW move, move = Move(st, c), move.to # error
  PROVE  \/ c = Space /\ move = Do(<<"request_uri">>, 5)
         \/ c = Question /\ move.acts = <<>> /\ move.to = 30
         \/ c \notin {NUL, Space, CR, Question} /\ move.acts = <<>> /\ move.to \in 27 .. 29
<1>1. CASE st = 27
  <2>1. Move(27, c) = Params(c)
    BY MoveOf
  <2>2. c \in AddressByte \cup {Space}
    BY <1>1, <2>1, AddressMoves, LeadsTo DEF Refuse
  <2>3. CASE c \in UriByte \cup {Percent, Semicolon}
    <3>1. move = Go(IF c = Percent THEN 28 ELSE 27)
      BY <1>1, <2>1, <2>3, AddressMoves, ByteClasses
    <3>2. c \notin {NUL, Space, CR, Question}
      BY <2>3, NoNUL, ByteClasses
    <3> QED
      BY <3>1, <3>2, LeadsTo, ActsOfGo
  <2>4. CASE c \in {Space, Question}
    BY <1>1, <2>1, <2>4, AddressMoves, LeadsTo, ActsOfGo
  <2> QED
    BY <2>2, <2>3, <2>4 DEF AddressByte
<1>2. CASE st \in {28, 29}
  <2>1. Move(st, c) = Escape(st, c)
    BY <1>2, MoveOf
  <2>2. c \in Hex
    BY <1>2, <2>1, EscapeMoves, LeadsTo DEF Refuse
  <2>3. move = Go(IF st = 28 THEN 29 ELSE 27)
    BY <1>2, <2>1, <2>2, EscapeMoves
  <2>4. c \notin {NUL, Space, CR, Question}
    BY <2>2 DEF Hex, DigitByte
  <2> QED
    BY <2>3, <2>4, LeadsTo, ActsOfGo
<1> QED
  BY <1>1, <1>2

LEMMA QueryMove ==
  ASSUME NEW c, NEW st \in 30 .. 33, NEW move, move = Move(st, c), move.to # error
  PROVE  \/ c = Space /\ st = 30 /\ move = Do(<<"query_start", "query_string", "request_uri">>, 5)
         \/ c = Space /\ st = 31 /\ move = Do(<<"query_string", "request_uri">>, 5)
         \/ c \notin {NUL, Space, CR} /\ st = 30 /\ move.acts = <<"query_start">> /\ move.to \in 31 .. 33
         \/ c \notin {NUL, Space, CR} /\ st # 30 /\ move.acts = <<>> /\ move.to \in 31 .. 33
<1>1. CASE st \in {30, 31}
  <2>1. Move(30, c) = QueryStart(c) /\ Move(31, c) = Query(c)
    BY MoveOf
  <2>2. c \in AddressByte \cup {Space}
    BY <1>1, <2>1, AddressMoves, LeadsTo DEF Refuse
  <2>3. CASE c \in UriByte \cup {Percent, Semicolon, Question}
    <3>1. move = IF st = 30 THEN Do(<<"query_start">>, IF c = Percent THEN 32 ELSE 31)
                            ELSE Go(IF c = Percent THEN 32 ELSE 31)
      BY <1>1, <2>1, <2>3, AddressMoves, ByteClasses
    <3>2. c \notin {NUL, Space, CR}
      BY <2>3, NoNUL
    <3> QED
      BY <1>1, <3>1, <3>2, LeadsTo, ActsOfGo
  <2>4. CASE c = Space
    BY <1>1, <2>1, <2>4, AddressMoves
  <2> QED
    BY <2>2, <2>3, <2>4 DEF AddressByte
<1>2. CASE st \in {32, 33}
  <2>1. Move(st, c) = Escape(st, c)
    BY <1>2, MoveOf
  <2>2. c \in Hex
    BY <1>2, <2>1, EscapeMoves, LeadsTo DEF Refuse
  <2>3. move = Go(IF st = 32 THEN 33 ELSE 31)
    BY <1>2, <2>1, <2>2, EscapeMoves
  <2> QED
    BY <1>2, <2>2, <2>3, LeadsTo, ActsOfGo, NoNUL
<1> QED
  BY <1>1, <1>2

LEMMA VersionMove ==
  ASSUME NEW c, NEW st \in 5 .. 13, NEW move, move = Move(st, c), move.to # error
  PROVE  \/ c \notin {NUL, Space, CR} /\ st = 5 /\ move = Do(<<"mark">>, 6)
         \/ c \notin {NUL, Space, CR} /\ st # 5 /\ move.acts = <<>> /\ move.to \in 6 .. 13
         \/ c = CR /\ st = 13 /\ move = Do(<<"http_version">>, 14)
<1>1. Move(st, c) = Version(st, c)
  BY MoveOf
<1>2. CASE st = 5
  <2>1. c = 72 /\ move = Do(<<"mark">>, 6)
    BY <1>1, <1>2, VersionMoves, LeadsTo DEF Refuse
  <2> QED
    BY <1>2, <2>1
<1>3. CASE st # 5 /\ c = CR
  <2>1. CR \notin DigitByte /\ CR # 84 /\ CR # 80 /\ CR # Slash /\ CR # 46
    BY DEF DigitByte
  <2>2. st = 13
    BY <1>1, <1>3, <2>1, VersionMoves, LeadsTo DEF Refuse
  <2> QED
    BY <1>1, <1>3, <2>2, VersionMoves
<1>4. CASE st # 5 /\ c # CR
  <2>1. \/ st \in {6, 7} /\ c = 84 /\ move = Go(st + 1)
        \/ st = 8 /\ c = 80 /\ move = Go(9)
        \/ st = 9 /\ c = Slash /\ move = Go(10)
        \/ st \in {10, 11} /\ c \in DigitByte /\ move = Go(11)
        \/ st = 11 /\ c = 46 /\ move = Go(12)
        \/ st \in {12, 13} /\ c \in DigitByte /\ move = Go(13)
    BY <1>1, <1>4, VersionMoves, LeadsTo DEF Refuse
  <2>2. c \notin {NUL, Space, CR}
    BY <2>1, NoNUL
  <2>3. move.acts = <<>> /\ move.to \in 6 .. 13
    BY <2>1, LeadsTo, ActsOfGo
  <2> QED
    BY <1>4, <2>2, <2>3
<1> QED
  BY <1>2, <1>3, <1>4

LEMMA InUriGrows ==
  ASSUME NEW s, NEW r, NEW t, NEW i, NEW n \in Nat, InUri(s, t, i, n), t[n + 1] \notin {NUL, Space, CR},
         r.q.mark = s.q.mark, NEW z, z = n + 1
  PROVE  InUri(r, t, i, z) /\ i \in 2 .. z - 1
<1>1. i \in 2 .. n - 1 /\ i + 1 \in Nat
  BY DEF InUri
<1>2. Plain(t, i + 1, n + 1)
  BY <1>1, Grows DEF InUri
<1>3. i \in 2 .. n + 1 - 1
  BY <1>1
<1> QED
  BY <1>2, <1>3 DEF InUri

\* A space behind an address.
LEMMA UriEnds ==
  ASSUME NEW s, NEW r, NEW t, NEW i, NEW n, Ready(s, t, n), InUri(s, t, i, n), t[n + 1] = Space,
         AddressObject(r.obj, t, i, n + 1)
  PROVE  Got(5, r, t, n + 1)
<1>0. n \in Nat /\ n + 1 <= Len(t) /\ i \in 2 .. n - 1 /\ i \in Nat /\ n + 1 \in Nat
  BY DEF Ready, InUri
<1> DEFINE z == n + 1
<1>1. z - 1 = n /\ i \in 2 .. z - 2 /\ z <= Len(t)
  BY <1>0
<1>2. t[z] = Space /\ AddressObject(r.obj, t, i, z)
  OBVIOUS
<1> HIDE DEF z
<1>3. Between(t, i, z)
  BY <1>1, <1>2 DEF Between, InUri
<1>4. BehindUri(r, t, z)
  BY <1>0, <1>2, <1>3 DEF BehindUri
<1> QED
  BY <1>0, <1>4, GotOf DEF z

LEMMA GotUriStart ==
  ASSUME NEW s, NEW t, NEW n, Ready(s, t, n), NEW move, move = Move(3, t[n + 1]), move.to # error,
         Got(3, s, t, n)
  PROVE  Got(move.to, Acts(s, move.acts, n), t, n + 1)
<1> DEFINE c == t[n + 1]
           r == Acts(s, <<"mark">>, n)
<1>0. n \in Nat /\ s.b[n + 1] = c /\ IsState(s) /\ s.q \in Parser
  BY DEF Ready
<1>1. Move(3, c) = UriStart(c)
  BY MoveOf
<1>2. /\ move \in {Do(<<"mark">>, 4), Do(<<"mark">>, 20), Do(<<"mark">>, 24), Do(<<"mark">>, 21)}
      /\ c \in {Star, Slash, Colon} \cup SchemeByte
      /\ c = Slash <=> move = Do(<<"mark">>, 24)
  BY <1>1, UriMoves, LeadsTo, ByteClasses DEF Refuse
<1>3. move.acts = <<"mark">> /\ move.to \in {4, 20, 21, 24} /\ (c = Slash <=> move.to = 24)
  BY <1>2, LeadsTo, ActsOfGo
<1>4. c \notin {NUL, Space, CR}
  BY <1>2, NoNUL
<1>5. r = [q |-> [s.q EXCEPT !.mark = n], b |-> s.b, obj |-> s.obj, told |-> s.told]
  BY <1>0, MarkIs
<1>6. n >= 2 /\ Plain(t, 1, n - 1) /\ t[n] = Space /\ s.obj = MethodObject(t, n)
  BY DEF Got, BehindMethod
<1> HIDE DEF r
<1>7. r.q.mark = n /\ r.b = s.b /\ r.obj = MethodObject(t, n)
  BY <1>0, <1>5, <1>6 DEF Parser
<1>8. Plain(t, n + 1, n + 1) /\ Same(r.b, t, n + 1, n + 1)
  BY <1>0, <1>4, <1>7, Alone
<1>9. InUri(r, t, n, n + 1) /\ n \in 2 .. n + 1 - 1
  BY <1>0, <1>6, <1>7, <1>8 DEF InUri
<1>10. CASE c = Slash
  <2>1. \A k \in n + 1 .. n + 1 : t[k] \notin {Semicolon, Question}
    BY <1>0, <1>10
  <2>2. InPath(r, t, n + 1)
    BY <1>7, <1>8, <1>9, <1>10, <2>1 DEF InPath
  <2>3. Got(24, r, t, n + 1)
    BY <1>0, <2>2, GotOf
  <2> QED
    BY <1>3, <1>10, <2>3 DEF r
<1>11. CASE c # Slash
  <2>1. InWord(r, t, n + 1)
    BY <1>7, <1>8, <1>9, <1>11 DEF InWord
  <2>2. move.to \in {4} \cup 20 .. 23
    BY <1>3, <1>11
  <2>3. Got(move.to, r, t, n + 1)
    BY <1>0, <2>1, <2>2, GotOf
  <2> QED
    BY <1>3, <2>3 DEF r
<1> QED
  BY <1>10, <1>11

\* What an element is that ends at the byte ahead and began at an offset.
LEMMA ElementIsPart ==
  ASSUME NEW s, IsState(s), s.b \in Seq(Octet), NEW t \in Seq(Octet), Len(s.b) = Len(t),
         NEW n \in Nat, n < Len(t), NEW from \in 0 .. n,
         Same(s.b, t, from + 1, n), Plain(t, from + 1, n), NEW name, NEW r, r = Element(s, name, from, n)
  PROVE  /\ r.obj = With(s.obj, name, Str(t, from + 1, n)) /\ r.q = s.q /\ IsState(r)
         /\ r.b \in Seq(Octet) /\ Len(r.b) = Len(t) /\ r.b[n + 1] = NUL
         /\ \A k \in 1 .. Len(t) : r.b[k] = s.b[k] \/ (k = n + 1 /\ r.b[k] = NUL)
<1> DEFINE d == Ended(s.b, n)
<1>1. /\ d \in Seq(Octet) /\ Len(d) = Len(s.b) /\ d[n + 1] = NUL
      /\ \A k \in 1 .. Len(s.b) : d[k] = s.b[k] \/ (k = n + 1 /\ d[k] = NUL)
  BY EndedKeeps
<1>2. r.b = d /\ r.q = s.q /\ IsState(r) /\ r.obj = With(s.obj, name, [str |-> CString(d, from)])
  BY ElementIs
<1> HIDE DEF d
<1>3. Same(d, t, from + 1, n)
  BY <1>1 DEF Same
<1>4. CString(d, from) = SubSeq(t, from + 1, n)
  BY <1>1, <1>3, PartIs
<1> QED
  BY <1>1, <1>2, <1>4 DEF Str

LEMMA GotWord ==
  ASSUME NEW s, NEW t, NEW n, Ready(s, t, n), NEW st \in {4} \cup 20 .. 23,
         NEW move, move = Move(st, t[n + 1]), move.to # error, Got(st, s, t, n)
  PROVE  Got(move.to, Acts(s, move.acts, n), t, n + 1)
<1> DEFINE c == t[n + 1]
<1>0. n \in Nat /\ n < Len(t) /\ s.b[n + 1] = c /\ IsState(s) /\ s.b \in Seq(Octet) /\ Len(s.b) = Len(t)
      /\ t \in Seq(Octet)
  BY DEF Ready
<1>1. PICK i \in 2 .. n - 1 :
        InUri(s, t, i, n) /\ t[i + 1] # Slash /\ Same(s.b, t, i + 1, n) /\ s.obj = MethodObject(t, i)
  BY DEF Got, InWord
<1>2. s.q.mark = i /\ Plain(t, i + 1, n) /\ i \in 0 .. n /\ i + 1 \in Nat
  BY <1>0, <1>1 DEF InUri
<1>3. CASE c = Space /\ move = Do(<<"request_uri">>, 5)
  <2> DEFINE r == Element(s, REQUEST_URI, i, n)
  <2>1. move.to = 5 /\ move.acts = <<"request_uri">>
    BY <1>3, LeadsTo, ActsOfGo
  <2>2. Acts(s, <<"request_uri">>, n) = r
    BY <1>0, <1>2, OneAct, PartActs
  <2>3. r.obj = With(s.obj, REQUEST_URI, Str(t, i + 1, n))
    BY <1>0, <1>1, <1>2, ElementIsPart
  <2> HIDE DEF r
  <2> DEFINE z == n + 1
  <2>4. z - 1 = n
    BY <1>0
  <2> HIDE DEF z
  <2>5. AddressObject(r.obj, t, i, z)
    BY <1>1, <2>3, <2>4 DEF AddressObject
  <2>6. Got(5, r, t, n + 1)
    BY <1>1, <1>3, <2>5, UriEnds DEF z
  <2> QED
    BY <2>1, <2>2, <2>6
<1>4. CASE c \notin {NUL, Space, CR} /\ move.acts = <<>> /\ move.to \in 20 .. 23
  <2> DEFINE z == n + 1
  <2>0. z = n + 1 /\ z \in Nat
    BY <1>0
  <2>2. Same(s.b, t, i + 1, z)
    BY <1>0, <1>1, <1>2 DEF Same
  <2> HIDE DEF z
  <2>1. InUri(s, t, i, z) /\ i \in 2 .. z - 1
    BY <1>0, <1>1, <1>4, <2>0, InUriGrows
  <2>3. InWord(s, t, z)
    BY <1>1, <2>1, <2>2 DEF InWord
  <2>4. Got(move.to, s, t, n + 1)
    BY <1>4, <2>0, <2>3, GotOf
  <2> QED
    BY <1>4, <2>4, NoActs
<1> QED
  BY <1>3, <1>4, WordMove

\* The string of a path that ended before, behind its slash at i + 1.
LEMMA PathStays ==
  ASSUME NEW b \in Seq(Octet), NEW t \in Seq(Octet), Len(b) = Len(t), NEW i \in Nat,
         NEW e \in i + 1 .. Len(t), Same(b, t, i + 1, e - 1), Plain(t, i + 1, e - 1), b[e] = NUL
  PROVE  CString(b, i) = SubSeq(t, i + 1, e - 1)
<1> DEFINE z == e - 1
<1>1. z \in Nat /\ z < Len(t) /\ i \in 0 .. z /\ b[z + 1] = NUL
  OBVIOUS
<1>2. Same(b, t, i + 1, z) /\ Plain(t, i + 1, z)
  OBVIOUS
<1> HIDE DEF z
<1>3. CString(b, i) = SubSeq(t, i + 1, z)
  BY <1>1, <1>2, PartIs
<1> QED
  BY <1>3 DEF z

\* What is reported of a path behind which the address goes on.
LEMMA PathAgain ==
  ASSUME NEW s, IsState(s), s.b \in Seq(Octet), NEW t \in Seq(Octet), Len(s.b) = Len(t),
         NEW n \in Nat, n < Len(t), NEW i \in Nat, NEW e \in i + 1 .. n + 1,
         Same(s.b, t, i + 1, e - 1), Plain(t, i + 1, e - 1), s.b[e] = NUL,
         NEW r, r = Element(s, REQUEST_URI, i, n)
  PROVE  r.obj = With(s.obj, REQUEST_URI, Str(t, i + 1, e - 1))
<1> DEFINE d == Ended(s.b, n)
<1>1. /\ d \in Seq(Octet) /\ Len(d) = Len(s.b) /\ d[n + 1] = NUL
      /\ \A k \in 1 .. Len(s.b) : d[k] = s.b[k] \/ (k = n + 1 /\ d[k] = NUL)
  BY EndedKeeps
<1>2. r.obj = With(s.obj, REQUEST_URI, [str |-> CString(d, i)])
  BY ElementIs
<1> HIDE DEF d
<1>3. e \in 1 .. Len(t) /\ e \in i + 1 .. Len(t)
  OBVIOUS
<1>4. Same(d, t, i + 1, e - 1) /\ d[e] = NUL
  BY <1>1, <1>3 DEF Same
<1>5. CString(d, i) = SubSeq(t, i + 1, e - 1)
  <2>1. d \in Seq(Octet) /\ Len(d) = Len(t)
    BY <1>1
  <2> QED
    BY <1>3, <1>4, <2>1, PathStays, Zenon
<1> QED
  BY <1>2, <1>5 DEF Str

LEMMA GotPath ==
  ASSUME NEW s, NEW t, NEW n, Ready(s, t, n), NEW st \in 24 .. 26,
         NEW move, move = Move(st, t[n + 1]), move.to # error, Got(st, s, t, n)
  PROVE  Got(move.to, Acts(s, move.acts, n), t, n + 1)
<1> DEFINE c == t[n + 1]
<1>0. n \in Nat /\ n < Len(t) /\ s.b[n + 1] = c /\ IsState(s) /\ s.b \in Seq(Octet) /\ Len(s.b) = Len(t)
      /\ t \in Seq(Octet)
  BY DEF Ready
<1>1. PICK i \in 2 .. n - 1 :
        /\ InUri(s, t, i, n) /\ t[i + 1] = Slash /\ Same(s.b, t, i + 1, n) /\ s.obj = MethodObject(t, i)
        /\ \A k \in i + 1 .. n : t[k] \notin {Semicolon, Question}
  BY DEF Got, InPath
<1>2. s.q.mark = i /\ Plain(t, i + 1, n) /\ i \in 0 .. n /\ i + 1 \in Nat /\ i \in Nat
  BY <1>0, <1>1 DEF InUri
<1> DEFINE r == Element(s, REQUEST_PATH, i, n)
           z == n + 1
<1>3. /\ r.obj = With(s.obj, REQUEST_PATH, Str(t, i + 1, n)) /\ r.q = s.q /\ IsState(r)
      /\ r.b \in Seq(Octet) /\ Len(r.b) = Len(t) /\ r.b[n + 1] = NUL
      /\ \A k \in 1 .. Len(t) : r.b[k] = s.b[k] \/ (k = n + 1 /\ r.b[k] = NUL)
  BY <1>0, <1>1, <1>2, ElementIsPart
<1>4. Act(s, "request_path", n) = r
  BY <1>0, <1>2, PartActs
<1> HIDE DEF r
<1>5. z - 1 = n /\ z \in Nat /\ z \in i + 2 .. Len(t) /\ z = n + 1
  BY <1>0, <1>1
<1> HIDE DEF z
<1>6. r.obj = PathObject(t, i, z)
  BY <1>1, <1>3, <1>5 DEF PathObject
<1>7. Same(r.b, t, i + 1, n)
  BY <1>0, <1>1, <1>3 DEF Same
<1>8. CASE c = Space /\ move = Do(<<"request_path", "request_uri">>, 5)
  <2> DEFINE u == Element(r, REQUEST_URI, i, n)
  <2>1. move.to = 5 /\ move.acts = <<"request_path", "request_uri">>
    BY <1>8, LeadsTo, ActsOfGo
  <2>2. Acts(s, <<"request_path", "request_uri">>, n) = u
    <3>1. Acts(s, <<"request_path", "request_uri">>, n) = Act(r, "request_uri", n)
      BY <1>4, TwoActs
    <3>2. Act(r, "request_uri", n) = u
      BY <1>2, <1>3, PartActs
    <3> QED
      BY <3>1, <3>2
  <2>3. u.obj = With(r.obj, REQUEST_URI, Str(t, i + 1, n))
    BY <1>0, <1>2, <1>3, <1>7, ElementIsPart
  <2> HIDE DEF u
  <2>4. AddressObject(u.obj, t, i, z)
    BY <1>1, <1>5, <1>6, <2>3 DEF AddressObject
  <2>5. Got(5, u, t, n + 1)
    BY <1>1, <1>8, <2>4, UriEnds DEF z
  <2> QED
    BY <2>1, <2>2, <2>5
<1>9. ASSUME c \in {Semicolon, Question}
      PROVE  /\ InUri(r, t, i, z) /\ i \in 2 .. z - 1 /\ BehindPath(r, t, i, z)
             /\ \A k \in i + 1 .. z - 1 : t[k] # Question
  <2>1. c \notin {NUL, Space, CR}
    BY <1>9
  <2>2. InUri(r, t, i, z) /\ i \in 2 .. z - 1
    <3>1. r.q.mark = s.q.mark
      BY <1>3
    <3> QED
      BY <1>0, <1>1, <1>5, <2>1, <3>1, InUriGrows DEF z
  <2>3. FirstIn(t, i + 1, z, {Semicolon, Question})
    BY <1>1, <1>5, <1>9 DEF FirstIn
  <2>4. Same(r.b, t, i + 1, z - 1) /\ r.b[z] = NUL
    BY <1>3, <1>5, <1>7
  <2> QED
    BY <1>1, <1>5, <1>6, <2>2, <2>3, <2>4 DEF BehindPath
<1>10. CASE c = Semicolon /\ move = Do(<<"request_path">>, 27)
  <2>1. move.to = 27 /\ Acts(s, move.acts, n) = r
    BY <1>4, <1>10, LeadsTo, ActsOfGo, OneAct
  <2>2. z \in i + 2 .. z /\ \A k \in i + 1 .. z : t[k] # Question
    <3>1. \A k \in i + 1 .. z : k \in i + 1 .. z - 1 \/ k = z
      BY <1>5
    <3> QED
      BY <1>5, <1>9, <1>10, <3>1
  <2>3. InParams(r, t, z)
    BY <1>9, <1>10, <2>2 DEF InParams
  <2>4. Got(27, r, t, z)
    BY <1>5, <2>3, GotOf
  <2> QED
    BY <2>1, <2>4 DEF z
<1>11. CASE c = Question /\ move = Do(<<"request_path">>, 30)
  <2>1. move.to = 30 /\ Acts(s, move.acts, n) = r
    BY <1>4, <1>11, LeadsTo, ActsOfGo, OneAct
  <2>2. z \in i + 2 .. z /\ z \in z .. z /\ Same(r.b, t, z + 1, z)
    BY <1>5 DEF Same
  <2>3. FirstIn(t, i + 1, z, {Question})
    BY <1>5, <1>9, <1>11 DEF FirstIn
  <2>4. InQuery(30, r, t, z)
    BY <1>9, <1>11, <2>2, <2>3 DEF InQuery
  <2>5. Got(30, r, t, z)
    BY <1>5, <2>4, GotOf
  <2> QED
    BY <2>1, <2>5 DEF z
<1>12. CASE c \notin {NUL, Space, CR, Semicolon, Question} /\ move.acts = <<>> /\ move.to \in 24 .. 26
  <2>0. c \notin {NUL, Space, CR}
    BY <1>12
  <2>1. InUri(s, t, i, z) /\ i \in 2 .. z - 1
    <3>1. InUri(s, t, i, n) /\ n \in Nat /\ z = n + 1
      BY <1>0, <1>1, <1>5
    <3> QED
      BY <2>0, <3>1, InUriGrows
  <2>2. Same(s.b, t, i + 1, z)
    BY <1>0, <1>1, <1>2 DEF Same, z
  <2>3. \A k \in i + 1 .. z : t[k] \notin {Semicolon, Question}
    <3>1. \A k \in i + 1 .. n + 1 : k \in i + 1 .. n \/ k = n + 1
      BY <1>0
    <3> QED
      BY <1>1, <1>12, <3>1 DEF z
  <2>4. InPath(s, t, z)
    BY <1>1, <2>1, <2>2, <2>3 DEF InPath
  <2>5. Got(move.to, s, t, n + 1)
    BY <1>5, <1>12, <2>4, GotOf
  <2> QED
    BY <1>12, <2>5, NoActs
<1> QED
  BY <1>8, <1>10, <1>11, <1>12, PathMove

\* What stays behind a path when the buffer changes ahead of it only.
LEMMA BehindPathStays ==
  ASSUME NEW s, NEW r, NEW t, NEW i \in Nat, NEW e \in Nat, BehindPath(s, t, i, e),
         r.b = s.b, r.obj = s.obj
  PROVE  BehindPath(r, t, i, e)
BY DEF BehindPath, Same

LEMMA GotParams ==
  ASSUME NEW s, NEW t, NEW n, Ready(s, t, n), NEW st \in 27 .. 29,
         NEW move, move = Move(st, t[n + 1]), move.to # error, Got(st, s, t, n)
  PROVE  Got(move.to, Acts(s, move.acts, n), t, n + 1)
<1> DEFINE c == t[n + 1]
           z == n + 1
<1>0. n \in Nat /\ n < Len(t) /\ s.b[n + 1] = c /\ IsState(s) /\ s.b \in Seq(Octet) /\ Len(s.b) = Len(t)
      /\ t \in Seq(Octet)
  BY DEF Ready
<1>1. PICK i \in 2 .. n - 1 : \E e \in i + 2 .. n :
        InUri(s, t, i, n) /\ BehindPath(s, t, i, e) /\ \A k \in i + 1 .. n : t[k] # Question
  <2>1. InParams(s, t, n)
    BY DEF Got
  <2> QED
    BY <2>1 DEF InParams
<1>10. PICK e \in i + 2 .. n :
         InUri(s, t, i, n) /\ BehindPath(s, t, i, e) /\ \A k \in i + 1 .. n : t[k] # Question
  BY <1>1
<1>2. s.q.mark = i /\ Plain(t, i + 1, n) /\ i \in Nat /\ e \in Nat /\ e \in i + 1 .. n + 1
  BY <1>0, <1>10 DEF InUri
<1>3. /\ t[i + 1] = Slash /\ FirstIn(t, i + 1, e, {Semicolon, Question})
      /\ Same(s.b, t, i + 1, e - 1) /\ s.b[e] = NUL /\ s.obj = PathObject(t, i, e)
  BY <1>10 DEF BehindPath
<1>4. Plain(t, i + 1, e - 1)
  <2>1. \A k \in i + 1 .. e - 1 : k \in i + 1 .. n
    BY <1>0, <1>10
  <2> QED
    BY <1>2, <2>1 DEF Plain
<1>5. z - 1 = n /\ z \in Nat /\ z = n + 1 /\ z <= Len(t)
  BY <1>0
<1> HIDE DEF z
<1>6. CASE c = Space /\ move = Do(<<"request_uri">>, 5)
  <2> DEFINE r == Element(s, REQUEST_URI, i, n)
  <2>1. move.to = 5 /\ move.acts = <<"request_uri">>
    BY <1>6, LeadsTo, ActsOfGo
  <2>2. Acts(s, <<"request_uri">>, n) = r
    BY <1>0, <1>2, OneAct, PartActs
  <2>3. r.obj = With(s.obj, REQUEST_URI, Str(t, i + 1, e - 1))
    BY <1>0, <1>2, <1>3, <1>4, PathAgain
  <2> HIDE DEF r
  <2>4. e \in i + 2 .. z - 1
    BY <1>10, <1>5
  <2>5. r.obj = With(PathObject(t, i, e), REQUEST_URI, Str(t, i + 1, e - 1))
    BY <1>3, <2>3
  <2>6. \A k \in i + 1 .. z - 1 : t[k] # Question
    BY <1>10, <1>5
  <2>7. AddressObject(r.obj, t, i, z)
    BY <1>3, <2>4, <2>5, <2>6 DEF AddressObject
  <2>8. Got(5, r, t, n + 1)
    BY <1>10, <1>5, <1>6, <2>7, UriEnds
  <2> QED
    BY <2>1, <2>2, <2>8
<1>7. ASSUME c \notin {NUL, Space, CR}
      PROVE  InUri(s, t, i, z) /\ i \in 2 .. z - 1 /\ e \in i + 2 .. z
  BY <1>0, <1>10, <1>5, <1>7, InUriGrows
<1>8. CASE c = Question /\ move.acts = <<>> /\ move.to = 30
  <2>1. c \notin {NUL, Space, CR}
    BY <1>8
  <2>2. z \in e .. z /\ Same(s.b, t, z + 1, z)
    BY <1>10, <1>5 DEF Same
  <2>3. FirstIn(t, i + 1, z, {Question})
    BY <1>10, <1>5, <1>8 DEF FirstIn
  <2>4. InQuery(30, s, t, z)
    BY <1>10, <1>7, <2>1, <2>2, <2>3 DEF InQuery
  <2>5. Got(30, s, t, z)
    BY <1>5, <2>4, GotOf
  <2> QED
    BY <1>5, <1>8, <2>5, NoActs
<1>9. CASE c \notin {NUL, Space, CR, Question} /\ move.acts = <<>> /\ move.to \in 27 .. 29
  <2>1. c \notin {NUL, Space, CR}
    BY <1>9
  <2>2. \A k \in i + 1 .. z : t[k] # Question
    <3>1. \A k \in i + 1 .. z : k \in i + 1 .. n \/ k = z
      BY <1>5
    <3>2. t[z] # Question
      BY <1>5, <1>9
    <3> QED
      BY <1>10, <3>1, <3>2
  <2>3. InParams(s, t, z)
    BY <1>10, <1>7, <2>1, <2>2 DEF InParams
  <2>4. Got(move.to, s, t, z)
    BY <1>5, <1>9, <2>3, GotOf
  <2> QED
    BY <1>5, <1>9, <2>4, NoActs
<1> QED
  BY <1>6, <1>8, <1>9, ParamsMove

\* A space behind a query.
LEMMA QueryEnds ==
  ASSUME NEW s, NEW t, NEW n, Ready(s, t, n), NEW i \in 2 .. n - 1, NEW e \in i + 2 .. n, NEW a \in e .. n,
         InUri(s, t, i, n), BehindPath(s, t, i, e), FirstIn(t, i + 1, a, {Question}),
         s.q.query_start = a, Same(s.b, t, a + 1, n), t[n + 1] = Space
  PROVE  Got(5, Act(Act(s, "query_string", n), "request_uri", n), t, n + 1)
<1> DEFINE y == Element(s, QUERY_STRING, a, n)
           u == Element(y, REQUEST_URI, i, n)
           z == n + 1
<1>0. n \in Nat /\ n < Len(t) /\ IsState(s) /\ s.b \in Seq(Octet) /\ Len(s.b) = Len(t)
      /\ t \in Seq(Octet)
  BY DEF Ready
<1>1. s.q.mark = i /\ Plain(t, i + 1, n) /\ i \in Nat /\ e \in Nat /\ a \in Nat /\ a \in 0 .. n
      /\ e \in i + 1 .. n + 1
  BY <1>0 DEF InUri
<1>2. Plain(t, a + 1, n) /\ Plain(t, i + 1, e - 1)
  <2>1. \A k \in a + 1 .. n : k \in i + 1 .. n
    BY <1>0
  <2>2. \A k \in i + 1 .. e - 1 : k \in i + 1 .. n
    BY <1>0
  <2> QED
    BY <1>1, <2>1, <2>2 DEF Plain
<1>3. /\ t[i + 1] = Slash /\ FirstIn(t, i + 1, e, {Semicolon, Question})
      /\ Same(s.b, t, i + 1, e - 1) /\ s.b[e] = NUL /\ s.obj = PathObject(t, i, e)
  BY DEF BehindPath
<1>4. /\ y.obj = With(s.obj, QUERY_STRING, Str(t, a + 1, n)) /\ y.q = s.q /\ IsState(y)
      /\ y.b \in Seq(Octet) /\ Len(y.b) = Len(t) /\ y.b[n + 1] = NUL
      /\ \A k \in 1 .. Len(t) : y.b[k] = s.b[k] \/ (k = n + 1 /\ y.b[k] = NUL)
  <2>1. n \in Nat /\ n < Len(t) /\ a \in 0 .. n /\ Plain(t, a + 1, n) /\ Same(s.b, t, a + 1, n)
    BY <1>0, <1>1, <1>2
  <2>2. y = Element(s, QUERY_STRING, a, n)
    OBVIOUS
  <2> HIDE DEF y
  <2> QED
    BY <1>0, <2>1, <2>2, ElementIsPart
<1>5. Act(s, "query_string", n) = y
  BY <1>0, PartActs
<1> HIDE DEF y
<1>6. Same(y.b, t, i + 1, e - 1) /\ y.b[e] = NUL
  <2>1. \A k \in i + 1 .. e - 1 : k \in 1 .. Len(t) /\ k # n + 1
    BY <1>0
  <2>2. e \in 1 .. Len(t)
    BY <1>0
  <2> QED
    BY <1>3, <1>4, <2>1, <2>2 DEF Same
<1>7. u.obj = With(y.obj, REQUEST_URI, Str(t, i + 1, e - 1))
  BY <1>0, <1>1, <1>2, <1>4, <1>6, PathAgain
<1>8. Act(y, "request_uri", n) = u
  BY <1>1, <1>4, PartActs
<1> HIDE DEF u
<1>9. z - 1 = n
  BY <1>0
<1> HIDE DEF z
<1>10. e \in i + 2 .. z - 1 /\ a \in e .. z - 1
  BY <1>9
<1>11. u.obj = With(With(PathObject(t, i, e), QUERY_STRING, Str(t, a + 1, z - 1)),
                    REQUEST_URI, Str(t, i + 1, e - 1))
  BY <1>3, <1>4, <1>7, <1>9
<1>12. AddressObject(u.obj, t, i, z)
  BY <1>3, <1>10, <1>11 DEF AddressObject
<1>13. Got(5, u, t, n + 1)
  BY <1>12, UriEnds DEF z
<1> QED
  BY <1>5, <1>8, <1>13

LEMMA GotQuery ==
  ASSUME NEW s, NEW t, NEW n, Ready(s, t, n), NEW st \in 30 .. 33,
         NEW move, move = Move(st, t[n + 1]), move.to # error, Got(st, s, t, n)
  PROVE  Got(move.to, Acts(s, move.acts, n), t, n + 1)
<1> DEFINE c == t[n + 1]
           z == n + 1
           y == Acts(s, <<"query_start">>, n)
<1>0. n \in Nat /\ n < Len(t) /\ s.b[n + 1] = c /\ IsState(s) /\ s.b \in Seq(Octet) /\ Len(s.b) = Len(t)
      /\ t \in Seq(Octet) /\ s.q \in Parser
  BY DEF Ready
<1>1. PICK i \in 2 .. n - 1 : \E e \in i + 2 .. n : \E a \in e .. n :
        /\ InUri(s, t, i, n) /\ BehindPath(s, t, i, e) /\ FirstIn(t, i + 1, a, {Question})
        /\ IF st = 30 THEN a = n ELSE s.q.query_start = a
        /\ Same(s.b, t, a + 1, n)
  <2>1. InQuery(st, s, t, n)
    BY DEF Got
  <2> QED
    BY <2>1 DEF InQuery
<1>2. PICK e \in i + 2 .. n : \E a \in e .. n :
        /\ InUri(s, t, i, n) /\ BehindPath(s, t, i, e) /\ FirstIn(t, i + 1, a, {Question})
        /\ IF st = 30 THEN a = n ELSE s.q.query_start = a
        /\ Same(s.b, t, a + 1, n)
  BY <1>1
<1>3. PICK a \in e .. n :
        /\ InUri(s, t, i, n) /\ BehindPath(s, t, i, e) /\ FirstIn(t, i + 1, a, {Question})
        /\ IF st = 30 THEN a = n ELSE s.q.query_start = a
        /\ Same(s.b, t, a + 1, n)
  BY <1>2
<1>4. i \in Nat /\ e \in Nat /\ a \in Nat
  BY <1>0
<1>5. y = [q |-> [s.q EXCEPT !.query_start = n], b |-> s.b, obj |-> s.obj, told |-> s.told]
  BY <1>0, QueryStartIs
<1>6. Act(s, "query_start", n) = y
  BY OneAct
<1> HIDE DEF y
<1>7. y.q \in Parser /\ y.q.mark = s.q.mark /\ y.q.query_start = n /\ y.b = s.b /\ y.obj = s.obj /\ IsState(y)
  <2>1. y.q = [s.q EXCEPT !.query_start = n] /\ n \in Int
    BY <1>0, <1>5
  <2> QED
    BY <1>0, <1>5, <2>1 DEF Parser, IsState
<1>8. Ready(y, t, n)
  BY <1>0, <1>7 DEF Ready
<1>9. InUri(y, t, i, n) /\ BehindPath(y, t, i, e) /\ Same(y.b, t, a + 1, n)
  BY <1>3, <1>4, <1>7, BehindPathStays DEF InUri
<1>10. z - 1 = n /\ z \in Nat /\ z = n + 1 /\ z <= Len(t)
  BY <1>0
<1> HIDE DEF z
<1>11. CASE c = Space /\ st = 30 /\ move = Do(<<"query_start", "query_string", "request_uri">>, 5)
  <2>1. move.to = 5 /\ move.acts = <<"query_start", "query_string", "request_uri">>
    BY <1>11, LeadsTo, ActsOfGo
  <2>2. Acts(s, move.acts, n) = Act(Act(y, "query_string", n), "request_uri", n)
    BY <1>6, <2>1, ThreeActs
  <2>3. y.q.query_start = a
    BY <1>3, <1>7, <1>11
  <2>4. Got(5, Act(Act(y, "query_string", n), "request_uri", n), t, n + 1)
    BY <1>3, <1>8, <1>9, <1>11, <2>3, QueryEnds
  <2> QED
    BY <2>1, <2>2, <2>4
<1>12. CASE c = Space /\ st = 31 /\ move = Do(<<"query_string", "request_uri">>, 5)
  <2>1. move.to = 5 /\ move.acts = <<"query_string", "request_uri">>
    BY <1>12, LeadsTo, ActsOfGo
  <2>2. Acts(s, move.acts, n) = Act(Act(s, "query_string", n), "request_uri", n)
    BY <2>1, TwoActs
  <2>3. s.q.query_start = a
    BY <1>3, <1>12
  <2>4. Got(5, Act(Act(s, "query_string", n), "request_uri", n), t, n + 1)
    BY <1>3, <1>12, <2>3, QueryEnds
  <2> QED
    BY <2>1, <2>2, <2>4
<1>13. ASSUME c \notin {NUL, Space, CR}, NEW x, x.q.query_start = a, x.q.mark = s.q.mark, x.b = s.b, x.obj = s.obj,
              NEW to \in 31 .. 33
       PROVE  Got(to, x, t, z)
  <2>1. InUri(x, t, i, z) /\ i \in 2 .. z - 1
    BY <1>0, <1>3, <1>10, <1>13, InUriGrows
  <2>2. BehindPath(x, t, i, e)
    BY <1>3, <1>4, <1>13, BehindPathStays
  <2>3. Same(x.b, t, a + 1, z)
    <3>1. \A k \in a + 1 .. z : k \in a + 1 .. n \/ k = z
      BY <1>10, <1>4
    <3>2. x.b[z] = t[z]
      BY <1>0, <1>10, <1>13
    <3> QED
      BY <1>3, <1>13, <3>1, <3>2 DEF Same
  <2>4. e \in i + 2 .. z /\ a \in e .. z
    BY <1>10
  <2>5. InQuery(to, x, t, z)
    BY <1>3, <1>13, <2>1, <2>2, <2>3, <2>4 DEF InQuery
  <2> QED
    BY <1>10, <2>5, GotOf
<1>14. CASE c \notin {NUL, Space, CR} /\ st = 30 /\ move.acts = <<"query_start">> /\ move.to \in 31 .. 33
  <2>1. y.q.query_start = a
    BY <1>3, <1>7, <1>14
  <2>2. Got(move.to, y, t, z)
    BY <1>7, <1>13, <1>14, <2>1
  <2> QED
    BY <1>10, <1>14, <2>2 DEF y
<1>15. CASE c \notin {NUL, Space, CR} /\ st # 30 /\ move.acts = <<>> /\ move.to \in 31 .. 33
  <2>1. s.q.query_start = a
    BY <1>3, <1>15
  <2>2. Got(move.to, s, t, z)
    BY <1>13, <1>15, <2>1
  <2> QED
    BY <1>10, <1>15, <2>2, NoActs
<1> QED
  BY <1>11, <1>12, <1>14, <1>15, QueryMove

\* The end of the request line.
LEMMA LineEnds ==
  ASSUME NEW s, NEW t, NEW n, Ready(s, t, n), InVersion(s, t, n), t[n + 1] = CR
  PROVE  Gathered(Act(s, "http_version", n), t, n + 1)
<1> DEFINE z == n + 1
<1>0. n \in Nat /\ n < Len(t) /\ IsState(s) /\ s.b \in Seq(Octet) /\ Len(s.b) = Len(t) /\ t \in Seq(Octet)
  BY DEF Ready
<1>1. PICK i \in Nat : \E j \in 1 .. n - 1 :
        /\ Between(t, i, j) /\ AddressObject(s.obj, t, i, j)
        /\ s.q.mark = j /\ Plain(t, j + 1, n) /\ Same(s.b, t, j + 1, n)
  BY DEF InVersion
<1>2. PICK j \in 1 .. n - 1 :
        /\ Between(t, i, j) /\ AddressObject(s.obj, t, i, j)
        /\ s.q.mark = j /\ Plain(t, j + 1, n) /\ Same(s.b, t, j + 1, n)
  BY <1>1
<1> DEFINE r == Element(s, HTTP_VERSION, j, n)
<1>3. Act(s, "http_version", n) = r
  BY <1>0, <1>2, PartActs
<1>4. /\ r.obj = With(s.obj, HTTP_VERSION, Str(t, j + 1, n)) /\ r.q = s.q /\ IsState(r)
      /\ r.b \in Seq(Octet) /\ Len(r.b) = Len(t) /\ r.b[n + 1] = NUL
      /\ \A k \in 1 .. Len(t) : r.b[k] = s.b[k] \/ (k = n + 1 /\ r.b[k] = NUL)
  <2>1. j \in 0 .. n
    BY <1>0
  <2>2. r = Element(s, HTTP_VERSION, j, n)
    OBVIOUS
  <2> HIDE DEF r
  <2> QED
    BY <1>0, <1>2, <2>1, <2>2, ElementIsPart
<1> HIDE DEF r
<1>5. z - 1 = n /\ z \in Nat \ {0} /\ z = n + 1 /\ z \in 1 .. Len(t) /\ t[z] = CR
  BY <1>0
<1> HIDE DEF z
<1>6. \A k \in 1 .. z - 1 : t[k] # CR
  <2>1. \A k \in 1 .. n : k \in 1 .. i - 1 \/ k = i \/ k \in i + 1 .. j - 1 \/ k = j \/ k \in j + 1 .. n
    BY <1>0
  <2>2. /\ \A k \in 1 .. i - 1 : t[k] # CR
        /\ \A k \in i + 1 .. j - 1 : t[k] # CR
        /\ \A k \in j + 1 .. n : t[k] # CR
        /\ t[i] # CR /\ t[j] # CR
    BY <1>2 DEF Between, Plain
  <2> QED
    BY <1>5, <2>1, <2>2
<1>7. ToldObject(t, z) = ToldLine(SubSeq(t, 1, n)) /\ ToldValue(t, z) = VersionOf(SubSeq(t, 1, n))
  BY <1>0, <1>5, <1>6, FirstObject
<1>8. r.obj = ToldObject(t, z)
  <2>1. With(s.obj, HTTP_VERSION, Str(t, j + 1, n)) = ToldLine(SubSeq(t, 1, n))
    <3>1. n <= Len(t) /\ j \in 1 .. n
      BY <1>0
    <3> QED
      BY <1>0, <1>2, <3>1, LineObject
  <2> QED
    BY <1>4, <1>7, <2>1
<1>9. VersionOf(SubSeq(t, 1, n)) = SubSeq(t, j + 1, n)
  <2>1. n <= Len(t) /\ j \in 1 .. n
    BY <1>0
  <2> QED
    BY <1>0, <1>2, <2>1, LineParts
<1>10. \A k \in j + 1 .. n : r.b[k] = t[k] /\ t[k] # NUL
  <2>1. \A k \in j + 1 .. n : k \in 1 .. Len(t) /\ k # n + 1
    BY <1>0
  <2> QED
    BY <1>2, <1>4, <2>1 DEF Same, Plain
<1>11. CString(r.b, j) = SubSeq(t, j + 1, n)
  <2>1. j \in 0 .. n
    BY <1>0
  <2> QED
    BY <1>0, <1>4, <1>10, <2>1, CStringPlain
<1>12. EndsAt(r.b, j, n)
  <2>1. n \in j .. Len(r.b) - 1
    BY <1>0, <1>4
  <2> QED
    BY <1>4, <1>10, <2>1 DEF EndsAt
<1>13. Shown(r, t, z)
  <2>1. r.q.mark = j /\ j \in Nat /\ n \in j .. z - 1
    BY <1>0, <1>2, <1>4, <1>5
  <2>2. CString(r.b, j) = ToldValue(t, z)
    BY <1>7, <1>9, <1>11
  <2> QED
    BY <1>12, <2>1, <2>2 DEF Shown
<1>14. Gathered(r, t, z)
  BY <1>5, <1>8, <1>13 DEF Gathered
<1> QED
  BY <1>3, <1>5, <1>14

LEMMA GotVersion ==
  ASSUME NEW s, NEW t, NEW n, Ready(s, t, n), NEW st \in 5 .. 13,
         NEW move, move = Move(st, t[n + 1]), move.to # error, Got(st, s, t, n)
  PROVE  Got(move.to, Acts(s, move.acts, n), t, n + 1)
<1> DEFINE c == t[n + 1]
           z == n + 1
           y == Acts(s, <<"mark">>, n)
<1>0. n \in Nat /\ n < Len(t) /\ s.b[n + 1] = c /\ IsState(s) /\ s.q \in Parser
  BY DEF Ready
<1>1. z - 1 = n /\ z \in Nat /\ z = n + 1 /\ z <= Len(t)
  BY <1>0
<1>2. CASE c \notin {NUL, Space, CR} /\ st = 5 /\ move = Do(<<"mark">>, 6)
  <2>1. move.to = 6 /\ move.acts = <<"mark">>
    BY <1>2, LeadsTo, ActsOfGo
  <2>2. y = [q |-> [s.q EXCEPT !.mark = n], b |-> s.b, obj |-> s.obj, told |-> s.told]
    BY <1>0, MarkIs
  <2> HIDE DEF y
  <2>3. y.q.mark = n /\ y.b = s.b /\ y.obj = s.obj
    BY <1>0, <2>2 DEF Parser
  <2>4. PICK i \in Nat : Between(t, i, n) /\ AddressObject(s.obj, t, i, n)
    BY <1>2 DEF Got, BehindUri
  <2>5. n \in 1 .. z - 1
    BY <1>0, <2>4 DEF Between
  <2>6. Plain(t, n + 1, z) /\ Same(y.b, t, n + 1, z)
    BY <1>0, <1>2, <2>3, Alone
  <2> HIDE DEF z
  <2>7. InVersion(y, t, z)
    BY <2>3, <2>4, <2>5, <2>6 DEF InVersion
  <2>8. Got(6, y, t, z)
    BY <1>1, <2>7, GotOf
  <2> QED
    BY <1>1, <2>1, <2>8 DEF y
<1>3. CASE c \notin {NUL, Space, CR} /\ st # 5 /\ move.acts = <<>> /\ move.to \in 6 .. 13
  <2>1. InVersion(s, t, n)
    BY <1>3 DEF Got
  <2>2. PICK i \in Nat : \E j \in 1 .. n - 1 :
          /\ Between(t, i, j) /\ AddressObject(s.obj, t, i, j)
          /\ s.q.mark = j /\ Plain(t, j + 1, n) /\ Same(s.b, t, j + 1, n)
    BY <2>1 DEF InVersion
  <2>3. PICK j \in 1 .. n - 1 :
          /\ Between(t, i, j) /\ AddressObject(s.obj, t, i, j)
          /\ s.q.mark = j /\ Plain(t, j + 1, n) /\ Same(s.b, t, j + 1, n)
    BY <2>2
  <2>4. Plain(t, j + 1, z) /\ Same(s.b, t, j + 1, z)
    <3>1. j + 1 \in Nat
      BY <1>0
    <3> QED
      BY <1>0, <1>3, <2>3, <3>1, Grows
  <2>5. j \in 1 .. z - 1
    BY <1>0
  <2> HIDE DEF z
  <2>6. InVersion(s, t, z)
    BY <2>3, <2>4, <2>5 DEF InVersion
  <2>7. Got(move.to, s, t, z)
    BY <1>1, <1>3, <2>6, GotOf
  <2> QED
    BY <1>1, <1>3, <2>7, NoActs
<1>4. CASE c = CR /\ st = 13 /\ move = Do(<<"http_version">>, 14)
  <2>1. move.to = 14 /\ move.acts = <<"http_version">>
    BY <1>4, LeadsTo, ActsOfGo
  <2>2. Acts(s, move.acts, n) = Act(s, "http_version", n)
    BY <2>1, OneAct
  <2>3. InVersion(s, t, n)
    BY <1>4 DEF Got
  <2>4. Gathered(Act(s, "http_version", n), t, n + 1)
    BY <1>4, <2>3, LineEnds
  <2>5. Got(14, Act(s, "http_version", n), t, n + 1)
    BY <1>1, <2>4, GotOf
  <2> QED
    BY <2>1, <2>2, <2>5
<1> QED
  BY <1>2, <1>3, <1>4, VersionMove

LEMMA ShownStays ==
  ASSUME NEW s, NEW r, NEW t, NEW e, Shown(s, t, e), r.b = s.b, r.q.mark = s.q.mark
  PROVE  Shown(r, t, e)
BY DEF Shown

\* The bytes from one CR to the next, when the line is a field.
LEMMA FieldFollows ==
  ASSUME NEW t \in Seq(Octet), NEW n \in Nat, n < Len(t), NEW e \in 1 .. n - 3, NEW c \in e + 3 .. n,
         t[e] = CR, t[e + 1] = LF, AllIn(t, e + 2, c - 1, FieldByte), t[c] = Colon,
         \A k \in c + 1 .. n : t[k] # CR, NEW z, z = n + 1, t[z] = CR
  PROVE  Field(t, e, c, z)
<1>1. \A k \in e + 2 .. c - 1 : t[k] # CR
  BY ByteClasses DEF AllIn
<1>2. \A k \in e + 1 .. z - 1 : k = e + 1 \/ k \in e + 2 .. c - 1 \/ k = c \/ k \in c + 1 .. n
  OBVIOUS
<1>3. \A k \in e + 1 .. z - 1 : t[k] # CR
  BY <1>1, <1>2
<1>4. e \in Nat \ {0} /\ z \in e + 1 .. Len(t) /\ c \in e + 3 .. z - 1
  OBVIOUS
<1> QED
  BY <1>3, <1>4 DEF Field, Follows

\* The buffer d is b when the name and the value in it were ended.
CutTwice(d, b, c, n) ==
  /\ d \in Seq(Octet) /\ Len(d) = Len(b) /\ d[c] = NUL /\ d[n + 1] = NUL
  /\ \A k \in 1 .. n : k # c => d[k] = b[k]

LEMMA FieldEnded ==
  ASSUME NEW b \in Seq(Octet), NEW n \in Nat, n < Len(b), NEW c \in 1 .. n,
         NEW a, a = c - 1, NEW d, d = Ended(Ended(b, a), n)
  PROVE  CutTwice(d, b, c, n)
<1> DEFINE x == Ended(b, a)
<1>1. a \in Int /\ a + 1 = c /\ n \in Int
  OBVIOUS
<1>2. x \in Seq(Octet) /\ Len(x) = Len(b) /\ \A i \in 1 .. Len(b) : x[i] = IF i = a + 1 THEN NUL ELSE b[i]
  BY <1>1, EndedIs
<1> HIDE DEF x
<1>3. d = Ended(x, n)
  BY DEF x
<1>4. d \in Seq(Octet) /\ Len(d) = Len(x) /\ \A i \in 1 .. Len(x) : d[i] = IF i = n + 1 THEN NUL ELSE x[i]
  BY <1>1, <1>2, <1>3, EndedIs
<1>5. c \in 1 .. Len(b) /\ c # n + 1 /\ n + 1 \in 1 .. Len(b) /\ \A k \in 1 .. n : k \in 1 .. Len(b) /\ k # n + 1
  OBVIOUS
<1> QED
  BY <1>1, <1>2, <1>4, <1>5 DEF CutTwice

LEMMA FieldCut ==
  ASSUME NEW s, NEW t, NEW n, Ready(s, t, n), NEW c \in 1 .. n, c - 1 = s.q.field_start + s.q.field_len,
         NEW d, d = Ended(Ended(s.b, s.q.field_start + s.q.field_len), n)
  PROVE  CutTwice(d, s.b, c, n)
<1> DEFINE b == s.b
           a == s.q.field_start + s.q.field_len
<1>1. n \in Nat /\ b \in Seq(Octet) /\ n < Len(b) /\ Len(b) = Len(t)
  BY DEF Ready
<1>2. a = c - 1 /\ d = Ended(Ended(b, a), n)
  OBVIOUS
<1> HIDE DEF a, b
<1>3. CutTwice(d, b, c, n)
  BY <1>1, <1>2, FieldEnded
<1> QED
  BY <1>1, <1>3 DEF b

\* The value that the mark is at.
LEMMA MarkedValue ==
  ASSUME NEW s, NEW t, NEW n, Ready(s, t, n), NEW st, st = 18 \/ st = 19,
         NEW e \in 1 .. n - 3, NEW c \in e + 3 .. n, Same(s.b, t, e + 2, n),
         Marked(st, s, t, e, c, n), NEW z, z = n + 1, Field(t, e, c, z),
         NEW r, r.q = s.q, CutTwice(r.b, s.b, c, n)
  PROVE  Shown(r, t, z)
<1>0. /\ n \in Nat /\ n < Len(t) /\ s.b \in Seq(Octet) /\ Len(s.b) = Len(t) /\ t \in Seq(Octet)
      /\ z - 1 = n /\ e \in Nat /\ c \in Nat
  BY DEF Ready
<1>3. r.b \in Seq(Octet) /\ Len(r.b) = Len(t) /\ r.b[z] = NUL
  BY <1>0 DEF CutTwice
<1>4. \A k \in 1 .. n : k # c => r.b[k] = s.b[k]
  BY DEF CutTwice
<1>1. CASE st = 18 /\ n = c
  <2>1. Shown(s, t, e)
    BY <1>1 DEF Marked
  <2>2. PICK end \in s.q.mark .. e - 1 : EndsAt(s.b, s.q.mark, end)
    BY <2>1 DEF Shown
  <2>3. s.q.mark \in Nat /\ CString(s.b, s.q.mark) = ToldValue(t, e) /\ end \in Nat
    BY <1>0, <2>1 DEF Shown
  <2> DEFINE m == s.q.mark
             d == r.b
             b == s.b
  <2>4. \A k \in m + 1 .. end + 1 : k \in 1 .. n /\ k # c
    BY <1>0, <1>1, <2>3
  <2>5. \A k \in m + 1 .. end + 1 : d[k] = b[k]
    BY <1>4, <2>4
  <2>6. b \in Seq(Octet) /\ d \in Seq(Octet) /\ Len(b) = Len(d) /\ m \in Nat /\ EndsAt(b, m, end)
    BY <1>0, <1>3, <2>2, <2>3
  <2> HIDE DEF m, d, b
  <2>7. EndsAt(d, m, end) /\ CString(d, m) = CString(b, m)
    BY <2>3, <2>5, <2>6, CStringStays
  <2>8. ToldValue(t, z) = ToldValue(t, e)
    <3>1. z = c + 1
      BY <1>1
    <3> QED
      BY <1>0, <3>1, ValueOfNext
  <2>9. r.q.mark = m /\ m \in Nat /\ r.b = d
    BY <2>3 DEF m, d
  <2>10. CString(d, m) = ToldValue(t, z)
    BY <2>3, <2>7, <2>8 DEF b, m
  <2>11. end \in m .. z - 1
    BY <1>0, <2>2 DEF m
  <2> QED
    BY <2>7, <2>9, <2>10, <2>11 DEF Shown
<1>2. CASE ~(st = 18 /\ n = c)
  <2> DEFINE m == s.q.mark
             i == c + 1
             d == r.b
  <2>1. m \in c .. n - 1 /\ ToldText(SubSeq(t, i, n)) = SubSeq(t, m + 1, n)
    <3>0. i \in Nat \ {0} /\ n <= Len(t) /\ i = c + 1
      BY <1>0
    <3> HIDE DEF i
    <3>1. CASE st = 18
      <4>1. n # c /\ m = n - 1 /\ \A k \in i .. n : t[k] = Space
        BY <1>2, <3>1 DEF Marked, i
      <4>2. i <= n /\ m + 1 = n
        BY <1>0, <3>0, <4>1
      <4>3. ToldText(SubSeq(t, i, n)) = SubSeq(t, n, n)
        BY <1>0, <3>0, <4>1, <4>2, TrimmedIs
      <4>4. m \in c .. n - 1
        BY <1>0, <3>0, <4>1, <4>2
      <4>5. SubSeq(t, m + 1, n) = SubSeq(t, n, n)
        BY <4>2
      <4> QED
        BY <4>3, <4>4, <4>5
    <3>2. CASE st = 19
      <4>1. PICK a \in i .. n : t[a] # Space /\ (\A k \in i .. a - 1 : t[k] = Space) /\ m = a - 1
        BY <3>2 DEF Marked, i
      <4>2. i <= n /\ m + 1 = a
        BY <1>0, <3>0, <4>1
      <4>3. ToldText(SubSeq(t, i, n)) = SubSeq(t, a, n)
        BY <1>0, <3>0, <4>1, <4>2, TrimmedIs
      <4>4. m \in c .. n - 1 /\ SubSeq(t, m + 1, n) = SubSeq(t, a, n)
        BY <1>0, <3>0, <4>1, <4>2
      <4> QED
        BY <4>3, <4>4
    <3> QED
      BY <3>1, <3>2
  <2>2. \A k \in m + 1 .. n : d[k] = t[k]
    <3>1. \A k \in m + 1 .. n : k \in 1 .. n /\ k # c /\ k \in e + 2 .. n
      BY <1>0, <2>1
    <3> QED
      BY <1>4, <3>1 DEF Same
  <2>3. m \in 0 .. n /\ m \in Nat /\ d \in Seq(Octet) /\ Len(d) = Len(t) /\ d[n + 1] = NUL
    BY <1>0, <1>3, <2>1
  <2>4. z # c + 1
    BY <1>0, <2>1
  <2>5. r.q.mark = m
    OBVIOUS
  <2> HIDE DEF m
  <2>6. r.b = d
    OBVIOUS
  <2> HIDE DEF d
  <2>7. CString(d, m) = UpTo(SubSeq(t, m + 1, n), {NUL}) /\ \E end \in m .. n : EndsAt(d, m, end)
    BY <1>0, <2>2, <2>3, CStringCut
  <2>8. ToldValue(t, z) = UpTo(ToldText(SubSeq(t, i, n)), {NUL})
    BY <1>0, <2>4, ValueOfNext
  <2>9. CString(d, m) = ToldValue(t, z)
    BY <2>1, <2>7, <2>8
  <2> QED
    BY <1>0, <2>3, <2>5, <2>6, <2>7, <2>9 DEF Shown
<1> QED
  BY <1>1, <1>2

LEMMA FieldCalled ==
  ASSUME NEW t \in Seq(Octet), NEW e, NEW c, NEW n, Field(t, e, c, n),
         NEW name, name = SubSeq(t, e + 2, c - 1)
  PROVE  name = NameOf(Line(t, n))
<1>1. NameOf(Line(t, n)) = SubSeq(t, e + 2, c - 1)
  BY FieldParts
<1> QED
  BY <1>1

LEMMA FieldEnds ==
  ASSUME NEW s, NEW t, NEW n, Ready(s, t, n), NEW st, st = 18 \/ st = 19, InValue(st, s, t, n), t[n + 1] = CR
  PROVE  Gathered(Acts(s, <<"http_field">>, n), t, n + 1)
<1> DEFINE z == n + 1
           r == Acts(s, <<"http_field">>, n)
<1>0. n \in Nat /\ n < Len(t) /\ IsState(s) /\ s.b \in Seq(Octet) /\ Len(s.b) = Len(t) /\ t \in Seq(Octet)
  BY DEF Ready
<1>1. PICK e \in 1 .. n - 3 : \E c \in e + 3 .. n :
        /\ t[e] = CR /\ t[e + 1] = LF /\ AllIn(t, e + 2, c - 1, FieldByte) /\ t[c] = Colon
        /\ \A k \in c + 1 .. n : t[k] # CR
        /\ Same(s.b, t, e + 2, n) /\ s.obj = ToldObject(t, e)
        /\ s.q.field_start = e + 1 /\ s.q.field_len = c - e - 2
        /\ Marked(st, s, t, e, c, n)
  BY DEF InValue
<1>2. PICK c \in e + 3 .. n :
        /\ t[e] = CR /\ t[e + 1] = LF /\ AllIn(t, e + 2, c - 1, FieldByte) /\ t[c] = Colon
        /\ \A k \in c + 1 .. n : t[k] # CR
        /\ Same(s.b, t, e + 2, n) /\ s.obj = ToldObject(t, e)
        /\ s.q.field_start = e + 1 /\ s.q.field_len = c - e - 2
        /\ Marked(st, s, t, e, c, n)
  BY <1>1
<1> DEFINE d == Ended(Ended(s.b, c - 1), n)
           name == CString(d, e + 1)
<1>3. c - 1 = s.q.field_start + s.q.field_len
  BY <1>0, <1>2
<1>4. /\ d \in Seq(Octet) /\ Len(d) = Len(t) /\ d[c] = NUL /\ d[n + 1] = NUL
      /\ \A k \in 1 .. n : k # c => d[k] = s.b[k]
  <2>1. c \in 1 .. n
    BY <1>0
  <2>2. d = Ended(Ended(s.b, s.q.field_start + s.q.field_len), n)
    BY <1>3
  <2> HIDE DEF d
  <2>3. CutTwice(d, s.b, c, n)
    BY <1>3, <2>1, <2>2, FieldCut
  <2> QED
    BY <1>0, <2>3 DEF CutTwice
<1>5. r = [q |-> s.q, b |-> d, obj |-> With(s.obj, name, Given(name, CString(d, s.q.mark))), told |-> s.told]
  <2>1. name = CString(d, s.q.field_start)
    BY <1>2
  <2>2. d = Ended(Ended(s.b, s.q.field_start + s.q.field_len), n)
    BY <1>3
  <2> HIDE DEF d, name, r
  <2>3. Acts(s, <<"http_field">>, n) =
          [q |-> s.q, b |-> d, obj |-> With(s.obj, name, Given(name, CString(d, s.q.mark))), told |-> s.told]
    BY <1>0, <2>1, <2>2, http_fieldIs
  <2> QED
    BY <2>3 DEF r
<1> HIDE DEF r
<1>6. z - 1 = n /\ z \in Nat /\ z = n + 1 /\ z \in 1 .. Len(t) /\ t[z] = CR
  BY <1>0
<1> HIDE DEF z
<1>7. Field(t, e, c, z)
  BY <1>0, <1>2, <1>6, FieldFollows
<1>8. name = SubSeq(t, e + 2, c - 1)
  <2> HIDE DEF d
  <2> DEFINE from == e + 1
             at == c - 1
  <2>1. at \in Nat /\ at < Len(t) /\ from \in 0 .. at /\ at + 1 = c /\ from + 1 = e + 2
    BY <1>0
  <2>2. \A k \in from + 1 .. at : k \in 1 .. n /\ k # c /\ k \in e + 2 .. n /\ k \in e + 2 .. c - 1
    BY <1>0
  <2>3. \A k \in from + 1 .. at : d[k] = t[k]
    BY <1>2, <1>4, <2>2 DEF Same
  <2>4. \A k \in from + 1 .. at : t[k] # NUL
    BY <1>2, <2>2, NoNUL DEF AllIn
  <2>5. d[at + 1] = NUL /\ Len(d) = Len(t) /\ d \in Seq(Octet)
    BY <1>4, <2>1
  <2> HIDE DEF from, at
  <2>7. \A k \in from + 1 .. at : d[k] = t[k] /\ t[k] # NUL
    BY <2>3, <2>4
  <2>6. CString(d, from) = SubSeq(t, from + 1, at)
    BY <1>0, <2>1, <2>5, <2>7, CStringPlain
  <2> QED
    BY <2>1, <2>6 DEF from, at
<1> HIDE DEF name
<1>9. r.q = s.q /\ r.b = d /\ r.obj = With(s.obj, name, Given(name, CString(d, s.q.mark)))
  BY <1>5
<1> HIDE DEF d
<1>10. Shown(r, t, z)
  <2>1. CutTwice(r.b, s.b, c, n)
    BY <1>0, <1>4, <1>9 DEF CutTwice
  <2>2. Same(s.b, t, e + 2, n) /\ Marked(st, s, t, e, c, n) /\ z = n + 1 /\ r.q = s.q
    BY <1>2, <1>6, <1>9
  <2> QED
    BY <1>7, <2>1, <2>2, MarkedValue
<1>11. CString(d, s.q.mark) = ToldValue(t, z)
  BY <1>9, <1>10 DEF Shown
<1>12. ToldObject(t, z) = With(ToldObject(t, e), name, Given(name, ToldValue(t, z)))
  <2>1. Follows(t, e, z)
    BY <1>7 DEF Field
  <2>2. name = NameOf(Line(t, z))
    BY <1>0, <1>7, <1>8, FieldCalled
  <2> QED
    BY <1>0, <2>1, <2>2, ObjectGrows
<1>13. r.obj = ToldObject(t, z)
  BY <1>2, <1>9, <1>11, <1>12
<1>14. Gathered(r, t, z)
  BY <1>6, <1>10, <1>13 DEF Gathered
<1> QED
  BY <1>14 DEF r, z

\* Between the lines.
LEMMA GotLine ==
  ASSUME NEW s, NEW t, NEW n, Ready(s, t, n), NEW st \in 14 .. 16,
         NEW move, move = Move(st, t[n + 1]), move.to \notin {error, first_final}, Got(st, s, t, n)
  PROVE  Got(move.to, Acts(s, move.acts, n), t, n + 1)
<1> DEFINE c == t[n + 1]
           z == n + 1
           y == Acts(s, <<"field_start">>, n)
<1>0. n \in Nat /\ n < Len(t) /\ s.b[n + 1] = c /\ IsState(s) /\ s.q \in Parser
  BY DEF Ready
<1>1. z - 1 = n /\ z - 2 = n - 1 /\ z \in Nat /\ z = n + 1 /\ z <= Len(t)
  BY <1>0
<1>2. Move(st, c) = LineEnd(st, c)
  BY MoveOf
<1>3. \/ st = 14 /\ c = LF /\ move = Go(15)
      \/ st = 15 /\ c = CR /\ move = Go(16)
      \/ st = 15 /\ c \in FieldByte /\ move = Do(<<"field_start">>, 17)
  BY <1>2, LineMoves, LeadsTo DEF Refuse
<1> HIDE DEF z
<1>4. CASE st = 14 /\ c = LF /\ move = Go(15)
  <2>1. move.to = 15 /\ move.acts = <<>>
    BY <1>4, LeadsTo, ActsOfGo
  <2>2. Gathered(s, t, z - 1) /\ t[z] = LF
    BY <1>1, <1>4 DEF Got
  <2>3. Got(15, s, t, z)
    BY <1>1, <2>2, GotOf
  <2> QED
    BY <1>1, <2>1, <2>3, NoActs
<1>5. CASE st = 15 /\ c = CR /\ move = Go(16)
  <2>1. move.to = 16 /\ move.acts = <<>>
    BY <1>5, LeadsTo, ActsOfGo
  <2>2. Gathered(s, t, z - 2)
    BY <1>1, <1>5 DEF Got
  <2>3. Got(16, s, t, z)
    BY <1>1, <2>2, GotOf
  <2> QED
    BY <1>1, <2>1, <2>3, NoActs
<1>6. CASE st = 15 /\ c \in FieldByte /\ move = Do(<<"field_start">>, 17)
  <2>1. move.to = 17 /\ move.acts = <<"field_start">>
    BY <1>6, LeadsTo, ActsOfGo
  <2>2. y = [q |-> [s.q EXCEPT !.field_start = n], b |-> s.b, obj |-> s.obj, told |-> s.told]
    BY <1>0, FieldStartIs
  <2> HIDE DEF y
  <2>3. y.q.field_start = n /\ y.q.mark = s.q.mark /\ y.b = s.b /\ y.obj = s.obj
    BY <1>0, <2>2 DEF Parser
  <2> DEFINE e == n - 1
  <2>4. Gathered(s, t, e) /\ t[n] = LF
    BY <1>6 DEF Got
  <2>5. e \in 1 .. z - 2 /\ e + 1 = n /\ e + 2 = z
    BY <1>1, <2>4 DEF Gathered
  <2> HIDE DEF e
  <2>6. Gathered(y, t, e)
    BY <2>3, <2>4, ShownStays DEF Gathered
  <2>7. AllIn(t, e + 2, z, FieldByte) /\ Same(y.b, t, e + 2, z)
    BY <1>0, <1>1, <1>6, <2>3, <2>5 DEF AllIn, Same
  <2>8. InName(y, t, z)
    BY <2>3, <2>4, <2>5, <2>6, <2>7 DEF InName
  <2>9. Got(17, y, t, z)
    BY <1>1, <2>8, GotOf
  <2> QED
    BY <1>1, <2>1, <2>9 DEF y
<1> QED
  BY <1>3, <1>4, <1>5, <1>6

LEMMA GotName ==
  ASSUME NEW s, NEW t, NEW n, Ready(s, t, n),
         NEW move, move = Move(17, t[n + 1]), move.to # error, Got(17, s, t, n)
  PROVE  Got(move.to, Acts(s, move.acts, n), t, n + 1)
<1> DEFINE c == t[n + 1]
           z == n + 1
           y == Acts(s, <<"field_len">>, n)
<1>0. n \in Nat /\ n < Len(t) /\ s.b[n + 1] = c /\ IsState(s) /\ s.q \in Parser
  BY DEF Ready
<1>1. PICK e \in 1 .. n - 2 :
        /\ Gathered(s, t, e) /\ t[e + 1] = LF /\ AllIn(t, e + 2, n, FieldByte)
        /\ Same(s.b, t, e + 2, n) /\ s.q.field_start = e + 1
  BY DEF Got, InName
<1>2. Move(17, c) = FieldName(c)
  BY MoveOf
<1>3. \/ c = Colon /\ move = Do(<<"field_len">>, 18)
      \/ c \in FieldByte /\ move = Go(17)
  BY <1>2, FieldNameMoves, LeadsTo DEF Refuse
<1>4. z - 1 = n /\ z \in Nat /\ z = n + 1 /\ e \in Nat /\ \A k \in e + 2 .. z : k \in e + 2 .. n \/ k = z
  BY <1>0
<1> HIDE DEF z
<1>5. Same(s.b, t, e + 2, z)
  BY <1>0, <1>1, <1>4 DEF Same
<1>6. CASE c \in FieldByte /\ move = Go(17)
  <2>1. move.to = 17 /\ move.acts = <<>>
    BY <1>6, LeadsTo, ActsOfGo
  <2>2. AllIn(t, e + 2, z, FieldByte)
    BY <1>1, <1>4, <1>6 DEF AllIn
  <2>3. e \in 1 .. z - 2
    BY <1>0, <1>4
  <2>4. InName(s, t, z)
    BY <1>1, <1>5, <2>2, <2>3 DEF InName
  <2>5. Got(17, s, t, z)
    BY <1>4, <2>4, GotOf
  <2> QED
    BY <1>4, <2>1, <2>5, NoActs
<1>7. CASE c = Colon /\ move = Do(<<"field_len">>, 18)
  <2>1. move.to = 18 /\ move.acts = <<"field_len">>
    BY <1>7, LeadsTo, ActsOfGo
  <2>2. y = [q |-> [s.q EXCEPT !.field_len = n - s.q.field_start], b |-> s.b, obj |-> s.obj, told |-> s.told]
    BY <1>0, FieldLenIs
  <2> HIDE DEF y
  <2>3. /\ y.q.field_len = n - s.q.field_start /\ y.q.field_start = s.q.field_start
        /\ y.q.mark = s.q.mark /\ y.b = s.b /\ y.obj = s.obj
    BY <1>0, <2>2 DEF Parser
  <2>4. y.q.field_start = e + 1 /\ y.q.field_len = z - e - 2
    BY <1>0, <1>1, <1>4, <2>3
  <2>5. t[e] = CR /\ y.obj = ToldObject(t, e) /\ Shown(y, t, e)
    BY <1>1, <2>3, ShownStays DEF Gathered
  <2>6. e \in 1 .. z - 3 /\ z \in e + 3 .. z
    BY <1>0, <1>4
  <2>7. Marked(18, y, t, e, z, z)
    BY <1>4, <2>5 DEF Marked
  <2>8. AllIn(t, e + 2, z - 1, FieldByte) /\ t[z] = Colon /\ (\A k \in z + 1 .. z : t[k] # CR) /\ Same(y.b, t, e + 2, z)
    BY <1>1, <1>4, <1>5, <1>7, <2>3
  <2>9. InValue(18, y, t, z)
    BY <1>1, <2>4, <2>5, <2>6, <2>7, <2>8 DEF InValue
  <2>10. Got(18, y, t, z)
    BY <1>4, <2>9, GotOf
  <2> QED
    BY <1>4, <2>1, <2>10 DEF y
<1> QED
  BY <1>3, <1>6, <1>7

LEMMA GotValue ==
  ASSUME NEW s, NEW t, NEW n, Ready(s, t, n), NEW st, st = 18 \/ st = 19,
         NEW move, move = Move(st, t[n + 1]), Got(st, s, t, n)
  PROVE  Got(move.to, Acts(s, move.acts, n), t, n + 1)
<1> DEFINE h == t[n + 1]
           z == n + 1
           y == Acts(s, <<"mark">>, n)
<1>0. n \in Nat /\ n < Len(t) /\ s.b[n + 1] = h /\ IsState(s) /\ s.q \in Parser
  BY DEF Ready
<1>1. InValue(st, s, t, n)
  BY DEF Got
<1>2. Move(st, h) = FieldValue(st, h)
  BY MoveOf
<1>3. \/ h = CR /\ move = Do(<<"http_field">>, 14)
      \/ st = 18 /\ h = Space /\ move = Do(<<"mark">>, 18)
      \/ st = 18 /\ h # Space /\ h # CR /\ move = Do(<<"mark">>, 19)
      \/ st = 19 /\ h # CR /\ move = Go(19)
  BY <1>2, FieldValueMoves
<1>4. CASE h = CR /\ move = Do(<<"http_field">>, 14)
  <2>1. move.to = 14 /\ move.acts = <<"http_field">>
    BY <1>4, LeadsTo, ActsOfGo
  <2>2. Gathered(Acts(s, <<"http_field">>, n), t, n + 1)
    BY <1>1, <1>4, FieldEnds
  <2>3. Got(14, Acts(s, <<"http_field">>, n), t, n + 1)
    BY <1>0, <2>2, GotOf
  <2> QED
    BY <2>1, <2>3
<1>5. z - 1 = n /\ z \in Nat /\ z = n + 1
  BY <1>0
<1> HIDE DEF z
<1>6. PICK e \in 1 .. n - 3 : \E c \in e + 3 .. n :
        /\ t[e] = CR /\ t[e + 1] = LF /\ AllIn(t, e + 2, c - 1, FieldByte) /\ t[c] = Colon
        /\ \A k \in c + 1 .. n : t[k] # CR
        /\ Same(s.b, t, e + 2, n) /\ s.obj = ToldObject(t, e)
        /\ s.q.field_start = e + 1 /\ s.q.field_len = c - e - 2
        /\ Marked(st, s, t, e, c, n)
  BY <1>1 DEF InValue
<1>7. PICK c \in e + 3 .. n :
        /\ t[e] = CR /\ t[e + 1] = LF /\ AllIn(t, e + 2, c - 1, FieldByte) /\ t[c] = Colon
        /\ \A k \in c + 1 .. n : t[k] # CR
        /\ Same(s.b, t, e + 2, n) /\ s.obj = ToldObject(t, e)
        /\ s.q.field_start = e + 1 /\ s.q.field_len = c - e - 2
        /\ Marked(st, s, t, e, c, n)
  BY <1>6
<1>8. e \in 1 .. z - 3 /\ c \in e + 3 .. z /\ c \in Nat /\ \A k \in c + 1 .. z : k \in c + 1 .. n \/ k = z
  BY <1>0, <1>5
<1>9. ASSUME h # CR, NEW x, x.b = s.b, x.obj = s.obj, x.q.field_start = s.q.field_start,
             x.q.field_len = s.q.field_len, NEW to, to = 18 \/ to = 19, Marked(to, x, t, e, c, z)
      PROVE  Got(to, x, t, z)
  <2>1. \A k \in c + 1 .. z : t[k] # CR
    BY <1>5, <1>7, <1>8, <1>9
  <2>2. Same(x.b, t, e + 2, z)
    <3>1. \A k \in e + 2 .. z : k \in e + 2 .. n \/ k = z
      BY <1>0, <1>5
    <3> QED
      BY <1>0, <1>5, <1>7, <1>9, <3>1 DEF Same
  <2>3. InValue(to, x, t, z)
    BY <1>7, <1>8, <1>9, <2>1, <2>2 DEF InValue
  <2> QED
    BY <1>5, <1>9, <2>3, GotOf
<1>10. y = [q |-> [s.q EXCEPT !.mark = n], b |-> s.b, obj |-> s.obj, told |-> s.told]
  BY <1>0, MarkIs
<1> HIDE DEF y
<1>11. /\ y.q.mark = n /\ y.q.field_start = s.q.field_start /\ y.q.field_len = s.q.field_len
       /\ y.b = s.b /\ y.obj = s.obj
  BY <1>0, <1>10 DEF Parser
<1>12. st = 18 => \A k \in c + 1 .. n : t[k] = Space
  BY <1>7 DEF Marked
<1>13. CASE st = 18 /\ h = Space /\ move = Do(<<"mark">>, 18)
  <2>1. move.to = 18 /\ move.acts = <<"mark">>
    BY <1>13, LeadsTo, ActsOfGo
  <2>2. z # c
    BY <1>0, <1>5
  <2>3. Marked(18, y, t, e, c, z)
    BY <1>5, <1>8, <1>11, <1>12, <1>13, <2>2 DEF Marked
  <2>4. Got(18, y, t, z)
    BY <1>9, <1>11, <1>13, <2>3
  <2> QED
    BY <1>5, <2>1, <2>4 DEF y
<1>14. CASE st = 18 /\ h # Space /\ h # CR /\ move = Do(<<"mark">>, 19)
  <2>1. move.to = 19 /\ move.acts = <<"mark">>
    BY <1>14, LeadsTo, ActsOfGo
  <2>2. z \in c + 1 .. z /\ t[z] # Space /\ y.q.mark = z - 1 /\ \A k \in c + 1 .. z - 1 : t[k] = Space
    BY <1>0, <1>5, <1>11, <1>12, <1>14
  <2>3. Marked(19, y, t, e, c, z)
    BY <2>2 DEF Marked
  <2>4. Got(19, y, t, z)
    BY <1>9, <1>11, <1>14, <2>3
  <2> QED
    BY <1>5, <2>1, <2>4 DEF y
<1>15. CASE st = 19 /\ h # CR /\ move = Go(19)
  <2>1. move.to = 19 /\ move.acts = <<>>
    BY <1>15, LeadsTo, ActsOfGo
  <2>2. PICK m \in c + 1 .. n :
          t[m] # Space /\ (\A k \in c + 1 .. m - 1 : t[k] = Space) /\ s.q.mark = m - 1
    BY <1>7, <1>15 DEF Marked
  <2>3. m \in c + 1 .. z
    BY <1>0, <1>5
  <2>4. Marked(19, s, t, e, c, z)
    BY <2>2, <2>3 DEF Marked
  <2>5. Got(19, s, t, z)
    BY <1>9, <1>15, <2>4
  <2> QED
    BY <1>5, <1>15, <2>1, <2>5, NoActs
<1> QED
  BY <1>3, <1>4, <1>13, <1>14, <1>15

LEMMA GotByte ==
  ASSUME NEW s, NEW t, NEW n, Ready(s, t, n), NEW st \in 0 .. 52, st # error,
         NEW move, move = Move(st, t[n + 1]), move.to \notin {error, first_final}, Got(st, s, t, n)
  PROVE  Got(move.to, Acts(s, move.acts, n), t, n + 1)
<1>0. move.to # error
  OBVIOUS
<1>1. CASE st \in {start, 2} \cup 34 .. 52
  BY <1>0, <1>1, GotMethod
<1>2. CASE st = 3
  BY <1>0, <1>2, GotUriStart
<1>3. CASE st \in {4} \cup 20 .. 23
  BY <1>0, <1>3, GotWord
<1>4. CASE st \in 24 .. 26
  BY <1>0, <1>4, GotPath
<1>5. CASE st \in 27 .. 29
  BY <1>0, <1>5, GotParams
<1>6. CASE st \in 30 .. 33
  BY <1>0, <1>6, GotQuery
<1>7. CASE st \in 5 .. 13
  BY <1>0, <1>7, GotVersion
<1>8. CASE st \in 14 .. 16
  BY <1>8, GotLine
<1>9. CASE st = 17
  BY <1>0, <1>9, GotName
<1>10. CASE st = 18 \/ st = 19
  BY <1>10, GotValue
<1> QED
  BY <1>1, <1>2, <1>3, <1>4, <1>5, <1>6, <1>7, <1>8, <1>9, <1>10

\* The LF of the empty line.
LEMMA LastGot ==
  ASSUME NEW s, NEW t, NEW n, Ready(s, t, n), Got(16, s, t, n), t[n + 1] = LF, HeaderLength(t) = n + 1
  PROVE  Acts(s, Move(16, t[n + 1]).acts, n).told = Append(s.told, ToldFields(t))
<1> DEFINE move == Move(16, t[n + 1])
<1>0. n \in Nat /\ IsState(s)
  BY DEF Ready
<1>1. move = Do(<<"header_done">>, first_final)
  <2>1. move = LineEnd(16, t[n + 1])
    BY MoveOf
  <2> QED
    BY <2>1, LineMoves
<1>2. Acts(s, move.acts, n) = header_done(s, n)
  <2>1. Acts(s, <<"header_done">>, n) = Act(s, "header_done", n)
    BY OneAct
  <2>2. Act(s, "header_done", n) = header_done(s, n)
    BY DEF Act
  <2> QED
    BY <1>1, <2>1, <2>2, ActsOfGo
<1>3. header_done(s, n).told = Append(s.told, s.obj)
  BY <1>0 DEF header_done, IsState
<1>4. s.obj = ToldObject(t, n - 2)
  BY DEF Got, Gathered
<1>5. ToldFields(t) = ToldObject(t, n - 2)
  <2>1. HeaderLength(t) - 3 = n - 2
    BY <1>0
  <2> QED
    BY <2>1 DEF ToldFields
<1> QED
  BY <1>2, <1>3, <1>4, <1>5

-----------------------------------------------------------------------------
(* What the callbacks make of a request is what it says *)

\* The parts of a text are texts.
LEMMA PartsAreTexts ==
  ASSUME NEW s \in Seq(Octet), NEW bytes
  PROVE  /\ First(s, bytes) \in 1 .. Len(s) + 1
         /\ UpTo(s, bytes) \in Seq(Octet) /\ Past(s, bytes) \in Seq(Octet)
<1> DEFINE R == {i \in DOMAIN s : s[i] \in bytes} \cup {Len(s) + 1}
           f == First(s, bytes)
<1>1. R \in SUBSET Nat /\ R # {} /\ R \subseteq 1 .. Len(s) + 1
  OBVIOUS
<1>2. f \in R
  <2> HIDE DEF R
  <2>1. Min(R) \in R
    BY <1>1, MinIsLeast
  <2> QED
    BY <2>1 DEF R, First
<1>3. f \in 1 .. Len(s) + 1
  BY <1>1, <1>2
<1> HIDE DEF R, f
<1>4. SubSeq(s, 1, f - 1) \in Seq(Octet) /\ SubSeq(s, f + 1, Len(s)) \in Seq(Octet)
  BY <1>3
<1> QED
  BY <1>3, <1>4 DEF UpTo, Past, From, f

\* Without one of the bytes that would end it a text is whole.
LEMMA WholeText ==
  ASSUME NEW s \in Seq(Octet), NEW bytes, \A k \in DOMAIN s : s[k] \notin bytes
  PROVE  UpTo(s, bytes) = s
<1> DEFINE j == Len(s)
<1>1. j \in Nat /\ DOMAIN s = 1 .. j /\ SubSeq(s, 1, j) = s
  OBVIOUS
<1> HIDE DEF j
<1>2. \A m \in 1 .. j : s[m] \notin bytes
  BY <1>1
<1>3. j <= Len(s)
  BY <1>1 DEF j
<1>4. UpTo(SubSeq(s, 1, j), bytes) = SubSeq(s, 1, j)
  BY <1>1, <1>2, <1>3, NotDivided
<1> QED
  BY <1>1, <1>4

\* The greatest of some bounded positions.
LEMMA MaxIsGreatest ==
  ASSUME NEW n \in Nat, NEW S \in SUBSET (1 .. n), S # {}
  PROVE  Max(S) \in S /\ \A y \in S : y <= Max(S)
<1> DEFINE D == {n - y : y \in S}
<1>1. D \in SUBSET Nat /\ D # {}
  <2>1. ASSUME NEW y \in S PROVE n - y \in Nat
    OBVIOUS
  <2>2. \A d \in D : \E y \in S : d = n - y
    OBVIOUS
  <2>3. \A d \in D : d \in Nat
    BY <2>1, <2>2
  <2>4. PICK y \in S : TRUE
    OBVIOUS
  <2>5. n - y \in D
    OBVIOUS
  <2> QED
    BY <2>3, <2>5
<1>2. Min(D) \in D /\ \A d \in D : Min(D) <= d
  <2> HIDE DEF D
  <2> QED
    BY <1>1, MinIsLeast
<1>3. PICK x \in S : Min(D) = n - x
  BY <1>2
<1>4. \A y \in S : y <= x
  <2> SUFFICES ASSUME NEW y \in S PROVE y <= x
    OBVIOUS
  <2>1. n - x <= n - y
    BY <1>2, <1>3
  <2> QED
    BY <2>1
<1>5. S \in SUBSET Nat
  OBVIOUS
<1> QED
  BY <1>4, <1>5, MaxOf

\* The lines of a text are texts.
LEMMA LineIsText ==
  ASSUME NEW t \in Seq(Octet), NEW e \in 1 .. Len(t)
  PROVE  Line(t, e) \in Seq(Octet)
<1> DEFINE A == Ends(t, e - 1)
           z == e - 1
<1>1. z \in Nat /\ z <= Len(t) /\ A \in SUBSET (1 .. z)
  BY DEF Ends
<1>2. ASSUME A # {} PROVE Max(A) \in 1 .. z
  <2> HIDE DEF A, z
  <2>1. Max(A) \in A
    BY <1>1, <1>2, MaxIsGreatest
  <2> QED
    BY <1>1, <2>1
<1> DEFINE a == IF A = {} THEN 1 ELSE Max(A) + 2
<1>3. a \in Nat \ {0}
  BY <1>1, <1>2
<1>4. Line(t, e) = SubSeq(t, a, z)
  BY DEF Line
<1> HIDE DEF a, z
<1>5. SubSeq(t, a, z) \in Seq(Octet)
  BY <1>1, <1>3
<1> QED
  BY <1>4, <1>5

\* A value that is neither blank nor cut by a NUL is that of its own line.
LEMMA OwnValue ==
  ASSUME NEW t \in Seq(Octet), NEW e \in 1 .. Len(t), e \in Ends(t, e), e # Min(Ends(t, e)),
         ~IsBlank(RestOf(Line(t, e))), \A k \in DOMAIN RestOf(Line(t, e)) : RestOf(Line(t, e))[k] # NUL
  PROVE  ToldValue(t, e) = ValueOf(Line(t, e))
<1> DEFINE text == RestOf(Line(t, e))
           S == Owners(t, e)
<1>1. text \in Seq(Octet) /\ text = TextOf(t, e)
  BY LineIsText, PartsAreTexts DEF RestOf, TextOf
<1>2. text # <<>>
  BY DEF IsBlank, AllIn
<1>3. Max(S) = e
  <2>1. e \in S /\ S \in SUBSET Nat /\ \A y \in S : y <= e
    BY <1>1, <1>2 DEF Owners, Ends
  <2> HIDE DEF S
  <2> QED
    BY <2>1, MaxOf
<1> HIDE DEF S
<1>4. ToldValue(t, e) = UpTo(ToldText(TextOf(t, e)), {NUL})
  BY <1>3, ValueIs DEF S
<1> DEFINE P == {i \in DOMAIN text : text[i] # Space}
           f == Min(P)
<1>5. f \in P
  <2>1. P # {}
    BY <1>1 DEF IsBlank, AllIn
  <2>2. P \in SUBSET Nat
    BY <1>1
  <2> HIDE DEF P
  <2> QED
    BY <2>1, <2>2, MinIsLeast
<1>6. f \in 1 .. Len(text) /\ Len(text) \in Nat
  BY <1>1, <1>5
<1> DEFINE v == From(text, f)
<1>7. ToldText(text) = v /\ ValueOf(Line(t, e)) = v
  BY DEF ToldText, ValueOf, IsBlank
<1>8. v = SubSeq(text, f, Len(text))
  BY DEF From
<1>9. \A k \in DOMAIN text : text[k] # NUL
  OBVIOUS
<1> HIDE DEF text, f, v, P
<1>10. /\ v \in Seq(Octet) /\ DOMAIN v = 1 .. Len(text) - f + 1
       /\ \A k \in 1 .. Len(text) - f + 1 : v[k] = text[f + k - 1]
  <2> DEFINE j == Len(text)
  <2>1. j \in Nat /\ j <= Len(text) /\ f \in Nat \ {0} /\ f <= j + 1
    BY <1>6
  <2> HIDE DEF j
  <2>2. /\ SubSeq(text, f, j) \in Seq(Octet) /\ DOMAIN SubSeq(text, f, j) = 1 .. j - f + 1
        /\ \A k \in 1 .. j - f + 1 : SubSeq(text, f, j)[k] = text[f + k - 1]
    BY <1>1, <2>1, PieceIs
  <2> QED
    BY <1>8, <2>2 DEF j
<1>11. \A k \in DOMAIN v : v[k] \notin {NUL}
  <2> SUFFICES ASSUME NEW k \in DOMAIN v PROVE v[k] # NUL
    OBVIOUS
  <2>1. k \in 1 .. Len(text) - f + 1
    BY <1>10
  <2>2. f + k - 1 \in 1 .. Len(text)
    BY <1>6, <2>1
  <2>3. f + k - 1 \in DOMAIN text
    BY <1>1, <2>2
  <2>4. v[k] = text[f + k - 1]
    BY <1>10, <2>1
  <2> DEFINE m == f + k - 1
  <2>5. m \in DOMAIN text /\ v[k] = text[m]
    BY <2>3, <2>4
  <2> HIDE DEF m
  <2> QED
    BY <1>9, <2>5
<1>12. UpTo(v, {NUL}) = v
  BY <1>10, <1>11, WholeText
<1> QED
  BY <1>1, <1>4, <1>7, <1>12

\* Of the request line only the address of a path is told in part.
LEMMA LineIsTold ==
  ASSUME NEW line \in Seq(Octet)
  PROVE  /\ DOMAIN ToldLine(line) = DOMAIN Parameters(line)
         /\ \A name \in DOMAIN Parameters(line) :
              name # REQUEST_URI \/ ~IsSplit(UriOf(line)) => ToldLine(line)[name] = Parameters(line)[name]
<1> DEFINE u == UriOf(line)
<1>1. DOMAIN ToldLine(line) = DOMAIN Parameters(line)
  BY DEF ToldLine, Parameters, OfLine
<1>2. ASSUME NEW name \in DOMAIN Parameters(line), name # REQUEST_URI
      PROVE  ToldLine(line)[name] = Parameters(line)[name]
  BY <1>2 DEF ToldLine, Parameters, OfLine
<1>3. ASSUME ~IsSplit(u) PROVE ToldUri(line) = u
  <2>1. u \in Seq(Octet)
    BY PartsAreTexts DEF UriOf
  <2>2. CASE u[1] = Slash
    <3>1. \A k \in DOMAIN u : u[k] \notin {Semicolon, Question}
      BY <1>3, <2>2 DEF IsSplit
    <3> HIDE DEF u
    <3>2. UpTo(u, {Semicolon, Question}) = u
      BY <2>1, <3>1, WholeText
    <3> QED
      BY <3>2 DEF ToldUri, u
  <2> QED
    BY <2>2 DEF ToldUri
<1>4. ASSUME ~IsSplit(u) PROVE ToldLine(line) = Parameters(line)
  BY <1>3, <1>4 DEF ToldLine, Parameters
<1> QED
  BY <1>1, <1>2, <1>4

\* The names are those of the request, and so are the values but for the spoilt ones.
LEMMA ToldIsSaid ==
  ASSUME NEW t \in Seq(Octet), IsRequest(t)
  PROVE  /\ DOMAIN ToldFields(t) = DOMAIN Fields(t)
         /\ \A name \in DOMAIN Fields(t) :
              ~IsSpoilt(t, name) => ToldFields(t)[name] = Fields(t)[name]
<1> DEFINE n == LastEnd(t)
           first == FirstEnd(t, n)
           F == FieldLines(t, n)
           line == RequestLine(t)
           H == HeaderNames(t)
           called(name) == {e \in F : NameOf(Line(t, e)) = name}
<1>1. n \in 1 .. Len(t) /\ t[n] = CR
  <2> DEFINE last == Min(EmptyLines(t))
  <2>1. EmptyLines(t) \in SUBSET Nat /\ EmptyLines(t) # {}
    BY DEF IsRequest, EmptyLines
  <2>2. last \in EmptyLines(t)
    BY <2>1, MinIsLeast
  <2>3. last \in 1 .. Len(t) - 3 /\ t[last] = CR
    BY <2>2 DEF EmptyLines
  <2>4. n = HeaderLength(t) - 3
    BY DEF LastEnd
  <2>5. HeaderLength(t) = last + 3
    BY DEF HeaderLength
  <2> HIDE DEF last, n
  <2>6. n = last
    BY <2>3, <2>4, <2>5
  <2> QED
    BY <2>3, <2>6 DEF n
<1>2. /\ first = Min(Ends(t, n)) /\ F = Ends(t, n) \ {first} /\ line = Line(t, first)
      /\ H = {NameOf(Line(t, e)) : e \in F}
  BY DEF FirstEnd, FieldLines, RequestLine, HeaderNames, Names
<1>3. ToldFields(t) = [name \in H \cup DOMAIN ToldLine(line) |->
        IF name \in H THEN Given(name, ToldValue(t, Max(called(name)))) ELSE ToldLine(line)[name]]
  <2>1. ToldFields(t) = ToldObject(t, n)
    BY DEF ToldFields, LastEnd
  <2> QED
    BY <1>2, <2>1 DEF ToldObject
<1>4. Fields(t) = [name \in H \cup DOMAIN Parameters(line) |->
        IF name \in H THEN Meant(name, ValueOf(LineOf(t, name))) ELSE Parameters(line)[name]]
  BY DEF Fields
<1>5. \A name : LineOf(t, name) = Line(t, Max(called(name)))
  BY DEF LineOf, LastOf
<1> HIDE DEF n, F, line, H
<1>6. /\ Ends(t, n) \subseteq 1 .. n /\ n \in Ends(t, n) /\ n \in Nat
      /\ \A e \in Ends(t, n) : e \in 1 .. Len(t) /\ e \in Ends(t, e) /\ Ends(t, e) \subseteq Ends(t, n)
                            /\ \A d \in Ends(t, n) : d <= e => d \in Ends(t, e)
  BY <1>1 DEF Ends
<1>7. first \in Ends(t, n) /\ \A y \in Ends(t, n) : first <= y
  <2>1. Ends(t, n) \in SUBSET Nat /\ Ends(t, n) # {}
    BY <1>6
  <2> QED
    BY <1>2, <2>1, MinIsLeast
<1> HIDE DEF first
<1>8. line \in Seq(Octet)
  BY <1>2, <1>6, <1>7, LineIsText
<1>9. /\ DOMAIN ToldLine(line) = DOMAIN Parameters(line)
      /\ \A name \in DOMAIN Parameters(line) :
           name # REQUEST_URI \/ ~IsSplit(UriOf(line)) => ToldLine(line)[name] = Parameters(line)[name]
  BY <1>8, LineIsTold
<1>10. ASSUME NEW name \in H, ~IsSpoilt(t, name)
       PROVE  ToldFields(t)[name] = Fields(t)[name]
  <2> DEFINE S == called(name)
             e == Max(S)
  <2>1. S \in SUBSET (1 .. n) /\ S # {}
    BY <1>2, <1>6
  <2>2. e \in S
    <3> HIDE DEF S
    <3> QED
      BY <1>6, <2>1, MaxIsGreatest
  <2>3. e \in Ends(t, n) /\ e # first
    BY <1>2, <2>2
  <2> HIDE DEF S, e
  <2>4. e \in 1 .. Len(t) /\ e \in Ends(t, e) /\ first \in Ends(t, e)
    BY <1>6, <1>7, <2>3
  <2>5. Min(Ends(t, e)) = first
    <3>1. Ends(t, e) \in SUBSET Nat /\ \A y \in Ends(t, e) : first <= y
      BY <1>6, <1>7, <2>3
    <3> QED
      BY <2>4, <3>1, MinOf
  <2>6. LineOf(t, name) = Line(t, e)
    BY <1>5 DEF e, S
  <2>7. /\ ~IsBlank(RestOf(Line(t, e)))
        /\ \A k \in DOMAIN RestOf(Line(t, e)) : RestOf(Line(t, e))[k] # NUL
        /\ ~(IsPrefix(ContentLength, name) /\ name # ContentLength)
    BY <1>10, <2>6 DEF IsSpoilt, H
  <2>8. ToldValue(t, e) = ValueOf(Line(t, e))
    BY <2>3, <2>4, <2>5, <2>7, OwnValue
  <2>9. \A x : Given(name, x) = Meant(name, x)
    <3>1. name = ContentLength => IsPrefix(ContentLength, name)
      BY DEF IsPrefix, ContentLength
    <3> QED
      BY <2>7, <3>1 DEF Given, Meant
  <2>10. ToldFields(t)[name] = Given(name, ToldValue(t, e)) /\ Fields(t)[name] = Meant(name, ValueOf(Line(t, e)))
    BY <1>3, <1>4, <2>6 DEF e, S
  <2> QED
    BY <2>8, <2>9, <2>10
<1>11. ASSUME NEW name \in DOMAIN Fields(t), name \notin H, ~IsSpoilt(t, name)
       PROVE  ToldFields(t)[name] = Fields(t)[name]
  <2>1. name \in DOMAIN Parameters(line)
    BY <1>4, <1>11
  <2>2. name # REQUEST_URI \/ ~IsSplit(UriOf(line))
    BY <1>11 DEF IsSpoilt, line, H
  <2>3. ToldLine(line)[name] = Parameters(line)[name]
    BY <1>9, <2>1, <2>2
  <2>4. ToldFields(t)[name] = ToldLine(line)[name] /\ Fields(t)[name] = Parameters(line)[name]
    BY <1>3, <1>4, <1>9, <1>11, <2>1
  <2> QED
    BY <2>3, <2>4
<1>12. DOMAIN ToldFields(t) = DOMAIN Fields(t)
  BY <1>3, <1>4, <1>9
<1> QED
  BY <1>10, <1>11, <1>12

-----------------------------------------------------------------------------
(* What the program is told *)

Now == [q |-> parser, b |-> buffer, obj |-> neko_val, told |-> told]

\* What the call has of the text it read, and what it told of the whole.
Collected ==
  /\ pc = "running" /\ cs \notin {error, first_final} => Got(cs, Now, sent, p)
  /\ cs = first_final => told = <<ToldFields(sent)>>

LEMMA ExecuteCollects ==
  ASSUME NEW text, Execute(text)
  PROVE  Collected'
<1>1. Got(start, Now', text, 0)
  BY DEF Got, Now, Execute
<1>2. pc' = "running" /\ cs' = start /\ sent' = text /\ p' = 0
  BY DEF Execute
<1> QED
  BY <1>1, <1>2 DEF Collected

LEMMA ByteCollects ==
  ASSUME IInv, Collected, TakeByte
  PROVE  Collected'
<1> DEFINE move == Move(cs, sent[p + 1])
           r == Acts(Now, move.acts, p)
<1>1. /\ sent \in Seq(Octet) /\ buffer \in Seq(Octet) /\ Len(buffer) = Len(sent)
      /\ p \in 0 .. Len(sent) /\ cs \in 0 .. 53 /\ parser \in Parser /\ Len(sent) \in Nat
  BY DEF IInv, TypeOK
<1>2. pc = "running" /\ p < Len(buffer) /\ cs \in 0 .. 52 /\ cs # error /\ p \in Nat
  BY <1>1 DEF TakeByte
<1>3. buffer[p + 1] = sent[p + 1]
  BY <1>1, <1>2 DEF IInv, Kept
<1>4. /\ parser' = r.q /\ buffer' = r.b /\ neko_val' = r.obj /\ told' = r.told /\ cs' = move.to
      /\ p' = IF move.to \in {error, first_final} THEN p ELSE p + 1
      /\ UNCHANGED <<pc, sent, calls>>
  BY <1>3 DEF TakeByte, Now
<1>5. Ready(Now, sent, p)
  BY <1>1, <1>2, <1>3 DEF Ready, Now, IsState
<1>6. Got(cs, Now, sent, p)
  BY <1>2 DEF Collected
<1> HIDE DEF r
<1>7. CASE move.to \notin {error, first_final}
  <2>1. Got(move.to, r, sent, p + 1)
    <3> DEFINE m == move
    <3>1. m = Move(cs, sent[p + 1]) /\ m.to \notin {error, first_final}
      BY <1>7
    <3>2. r = Acts(Now, m.acts, p)
      BY DEF r
    <3> HIDE DEF m
    <3>3. Got(m.to, Acts(Now, m.acts, p), sent, p + 1)
      BY <1>2, <1>5, <1>6, <3>1, GotByte
    <3> QED
      BY <3>2, <3>3 DEF m
  <2>2. Now' = [q |-> r.q, b |-> r.b, obj |-> r.obj, told |-> r.told]
    BY <1>4 DEF Now
  <2>3. p' = p + 1 /\ cs' = move.to /\ sent' = sent /\ pc' = pc
    BY <1>4, <1>7
  <2>4. Got(move.to, Now', sent, p + 1)
    BY <2>1, <2>2 DEF Got, InMethod, BehindMethod, InWord, InPath, InParams, InQuery, BehindUri, InVersion,
                      Gathered, InName, InValue, Marked, InUri, BehindPath, Shown
  <2> QED
    BY <1>7, <2>3, <2>4 DEF Collected
<1>8. CASE move.to = first_final
  <2>1. Read(cs, sent, p)
    <3>1. sent \in Beginning(p)
      BY <1>1 DEF Beginning
    <3> QED
      BY <1>2, <3>1 DEF IInv, Understood
  <2>2. cs = 16 /\ HeaderLength(sent) = p + 1
    BY <1>1, <1>2, <1>8, <2>1, LastRead
  <2>3. sent[p + 1] = LF
    BY <1>8, <2>2, LineTo
  <2>4. r.told = Append(told, ToldFields(sent))
    <3>1. Acts(Now, Move(16, sent[p + 1]).acts, p).told = Append(Now.told, ToldFields(sent))
      BY <1>5, <1>6, <2>2, <2>3, LastGot
    <3> QED
      BY <2>2, <3>1 DEF r, Now
  <2>5. told = <<>>
    BY <1>2 DEF IInv, Reported
  <2>6. told' = <<ToldFields(sent)>> /\ sent' = sent /\ cs' = first_final
    BY <1>4, <1>8, <2>4, <2>5
  <2> QED
    BY <2>6 DEF Collected
<1>9. CASE move.to = error
  BY <1>4, <1>9 DEF Collected
<1> QED
  BY <1>7, <1>8, <1>9

LEMMA NextCollects == IInv /\ Collected /\ [HttpNext]_httpVars => Collected'
<1> SUFFICES ASSUME IInv, Collected, [HttpNext]_httpVars PROVE Collected'
  OBVIOUS
<1>1. ASSUME NEW text, Execute(text) PROVE Collected'
  BY <1>1, ExecuteCollects
<1>2. CASE Out
  BY <1>2 DEF Out, Collected
<1>3. CASE Reset
  BY <1>3 DEF Reset, Collected
<1>4. CASE UNCHANGED httpVars
  BY <1>4 DEF httpVars, Collected, Now
<1> QED
  BY <1>1, <1>2, <1>3, <1>4, ByteCollects DEF HttpNext

\* For texts of any length the program is told the names of the request, and of
\* each but the spoilt ones what the request says, although the callbacks cut the
\* buffer that they read (http11neko.c 28-75).
THEOREM TellsTheRequest == HttpSpec => []ToldTheRequest
<1>1. HttpInit => IInv /\ Collected
  <2>1. HttpInit => Collected
    BY DEF HttpInit, Collected
  <2> QED
    BY <2>1, Begins
<1>2. IInv /\ Collected /\ [HttpNext]_httpVars => (IInv /\ Collected)'
  BY NextKeeps, NextCollects
<1>3. IInv /\ Collected => ToldTheRequest
  <2> SUFFICES ASSUME IInv, Collected, told # <<>> PROVE ToldTheRequest
    BY DEF ToldTheRequest
  <2>1. cs = first_final /\ told = <<ToldFields(sent)>>
    BY DEF IInv, Reported, Collected
  <2>2. IsRequest(sent) /\ sent \in Seq(Octet)
    BY <2>1 DEF IInv, Understood, TypeOK
  <2>3. /\ DOMAIN ToldFields(sent) = DOMAIN Fields(sent)
        /\ \A name \in DOMAIN Fields(sent) :
             ~IsSpoilt(sent, name) => ToldFields(sent)[name] = Fields(sent)[name]
    BY <2>2, ToldIsSaid
  <2>4. Len(told) = 1 /\ told[1] = ToldFields(sent)
    BY <2>1
  <2> QED
    BY <2>3, <2>4 DEF ToldTheRequest
<1> QED
  BY <1>1, <1>2, <1>3, PTL DEF HttpSpec

===============================================================================
