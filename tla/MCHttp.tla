------------------------------- MODULE MCHttp -------------------------------
(***************************************************************************)
(* Http on requests put together from parts, on every beginning of one and *)
(* on one with any of its bytes replaced.                                  *)
(***************************************************************************)
EXTENDS Http

Many(n) == [i \in 1 .. n |-> 65]
EndOfLine == <<CR, LF>>

GET == <<71, 69, 84>>
\* /p?q, with the rest of what an address can hold below
PlainUri == <<Slash, 112, Question, 113>>
HTTP11 == <<72, 84, 84, 80, Slash, 49, 46, 49>>

Request(method, uri, version, lines) ==
  method \o <<Space>> \o uri \o <<Space>> \o version \o EndOfLine
  \o FoldLeft(LAMBDA all, line : all \o line \o EndOfLine, <<>>, lines) \o EndOfLine

Methods == {GET, <<>>, Many(20), Many(21), <<103>>}

Addresses ==
  {<<Star>>, <<Star, Star>>, <<>>, <<Slash>>, PlainUri, <<Slash, Question>>, <<112>>,
   <<Slash, 195>>, <<Slash, 35>>, <<Slash, Percent, 52, 97, Percent, 55>>,
   <<Slash, Percent, 52, 97, Question, Percent, 55, 70>>,
   <<Slash, 112, Semicolon, 97, Semicolon, Percent, 52, 49, Question, 113, Question, Semicolon>>,
   <<Colon, Percent, 65, 98>>, <<104, 43, Colon, Slash, Question, 113>>, <<104, Percent, Colon>>}

Versions == {HTTP11, HTTP11 \o <<50, 46>>, <<72, 84, 84, 80, Slash, 49, 50, 46, 48, 49>>,
             <<72, 84, 84, 80, Slash, 46, 49>>}

\* a:x   a: x (two spaces)   a: (a space)   a:   b:y, an LF and a NUL inside
\* Content-Lengthx:1   Content-Length: 12   HTTP_VERSION:z   :x   a x:y
ax == <<97, Colon, 120>>
Headers ==
  {<<>>, <<ax>>, <<<<97, Colon, Space, Space, 120, Space>>>>, <<<<97, Colon, Space, Space>>>>,
   <<<<97, Colon>>>>, <<ax, <<98, Colon>>>>, <<ax, <<97, Colon, 121>>>>,
   <<<<98, Colon, 121, LF, 122>>, <<97, Colon>>>>, <<<<98, Colon, 121, NUL, 122>>, <<97, Colon>>>>,
   <<ContentLength \o <<120, Colon, 49>>>>,
   <<ContentLength \o <<Colon, Space, 49, 50>>>>, <<ContentLength \o <<Colon, 45, 55, 120>>>>,
   <<HTTP_VERSION \o <<Colon, 122>>, <<98, Colon>>>>, <<<<Colon, 120>>>>,
   <<<<97, Space, 120, Colon, 121>>>>, <<<<97, Colon, 120, CR, 121>>>>}

Composed ==
  {Request(m, PlainUri, HTTP11, <<ax>>) : m \in Methods}
  \cup {Request(GET, u, HTTP11, <<ax>>) : u \in Addresses}
  \cup {Request(GET, PlainUri, v, <<ax>>) : v \in Versions}
  \cup {Request(GET, <<Slash>>, HTTP11, h) : h \in Headers}

Sample == Request(GET, PlainUri, HTTP11, <<ax>>) \o <<98>>

Beginnings == {SubSeq(Sample, 1, n) : n \in 0 .. Len(Sample)}

Damaged == {[Sample EXCEPT ![i] = c] :
              i \in DOMAIN Sample, c \in {NUL, LF, CR, Space, Percent, Slash, Colon, 65, 200}}

AllTexts == Composed \cup Beginnings \cup Damaged

\* A whole request, and the rest of one.
Following == {Request(<<80>>, <<Slash>>, HTTP11, <<<<98, Colon>>>>), EndOfLine \o EndOfLine}

\* A query, and a field without a value.
OneRequest == {Request(GET, PlainUri, HTTP11, <<<<97, Colon>>>>)}
=============================================================================
