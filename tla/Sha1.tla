-------------------------------- MODULE Sha1 --------------------------------
(***************************************************************************)
(* src/dll_src/hash/src/sha1.c. A context is a record: count, the bits     *)
(* that were fed (below 2^31 here: the second counter stays 0), buffer,    *)
(* the bytes that wait for a whole block, h, the blocks worked into the    *)
(* chaining words, and wiped, whether these started as zeros, as they do   *)
(* after a digest was taken. The test of the byte order finds a            *)
(* little-endian machine, on which a word of a block is its bytes in       *)
(* reverse, so that the first byte counts most either way.                 *)
(***************************************************************************)
EXTENDS Words

InitialWords ==
  << Join(16, <<\h6745, \h2301>>), Join(16, <<\hefcd, \hab89>>),
     Join(16, <<\h98ba, \hdcfe>>), Join(16, <<\h1032, \h5476>>),
     Join(16, <<\hc3d2, \he1f0>>) >>

\* blk(i): the next word of the schedule.
blk(w) ==
  LET i == Len(w) + 1
  IN Append(w, Rotl(32, Xor(Xor(w[i - 3], w[i - 8]), Xor(w[i - 14], w[i - 16])), 1))

\* The rounds R0 to R4, number i \in 0 .. 79, on <<a, b, c, d, e>> with the word
\* of the schedule.
R(v, i, word) ==
  LET b == v[2]  c == v[3]  d == v[4]
      mixed == CASE i < 20 -> Xor(b \cap Xor(c, d), d)
                 [] i \in 40 .. 59 -> ((b \cup c) \cap d) \cup (b \cap c)
                 [] OTHER -> Xor(Xor(b, c), d)
      constant == CASE i < 20 -> <<\h5a82, \h7999>> [] i \in 20 .. 39 -> <<\h6ed9, \heba1>>
                    [] i \in 40 .. 59 -> <<\h8f1b, \hbcdc>> [] i >= 60 -> <<\hca62, \hc1d6>>
  IN << Sum32(<<v[5], mixed, word, Join(16, constant), Rotl(32, v[1], 5)>>),
        v[1], Rotl(32, b, 30), c, d >>

SHA1Transform(state, buffer) ==
  LET pieces == Pieces(buffer, 4)
      first == [j \in 1 .. 16 |-> Join(8, pieces[j])]
      word == Rounds(LAMBDA w, j : blk(w), first, InOrder(17, 80))
      round(x, i) == [word |-> x.word, v |-> R(x.v, i, x.word[i + 1])]
      worked == Rounds(round, [word |-> word, v |-> state], InOrder(0, 79)).v
  IN [k \in 1 .. 5 |-> Plus(32, state[k], worked[k])]

SHA1Init == [count |-> 0, buffer |-> <<>>, h |-> <<>>, wiped |-> FALSE]

\* The buffer is filled to a block, which is worked in with the whole blocks
\* of the rest; or the data does not fill it and is kept.
SHA1Update(context, data) ==
  LET j == (context.count \div 8) % 64
      len == Len(data)
      i == IF j + len > 63 THEN 64 - j ELSE 0
      rest == SubSeq(data, i + 1, len)
      whole == IF i = 0 THEN 0 ELSE Len(rest) - (Len(rest) % 64)
      blocks == IF i = 0 THEN <<>>
                ELSE Pieces(SubSeq(context.buffer, 1, j) \o SubSeq(data, 1, i + whole), 64)
      kept == IF i = 0 THEN SubSeq(context.buffer, 1, j) ELSE <<>>
  IN [context EXCEPT !.count = @ + 8 * len,
                     !.buffer = kept \o SubSeq(rest, whole + 1, Len(rest)),
                     !.h = @ \o blocks]

\* The digest's blocks: 0x80, zeros up to 448 bits of a block, the count as it
\* was before, of 8 bytes.
SHA1Padded(context) ==
  LET marked == SHA1Update(context, <<128>>)
      n == CHOOSE k \in 0 .. 63 : (marked.count + 8 * k) % 512 = 448
      filled == SHA1Update(marked, [k \in 1 .. n |-> 0])
      finalcount == [k \in 1 .. 4 |-> 0] \o Cut(8, 4, Bits(context.count))
  IN SHA1Update(filled, finalcount)

\* What SHA1Final leaves: buffer, state and count are zeros, and a block of
\* zeros was worked into the state to overwrite the workspace.
SHA1Wiped(context) ==
  [context EXCEPT !.count = 0, !.buffer = <<>>, !.wiped = TRUE,
                  !.h = << [k \in 1 .. 64 |-> 0] >>]

\* The bytes of the digest of a context that was padded.
SHA1Digest(context) ==
  LET start == IF context.wiped THEN [k \in 1 .. 5 |-> {}] ELSE InitialWords
      state == Rounds(SHA1Transform, start, context.h)
  IN FlattenSeq([k \in 1 .. 5 |-> Cut(8, 4, state[k])])

\* SHA1 and sha1_string feed a message through a buffer of `chunk` bytes
\* (16384 in the code).
SHA1Feed(context, message, chunk) ==
  LET whole == Pieces(message, chunk)
      rest == SubSeq(message, Len(whole) * chunk + 1, Len(message))
      parts == IF rest = <<>> THEN whole ELSE Append(whole, rest)
  IN FoldLeft(SHA1Update, context, parts)

SHA1(message, chunk) == SHA1Digest(SHA1Padded(SHA1Feed(SHA1Init, message, chunk)))
=============================================================================
