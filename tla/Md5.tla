-------------------------------- MODULE Md5 --------------------------------
(***************************************************************************)
(* src/dll_src/hash/src/md5.c. A context is a record as in module Sha2: lo *)
(* counts the bytes (modulo 2^29 in the code, and hi the overflows: the    *)
(* messages here stay below), buffer holds the bytes that wait for a whole *)
(* block, h the blocks that were worked in, and wiped, whether the chaining  *)
(* words started as zeros, which a digest leaves.                          *)
(***************************************************************************)
EXTENDS Words

F(x, y, z) == Xor(z, x \cap Xor(y, z))
G(x, y, z) == Xor(y, z \cap Xor(x, y))
H(x, y, z) == Xor(Xor(x, y), z)
I(x, y, z) == Xor(y, x \cup Not(32, z))

\* The constants of the 64 steps.
Constants ==
  [i \in 1 .. 64 |-> Join(16, <<
      <<\hd76a, \ha478>>, <<\he8c7, \hb756>>, <<\h2420, \h70db>>, <<\hc1bd, \hceee>>,
      <<\hf57c, \h0faf>>, <<\h4787, \hc62a>>, <<\ha830, \h4613>>, <<\hfd46, \h9501>>,
      <<\h6980, \h98d8>>, <<\h8b44, \hf7af>>, <<\hffff, \h5bb1>>, <<\h895c, \hd7be>>,
      <<\h6b90, \h1122>>, <<\hfd98, \h7193>>, <<\ha679, \h438e>>, <<\h49b4, \h0821>>,
      <<\hf61e, \h2562>>, <<\hc040, \hb340>>, <<\h265e, \h5a51>>, <<\he9b6, \hc7aa>>,
      <<\hd62f, \h105d>>, <<\h0244, \h1453>>, <<\hd8a1, \he681>>, <<\he7d3, \hfbc8>>,
      <<\h21e1, \hcde6>>, <<\hc337, \h07d6>>, <<\hf4d5, \h0d87>>, <<\h455a, \h14ed>>,
      <<\ha9e3, \he905>>, <<\hfcef, \ha3f8>>, <<\h676f, \h02d9>>, <<\h8d2a, \h4c8a>>,
      <<\hfffa, \h3942>>, <<\h8771, \hf681>>, <<\h6d9d, \h6122>>, <<\hfde5, \h380c>>,
      <<\ha4be, \hea44>>, <<\h4bde, \hcfa9>>, <<\hf6bb, \h4b60>>, <<\hbebf, \hbc70>>,
      <<\h289b, \h7ec6>>, <<\heaa1, \h27fa>>, <<\hd4ef, \h3085>>, <<\h0488, \h1d05>>,
      <<\hd9d4, \hd039>>, <<\he6db, \h99e5>>, <<\h1fa2, \h7cf8>>, <<\hc4ac, \h5665>>,
      <<\hf429, \h2244>>, <<\h432a, \hff97>>, <<\hab94, \h23a7>>, <<\hfc93, \ha039>>,
      <<\h655b, \h59c3>>, <<\h8f0c, \hcc92>>, <<\hffef, \hf47d>>, <<\h8584, \h5dd1>>,
      <<\h6fa8, \h7e4f>>, <<\hfe2c, \he6e0>>, <<\ha301, \h4314>>, <<\h4e08, \h11a1>>,
      <<\hf753, \h7e82>>, <<\hbd3a, \hf235>>, <<\h2ad7, \hd2bb>>, <<\heb86, \hd391>> >>[i])]

\* STEP number i \in 0 .. 63 on the working words <<a, b, c, d>>: its round
\* selects the function, the word of the block it takes and the rotation; the
\* result becomes b, where the code's macro calls permute the names instead.
STEP(words, v, i) ==
  LET a == v[1]  b == v[2]  c == v[3]  d == v[4]
      round == i \div 16
      f == CASE round = 0 -> F(b, c, d) [] round = 1 -> G(b, c, d)
             [] round = 2 -> H(b, c, d) [] round = 3 -> I(b, c, d)
      x == CASE round = 0 -> i [] round = 1 -> (5 * i + 1) % 16
             [] round = 2 -> (3 * i + 5) % 16 [] round = 3 -> (7 * i) % 16
      s == << <<7, 12, 17, 22>>, <<5, 9, 14, 20>>,
              <<4, 11, 16, 23>>, <<6, 10, 15, 21>> >>[round + 1][(i % 4) + 1]
      added == Sum32(<<a, f, words[x + 1], Constants[i + 1]>>)
  IN <<d, Plus(32, Rotl(32, added, s), b), b, c>>

\* A block worked into the four words.
body(h, block) ==
  LET pieces == Pieces(block, 4)
      words == [k \in 1 .. 16 |-> Join(8, Reverse(pieces[k]))]
      worked == Rounds(LAMBDA v, i : STEP(words, v, i), h, InOrder(0, 63))
  IN [k \in 1 .. 4 |-> Plus(32, h[k], worked[k])]

InitialWords ==
  << Join(16, <<\h6745, \h2301>>), Join(16, <<\hefcd, \hab89>>),
     Join(16, <<\h98ba, \hdcfe>>), Join(16, <<\h1032, \h5476>>) >>

MD5_Init == [lo |-> 0, buffer |-> <<>>, h |-> <<>>, wiped |-> FALSE]

\* The bytes that wait are filled up to a block, which is worked in; then the
\* whole blocks of what is left; the rest waits.
MD5_Update(ctx, data) ==
  LET used == ctx.lo % 64
      free == 64 - used
      size == Len(data)
      taken == IF used = 0 THEN 0 ELSE free
      filled == IF used = 0 THEN <<>> ELSE << ctx.buffer \o SubSeq(data, 1, free) >>
      left == SubSeq(data, taken + 1, size)
      whole == Len(left) - (Len(left) % 64)
  IN IF used # 0 /\ size < free
       THEN [ctx EXCEPT !.lo = @ + size, !.buffer = @ \o data]
       ELSE [ctx EXCEPT !.lo = @ + size,
                        !.buffer = SubSeq(left, whole + 1, Len(left)),
                        !.h = @ \o filled \o Pieces(left, 64)]

\* 0x80, zeros to the end of the block where fewer than 8 bytes are left of it,
\* zeros up to the last 8 bytes, and the length in bits, its low byte first.
MD5_Final(ctx) ==
  LET used == (ctx.lo % 64) + 1
      free == 64 - used
      zeros(n) == [i \in 1 .. n |-> 0]
      marked == SubSeq(ctx.buffer, 1, used - 1) \o <<128>>
      padded == IF free < 8 THEN marked \o zeros(free) \o zeros(56)
                            ELSE marked \o zeros(free - 8)
      length == Reverse(Cut(8, 4, Bits(8 * ctx.lo))) \o zeros(4)
  IN [ctx EXCEPT !.h = @ \o Pieces(padded \o length, 64)]

\* The context is all zeros afterwards.
MD5_Wiped == [MD5_Init EXCEPT !.wiped = TRUE]

\* The bytes of the digest of a context that was padded.
MD5Digest(ctx) ==
  LET start == IF ctx.wiped THEN [k \in 1 .. 4 |-> {}] ELSE InitialWords
      words == Rounds(body, start, ctx.h)
  IN FlattenSeq([k \in 1 .. 4 |-> Reverse(Cut(8, 4, words[k]))])
=============================================================================
