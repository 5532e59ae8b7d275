-------------------------------- MODULE Sha2 --------------------------------
(***************************************************************************)
(* src/dll_src/hash/src/sha2.c: SHA-224, SHA-256, SHA-384 and SHA-512. The *)
(* first two work on words of 32 bits and blocks of 64 bytes, the others   *)
(* on words of 64 bits and blocks of 128 bytes, and their functions differ *)
(* in nothing else, so that each is one operator of the family d \in       *)
(* {224, 256, 384, 512}.                                                   *)
(*                                                                         *)
(* A context is a record: tot_len, the bytes of `block` that are filled    *)
(* (so that len is their number), and h, the blocks that were worked into  *)
(* the chaining words. The words themselves are computed from h when a     *)
(* digest is asked for, by the transformations sha256_transf and           *)
(* sha512_transf, which are the code's.                                    *)
(***************************************************************************)
EXTENDS Words, TLC

DigestSizes == {224, 256, 384, 512}

WordWidth(d) == IF d <= 256 THEN 32 ELSE 64

BLOCK_SIZE(d) == 2 * WordWidth(d)

Top32(x) == Shr(x, 32)
Low32(x) == x \cap 0 .. 31

sha384_h0 ==
  [i \in 1 .. 8 |-> Join(16, <<
      <<\hcbbb, \h9d5d, \hc105, \h9ed8>>, <<\h629a, \h292a, \h367c, \hd507>>,
      <<\h9159, \h015a, \h3070, \hdd17>>, <<\h152f, \hecd8, \hf70e, \h5939>>,
      <<\h6733, \h2667, \hffc0, \h0b31>>, <<\h8eb4, \h4a87, \h6858, \h1511>>,
      <<\hdb0c, \h2e0d, \h64f9, \h8fa7>>, <<\h47b5, \h481d, \hbefa, \h4fa4>> >>[i])]

sha512_h0 ==
  [i \in 1 .. 8 |-> Join(16, <<
      <<\h6a09, \he667, \hf3bc, \hc908>>, <<\hbb67, \hae85, \h84ca, \ha73b>>,
      <<\h3c6e, \hf372, \hfe94, \hf82b>>, <<\ha54f, \hf53a, \h5f1d, \h36f1>>,
      <<\h510e, \h527f, \hade6, \h82d1>>, <<\h9b05, \h688c, \h2b3e, \h6c1f>>,
      <<\h1f83, \hd9ab, \hfb41, \hbd6b>>, <<\h5be0, \hcd19, \h137e, \h2179>> >>[i])]

\* The tables of 32 bits are halves of those of 64 bits.
sha224_h0 == [i \in 1 .. 8 |-> Low32(sha384_h0[i])]

sha256_h0 == [i \in 1 .. 8 |-> Top32(sha512_h0[i])]

sha512_k ==
  [i \in 1 .. 80 |-> Join(16, <<
      <<\h428a, \h2f98, \hd728, \hae22>>, <<\h7137, \h4491, \h23ef, \h65cd>>,
      <<\hb5c0, \hfbcf, \hec4d, \h3b2f>>, <<\he9b5, \hdba5, \h8189, \hdbbc>>,
      <<\h3956, \hc25b, \hf348, \hb538>>, <<\h59f1, \h11f1, \hb605, \hd019>>,
      <<\h923f, \h82a4, \haf19, \h4f9b>>, <<\hab1c, \h5ed5, \hda6d, \h8118>>,
      <<\hd807, \haa98, \ha303, \h0242>>, <<\h1283, \h5b01, \h4570, \h6fbe>>,
      <<\h2431, \h85be, \h4ee4, \hb28c>>, <<\h550c, \h7dc3, \hd5ff, \hb4e2>>,
      <<\h72be, \h5d74, \hf27b, \h896f>>, <<\h80de, \hb1fe, \h3b16, \h96b1>>,
      <<\h9bdc, \h06a7, \h25c7, \h1235>>, <<\hc19b, \hf174, \hcf69, \h2694>>,
      <<\he49b, \h69c1, \h9ef1, \h4ad2>>, <<\hefbe, \h4786, \h384f, \h25e3>>,
      <<\h0fc1, \h9dc6, \h8b8c, \hd5b5>>, <<\h240c, \ha1cc, \h77ac, \h9c65>>,
      <<\h2de9, \h2c6f, \h592b, \h0275>>, <<\h4a74, \h84aa, \h6ea6, \he483>>,
      <<\h5cb0, \ha9dc, \hbd41, \hfbd4>>, <<\h76f9, \h88da, \h8311, \h53b5>>,
      <<\h983e, \h5152, \hee66, \hdfab>>, <<\ha831, \hc66d, \h2db4, \h3210>>,
      <<\hb003, \h27c8, \h98fb, \h213f>>, <<\hbf59, \h7fc7, \hbeef, \h0ee4>>,
      <<\hc6e0, \h0bf3, \h3da8, \h8fc2>>, <<\hd5a7, \h9147, \h930a, \ha725>>,
      <<\h06ca, \h6351, \he003, \h826f>>, <<\h1429, \h2967, \h0a0e, \h6e70>>,
      <<\h27b7, \h0a85, \h46d2, \h2ffc>>, <<\h2e1b, \h2138, \h5c26, \hc926>>,
      <<\h4d2c, \h6dfc, \h5ac4, \h2aed>>, <<\h5338, \h0d13, \h9d95, \hb3df>>,
      <<\h650a, \h7354, \h8baf, \h63de>>, <<\h766a, \h0abb, \h3c77, \hb2a8>>,
      <<\h81c2, \hc92e, \h47ed, \haee6>>, <<\h9272, \h2c85, \h1482, \h353b>>,
      <<\ha2bf, \he8a1, \h4cf1, \h0364>>, <<\ha81a, \h664b, \hbc42, \h3001>>,
      <<\hc24b, \h8b70, \hd0f8, \h9791>>, <<\hc76c, \h51a3, \h0654, \hbe30>>,
      <<\hd192, \he819, \hd6ef, \h5218>>, <<\hd699, \h0624, \h5565, \ha910>>,
      <<\hf40e, \h3585, \h5771, \h202a>>, <<\h106a, \ha070, \h32bb, \hd1b8>>,
      <<\h19a4, \hc116, \hb8d2, \hd0c8>>, <<\h1e37, \h6c08, \h5141, \hab53>>,
      <<\h2748, \h774c, \hdf8e, \heb99>>, <<\h34b0, \hbcb5, \he19b, \h48a8>>,
      <<\h391c, \h0cb3, \hc5c9, \h5a63>>, <<\h4ed8, \haa4a, \he341, \h8acb>>,
      <<\h5b9c, \hca4f, \h7763, \he373>>, <<\h682e, \h6ff3, \hd6b2, \hb8a3>>,
      <<\h748f, \h82ee, \h5def, \hb2fc>>, <<\h78a5, \h636f, \h4317, \h2f60>>,
      <<\h84c8, \h7814, \ha1f0, \hab72>>, <<\h8cc7, \h0208, \h1a64, \h39ec>>,
      <<\h90be, \hfffa, \h2363, \h1e28>>, <<\ha450, \h6ceb, \hde82, \hbde9>>,
      <<\hbef9, \ha3f7, \hb2c6, \h7915>>, <<\hc671, \h78f2, \he372, \h532b>>,
      <<\hca27, \h3ece, \hea26, \h619c>>, <<\hd186, \hb8c7, \h21c0, \hc207>>,
      <<\heada, \h7dd6, \hcde0, \heb1e>>, <<\hf57d, \h4f7f, \hee6e, \hd178>>,
      <<\h06f0, \h67aa, \h7217, \h6fba>>, <<\h0a63, \h7dc5, \ha2c8, \h98a6>>,
      <<\h113f, \h9804, \hbef9, \h0dae>>, <<\h1b71, \h0b35, \h131c, \h471b>>,
      <<\h28db, \h77f5, \h2304, \h7d84>>, <<\h32ca, \hab7b, \h40c7, \h2493>>,
      <<\h3c9e, \hbe0a, \h15c9, \hbebc>>, <<\h431d, \h67c4, \h9c10, \h0d4c>>,
      <<\h4cc5, \hd4be, \hcb3e, \h42b6>>, <<\h597f, \h299c, \hfc65, \h7e2a>>,
      <<\h5fcb, \h6fab, \h3ad6, \hfaec>>, <<\h6c44, \h198c, \h4a47, \h5817>> >>[i])]

sha256_k == [i \in 1 .. 64 |-> Top32(sha512_k[i])]

CH(x, y, z) == Xor(x \cap y, z \ x)

MAJ(x, y, z) == Xor(Xor(x \cap y, x \cap z), y \cap z)

\* Three rotations, or two and a shift, exclusively ored.
Rotations(width, x, n) ==
  Xor(Xor(Rotr(width, x, n[1]), Rotr(width, x, n[2])), Rotr(width, x, n[3]))

RotationsShift(width, x, n) ==
  Xor(Xor(Rotr(width, x, n[1]), Rotr(width, x, n[2])), Shr(x, n[3]))

F1(width, x) ==
  Rotations(width, x, IF width = 32 THEN <<2, 13, 22>> ELSE <<28, 34, 39>>)
F2(width, x) ==
  Rotations(width, x, IF width = 32 THEN <<6, 11, 25>> ELSE <<14, 18, 41>>)
F3(width, x) ==
  RotationsShift(width, x, IF width = 32 THEN <<7, 18, 3>> ELSE <<1, 8, 7>>)
F4(width, x) ==
  RotationsShift(width, x, IF width = 32 THEN <<17, 19, 10>> ELSE <<19, 61, 6>>)

PlusAll(width, s) == FoldLeft(LAMBDA x, y : Plus(width, x, y), {}, s)

\* SHA256_SCR and SHA512_SCR: the next word of the message schedule.
SCR(width, w) ==
  LET i == Len(w) + 1
  IN Append(w, PlusAll(width, << F4(width, w[i - 2]), w[i - 7],
                                 F3(width, w[i - 15]), w[i - 16] >>))

\* SHA256_EXP and SHA512_EXP: one round on the eight working words, with the
\* round's constant k and word w. The unrolled macros rename the working words
\* where the loop moves them.
EXP(width, wv, k, w) ==
  LET t1 == PlusAll(width, << wv[8], F2(width, wv[5]), CH(wv[5], wv[6], wv[7]),
                              k, w >>)
      t2 == Plus(width, F1(width, wv[1]), MAJ(wv[1], wv[2], wv[3]))
  IN << Plus(width, t1, t2), wv[1], wv[2], wv[3],
        Plus(width, wv[4], t1), wv[5], wv[6], wv[7] >>

\* One block of bytes worked into the chaining words h, with the constants k.
transf(width, k, h, block) ==
  LET words == Pieces(block, width \div 8)
      first == [j \in 1 .. 16 |-> Join(8, words[j])]
      scheduled == Rounds(LAMBDA w, j : SCR(width, w), first, InOrder(17, Len(k)))
      round(x, j) == [w |-> x.w, wv |-> EXP(width, x.wv, k[j], x.w[j])]
      worked == Rounds(round, [w |-> scheduled, wv |-> h], InOrder(1, Len(k))).wv
  IN [i \in 1 .. 8 |-> Plus(width, h[i], worked[i])]

sha256_transf(h, block) == transf(32, sha256_k, h, block)

sha512_transf(h, block) == transf(64, sha512_k, h, block)

init == [tot_len |-> 0, block |-> <<>>, h |-> <<>>]

\* The functions *_update: the context is filled up to a block; then that
\* block and the whole blocks of the rest are worked in, and what remains is
\* kept in the context.
update(d, ctx, message) ==
  LET size == BLOCK_SIZE(d)
      len == Len(message)
      tmp_len == size - Len(ctx.block)
      rem_len == IF len < tmp_len THEN len ELSE tmp_len
      filled == ctx.block \o SubSeq(message, 1, rem_len)
      new_len == len - rem_len
      block_nb == new_len \div size
      shifted_message == SubSeq(message, rem_len + 1, len)
      rest == new_len % size
  IN IF Len(ctx.block) + len < size
       THEN [ctx EXCEPT !.block = filled]
       ELSE [tot_len |-> ctx.tot_len + (block_nb + 1) * size,
             block |-> SubSeq(shifted_message, block_nb * size + 1,
                              block_nb * size + rest),
             h |-> Append(ctx.h, filled) \o Pieces(shifted_message, size)]

\* Slip: the last length that fits one block gets two.
Slipfinal(d, ctx) ==
  LET size == BLOCK_SIZE(d)
      len == Len(ctx.block)
      pm_len == size * (IF size - (size \div 8) - 1 <= len THEN 2 ELSE 1)
      zeros == [i \in 1 .. pm_len - len - 5 |-> 0]
      length == Cut(8, 4, Bits((ctx.tot_len + len) * 8))
  IN [ctx EXCEPT !.h = @ \o Pieces(ctx.block \o <<128>> \o zeros \o length, size)]

\* The functions *_final: the bytes that are kept, 0x80, zeros and the length
\* in bits as 32 bits fill one block, or two where one is too short. len stays,
\* so that the context keeps its bytes.
final(d, ctx) ==
  LET size == BLOCK_SIZE(d)
      len == Len(ctx.block)
      reserved == IF WordWidth(d) = 32 THEN 9 ELSE 17
      block_nb == 1 + (IF size - reserved < len % size THEN 1 ELSE 0)
      pm_len == block_nb * size
      len_b == (ctx.tot_len + len) * 8
      zeros == [i \in 1 .. pm_len - len - 5 |-> 0]
  IN [ctx EXCEPT !.h = @ \o Pieces(ctx.block \o <<128>> \o zeros \o Cut(8, 4, Bits(len_b)), size)]

\* The bytes of the digest: all the chaining words, of SHA-384 the first six,
\* of SHA-224 the first seven.
digest(d, ctx) ==
  LET h0 == CASE d = 224 -> sha224_h0 [] d = 256 -> sha256_h0
              [] d = 384 -> sha384_h0 [] d = 512 -> sha512_h0
      transform(h, block) == IF WordWidth(d) = 32 THEN sha256_transf(h, block)
                                              ELSE sha512_transf(h, block)
      h == Rounds(transform, h0, ctx.h)
      bytes == FlattenSeq([i \in 1 .. 8 |-> Cut(8, WordWidth(d) \div 8, h[i])])
  IN SubSeq(bytes, 1, d \div 8)

\* The functions of each size.
sha224_init == init
sha256_init == init
sha384_init == init
sha512_init == init

sha224_update(ctx, message) == update(224, ctx, message)
sha256_update(ctx, message) == update(256, ctx, message)
sha384_update(ctx, message) == update(384, ctx, message)
sha512_update(ctx, message) == update(512, ctx, message)

sha224_final(ctx) == final(224, ctx)
sha256_final(ctx) == final(256, ctx)
sha384_final(ctx) == final(384, ctx)
sha512_final(ctx) == final(512, ctx)

sha224(message) == digest(224, sha224_final(sha224_update(sha224_init, message)))
sha256(message) == digest(256, sha256_final(sha256_update(sha256_init, message)))
sha384(message) == digest(384, sha384_final(sha384_update(sha384_init, message)))
sha512(message) == digest(512, sha512_final(sha512_update(sha512_init, message)))

\* The messages and the answers of the validation tests, the answers as
\* halves of words: "abc", and letters in runs that fill a block and spill over
\* into a second one.
message1 == <<97, 98, 99>>
message2a == FlattenSeq([i \in 1 .. 14 |-> [j \in 1 .. 4 |-> 95 + i + j]])
message2b == FlattenSeq([i \in 1 .. 14 |-> [j \in 1 .. 8 |-> 95 + i + j]])

vectors ==
  224 :> << <<\h2309, \h7d22, \h3405, \hd822, \h8642, \ha477, \hbda2, \h55b3,
              \h2aad, \hbce4, \hbda0, \hb3f7, \he36c, \h9da7>>,
           <<\h7538, \h8b16, \h5127, \h76cc, \h5dba, \h5da1, \hfd89, \h0150,
              \hb0c6, \h455c, \hb4f5, \h8b19, \h5252, \h2525>> >> @@
  256 :> << <<\hba78, \h16bf, \h8f01, \hcfea, \h4141, \h40de, \h5dae, \h2223,
              \hb003, \h61a3, \h9617, \h7a9c, \hb410, \hff61, \hf200, \h15ad>>,
           <<\h248d, \h6a61, \hd206, \h38b8, \he5c0, \h2693, \h0c3e, \h6039,
              \ha33c, \he459, \h64ff, \h2167, \hf6ec, \hedd4, \h19db, \h06c1>> >> @@
  384 :> << <<\hcb00, \h753f, \h45a3, \h5e8b, \hb5a0, \h3d69, \h9ac6, \h5007,
              \h272c, \h32ab, \h0ede, \hd163, \h1a8b, \h605a, \h43ff, \h5bed,
              \h8086, \h072b, \ha1e7, \hcc23, \h58ba, \heca1, \h34c8, \h25a7>>,
           <<\h0933, \h0c33, \hf711, \h47e8, \h3d19, \h2fc7, \h82cd, \h1b47,
              \h5311, \h1b17, \h3b3b, \h05d2, \h2fa0, \h8086, \he3b0, \hf712,
              \hfcc7, \hc71a, \h557e, \h2db9, \h66c3, \he9fa, \h9174, \h6039>> >> @@
  512 :> << <<\hddaf, \h35a1, \h9361, \h7aba, \hcc41, \h7349, \hae20, \h4131,
              \h12e6, \hfa4e, \h89a9, \h7ea2, \h0a9e, \heee6, \h4b55, \hd39a,
              \h2192, \h992a, \h274f, \hc1a8, \h36ba, \h3c23, \ha3fe, \hebbd,
              \h454d, \h4423, \h643c, \he80e, \h2a9a, \hc94f, \ha54c, \ha49f>>,
           <<\h8e95, \h9b75, \hdae3, \h13da, \h8cf4, \hf728, \h14fc, \h143f,
              \h8f77, \h79c6, \heb9f, \h7fa1, \h7299, \haead, \hb688, \h9018,
              \h501d, \h289e, \h4900, \hf7e4, \h331b, \h99de, \hc4b5, \h433a,
              \hc7d3, \h29ee, \hb6dd, \h2654, \h5e96, \he55b, \h874b, \he909>> >>
=============================================================================
