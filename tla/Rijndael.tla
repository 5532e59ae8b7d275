------------------------------ MODULE Rijndael ------------------------------
(***************************************************************************)
(* src/dll_src/crypt/src/rijndael-alg-fst.cpp: the block cipher AES. A key *)
(* schedule is the sequence of its words, a block the sequence of its 16   *)
(* bytes. The tables are stated by the formulas over them in the source    *)
(* (lines 31 to 43), of which only S, the bytes of Te4, is a table here.   *)
(* The unrolled rounds of FULL_UNROLL, which the build does not define, do *)
(* what the loop beside them does.                                         *)
(***************************************************************************)
EXTENDS Words

S ==
  << 99, 124, 119, 123, 242, 107, 111, 197, 48, 1, 103, 43, 254, 215, 171, 118, 202, 130,
     201, 125, 250, 89, 71, 240, 173, 212, 162, 175, 156, 164, 114, 192, 183, 253, 147, 38,
     54, 63, 247, 204, 52, 165, 229, 241, 113, 216, 49, 21, 4, 199, 35, 195, 24, 150,
     5, 154, 7, 18, 128, 226, 235, 39, 178, 117, 9, 131, 44, 26, 27, 110, 90, 160,
     82, 59, 214, 179, 41, 227, 47, 132, 83, 209, 0, 237, 32, 252, 177, 91, 106, 203,
     190, 57, 74, 76, 88, 207, 208, 239, 170, 251, 67, 77, 51, 133, 69, 249, 2, 127,
     80, 60, 159, 168, 81, 163, 64, 143, 146, 157, 56, 245, 188, 182, 218, 33, 16, 255,
     243, 210, 205, 12, 19, 236, 95, 151, 68, 23, 196, 167, 126, 61, 100, 93, 25, 115,
     96, 129, 79, 220, 34, 42, 144, 136, 70, 238, 184, 20, 222, 94, 11, 219, 224, 50,
     58, 10, 73, 6, 36, 92, 194, 211, 172, 98, 145, 149, 228, 121, 231, 200, 55, 109,
     141, 213, 78, 169, 108, 86, 244, 234, 101, 122, 174, 8, 186, 120, 37, 46, 28, 166,
     180, 198, 232, 221, 116, 31, 75, 189, 139, 138, 112, 62, 181, 102, 72, 3, 246, 14,
     97, 53, 87, 185, 134, 193, 29, 158, 225, 248, 152, 17, 105, 217, 142, 148, 155, 30,
     135, 233, 206, 85, 40, 223, 140, 161, 137, 13, 191, 230, 66, 104, 65, 153, 45, 15,
     176, 84, 187, 22 >>

\* A byte of S, its complement among the tables, and both on the bytes of a word.
Te4 == [x \in 0 .. 255 |-> S[x + 1]]

Td4 == [x \in 0 .. 255 |-> CHOOSE y \in 0 .. 255 : S[y + 1] = x]

OfBytes(T, word) == Join(8, [k \in 1 .. 4 |-> T[Cut(8, 4, word)[k]]])

\* The product in the field of the cipher of c < 16 and a byte: the byte is
\* doubled once for each bit, and a bit that leaves it comes back as 0x1b.
Product(c, byte) ==
  LET double(x) == Xor(Shl(8, x, 1), IF 7 \in x THEN Bits(\h1b) ELSE {})
      two == double(byte)
      multiple == <<byte, two, double(two), double(double(two))>>
  IN FoldSet(LAMBDA i, sum : Xor(multiple[i + 1], sum), {}, Bits(c))

\* Table k: the bytes of T by a column of four factors, which moves down a place
\* from a table to the next.
Table(T, factors, k) ==
  [x \in 0 .. 255 |->
    Join(8, [j \in 1 .. 4 |-> NumberOf(8, Product(factors[1 + ((j + 3 - k) % 4)], Bits(T[x])))])]

Te0 == Table(Te4, <<2, 1, 1, 3>>, 0)
Te1 == Table(Te4, <<2, 1, 1, 3>>, 1)
Te2 == Table(Te4, <<2, 1, 1, 3>>, 2)
Te3 == Table(Te4, <<2, 1, 1, 3>>, 3)

Td0 == Table(Td4, <<14, 9, 13, 11>>, 0)
Td1 == Table(Td4, <<14, 9, 13, 11>>, 1)
Td2 == Table(Td4, <<14, 9, 13, 11>>, 2)
Td3 == Table(Td4, <<14, 9, 13, 11>>, 3)

Te == <<Te0, Te1, Te2, Te3>>
Td == <<Td0, Td1, Td2, Td3>>

rcon == [i \in 0 .. 9 |-> IF i < 8 THEN {24 + i} ELSE Join(8, <<27 * (i - 7), 0, 0, 0>>)]

\* The state of a block, and the block of a state.
GETU32(block) == [j \in 1 .. 4 |-> Join(8, SubSeq(block, 4 * j - 3, 4 * j))]

PUTU32(s) == FlattenSeq([j \in 1 .. 4 |-> Cut(8, 4, s[j])])

XorWords(s, t) ==
  <<Xor(s[1], t[1]), Xor(s[2], t[2]), Xor(s[3], t[3]), Xor(s[4], t[4])>>

\* The four words of the schedule that round r adds.
RoundKey(rk, r) == SubSeq(rk, 4 * r + 1, 4 * r + 4)

\* Slip: a key of 256 bits has no second substitution.
SlipKeyWord(w, i, Nk) ==
  LET temp == Last(w)
  IN Xor(w[i + 1 - Nk],
         IF i % Nk = 0 THEN Xor(OfBytes(Te4, Rotl(32, temp, 8)), rcon[(i \div Nk) - 1])
         ELSE temp)

\* Word i of the schedule of a key of Nk words.
KeyWord(w, i, Nk) ==
  LET temp == Last(w)
  IN Xor(w[i + 1 - Nk],
         CASE i % Nk = 0 -> Xor(OfBytes(Te4, Rotl(32, temp, 8)), rcon[(i \div Nk) - 1])
           [] Nk = 8 /\ i % Nk = 4 -> OfBytes(Te4, temp)
           [] OTHER -> temp)

NumRounds(keyBits) == (keyBits \div 32) + 6

rijndaelKeySetupEnc(cipherKey, keyBits) ==
  LET Nk == keyBits \div 32
      key == [i \in 1 .. Nk |-> Join(8, SubSeq(cipherKey, (4 * i) - 3, 4 * i))]
  IN Rounds(LAMBDA w, i : Append(w, KeyWord(w, i, Nk)), key,
            InOrder(Nk, 4 * NumRounds(keyBits) + 3))

\* The column of table entries that the bytes of one word select.
InverseMix(word) ==
  LET byte == Cut(8, 4, word)
  IN FoldSet(LAMBDA k, sum : Xor(Td[k + 1][Te4[byte[k + 1]]], sum), {}, 0 .. 3)

\* The same round keys in the opposite order, mixed but for the first and last.
rijndaelKeySetupDec(cipherKey, keyBits) ==
  LET rk == rijndaelKeySetupEnc(cipherKey, keyBits)
      Nr == NumRounds(keyBits)
      inverted(r) == LET words == RoundKey(rk, Nr - r)
                     IN IF r \in {0, Nr} THEN words
                        ELSE [j \in 1 .. 4 |-> InverseMix(words[j])]
  IN FlattenSeq([r \in 1 .. Nr + 1 |-> inverted(r - 1)])

\* Byte k of the word j + k of a state (enciphering) or j - k (deciphering).
Byte(s, j, k, way) == Cut(8, 4, s[1 + ((j + way * k) % 4)])[k + 1]

Enc == 1
Dec == 3

\* A full round before its key is added, and the last, which mixes nothing.
FullRound(s, T, way) ==
  [j \in 1 .. 4 |-> FoldSet(LAMBDA k, sum : Xor(T[k + 1][Byte(s, j - 1, k, way)], sum), {}, 0 .. 3)]

LastRound(s, T, way) ==
  [j \in 1 .. 4 |-> Join(8, [k \in 1 .. 4 |-> T[Byte(s, j - 1, k - 1, way)]])]

\* The state after the first key and n full rounds.
FullRounds(rk, T, way, block, n) ==
  Rounds(LAMBDA s, r : XorWords(FullRound(s, T, way), RoundKey(rk, r)),
         XorWords(GETU32(block), RoundKey(rk, 0)), InOrder(1, n))

rijndaelEncrypt(rk, Nr, pt) ==
  LET t == FullRounds(rk, Te, Enc, pt, Nr - 1)
  IN PUTU32(XorWords(LastRound(t, Te4, Enc), RoundKey(rk, Nr)))

rijndaelDecrypt(rk, Nr, ct) ==
  LET t == FullRounds(rk, Td, Dec, ct, Nr - 1)
  IN PUTU32(XorWords(LastRound(t, Td4, Dec), RoundKey(rk, Nr)))

\* Some of the rounds only, for tests of the states in between
\* (INTERMEDIATE_VALUE_KAT). Deciphering ends each round without its key.
rijndaelEncryptRound(rk, Nr, block, rounds) ==
  LET s == FullRounds(rk, Te, Enc, block, Min({rounds, Nr - 1}))
  IN PUTU32(IF rounds = Nr THEN XorWords(LastRound(s, Te4, Enc), RoundKey(rk, Nr)) ELSE s)

rijndaelDecryptRound(rk, Nr, block, rounds) ==
  LET s == FullRounds(rk, Td, Dec, block, Min({rounds, Nr}) - 1)
      t == LastRound(s, Td4, Dec)
  IN PUTU32(IF rounds = Nr THEN XorWords(t, RoundKey(rk, Nr)) ELSE t)
=============================================================================
