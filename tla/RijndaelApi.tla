---------------------------- MODULE RijndaelApi ----------------------------
(***************************************************************************)
(* src/dll_src/crypt/src/rijndael-api-fst.cpp: keys, modes and padding, for*)
(* any block cipher. A block is a word (a set of bits) of Size bytes of    *)
(* Width bits, a message a sequence of bytes, a cipher instance a record of*)
(* its mode and its IV. A call returns a record: ret, "ok" or the name of  *)
(* the error, out, the bytes it leaves in the output buffer, and IV, what  *)
(* it leaves in the instance.                                              *)
(***************************************************************************)
EXTENDS Words

CONSTANTS Size,            \* bytes of a block: 16
          Width,           \* bits of a byte: 8
          Encipher(_, _),  \* rijndaelEncrypt of a block under a key
          Decipher(_, _)   \* rijndaelDecrypt

BlockBits == Size * Width
MAXKB == 32

Block(bytes) == Join(Width, bytes)
Blocks(input) == LET pieces == Pieces(input, Size)
                 IN [i \in 1 .. Len(pieces) |-> Block(pieces[i])]
Bytes(blocks) ==
  LET cut == [j \in 1 .. Len(blocks) |-> Cut(Width, Size, blocks[j])]
  IN [i \in 1 .. Size * Len(blocks) |-> cut[((i - 1) \div Size) + 1][((i - 1) % Size) + 1]]

\* The key material that is used: zeros behind a short one, and nothing behind
\* the 32nd byte.
memToKey(direction, keyLen, mem) ==
  [ret |-> IF direction \notin {"ENCRYPT", "DECRYPT"} THEN "BAD_KEY_DIR"
           ELSE IF keyLen \notin {128, 192, 256} THEN "BAD_KEY_MAT" ELSE "ok",
   direction |-> direction, keyLen |-> keyLen,
   cipherKey |-> [i \in 1 .. MAXKB |-> IF i <= Len(mem) THEN mem[i] ELSE 0]]

Digit ==
  LET lower == <<"0", "1", "2", "3", "4", "5", "6", "7", "8", "9", "a", "b", "c", "d", "e", "f">>
      upper == <<"A", "B", "C", "D", "E", "F">>
      value(c) == IF \E i \in 1 .. 16 : lower[i] = c THEN (CHOOSE i \in 1 .. 16 : lower[i] = c) - 1
                  ELSE (CHOOSE i \in 1 .. 6 : upper[i] = c) + 9
  IN [c \in ToSet(lower) \cup ToSet(upper) |-> value(c)]

\* n bytes of two digits each; the first that is no digit fails the call.
IsHex(text, n) == \A i \in 1 .. 2 * n : text[i] \in DOMAIN Digit
FromHex(text, n) ==
  [i \in 1 .. n |-> 16 * Digit[text[(2 * i) - 1]] + Digit[text[2 * i]]]

makeKey(direction, keyLen, keyMaterial) ==
  LET key == memToKey(direction, keyLen, <<>>)
  IN IF key.ret # "ok" THEN key
     ELSE IF ~ IsHex(keyMaterial, keyLen \div 8) THEN [key EXCEPT !.ret = "BAD_KEY_MAT"]
     ELSE memToKey(direction, keyLen, FromHex(keyMaterial, keyLen \div 8))

\* No text stands for the null pointer: an IV of zeros.
cipherInit(mode, IV) ==
  [ret |-> IF mode \notin {"ECB", "CBC", "CFB1"} THEN "BAD_CIPHER_MODE"
           ELSE IF IV # <<>> /\ ~ IsHex(IV, Size) THEN "BAD_CIPHER_INSTANCE" ELSE "ok",
   mode |-> mode,
   IV |-> IF IV = <<>> \/ ~ IsHex(IV, Size) THEN {} ELSE Block(FromHex(IV, Size))]

Fails(error, IV) == [ret |-> error, out |-> <<>>, IV |-> IV]
Done(out, IV) == [ret |-> "ok", out |-> out, IV |-> IV]

ecbEncrypt(key, blocks) == [i \in 1 .. Len(blocks) |-> Encipher(key, blocks[i])]

\* Each block is combined with the enciphered block before it.
cbcEncrypt(key, IV, blocks) ==
  LET c[i \in 0 .. Len(blocks)] == IF i = 0 THEN IV ELSE Encipher(key, Xor(blocks[i], c[i - 1]))
  IN [i \in 1 .. Len(blocks) |-> c[i]]

\* Slip: the bit of the plain text moves into the register.
SlipcfbBit(key, v, k, enciphers) ==
  LET i == BlockBits - 1 - k
      bit == (i \in v.in) # (BlockBits - 1 \in Encipher(key, v.IV))
      fed == IF enciphers THEN i \in v.in ELSE bit
  IN [v EXCEPT !.out = IF bit THEN @ \cup {i} ELSE @,
               !.IV = Shl(BlockBits, @, 1) \cup (IF fed THEN {0} ELSE {})]

\* Bit k of a block, from the top: it is combined with the top bit of the
\* enciphered register, and the enciphered of the two moves into the register.
cfbBit(key, v, k, enciphers) ==
  LET i == BlockBits - 1 - k
      bit == (i \in v.in) # (BlockBits - 1 \in Encipher(key, v.IV))
      fed == IF enciphers THEN bit ELSE i \in v.in
  IN [v EXCEPT !.out = IF bit THEN @ \cup {i} ELSE @,
               !.IV = Shl(BlockBits, @, 1) \cup (IF fed THEN {0} ELSE {})]

cfbBlock(key, block, IV, enciphers) ==
  LET v[k \in 0 .. BlockBits] ==
        IF k = 0 THEN [in |-> block, out |-> {}, IV |-> IV]
        ELSE cfbBit(key, v[k - 1], k - 1, enciphers)
  IN v[BlockBits]

cfb(key, IV, blocks, enciphers) ==
  LET v[i \in 0 .. Len(blocks)] ==
        IF i = 0 THEN [out |-> {}, IV |-> IV]
        ELSE cfbBlock(key, blocks[i], v[i - 1].IV, enciphers)
  IN [out |-> [i \in 1 .. Len(blocks) |-> v[i].out], IV |-> v[Len(blocks)].IV]

\* What a mode makes of blocks, in a record of their bytes and the IV it leaves:
\* CBC leaves that of the instance when it enciphers, CFB1 moves it on.
Moved(v) == Done(Bytes(v.out), v.IV)

Enciphering(cipher, key, blocks) ==
  IF cipher.mode = "CFB1" THEN Moved(cfb(key, cipher.IV, blocks, TRUE))
  ELSE Done(Bytes(IF cipher.mode = "ECB" THEN ecbEncrypt(key, blocks)
                  ELSE cbcEncrypt(key, cipher.IV, blocks)), cipher.IV)

\* Whole blocks; a rest of the input is left out.
blockEncrypt(cipher, key, input) ==
  IF key.direction = "DECRYPT" THEN Fails("BAD_CIPHER_STATE", cipher.IV)
  ELSE Enciphering(cipher, key, Blocks(input))

\* 1 to Size bytes of padding, each of them the number of these bytes.
Padded(input) ==
  LET padLen == Size - (Len(input) % Size)
  IN input \o [i \in 1 .. padLen |-> padLen]

padEncrypt(cipher, key, input) ==
  IF key.direction = "DECRYPT" \/ (input # <<>> /\ cipher.mode \notin {"ECB", "CBC"})
    THEN Fails("BAD_CIPHER_STATE", cipher.IV)
  ELSE IF input = <<>> THEN Done(<<>>, cipher.IV)
  ELSE Enciphering(cipher, key, Blocks(Padded(input)))

\* Slip: the block is written before the IV is taken from its place.
SlipcbcBlock(key, v, i) ==
  LET block == Xor(Decipher(key, v.out[i]), v.IV)
  IN [out |-> [v.out EXCEPT ![i] = block], IV |-> block]

\* Block i of a buffer that is deciphered where it stands: the enciphered
\* block becomes the IV before it is overwritten.
cbcBlock(key, v, i) ==
  [out |-> [v.out EXCEPT ![i] = Xor(Decipher(key, v.out[i]), v.IV)], IV |-> v.out[i]]

cbcDecrypt(key, IV, blocks) ==
  LET v[i \in 0 .. Len(blocks)] ==
        IF i = 0 THEN [out |-> blocks, IV |-> IV] ELSE cbcBlock(key, v[i - 1], i)
  IN v[Len(blocks)]

Deciphering(cipher, key, blocks) ==
  CASE cipher.mode = "ECB" -> Done(Bytes([i \in 1 .. Len(blocks) |-> Decipher(key, blocks[i])]),
                                   cipher.IV)
    [] cipher.mode = "CBC" -> Moved(cbcDecrypt(key, cipher.IV, blocks))
    [] cipher.mode = "CFB1" -> Moved(cfb(key, cipher.IV, blocks, FALSE))

blockDecrypt(cipher, key, input) ==
  IF cipher.mode # "CFB1" /\ key.direction = "ENCRYPT" THEN Fails("BAD_CIPHER_STATE", cipher.IV)
  ELSE Deciphering(cipher, key, Blocks(input))

\* Slip: only the last byte of the padding is looked at.
SlipPadError(mode, plain) == IF Last(plain) > Size THEN "BAD_DATA" ELSE "ok"

\* What padDecrypt finds of the padding: ECB lets a length of 0 pass.
PadError(mode, plain) ==
  LET padLen == Last(plain)
  IN IF padLen > Size \/ (padLen = 0 /\ mode = "CBC") THEN "BAD_DATA"
     ELSE IF \A i \in Len(plain) + 1 - padLen .. Len(plain) : plain[i] = padLen THEN "ok"
     ELSE IF mode = "CBC" THEN "BAD_DATA" ELSE "BAD_PADBYTES"

\* The padding is taken off when it is right. The IV moves with every block
\* but the last, whether or not it is.
Unpadded(mode, plain, IV) ==
  IF PadError(mode, plain) # "ok" THEN Fails(PadError(mode, plain), IV)
  ELSE Done(SubSeq(plain, 1, Len(plain) - Last(plain)), IV)

padDecrypt(cipher, key, input) ==
  CASE key.direction = "ENCRYPT" -> Fails("BAD_CIPHER_STATE", cipher.IV)
    [] key.direction # "ENCRYPT" /\ input = <<>> -> Done(<<>>, cipher.IV)
    [] key.direction # "ENCRYPT" /\ Len(input) % Size # 0 -> Fails("BAD_DATA", cipher.IV)
    [] OTHER ->
         IF cipher.mode \notin {"ECB", "CBC"} THEN Fails("BAD_CIPHER_STATE", cipher.IV)
         ELSE Unpadded(cipher.mode, Deciphering(cipher, key, Blocks(input)).out,
                       Deciphering(cipher, key, Front(Blocks(input))).IV)
=============================================================================
