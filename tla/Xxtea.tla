------------------------------- MODULE Xxtea -------------------------------
(***************************************************************************)
(* src/dll_src/crypt/src/tea.cpp: the block cipher XXTEA over n >= 2 words *)
(* of 32 bits, and its two primitives. y and z are the neighbours of the   *)
(* word a step changes; n comes in negative (as an unsigned number) for    *)
(* deciphering, which goes through the steps backwards.                    *)
(***************************************************************************)
EXTENDS Words

DELTA == Join(16, <<\h9e37, \h79b9>>)

Minus(x, y) == Sum32(<<x, Not(32, y), {0}>>)

\* What a step adds to word p (numbered from 0): sum is the multiple of DELTA
\* of its round.
MX(z, y, sum, p, k) ==
  LET e == NumberOf(2, Shr(sum, 2) \cap {0, 1})
      word == k[1 + NumberOf(2, Xor(Bits(p % 4), Bits(e)))]
  IN Xor(Plus(32, Xor(Shr(z, 5), Shl(32, y, 2)), Xor(Shr(y, 3), Shl(32, z, 4))),
         Plus(32, Xor(sum, y), Xor(word, z)))

NumRounds(n) == 6 + (52 \div n)

\* One step of enciphering: v[p] += MX, at the start of a round sum += DELTA.
Forward(x, p, k) ==
  LET n == Len(x.v)
      sum == IF p = 0 THEN Plus(32, x.sum, DELTA) ELSE x.sum
      z == x.v[1 + ((p + n - 1) % n)]
      y == x.v[1 + ((p + 1) % n)]
  IN [v |-> [x.v EXCEPT ![p + 1] = Plus(32, @, MX(z, y, sum, p, k))], sum |-> sum]

\* One step of deciphering: v[p] -= MX, at the end of a round sum -= DELTA.
Backward(x, p, k) ==
  LET n == Len(x.v)
      z == x.v[1 + ((p + n - 1) % n)]
      y == x.v[1 + ((p + 1) % n)]
  IN [v |-> [x.v EXCEPT ![p + 1] = Minus(@, MX(z, y, x.sum, p, k))],
      sum |-> IF p = 0 THEN Minus(x.sum, DELTA) ELSE x.sum]

xxtea(v, enciphers, k) ==
  LET n == Len(v)
      steps == NumRounds(n) * n
      sums == FoldLeft(LAMBDA sum, i : Plus(32, sum, DELTA), {}, InOrder(1, NumRounds(n)))
  IN IF n < 2 THEN v
     ELSE IF enciphers
       THEN Rounds(LAMBDA x, i : Forward(x, i % n, k), [v |-> v, sum |-> {}],
                   InOrder(0, steps - 1)).v
     ELSE Rounds(LAMBDA x, i : Backward(x, n - 1 - (i % n), k), [v |-> v, sum |-> sums],
                 InOrder(0, steps - 1)).v

\* What is wrong with the arguments, as the number the primitives throw for.
W_COUNT_MISMATCH == 2
W_NOT_INT32 == 3
W_DATA_LEN == 5

xxtea_make_array(words, count) ==
  CASE Len(words) # count -> W_COUNT_MISMATCH
    [] Len(words) = count /\ count < 2 -> W_DATA_LEN
    [] OTHER -> IF \E i \in 1 .. count : ~ (words[i] \subseteq 0 .. 31) THEN W_NOT_INT32 ELSE 0

\* The two primitives: no words are an empty string, others the bytes of the
\* result, the least significant byte of a word first.
xxtea_block(words, count, k, enciphers) ==
  LET error == xxtea_make_array(words, count)
      v == xxtea(words, enciphers, k)
  IN IF words = <<>> THEN [thrown |-> 0, out |-> <<>>]
     ELSE IF error # 0 THEN [thrown |-> error, out |-> <<>>]
     ELSE [thrown |-> 0, out |-> FlattenSeq([i \in 1 .. Len(v) |-> Reverse(Cut(8, 4, v[i]))])]

xxtea_encrypt_block(words, count, k) == xxtea_block(words, count, k, TRUE)

xxtea_decrypt_block(words, count, k) == xxtea_block(words, count, k, FALSE)
=============================================================================
