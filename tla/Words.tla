------------------------------- MODULE Words -------------------------------
(***************************************************************************)
(* Machine words, for the modules of the hashes and the ciphers. A word is *)
(* the set of its bits that are 1, so that and, or and exclusive or are    *)
(* operations on sets and a shift moves the members; an operator is told   *)
(* the width only where it matters. Bytes and the constants of the tables  *)
(* are numbers until they are joined to words: TLC has 32 bits, one too    *)
(* few for unsigned words.                                                 *)
(***************************************************************************)
EXTENDS Integers, Sequences, SequencesExt, FiniteSetsExt

TwoTo(i) == 2 ^ i

\* The word of a natural number below 2^31, and the number of a word of so many
\* bits, from the highest bit down.
Bits(n) == {i \in 0 .. 30 : (n \div TwoTo(i)) % 2 = 1}

NumberOf(width, x) ==
  LET top[k \in 0 .. width] ==
        IF k = 0 THEN 0 ELSE 2 * top[k - 1] + (IF width - k \in x THEN 1 ELSE 0)
  IN top[width]

\* The word made of digits of w bits, the most significant first, and the n
\* digits of w bits that a word is made of.
Join(w, digits) ==
  LET n == Len(digits)
  IN UNION {{w * (n - k) + i : i \in Bits(digits[k])} : k \in 1 .. n}

Cut(w, n, x) ==
  [k \in 1 .. n |-> NumberOf(w, {i \in 0 .. w - 1 : w * (n - k) + i \in x})]

Xor(x, y) == (x \ y) \cup (y \ x)

Not(width, x) == (0 .. width - 1) \ x

Shr(x, n) == {i - n : i \in {j \in x : j >= n}}

Shl(width, x, n) == {i + n : i \in {j \in x : j + n < width}}

Rotr(width, x, n) == {(i + width - n) % width : i \in x}

Rotl(width, x, n) == {(i + n) % width : i \in x}

\* The sum modulo 2^width: a carry reaches bit i from a bit below that both
\* words have, over bits that one of them has.
Plus(width, x, y) ==
  LET carry(i) == \E j \in x \cap y : j < i /\ j + 1 .. i - 1 \subseteq x \cup y
      both == Xor(x, y)
  IN {i \in 0 .. width - 1 : (i \in both) # carry(i)}

Sum32(s) == FoldLeft(LAMBDA x, y : Plus(32, x, y), {}, s)

\* The numbers from m to n in order.
InOrder(m, n) == [i \in 1 .. n - m + 1 |-> m + i - 1]

\* The sequence s in pieces of n entries; a rest shorter than n is left out.
Pieces(s, n) ==
  [k \in 1 .. Len(s) \div n |-> SubSeq(s, n * (k - 1) + 1, n * k)]

\* One round F after another over the entries of s, each on the finished
\* result of the round before. Eight rounds are folded at a time, which keeps
\* TLC's evaluation from nesting as deep as there are rounds.
Rounds(F(_, _), v, s) ==
  LET round(x, e) == CHOOSE y \in {F(u, e) : u \in {x}} : TRUE
      eight(x, piece) == CHOOSE y \in {FoldLeft(round, u, piece) : u \in {x}} : TRUE
      rest == SubSeq(s, 8 * (Len(s) \div 8) + 1, Len(s))
  IN FoldLeft(round, FoldLeft(eight, v, Pieces(s, 8)), rest)
=============================================================================
