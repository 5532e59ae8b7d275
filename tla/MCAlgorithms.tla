---------------------------- MODULE MCAlgorithms ----------------------------
(***************************************************************************)
(* The sequential parts for TLC: Hash, Crypt, UdprThrottle, Http, LuaTable *)
(* and LuaGc. A behaviour is one of a part, and the others keep an initial *)
(* state. The                                                              *)
(* hashes are fed with strings that end before, at and behind the edges of *)
(* blocks, with the validation messages of the sources and with the walk   *)
(* of nsha1 through every small heap. The modes of a cipher are used with  *)
(* blocks of two bytes of two bits and a block cipher that is a table, so  *)
(* that every block is tried; the same modules with AES, and XXTEA, are    *)
(* held against published answers.                                         *)
(***************************************************************************)
EXTENDS Hash, Crypt, UdprThrottle, MCHttp, MCLuaHeap

VARIABLE part

A == INSTANCE Rijndael
X == INSTANCE Xxtea

hashVars == <<container, given, answer, finals>>

NoCrypt ==
  /\ mode = "none" /\ reused = FALSE /\ padded = FALSE /\ enc = {} /\ dec = {}
  /\ text = <<>> /\ wire = <<>> /\ hurt = {} /\ got = <<>>

Init ==
  /\ part \in {"hash", "crypt", "throttle", "http", "table", "collector"}
  /\ HashInit /\ HttpInit
  /\ (part = "crypt" /\ CryptInit) \/ (part # "crypt" /\ NoCrypt)
  /\ (part = "throttle" /\ ThrottleInit) \/ (part # "throttle" /\ NoThrottle)
  /\ (part = "table" /\ TableInit) \/ (part # "table" /\ NoTable)
  /\ (part = "collector" /\ GcInit) \/ (part # "collector" /\ NoProgram)

Next ==
  /\ \/ part = "hash" /\ HashNext /\ UNCHANGED <<cryptVars, throttleVars, httpVars, tableVars, gcVars>>
     \/ part = "crypt" /\ CryptNext /\ UNCHANGED <<hashVars, throttleVars, httpVars, tableVars, gcVars>>
     \/ part = "throttle" /\ ThrottleNext /\ UNCHANGED <<hashVars, cryptVars, httpVars, tableVars, gcVars>>
     \/ part = "http" /\ HttpNext /\ UNCHANGED <<hashVars, cryptVars, throttleVars, tableVars, gcVars>>
     \/ part = "table" /\ TableNext /\ UNCHANGED <<hashVars, cryptVars, throttleVars, httpVars, gcVars>>
     \/ part = "collector" /\ GcNext /\ UNCHANGED <<hashVars, cryptVars, throttleVars, httpVars, tableVars>>
  /\ UNCHANGED part

Spec == Init /\ [][Next]_<<hashVars, cryptVars, throttleVars, httpVars, tableVars, gcVars, part>>

-----------------------------------------------------------------------------
MCLengths == {0, 9, 55, 64, 65, 111, 130}

\* The answer to a message as the bytes of halves of words.
HalfBytes(halves) == FlattenSeq([i \in 1 .. Len(halves) |-> Cut(8, 2, Bits(halves[i]))])

Gives(hash(_), messages, answers) ==
  \A i \in 1 .. 2 : hash(messages[i]) = HalfBytes(answers[i])

\* The digests of the messages that the sources give with their answers
\* (sha2.c:850, sha1.c:7; RFC 1321 for MD5) are these answers: the tables,
\* the schedules and the rounds are right, over one block and over two.
DigestAnswers ==
  given = 0 /\ finals = 0 =>
    CASE container.type = 224 -> Gives(sha224, <<message1, message2a>>, vectors[224])
      [] container.type = 256 -> Gives(sha256, <<message1, message2a>>, vectors[256])
      [] container.type = 384 -> Gives(sha384, <<message1, message2b>>, vectors[384])
      [] container.type = 512 -> Gives(sha512, <<message1, message2b>>, vectors[512])
      [] container.type = 1 ->
           /\ S1!SHA1(message1, 2) =
                HalfBytes(<<\ha999, \h3e36, \h4706, \h816a, \hba3e, \h2571, \h7850, \hc26c,
                        \h9cd0, \hd89d>>)
           /\ S1!SHA1(message2a, 20) =
                HalfBytes(<<\h8498, \h3e44, \h1c3b, \hd26e, \hbaae, \h4aa1, \hf951, \h29e5,
                        \he546, \h70f1>>)
      [] container.type = 5 ->
           M5!MD5Digest(M5!MD5_Final(M5!MD5_Update(M5!MD5_Init, message1))) =
             HalfBytes(<<\h9001, \h5098, \h3cd2, \h4fb0, \hd696, \h3f7d, \h28e1, \h7f72>>)
      [] OTHER -> TRUE

-----------------------------------------------------------------------------
NodeValues == {Null, Ref(1), Ref(2), Ref(3)}

Nodes ==
  {[kind |-> "array", elements |-> s] : s \in UNION {[1 .. n -> NodeValues] : n \in 0 .. 2}}
  \cup {[kind |-> "object", fields |-> <<[id |-> 70, value |-> v]>>, proto |-> next] :
          v \in NodeValues, next \in {Null, Ref(3)}}

Leaf == [kind |-> "array", elements |-> <<Null>>]

Heaps == {<<one, two, Leaf>> : one \in Nodes, two \in Nodes}

\* A value fed as the tree of what it holds; path leads to it from the root,
\* and a node on the path is named by its place there.
RECURSIVE Tree(_, _, _)
Tree(heap, v, path) ==
  LET node == heap[v.node]
      on == {i \in 1 .. Len(path) : path[i] = v.node}
      below(w) == Tree(heap, w, Append(path, v.node))
      fields == [i \in 1 .. Len(node.fields) |-> <<node.fields[i].id>> \o below(node.fields[i].value)]
      elements == [i \in 1 .. Len(node.elements) |-> below(node.elements[i])]
  IN IF v.kind # "ref" THEN Plain(v)
     ELSE IF on # {} THEN << 2 + 8 * (Min(on) - 1) >>
     ELSE IF node.kind = "array"
       THEN <<6 + 8 * Len(elements)>> \o FlattenSeq(Reverse(elements))
     ELSE FlattenSeq(fields) \o (IF node.proto = Null THEN <<>> ELSE below(node.proto))

\* nsha1 tells values apart by what they hold and not by what they share: an
\* array met twice is fed twice, as if it were copied, unless it contains
\* itself. There the walk ends with the place of the node around it.
SharingIsInvisible ==
  part = "hash" /\ container.type = 0 =>
    \A heap \in Heaps : neko_sha1(heap, Ref(1), <<>>) = Tree(heap, Ref(1), <<>>)

-----------------------------------------------------------------------------
\* A permutation of the blocks that no exclusive or commutes with.
Table == <<12, 5, 6, 11, 9, 0, 10, 13, 3, 14, 15, 8, 4, 7, 1, 2>>

MCEncipher(key, block) == Bits(Table[NumberOf(4, block) + 1])
MCDecipher(key, block) == Bits((CHOOSE n \in 1 .. 16 : Table[n] = NumberOf(4, block)) - 1)

MCMessages == {<<1>>, <<0, 3>>, <<2, 2>>, <<1, 1, 1>>, <<3, 0, 2, 1>>}

MCDamages == {<<0, 0>>, <<3, 1>>, <<0, 2>>}

-----------------------------------------------------------------------------
AesEncipher(key, block) ==
  Join(8, A!rijndaelEncrypt(A!rijndaelKeySetupEnc(key.cipherKey, key.keyLen),
                            A!NumRounds(key.keyLen), Cut(8, 16, block)))

AesDecipher(key, block) ==
  Join(8, A!rijndaelDecrypt(A!rijndaelKeySetupDec(key.cipherKey, key.keyLen),
                            A!NumRounds(key.keyLen), Cut(8, 16, block)))

Aes == INSTANCE Crypt WITH Size <- 16, Width <- 8, Encipher <- AesEncipher, Decipher <- AesDecipher

\* The state in which a question about the ciphers alone is asked.
Once == mode = "ECB" /\ padded /\ reused /\ text = <<>>

\* The block and the keys of the examples of FIPS 197, and their answers.
PlainBlock == [i \in 1 .. 16 |-> 17 * (i - 1)]
Material(keyLen) == [i \in 1 .. keyLen \div 8 |-> i - 1]
KeyLens == {128, 192, 256}

HexText(bytes) ==
  LET digit == <<"0", "1", "2", "3", "4", "5", "6", "7", "8", "9", "A", "b", "c", "D", "e", "f">>
  IN FlattenSeq([i \in 1 .. Len(bytes) |-> <<digit[1 + (bytes[i] \div 16)], digit[1 + (bytes[i] % 16)]>>])

Answer(keyLen) ==
  CASE keyLen = 128 -> <<\h69, \hc4, \he0, \hd8, \h6a, \h7b, \h04, \h30,
                         \hd8, \hcd, \hb7, \h80, \h70, \hb4, \hc5, \h5a>>
    [] keyLen = 192 -> <<\hdd, \ha9, \h7c, \ha4, \h86, \h4c, \hdf, \he0,
                         \h6e, \haf, \h70, \ha0, \hec, \h0d, \h71, \h91>>
    [] keyLen = 256 -> <<\h8e, \ha2, \hb7, \hca, \h51, \h67, \h45, \hbf,
                         \hea, \hfc, \h49, \h90, \h4b, \h49, \h60, \h89>>

\* The primitives encipher the blocks of FIPS 197 to its answers and back, with
\* keys of each length, given as bytes or as text: the tables, the schedules and the rounds are right. And
\* enciphering for n of the rounds and deciphering for the others meet in the
\* same state, whether n is small or large.
CipherAnswers ==
  Once => \A keyLen \in KeyLens :
    LET rk == A!rijndaelKeySetupEnc(Material(keyLen), keyLen)
        dk == A!rijndaelKeySetupDec(Material(keyLen), keyLen)
        Nr == A!NumRounds(keyLen)
        key == Aes!aes_create_key(TRUE, keyLen, Material(keyLen))
    IN /\ Aes!makeKey("ENCRYPT", keyLen, HexText(Material(keyLen))) = key
       /\ Aes!makeKey("ENCRYPT", keyLen, [HexText(Material(keyLen)) EXCEPT ![9] = "g"]).ret # "ok"
       /\ Aes!aes_encrypt_block(key, PlainBlock).out = Answer(keyLen)
       /\ Aes!aes_decrypt_block(Aes!aes_create_key(FALSE, keyLen, Material(keyLen)),
                                Answer(keyLen)).out = PlainBlock
       /\ A!rijndaelEncryptRound(rk, Nr, PlainBlock, Nr) = Answer(keyLen)
       /\ \A n \in {1, Nr \div 2, Nr - 1} :
            A!rijndaelDecryptRound(dk, Nr, Answer(keyLen), Nr - n) =
              A!rijndaelEncryptRound(rk, Nr, PlainBlock, n)

\* The words of a string of bytes, the least significant byte first.
WordsOf(bytes) == [i \in 1 .. Len(bytes) \div 4 |->
                  Join(8, Reverse(SubSeq(bytes, (4 * i) - 3, 4 * i)))]

\* XXTEA is undone by going through its steps backwards, whatever the number
\* of words and so of rounds: what xxtea_decrypt_block returns for the result
\* of xxtea_encrypt_block are the bytes of the words that went in.
XxteaRoundTrip ==
  Once => \A n \in {2, 3, 5, 13} :
    LET k == WordsOf([i \in 1 .. 16 |-> 13 * i])
        bytes == [i \in 1 .. 4 * n |-> (37 * i * i) % 256]
        out == X!xxtea_encrypt_block(WordsOf(bytes), n, k).out
    IN X!xxtea_decrypt_block(WordsOf(out), n, k) = [thrown |-> 0, out |-> bytes]

\* The answers that are published, of the hashes and of the cipher; XXTEA, of
\* which none is, undoes itself.
KnownAnswers == DigestAnswers /\ CipherAnswers /\ XxteaRoundTrip

-----------------------------------------------------------------------------
\* Three peers in ascending order of what they announced: without limits, with one on
\* the way to the host, or with both.
MCLines ==
  LET line == <<<<0, 0>>, <<0, 60>>, <<20, 10>>, <<60, 60>>>>
  IN {<<line[c[1]], line[c[2]], line[c[3]]>> :
        c \in {c \in [1 .. 3 -> 1 .. 4] : c[1] <= c[2] /\ c[2] <= c[3]}}
=============================================================================
