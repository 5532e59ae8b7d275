------------------------------- MODULE Crypt -------------------------------
(***************************************************************************)
(* src/dll_src/crypt/src/aes_lua_neko.cpp: the primitives of the cipher    *)
(* library, and two programs that send each other enciphered messages. The *)
(* programs either use the primitives (~reused), which make a cipher       *)
(* instance for every call, or the functions below them with one instance  *)
(* each (reused). A message is padded, which the primitives always do, or  *)
(* made of whole blocks. Between them blocks may be damaged.               *)
(***************************************************************************)
EXTENDS RijndaelApi, FiniteSets

CONSTANTS Messages,  \* the messages that are sent
          MaxSent,   \* messages sent at most
          MaxDamage, \* blocks damaged at most
          Damages    \* what a damaged block can become

VARIABLES mode, reused, padded, \* how the programs use the library
          enc, dec,             \* the IVs of the two instances
          text,                 \* the messages that were sent
          wire,                 \* the enciphered messages that are under way
          hurt,                 \* <<message, block>> of the damaged blocks
          got                   \* the answers of deciphering, in their order

cryptVars == <<mode, reused, padded, enc, dec, text, wire, hurt, got>>

Key(direction) == memToKey(direction, 128, <<1>>)

Byte == 0 .. TwoTo(Width) - 1

\* A byte can hold the number of the bytes of a block. Under one key deciphering a
\* block undoes enciphering it, and a key made for either direction holds the
\* schedule for enciphering, which CFB1 takes for both (key->ek). A message
\* has at least one byte: the primitives refuse an empty one.
ASSUME CryptConstants ==
  /\ Size \in Nat \ {0} /\ Width \in 1 .. 30 /\ Size \in Byte
  /\ \A block \in SUBSET (0 .. BlockBits - 1) :
       /\ Encipher(Key("ENCRYPT"), block) \subseteq 0 .. BlockBits - 1
       /\ Decipher(Key("DECRYPT"), block) \subseteq 0 .. BlockBits - 1
       /\ Decipher(Key("DECRYPT"), Encipher(Key("ENCRYPT"), block)) = block
       /\ Encipher(Key("ENCRYPT"), Decipher(Key("DECRYPT"), block)) = block
       /\ Encipher(Key("DECRYPT"), block) = Encipher(Key("ENCRYPT"), block)
  /\ Messages \subseteq Seq(Byte) \ {<<>>}
  /\ Damages \subseteq [1 .. Size -> Byte]
  /\ {MaxSent, MaxDamage} \subseteq Nat

\* A buffer for a message and its padding: two blocks more than its whole ones.
aes_prepare_pad_buffer(len) == Size * ((len \div Size) + 2)

\* One call with a new instance and no IV.
aes_generic(m, key, input) ==
  IF cipherInit(m, <<>>).ret # "ok" THEN Fails("failure", {})
  ELSE IF key.direction = "ENCRYPT" THEN padEncrypt(cipherInit(m, <<>>), key, input)
  ELSE padDecrypt(cipherInit(m, <<>>), key, input)

\* What both primitives ask of their arguments.
ArgError(pass, msg, unit, keyLen) ==
  CASE pass = <<>> -> "Key is null"
    [] pass # <<>> /\ msg = <<>> -> "Message is null"
    [] pass # <<>> /\ Len(msg) % unit # 0 -> "Buffer is not a multiple of the aes block size"
    [] OTHER -> IF keyLen \in {128, 192, 256} THEN "ok" ELSE "Invalid key length"

\* An error and an empty result are the same to a primitive: it throws.
Thrown(answer, failure) == IF answer.out = <<>> THEN Fails(failure, {}) ELSE answer

naes_encrypt(m, pass, msg, keyLen) ==
  IF ArgError(pass, msg, 1, keyLen) # "ok" THEN Fails(ArgError(pass, msg, 1, keyLen), {})
  ELSE Thrown(aes_generic(m, memToKey("ENCRYPT", keyLen, pass), msg), "encryption failure")

naes_decrypt(m, pass, msg, keyLen) ==
  IF ArgError(pass, msg, Size, keyLen) # "ok" THEN Fails(ArgError(pass, msg, Size, keyLen), {})
  ELSE Thrown(aes_generic(m, memToKey("DECRYPT", keyLen, pass), msg), "Decryption failure")

\* A key for single blocks, and its two uses.
aes_create_key(forEncrypt, keyLen, keyMaterial) ==
  IF keyLen \notin {128, 192, 256} THEN [ret |-> "Invalid key length"]
  ELSE IF keyMaterial = <<>> THEN [ret |-> "No key material"]
  ELSE memToKey(IF forEncrypt THEN "ENCRYPT" ELSE "DECRYPT", keyLen, keyMaterial)

aes_encrypt_block(key, sBlock) ==
  IF Len(sBlock) # Size THEN Fails("block size incorrect", {})
  ELSE IF key.direction # "ENCRYPT" THEN Fails("not an encryption key", {})
  ELSE Done(Cut(Width, Size, Encipher(key, Block(sBlock))), {})

aes_decrypt_block(key, sBlock) ==
  IF Len(sBlock) # Size THEN Fails("block size incorrect", {})
  ELSE IF key.direction # "DECRYPT" THEN Fails("not a decryption key", {})
  ELSE Done(Cut(Width, Size, Decipher(key, Block(sBlock))), {})
-----------------------------------------------------------------------------
CryptInit ==
  /\ mode \in {"ECB", "CBC", "CFB1"}
  /\ reused \in BOOLEAN
  /\ padded \in BOOLEAN
  /\ padded => mode # "CFB1"
  /\ padded \/ reused
  /\ enc = {} /\ dec = {}
  /\ text = <<>> /\ wire = <<>> /\ got = <<>>
  /\ hurt = {}

\* The answer of the library to a call of the program.
Enciphered(m) ==
  IF ~ reused THEN naes_encrypt(mode, <<1>>, m, 128)
  ELSE IF padded THEN padEncrypt([mode |-> mode, IV |-> enc], Key("ENCRYPT"), m)
  ELSE blockEncrypt([mode |-> mode, IV |-> enc], Key("ENCRYPT"), m)

Deciphered(c) ==
  IF ~ reused THEN naes_decrypt(mode, <<1>>, c, 128)
  ELSE IF padded THEN padDecrypt([mode |-> mode, IV |-> dec], Key("DECRYPT"), c)
  ELSE blockDecrypt([mode |-> mode, IV |-> dec], Key("DECRYPT"), c)

Encrypt(m) ==
  /\ Len(text) < MaxSent
  /\ padded \/ Len(m) % Size = 0
  /\ \E answer \in {Enciphered(m)} :
       /\ wire' = Append(wire, answer.out)
       /\ enc' = IF reused THEN answer.IV ELSE enc
  /\ text' = Append(text, m)
  /\ UNCHANGED <<mode, reused, padded, dec, hurt, got>>

Decrypt ==
  /\ wire # <<>>
  /\ \E answer \in {Deciphered(Head(wire))} :
       /\ got' = Append(got, [ret |-> answer.ret, out |-> answer.out, of |-> Head(wire)])
       /\ dec' = IF reused THEN answer.IV ELSE dec
  /\ wire' = Tail(wire)
  /\ UNCHANGED <<mode, reused, padded, enc, text, hurt>>

\* Block i of the j-th message under way becomes another.
Damage(j, i, block) ==
  LET place == Size * (i - 1)
      old == wire[j]
      new == SubSeq(old, 1, place) \o block \o SubSeq(old, place + Size + 1, Len(old))
  IN /\ Cardinality(hurt) < MaxDamage
     /\ place + Size <= Len(old)
     /\ SubSeq(old, place + 1, place + Size) # block
     /\ wire' = [wire EXCEPT ![j] = new]
     /\ hurt' = hurt \cup {<<Len(got) + j, i>>}
     /\ UNCHANGED <<mode, reused, padded, enc, dec, text, got>>

CryptNext ==
  \/ \E m \in Messages : Encrypt(m)
  \/ Decrypt
  \/ \E j \in 1 .. Len(wire), i \in 1 .. 3, block \in Damages : Damage(j, i, block)

CryptSpec == CryptInit /\ [][CryptNext]_cryptVars
-----------------------------------------------------------------------------
\* What is enciphered is deciphered to the same messages in the same order, in
\* every mode and however often an instance is used. CBC with instances that
\* are reused is the exception: the deciphering side moves its IV on with every
\* call, the enciphering side never does.
RoundTrip ==
  hurt = {} /\ (reused => mode # "CBC") =>
    \A j \in 1 .. Len(got) : got[j].ret = "ok" /\ got[j].out = text[j]

\* The blocks on which the plain text of block i of message j depends.
Behind(j, i) ==
  {<<j, i>>} \cup (IF mode = "ECB" THEN {}
                   ELSE IF i > 1 THEN {<<j, i - 1>>}
                   ELSE IF j > 1 THEN {<<j - 1, Len(Blocks(text[j - 1]))>>} ELSE {})

\* A damaged block spoils itself and at most the one behind it. CFB1 finds its
\* way back even from one message to the next; CBC is asked within a message.
DamageIsLocal ==
  ~ padded =>
    \A j \in 1 .. Len(got) : \A i \in 1 .. Len(Blocks(text[j])) :
      (mode = "CBC" => i > 1 \/ j = 1) /\ hurt \cap Behind(j, i) = {} =>
        Blocks(got[j].out)[i] = Blocks(text[j])[i]

\* Padding that is taken off is padding: enciphering the answer again gives the
\* very blocks that were deciphered, also when these were damaged and the
\* answer is not the message. ECB takes a last byte of 0 for no padding. With its
\* padding a message has room in the buffer that is made for it.
PaddingIsExact ==
  padded /\ ~ reused =>
    /\ \A j \in 1 .. Len(wire) :
         Len(wire[j]) <= aes_prepare_pad_buffer(Len(text[Len(got) + j]))
    /\ \A j \in 1 .. Len(got) :
         got[j].ret = "ok" /\ (mode = "ECB" => Len(got[j].out) < Len(got[j].of)) =>
           Enciphered(got[j].out).out = got[j].of
=============================================================================
