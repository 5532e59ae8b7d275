-------------------------------- MODULE Hash --------------------------------
(***************************************************************************)
(* src/dll_src/hash/src/sha1_lua_neko.c: the primitives of the hash        *)
(* library. A program makes a container with a hash of one kind, feeds it  *)
(* strings in any number of pieces and takes the digest; it may go on with *)
(* the container afterwards, which nothing in the code forbids. What is    *)
(* fed are the bytes 256, 257, ... in order, so that the blocks a hash     *)
(* works in show which bytes of the message they hold and where.           *)
(*                                                                         *)
(* The module also has nsha1, which digests any value of the Neko virtual  *)
(* machine by feeding SHA-1 with numbers and bytes on a walk through it.   *)
(* Type 5 stands for the MD5 context of md5.c, which the library contains  *)
(* and offers no primitive for.                                            *)
(***************************************************************************)
EXTENDS Sha2

CONSTANTS Lengths,   \* the lengths of the strings that are fed
          MaxBytes,  \* the bytes that are fed at most
          MaxFinals  \* the digests that are taken at most

S1 == INSTANCE Sha1
M5 == INSTANCE Md5

VARIABLES container, \* the type and the context; type 0 before sha_init
          given,     \* the bytes fed to it since it was made
          answer,    \* the last digest: the blocks behind it, the bytes fed before
          finals     \* the digests taken

Types == {1, 5} \cup DigestSizes

Message(from, n) == [i \in 1 .. n |-> 255 + from + i]

HashInit ==
  /\ container = [type |-> 0]
  /\ given = 0
  /\ answer = [blocks |-> <<>>, given |-> 0]
  /\ finals = 0

\* A container of the type asked for. Another number raises an exception (for
\* whose text the code reads the container it has just freed).
sha_init(type) ==
  /\ container.type = 0
  /\ container' = [type |-> type,
                   ctx |-> CASE type = 1 -> S1!SHA1Init
                             [] type = 5 -> M5!MD5_Init
                             [] type = 224 -> sha224_init
                             [] type = 256 -> sha256_init
                             [] type = 384 -> sha384_init
                             [] type = 512 -> sha512_init]
  /\ UNCHANGED <<given, answer, finals>>

sha_update(n) ==
  LET ctx == container.ctx
      type == container.type
      msg == Message(given, n)
  IN /\ type # 0
     /\ given + n <= MaxBytes
     /\ container' =
          [container EXCEPT !.ctx =
             CASE type = 1 -> S1!SHA1Update(ctx, msg)
               [] type = 5 -> M5!MD5_Update(ctx, msg)
               [] type = 224 -> sha224_update(ctx, msg)
               [] type = 256 -> sha256_update(ctx, msg)
               [] type = 384 -> sha384_update(ctx, msg)
               [] type = 512 -> sha512_update(ctx, msg)]
     /\ given' = given + n
     /\ UNCHANGED <<answer, finals>>

\* The digest. SHA-1 and MD5 wipe their contexts, the others keep the words of
\* the padded message: either way the container is not what sha_init made.
sha_final ==
  LET ctx == container.ctx
      type == container.type
      done == CASE type = 1 -> S1!SHA1Padded(ctx)
                [] type = 5 -> M5!MD5_Final(ctx)
                [] type = 224 -> sha224_final(ctx)
                [] type = 256 -> sha256_final(ctx)
                [] type = 384 -> sha384_final(ctx)
                [] type = 512 -> sha512_final(ctx)
  IN /\ type # 0
     /\ finals < MaxFinals
     /\ answer' = [blocks |-> done.h, given |-> given]
     /\ container' = [container EXCEPT !.ctx = CASE type = 1 -> S1!SHA1Wiped(done)
                                                 [] type = 5 -> M5!MD5_Wiped
                                                 [] OTHER -> done]
     /\ finals' = finals + 1
     /\ UNCHANGED given

HashNext ==
  \/ \E type \in Types : sha_init(type)
  \/ \E n \in Lengths : sha_update(n)
  \/ sha_final

-----------------------------------------------------------------------------
(***************************************************************************)
(* The walk of nsha1. A value is a record with its kind; an array or an    *)
(* object is a node of the heap, so that values can contain each other. cur*)
(* is the stack of the nodes the walk is in, the innermost first; what is  *)
(* fed is a sequence of numbers.                                           *)
(***************************************************************************)
Null == [kind |-> "null"]
Ref(node) == [kind |-> "ref", node |-> node]

\* The numbers and the bytes of the values that contain no other: an integer
\* is fed as it is tagged, a string as its bytes with no length.
Plain(v) ==
  CASE v.kind = "null" -> <<0>>
    [] v.kind = "int" -> <<2 * v.int + 1>>
    [] v.kind = "bool" -> <<IF v.bool THEN 8 ELSE 16>>
    [] v.kind = "string" -> v.bytes
    [] v.kind = "function" -> <<v.nargs * 8 + 4>>
    [] v.kind = "abstract" -> <<24>>

\* Where v is among the nodes the walk is in, and how its place is fed.
Around(v, cur) == {i \in 1 .. Len(cur) : cur[i] = v.node}

\* Slip: the place is counted from the inside.
SlipPlaceOf(v, cur) == (Min(Around(v, cur)) - 1) * 8 + 2

PlaceOf(v, cur) == (Len(cur) - Min(Around(v, cur))) * 8 + 2

RECURSIVE neko_sha1(_, _, _)
neko_sha1(heap, v, cur) ==
  LET loc == <<v.node>> \o cur
      object == heap[v.node]
      make_sha1_fields(field) == <<field.id>> \o neko_sha1(heap, field.value, loc)
      feed(s) == FlattenSeq(s)
  IN IF v.kind # "ref" THEN Plain(v)
     ELSE IF Around(v, cur) # {} THEN <<PlaceOf(v, cur)>>
     ELSE IF object.kind = "object"
       THEN feed([i \in 1 .. Len(object.fields) |-> make_sha1_fields(object.fields[i])])
            \o (IF object.proto = Null THEN <<>> ELSE neko_sha1(heap, object.proto, loc))
     ELSE LET len == Len(object.elements)
          IN << len * 8 + 6 >>
             \o feed([i \in 1 .. len |-> neko_sha1(heap, object.elements[len + 1 - i], loc)])
-----------------------------------------------------------------------------
\* What the standards say of a message of n bytes: the message, a 1 bit, zeros,
\* and its length in bits, in whole blocks.
PaddedMessage(type, n) ==
  LET size == IF type \in {384, 512} THEN 128 ELSE 64
      field == size \div 8
      zeros == CHOOSE k \in 0 .. size - 1 : (n + 1 + k + field) % size = 0
      length == [k \in 1 .. field - 4 |-> 0] \o Cut(8, 4, Bits(8 * n))
  IN Pieces(Message(0, n) \o <<128>> \o [k \in 1 .. zeros |-> 0]
            \o (IF type = 5 THEN Reverse(length) ELSE length), size)

\* The first digest taken of a container is that of the whole message that was
\* fed, in however many pieces and of whatever lengths: no byte is lost, fed
\* twice or moved at the edge of a block, and the padding is the standard's.
DigestOfMessage ==
  finals = 1 => answer.blocks = PaddedMessage(container.type, answer.given)
=============================================================================
