------------------------------ MODULE LuaCheck ------------------------------
(***************************************************************************)
(* src/projects/halelua/src/ldebug.c: what luaG_checkcode asks of the code *)
(* of a function. The compiler asserts it of every function it closes, and *)
(* a chunk that was dumped is refused as bad code without it.              *)
(***************************************************************************)
EXTENDS LuaCode

\* opmode of lopcodes.c: the modes of the operands b and c of an instruction.
\* R: a register, K: a register or a constant, U: used in another way, N: none.
RK_RK == Range(Arithmetic) \cup {"SETTABLE", "EQ", "LT", "LE"}
R_N == {"MOVE", "LOADNIL", "BNOT", "UNM", "NOT", "LEN"}
R_K == {"GETTABLE", "SELF"}
U_N == {"GETUPVAL", "SETUPVAL", "RETURN", "VARARG"}
R_U == {"TEST", "TESTSET"}
N_N == {"EXITTRY", "RETFIN", "CLOSE"}
U_U == {"LOADBOOL", "NEWTABLE", "CALL", "TAILCALL", "SETLIST"}
Jumping == {"JMP", "TRY", "TRYCATCH", "TRYFIN", "FORLOOP", "FORPREP"}

getBMode(op) ==
  CASE op \in RK_RK -> "K" [] op \in R_N \cup R_K \cup R_U \cup {"CONCAT"} -> "R"
    [] op \in U_N \cup U_U -> "U" [] op \in N_N \cup {"TFORLOOP"} -> "N"
getCMode(op) ==
  CASE op \in RK_RK \cup R_K -> "K" [] op = "CONCAT" -> "R"
    [] op \in R_U \cup U_U \cup {"TFORLOOP"} -> "U" [] op \in R_N \cup U_N \cup N_N -> "N"

CheckReg(pt, reg) == reg < pt.maxstacksize

checkArgMode(pt, r, mode) ==
  CASE mode = "N" -> r = 0
    [] mode = "U" -> TRUE
    [] mode = "R" -> CheckReg(pt, r)
    [] mode = "K" -> IF ISK(r) THEN r - BITRK < Len(pt.k) ELSE CheckReg(pt, r)

\* What takes as many values as there are, up to the top of the stack.
luaG_checkopenop(i) == i.op \in {"CALL", "TAILCALL", "RETURN", "SETLIST"} /\ i.b = 0

Operands(pt, pc, i) ==
  CASE i.op \in {"LOADK", "GETGLOBAL", "SETGLOBAL"} -> i.b < Len(pt.k)
    [] i.op = "CLOSURE" -> TRUE
    [] i.op \in Jumping -> pc + 1 + i.b \in 0 .. Len(pt.code) - 1
    [] OTHER -> checkArgMode(pt, i.b, getBMode(i.op)) /\ checkArgMode(pt, i.c, getCMode(i.op))

\* pc counts from 0, so that the instruction behind it is at pc + 2.
Particular(pt, pc, i) ==
  LET Open == luaG_checkopenop(pt.code[pc + 2])
  IN CASE i.op = "LOADBOOL" -> i.c = 0 \/ pc + 2 < Len(pt.code)
       [] i.op \in {"GETUPVAL", "SETUPVAL"} -> i.b < pt.nups
       [] i.op \in {"GETGLOBAL", "SETGLOBAL"} -> pt.k[i.b + 1][1] = "string"
       [] i.op = "SELF" -> CheckReg(pt, i.a + 1)
       [] i.op = "CONCAT" -> i.b < i.c
       [] i.op = "TFORLOOP" -> i.c >= 1 /\ CheckReg(pt, i.a + 2 + i.c)
       [] i.op \in {"FORLOOP", "FORPREP"} -> CheckReg(pt, i.a + 3)
       [] i.op \in {"CALL", "TAILCALL"} ->
            /\ i.b # 0 => CheckReg(pt, i.a + i.b - 1)
            /\ i.c = 0 => Open
            /\ i.c > 1 => CheckReg(pt, i.a + i.c - 2)
       [] i.op = "RETURN" -> i.b > 1 => CheckReg(pt, i.a + i.b - 2)
       [] i.op = "SETLIST" -> i.b > 0 => CheckReg(pt, i.a + i.b)
       [] i.op = "CLOSURE" ->
            /\ i.b < Len(pt.p)
            /\ pc + pt.p[i.b + 1].nups < Len(pt.code)
            /\ \A j \in 1 .. pt.p[i.b + 1].nups : pt.code[pc + 1 + j].op \in {"GETUPVAL", "MOVE"}
       [] i.op = "VARARG" ->
            /\ pt.isvararg /\ ~pt.needsarg
            /\ i.b = 0 => Open
            /\ CheckReg(pt, i.a + i.b - 2)
       [] OTHER -> TRUE

symbexec(pt, pc) ==
  LET i == pt.code[pc + 1]
  IN /\ CheckReg(pt, i.a)
     /\ Operands(pt, pc, i)
     /\ i.op \in Tests => pc + 2 < Len(pt.code) /\ pt.code[pc + 2].op = "JMP"
     /\ Particular(pt, pc, i)

precheck(pt) ==
  /\ pt.numparams + (IF pt.hasarg THEN 1 ELSE 0) <= pt.maxstacksize
  /\ pt.needsarg => pt.hasarg
  /\ Last(pt.code).op = "RETURN"

RECURSIVE luaG_checkcode(_)
luaG_checkcode(pt) ==
  /\ precheck(pt)
  /\ \A pc \in 0 .. Len(pt.code) - 1 : symbexec(pt, pc)
  /\ \A i \in DOMAIN pt.p : luaG_checkcode(pt.p[i])

=============================================================================
