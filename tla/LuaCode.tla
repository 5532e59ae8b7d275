------------------------------ MODULE LuaCode ------------------------------
(***************************************************************************)
(* src/projects/halelua/src/lcode.c: the code generator of Lua, with the   *)
(* operators and the try statement this repository adds. A function being  *)
(* compiled is a FuncState; an expression is a descriptor that says where  *)
(* its value will be, with two lists of jumps that leave it early. The     *)
(* lists run through the offsets of the jumps themselves.                  *)
(*                                                                         *)
(* An operator that changes a descriptor takes and gives a pair            *)
(* [fs |-> FuncState, e |-> expdesc].                                      *)
(***************************************************************************)
EXTENDS Integers, SequencesExt, Bitwise

CONSTANT FieldsPerFlush \* LFIELDS_PER_FLUSH: elements of a constructor stored at once

ASSUME FlushAssumption == FieldsPerFlush \in Nat \ {0}

NO_JUMP == -1
NO_REG == 255
BITRK == 256

\* Values of the language. A table or a function has its place in the heap.
Nil == <<"nil", 0>>
Bool(b) == <<"boolean", IF b THEN 1 ELSE 0>>
Number(n) == <<"number", n>>
Str(s) == <<"string", s>>

IsFalse(v) == v \in {Nil, Bool(FALSE)}

Instr(op, a, b, c) == [op |-> op, a |-> a, b |-> b, c |-> c]

\* Instructions the next one, a jump, belongs to.
Tests == {"EQ", "LT", "LE", "TEST", "TESTSET", "TFORLOOP"}

ISK(rk) == rk >= BITRK
RKASK(i) == BITRK + i

-----------------------------------------------------------------------------
(* Descriptors and functions *)

Desc(k, info) == [k |-> k, info |-> info, aux |-> 0, t |-> NO_JUMP, f |-> NO_JUMP]
hasjumps(e) == e.t # e.f
isnumeral(e) == e.k = "VKNUM" /\ e.t = NO_JUMP /\ e.f = NO_JUMP

\* Instructions, constants and nested functions are numbered from 0.
Pc(fs) == Len(fs.code)
At(fs, pc) == fs.code[pc + 1]
Set(fs, pc, field, v) == [fs EXCEPT !.code[pc + 1][field] = v]

-----------------------------------------------------------------------------
(* Jumps and their lists *)

getjump(fs, pc) == IF At(fs, pc).b = NO_JUMP THEN NO_JUMP ELSE pc + 1 + At(fs, pc).b

RECURSIVE Jumps(_, _)
Jumps(fs, list) == IF list = NO_JUMP THEN <<>> ELSE <<list>> \o Jumps(fs, getjump(fs, list))

fixjump(fs, pc, dest) == Set(fs, pc, "b", dest - (pc + 1))

getjumpcontrol(fs, pc) == IF pc >= 1 /\ At(fs, pc - 1).op \in Tests THEN pc - 1 ELSE pc

GivesValue(fs, pc) == At(fs, getjumpcontrol(fs, pc)).op = "TESTSET"
need_value(fs, list) == \E j \in Range(Jumps(fs, list)) : ~GivesValue(fs, j)

\* A test that sets a register is given the register, or loses its value.
patchtestreg(fs, node, reg) ==
  LET i == getjumpcontrol(fs, node)
      test == At(fs, i)
  IN IF test.op # "TESTSET" THEN fs
     ELSE IF reg \notin {NO_REG, test.b} THEN Set(fs, i, "a", reg)
     ELSE [fs EXCEPT !.code[i + 1] = Instr("TEST", test.b, 0, test.c)]

removevalues(fs, list) ==
  FoldLeft(LAMBDA g, j : patchtestreg(g, j, NO_REG), fs, Jumps(fs, list))

patchlistaux(fs, list, vtarget, reg, dtarget) ==
  FoldLeft(LAMBDA g, j : fixjump(patchtestreg(g, j, reg), j,
                                 IF GivesValue(g, j) THEN vtarget ELSE dtarget),
           fs, Jumps(fs, list))

\* luaK_concat: the head of the joined list, and the link from the one to the other.
Joined(l1, l2) == IF l1 = NO_JUMP THEN l2 ELSE l1
Linked(fs, l1, l2) ==
  IF l1 = NO_JUMP \/ l2 = NO_JUMP THEN fs ELSE fixjump(fs, Last(Jumps(fs, l1)), l2)

luaK_getlabel(fs) == [fs EXCEPT !.lasttarget = Pc(fs)]

\* Slip: the jumps that are already waiting are forgotten.
SlipluaK_patchtohere(fs, list) == [luaK_getlabel(fs) EXCEPT !.jpc = list]

\* The jumps wait for the next instruction.
luaK_patchtohere(fs, list) ==
  [Linked(luaK_getlabel(fs), fs.jpc, list) EXCEPT !.jpc = Joined(fs.jpc, list)]

luaK_patchlist(fs, list, target) ==
  IF target = Pc(fs) THEN luaK_patchtohere(fs, list)
  ELSE patchlistaux(fs, list, target, NO_REG, target)

luaK_code(fs, i) ==
  [patchlistaux(fs, fs.jpc, Pc(fs), NO_REG, Pc(fs)) EXCEPT !.jpc = NO_JUMP, !.code = Append(@, i)]

Code(fs, op, a, b, c) == luaK_code(fs, Instr(op, a, b, c))

\* The jump is at Pc(fs); the jumps to it go on to where it leads.
luaK_jump(fs) ==
  Linked(Code([fs EXCEPT !.jpc = NO_JUMP], "JMP", 0, NO_JUMP, 0), Pc(fs), fs.jpc)

condjump(fs, op, a, b, c) == luaK_jump(Code(fs, op, a, b, c))

-----------------------------------------------------------------------------
(* Registers and constants *)

\* Slip: the register the code has reached is taken for the number it needs.
SlipluaK_checkstack(fs, n) == [fs EXCEPT !.maxstacksize = Max({@, fs.freereg + n - 1})]

luaK_checkstack(fs, n) == [fs EXCEPT !.maxstacksize = Max({@, fs.freereg + n})]
luaK_reserveregs(fs, n) == [luaK_checkstack(fs, n) EXCEPT !.freereg = @ + n]

freereg(fs, reg) ==
  IF ~ISK(reg) /\ reg >= fs.nactvar THEN [fs EXCEPT !.freereg = @ - 1] ELSE fs
freeexp(fs, e) == IF e.k = "VNONRELOC" THEN freereg(fs, e.info) ELSE fs
Free(x) == [x EXCEPT !.fs = freeexp(x.fs, x.e)]

\* The constant's number; nil has the table itself for its key.
Const(fs, v) == (CHOOSE i \in 1 .. Len(fs.k) + 1 : Append(fs.k, v)[i] = v) - 1
addk(fs, v) == IF Contains(fs.k, v) THEN fs ELSE [fs EXCEPT !.k = Append(@, v)]

\* Registers are clean at the start of a function; two runs of nil become one,
\* unless a jump leads between them.
luaK_nil(fs, from, n) ==
  LET last == At(fs, Pc(fs) - 1)
      straight == Pc(fs) > fs.lasttarget
  IN IF straight /\ Pc(fs) = 0 /\ from >= fs.nactvar THEN fs
     ELSE IF straight /\ Pc(fs) > 0 /\ last.op = "LOADNIL" /\ from \in last.a .. last.b + 1
     THEN Set(fs, Pc(fs) - 1, "b", Max({last.b, from + n - 1}))
     ELSE Code(fs, "LOADNIL", from, from + n - 1, 0)

luaK_ret(fs, first, nret, c) == Code(fs, "RETURN", first, nret + 1, c)

-----------------------------------------------------------------------------
(* From a descriptor to a value *)

Reloc(fs, e) == [fs |-> fs, e |-> [e EXCEPT !.k = "VRELOCABLE", !.info = Pc(fs) - 1]]

luaK_setreturns(fs, e, nresults) ==
  CASE e.k = "VCALL" -> Set(fs, e.info, "c", nresults + 1)
    [] e.k = "VVARARG" ->
         luaK_reserveregs(Set(Set(fs, e.info, "b", nresults + 1), e.info, "a", fs.freereg), 1)
    [] OTHER -> fs

luaK_setoneret(x) ==
  CASE x.e.k = "VCALL" -> [x EXCEPT !.e.k = "VNONRELOC", !.e.info = At(x.fs, x.e.info).a]
    [] x.e.k = "VVARARG" -> [fs |-> Set(x.fs, x.e.info, "b", 2), e |-> [x.e EXCEPT !.k = "VRELOCABLE"]]
    [] OTHER -> x

luaK_dischargevars(x) ==
  LET fs == x.fs  e == x.e
  IN CASE e.k = "VLOCAL" -> [x EXCEPT !.e.k = "VNONRELOC"]
       [] e.k = "VUPVAL" -> Reloc(Code(fs, "GETUPVAL", 0, e.info, 0), e)
       [] e.k = "VGLOBAL" -> Reloc(Code(fs, "GETGLOBAL", 0, e.info, 0), e)
       [] e.k = "VINDEXED" ->
            Reloc(Code(freereg(freereg(fs, e.aux), e.info), "GETTABLE", 0, e.info, e.aux), e)
       [] OTHER -> luaK_setoneret(x)

discharge2reg(x, reg) ==
  LET d == luaK_dischargevars(x)
      fs == d.fs  e == d.e
      loaded ==
        CASE e.k = "VNIL" -> luaK_nil(fs, reg, 1)
          [] e.k \in {"VFALSE", "VTRUE"} -> Code(fs, "LOADBOOL", reg, IF e.k = "VTRUE" THEN 1 ELSE 0, 0)
          [] e.k = "VK" -> Code(fs, "LOADK", reg, e.info, 0)
          [] e.k = "VKNUM" ->
               Code(addk(fs, Number(e.info)), "LOADK", reg, Const(fs, Number(e.info)), 0)
          [] e.k = "VRELOCABLE" -> Set(fs, e.info, "a", reg)
          [] e.k = "VNONRELOC" -> IF reg = e.info THEN fs ELSE Code(fs, "MOVE", reg, e.info, 0)
  IN IF e.k \in {"VVOID", "VJMP"} THEN d
     ELSE [fs |-> loaded, e |-> [e EXCEPT !.k = "VNONRELOC", !.info = reg]]

discharge2anyreg(x) ==
  IF x.e.k = "VNONRELOC" THEN x
  ELSE discharge2reg([x EXCEPT !.fs = luaK_reserveregs(x.fs, 1)], x.fs.freereg)

InReg(fs, e, reg) ==
  [fs |-> fs, e |-> [e EXCEPT !.k = "VNONRELOC", !.info = reg, !.t = NO_JUMP, !.f = NO_JUMP]]

\* Jumps that have their value go past the two instructions that load false and
\* true, the others to one of them.
exp2reg(x, reg) ==
  LET d == discharge2reg(x, reg)
      jump == d.e.k = "VJMP"
      t == IF jump THEN Joined(d.e.t, d.e.info) ELSE d.e.t
      fs == IF jump THEN Linked(d.fs, d.e.t, d.e.info) ELSE d.fs
      f == d.e.f
      need == need_value(fs, t) \/ need_value(fs, f)
      past == IF jump THEN fs ELSE luaK_jump(fs)
      p_f == Pc(past)
      labels == Code(luaK_getlabel(Code(luaK_getlabel(past), "LOADBOOL", reg, 0, 1)),
                     "LOADBOOL", reg, 1, 0)
      both == luaK_patchtohere(labels, IF jump THEN NO_JUMP ELSE Pc(fs))
      final == luaK_getlabel(IF need THEN both ELSE fs)
      patched == patchlistaux(patchlistaux(final, f, Pc(final), reg, p_f),
                              t, Pc(final), reg, p_f + 1)
  IN InReg(IF t # f THEN patched ELSE fs, d.e, reg)

luaK_exp2nextreg(x) ==
  LET d == Free(luaK_dischargevars(x))
  IN exp2reg([d EXCEPT !.fs = luaK_reserveregs(d.fs, 1)], d.fs.freereg)

luaK_exp2anyreg(x) ==
  LET d == luaK_dischargevars(x)
  IN CASE d.e.k = "VNONRELOC" /\ ~hasjumps(d.e) -> d
       [] d.e.k = "VNONRELOC" /\ hasjumps(d.e) /\ d.e.info >= d.fs.nactvar -> exp2reg(d, d.e.info)
       [] OTHER -> luaK_exp2nextreg(d)

luaK_exp2val(x) == IF hasjumps(x.e) THEN luaK_exp2anyreg(x) ELSE luaK_dischargevars(x)

Constant(e) ==
  CASE e.k = "VNIL" -> Nil
    [] e.k \in {"VTRUE", "VFALSE"} -> Bool(e.k = "VTRUE")
    [] e.k = "VKNUM" -> Number(e.info)

\* A constant or a register: afterwards RK(e) is the operand.
luaK_exp2RK(x) ==
  LET d == luaK_exp2val(x)
  IN CASE d.e.k \in {"VKNUM", "VTRUE", "VFALSE", "VNIL"} ->
            [fs |-> addk(d.fs, Constant(d.e)),
             e |-> [d.e EXCEPT !.k = "VK", !.info = Const(d.fs, Constant(d.e))]]
       [] d.e.k = "VK" -> d
       [] OTHER -> luaK_exp2anyreg(d)

RK(e) == IF e.k = "VK" THEN RKASK(e.info) ELSE e.info

\* The value ex goes to the variable.
luaK_storevar(fs, var, ex) ==
  LET x == [fs |-> fs, e |-> ex]
      any == luaK_exp2anyreg(x)
      rk == luaK_exp2RK(x)
  IN CASE var.k = "VLOCAL" -> exp2reg(Free(x), var.info).fs
       [] var.k = "VUPVAL" -> freeexp(Code(any.fs, "SETUPVAL", any.e.info, var.info, 0), any.e)
       [] var.k = "VGLOBAL" -> freeexp(Code(any.fs, "SETGLOBAL", any.e.info, var.info, 0), any.e)
       [] var.k = "VINDEXED" -> freeexp(Code(rk.fs, "SETTABLE", var.info, var.aux, RK(rk.e)), rk.e)

luaK_self(x, name) ==
  LET o == luaK_exp2anyreg(x)
      free == freeexp(o.fs, o.e)
      func == free.freereg
      key == luaK_exp2RK([fs |-> luaK_reserveregs(free, 2), e |-> name])
  IN [fs |-> freeexp(Code(key.fs, "SELF", func, o.e.info, RK(key.e)), key.e),
      e |-> [o.e EXCEPT !.k = "VNONRELOC", !.info = func]]

luaK_indexed(x, t) ==
  LET key == luaK_exp2RK(x)
  IN [fs |-> key.fs, e |-> [t EXCEPT !.k = "VINDEXED", !.aux = RK(key.e)]]

-----------------------------------------------------------------------------
(* Conditions *)

invertjump(fs, e) ==
  LET i == getjumpcontrol(fs, e.info) IN Set(fs, i, "a", 1 - At(fs, i).a)

Negated(x) == x.e.k = "VRELOCABLE" /\ At(x.fs, x.e.info).op = "NOT"

\* The jump is the last instruction. A NOT is taken back.
jumponcond(x, cond) ==
  LET d == discharge2anyreg(x)
  IN IF Negated(x)
     THEN condjump([x.fs EXCEPT !.code = Front(@)], "TEST", At(x.fs, x.e.info).b, 0, 1 - cond)
     ELSE condjump(freeexp(d.fs, d.e), "TESTSET", NO_REG, d.e.info, cond)

\* The list `exits` of e gets the jump; the list `stays` leads here.
Branch(fs, e, pc, exits, stays) ==
  [fs |-> luaK_patchtohere(Linked(fs, e[exits], pc), e[stays]),
   e |-> [e EXCEPT ![exits] = Joined(@, pc), ![stays] = NO_JUMP]]

luaK_goiftrue(x) ==
  LET d == luaK_dischargevars(x)
      fs == d.fs  e == d.e
      cond == jumponcond(d, 0)
  IN CASE e.k \in {"VK", "VKNUM", "VTRUE"} -> Branch(fs, e, NO_JUMP, "f", "t")
       [] e.k = "VFALSE" -> Branch(luaK_jump(fs), e, Pc(fs), "f", "t")
       [] e.k = "VJMP" -> Branch(invertjump(fs, e), e, e.info, "f", "t")
       [] OTHER -> Branch(cond, e, Pc(cond) - 1, "f", "t")

luaK_goiffalse(x) ==
  LET d == luaK_dischargevars(x)
      fs == d.fs  e == d.e
      cond == jumponcond(d, 1)
  IN CASE e.k \in {"VNIL", "VFALSE"} -> Branch(fs, e, NO_JUMP, "t", "f")
       [] e.k = "VTRUE" -> Branch(luaK_jump(fs), e, Pc(fs), "t", "f")
       [] e.k = "VJMP" -> Branch(fs, e, e.info, "t", "f")
       [] OTHER -> Branch(cond, e, Pc(cond) - 1, "t", "f")

codenot(x) ==
  LET d == luaK_dischargevars(x)
      r == Free(discharge2anyreg(d))
      not == Reloc(Code(r.fs, "NOT", 0, r.e.info, 0), r.e)
      y == CASE d.e.k \in {"VNIL", "VFALSE"} -> [d EXCEPT !.e.k = "VTRUE"]
             [] d.e.k \in {"VK", "VKNUM", "VTRUE"} -> [d EXCEPT !.e.k = "VFALSE"]
             [] d.e.k = "VJMP" -> [d EXCEPT !.fs = invertjump(d.fs, d.e)]
             [] OTHER -> not
  IN [fs |-> removevalues(removevalues(y.fs, y.e.t), y.e.f),
      e |-> [y.e EXCEPT !.t = y.e.f, !.f = y.e.t]]

-----------------------------------------------------------------------------
(* Operators *)

\* luai_num... and luai_log... of luaconf.h, over whole numbers. Only quotients
\* that are whole are asked for.
Numeric(op, a, b) ==
  CASE op = "ADD" -> a + b
    [] op = "SUB" -> a - b
    [] op = "MUL" -> a * b
    [] op \in {"DIV", "INTDIV"} -> a \div b
    [] op = "MOD" -> a % b
    [] op = "POW" -> a ^ b
    [] op = "UNM" -> -a
    [] op = "BNOT" -> -a - 1
    [] op = "BLSHFT" -> a * 2 ^ b
    [] op \in {"BRSHFT", "BURSHFT"} -> a \div 2 ^ b
    [] op = "BAND" -> a & b
    [] op = "BOR" -> a | b
    [] op = "BXOR" -> a ^^ b

Unary == {"UNM", "LEN", "BNOT"}

\* constfolding: of two numerals, or of one; never a division by 0.
Foldable(op, e1, e2) ==
  /\ isnumeral(e1) /\ isnumeral(e2) /\ op # "LEN"
  /\ ~(op \in {"DIV", "MOD", "INTDIV"} /\ e2.info = 0)

\* e1 is the left operand, x the right one with the function so far.
codearith(op, e1, x) ==
  LET right == IF op \in Unary THEN x ELSE luaK_exp2RK(x)
      left == luaK_exp2RK([fs |-> right.fs, e |-> e1])
      o2 == IF op \in Unary THEN 0 ELSE RK(right.e)
      o1 == RK(left.e)
      freed == IF o1 > o2 THEN freeexp(freeexp(left.fs, left.e), right.e)
               ELSE freeexp(freeexp(left.fs, right.e), left.e)
  IN IF Foldable(op, e1, x.e)
     THEN [x EXCEPT !.e = [e1 EXCEPT !.info = Numeric(op, @, x.e.info)]]
     ELSE Reloc(Code(freed, op, 0, o1, o2), left.e)

codecomp(op, cond, e1, x) ==
  LET left == luaK_exp2RK([fs |-> x.fs, e |-> e1])
      right == luaK_exp2RK([x EXCEPT !.fs = left.fs])
      freed == freeexp(freeexp(right.fs, right.e), left.e)
      o1 == RK(left.e)
      o2 == RK(right.e)
      swap == cond = 0 /\ op # "EQ"
      jump == IF swap THEN condjump(freed, op, 1, o2, o1) ELSE condjump(freed, op, cond, o1, o2)
  IN [fs |-> jump, e |-> [left.e EXCEPT !.k = "VJMP", !.info = Pc(jump) - 1]]

Zero == Desc("VKNUM", 0)

\* The dummy operand of codearith is the numeral 0.
Unop(op, x) ==
  LET y == IF (op = "BNOT" /\ x.e.k = "VK") \/ (op = "UNM" /\ ~isnumeral(x.e)) \/ op = "LEN"
           THEN luaK_exp2anyreg(x) ELSE x
  IN codearith(op, y.e, [fs |-> y.fs, e |-> Zero])

luaK_prefix(op, x) ==
  CASE op = "not" -> codenot(x)
    [] op = "-" -> Unop("UNM", x)
    [] op = "~" -> Unop("BNOT", x)
    [] op = "#" -> Unop("LEN", x)

\* What has to be done with the left operand before the right one is read.
luaK_infix(op, x) ==
  CASE op = "and" -> luaK_goiftrue(x)
    [] op = "or" -> luaK_goiffalse(x)
    [] op = ".." -> luaK_exp2nextreg(x)
    [] op \in {"+", "-", "*", "/", "%", "^"} -> IF isnumeral(x.e) THEN x ELSE luaK_exp2RK(x)
    [] OTHER -> luaK_exp2RK(x)

Arithmetic ==
  ("+" :> "ADD") @@ ("-" :> "SUB") @@ ("*" :> "MUL") @@ ("/" :> "DIV") @@ ("%" :> "MOD") @@
  ("^" :> "POW") @@ ("|" :> "BOR") @@ ("&" :> "BAND") @@ ("^|" :> "BXOR") @@ ("<<" :> "BLSHFT") @@
  (">>" :> "BRSHFT") @@ (">>>" :> "BURSHFT") @@ ("\\" :> "INTDIV")

\* Strings that are joined in one go lie in a row: the instruction of the right
\* operand starts one register earlier.
codeconcat(e1, x) ==
  LET right == luaK_exp2val(x)
  IN IF right.e.k = "VRELOCABLE" /\ At(right.fs, right.e.info).op = "CONCAT"
     THEN [fs |-> Set(freeexp(right.fs, e1), right.e.info, "b", e1.info),
           e |-> [e1 EXCEPT !.k = "VRELOCABLE", !.info = right.e.info]]
     ELSE codearith("CONCAT", e1, luaK_exp2nextreg(right))

luaK_posfix(op, e1, x) ==
  LET d == luaK_dischargevars(x)
      lists(l) == [fs |-> Linked(d.fs, d.e[l], e1[l]), e |-> [d.e EXCEPT ![l] = Joined(@, e1[l])]]
  IN CASE op = "and" -> lists("f")
       [] op = "or" -> lists("t")
       [] op = ".." -> codeconcat(e1, x)
       [] op = "==" -> codecomp("EQ", 1, e1, x)
       [] op = "~=" -> codecomp("EQ", 0, e1, x)
       [] op = "<" -> codecomp("LT", 1, e1, x)
       [] op = "<=" -> codecomp("LE", 1, e1, x)
       [] op = ">" -> codecomp("LT", 0, e1, x)
       [] op = ">=" -> codecomp("LE", 0, e1, x)
       [] OTHER -> codearith(Arithmetic[op], e1, x)

\* n elements were read, `tostore` of them lie in registers; -1 means up to the top.
luaK_setlist(fs, base, nelems, tostore) ==
  [Code(fs, "SETLIST", base, IF tostore = -1 THEN 0 ELSE tostore, (nelems - 1) \div FieldsPerFlush + 1)
     EXCEPT !.freereg = base + 1]

=============================================================================
