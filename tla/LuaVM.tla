------------------------------- MODULE LuaVM -------------------------------
(***************************************************************************)
(* src/projects/halelua/src/lvm.c, ldo.c and lfunc.c: the machine that     *)
(* runs what the compiler made. A step of the model is one instruction     *)
(* with the calls and returns it makes. Functions of Lua run in one        *)
(* activation of luaV_execute as long as no C function is between them;    *)
(* an error goes to the handler at the head of errorJmp, which is a try    *)
(* statement or a protected call.                                          *)
(*                                                                         *)
(* The program calls two C functions: pcall, and ext, which stands for the *)
(* world: it notes its arguments and returns true or nil or raises.        *)
(*                                                                         *)
(* L->errfunc, the function that gives a message its traceback, is left    *)
(* out: an error of the machine is one Message, with a traceback or        *)
(* without. Leaving a try for its finally does not restore it, so that     *)
(* the messages of what follows may lack theirs (lvm.c 446-449, 950-956).  *)
(***************************************************************************)
EXTENDS LuaParser

CONSTANTS Programs,  \* a set of [text, may, f, err]: a tree, what ext may do in it, and
                     \* what the compiler makes of it
          StackSize, \* bound: slots of the stack
          MaxExt,    \* bound: calls of ext, from then on it returns nil
          Collation  \* the strings that may be compared, in the order of strcoll

VARIABLES prog, \* the program
          L     \* the state of the thread and of everything it can reach

vars == <<prog, L>>

Table(id) == <<"table", id>>
Closure(id) == <<"function", id>>
ext == Closure(0)
pcall == Closure(-1)
Message == Str("attempt to")  \* of every error the machine raises

-----------------------------------------------------------------------------
(* The stack *)

Frame(l) == Last(l.ci)

\* Values from a slot up to the one before another.
Slots(l, from, to) == [i \in 1 .. to - from |-> l.stack[from + i - 1]]

Write(l, at, v) == [l EXCEPT !.stack[at] = v]
WriteAll(l, at, vs) ==
  [l EXCEPT !.stack = [i \in DOMAIN @ |-> IF i - at + 1 \in DOMAIN vs THEN vs[i - at + 1] ELSE @[i]]]

Nils(n) == [i \in 1 .. n |-> Nil]

RECURSIVE ProtoAt(_, _)
ProtoAt(f, path) == IF path = <<>> THEN f ELSE ProtoAt(f.p[Head(path) + 1], Tail(path))

ClosureAt(l, slot) == l.closures[l.stack[slot][2]]
ProtoOf(l, slot) == ProtoAt(prog.f, ClosureAt(l, slot).p)

-----------------------------------------------------------------------------
(* Upvalues: open while their variable is on the stack *)

Find(l, level) == {u \in DOMAIN l.upvals : l.upvals[u].open /\ l.upvals[u].at = level}

luaF_findupval(l, level) ==
  IF Find(l, level) # {} THEN [l |-> l, u |-> Min(Find(l, level))]
  ELSE [l |-> [l EXCEPT !.upvals = Append(@, [open |-> TRUE, at |-> level, v |-> Nil])],
        u |-> Len(l.upvals) + 1]

luaF_close(l, level) ==
  [l EXCEPT !.upvals = [u \in DOMAIN @ |->
     IF @[u].open /\ @[u].at >= level THEN [open |-> FALSE, at |-> 0, v |-> l.stack[@[u].at]] ELSE @[u]]]

ValueOf(l, up) == IF up.open THEN l.stack[up.at] ELSE up.v

-----------------------------------------------------------------------------
(* Calls and returns *)

\* The results, from a slot to the top, go where the function was; as many as
\* are wanted, or all.
luaD_poscall(l, first) ==
  LET frame == Last(l.ci)
      all == Slots(l, first, l.top)
      n == IF frame.nresults = -1 THEN Len(all) ELSE frame.nresults
      res == SubSeq(all \o Nils(n), 1, n)
      caller == l.ci[Len(l.ci) - 1]
  IN [WriteAll(l, frame.func, res) EXCEPT !.ci = Front(@), !.top = frame.func + n, !.pc = caller.savedpc]

RECURSIVE Resume(_), luaD_throw(_), luaD_call(_, _, _, _)

\* pcall returns whether there was an error, and the results or the error.
FinishPcall(l, ok) ==
  LET base == Last(l.ci).base
      res == <<Bool(ok)>> \o Slots(l, base, l.top)
  IN Resume(luaD_poscall([WriteAll(l, base, res) EXCEPT !.top = base + Len(res)], base))

\* TFORLOOP after its call: the first result is the control variable.
TestFor(l) ==
  LET ci == Last(l.ci)
      f == ProtoOf(l, ci.func)
      cb == ci.base + At(f, l.pc - 1).a + 3
      more == l.stack[cb] # Nil
      kept == IF more THEN Write(l, cb - 1, l.stack[cb]) ELSE l
  IN [kept EXCEPT !.top = ci.top, !.pc = @ + 1 + (IF more THEN At(f, l.pc).b ELSE 0)]

\* A C function, or the function of a C function, has returned: what called it
\* goes on.
Resume(l) ==
  LET ci == Last(l.ci)
      call == At(ProtoOf(l, ci.func), l.pc - 1)
  IN CASE Len(l.ci) = 1 -> [l EXCEPT !.status = "finished"]
       [] Len(l.ci) > 1 /\ l.stack[ci.func] = pcall ->
            FinishPcall([l EXCEPT !.errorJmp = Front(@)], TRUE)
       [] Len(l.ci) > 1 /\ l.stack[ci.func] # pcall /\ call.op = "TFORLOOP" -> TestFor(l)
       [] OTHER -> IF call.op = "CALL" /\ call.c > 0 THEN [l EXCEPT !.top = ci.top] ELSE l

\* What pcall does with an error: its function and everything above is gone.
luaD_pcall(l, pj, err) ==
  LET closed == luaF_close(l, pj.old_top)
  IN [Write(closed, pj.old_top, err) EXCEPT !.top = pj.old_top + 1, !.pc = l.ci[pj.old_ci].savedpc]

\* The try of pj goes on at its handler. A finally clause keeps its record, which
\* RETFIN will look at.
restoretry(l, pj, err) ==
  LET closed == luaF_close(l, pj.old_top)
      told == IF pj.op = "TRY" THEN closed ELSE Write(closed, l.ci[pj.old_ci].base + pj.errobj, err)
  IN [told EXCEPT !.acts[pj.act] = pj.old_nexec, !.top = pj.old_top, !.pc = pj.dest,
                  !.fstack = IF pj.op = "TRYFIN" THEN <<[dest |-> pj.dest]>> ELSE @]

\* What is on top of the stack goes to the handler at the head of errorJmp. Only
\* that of a try in an activation and a function that still run can be gone to.
luaD_throw(l) ==
  LET pj == Last(l.errorJmp)
      err == l.stack[l.top - 1]
      back == [l EXCEPT !.fstack = <<>>, !.ci = SubSeq(@, 1, pj.old_ci),
                        !.acts = SubSeq(@, 1, pj.act), !.errorJmp = Front(@)]
  IN CASE pj.type = "main" -> [l EXCEPT !.status = "failed", !.top = 1, !.stack[0] = err]
       [] pj.type = "pcall" -> FinishPcall(luaD_pcall(back, pj, err), FALSE)
       [] pj.type = "try" ->
            IF pj.act > Len(l.acts) \/ pj.old_ci > Len(l.ci) THEN [l EXCEPT !.status = "crashed"]
            ELSE restoretry(back, pj, err)

luaG_runerror(l) == luaD_throw([Write(l, l.top, Message) EXCEPT !.top = @ + 1])

\* A function with ... gets its fixed arguments above the others, with nil in
\* their old places, and a table of the others when it may use arg.
adjust_varargs(l, func, p) ==
  LET given == Slots(l, func + 1, l.top)
      args == given \o Nils(p.numparams - Len(given))
      extra == SubSeq(args, p.numparams + 1, Len(args))
      fields == [i \in {Number(j) : j \in DOMAIN extra} \cup {Str("n")} |->
                   IF i = Str("n") THEN Number(Len(extra)) ELSE extra[i[2]]]
      arg == IF p.needsarg THEN <<Table(Len(l.tables) + 1)>> ELSE <<>>
      moved == Nils(p.numparams) \o extra \o SubSeq(args, 1, p.numparams) \o arg
  IN [l |-> [WriteAll(l, func + 1, moved) EXCEPT !.top = func + 1 + Len(moved),
                                                 !.tables = IF p.needsarg THEN Append(@, fields) ELSE @],
      base |-> func + 1 + Len(args)]

EnterLua(l, func, nresults) ==
  LET p == ProtoOf(l, func)
      x == IF p.isvararg THEN adjust_varargs(l, func, p)
           ELSE [l |-> [l EXCEPT !.top = Min({@, func + 1 + p.numparams})], base |-> func + 1]
      top == x.base + p.maxstacksize
      frame == [func |-> func, base |-> x.base, top |-> top, savedpc |-> 0, nresults |-> nresults,
                baseres |-> 0, numres |-> 0]
  IN [WriteAll(x.l, x.l.top, Nils(top - x.l.top)) EXCEPT !.ci = Append(@, frame), !.top = top, !.pc = 0]

EnterC(l, func, nresults) ==
  [l EXCEPT !.ci = Append(@, [func |-> func, base |-> func + 1, top |-> l.top + 20, savedpc |-> 0,
                              nresults |-> nresults, baseres |-> 0, numres |-> 0])]

\* ext notes its arguments; answer says what it does.
CallExt(l, answer) ==
  LET noted == [l EXCEPT !.log = Append(@, Slots(l, Last(l.ci).base, l.top)),
                         !.answers = Append(@, answer)]
      v == CASE answer = "true" -> Bool(TRUE) [] answer = "nil" -> Nil [] answer = "raise" -> Str("raised")
      pushed == [Write(noted, l.top, v) EXCEPT !.top = @ + 1]
  IN IF answer = "raise" THEN luaD_throw(pushed) ELSE Resume(luaD_poscall(pushed, l.top))

\* lua_pcall, luaD_rawrunprotected and f_call.
CallPcall(l, answer) ==
  LET func == Last(l.ci).base
      handler == [type |-> "pcall", op |-> "none", old_ci |-> Len(l.ci), act |-> Len(l.acts),
                  old_top |-> func, errobj |-> 0, dest |-> 0, old_nexec |-> 0]
  IN luaD_call([l EXCEPT !.errorJmp = Append(@, handler)], func, -1, answer)

InLua(v) == v[1] = "function" /\ v[2] > 0

\* With a C function, everything it does until it returns.
luaD_precall(l, func, nresults, answer) ==
  LET saved == [l EXCEPT !.ci[Len(l.ci)].savedpc = l.pc]
      f == l.stack[func]
  IN CASE f[1] # "function" -> luaG_runerror(l)
       [] f = ext -> CallExt(EnterC(saved, func, nresults), answer)
       [] f = pcall -> IF func + 1 = l.top THEN luaG_runerror(EnterC(saved, func, nresults))
                       ELSE CallPcall(EnterC(saved, func, nresults), answer)
       [] OTHER -> EnterLua(saved, func, nresults)

\* Called from C, a function of Lua runs in a new activation.
luaD_call(l, func, nresults, answer) ==
  [luaD_precall(l, func, nresults, answer) EXCEPT
     !.acts = IF InLua(l.stack[func]) THEN Append(@, 1) ELSE @]

-----------------------------------------------------------------------------
(* Values *)

\* Tables without metatables; everything else has none either.
luaV_gettable(l, t, key) == IF key \in DOMAIN l.tables[t[2]] THEN l.tables[t[2]][key] ELSE Nil

luaV_settable(l, t, key, v) ==
  [l EXCEPT !.tables[t[2]] =
     [k \in (DOMAIN @ \cup {key}) \ (IF v = Nil THEN {key} ELSE {}) |-> IF k = key THEN v ELSE @[k]]]

\* Where a number or a string stands among its like.
Rank(v) == IF v[1] = "number" THEN v[2] ELSE CHOOSE i \in DOMAIN Collation : Collation[i] = v[2]

\* nil can be compared with everything.
Ordered(a, b) == a = Nil \/ b = Nil \/ (a[1] = b[1] /\ a[1] \in {"number", "string"})
luaV_lessthan(a, b) == a # Nil /\ b # Nil /\ Rank(a) < Rank(b)
lessequal(a, b) == IF a = Nil \/ b = Nil THEN a = b ELSE Rank(a) <= Rank(b)

\* Of the strings that are numerals, the decimal ones of at most two digits.
luaV_tonumber(v) ==
  IF v[1] = "string" /\ \E n \in 0 .. 99 : ToString(n) = v[2]
  THEN Number(CHOOSE n \in 0 .. 99 : ToString(n) = v[2]) ELSE v

\* The last two values are joined first. The one before a string has to be a
\* string, and a number is only converted behind one. Neither is empty.
Joins(vs) ==
  /\ \A i \in 1 .. Len(vs) - 1 : vs[i][1] = "string"
  /\ Last(vs)[1] \in {"string", "number"}
tostring(v) == IF v[1] = "number" THEN ToString(v[2]) ELSE v[2]
luaV_concat(vs) == FoldLeft(LAMBDA s, v : s \o tostring(v), "", vs)

-----------------------------------------------------------------------------
(* Instructions. l.pc is behind the instruction i. *)

Base(l) == Last(l.ci).base
Cl(l) == ClosureAt(l, Last(l.ci).func)
Fn(l) == ProtoOf(l, Last(l.ci).func)
R(l, reg) == l.stack[Base(l) + reg]
RKValue(l, rk) == IF ISK(rk) THEN Fn(l).k[rk - BITRK + 1] ELSE R(l, rk)
SetR(l, reg, v) == Write(l, Base(l) + reg, v)
dojump(l, n) == [l EXCEPT !.pc = @ + n]

\* The jump behind a test is taken, or left out.
Test(l, holds) == dojump(l, IF holds THEN 1 + At(Fn(l), l.pc).b ELSE 1)

Globals == Table(1)
K(l, n) == Fn(l).k[n + 1]

LoadNil(l, i) == WriteAll(l, Base(l) + i.a, Nils(i.b - i.a + 1))
LoadBool(l, i) == dojump(SetR(l, i.a, <<"boolean", i.b>>), i.c)

GetTable(l, i, t, key, to) ==
  IF t[1] # "table" THEN luaG_runerror(l) ELSE SetR(l, to, luaV_gettable(l, t, key))

SetTable(l, t, key, v) ==
  IF t[1] # "table" \/ key = Nil THEN luaG_runerror(l) ELSE luaV_settable(l, t, key, v)

GetUpval(l, i) == SetR(l, i.a, ValueOf(l, l.upvals[Cl(l).ups[i.b + 1]]))

SetUpval(l, i) ==
  LET u == Cl(l).ups[i.b + 1]
  IN IF l.upvals[u].open THEN Write(l, l.upvals[u].at, R(l, i.a)) ELSE [l EXCEPT !.upvals[u].v = R(l, i.a)]

NewTable(l, i) == SetR([l EXCEPT !.tables = Append(@, <<>>)], i.a, Table(Len(l.tables) + 1))

Self(l, i) ==
  LET o == R(l, i.b)
  IN GetTable(SetR(l, i.a + 1, o), i, o, RKValue(l, i.c), i.a)

Logical == {"BAND", "BOR", "BXOR", "BLSHFT", "BRSHFT", "BURSHFT", "BNOT"}

\* Of operands that are not both numbers a shift to the left is one to the right.
Logic(l, i, b, c) ==
  LET op == IF i.op \in {"BLSHFT", "BURSHFT"} THEN "BRSHFT" ELSE i.op
      nb == luaV_tonumber(b)
      nc == luaV_tonumber(c)
  IN IF nb[1] = "number" /\ nc[1] = "number" THEN SetR(l, i.a, Number(Numeric(op, nb[2], nc[2])))
     ELSE luaG_runerror(l)

\* UNM and BNOT have one operand, which is a register. Those on bits take a
\* string that is a numeral for its number, the others do not.
Arith(l, i) ==
  LET b == IF i.op \in {"UNM", "BNOT"} THEN R(l, i.b) ELSE RKValue(l, i.b)
      c == IF i.op \in {"UNM", "BNOT"} THEN b ELSE RKValue(l, i.c)
  IN CASE b[1] = "number" /\ c[1] = "number" -> SetR(l, i.a, Number(Numeric(i.op, b[2], c[2])))
       [] {b[1], c[1]} # {"number"} /\ i.op \in Logical -> Logic(l, i, b, c)
       [] OTHER -> luaG_runerror(l)

NotOp(l, i) == SetR(l, i.a, Bool(IsFalse(R(l, i.b))))

\* A border of a sequence; a table with holes has others.
luaH_getn(t) == Max({n \in 0 .. Cardinality(DOMAIN t) : \A j \in 1 .. n : Number(j) \in DOMAIN t})

LenOp(l, i) ==
  LET b == R(l, i.b)
  IN CASE b[1] = "table" -> SetR(l, i.a, Number(luaH_getn(l.tables[b[2]])))
       [] b[1] = "string" -> SetR(l, i.a, Number(Len(b[2])))
       [] OTHER -> luaG_runerror(l)

Concat(l, i) ==
  LET vs == Slots(l, Base(l) + i.b, Base(l) + i.c + 1)
  IN IF Joins(vs) THEN SetR(SetR(l, i.b, Str(luaV_concat(vs))), i.a, Str(luaV_concat(vs)))
     ELSE luaG_runerror(l)

Compare(l, i) ==
  LET b == RKValue(l, i.b)
      c == RKValue(l, i.c)
  IN CASE i.op = "EQ" -> Test(l, (b = c) <=> (i.a = 1))
       [] i.op # "EQ" /\ ~Ordered(b, c) -> luaG_runerror(l)
       [] i.op = "LT" /\ Ordered(b, c) -> Test(l, luaV_lessthan(b, c) <=> (i.a = 1))
       [] i.op = "LE" /\ Ordered(b, c) -> Test(l, lessequal(b, c) <=> (i.a = 1))

TestOp(l, i) == Test(l, IsFalse(R(l, i.a)) # (i.c = 1))

TestSet(l, i) ==
  IF IsFalse(R(l, i.b)) # (i.c = 1) THEN Test(SetR(l, i.a, R(l, i.b)), TRUE) ELSE Test(l, FALSE)

\* B is 0 when the instruction before has set the top.
WithTop(l, i) == IF i.b # 0 THEN [l EXCEPT !.top = Base(l) + i.a + i.b] ELSE l

Call(l, i, answer) ==
  LET func == Base(l) + i.a
      called == luaD_precall(WithTop(l, i), func, i.c - 1, answer)
  IN IF InLua(l.stack[func]) THEN [called EXCEPT !.acts[Len(l.acts)] = @ + 1] ELSE called

\* The function at pfunc has been called from the frame of l: a function of Lua
\* takes that frame's place.
Replaced(l, pfunc, called) ==
  LET old == Frame(l)
      new == Last(called.ci)
      n == called.top - pfunc
      down == WriteAll(luaF_close(called, old.base), old.func, Slots(called, pfunc, called.top))
      frame == [old EXCEPT !.base = old.func + (new.base - pfunc), !.top = old.func + n, !.savedpc = 0]
  IN IF ~InLua(l.stack[pfunc]) THEN called
     ELSE [down EXCEPT !.ci = Append(SubSeq(@, 1, Len(@) - 2), frame), !.top = old.func + n]

TailCall(l, i, answer) ==
  LET pfunc == Base(l) + i.a
  IN Replaced(l, pfunc, luaD_precall(WithTop(l, i), pfunc, -1, answer))

\* After EXITTRY has saved what is returned, C is set.
Return(l, i) ==
  LET saved == i.c = 1
      first == IF saved THEN Frame(l).baseres ELSE Base(l) + i.a
      top == CASE saved -> first + Frame(l).numres
               [] ~saved /\ i.b # 0 -> first + i.b - 1
               [] OTHER -> l.top
      fixed == Frame(l).nresults # -1
      back == luaD_poscall(luaF_close([l EXCEPT !.top = top], Base(l)), first)
      act == Len(l.acts)
  IN IF l.acts[act] = 1 THEN Resume([back EXCEPT !.acts = Front(@)])
     ELSE [back EXCEPT !.acts[act] = @ - 1, !.top = IF fixed THEN Last(back.ci).top ELSE @]

ForPrep(l, i) ==
  LET numbers == \A j \in 0 .. 2 : R(l, i.a + j)[1] = "number"
  IN IF numbers THEN dojump(SetR(l, i.a, Number(R(l, i.a)[2] - R(l, i.a + 2)[2])), i.b)
     ELSE luaG_runerror(l)

ForLoop(l, i) ==
  LET step == R(l, i.a + 2)[2]
      idx == R(l, i.a)[2] + step
      limit == R(l, i.a + 1)[2]
  IN IF (0 < step /\ idx <= limit) \/ (step <= 0 /\ limit <= idx)
     THEN dojump(SetR(SetR(l, i.a, Number(idx)), i.a + 3, Number(idx)), i.b)
     ELSE l

TForLoop(l, i, answer) ==
  LET ra == Base(l) + i.a
  IN luaD_call([WriteAll(l, ra + 3, Slots(l, ra, ra + 3)) EXCEPT !.top = ra + 6], ra + 3, i.c, answer)

SetList(l, i) ==
  LET n == IF i.b = 0 THEN l.top - (Base(l) + i.a) - 1 ELSE i.b
      before == (i.c - 1) * FieldsPerFlush
      h == R(l, i.a)
  IN FoldLeft(LAMBDA m, j : luaV_settable(m, h, Number(before + j), R(l, i.a + j)),
              IF i.b = 0 THEN [l EXCEPT !.top = Frame(l).top] ELSE l, [j \in 1 .. n |-> j])

\* The instructions behind say where each upvalue comes from.
ClosureOp(l, i) ==
  LET nups == Fn(l).p[i.b + 1].nups
      take(x, j) ==
        LET up == At(Fn(l), l.pc + j - 1)
            found == luaF_findupval(x.l, Base(l) + up.b)
        IN IF up.op = "GETUPVAL" THEN [x EXCEPT !.ups = Append(@, Cl(l).ups[up.b + 1])]
           ELSE [l |-> found.l, ups |-> Append(x.ups, found.u)]
      taken == FoldLeft(take, [l |-> l, ups |-> <<>>], [j \in 1 .. nups |-> j])
      ncl == [p |-> Append(Cl(l).p, i.b), ups |-> taken.ups]
  IN dojump(SetR([taken.l EXCEPT !.closures = Append(@, ncl)], i.a, Closure(Len(l.closures) + 1)), nups)

\* The arguments beyond the fixed ones lie below the base.
VarArg(l, i) ==
  LET n == Frame(l).base - Frame(l).func - Fn(l).numparams - 1
      extra == Slots(l, Base(l) - n, Base(l))
      b == IF i.b = 0 THEN n ELSE i.b - 1
      top == IF i.b = 0 THEN Base(l) + i.a + n ELSE l.top
  IN [WriteAll(l, Base(l) + i.a, SubSeq(extra \o Nils(b), 1, b)) EXCEPT !.top = top]

Try(l, i) ==
  LET pj == [type |-> "try", op |-> i.op, dest |-> l.pc + i.b, errobj |-> i.a, old_ci |-> Len(l.ci),
             act |-> Len(l.acts), old_nexec |-> Last(l.acts), old_top |-> l.top]
  IN [l EXCEPT !.errorJmp = Append(@, pj)]

\* What is returned is moved below the variables, and the base above it.
SaveResults(l, i) ==
  LET ra == Base(l) + i.a
      t == IF i.b # 0 THEN ra + i.b - 1 ELSE l.top
      count == Max({t - ra, 0})
      closed == luaF_close(l, Base(l))
      moved == Slots(closed, ra, ra + count) \o Slots(closed, Base(l), ra)
      n == Len(l.ci)
  IN [WriteAll(closed, Base(l), moved)
        EXCEPT !.ci[n].baseres = Base(l), !.ci[n].numres = count, !.ci[n].base = @ + count]

\* A try with a finally is left for its clause, and comes back here from it. The
\* record of a protected call has no opcode: what would be done with it depends on
\* what the C stack held, and stands here as a crash.
ExitTry(l, i) ==
  LET pj == Last(l.errorJmp)
      saved == IF i.c = 1 THEN SaveResults(l, i) ELSE l
      left == [saved EXCEPT !.errorJmp = Front(@)]
  IN CASE pj.type # "try" -> [saved EXCEPT !.status = "crashed"]
       [] pj.type = "try" /\ pj.op # "TRYFIN" -> left
       [] pj.type = "try" /\ pj.op = "TRYFIN" ->
            [SetR(left, pj.errobj, Nil) EXCEPT !.pc = pj.dest,
                                                !.fstack = <<[dest |-> l.pc]>> \o @]

\* With an error in its register the finally clause passes it on. Without a
\* record of where to go it reads through a null pointer.
RetFin(l, i) ==
  LET ended == [l EXCEPT !.fstack = Tail(@)]
  IN CASE l.fstack = <<>> -> [l EXCEPT !.status = "crashed"]
       [] l.fstack # <<>> /\ R(l, i.a) # Nil -> luaD_throw([ended EXCEPT !.top = Base(l) + i.a + 1])
       [] l.fstack # <<>> /\ R(l, i.a) = Nil -> [ended EXCEPT !.pc = Head(l.fstack).dest]

luaV_execute(l0, answer) ==
  LET i == At(Fn(l0), l0.pc)
      l == dojump(l0, 1)
  IN CASE i.op = "MOVE" -> SetR(l, i.a, R(l, i.b))
       [] i.op = "LOADK" -> SetR(l, i.a, K(l, i.b))
       [] i.op = "LOADBOOL" -> LoadBool(l, i)
       [] i.op = "LOADNIL" -> LoadNil(l, i)
       [] i.op = "GETUPVAL" -> GetUpval(l, i)
       [] i.op = "SETUPVAL" -> SetUpval(l, i)
       [] i.op = "GETGLOBAL" -> SetR(l, i.a, luaV_gettable(l, Globals, K(l, i.b)))
       [] i.op = "SETGLOBAL" -> luaV_settable(l, Globals, K(l, i.b), R(l, i.a))
       [] i.op = "GETTABLE" -> GetTable(l, i, R(l, i.b), RKValue(l, i.c), i.a)
       [] i.op = "SETTABLE" -> SetTable(l, R(l, i.a), RKValue(l, i.b), RKValue(l, i.c))
       [] i.op = "NEWTABLE" -> NewTable(l, i)
       [] i.op = "SELF" -> Self(l, i)
       [] i.op \in Range(Arithmetic) \cup {"UNM", "BNOT"} -> Arith(l, i)
       [] i.op = "NOT" -> NotOp(l, i)
       [] i.op = "LEN" -> LenOp(l, i)
       [] i.op = "CONCAT" -> Concat(l, i)
       [] i.op = "JMP" -> dojump(l, i.b)
       [] i.op \in {"EQ", "LT", "LE"} -> Compare(l, i)
       [] i.op = "TEST" -> TestOp(l, i)
       [] i.op = "TESTSET" -> TestSet(l, i)
       [] i.op = "CALL" -> Call(l, i, answer)
       [] i.op = "TAILCALL" -> TailCall(l, i, answer)
       [] i.op = "RETURN" -> Return(l, i)
       [] i.op = "FORLOOP" -> ForLoop(l, i)
       [] i.op = "FORPREP" -> ForPrep(l, i)
       [] i.op = "TFORLOOP" -> TForLoop(l, i, answer)
       [] i.op = "SETLIST" -> SetList(l, i)
       [] i.op = "CLOSE" -> luaF_close(l, Base(l) + i.a)
       [] i.op = "CLOSURE" -> ClosureOp(l, i)
       [] i.op = "VARARG" -> VarArg(l, i)
       [] i.op \in {"TRY", "TRYCATCH", "TRYFIN"} -> Try(l, i)
       [] i.op = "EXITTRY" -> ExitTry(l, i)
       [] i.op = "RETFIN" -> RetFin(l, i)

-----------------------------------------------------------------------------
(* A run of a program, as by docall of lua.c *)

Start ==
  LET base == [func |-> 0, base |-> 1, top |-> 21, savedpc |-> 0, nresults |-> 0, baseres |-> 0, numres |-> 0]
      main == [type |-> "main", op |-> "none", old_ci |-> 1, act |-> 0, old_top |-> 1, errobj |-> 0,
               dest |-> 0, old_nexec |-> 0]
  IN [stack |-> [i \in 0 .. StackSize |-> IF i = 1 THEN Closure(1) ELSE Nil], top |-> 2, pc |-> 0,
      ci |-> <<base>>, acts |-> <<>>, errorJmp |-> <<main>>, fstack |-> <<>>, upvals |-> <<>>,
      closures |-> <<[p |-> <<>>, ups |-> <<>>]>>,
      tables |-> <<(Str("ext") :> ext) @@ (Str("pcall") :> pcall)>>,
      log |-> <<>>, answers |-> <<>>, status |-> "running"]

\* A program that is refused is not run.
Init ==
  /\ prog \in Programs
  /\ L = IF prog.err THEN [Start EXCEPT !.status = "refused"] ELSE Start

\* The main function is called.
Begin ==
  /\ L.status = "running" /\ Len(L.ci) = 1
  /\ L' = luaD_call(L, 1, -1, "nil")
  /\ UNCHANGED prog

MayCall(i) == i.op \in {"CALL", "TAILCALL", "TFORLOOP"}

\* One instruction; when it calls ext, ext answers.
Step ==
  /\ L.status = "running" /\ Len(L.ci) > 1
  /\ \E answer \in {"nil"} \cup prog.may :
       /\ answer # "nil" => Len(L.answers) < MaxExt /\ MayCall(At(Fn(L), L.pc))
       /\ L' = luaV_execute(L, answer)
       /\ answer # "nil" => Len(L'.answers) > Len(L.answers)
  /\ UNCHANGED prog

Next == Begin \/ Step

Spec == Init /\ [][Next]_vars

=============================================================================
