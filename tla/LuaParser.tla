----------------------------- MODULE LuaParser -----------------------------
(***************************************************************************)
(* src/projects/halelua/src/lparser.c: one operator for each rule of the   *)
(* grammar, which codes what it reads. A program is given as a tree with a *)
(* node for each rule; only the operators of an expression, whose          *)
(* priorities the parser has to see to, come as they are written.          *)
(***************************************************************************)
EXTENDS LuaCode

\* Blocks. isbreakable: 0 for none, 1 for a loop, 2 for a try, 3 for a finally.
Block(fs, isbreakable) ==
  [breaklist |-> NO_JUMP, continuelist |-> NO_JUMP, nactvar |-> fs.nactvar,
   upval |-> FALSE, isbreakable |-> isbreakable]

\* The functions around the one that is compiled are in prev.
NewFunc(prev) ==
  [prev |-> prev, code |-> <<>>, k |-> <<>>, p |-> <<>>, jpc |-> NO_JUMP, lasttarget |-> -1,
   freereg |-> 0, actvar |-> <<>>, nactvar |-> 0, bl |-> <<>>, maxstacksize |-> 2,
   upvalues |-> <<>>, numparams |-> 0, isvararg |-> FALSE, hasarg |-> FALSE, needsarg |-> FALSE,
   err |-> FALSE]

hasmultret(e) == e.k \in {"VCALL", "VVARARG"}

-----------------------------------------------------------------------------
(* Names *)

adjustlocalvars(fs, names) ==
  [fs EXCEPT !.actvar = @ \o names, !.nactvar = @ + Len(names)]
removevars(fs, tolevel) ==
  [fs EXCEPT !.actvar = SubSeq(@, 1, tolevel), !.nactvar = tolevel]

\* The register of the innermost variable with the name, -1 for none.
searchvar(fs, n) == Max({i \in DOMAIN fs.actvar : fs.actvar[i] = n} \cup {0}) - 1

\* The block that declares the variable has to close it.
markupval(fs, level) ==
  LET around == {i \in DOMAIN fs.bl : fs.bl[i].nactvar <= level}
  IN IF around = {} THEN fs ELSE [fs EXCEPT !.bl[Max(around)].upval = TRUE]

indexupvalue(fs, var) ==
  LET up == [k |-> var.k, info |-> var.info]
      known == {i \in DOMAIN fs.upvalues : fs.upvalues[i] = up}
  IN IF known # {} THEN [fs |-> fs, e |-> Desc("VUPVAL", Min(known) - 1)]
     ELSE [fs |-> [fs EXCEPT !.upvalues = Append(@, up)], e |-> Desc("VUPVAL", Len(fs.upvalues))]

RECURSIVE singlevaraux(_, _, _)

singlevaraux(fs, n, base) ==
  LET v == searchvar(fs, n)
      up == singlevaraux(fs.prev[1], n, FALSE)
  IN CASE v >= 0 -> [fs |-> IF base THEN fs ELSE markupval(fs, v), e |-> Desc("VLOCAL", v)]
       [] v < 0 /\ fs.prev = <<>> -> [fs |-> fs, e |-> Desc("VGLOBAL", NO_REG)]
       [] OTHER ->
            IF up.e.k = "VGLOBAL" THEN [fs |-> fs, e |-> up.e]
            ELSE indexupvalue([fs EXCEPT !.prev = <<up.fs>>], up.e)

codestring(fs, s) == [fs |-> addk(fs, Str(s)), e |-> Desc("VK", Const(fs, Str(s)))]

singlevar(fs, n) ==
  LET x == singlevaraux(fs, n, TRUE)
  IN IF x.e.k # "VGLOBAL" THEN x
     ELSE [fs |-> addk(x.fs, Str(n)), e |-> Desc("VGLOBAL", Const(x.fs, Str(n)))]

-----------------------------------------------------------------------------
(* Blocks *)

enterblock(fs, isbreakable) == [fs EXCEPT !.bl = Append(@, Block(fs, isbreakable))]

\* Slip: the variables that functions took with them stay open.
Slipleaveblock(fs) ==
  LET bl == Last(fs.bl)
      left == removevars([fs EXCEPT !.bl = Front(@)], bl.nactvar)
  IN luaK_patchtohere([left EXCEPT !.freereg = bl.nactvar], bl.breaklist)

leaveblock(fs) ==
  LET bl == Last(fs.bl)
      left == removevars([fs EXCEPT !.bl = Front(@)], bl.nactvar)
      closed == IF bl.upval THEN Code(left, "CLOSE", bl.nactvar, 0, 0) ELSE left
  IN luaK_patchtohere([closed EXCEPT !.freereg = bl.nactvar], bl.breaklist)

\* nexps values for nvars variables; x has the last one.
adjust_assign(x, nvars, nexps) ==
  LET extra == nvars - nexps
      wanted == Max({extra + 1, 0})
      open == luaK_setreturns(x.fs, x.e, wanted)
      closed == IF x.e.k = "VVOID" THEN x.fs ELSE luaK_exp2nextreg(x).fs
  IN CASE hasmultret(x.e) -> IF wanted > 1 THEN luaK_reserveregs(open, wanted - 1) ELSE open
       [] ~hasmultret(x.e) /\ extra > 0 -> luaK_nil(luaK_reserveregs(closed, extra), closed.freereg, extra)
       [] OTHER -> closed

-----------------------------------------------------------------------------
(* Expressions *)

RECURSIVE expr(_, _), primaryexp(_, _), explist1(_, _), subexpr(_, _, _), Binary(_, _),
          chunk(_, _)

\* All but the last are put on the stack.
explist1(fs, list) ==
  LET x == expr(fs, Head(list))
  IN IF Len(list) = 1 THEN x ELSE explist1(luaK_exp2nextreg(x).fs, Tail(list))

\* x is the function, in the register before its arguments.
funcargs(x, args) ==
  LET base == x.e.info
      last == explist1(x.fs, args)
      open == args # <<>> /\ hasmultret(last.e)
      fs == CASE args = <<>> -> x.fs
              [] args # <<>> /\ open -> luaK_setreturns(last.fs, last.e, -1)
              [] OTHER -> luaK_exp2nextreg(last).fs
      nparams == IF open THEN -1 ELSE fs.freereg - (base + 1)
      called == Code(fs, "CALL", base, nparams + 1, 2)
  IN [fs |-> [called EXCEPT !.freereg = base + 1], e |-> Desc("VCALL", Pc(called) - 1)]

primaryexp(fs, a) ==
  CASE a.x = "name" -> singlevar(fs, a.n)
    [] a.x = "paren" -> luaK_dischargevars(expr(fs, a.e))
    [] a.x = "index" ->
         LET o == luaK_exp2anyreg(primaryexp(fs, a.o))
         IN luaK_indexed(luaK_exp2val(expr(o.fs, a.key)), o.e)
    [] a.x = "call" -> funcargs(luaK_exp2nextreg(primaryexp(fs, a.f)), a.args)
    [] a.x = "method" ->
         LET o == primaryexp(fs, a.o)
             key == codestring(o.fs, a.n)
         IN funcargs(luaK_self([fs |-> key.fs, e |-> o.e], key.e), a.args)

-----------------------------------------------------------------------------
(* Functions *)

\* close_func: what the machine runs.
Proto(fs) ==
  LET done == luaK_ret(removevars(fs, 0), 0, 0, 0)
  IN [code |-> done.code, k |-> done.k, p |-> done.p, nups |-> Len(done.upvalues),
      maxstacksize |-> done.maxstacksize, numparams |-> done.numparams,
      isvararg |-> done.isvararg, hasarg |-> done.hasarg, needsarg |-> done.needsarg]

\* The closure instruction is followed by one for each upvalue.
pushclosure(func) ==
  LET fs == func.prev[1]
      closure == Code([fs EXCEPT !.p = Append(@, Proto(func)), !.err = @ \/ func.err],
                      "CLOSURE", 0, Len(fs.p), 0)
      capture(g, up) == Code(g, IF up.k = "VLOCAL" THEN "MOVE" ELSE "GETUPVAL", 0, up.info, 0)
  IN [fs |-> FoldLeft(capture, closure, func.upvalues), e |-> Desc("VRELOCABLE", Pc(closure) - 1)]

\* A function with ... has a local variable `arg' as well.
body(fs, fn, needself) ==
  LET names == (IF needself THEN <<"self">> ELSE <<>>) \o fn.params \o (IF fn.va THEN <<"arg">> ELSE <<>>)
      opened == adjustlocalvars(NewFunc(<<fs>>), names)
      declared == [opened EXCEPT !.numparams = Len(names) - (IF fn.va THEN 1 ELSE 0),
                                 !.isvararg = fn.va, !.hasarg = fn.va, !.needsarg = fn.va]
  IN pushclosure(chunk(luaK_reserveregs(declared, Len(names)), fn.body))

-----------------------------------------------------------------------------
(* Table constructors. cc: the function so far, the pending list item, counts. *)

closelistfield(cc, t) ==
  LET fs == luaK_exp2nextreg([fs |-> cc.fs, e |-> cc.v]).fs
      full == cc.tostore = FieldsPerFlush
  IN IF cc.v.k = "VVOID" THEN cc
     ELSE [cc EXCEPT !.fs = IF full THEN luaK_setlist(fs, t, cc.na, cc.tostore) ELSE fs,
                     !.v = Desc("VVOID", 0), !.tostore = IF full THEN 0 ELSE @]

lastlistfield(cc, t) ==
  CASE cc.tostore = 0 -> cc.fs
    [] cc.tostore > 0 /\ hasmultret(cc.v) ->
         luaK_setlist(luaK_setreturns(cc.fs, cc.v, -1), t, cc.na, -1)
    [] OTHER ->
         luaK_setlist(IF cc.v.k = "VVOID" THEN cc.fs ELSE luaK_exp2nextreg([fs |-> cc.fs, e |-> cc.v]).fs,
                      t, cc.na, cc.tostore)

recfield(cc, t, item) ==
  LET key == luaK_exp2RK(luaK_exp2val(expr(cc.fs, item.key)))
      val == luaK_exp2RK(expr(key.fs, item.e))
  IN [cc EXCEPT !.fs = [Code(val.fs, "SETTABLE", t, RK(key.e), RK(val.e)) EXCEPT !.freereg = cc.fs.freereg]]

listfield(cc, item) ==
  LET x == expr(cc.fs, item.e)
  IN [cc EXCEPT !.fs = x.fs, !.v = x.e, !.na = @ + 1, !.tostore = @ + 1]

RECURSIVE items_in(_, _, _)
items_in(cc, t, items) ==
  LET closed == closelistfield(cc, t)
      item == Head(items)
  IN IF cc.fs.err \/ items = <<>> THEN cc
     ELSE items_in(IF item.x = "rec" THEN recfield(closed, t, item) ELSE listfield(closed, item), t, Tail(items))

\* The sizes in the new table's instruction only save it from growing.
constructor(fs, items) ==
  LET pc == Pc(fs)
      t == luaK_exp2nextreg([fs |-> Code(fs, "NEWTABLE", 0, 0, 0), e |-> Desc("VRELOCABLE", pc)])
      cc == [fs |-> t.fs, v |-> Desc("VVOID", 0), na |-> 0, tostore |-> 0]
  IN [fs |-> lastlistfield(items_in(cc, t.e.info, items), t.e.info), e |-> t.e]

simpleexp(fs, a) ==
  CASE a.x = "num" -> [fs |-> fs, e |-> Desc("VKNUM", a.v)]
    [] a.x = "str" -> codestring(fs, a.v)
    [] a.x = "nil" -> [fs |-> fs, e |-> Desc("VNIL", 0)]
    [] a.x = "true" -> [fs |-> fs, e |-> Desc("VTRUE", 0)]
    [] a.x = "false" -> [fs |-> fs, e |-> Desc("VFALSE", 0)]
    [] a.x = "dots" ->
         [fs |-> [Code(fs, "VARARG", 0, 1, 0) EXCEPT !.needsarg = FALSE, !.err = @ \/ ~fs.isvararg],
          e |-> Desc("VVARARG", Pc(fs))]
    [] a.x = "cons" -> constructor(fs, a.items)
    [] a.x = "fn" -> body(fs, a, FALSE)
    [] OTHER -> primaryexp(fs, a)

\* Left and right priority.
priority(op) ==
  CASE op \in {"+", "-", "|", "&", "^|"} -> <<6, 6>>
    [] op \in {"*", "/", "%", "<<", ">>>", ">>", "\\"} -> <<7, 7>>
    [] op = "^" -> <<10, 9>>
    [] op = ".." -> <<5, 4>>
    [] op \in {"==", "~=", "<", "<=", ">", ">="} -> <<3, 3>>
    [] op = "and" -> <<2, 2>>
    [] op = "or" -> <<1, 1>>

UNARY_PRIORITY == 8

\* Operators are read as long as they bind tighter than the one before.
Binary(s, limit) ==
  LET op == Head(s.rest).op
      infix == luaK_infix(op, s.x)
      right == subexpr(infix.fs, Tail(s.rest), priority(op)[2])
  IN IF s.rest = <<>> THEN s
     ELSE IF priority(op)[1] <= limit THEN s
     ELSE Binary([x |-> luaK_posfix(op, infix.e, right.x), rest |-> right.rest], limit)

subexpr(fs, tokens, limit) ==
  LET unary == Head(tokens).x = "op"
      operand == subexpr(fs, Tail(tokens), UNARY_PRIORITY)
      first == IF unary
               THEN [operand EXCEPT !.x = luaK_prefix(Head(tokens).op, operand.x)]
               ELSE [x |-> simpleexp(fs, Head(tokens)), rest |-> Tail(tokens)]
  IN Binary(first, limit)

expr(fs, a) == subexpr(fs, IF a.x = "ops" THEN a.tokens ELSE <<a>>, 0).x

-----------------------------------------------------------------------------
(* Assignments and declarations *)

\* The local variable v is about to be assigned: earlier targets that are indexed
\* with it use a copy.
check_conflict(fs, targets, v) ==
  LET extra == fs.freereg
      uses(e) == e.k = "VINDEXED" /\ v.info \in {e.info, e.aux}
      safe(e) == IF ~uses(e) THEN e
                 ELSE [e EXCEPT !.info = IF @ = v.info THEN extra ELSE @,
                                !.aux = IF @ = v.info THEN extra ELSE @]
      copied == luaK_reserveregs(Code(fs, "MOVE", extra, v.info, 0), 1)
  IN IF \E i \in DOMAIN targets : uses(targets[i])
     THEN [fs |-> copied, targets |-> [i \in DOMAIN targets |-> safe(targets[i])]]
     ELSE [fs |-> fs, targets |-> targets]

\* The values are stored from the last target to the first. The last value is
\* stored directly when there are as many values as targets.
assignment(fs, vars, exps) ==
  LET read(a, var) ==
        LET x == primaryexp(a.fs, var)
            c == IF x.e.k = "VLOCAL" THEN check_conflict(x.fs, a.targets, x.e)
                 ELSE [fs |-> x.fs, targets |-> a.targets]
        IN [c EXCEPT !.targets = Append(@, x.e)]
      all == FoldLeft(read, [fs |-> fs, targets |-> <<>>], vars)
      e == explist1(all.fs, exps)
      same == Len(vars) = Len(exps)
      one == luaK_setoneret(e)
      adjusted == [adjust_assign(e, Len(vars), Len(exps))
                     EXCEPT !.freereg = @ - Max({0, Len(exps) - Len(vars)})]
      store(g, var) == luaK_storevar(g, var, Desc("VNONRELOC", g.freereg - 1))
  IN IF same
     THEN FoldLeft(store, luaK_storevar(one.fs, Last(all.targets), one.e),
                   Reverse(Front(all.targets)))
     ELSE FoldLeft(store, adjusted, Reverse(all.targets))

localstat(fs, names, exps) ==
  LET x == IF exps = <<>> THEN [fs |-> fs, e |-> Desc("VVOID", 0)] ELSE explist1(fs, exps)
  IN adjustlocalvars(adjust_assign(x, Len(names), Len(exps)), names)

localfunc(fs, n, fn) ==
  LET reg == fs.freereg
      b == body(adjustlocalvars(luaK_reserveregs(fs, 1), <<n>>), fn, FALSE)
  IN luaK_storevar(b.fs, Desc("VLOCAL", reg), b.e)

funcstat(fs, target, needself, fn) ==
  LET v == primaryexp(fs, target)
      b == body(v.fs, fn, needself)
  IN luaK_storevar(b.fs, v.e, b.e)

\* A call as a statement uses no results.
exprstat(fs, a) == LET x == primaryexp(fs, a) IN Set(x.fs, x.e.info, "c", 1)

-----------------------------------------------------------------------------
(* Conditions and loops *)

block(fs, stats) == leaveblock(chunk(enterblock(fs, 0), stats))

\* The list of jumps that leave when the condition is false.
cond(fs, a) ==
  LET x == expr(fs, a)
      v == luaK_goiftrue(IF x.e.k = "VNIL" THEN [x EXCEPT !.e.k = "VFALSE"] ELSE x)
  IN [fs |-> v.fs, exit |-> v.e.f]

\* A jump that is put on the list of the block.
JumpFrom(fs, i, list) ==
  LET j == luaK_jump(fs)
      bl == j.bl[i]
  IN [Linked(j, bl[list], Pc(fs)) EXCEPT !.bl[i][list] = Joined(@, Pc(fs))]

CloseDown(fs, bl, inner) ==
  IF \E i \in DOMAIN inner : inner[i].upval THEN Code(fs, "CLOSE", bl.nactvar, 0, 0) ELSE fs

\* Slip: the handlers of the try statements around stay.
Slipbreakstat(fs) ==
  LET loops == {i \in DOMAIN fs.bl : fs.bl[i].isbreakable = 1}
      l == Max(loops)
      inner == SubSeq(fs.bl, l + 1, Len(fs.bl))
  IN IF loops = {} \/ \E i \in DOMAIN inner : inner[i].isbreakable = 3 THEN [fs EXCEPT !.err = TRUE]
     ELSE JumpFrom(CloseDown(fs, fs.bl[l], inner), l, "breaklist")

\* Every try between here and the loop is left.
breakstat(fs) ==
  LET loops == {i \in DOMAIN fs.bl : fs.bl[i].isbreakable = 1}
      l == Max(loops)
      inner == SubSeq(fs.bl, l + 1, Len(fs.bl))
      exit(g, bl) == IF bl.isbreakable = 2 THEN Code(g, "EXITTRY", 0, 0, 0) ELSE g
  IN IF loops = {} \/ \E i \in DOMAIN inner : inner[i].isbreakable = 3 THEN [fs EXCEPT !.err = TRUE]
     ELSE JumpFrom(CloseDown(FoldLeft(exit, fs, inner), fs.bl[l], inner), l, "breaklist")

\* The search ends at the first block that is a loop, a try or a finally.
continuestat(fs) ==
  LET breakable == {i \in DOMAIN fs.bl : fs.bl[i].isbreakable # 0}
      l == Max(breakable)
  IN IF breakable = {} THEN [fs EXCEPT !.err = TRUE]
     ELSE JumpFrom(CloseDown(fs, fs.bl[l], SubSeq(fs.bl, l + 1, Len(fs.bl))), l, "continuelist")

whilestat(fs, a, stats) ==
  LET init == Pc(fs)
      c == cond(luaK_getlabel(fs), a)
      inside == block(enterblock(c.fs, 1), stats)
      back == luaK_patchlist(luaK_jump(inside), Pc(inside), init)
      again == luaK_patchlist(back, Last(back.bl).continuelist, init)
  IN luaK_patchtohere(leaveblock(again), c.exit)

\* The condition can use the variables of the block. When one of them has to be
\* closed, the way out is a break.
repeatstat(fs, stats, a) ==
  LET init == Pc(fs)
      inside == chunk(enterblock(enterblock(luaK_getlabel(fs), 1), 0), stats)
      here == luaK_patchtohere(inside, inside.bl[Len(inside.bl) - 1].continuelist)
      c == cond(here, a)
      out == leaveblock(luaK_patchtohere(breakstat(c.fs), c.exit))
  IN IF Last(c.fs.bl).upval
     THEN leaveblock(luaK_patchlist(luaK_jump(out), Pc(out), init))
     ELSE leaveblock(luaK_patchlist(leaveblock(c.fs), c.exit, init))

forbody(fs, base, control, names, isnum, stats) ==
  LET ready == adjustlocalvars(fs, control)
      prep == Pc(ready)
      begun == IF isnum THEN Code(ready, "FORPREP", base, NO_JUMP, 0) ELSE luaK_jump(ready)
      inside == luaK_reserveregs(adjustlocalvars(enterblock(begun, 0), names), Len(names))
      over == luaK_patchtohere(leaveblock(block(inside, stats)), prep)
      here == luaK_patchtohere(over, Last(over.bl).continuelist)
      ended == IF isnum THEN Code(here, "FORLOOP", base, NO_JUMP, 0)
               ELSE luaK_jump(Code(here, "TFORLOOP", base, 0, Len(names)))
  IN luaK_patchlist(ended, IF isnum THEN Pc(here) ELSE Pc(here) + 1, prep + 1)

\* exps: the first value, the limit, and a step or none.
fornum(fs, name, exps, stats) ==
  LET exp1(g, a) == luaK_exp2nextreg(expr(g, a)).fs
      set == FoldLeft(exp1, fs, exps)
      one == luaK_reserveregs(Code(addk(set, Number(1)), "LOADK", set.freereg, Const(set, Number(1)), 0), 1)
  IN forbody(IF Len(exps) = 3 THEN set ELSE one, fs.freereg,
             <<"(for index)", "(for limit)", "(for step)">>, <<name>>, TRUE, stats)

forlist(fs, names, exps, stats) ==
  LET set == luaK_checkstack(adjust_assign(explist1(fs, exps), 3, Len(exps)), 3)
  IN forbody(set, fs.freereg, <<"(for generator)", "(for state)", "(for control)">>, names, FALSE, stats)

forstat(fs, a) ==
  LET loop == enterblock(fs, 1)
  IN leaveblock(IF a.s = "fornum" THEN fornum(loop, a.n, a.e, a.b) ELSE forlist(loop, a.names, a.e, a.b))

\* One arm of an if: flist are the jumps of its false condition, escape those of
\* the arms before it that go behind the whole.
test_then_block(a, arm) ==
  LET c == cond(a.fs, arm.c)
  IN [a EXCEPT !.fs = block(c.fs, arm.b), !.flist = c.exit]

Otherwise(a) ==
  LET j == luaK_jump(a.fs)
  IN [a EXCEPT !.fs = luaK_patchtohere(Linked(j, a.escape, Pc(a.fs)), a.flist),
               !.escape = Joined(@, Pc(a.fs))]

\* els is empty or has one block.
ifstat(fs, arms, els) ==
  LET none == [fs |-> fs, flist |-> NO_JUMP, escape |-> NO_JUMP]
      elseif(a, arm) == test_then_block(Otherwise(a), arm)
      tested == FoldLeft(elseif, test_then_block(none, Head(arms)), Tail(arms))
      last == Otherwise(tested)
  IN IF els = <<>>
     THEN luaK_patchtohere(Linked(tested.fs, tested.escape, tested.flist),
                           Joined(tested.escape, tested.flist))
     ELSE luaK_patchtohere(block(last.fs, els[1]), last.escape)

-----------------------------------------------------------------------------
(* Try statements, return *)

\* The instruction at pc becomes op and leads here; the block is no try any more.
Handler(fs, pc, op, isbreakable) ==
  LET left == luaK_jump(Code(fs, "EXITTRY", 0, 0, 0))
  IN [luaK_patchtohere(Set(left, pc, "op", op), pc)
        EXCEPT !.bl[Len(left.bl)].isbreakable = isbreakable]

\* a.h is what follows catch or finally.
trystat(fs, a) ==
  LET base == fs.freereg
      opened == luaK_reserveregs(adjustlocalvars(enterblock(fs, 2), <<"(error obj)">>), 1)
      pc == Pc(opened)
      tried == chunk(Code(opened, "TRY", base, NO_JUMP, 0), a.b)
      escape == Pc(tried) + 1
      caught == Handler(tried, pc, "TRYCATCH", 0)
      errobj == caught.freereg
      named == luaK_reserveregs(adjustlocalvars(caught, <<a.n>>), 1)
      catch == block(Code(named, "MOVE", errobj, base, 0), a.h)
      finally == Code(block(Handler(tried, pc, "TRYFIN", 3), a.h), "RETFIN", base, 0, 0)
  IN CASE a.kind = "catch" -> luaK_patchtohere(leaveblock(catch), escape)
       [] a.kind = "finally" -> luaK_patchtohere(leaveblock(finally), escape)
       [] a.kind = "none" -> luaK_patchtohere(leaveblock(Code(tried, "EXITTRY", 0, 0, 0)), pc)

\* Every try around is left first; the first one saves what is returned.
ExitTries(fs, first, nret) ==
  LET tries == SelectSeq(fs.bl, LAMBDA bl : bl.isbreakable = 2)
      saved == Code(fs, "EXITTRY", first, nret + 1, 1)
      exits == IF tries = <<>> THEN fs
               ELSE FoldLeft(LAMBDA g, bl : Code(g, "EXITTRY", 0, 0, 0), saved, Tail(tries))
  IN [luaK_ret(exits, first, nret, IF tries = <<>> THEN 0 ELSE 1)
        EXCEPT !.err = @ \/ \E i \in DOMAIN fs.bl : fs.bl[i].isbreakable = 3]

retstat(fs, exps) ==
  LET x == explist1(fs, exps)
      open == luaK_setreturns(x.fs, x.e, -1)
      tail == x.e.k = "VCALL" /\ Len(exps) = 1
      any == luaK_exp2anyreg(x)
  IN CASE exps = <<>> -> ExitTries(fs, 0, 0)
       [] exps # <<>> /\ hasmultret(x.e) ->
            ExitTries(IF tail THEN Set(open, x.e.info, "op", "TAILCALL") ELSE open, fs.nactvar, -1)
       [] Len(exps) = 1 /\ ~hasmultret(x.e) -> ExitTries(any.fs, any.e.info, 1)
       [] OTHER -> ExitTries(luaK_exp2nextreg(x).fs, fs.nactvar, Len(exps))

-----------------------------------------------------------------------------
statement(fs, a) ==
  CASE a.s = "if" -> ifstat(fs, a.arms, a.els)
    [] a.s = "while" -> whilestat(fs, a.c, a.b)
    [] a.s = "do" -> block(fs, a.b)
    [] a.s \in {"fornum", "forlist"} -> forstat(fs, a)
    [] a.s = "repeat" -> repeatstat(fs, a.b, a.c)
    [] a.s = "function" -> funcstat(fs, a.target, a.self, a.fn)
    [] a.s = "try" -> trystat(fs, a)
    [] a.s = "localfn" -> localfunc(fs, a.n, a.fn)
    [] a.s = "local" -> localstat(fs, a.names, a.e)
    [] a.s = "return" -> retstat(fs, a.e)
    [] a.s = "break" -> breakstat(fs)
    [] a.s = "continue" -> continuestat(fs)
    [] a.s = "call" -> exprstat(fs, a.e)
    [] a.s = "assign" -> assignment(fs, a.vars, a.e)

\* The registers of temporaries are free after each statement. Nothing is read
\* after an error.
chunk(fs, stats) ==
  IF fs.err \/ stats = <<>> THEN fs
  ELSE LET done == statement(fs, Head(stats))
       IN chunk([done EXCEPT !.freereg = done.nactvar], Tail(stats))

\* luaY_parser: the main function takes any arguments; err: it was refused.
luaY_parser(stats) ==
  LET fs == chunk([NewFunc(<<>>) EXCEPT !.isvararg = TRUE], stats)
  IN [f |-> Proto(fs), err |-> fs.err]

=============================================================================
