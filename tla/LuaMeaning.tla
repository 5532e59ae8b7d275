----------------------------- MODULE LuaMeaning -----------------------------
(***************************************************************************)
(* What a program of Lua means, as the manual tells it: the tree is        *)
(* evaluated as it stands, with a cell for each variable and without       *)
(* registers, jumps, upvalues or handlers. ext answers from a script.      *)
(*                                                                         *)
(* A state has the values of the last expression in vs. When sig is not    *)
(* "none", something ends what is going on: an error, a return, a break    *)
(* or a continue; what comes after it leaves the state as it is.           *)
(***************************************************************************)
EXTENDS LuaVM

Given(script) ==
  [cells |-> <<>>, tables |-> Start.tables, closures |-> <<>>, log |-> <<>>, script |-> script,
   vars |-> <<>>, dots |-> <<>>, vs |-> <<>>, sig |-> "none"]

Ok(s) == s.sig = "none"
Give(s, vs) == IF Ok(s) THEN [s EXCEPT !.vs = vs] ELSE s
End(s, sig, vs) == IF Ok(s) THEN [s EXCEPT !.sig = sig, !.vs = vs] ELSE s
Fail(s) == End(s, "error", <<Message>>)
First(s) == IF s.vs = <<>> THEN Nil ELSE s.vs[1]
Padded(vs, n) == SubSeq(vs \o [i \in 1 .. n |-> Nil], 1, n)

\* The names of the state s are in force again.
Back(s, r) == [r EXCEPT !.vars = s.vars, !.dots = s.dots]

Declare(s, names, vs) ==
  LET cell == [n \in Range(names) |-> Len(s.cells) + Max({i \in DOMAIN names : names[i] = n})]
  IN IF Ok(s) THEN [s EXCEPT !.cells = @ \o Padded(vs, Len(names)), !.vars = cell @@ @] ELSE s

Get(s, t, key) ==
  IF t[1] # "table" THEN Fail(s)
  ELSE Give(s, <<IF key \in DOMAIN s.tables[t[2]] THEN s.tables[t[2]][key] ELSE Nil>>)

Put(s, t, key, v) ==
  IF ~Ok(s) THEN s
  ELSE IF t[1] # "table" \/ key = Nil THEN Fail(s)
  ELSE [s EXCEPT !.tables[t[2]] =
          [k \in (DOMAIN @ \cup {key}) \ (IF v = Nil THEN {key} ELSE {}) |-> IF k = key THEN v ELSE @[k]]]

New(s) == Give([s EXCEPT !.tables = Append(@, <<>>)], <<Table(Len(s.tables) + 1)>>)
Function(s, fn) ==
  Give([s EXCEPT !.closures = Append(@, [fn |-> fn, vars |-> s.vars])], <<Closure(Len(s.closures) + 1)>>)

-----------------------------------------------------------------------------
(* Operators *)

IsOp(a) == a.x = "op"
Between(tokens) == {i \in 2 .. Len(tokens) : IsOp(tokens[i]) /\ ~IsOp(tokens[i - 1])}

\* The operator that is applied last: the loosest one between two operands, the
\* last of several unless they group to the right; 1 for one before its operand.
Root(tokens) ==
  LET level(i) == priority(tokens[i].op)[1]
      loose == {i \in Between(tokens) : level(i) < UNARY_PRIORITY}
      loosest == {i \in loose : \A j \in loose : level(i) <= level(j)}
  IN CASE loose # {} /\ level(Min(loosest)) # 5 -> Max(loosest)
       [] loose # {} /\ level(Min(loosest)) = 5 -> Min(loosest)
       [] loose = {} /\ IsOp(Head(tokens)) -> 1
       [] OTHER -> Min(Between(tokens))

Both(a, b, t) == a[1] = t /\ b[1] = t

OnBits == {"&", "|", "^|", "<<", ">>", ">>>"}

Apply(s, op, a, b) ==
  CASE op = "==" -> Give(s, <<Bool(a = b)>>)
    [] op = "~=" -> Give(s, <<Bool(a # b)>>)
    [] op \in {"<", "<=", ">", ">="} ->
         IF a # Nil /\ b # Nil /\ ~Both(a, b, "number") /\ ~Both(a, b, "string") THEN Fail(s)
         ELSE Give(s, <<Bool(CASE op = "<" -> luaV_lessthan(a, b) [] op = "<=" -> lessequal(a, b)
                               [] op = ">" -> luaV_lessthan(b, a) [] op = ">=" -> lessequal(b, a))>>)
    [] op = ".." ->
         IF {a[1], b[1]} \subseteq {"string", "number"} THEN Give(s, <<Str(tostring(a) \o tostring(b))>>)
         ELSE Fail(s)
    [] op \in OnBits ->
         IF Both(luaV_tonumber(a), luaV_tonumber(b), "number")
         THEN Give(s, <<Number(Numeric(Arithmetic[op], luaV_tonumber(a)[2], luaV_tonumber(b)[2]))>>) ELSE Fail(s)
    [] OTHER ->
         IF Both(a, b, "number") THEN Give(s, <<Number(Numeric(Arithmetic[op], a[2], b[2]))>>) ELSE Fail(s)

Applied(s, op, a) ==
  CASE op = "not" -> Give(s, <<Bool(IsFalse(a))>>)
    [] op = "-" -> IF a[1] = "number" THEN Give(s, <<Number(-a[2])>>) ELSE Fail(s)
    [] op = "~" ->
         IF luaV_tonumber(a)[1] = "number" THEN Give(s, <<Number(-luaV_tonumber(a)[2] - 1)>>) ELSE Fail(s)
    [] op = "#" ->
         (CASE a[1] = "table" -> Give(s, <<Number(luaH_getn(s.tables[a[2]]))>>)
           [] a[1] = "string" -> Give(s, <<Number(Len(a[2]))>>)
           [] OTHER -> Fail(s))

-----------------------------------------------------------------------------
RECURSIVE Eval(_, _), Tree(_, _), Values(_, _), Apply2(_, _, _), Exec(_, _), Looped(_, _, _)

One(s, e) == LET r == Eval(s, e) IN Give(r, <<First(r)>>)
Do(s, stats) == Back(s, FoldLeft(Exec, s, stats))

\* Two expressions, one after the other.
Pair(s, e1, e2) ==
  LET a == One(s, e1) b == One(a, e2) IN Give(b, <<First(a), First(b)>>)

\* The last expression gives all its values.
Values(s, es) ==
  IF es = <<>> THEN Give(s, <<>>)
  ELSE IF Len(es) = 1 THEN Eval(s, es[1])
  ELSE LET a == One(s, Head(es)) r == Values(a, Tail(es)) IN Give(r, <<First(a)>> \o r.vs)

Tree(s, tokens) ==
  LET at == Root(tokens)
      op == tokens[at].op
      left == Tree(s, SubSeq(tokens, 1, at - 1))
      right == Tree(left, SubSeq(tokens, at + 1, Len(tokens)))
      operand == Tree(s, Tail(tokens))
  IN CASE Len(tokens) = 1 -> One(s, tokens[1])
       [] Len(tokens) > 1 /\ at = 1 -> IF Ok(operand) THEN Applied(operand, op, First(operand)) ELSE operand
       [] Len(tokens) > 1 /\ at > 1 /\ op \in {"and", "or"} ->
            IF Ok(left) /\ (IsFalse(First(left)) <=> op = "and") THEN left ELSE right
       [] OTHER -> IF Ok(right) THEN Apply(right, op, First(left), First(right)) ELSE right

\* A call of f with the values args.
Apply2(s, f, args) ==
  LET answer == IF s.script = <<>> THEN "nil" ELSE Head(s.script)
      noted == [s EXCEPT !.log = Append(@, args), !.script = IF @ = <<>> THEN @ ELSE Tail(@)]
      inner == Apply2(s, Head(args), Tail(args))
      c == s.closures[f[2]]
      names == c.fn.params \o (IF c.fn.va THEN <<"arg">> ELSE <<>>)
      extra == SubSeq(args, Len(c.fn.params) + 1, Len(args))
      arg == [i \in {Number(j) : j \in DOMAIN extra} \cup {Str("n")} |->
                IF i = Str("n") THEN Number(Len(extra)) ELSE extra[i[2]]]
      given == Padded(args, Len(c.fn.params)) \o <<Table(Len(s.tables) + 1)>>
      opened == Declare([s EXCEPT !.vars = c.vars, !.dots = extra, !.tables = Append(@, arg)], names, given)
      done == Back(s, FoldLeft(Exec, opened, c.fn.body))
  IN CASE ~Ok(s) -> s
       [] Ok(s) /\ f[1] # "function" -> Fail(s)
       [] Ok(s) /\ f = ext ->
            (CASE answer = "true" -> Give(noted, <<Bool(TRUE)>>)
              [] answer = "nil" -> Give(noted, <<Nil>>)
              [] answer = "raise" -> End(noted, "error", <<Str("raised")>>))
       [] Ok(s) /\ f = pcall ->
            IF args = <<>> THEN Fail(s)
            ELSE [inner EXCEPT !.sig = "none", !.vs = <<Bool(Ok(inner))>> \o @]
       [] OTHER ->
            CASE done.sig = "none" -> Give(done, <<>>)
              [] done.sig = "return" -> [done EXCEPT !.sig = "none"]
              [] done.sig = "error" -> done

Item(s, t, item) ==
  LET kv == Pair(s, item.key, item.e)
      v == Eval(s, item.e)
      place == s.vs[1][2]
      store(r, i) == Put(r, t, Number(place + i), v.vs[i])
      all == FoldLeft(store, v, [i \in DOMAIN v.vs |-> i])
      one == Put(v, t, Number(place + 1), First(v))
  IN IF ~Ok(s) THEN s
     ELSE IF item.x = "rec"
     THEN LET r == IF Ok(kv) THEN Put(kv, t, kv.vs[1], kv.vs[2]) ELSE kv IN Give(r, s.vs)
     ELSE LET r == IF ~Ok(v) THEN v ELSE IF item.last THEN all ELSE one IN Give(r, <<Number(place + 1)>>)

Constructor(s, items) ==
  LET new == New(s)
      r == FoldLeft(LAMBDA g, i : Item(g, new.vs[1], items[i] @@ [last |-> i = Len(items)]),
                    Give(new, <<Number(0)>>), [i \in DOMAIN items |-> i])
  IN Give(r, new.vs)

Eval(s, e) ==
  IF ~Ok(s) THEN s
  ELSE CASE e.x = "num" -> Give(s, <<Number(e.v)>>)
         [] e.x = "str" -> Give(s, <<Str(e.v)>>)
         [] e.x = "nil" -> Give(s, <<Nil>>)
         [] e.x \in {"true", "false"} -> Give(s, <<Bool(e.x = "true")>>)
         [] e.x = "dots" -> Give(s, s.dots)
         [] e.x = "fn" -> Function(s, e)
         [] e.x = "cons" -> Constructor(s, e.items)
         [] e.x = "ops" -> Tree(s, e.tokens)
         [] e.x = "paren" -> One(s, e.e)
         [] e.x = "name" ->
              IF e.n \in DOMAIN s.vars THEN Give(s, <<s.cells[s.vars[e.n]]>>) ELSE Get(s, Globals, Str(e.n))
         [] e.x = "index" -> LET p == Pair(s, e.o, e.key) IN IF Ok(p) THEN Get(p, p.vs[1], p.vs[2]) ELSE p
         [] e.x = "call" ->
              LET f == One(s, e.f) a == Values(f, e.args)
              IN IF Ok(a) THEN Apply2(a, First(f), a.vs) ELSE a
         [] e.x = "method" ->
              LET o == One(s, e.o)
                  f == IF Ok(o) THEN Get(o, First(o), Str(e.n)) ELSE o
                  a == Values(f, e.args)
              IN IF Ok(a) THEN Apply2(a, First(f), <<First(o)>> \o a.vs) ELSE a

-----------------------------------------------------------------------------
(* Statements *)

\* A target is a variable or a table with a key, which are evaluated first.
Target(s, var) ==
  CASE var.x = "name" /\ var.n \in DOMAIN s.vars -> Give(s, <<>>)
    [] var.x = "name" /\ var.n \notin DOMAIN s.vars -> Give(s, <<Globals, Str(var.n)>>)
    [] var.x = "index" -> Pair(s, var.o, var.key)

Targets(s, targets) ==
  FoldLeft(LAMBDA a, var : LET t == Target(a.s, var) IN [s |-> t, ts |-> Append(a.ts, t.vs)],
           [s |-> s, ts |-> <<>>], targets)

Store(s, var, target, v) ==
  CASE ~Ok(s) -> s
    [] Ok(s) /\ target = <<>> -> [s EXCEPT !.cells[s.vars[var.n]] = v]
    [] Ok(s) /\ target # <<>> -> Put(s, target[1], target[2], v)

Assigned(s, targets, exps) ==
  LET t == Targets(s, targets)
      r == Values(t.s, exps)
      vs == Padded(r.vs, Len(targets))
  IN FoldLeft(LAMBDA g, i : Store(g, targets[i], t.ts[i], vs[i]), r, Reverse([i \in DOMAIN targets |-> i]))

\* After a round of a loop: on to the next one.
Round(s) == IF s.sig = "continue" THEN [s EXCEPT !.sig = "none"] ELSE s
Over(s) == IF s.sig = "break" THEN [s EXCEPT !.sig = "none"] ELSE s

\* The rest of a loop; at has what the next round needs: for a numerical for the
\* next index, limit and step, for a generic one the function, state and control.
Looped(s, a, at) ==
  LET test == One(s, a.c)
      goes == Ok(test) /\ ~IsFalse(First(test))
      whiled == Round(Do(test, a.b))
      inside == FoldLeft(Exec, s, a.b)
      until == One(Round(inside), a.c)
      repeated == Back(s, until)
      numbers == \A j \in 1 .. 3 : at[j][1] = "number"
      idx == at[1][2]  step == at[3][2]
      within == IF step > 0 THEN idx <= at[2][2] ELSE at[2][2] <= idx
      numbered == Back(s, Round(FoldLeft(Exec, Declare(s, <<a.n>>, <<at[1]>>), a.b)))
      found == Apply2(s, at[1], <<at[2], at[3]>>)
      listed == Back(s, Round(FoldLeft(Exec, Declare(found, a.names, found.vs), a.b)))
  IN CASE ~Ok(s) -> Over(s)
       [] Ok(s) /\ a.s = "while" -> IF goes THEN Looped(whiled, a, at) ELSE test
       [] Ok(s) /\ a.s = "repeat" ->
            IF ~Ok(until) \/ ~IsFalse(First(until)) THEN Over(repeated) ELSE Looped(repeated, a, at)
       [] Ok(s) /\ a.s = "fornum" ->
            (CASE ~numbers -> Fail(s)
               [] numbers /\ within -> Looped(numbered, a, <<Number(idx + step), at[2], at[3]>>)
               [] OTHER -> s)
       [] Ok(s) /\ a.s = "forlist" ->
            IF ~Ok(found) \/ First(found) = Nil THEN found
            ELSE Looped(listed, a, <<at[1], at[2], First(found)>>)

\* What ended the block goes on after the finally clause, unless that fails.
Tried(s, a) ==
  LET r == Do(s, a.b)
      clean == [r EXCEPT !.sig = "none"]
      caught == Back(s, FoldLeft(Exec, Declare(clean, <<a.n>>, r.vs), a.h))
      after == Do(clean, a.h)
  IN CASE a.kind = "finally" -> IF Ok(after) THEN [after EXCEPT !.sig = r.sig, !.vs = r.vs] ELSE after
       [] a.kind = "catch" /\ r.sig = "error" -> caught
       [] a.kind = "none" /\ r.sig = "error" -> clean
       [] OTHER -> r

RECURSIVE Chosen(_, _, _)
Chosen(s, arms, els) ==
  LET c == One(s, Head(arms).c)
  IN IF arms = <<>> THEN (IF els = <<>> THEN s ELSE Do(s, els[1]))
     ELSE IF ~Ok(c) THEN c
     ELSE IF IsFalse(First(c)) THEN Chosen(c, Tail(arms), els)
     ELSE Do(c, Head(arms).b)

Exec(s, a) ==
  IF ~Ok(s) THEN s
  ELSE CASE a.s = "if" -> Chosen(s, a.arms, a.els)
         [] a.s \in {"while", "repeat"} -> Looped(s, a, <<>>)
         [] a.s = "do" -> Do(s, a.b)
         [] a.s = "fornum" ->
              LET r == Values(s, a.e) IN IF Ok(r) THEN Looped(r, a, r.vs \o <<Number(1)>>) ELSE r
         [] a.s = "forlist" ->
              LET r == Values(s, a.e) IN IF Ok(r) THEN Looped(r, a, Padded(r.vs, 3)) ELSE r
         [] a.s = "try" -> Tried(s, a)
         [] a.s = "local" -> LET r == Values(s, a.e) IN Declare(r, a.names, r.vs)
         [] a.s = "localfn" ->
              LET d == Declare(s, <<a.n>>, <<>>) f == Function(d, a.fn)
              IN [f EXCEPT !.cells[f.vars[a.n]] = f.vs[1]]
         [] a.s = "function" ->
              LET self == IF a.self THEN [a.fn EXCEPT !.params = <<"self">> \o @] ELSE a.fn
              IN Assigned(s, <<a.target>>, <<self>>)
         [] a.s = "assign" -> Assigned(s, a.vars, a.e)
         [] a.s = "call" -> Eval(s, a.e)
         [] a.s = "return" -> LET r == Values(s, a.e) IN End(r, "return", r.vs)
         [] a.s \in {"break", "continue"} -> End(s, a.s, <<>>)

\* The program with the script: what it did, and whether it failed with what.
Seen(v) == IF v[1] \in {"table", "function"} THEN <<v[1], 0>> ELSE v
SeenLog(log) == [i \in DOMAIN log |-> [j \in DOMAIN log[i] |-> Seen(log[i][j])]]

Meaning(text, script) ==
  LET s == FoldLeft(Exec, Given(script), text)
  IN [log |-> SeenLog(s.log), failed |-> s.sig = "error",
      error |-> IF s.sig = "error" THEN Seen(First(s)) ELSE Nil]

=============================================================================
