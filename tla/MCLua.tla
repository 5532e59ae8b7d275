------------------------------- MODULE MCLua -------------------------------
(***************************************************************************)
(* Programs for the compiler and the machine, made from the forms of the   *)
(* language, and what is asked of their runs.                              *)
(***************************************************************************)
EXTENDS LuaMeaning, LuaCheck

-----------------------------------------------------------------------------
(* Forms *)

N(n) == [x |-> "name", n |-> n]
V(v) == [x |-> "num", v |-> v]
S(s) == [x |-> "str", v |-> s]
True == [x |-> "true"]
Nothing == [x |-> "nil"]
Dots == [x |-> "dots"]
Op(o) == [x |-> "op", op |-> o]
Ops(tokens) == [x |-> "ops", tokens |-> tokens]
Paren(e) == [x |-> "paren", e |-> e]
CallOf(f, args) == [x |-> "call", f |-> f, args |-> args]
Method(o, n, args) == [x |-> "method", o |-> o, n |-> n, args |-> args]
Index(o, key) == [x |-> "index", o |-> o, key |-> key]
Fun(params, va, stats) == [x |-> "fn", params |-> params, va |-> va, body |-> stats]
NewT(items) == [x |-> "cons", items |-> items]
Rec(key, e) == [x |-> "rec", key |-> key, e |-> e]
List(e) == [x |-> "list", e |-> e]

Ext(args) == CallOf(N("ext"), args)
Tell(args) == [s |-> "call", e |-> Ext(args)]
Local(names, es) == [s |-> "local", names |-> names, e |-> es]
Assign(vs, es) == [s |-> "assign", vars |-> vs, e |-> es]
Ret(es) == [s |-> "return", e |-> es]
If(c, b, els) == [s |-> "if", arms |-> <<[c |-> c, b |-> b]>>, els |-> els]
While(c, b) == [s |-> "while", c |-> c, b |-> b]
TryOf(b, kind, h) == [s |-> "try", b |-> b, kind |-> kind, n |-> "err", h |-> h]

-----------------------------------------------------------------------------
(* Expressions, each used as a condition, an argument, the value of a new   *)
(* variable and of one it reads, and a result.                             *)

Used(e) ==
  << Local(<<"a", "b", "t">>, <<V(2), Nothing, NewT(<<List(V(3)), Rec(S("k"), V(4))>>)>>),
     [s |-> "localfn", n |-> "f", fn |-> Fun(<<"p">>, TRUE, <<Ret(<<N("a"), Dots>>)>>)],
     If(e, <<Tell(<<V(1)>>)>>, <<<<Tell(<<V(0)>>)>>>>),
     Local(<<"c">>, <<e>>),
     Tell(<<N("c"), e>>),
     Assign(<<N("b")>>, <<e>>),
     Tell(<<N("b"), Paren(e)>>),
     Assign(<<Index(N("t"), S("k")), N("g")>>, <<e, e>>),
     Tell(<<Index(N("t"), S("k")), N("g"), CallOf(Paren(Fun(<<>>, TRUE, <<Ret(<<e>>)>>)), <<V(6), Nothing>>)>>) >>

\* x and y or z, with nots, groups, comparisons and calls.
Conditions ==
  LET Nots == {<<>>, <<Op("not")>>}
      Junctions == {"and", "or"}
      First3 == {N("b"), V(0), Ext(<<>>)}
      Then3 == {<<N("a")>>, <<Nothing>>, <<N("a"), Op("<"), V(3)>>, <<N("g"), Op("~="), N("b")>>}
      Else3 == {N("g"), True, Ext(<<V(5)>>)}
  IN {Ops(n \o <<x, Op(o1)>> \o y \o <<Op(o2), z>>) :
        n \in Nots, x \in First3, o1 \in Junctions, y \in Then3, o2 \in Junctions, z \in Else3}
     \cup {Ops(n \o <<Paren(Ops(<<x, Op(o1)>> \o y)), Op(o2)>> \o n \o <<z>>) :
        n \in Nots, x \in First3, o1 \in Junctions, y \in Then3, o2 \in Junctions, z \in Else3}

\* 7 op 2 op 3, with numerals, a variable, a field and groups in their places.
Calculations ==
  LET Operators == {"+", "-", "*", "%", "&", "|", "^|", "<<", "==", "<", ">="}
      Two == {V(2), N("a"), Paren(Ops(<<N("a"), Op("+"), V(0)>>))}
  IN {Ops(<<x, Op(o1), y, Op(o2), z>>) :
        x \in {V(7)}, o1 \in Operators, y \in Two, o2 \in Operators, z \in {V(3), Index(N("t"), V(1))}}
     \cup {Ops(<<V(2), Op("^"), N("a"), Op("^"), V(2)>>), Ops(<<Op("-"), N("a"), Op("^"), V(2)>>),
           Ops(<<Op("-"), V(2), Op("+"), Op("~"), N("a")>>), Ops(<<Op("not"), N("a"), Op("=="), Nothing>>),
           Ops(<<Op("#"), N("t"), Op(">>"), V(0), Op("\\"), V(1)>>), Ops(<<V(6), Op("/"), V(3), Op("*"), N("a")>>),
           Ops(<<S("x"), Op(".."), S("y"), Op(".."), N("a"), Op("+"), V(1), Op("=="), S("xy3")>>),
           Ops(<<S("x"), Op(".."), Ext(<<>>), Op(".."), S("y")>>), Ops(<<Op("-"), N("t")>>),
           Ops(<<S("x"), Op("<"), S("y")>>), Ops(<<S("x"), Op(".."), S("y"), Op("<="), S("x")>>),
           Ops(<<S("y"), Op(">="), N("a")>>), Ops(<<S("6"), Op("&"), V(3), Op("|"), S("12")>>),
           Ops(<<N("a"), Op("<<"), S("x")>>), Ops(<<Op("~"), S("5")>>), Ops(<<S("6"), Op("+"), V(3)>>),
           Dots, Nothing, CallOf(N("f"), <<>>), CallOf(N("f"), <<V(1), V(2), CallOf(N("f"), <<V(1), V(3)>>)>>),
           CallOf(Paren(Fun(<<"p", "q">>, FALSE, <<Ret(<<N("q"), N("a")>>)>>)), <<V(1), Dots>>),
           Index(N("a"), V(1)), Index(N("t"), N("b")), N("pcall"),
           NewT(<<List(N("a")), Rec(V(2), V(9)), List(CallOf(N("f"), <<V(1), V(8)>>))>>)}

Expressions == {Used(e) : e \in Conditions \cup Calculations}

-----------------------------------------------------------------------------
(* Control: a body in one form in another *)

Loops == {"while", "repeat", "fornum", "forlist"}
Tries == {"tried caught", "tried finally", "tried"}
Forms == Loops \cup Tries \cup {"if", "do", "catch", "finally", "function"}

In(form, b) ==
  CASE form = "while" -> <<While(Ext(<<V(1)>>), b)>>
    [] form = "repeat" ->
         <<[s |-> "repeat", b |-> <<Local(<<"u">>, <<Ext(<<V(2)>>)>>)>> \o b,
            c |-> Ops(<<Op("not"), N("u")>>)]>>
    [] form = "fornum" -> <<[s |-> "fornum", n |-> "i", e |-> <<V(1), V(2)>>, b |-> b \o <<Tell(<<N("i")>>)>>]>>
    [] form = "forlist" -> <<[s |-> "forlist", names |-> <<"k", "w">>, e |-> <<N("ext"), V(4)>>, b |-> b]>>
    [] form = "if" -> <<If(Ext(<<V(5)>>), b, <<<<Tell(<<V(6)>>)>>>>)>>
    [] form = "do" -> <<[s |-> "do", b |-> <<Local(<<"d">>, <<N("n")>>)>> \o b]>>
    [] form = "tried caught" -> <<TryOf(b, "catch", <<Tell(<<N("err")>>)>>)>>
    [] form = "catch" -> <<TryOf(<<Tell(<<V(10)>>)>>, "catch", <<Tell(<<N("err")>>)>> \o b)>>
    [] form = "tried finally" -> <<TryOf(b, "finally", <<Tell(<<N("n")>>)>>)>>
    [] form = "finally" -> <<TryOf(<<Tell(<<V(11)>>)>>, "finally", b)>>
    [] form = "tried" -> <<TryOf(b, "none", <<>>)>>
    [] form = "function" -> <<Local(<<"r">>, <<CallOf(Paren(Fun(<<>>, FALSE, b)), <<>>)>>), Tell(<<N("r")>>)>>

Count == Assign(<<N("n")>>, <<Ops(<<N("n"), Op("+"), V(1)>>)>>)
Bodies == {"tell", "break", "continue", "return", "return two", "fail", "capture"}

Body(kind) ==
  CASE kind = "tell" -> <<Tell(<<N("n")>>), Count>>
    [] kind = "break" -> <<Count, If(Ext(<<N("n")>>), <<[s |-> "break"]>>, <<>>), Count>>
    [] kind = "continue" -> <<Count, If(Ext(<<N("n")>>), <<[s |-> "continue"]>>, <<>>), Count>>
    [] kind = "return" -> <<Count, If(Ext(<<N("n")>>), <<Ret(<<V(7)>>)>>, <<>>)>>
    [] kind = "return two" -> <<Count, If(Ext(<<N("n")>>), <<Ret(<<Ops(<<N("n"), Op("+"), V(5)>>), V(8)>>)>>, <<>>)>>
    [] kind = "fail" -> <<Count, Assign(<<N("n")>>, <<Ops(<<N("n"), Op("+"), Nothing>>)>>)>>
    [] kind = "capture" ->
         <<Local(<<"z">>, <<N("n")>>), Count,
           Local(<<"old">>, <<N("last")>>),
           Assign(<<N("last")>>, <<Fun(<<>>, FALSE, <<Assign(<<N("z")>>, <<Ops(<<N("z"), Op("+"), V(10)>>)>>), Ret(<<N("z")>>)>>)>>),
           If(N("old"), <<Tell(<<CallOf(N("old"), <<>>), CallOf(N("last"), <<>>)>>)>>, <<>>)>>

\* Without the forms the code does not handle: a continue in a try or a finally
\* clause goes nowhere (see MCTried), a variable that a function takes out of a try
\* block stays open, and an error that is caught inside of a finally clause frees
\* what the end of the clause reads (ldo.c 98, lvm.c 970).
Handled(outer, inner, kind) ==
  LET inTry == {outer, inner} \cap Tries # {}
      stuck == inner \in Tries \cup {"finally"} \/ (inner \notin Loops /\ outer \in Tries \cup {"finally"})
  IN /\ kind = "capture" => ~inTry
     /\ kind = "continue" => ~stuck
     /\ outer = "finally" => inner \notin {"tried caught", "tried", "catch"}

Run(stats) ==
  <<Local(<<"n", "last">>, <<V(0)>>)>> \o stats \o
  <<Tell(<<N("n")>>), If(N("last"), <<Tell(<<CallOf(N("last"), <<>>)>>)>>, <<>>)>>

Controls ==
  {Run(In(x[1], In(x[2], Body(x[3])))) : x \in {y \in Forms \X Forms \X Bodies : Handled(y[1], y[2], y[3])}}

-----------------------------------------------------------------------------
(* Assignments, calls and functions *)

Examples ==
  { \* The targets of an assignment use the old values.
    <<Local(<<"i", "t">>, <<V(1), NewT(<<>>)>>),
      Assign(<<N("i"), Index(N("t"), N("i"))>>, <<Ops(<<N("i"), Op("+"), V(1)>>), V(20)>>),
      Assign(<<Index(N("t"), V(2)), N("t"), Index(N("t"), V(3))>>, <<V(5), N("t"), V(6), Ext(<<>>)>>),
      Tell(<<N("i"), Index(N("t"), V(1)), Index(N("t"), V(2)), Index(N("t"), V(3))>>)>>,
    \* Several results, more and fewer than asked for.
    <<[s |-> "localfn", n |-> "f", fn |-> Fun(<<"x">>, TRUE, <<Ret(<<Dots>>)>>)],
      Local(<<"a", "b", "c">>, <<CallOf(N("f"), <<V(1), V(2), V(3)>>)>>),
      Assign(<<N("a"), N("c")>>, <<V(7), CallOf(N("f"), <<>>)>>),
      Assign(<<N("b"), N("d")>>, <<CallOf(N("f"), <<V(0), N("b"), V(9)>>)>>),
      Tell(<<N("a"), N("b"), N("c"), N("d"), Paren(CallOf(N("f"), <<V(1), V(2), V(3)>>))>>),
      Ret(<<CallOf(N("f"), <<V(1), CallOf(N("ext"), <<Dots>>)>>)>>)>>,
    \* Methods, and a function with the table `arg'.
    <<Local(<<"o">>, <<NewT(<<Rec(S("v"), V(3))>>)>>),
      [s |-> "function", target |-> Index(N("o"), S("get")), self |-> TRUE,
       fn |-> Fun(<<"p">>, TRUE, <<Ret(<<Index(N("self"), S("v")), N("p"), Index(N("arg"), S("n")), Index(N("arg"), V(1))>>)>>)],
      Tell(<<Method(N("o"), "get", <<V(1), V(2), V(3)>>)>>),
      Tell(<<Method(N("o"), "none", <<>>)>>)>>,
    \* Recursion and a call in the place of a return.
    <<[s |-> "localfn", n |-> "sum",
       fn |-> Fun(<<"k", "acc">>, FALSE,
         <<If(Ops(<<N("k"), Op("=="), V(0)>>), <<Ret(<<N("acc")>>)>>, <<>>),
           Ret(<<CallOf(N("sum"), <<Ops(<<N("k"), Op("-"), V(1)>>), Ops(<<N("acc"), Op("+"), N("k")>>)>>)>>)>>)],
      Tell(<<CallOf(N("sum"), <<V(3), V(0)>>)>>), Ret(<<CallOf(N("ext"), <<V(1)>>)>>)>>,
    \* Two functions share a variable, which outlives its block.
    <<Local(<<"inc", "get">>, <<>>),
      [s |-> "fornum", n |-> "i", e |-> <<V(3), V(1), Ops(<<Op("-"), V(1)>>)>>, b |->
        <<Local(<<"v">>, <<N("i")>>),
          If(Ops(<<N("i"), Op("=="), V(2)>>),
             <<Assign(<<N("inc")>>, <<Fun(<<>>, FALSE, <<Assign(<<N("v")>>, <<Ops(<<N("v"), Op("*"), V(2)>>)>>)>>)>>),
               Assign(<<N("get")>>, <<Fun(<<>>, FALSE, <<Ret(<<Fun(<<>>, FALSE, <<Ret(<<N("v"), N("i")>>)>>)>>)>>)>>)>>, <<>>)>>],
      [s |-> "call", e |-> CallOf(N("inc"), <<>>)],
      Tell(<<CallOf(CallOf(N("get"), <<>>), <<>>)>>)>>,
    \* Protected calls, with an error in a function and in what it calls.
    <<[s |-> "localfn", n |-> "f", fn |-> Fun(<<"x">>, FALSE, <<Tell(<<N("x")>>), Ret(<<V(1), Ext(<<V(2)>>)>>)>>)],
      Tell(<<CallOf(N("pcall"), <<N("f"), V(3)>>)>>),
      Tell(<<CallOf(N("pcall"), <<N("pcall"), N("ext")>>)>>),
      Tell(<<CallOf(N("pcall"), <<V(4)>>)>>), Tell(<<CallOf(N("pcall"), <<N("pcall")>>)>>),
      TryOf(<<Tell(<<CallOf(N("pcall"), <<N("f")>>)>>), [s |-> "call", e |-> CallOf(N("pcall"), <<>>)]>>, "catch",
          <<Tell(<<N("err")>>)>>)>>,
    \* More elements than are stored at once, and all values of the last one.
    <<Local(<<"t">>, <<NewT([i \in 1 .. 7 |-> List(V(i))] \o <<Rec(S("x"), V(0)), List(CallOf(N("pcall"), <<N("ext")>>))>>)>>),
      Tell(<<Index(N("t"), V(3)), Index(N("t"), V(7)), Index(N("t"), V(8)), Index(N("t"), V(9)), Ops(<<Op("#"), N("t")>>)>>)>>,
    \* elseif
    <<[s |-> "if", arms |-> <<[c |-> Ext(<<V(1)>>), b |-> <<Local(<<"x">>, <<>>), Tell(<<N("x")>>)>>],
                              [c |-> Nothing, b |-> <<Tell(<<V(2)>>)>>], [c |-> Ext(<<V(3)>>), b |-> <<Tell(<<V(3)>>)>>]>>, els |-> <<>>],
      Local(<<"x", "y">>, <<>>), Tell(<<N("x"), N("y")>>)>>,
    \* Refused: a break without a loop, and ... in a function without them.
    <<[s |-> "break"]>>,
    <<Ret(<<Fun(<<"p">>, FALSE, <<Ret(<<Dots>>)>>)>>)>>
  }

-----------------------------------------------------------------------------
(* What TLC is given: programs as the compiler makes them, and what they mean *)

MCCollation == <<"x", "xy", "y">>

CONSTANT Meanings \* of each tree, with what ext answers

\* Programs with what the compiler makes of them.
Made(texts, may) ==
  LET program(text, made) == [text |-> text, may |-> may, f |-> made.f, err |-> made.err]
  IN {program(text, luaY_parser(text)) : text \in texts}

MCPrograms ==
  LET quiet == Made(Expressions, {"true"})
      raising == Made(Controls \cup Examples, {"true", "raise"})
  IN quiet \cup raising

\* A continue in a try statement in a loop.
MCTried ==
  LET tried == {Run(In(loop, In(try, Body("continue")))) : loop \in Loops, try \in Tries}
  IN Made(tried, {"true", "raise"})

MCMeanings ==
  LET texts == Expressions \cup Controls \cup Examples
      scripts == Seq({"true", "raise", "nil"})
  IN [text \in texts |-> [script \in scripts |-> Meaning(text, script)]]

-----------------------------------------------------------------------------
(* Properties *)

Runs == L.status = "running" /\ Len(L.ci) > 1

\* What the program did and how it ended, as in Meaning.
Outcome ==
  [log |-> SeenLog(L.log), failed |-> L.status = "failed",
   error |-> IF L.status = "failed" THEN Seen(L.stack[0]) ELSE Nil]

\* The compiled program calls ext with the values, in the order and with the end
\* the program as it is written has, when ext gives the same answers: through
\* registers, jump lists, shared variables, handlers and finally clauses nothing
\* of its meaning is lost. Nor does the machine read through a null pointer
\* (lparser.c, lcode.c, lvm.c, ldo.c, lfunc.c).
SameMeaning ==
  /\ L.status # "crashed"
  /\ L.status \in {"finished", "failed"} => Outcome = Meanings[prog.text][L.answers]

RECURSIVE Saves(_)
Saves(pt) == (\E i \in DOMAIN pt.code : pt.code[i].op = "EXITTRY" /\ pt.code[i].c = 1) \/ \E i \in DOMAIN pt.p : Saves(pt.p[i])

\* Every function that is compiled passes the check that is asserted of it and
\* that a dumped chunk has to pass (lparser.c 376, lundump.c 176). A return in a
\* try statement is left out: its instructions have operands that
\* luaG_checkcode does not know.
CodeIsAccepted == L.status = "running" /\ Len(L.ci) = 1 /\ ~Saves(prog.f) => luaG_checkcode(prog.f)

\* An instruction that does not take all values up to the top finds the top at
\* the end of its frame (lvm.c 493). Every handler belongs to an activation and
\* a function that have not returned, and none is left at the end (ldo.c 93).
StackDiscipline ==
  /\ Runs => L.top = Last(L.ci).top \/ luaG_checkopenop(At(Fn(L), L.pc))
  /\ \A j \in DOMAIN L.errorJmp : L.errorJmp[j].act <= Len(L.acts) /\ L.errorJmp[j].old_ci <= Len(L.ci)
  /\ L.status = "finished" => Len(L.errorJmp) = 1

\* The machine never comes to a jump that no statement gave a place to go to: it
\* would stay there. continuelist is the "list of jumps to the loop's test"
\* (lparser.c 43).
EveryJumpLeads == Runs => At(Fn(L), L.pc) # Instr("JMP", 0, NO_JUMP, 0)

=============================================================================
