------------------------------ MODULE MCLuaVM ------------------------------
(***************************************************************************)
(* Programs for the compiler and the virtual machine, and what they mean.  *)
(***************************************************************************)
EXTENDS LuaVM

CONSTANTS
  Depth,        \* of the logical expressions
  Chosen,       \* the families of programs
  Means(_)      \* what a program reports, and whether it fails

MCNumerals == "0" :> 0 @@ "1" :> 1 @@ "2" :> 2 @@ "3" :> 3
MCLiterals == "'a'" :> <<"a">> @@ "'1'" :> <<"1">> @@ "'up'" :> <<"up">>

M == INSTANCE LuaMeaning WITH NumeralOf <- MCNumerals, LiteralOf <- MCLiterals

Var(x)         == <<"var", x>>
Const(t)       == <<"const", t>>
Bin(op, a, b)  == <<"bin", op, a, b>>
Un(op, a)      == <<"un", op, a>>
CallF(f, args) == <<"call", f, args>>
Probe(args)    == CallF(Var("probe"), args)
Say(args)      == <<"run", Probe(args)>>

-----------------------------------------------------------------------------
(* Expressions, of locals x = 1 and y = nil, each in every context.        *)
Leaves == {Var("x"), Var("y"), Const("nil"), Const("true"), Probe(<<Const("2")>>)}
Logics(leaves) ==
  leaves \cup {Un("not", a) : a \in leaves} \cup {Bin(op, a, b) : op \in {"and", "or", "=="}, a \in leaves, b \in leaves}
Logic1 == Logics(Leaves)
Logic2 == Logics(Leaves \cup {Const("1")}) \cup {Un("not", a) : a \in Logic1}
            \cup {Bin(op, a, b) : op \in {"and", "or"}, a \in Logic1, b \in Leaves}
            \cup {Bin(op, a, b) : op \in {"and", "or"}, a \in Leaves, b \in Logic1}
Logic == IF Depth = 1 THEN Logic1 ELSE Logic2

XY == <<"local", <<"x", "y">>, <<Const("1")>>>>
InContext(c, e) ==
  CASE c = 1 -> <<XY, Say(<<e>>)>>
    [] c = 2 -> <<XY, <<"local", <<"z">>, <<e>>>>, Say(<<Var("z")>>)>>
    [] c = 3 -> <<XY, <<"assign", <<Var("x")>>, <<e>>>>, Say(<<Var("x"), Var("y")>>)>>
    [] c = 4 -> <<XY, <<"if", <<<<e, <<Say(<<Const("3")>>)>>>>>>, <<Say(<<Const("0")>>)>>>>>>
    [] c = 5 -> <<XY, <<"repeat", <<<<"assign", <<Var("x")>>, <<Const("nil")>>>>>>, Bin("or", e, Const("true"))>>, <<"return", <<e>>>>>>

(* Numbers, strings and the precedence of operators.                       *)
Terms == {Const("0"), Const("1"), Var("x"), Const("'1'"), Probe(<<Const("2")>>)}
Sums  == {Bin(op, a, b) : op \in {"+", "%", "..", "<", "<="}, a \in Terms, b \in Terms} \cup {Un(op, a) : op \in {"-", "#"}, a \in Terms}
AllOps == {"or", "and", "<", ">=", "~=", "..", "+", "-", "*"}
Mixed == {Bin(o, Bin(p, Const("1"), Var("x")), Const("3")) : o \in AllOps, p \in AllOps}
           \cup {Bin(o, Const("3"), Bin(p, Var("x"), Const("2"))) : o \in AllOps, p \in AllOps}
           \cup {Un(u, Bin(p, Const("1"), Var("x"))) : u \in {"-", "not"}, p \in AllOps}
           \cup {Bin(p, Un(u, Var("x")), Un(u, Const("1"))) : u \in {"-", "not"}, p \in AllOps}
           \cup {Bin("..", Bin("..", a, Const("'a'")), Bin("..", Const("1"), b)) : a \in Terms, b \in Terms}
Calculations == UNION {{<<XY, Say(<<e>>)>>, <<XY, <<"assign", <<Var("y")>>, <<e>>>>, Say(<<Var("x"), Var("y")>>)>>} : e \in Sums \cup Mixed}

-----------------------------------------------------------------------------
(* Loops over a local of their block, which a function may capture.        *)
Fn(params, block) == <<"fn", params, FALSE, block>>
Ret(es)           == <<"return", es>>
Set(x, e)         == <<"assign", <<Var(x)>>, <<e>>>>
LocalOne(x, e)    == <<"local", <<x>>, <<e>>>>
If(c, b)          == <<"if", <<<<c, b>>>>, <<>>>>
Next1(x)          == Set(x, Bin("+", Var(x), Const("1")))

Capture == Set("f", Bin("or", Var("f"), Fn(<<>>, <<Next1("v"), Ret(<<Var("v")>>)>>)))
Leave   == If(Bin("==", Var("v"), Const("2")), <<<<"break">>>>)
Bodies  == {LocalOne("v", Var("i"))} \X {<<>>, <<Capture>>} \X {<<>>, <<Leave>>, <<<<"do", <<LocalOne("v", Var("v")), Capture, Leave>>>>>>}
Body_(b) == <<b[1]>> \o b[2] \o b[3] \o <<Say(<<Var("v")>>)>>

Loops(b) == {
  <<LocalOne("i", Const("0")), <<"while", Bin("<", Var("i"), Const("3")), <<Next1("i")>> \o b>>>>,
  <<LocalOne("i", Const("0")), <<"repeat", <<Next1("i")>> \o b, Bin(">=", Var("v"), Const("3"))>>>>,
  <<<<"for", "i", <<Const("1"), Const("3")>>, <<>>>>>>,
  <<<<"for", "i", <<Const("1"), Const("3")>>, b>>>>,
  <<<<"for", "i", <<Const("3"), Const("1"), Un("-", Const("1"))>>, b>>>>,
  <<<<"forin", <<"i", "j">>, <<Var("upto"), Const("3"), Const("0")>>, b>>>>,
  <<LocalOne("n", Const("0")),
    <<"forin", <<"i">>, <<Fn(<<>>, <<If(Bin("<", Var("n"), Const("3")), <<Next1("n"), Ret(<<Var("n")>>)>>)>>)>>, b>>>> }
Looping == UNION {{<<<<"local", <<"f">>, <<>>>>>> \o l \o <<If(Var("f"), <<Say(<<CallF(Var("f"), <<>>), CallF(Var("f"), <<>>)>>)>>)>>
                     : l \in Loops(Body_(b))} : b \in Bodies}

-----------------------------------------------------------------------------
(* Constructors, flushed after two items, and their lengths.               *)
Item(e)    == <<e>>
Field_(k, e) == <<k, e>>
Multi      == {Probe(<<Const("1"), Const("2"), Const("3")>>), <<"paren", Probe(<<Const("1"), Const("2")>>)>>, <<"dots">>, Const("3")}
Ones(n)    == [i \in 1..n |-> Item(IF i % 2 = 0 THEN Var("x") ELSE Probe(<<Const("2"), Const("1")>>))]
At_(t, k)  == <<"index", t, k>>
Tables     == {<<"table", Ones(n) \o r \o <<Item(m)>>>> : n \in 0..4, r \in {<<>>, <<Field_(Const("'a'"), Var("x"))>>, <<Field_(Const("0"), Probe(<<Const("0")>>))>>}, m \in Multi}
Building   == {<<XY, LocalOne("t", t), Say(<<Un("#", Var("t")), At_(Var("t"), Const("1")), At_(Var("t"), Const("2")), At_(Var("t"), Const("'a'"))>>),
                 Say(<<At_(Var("t"), Const("3")), At_(Var("t"), Un("#", Var("t")))>>)>> : t \in Tables}

(* Functions: parameters, results, and lists of values that do not fit.    *)
Args == {<<>>, <<Const("1")>>, <<Const("1"), Const("2"), Const("3")>>, <<Const("1"), Probe(<<Const("2"), Const("3")>>)>>}
Params == {<<>>, <<"a">>, <<"a", "b">>}
Results == {<<>>, <<Var("a")>>, <<Var("b"), Var("a")>>, <<CallF(Var("probe"), <<Var("a"), Var("b")>>)>>, <<Var("a"), CallF(Var("probe"), <<Var("b")>>)>>}
Local3(es) == <<"local", <<"p", "q", "r">>, es>>
Calling == {<<<<"localfn", "g", <<"fn", ps, FALSE, <<Ret(rs)>>>>>>, Local3(<<CallF(Var("g"), as)>>), Say(<<Var("p"), Var("q"), Var("r")>>),
              <<"assign", <<Var("p"), Var("q")>>, <<CallF(Var("g"), as), CallF(Var("g"), <<Const("0")>>)>>>>, Say(<<Var("p"), Var("q")>>), Ret(<<CallF(Var("g"), as)>>)>>
              : ps \in Params, rs \in Results, as \in Args}
Varying == {<<<<"localfn", "g", <<"fn", ps, TRUE, b>>>>, Local3(<<Const("0"), CallF(Var("g"), as)>>), Say(<<Var("p"), Var("q"), Var("r")>>)>>
              : ps \in Params, as \in Args,
                b \in {<<Ret(<<<<"dots">>>>)>>, <<LocalOne("v", <<"dots">>), Ret(<<Var("v"), Un("#", <<"table", <<Item(<<"dots">>)>>>>)>>)>>,
                       <<Ret(<<At_(Var("arg"), Const("'a'")), At_(Var("arg"), Const("1"))>>)>>}}

(* Assignments whose targets use variables that they assign.               *)
Targets == {Var("i"), Var("k"), Var("g"), At_(Var("t"), Var("i")), At_(Var("t"), Var("k")), At_(Var("i"), Const("'a'")), At_(Var("t"), Const("'a'"))}
ValuesOf == {<<Const("2")>>, <<Const("2"), Const("3")>>, <<Const("1"), Const("2"), Const("3")>>, <<Var("k"), Var("t")>>}
Distinct(p, q) == p # q /\ {p, q} # {At_(Var("t"), Var("i")), At_(Var("t"), Var("k"))}
Assigning == {<<LocalOne("t", <<"table", <<Item(Const("0")), Item(Const("0"))>>>>), LocalOne("i", IF At_(Var("i"), Const("'a'")) \in {p, q} THEN Var("t") ELSE Const("1")),
                LocalOne("k", Const("2")), <<"assign", <<p, q>>, es>>,
                Say(<<Bin("==", Var("i"), Var("t")), Var("k"), Bin("==", Var("g"), Var("t")), At_(Var("t"), Const("1")), At_(Var("t"), Const("'a'"))>>)>>
                : p \in Targets, q \in Targets, es \in ValuesOf}
MCAssigning == {p \in Assigning : Distinct(p[4][2][1], p[4][2][2])}

-----------------------------------------------------------------------------
(* Functions that share variables, recursion, methods, globals, errors.    *)
Global(x, f) == <<"function", <<x>>, Var(x), f>>
Sharing == {
  <<LocalOne("n", Const("0")), <<"localfn", "inc", Fn(<<>>, <<Next1("n"), Ret(<<Var("n")>>)>>)>>, <<"localfn", "get", Fn(<<>>, <<Ret(<<Var("n")>>)>>)>>,
    Say(<<CallF(Var("inc"), <<>>)>>), Next1("n"), Say(<<CallF(Var("get"), <<>>), Var("n")>>)>>,
  <<Global("make", Fn(<<"a">>, <<Ret(<<Fn(<<"b">>, <<Ret(<<Fn(<<>>, <<Set("a", Bin("+", Var("a"), Var("b"))), Ret(<<Var("a")>>)>>)>>)>>)>>)>>)),
    LocalOne("h", CallF(CallF(Var("make"), <<Const("1")>>), <<Const("2")>>)), Say(<<CallF(Var("h"), <<>>), CallF(Var("h"), <<>>)>>),
    LocalOne("h", CallF(CallF(Var("make"), <<Const("0")>>), <<Const("3")>>)), Say(<<CallF(Var("h"), <<>>)>>)>>,
  <<<<"localfn", "sum", Fn(<<"n", "acc">>, <<If(Bin("==", Var("n"), Const("0")), <<Ret(<<Var("acc")>>)>>),
      LocalOne("k", Fn(<<>>, <<Ret(<<Bin("-", Var("n"), Const("1"))>>)>>)), Ret(<<CallF(Var("sum"), <<CallF(Var("k"), <<>>), Bin("+", Var("acc"), Var("n"))>>)>>)>>)>>,
    Say(<<CallF(Var("sum"), <<Const("3"), Const("0")>>)>>)>>,
  <<LocalOne("t", <<"table", <<Field_(Const("'a'"), Const("1"))>>>>),
    <<"function", <<"t", ":", "up">>, At_(Var("t"), Const("'up'")), Fn(<<"self", "d">>, <<<<"assign", <<At_(Var("self"), Const("'a'"))>>, <<Bin("+", At_(Var("self"), Const("'a'")), Var("d"))>>>>, Ret(<<Var("self")>>)>>)>>,
    Say(<<At_(<<"method", <<"method", Var("t"), "up", <<Const("1")>>>>, "up", <<Const("3")>>>>, Const("'a'"))>>)>>,
  <<<<"local", <<"a", "b">>, <<Const("1")>>>>, <<"do", <<LocalOne("a", Const("2")), Global("ga", Fn(<<>>, <<Set("b", Var("a")), Ret(<<Var("a")>>)>>))>>>>,
    <<"do", <<LocalOne("c", Const("3")), Say(<<Var("c"), CallF(Var("ga"), <<>>)>>)>>>>, Say(<<Var("a"), Var("b")>>)>>,
  <<LocalOne("a", Const("1")), <<"if", <<<<Bin(">", Var("a"), Const("1")), <<Say(<<Const("1")>>)>>>>, <<Bin("==", Var("a"), Const("1")), <<LocalOne("a", Const("3")), Say(<<Var("a")>>)>>>>>>, <<Say(<<Const("0")>>)>>>>, Say(<<Var("a")>>)>>,
  <<LocalOne("u", Const("nil")), <<"do", <<<<"local", <<"v", "w">>, <<>>>>, Say(<<Var("v"), Var("w")>>)>>>>, <<"local", <<"z">>, <<>>>>, Say(<<Var("z")>>), <<"run", CallF(Var("u"), <<>>)>>, Say(<<>>)>>,
  <<LocalOne("t", <<"table", <<>>>>), <<"assign", <<At_(Var("t"), Var("none"))>>, <<Const("1")>>>>>>,
  <<<<"for", "i", <<Const("'1'"), Const("'a'")>>, <<>>>>>>,
  <<<<"forin", <<"i">>, <<Const("1")>>, <<>>>>>>,
  <<Say(<<At_(Var("none"), Const("1"))>>)>>, <<Say(<<Un("-", Var("none"))>>)>> }

(* Conditions of constants, which the compiler partly decides itself.      *)
Truths == {Const("nil"), Const("false"), Const("true")}
AndOr  == {"and", "or"}
Constants == {Bin(o, Bin(p, Bin(q, a, b), c), d) : o \in AndOr, p \in AndOr, q \in AndOr, a \in Truths, b \in Truths, c \in Truths, d \in Truths}

Family(i) ==
  CASE i = 1 -> {InContext(c, e) : c \in 1..5, e \in Logic}
    [] i = 2 -> Calculations
    [] i = 3 -> Looping
    [] i = 4 -> Building
    [] i = 5 -> Calling \cup Varying
    [] i = 6 -> MCAssigning
    [] i = 7 -> Sharing
    [] i = 8 -> {InContext(1, e) : e \in Constants}
MCPrograms == UNION {Family(i) : i \in Chosen}
MCCompile(p) == LET text == M!BlockText(p) IN Parser(text)
MCMeans(p) == LET given == Globals IN M!Meaning(p, given)

-----------------------------------------------------------------------------
(* A program reports what its text means, and fails exactly when its       *)
(* meaning does: jumps that carry values (lcode.c:390), nils that join     *)
(* across a label (35), targets that use assigned variables (lparser.c:908) *)
(* and upvalues closed by breaks (975) and repeats (1022) all show here.   *)
ResultsAgree ==
  status \in {"done", "error"} =>
    LET m == Means(program) IN log = m.log /\ (status = "error" <=> m.failed)

(* The lua_asserts of the compiler: registers are freed last first         *)
(* (lcode.c:218), lists of jumps are empty where the generator counts on   *)
(* it (748, 754), blocks begin with no temporary (lparser.c:292).          *)
RECURSIVE Sound(_)
Sound(p) == p.sound /\ \A i \in DOMAIN p.p : Sound(p.p[i])
AssertionsHold == Sound(main)

(* All that the compiler makes passes the checks made on a precompiled     *)
(* chunk (lparser.c:374, ldebug.c:479): no instruction uses a register     *)
(* beyond maxstacksize, and open results go to one that takes them.        *)
CodeIsChecked == CheckCode(main)

(* Only an instruction that takes an open number of values meets a top     *)
(* other than the frame's (lvm.c:401).                                     *)
TopIsSettled == status = "running" /\ ~ci.mid => top = ci.top \/ CheckOpenOp(I)

(* An open upvalue is a register of a function that still runs, and no     *)
(* register has two: else closures that share a variable would part        *)
(* (lfunc.c:53), or one would see what a later call leaves there.          *)
OpenUpvaluesLive ==
  LET Open == {u \in DOMAIN upvals : upvals[u].open}
  IN  /\ \A u, w \in Open : upvals[u].at = upvals[w].at => u = w
      /\ status # "error" => \A u \in Open : \E i \in DOMAIN frames : upvals[u].at \in frames[i].base..(frames[i].top - 1)

(* The code keeps the compiler's rules and passes the loader's checks.     *)
CodeIsSound == AssertionsHold /\ CodeIsChecked

(* The stack is what an instruction may count on: its top, and the         *)
(* registers that closures share.                                          *)
StackIsSound == TopIsSettled /\ OpenUpvaluesLive

(* Every loop of the programs ends: the jumps of loops and breaks, patched *)
(* when their targets are known, leave them.                               *)
Halts == <>(status \in {"done", "error"})

(* Jumps kept "on hold" (lcode.c:64) until their place is known do not     *)
(* bring values of their own into a condition that is always false.        *)
AndOrAgree == status = "done" => log = Means(program).log
=============================================================================
