----------------------------- MODULE LuaMeaning -----------------------------
(***************************************************************************)
(* What a Lua program means (the language's manual, sections 2.4 and 2.5), *)
(* as a reference for the compiler and the machine: a program is a tree,   *)
(* Meaning runs it directly on named variables, with no registers, jumps   *)
(* or instructions; Text gives its tokens, with as few parentheses as the  *)
(* precedence of the operators (manual, 2.5.6) allows.                     *)
(*                                                                         *)
(* Expressions: <<"const", token>> <<"var", x>> <<"dots">> <<"un", op, e>> *)
(* <<"bin", op, e1, e2>> <<"paren", e>> <<"call", f, args>>                *)
(* <<"method", o, name, args>> <<"index", t, k>> <<"table", items>> (items *)
(* <<e>> or <<k, e>>) <<"fn", params, dots, block>>.  Statements: see Exec. *)
(***************************************************************************)
EXTENDS Integers, SequencesExt

CONSTANTS NumeralOf, LiteralOf

LOCAL Num(n)  == <<"num", n>>
LOCAL Bool(b) == <<"bool", b>>
LOCAL Nil     == <<"nil">>
LOCAL Str(x)  == <<"str", x>>

-----------------------------------------------------------------------------
(* The text of a tree. *)
LOCAL Level(e) ==
  IF e[1] = "un" THEN 7
  ELSE IF e[1] # "bin" THEN 9
  ELSE CASE e[2] = "or" -> 1 [] e[2] = "and" -> 2 [] e[2] = ".." -> 4 [] e[2] \in {"+", "-"} -> 5
         [] e[2] \in {"*", "%"} -> 6 [] OTHER -> 3

LOCAL Commas(seqs) == FoldLeft(LAMBDA acc, x : IF acc = <<>> THEN x ELSE acc \o <<",">> \o x, <<>>, seqs)

RECURSIVE Text(_), TextList(_), BlockText(_), StatText(_)
LOCAL At(e, level) == IF Level(e) < level THEN <<"(">> \o Text(e) \o <<")">> ELSE Text(e)
LOCAL Prefixed(e)  == IF e[1] \in {"var", "call", "method", "index", "paren"} THEN Text(e) ELSE <<"(">> \o Text(e) \o <<")">>
LOCAL FnText(e)    ==
  <<"(">> \o Commas([i \in 1..(Len(e[2]) + (IF e[3] THEN 1 ELSE 0)) |-> <<IF i <= Len(e[2]) THEN e[2][i] ELSE "...">>]) \o <<")">> \o BlockText(e[4]) \o <<"end">>
LOCAL ItemText(x)  == IF Len(x) = 1 THEN Text(x[1]) ELSE <<"[">> \o Text(x[1]) \o <<"]", "=">> \o Text(x[2])

Text(e) ==
  CASE e[1] \in {"const", "var"} -> <<e[2]>>
    [] e[1] = "dots"   -> <<"...">>
    [] e[1] = "paren"  -> <<"(">> \o Text(e[2]) \o <<")">>
    [] e[1] = "un"     -> <<e[2]>> \o At(e[3], 7)
    [] e[1] = "bin"    -> IF e[2] = ".." THEN At(e[3], 5) \o <<"..">> \o At(e[4], 4)
                          ELSE At(e[3], Level(e)) \o <<e[2]>> \o At(e[4], Level(e) + 1)
    [] e[1] = "call"   -> Prefixed(e[2]) \o <<"(">> \o TextList(e[3]) \o <<")">>
    [] e[1] = "method" -> Prefixed(e[2]) \o <<":", e[3], "(">> \o TextList(e[4]) \o <<")">>
    [] e[1] = "index"  -> IF e[3][1] = "const" /\ e[3][2] \in DOMAIN LiteralOf
                          THEN Prefixed(e[2]) \o <<".">> \o LiteralOf[e[3][2]]
                          ELSE Prefixed(e[2]) \o <<"[">> \o Text(e[3]) \o <<"]">>
    [] e[1] = "table"  -> <<"{">> \o Commas([i \in DOMAIN e[2] |-> ItemText(e[2][i])]) \o <<"}">>
    [] e[1] = "fn"     -> <<"function">> \o FnText(e)

TextList(es)  == Commas([i \in DOMAIN es |-> Text(es[i])])
BlockText(b)  == FlattenSeq([i \in DOMAIN b |-> StatText(b[i])])
LOCAL Names(xs) == Commas([i \in DOMAIN xs |-> <<xs[i]>>])

StatText(s) ==
  CASE s[1] = "local"   -> <<"local">> \o Names(s[2]) \o (IF s[3] = <<>> THEN <<>> ELSE <<"=">> \o TextList(s[3]))
    [] s[1] = "assign"  -> TextList(s[2]) \o <<"=">> \o TextList(s[3])
    [] s[1] = "do"      -> <<"do">> \o BlockText(s[2]) \o <<"end">>
    [] s[1] = "while"   -> <<"while">> \o Text(s[2]) \o <<"do">> \o BlockText(s[3]) \o <<"end">>
    [] s[1] = "repeat"  -> <<"repeat">> \o BlockText(s[2]) \o <<"until">> \o Text(s[3])
    [] s[1] = "if"      -> FlattenSeq([i \in DOMAIN s[2] |-> <<IF i = 1 THEN "if" ELSE "elseif">> \o Text(s[2][i][1]) \o <<"then">> \o BlockText(s[2][i][2])])
                           \o (IF s[3] = <<>> THEN <<>> ELSE <<"else">> \o BlockText(s[3])) \o <<"end">>
    [] s[1] = "for"     -> <<"for", s[2], "=">> \o TextList(s[3]) \o <<"do">> \o BlockText(s[4]) \o <<"end">>
    [] s[1] = "forin"   -> <<"for">> \o Names(s[2]) \o <<"in">> \o TextList(s[3]) \o <<"do">> \o BlockText(s[4]) \o <<"end">>
    [] s[1] = "function" -> <<"function">> \o s[2] \o FnText(IF ":" \in ToSet(s[2]) THEN [s[4] EXCEPT ![2] = Tail(@)] ELSE s[4])
    [] s[1] = "localfn" -> <<"local", "function", s[2]>> \o FnText(s[3])
    [] s[1] = "return"  -> <<"return">> \o TextList(s[2])
    [] s[1] = "break"   -> <<"break">>
    [] s[1] = "run"     -> Text(s[2])

-----------------------------------------------------------------------------
(* The meaning.  m holds the values of the variables by location, tables,  *)
(* functions, globals and the reports, and sig: what ends the block.  env  *)
(* gives the location of each name in scope; "..." is one of a sequence.   *)
LOCAL First(vs)     == IF vs = <<>> THEN Nil ELSE vs[1]
LOCAL Falsy(v)      == v \in {Nil, Bool(FALSE)}
LOCAL Result(m, vs) == [m |-> m, v |-> vs]
LOCAL Error(m)      == Result([m EXCEPT !.sig = "error"], <<Nil>>)
LOCAL IsStr(v) == v[1] = "str"
LOCAL IsNum(v) == v[1] = "num"
LOCAL Numeric(v) == IsNum(v) \/ (IsStr(v) /\ Len(v[2]) = 1 /\ v[2][1] \in DOMAIN NumeralOf)
LOCAL NumOf(v) == IF IsNum(v) THEN v[2] ELSE NumeralOf[v[2][1]]
LOCAL Pieces(v) == IF IsNum(v) THEN <<ToString(v[2])>> ELSE v[2]
LOCAL NaN == 9999

(* New locations for names, filled with values, or nil where they lack.    *)
LOCAL Declare(m, env, names, vs) ==
  LET n == Len(m.vars)
  IN  [m |-> [m EXCEPT !.vars = @ \o [i \in DOMAIN names |-> IF i <= Len(vs) THEN vs[i] ELSE Nil]],
       env |-> FoldLeft(LAMBDA e, i : (names[i] :> n + i) @@ e, env, [i \in DOMAIN names |-> i])]

LOCAL Lookup(t, k) == IF k \in DOMAIN t THEN t[k] ELSE Nil
LOCAL Store(t, k, v) == IF v = Nil THEN [x \in DOMAIN t \ {k} |-> t[x]] ELSE (k :> v) @@ t
LOCAL LengthOf(t) == CHOOSE n \in 0..Cardinality(DOMAIN t) : (n = 0 \/ Num(n) \in DOMAIN t) /\ Num(n + 1) \notin DOMAIN t

LOCAL Binary(m, op, a, b) ==
  LET Calc(n) == Result(m, <<Num(n)>>)
      Truth(x) == Result(m, <<Bool(x)>>)
      mod(x, y) == IF y > 0 THEN x % y ELSE -((-x) % (-y))
      nan == NaN \in {x[2] : x \in {y \in {a, b} : IsNum(y)}}
  IN  CASE op = "==" -> Truth(a = b /\ ~nan)
        [] op = "~=" -> Truth(~(a = b /\ ~nan))
        [] op \in {"<", "<=", ">", ">="} ->
             IF ~IsNum(a) \/ ~IsNum(b) THEN Error(m)
             ELSE Truth(~nan /\ CASE op = "<" -> a[2] < b[2] [] op = "<=" -> a[2] <= b[2] [] op = ">" -> a[2] > b[2] [] op = ">=" -> a[2] >= b[2])
        [] op = ".." -> IF (IsStr(a) \/ IsNum(a)) /\ (IsStr(b) \/ IsNum(b)) THEN Result(m, <<Str(Pieces(a) \o Pieces(b))>>) ELSE Error(m)
        [] OTHER -> IF ~Numeric(a) \/ ~Numeric(b) THEN Error(m)
                    ELSE IF nan \/ (op = "%" /\ NumOf(b) = 0) THEN Calc(NaN)
                    ELSE Calc(CASE op = "+" -> NumOf(a) + NumOf(b) [] op = "-" -> NumOf(a) - NumOf(b)
                                [] op = "*" -> NumOf(a) * NumOf(b) [] op = "%" -> mod(NumOf(a), NumOf(b)))

LOCAL Unary(m, op, a) ==
  CASE op = "not" -> Result(m, <<Bool(Falsy(a))>>)
    [] op = "-"   -> IF ~Numeric(a) THEN Error(m) ELSE Result(m, <<Num(IF NumOf(a) = NaN THEN NaN ELSE -NumOf(a))>>)
    [] op = "#"   -> IF a[1] = "tab" THEN Result(m, <<Num(LengthOf(m.tables[a[2]]))>>)
                     ELSE IF IsStr(a) THEN Result(m, <<Num(Len(a[2]))>>) ELSE Error(m)

RECURSIVE Eval(_, _, _), EvalList(_, _, _), EvalItems(_, _, _, _, _), Exec(_, _, _), Run(_, _, _), Loop(_, _, _, _), ForIn(_, _, _, _, _), Count(_, _, _, _), Choose(_, _, _, _)

LOCAL Apply(m, f, args) ==
  LET fn    == m.fns[f[2]]
      d     == Declare(m, fn.env, fn.params, args)
      extra == IF Len(args) > Len(fn.params) THEN SubSeq(args, Len(fn.params) + 1, Len(args)) ELSE <<>>
      arg   == (Str(<<"n">>) :> Num(Len(extra))) @@ [k \in {Num(i) : i \in DOMAIN extra} |-> extra[k[2]]]
      (* a function that never uses its dots finds them in the table arg *)
      old   == Declare([d.m EXCEPT !.tables = Append(@, arg)], d.env, <<"arg", "...">>, <<<<"tab", Len(d.m.tables) + 1>>, <<"seq", extra>>>>)
      r     == IF fn.dots THEN Run(fn.block, old.env, old.m) ELSE Run(fn.block, d.env, d.m)
  IN  IF m.sig # "none" THEN Result(m, <<Nil>>)
      ELSE IF f[1] = "prim"
      THEN IF f[2] = "probe" THEN Result([m EXCEPT !.log = Append(@, args)], args)
           ELSE Result(m, <<IF args[2][2] < args[1][2] THEN Num(args[2][2] + 1) ELSE Nil>>)
      ELSE IF f[1] # "fun" THEN Error(m)
      ELSE Result([r EXCEPT !.sig = IF @ = "return" THEN "none" ELSE @, !.ret = <<>>], r.ret)

LOCAL One(r) == [r EXCEPT !.v = <<First(@)>>]

Eval(e, env, m) ==
  LET a == Eval(e[3], env, m)  b == Eval(e[4], env, a.m)   \* of a binary operator
      u == Eval(e[3], env, m)
      f == Eval(e[2], env, m)  args == EvalList(IF e[1] = "call" THEN e[3] ELSE e[4], env, f.m)
      k == Eval(e[3], env, f.m)
      o == First(f.v)
  IN  CASE m.sig # "none" -> Result(m, <<Nil>>)
        [] e[1] = "const" -> Result(m, <<CASE e[2] \in DOMAIN NumeralOf -> Num(NumeralOf[e[2]]) [] e[2] \in DOMAIN LiteralOf -> Str(LiteralOf[e[2]])
                                           [] e[2] = "nil" -> Nil [] OTHER -> Bool(e[2] = "true")>>)
        [] e[1] = "var"   -> Result(m, <<IF e[2] \in DOMAIN env THEN m.vars[env[e[2]]] ELSE Lookup(m.globals, e[2])>>)
        [] e[1] = "dots"  -> Result(m, m.vars[env["..."]][2])
        [] e[1] = "paren" -> One(f)
        [] e[1] = "un"    -> IF u.m.sig # "none" THEN u ELSE Unary(u.m, e[2], First(u.v))
        [] e[1] = "bin"   -> IF a.m.sig # "none" THEN a
                             ELSE IF e[2] = "and" THEN (IF Falsy(First(a.v)) THEN One(a) ELSE One(b))
                             ELSE IF e[2] = "or" THEN (IF Falsy(First(a.v)) THEN One(b) ELSE One(a))
                             ELSE IF b.m.sig # "none" THEN b ELSE Binary(b.m, e[2], First(a.v), First(b.v))
        [] e[1] = "call"  -> Apply(args.m, o, args.v)
        [] e[1] = "method" -> IF o[1] # "tab" THEN Error(f.m) ELSE Apply(args.m, Lookup(f.m.tables[o[2]], Str(<<e[3]>>)), <<o>> \o args.v)
        [] e[1] = "index" -> IF k.m.sig # "none" THEN k ELSE IF o[1] # "tab" THEN Error(k.m) ELSE Result(k.m, <<Lookup(k.m.tables[o[2]], First(k.v))>>)
        [] e[1] = "table" -> EvalItems(e[2], env, [m EXCEPT !.tables = Append(@, <<>>)], Len(m.tables) + 1, 1)
        [] e[1] = "fn"    -> Result([m EXCEPT !.fns = Append(@, [params |-> e[2], dots |-> e[3], block |-> e[4], env |-> env])], <<<<"fun", Len(m.fns) + 1>>>>)

(* All but the last expression give one value.                             *)
EvalList(es, env, m) ==
  LET r    == Eval(Head(es), env, m)
      rest == EvalList(Tail(es), env, r.m)
  IN  IF es = <<>> THEN Result(m, <<>>) ELSE IF Len(es) = 1 THEN r ELSE Result(rest.m, <<First(r.v)>> \o rest.v)

EvalItems(items, env, m, t, n) ==   \* of table t; n is the next index
  LET item == Head(items)
      x    == Eval(item[1], env, m)
      y    == Eval(item[2], env, x.m)
      vs   == IF Len(items) = 1 THEN x.v ELSE <<First(x.v)>>
      Put(tb, i) == Store(tb, Num(n + i - 1), vs[i])
  IN  IF items = <<>> \/ m.sig # "none" THEN Result(m, <<<<"tab", t>>>>)
      ELSE IF Len(item) = 2 THEN EvalItems(Tail(items), env, [y.m EXCEPT !.tables[t] = Store(@, First(x.v), First(y.v))], t, n)
      ELSE EvalItems(Tail(items), env, [x.m EXCEPT !.tables[t] = FoldLeft(Put, @, [i \in DOMAIN vs |-> i])], t, n + Len(vs))

(* Targets are evaluated before anything is assigned.                      *)
LOCAL Target(e, env, m) ==
  LET t == Eval(e[2], env, m)  k == Eval(e[3], env, t.m)
  IN  IF e[1] = "var" THEN Result(m, e) ELSE Result(k.m, <<"index", First(t.v), First(k.v)>>)
LOCAL Assign(m, target, env, v) ==
  IF m.sig # "none" THEN m
  ELSE IF target[1] = "var"
  THEN IF target[2] \in DOMAIN env THEN [m EXCEPT !.vars[env[target[2]]] = v] ELSE [m EXCEPT !.globals = Store(@, target[2], v)]
  ELSE IF target[2][1] # "tab" \/ target[3] = Nil THEN [m EXCEPT !.sig = "error"]
  ELSE [m EXCEPT !.tables[target[2][2]] = Store(@, target[3], v)]

LOCAL Quiet(m) == [m EXCEPT !.sig = IF @ = "break" THEN "none" ELSE @]   \* a loop stops a break

(* while: the condition, the block, and again.                             *)
Loop(c, b, env, m) ==
  LET t == Eval(c, env, m)
      x == Run(b, env, t.m)
  IN  IF t.m.sig # "none" \/ Falsy(First(t.v)) THEN t.m ELSE IF x.sig # "none" THEN Quiet(x) ELSE Loop(c, b, env, x)

RECURSIVE Repeat(_, _, _, _), RunIn(_, _, _)
RunIn(b, env, m) ==   \* a block whose variables are still in scope after it
  LET x == Exec(Head(b), env, m) IN IF b = <<>> \/ m.sig # "none" THEN [m |-> m, env |-> env] ELSE RunIn(Tail(b), x.env, x.m)
Repeat(b, c, env, m) ==
  LET x == RunIn(b, env, m)
      t == Eval(c, x.env, x.m)
  IN  IF x.m.sig # "none" THEN Quiet(x.m) ELSE IF t.m.sig # "none" \/ ~Falsy(First(t.v)) THEN t.m ELSE Repeat(b, c, env, t.m)

Run(b, env, m) == RunIn(b, env, m).m

Count(s, env, m, vs) ==   \* a numeric loop: vs is value, limit, step
  LET d == Declare(m, env, <<s[2]>>, <<Num(vs[1])>>)
      x == Run(s[4], d.env, d.m)
  IN  IF (vs[3] > 0 /\ vs[1] > vs[2]) \/ (vs[3] <= 0 /\ vs[1] < vs[2]) THEN m
      ELSE IF x.sig # "none" THEN Quiet(x) ELSE Count(s, env, x, <<vs[1] + vs[3], vs[2], vs[3]>>)

ForIn(s, env, m, f, state) ==   \* state is <<invariant, control>>
  LET r == Apply(m, f, state)
      d == Declare(r.m, env, s[2], r.v)
      x == Run(s[4], d.env, d.m)
  IN  IF r.m.sig # "none" \/ First(r.v) = Nil THEN r.m
      ELSE IF x.sig # "none" THEN Quiet(x) ELSE ForIn(s, env, x, f, <<state[1], First(r.v)>>)

Choose(clauses, other, env, m) ==
  LET t == Eval(Head(clauses)[1], env, m)
  IN  IF clauses = <<>> THEN Run(other, env, m)
      ELSE IF t.m.sig # "none" THEN t.m
      ELSE IF Falsy(First(t.v)) THEN Choose(Tail(clauses), other, env, t.m) ELSE Run(Head(clauses)[2], env, t.m)

LOCAL Pad(vs, n) == [i \in 1..n |-> IF i <= Len(vs) THEN vs[i] ELSE Nil]

(* A statement; env is what the rest of the block sees.                    *)
Exec(s, env, m) ==
  LET In(x)   == [m |-> x, env |-> env]
      x       == EvalList(s[3], env, m)
      targets == FoldLeft(LAMBDA acc, e : LET t == Target(e, env, acc.m) IN Result(t.m, Append(acc.v, t.v)), Result(m, <<>>), s[2])
      vs      == EvalList(s[3], env, targets.m)
      pad     == Pad(vs.v, Len(s[2]))
      steps   == IF Len(x.v) = 3 THEN x.v ELSE Append(x.v, Num(1))
      ret     == EvalList(s[2], env, m)
      fn      == Eval(s[4], env, m)
      rec     == Declare(m, env, <<s[2]>>, <<>>)
      rfn     == Eval(s[3], rec.env, rec.m)
      gen     == Pad(x.v, 3)
  IN  CASE s[1] = "local"  -> IF x.m.sig # "none" THEN In(x.m) ELSE Declare(x.m, env, s[2], x.v)
        [] s[1] = "assign" -> In(FoldRight(LAMBDA i, a : Assign(a, targets.v[i], env, pad[i]), [i \in DOMAIN s[2] |-> i], vs.m))
        [] s[1] = "do"     -> In(Run(s[2], env, m))
        [] s[1] = "while"  -> In(Loop(s[2], s[3], env, m))
        [] s[1] = "repeat" -> In(Repeat(s[2], s[3], env, m))
        [] s[1] = "if"     -> In(Choose(s[2], s[3], env, m))
        [] s[1] = "for"    -> In(IF x.m.sig # "none" THEN x.m
                                 ELSE IF \E i \in DOMAIN steps : ~Numeric(steps[i]) THEN [x.m EXCEPT !.sig = "error"]
                                 ELSE Count(s, env, x.m, [i \in 1..3 |-> NumOf(steps[i])]))
        [] s[1] = "forin"  -> In(IF x.m.sig # "none" THEN x.m ELSE ForIn(s, env, x.m, gen[1], <<gen[2], gen[3]>>))
        [] s[1] = "function" -> In(Assign(fn.m, Target(s[3], env, fn.m).v, env, First(fn.v)))
        [] s[1] = "localfn" -> [m |-> [rfn.m EXCEPT !.vars[rec.env[s[2]]] = First(rfn.v)], env |-> rec.env]
        [] s[1] = "return" -> In([ret.m EXCEPT !.sig = IF @ = "none" THEN "return" ELSE @, !.ret = ret.v])
        [] s[1] = "break"  -> In([m EXCEPT !.sig = "break"])
        [] s[1] = "run"    -> In(Eval(s[2], env, m).m)

(* What a program reports, and whether it ends with an error.              *)
Meaning(block, globals) ==
  LET r == Run(block, "..." :> 1,
               [vars |-> <<<<"seq", <<>>>>>>, globals |-> globals, tables |-> <<>>, fns |-> <<>>, log |-> <<>>, sig |-> "none", ret |-> <<>>])
  IN  [log |-> r.log, failed |-> r.sig = "error"]
=============================================================================
