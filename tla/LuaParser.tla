----------------------------- MODULE LuaParser -----------------------------
(***************************************************************************)
(* The parser of Lua (lparser.c): one pass over the tokens, which calls    *)
(* the code generator as it goes.                                          *)
(*                                                                         *)
(* A token is a string; numerals and string literals are those that have a *)
(* value in NumeralOf and LiteralOf, and a token that is nothing else is a *)
(* name.  The state s is the lexer's position, the function being compiled *)
(* and those around it (fs->prev), and the expression just parsed, with    *)
(* the number of expressions of a list.  Programs are legal: a token that  *)
(* is not the one expected breaks fs.sound instead of raising an error.    *)
(* Line numbers and debug information are left out.                        *)
(***************************************************************************)
EXTENDS LuaCode

CONSTANTS NumeralOf, LiteralOf

Keywords == {"and", "break", "do", "else", "elseif", "end", "false", "for", "function", "if", "in", "local", "nil",
  "not", "or", "repeat", "return", "then", "true", "until", "while"}
Symbols == {"+", "-", "*", "/", "%", "^", "#", "==", "~=", "<=", ">=", "<", ">", "=", "(", ")", "{", "}", "[", "]",
  ";", ":", ",", ".", "..", "...", "<eof>"}

Tok(s)     == s.toks[s.at]
Advance(s) == [s EXCEPT !.at = @ + 1]
IsName(t)  == t \notin Keywords \cup Symbols \cup DOMAIN NumeralOf \cup DOMAIN LiteralOf

Expect(s, t) == [Advance(s) EXCEPT !.fs.sound = @ /\ Tok(s) = t]
TestNext(s, t) == IF Tok(s) = t THEN Advance(s) ELSE s

With(s, r) == [s EXCEPT !.fs = r.fs, !.e = r.e]
Do(s, fs)  == [s EXCEPT !.fs = fs]

String(atoms) == <<"str", atoms>>

CodeString(s, atoms) == LET k == AddK(s.fs, String(atoms)) IN With(s, Left(k.fs, Exp("VK", k.e)))
CheckName(s) == CodeString(Advance(s), <<Tok(s)>>)

-----------------------------------------------------------------------------
(* Variables and blocks. *)
NewLocalVar(fs, name, n)  == [fs EXCEPT !.actvar = Append(SubSeq(@, 1, fs.nact + n), name)]
AdjustLocalVars(fs, n)    == [fs EXCEPT !.nact = @ + n]

IndexUpvalue(fs, name, v) ==
  LET u == [k |-> v.k, info |-> v.info]
  IN  IF u \in ToSet(fs.upvals) THEN Left(fs, (CHOOSE i \in DOMAIN fs.upvals : fs.upvals[i] = u) - 1)
      ELSE Left([fs EXCEPT !.upvals = Append(@, u)], Len(fs.upvals))

SearchVar(fs, name) ==   \* the innermost one; -1 when there is none
  LET found == {i \in 1..fs.nact : fs.actvar[i] = name} IN IF found = {} THEN -1 ELSE Max(found) - 1

(* The block that declared the local variable will have to close it.       *)
MarkUpval(fs, level) ==
  LET around == {i \in DOMAIN fs.bl : fs.bl[i].nactvar <= level}
  IN  IF around = {} THEN fs ELSE [fs EXCEPT !.bl[Max(around)].upval = TRUE]

RECURSIVE SingleVarAux(_, _, _)
SingleVarAux(levels, name, base) ==
  IF levels = <<>> THEN [levels |-> <<>>, e |-> Exp("VGLOBAL", NoReg)]
  ELSE LET fs == Last(levels)
           v  == SearchVar(fs, name)
           up == SingleVarAux(Front(levels), name, FALSE)
           u  == IndexUpvalue(fs, name, up.e)
       IN  IF v >= 0
           THEN [levels |-> Append(Front(levels), IF base THEN fs ELSE MarkUpval(fs, v)), e |-> Exp("VLOCAL", v)]
           ELSE IF up.e.k = "VGLOBAL" THEN [levels |-> Append(up.levels, fs), e |-> up.e]
           ELSE [levels |-> Append(up.levels, u.fs), e |-> Exp("VUPVAL", u.e)]

SingleVar(s) ==
  LET r == SingleVarAux(Append(s.outer, s.fs), Tok(s), TRUE)
      t == [Advance(s) EXCEPT !.fs = Last(r.levels), !.outer = Front(r.levels), !.e = r.e]
      k == AddK(t.fs, String(<<Tok(s)>>))
  IN  IF r.e.k = "VGLOBAL" THEN With(t, Left(k.fs, [r.e EXCEPT !.info = k.e])) ELSE t

(* As many values as variables: calls give what is missing, or nils do.    *)
AdjustAssign(s, nvars, nexps) ==
  LET extra == nvars - nexps
      open  == SetReturns(s.fs, s.e, IF extra + 1 < 0 THEN 0 ELSE extra + 1)
      shut  == IF s.e.k = "VVOID" THEN s.fs ELSE Exp2NextReg(s.fs, s.e).fs
  IN  IF HasMultRet(s.e) THEN Do(s, IF extra + 1 > 1 THEN ReserveRegs(open, extra) ELSE open)
      ELSE Do(s, IF extra > 0 THEN CodeNil(ReserveRegs(shut, extra), shut.freereg, extra) ELSE shut)

EnterBlock(fs, isbreakable) ==
  [fs EXCEPT !.bl = Append(@, [breaklist |-> {}, isbreakable |-> isbreakable, nactvar |-> fs.nact, upval |-> FALSE]),
             !.sound = @ /\ fs.freereg = fs.nact]

LeaveBlock(fs) ==
  LET bl     == Last(fs.bl)
      left   == [fs EXCEPT !.bl = Front(@), !.nact = bl.nactvar, !.sound = @ /\ ~(bl.isbreakable /\ bl.upval)]
      closed == IF bl.upval THEN Code(left, Instr("CLOSE", bl.nactvar, 0, 0)) ELSE left
  IN  PatchToHere([closed EXCEPT !.freereg = bl.nactvar], bl.breaklist)

-----------------------------------------------------------------------------
(* Functions. *)
OpenFunc(vararg) ==
  [code |-> <<>>, lasttarget |-> 0, jpc |-> {}, freereg |-> 0, nact |-> 0, maxstack |-> 2, k |-> <<>>,
   actvar |-> <<>>, p |-> <<>>, upvals |-> <<>>, bl |-> <<>>, numparams |-> 0, vararg |-> vararg, sound |-> TRUE]

CloseFunc(fs) ==
  LET f == Return([fs EXCEPT !.nact = 0], 0, 0)
  IN  [code |-> f.code, k |-> f.k, p |-> f.p, upvals |-> f.upvals, maxstack |-> f.maxstack,
       numparams |-> f.numparams, vararg |-> f.vararg, sound |-> f.sound]

(* The closure is followed by one pseudo-instruction for each upvalue.     *)
PushClosure(s, p) ==
  LET made == Code([s.fs EXCEPT !.p = Append(@, p)], Instr("CLOSURE", 0, Len(s.fs.p), 0))
      Capture(fs, u) == Code(fs, Instr(IF u.k = "VLOCAL" THEN "MOVE" ELSE "GETUPVAL", 0, u.info, 0))
  IN  [s EXCEPT !.fs = FoldLeft(Capture, made, p.upvals), !.e = Exp("VRELOCABLE", Len(made.code))]

RECURSIVE Parameters(_, _)
Parameters(s, n) ==   \* parlist, one parameter at a time
  CASE Tok(s) = "..." -> [Advance(s) EXCEPT !.fs = NewLocalVar([@ EXCEPT !.vararg = {"HASARG", "NEEDSARG", "ISVARARG"}], "arg", n), !.n = n + 1]
    [] IsName(Tok(s)) -> Parameters(TestNext(Do(Advance(s), NewLocalVar(s.fs, Tok(s), n)), ","), n + 1)
    [] OTHER          -> [s EXCEPT !.n = n]

ParList(s) ==
  LET p  == Parameters(s, 0)
      fs == AdjustLocalVars(p.fs, p.n)
  IN  Do(p, ReserveRegs([fs EXCEPT !.numparams = fs.nact - (IF "HASARG" \in fs.vararg THEN 1 ELSE 0)], fs.nact))

-----------------------------------------------------------------------------
(* Expressions. *)
RECURSIVE SubExpr(_, _), Operators(_, _), Postfixes(_), Items(_, _), ExpList1(_, _), Chunk(_), Assigned(_, _), Clauses(_, _)

Expr(s) == SubExpr(s, 0)

Body(s, needself) ==
  LET open == Expect([s EXCEPT !.outer = Append(@, s.fs), !.fs = OpenFunc({})], "(")
      self == IF needself THEN Do(open, AdjustLocalVars(NewLocalVar(open.fs, "self", 0), 1)) ELSE open
      done == Expect(Chunk(Expect(ParList(self), ")")), "end")
  IN  PushClosure([done EXCEPT !.fs = Last(done.outer), !.outer = Front(@)], CloseFunc(done.fs))

Field(s) ==   \* v.name; also the last step of a method's name
  LET v   == With(s, Exp2AnyReg(s.fs, s.e))
      key == CheckName(Advance(v))
  IN  With(key, Indexed(key.fs, v.e, key.e))

YIndex(s) ==
  LET x == Expr(Advance(s)) IN Expect(With(x, Exp2Val(x.fs, x.e)), "]")

CloseListField(s, cc) ==   \* the item before is put in a register, and perhaps all are stored
  LET f == Exp2NextReg(s.fs, cc.v).fs
  IN  IF cc.v.k = "VVOID" THEN <<s, cc>>
      ELSE IF cc.tostore = FieldsPerFlush
      THEN <<Do(s, SetList(f, cc.t, cc.na, cc.tostore)), [cc EXCEPT !.v.k = "VVOID", !.tostore = 0]>>
      ELSE <<Do(s, f), [cc EXCEPT !.v.k = "VVOID"]>>

LastListField(fs, cc) ==
  LET f == IF cc.v.k = "VVOID" THEN fs ELSE Exp2NextReg(fs, cc.v).fs
  IN  IF cc.tostore = 0 THEN <<fs, cc.na>>
      ELSE IF HasMultRet(cc.v) THEN <<SetList(SetReturns(fs, cc.v, MultRet), cc.t, cc.na, MultRet), cc.na - 1>>
      ELSE <<SetList(f, cc.t, cc.na, cc.tostore), cc.na>>

RecField(s, cc) ==
  LET key == Expect(IF IsName(Tok(s)) THEN CheckName(s) ELSE YIndex(s), "=")
      rk  == Exp2RK(key.fs, key.e)
      x   == Expr(Do(key, rk.fs))
      val == Exp2RK(x.fs, x.e)
      set == Code(val.fs, Instr("SETTABLE", cc.t, RK(rk.e), RK(val.e)))
  IN  <<Do(x, [set EXCEPT !.freereg = s.fs.freereg]), [cc EXCEPT !.nh = @ + 1]>>

ListField(s, cc) ==
  LET x == Expr(s) IN <<x, [cc EXCEPT !.v = x.e, !.na = @ + 1, !.tostore = @ + 1]>>

Items(s, cc) ==
  LET c    == CloseListField(s, cc)
      item == IF Tok(s) = "[" \/ (IsName(Tok(s)) /\ s.toks[s.at + 1] = "=") THEN RecField(c[1], c[2]) ELSE ListField(c[1], c[2])
  IN  IF Tok(s) = "}" THEN <<s, cc>>
      ELSE IF Tok(item[1]) \in {",", ";"} THEN Items(Advance(item[1]), item[2]) ELSE item

Constructor(s) ==
  LET new  == Code(s.fs, Instr("NEWTABLE", 0, 0, 0))
      t    == Exp2NextReg(new, Exp("VRELOCABLE", Len(new.code)))
      all  == Items(Expect(Do(s, t.fs), "{"), [v |-> Exp("VVOID", 0), t |-> t.e.info, nh |-> 0, na |-> 0, tostore |-> 0])
      done == Expect(all[1], "}")
      last == LastListField(done.fs, all[2])
  IN  With(done, Left([last[1] EXCEPT !.code[Len(new.code)].b = last[2], !.code[Len(new.code)].c = all[2].nh], t.e))

FuncArgs(s) ==
  LET f    == s.e
      list == IF s.toks[s.at + 1] = ")" THEN [Advance(s) EXCEPT !.e = Exp("VVOID", 0)] ELSE ExpList1(Advance(s), 1)
      args == CASE Tok(s) = "(" -> Expect(IF HasMultRet(list.e) THEN Do(list, SetReturns(list.fs, list.e, MultRet)) ELSE list, ")")
                [] Tok(s) = "{" -> Constructor(s)
                [] OTHER        -> CodeString(Advance(s), LiteralOf[Tok(s)])
      fs   == IF HasMultRet(args.e) \/ args.e.k = "VVOID" THEN args.fs ELSE Exp2NextReg(args.fs, args.e).fs
      call == Code(fs, Instr("CALL", f.info, IF HasMultRet(args.e) THEN 0 ELSE fs.freereg - f.info, 2))
  IN  [args EXCEPT !.fs = [call EXCEPT !.freereg = f.info + 1], !.e = Exp("VCALL", Len(call.code))]

PrefixExp(s) ==
  LET x == Expect(Expr(Advance(s)), ")")
  IN  IF Tok(s) = "(" THEN With(x, DischargeVars(x.fs, x.e)) ELSE SingleVar(s)

Postfixes(s) ==
  LET v    == With(s, Exp2AnyReg(s.fs, s.e))
      key  == YIndex(v)
      name == CheckName(Advance(s))
  IN  CASE Tok(s) = "." -> Postfixes(Field(s))
        [] Tok(s) = "[" -> Postfixes(With(key, Indexed(key.fs, v.e, key.e)))
        [] Tok(s) = ":" -> Postfixes(FuncArgs(With(name, Self(name.fs, s.e, name.e))))
        [] Tok(s) \in {"(", "{"} \cup DOMAIN LiteralOf -> Postfixes(FuncArgs(With(s, Exp2NextReg(s.fs, s.e))))
        [] OTHER        -> s

PrimaryExp(s) == Postfixes(PrefixExp(s))

SimpleExp(s) ==
  LET t == Tok(s)
      Is(e) == [Advance(s) EXCEPT !.e = e]
      dots == Code([s.fs EXCEPT !.vararg = @ \ {"NEEDSARG"}], Instr("VARARG", 0, 1, 0))
  IN  CASE t \in DOMAIN NumeralOf -> Is([Exp("VKNUM", 0) EXCEPT !.nval = NumeralOf[t]])
        [] t \in DOMAIN LiteralOf -> CodeString(Advance(s), LiteralOf[t])
        [] t = "nil"      -> Is(Exp("VNIL", 0))
        [] t = "true"     -> Is(Exp("VTRUE", 0))
        [] t = "false"    -> Is(Exp("VFALSE", 0))
        [] t = "..."      -> Do(Is(Exp("VVARARG", Len(dots.code))), dots)
        [] t = "{"        -> Constructor(s)
        [] t = "function" -> Body(Advance(s), FALSE)
        [] OTHER          -> PrimaryExp(s)

Priority ==   \* of the binary operators, to the left and to the right
  [op \in {"+", "-"} |-> <<6, 6>>] @@ [op \in {"*", "%"} |-> <<7, 7>>] @@ (".." :> <<5, 4>>)
    @@ [op \in {"==", "~=", "<", "<=", ">", ">="} |-> <<3, 3>>] @@ ("and" :> <<2, 2>>) @@ ("or" :> <<1, 1>>)

UnaryPriority == 8

SubExpr(s, limit) ==
  LET u == SubExpr(Advance(s), UnaryPriority)
  IN  Operators(IF Tok(s) \in {"not", "-", "#"} THEN With(u, Prefix(u.fs, Tok(s), u.e)) ELSE SimpleExp(s), limit)

Operators(s, limit) ==   \* those that bind more strongly than limit
  LET op    == Tok(s)
      left  == With(Advance(s), Infix(s.fs, op, s.e))
      right == SubExpr(left, Priority[op][2])
  IN  IF op \in DOMAIN Priority /\ Priority[op][1] > limit
      THEN Operators(With(right, Posfix(right.fs, op, left.e, right.e)), limit) ELSE s

ExpList1(s, n) ==
  LET x == Expr(s)
  IN  IF Tok(x) = "," THEN ExpList1(With(Advance(x), Exp2NextReg(x.fs, x.e)), n + 1) ELSE [x EXCEPT !.n = n]

-----------------------------------------------------------------------------
(* Statements. *)
BlockFollow(t) == t \in {"else", "elseif", "end", "until", "<eof>"}

Block(s) == LET b == Chunk(Do(s, EnterBlock(s.fs, FALSE))) IN Do(b, LeaveBlock(b.fs))

(* A local variable that is assigned while an earlier target is indexed    *)
(* with it: the targets use a copy.                                        *)
CheckConflict(fs, lh, v) ==
  LET Conflicts(x) == x.k = "VINDEXED" /\ v.info \in {x.info, x.aux}
      Safe(r)      == IF r = v.info THEN fs.freereg ELSE r
  IN  IF v.k # "VLOCAL" \/ ~\E i \in DOMAIN lh : Conflicts(lh[i]) THEN <<fs, lh>>
      ELSE <<ReserveRegs(Code(fs, Instr("MOVE", fs.freereg, v.info, 0)), 1),
             FoldLeft(LAMBDA seq, x : Append(seq, IF Conflicts(x) THEN [x EXCEPT !.info = Safe(@), !.aux = Safe(@)] ELSE x), <<>>, lh)>>

StoreDefault(s, var) == Do(s, StoreVar(s.fs, var, Exp("VNONRELOC", s.fs.freereg - 1)))

Assigned(s, lh) ==   \* assignment, with the targets read so far
  LET v     == PrimaryExp(Advance(s))
      safe  == CheckConflict(v.fs, lh, v.e)
      x     == ExpList1(Expect(s, "="), 1)
      one   == SetOneRet(x.fs, x.e)
      fit   == AdjustAssign(x, Len(lh), x.n)
      rest  == Do(fit, [fit.fs EXCEPT !.freereg = IF x.n > Len(lh) THEN @ - (x.n - Len(lh)) ELSE @])
      Store(var, t) == StoreDefault(t, var)
  IN  IF Tok(s) = "," THEN Assigned(Do(v, safe[1]), Append(safe[2], v.e))
      ELSE IF x.n = Len(lh) THEN FoldRight(Store, Front(lh), Do(x, StoreVar(one.fs, Last(lh), one.e)))
      ELSE FoldRight(Store, lh, rest)

Cond(s) ==
  LET x == Expr(s) IN With(x, GoIfTrue(x.fs, IF x.e.k = "VNIL" THEN [x.e EXCEPT !.k = "VFALSE"] ELSE x.e))

BreakStat(fs) ==
  LET loop  == Max({i \in DOMAIN fs.bl : fs.bl[i].isbreakable})
      close == \E i \in (loop + 1)..Len(fs.bl) : fs.bl[i].upval
      j     == Jump(IF close THEN Code(fs, Instr("CLOSE", fs.bl[loop].nactvar, 0, 0)) ELSE fs)
  IN  [j.fs EXCEPT !.bl[loop].breaklist = @ \cup j.j]

WhileStat(s) ==
  LET start == Do(Advance(s), GetLabel(s.fs))
      c     == Cond(start)
      b     == Block(Expect(Do(c, EnterBlock(c.fs, TRUE)), "do"))
      back  == Jump(b.fs)
      done  == LeaveBlock(PatchList(back.fs, back.j, PC(start.fs)))
  IN  Do(Expect(b, "end"), PatchToHere(done, c.e.f))

RepeatStat(s) ==
  LET init == GetLabel(s.fs)
      b    == Expect(Chunk(Do(Advance(s), EnterBlock(EnterBlock(init, TRUE), FALSE))), "until")
      c    == Cond(b)
      again == LeaveBlock(PatchToHere(BreakStat(c.fs), c.e.f))
      back == Jump(again)
  IN  Do(c, LeaveBlock(IF ~Last(c.fs.bl).upval THEN PatchList(LeaveBlock(c.fs), c.e.f, PC(init))
                       ELSE PatchList(back.fs, back.j, PC(init))))

Exp1(s) == LET x == Expr(s) IN Do(x, Exp2NextReg(x.fs, x.e).fs)

ForBody(s, base, nvars, isnum) ==
  LET ctrl == AdjustLocalVars(s.fs, 3)
      num  == Code(ctrl, Instr("FORPREP", base, NoJump, 0))
      prep == IF isnum THEN [fs |-> num, j |-> {Len(num.code)}] ELSE Jump(ctrl)
      body == Block(Expect(Do(s, ReserveRegs(AdjustLocalVars(EnterBlock(prep.fs, FALSE), nvars), nvars)), "do"))
      here == PatchToHere(LeaveBlock(body.fs), prep.j)
      loop == Code(here, IF isnum THEN Instr("FORLOOP", base, NoJump, 0) ELSE Instr("TFORLOOP", base, 0, nvars))
      back == IF isnum THEN [fs |-> loop, j |-> {Len(loop.code)}] ELSE Jump(loop)
  IN  Do(body, PatchList(back.fs, back.j, Len(prep.fs.code) + 1))

ForNum(s, name) ==
  LET fs   == NewLocalVar(NewLocalVar(NewLocalVar(NewLocalVar(s.fs, "(for index)", 0), "(for limit)", 1), "(for step)", 2), name, 3)
      lim  == Exp1(Expect(Exp1(Expect(Do(s, fs), "=")), ","))
      one  == AddK(lim.fs, Number(1))
      step == IF Tok(lim) = "," THEN Exp1(Advance(lim))
              ELSE Do(lim, ReserveRegs(Code(one.fs, Instr("LOADK", one.fs.freereg, one.e, 0)), 1))
  IN  ForBody(step, s.fs.freereg, 1, TRUE)

RECURSIVE ForNames(_, _)
ForNames(s, n) ==
  IF Tok(s) = "," THEN ForNames(Do(Advance(Advance(s)), NewLocalVar(s.fs, Tok(Advance(s)), n)), n + 1) ELSE [s EXCEPT !.n = n]

ForList(s, name) ==
  LET fs    == NewLocalVar(NewLocalVar(NewLocalVar(NewLocalVar(s.fs, "(for generator)", 0), "(for state)", 1), "(for control)", 2), name, 3)
      names == ForNames(Do(s, fs), 4)
      x     == ExpList1(Expect(names, "in"), 1)
      fit   == AdjustAssign(x, 3, x.n)
  IN  ForBody(Do(fit, CheckStack(fit.fs, 3)), s.fs.freereg, names.n - 3, FALSE)

ForStat(s) ==
  LET open == Advance(Advance(Do(s, EnterBlock(s.fs, TRUE))))
      name == Tok(Advance(s))
      done == Expect(IF Tok(open) = "=" THEN ForNum(open, name) ELSE ForList(open, name), "end")
  IN  Do(done, LeaveBlock(done.fs))

Clauses(s, escape) ==   \* from an if or an elseif: condition, block, and what follows
  LET c     == Cond(Advance(s))
      b     == Block(Expect(c, "then"))
      j     == Jump(b.fs)
      next  == Do(b, PatchToHere(j.fs, c.e.f))
      other == Block(Advance(next))
  IN  CASE Tok(b) = "elseif" -> Clauses(next, escape \cup j.j)
        [] Tok(b) = "else"   -> Do(other, PatchToHere(other.fs, escape \cup j.j))
        [] OTHER             -> Do(b, PatchToHere(b.fs, escape \cup c.e.f))

IfStat(s) == Expect(Clauses(s, {}), "end")

LocalFunc(s) ==
  LET name == ReserveRegs(NewLocalVar(s.fs, Tok(s), 0), 1)
      b    == Body(Do(Advance(s), AdjustLocalVars(name, 1)), FALSE)
  IN  Do(b, StoreVar(b.fs, Exp("VLOCAL", s.fs.freereg), b.e))

RECURSIVE LocalNames(_, _)
LocalNames(s, n) ==
  LET one == Do(Advance(s), NewLocalVar(s.fs, Tok(s), n))
  IN  IF Tok(one) = "," THEN LocalNames(Advance(one), n + 1) ELSE [one EXCEPT !.n = n + 1]

LocalStat(s) ==
  LET names == LocalNames(s, 0)
      x     == IF Tok(names) = "=" THEN ExpList1(Advance(names), 1) ELSE [names EXCEPT !.e = Exp("VVOID", 0), !.n = 0]
      fit   == AdjustAssign(x, names.n, x.n)
  IN  Do(fit, AdjustLocalVars(fit.fs, names.n))

RECURSIVE Fields(_)
Fields(s) == IF Tok(s) = "." THEN Fields(Field(s)) ELSE s

FuncStat(s) ==
  LET path == Fields(SingleVar(Advance(s)))
      self == Tok(path) = ":"
      v    == IF self THEN Field(path) ELSE path
      b    == Body(v, self)
  IN  Do(b, StoreVar(b.fs, v.e, b.e))

ExprStat(s) ==
  LET v == PrimaryExp(s)
  IN  IF v.e.k = "VCALL" THEN [v EXCEPT !.fs.code[v.e.info].c = 1] ELSE Assigned(v, <<v.e>>)

RetStat(s) ==
  LET x    == ExpList1(Advance(s), 1)
      open == SetReturns(x.fs, x.e, MultRet)
      tail == IF x.e.k = "VCALL" /\ x.n = 1
              THEN [open EXCEPT !.code[x.e.info].op = "TAILCALL", !.sound = @ /\ CodeOf(open, x.e).a = open.nact] ELSE open
      any  == Exp2AnyReg(x.fs, x.e)
      all  == Exp2NextReg(x.fs, x.e).fs
  IN  IF BlockFollow(Tok(Advance(s))) \/ Tok(Advance(s)) = ";" THEN Do(Advance(s), Return(s.fs, 0, 0))
      ELSE IF HasMultRet(x.e) THEN Do(x, Return(tail, tail.nact, MultRet))
      ELSE IF x.n = 1 THEN Do(x, Return(any.fs, any.e.info, 1))
      ELSE Do(x, Return([all EXCEPT !.sound = @ /\ x.n = all.freereg - all.nact], all.nact, x.n))

Statement(s) ==
  LET t == Tok(s)
      do == Block(Advance(s))
  IN  CASE t = "if"       -> IfStat(s)
        [] t = "while"    -> WhileStat(s)
        [] t = "do"       -> Expect(do, "end")
        [] t = "for"      -> ForStat(s)
        [] t = "repeat"   -> RepeatStat(s)
        [] t = "function" -> FuncStat(s)
        [] t = "local"    -> IF Tok(Advance(s)) = "function" THEN LocalFunc(Advance(Advance(s))) ELSE LocalStat(Advance(s))
        [] t = "return"   -> RetStat(s)
        [] t = "break"    -> Do(Advance(s), BreakStat(s.fs))
        [] OTHER          -> ExprStat(s)

Chunk(s) ==
  LET x == TestNext(Statement(s), ";")
      y == [x EXCEPT !.fs.freereg = x.fs.nact, !.fs.sound = @ /\ x.fs.maxstack >= x.fs.freereg /\ x.fs.freereg >= x.fs.nact]
  IN  IF BlockFollow(Tok(s)) THEN s ELSE IF Tok(s) \in {"return", "break"} THEN y ELSE Chunk(y)

(* luaY_parser: the main function takes any number of arguments.           *)
Parser(toks) ==
  LET s == Chunk([toks |-> Append(toks, "<eof>"), at |-> 1, fs |-> OpenFunc({"ISVARARG"}), outer |-> <<>>, e |-> Exp("VVOID", 0), n |-> 0])
      p == CloseFunc(s.fs)
  IN  [p EXCEPT !.sound = @ /\ Tok(s) = "<eof>"]
=============================================================================
