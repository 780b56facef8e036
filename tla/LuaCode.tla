------------------------------ MODULE LuaCode ------------------------------
(***************************************************************************)
(* The code generator of Lua (lcode.c): how an expression that is being    *)
(* parsed, described by an expdesc, is turned into instructions, registers *)
(* and lists of jumps still to be patched.                                 *)
(*                                                                         *)
(* Positions in the code count from 1, registers and constants from 0.  A  *)
(* jump holds its absolute target in b.  A list of jumps (in the code, a   *)
(* chain through the jumps' own offsets) is the set of their positions.    *)
(* Every operator takes the state fs of the function being compiled and    *)
(* leaves a new one; those that also change an expression leave both.      *)
(* fs.sound records whether the assertions of the code held so far.        *)
(***************************************************************************)
EXTENDS Integers, SequencesExt

CONSTANTS
  MaxIndexRK,     \* largest constant that fits an operand (255 in the code)
  FieldsPerFlush  \* LFIELDS_PER_FLUSH, items of a constructor stored at once (50)

NaN    == 9999    \* not a number; no program computes it otherwise
NoJump == 0
NoReg  == 255
BitRK  == 256
MultRet == -1

IsK(rk) == rk >= BitRK

Number(n) == <<"num", n>>
Boolean(b) == <<"bool", b>>
Nil == <<"nil">>

Instr(op, a, b, c) == [op |-> op, a |-> a, b |-> b, c |-> c]

(* Those that are followed by a jump (testTMode).                          *)
Tests == {"EQ", "LT", "LE", "TEST", "TESTSET", "TFORLOOP"}

(* A new expdesc (init_exp): its true and false lists are empty.           *)
Exp(k, info) == [k |-> k, info |-> info, aux |-> 0, nval |-> 0, t |-> {}, f |-> {}]

HasJumps(e)   == e.t # e.f
IsNumeral(e)  == e.k = "VKNUM" /\ e.t = {} /\ e.f = {}
HasMultRet(e) == e.k \in {"VCALL", "VVARARG"}

Left(fs, e)  == [fs |-> fs, e |-> e]
PC(fs)       == Len(fs.code) + 1
CodeOf(fs, e) == fs.code[e.info]

-----------------------------------------------------------------------------
(* Jumps. *)
(* The instruction that decides a jump: the test before it, if any.        *)
JumpControl(code, pc) == IF pc > 1 /\ code[pc - 1].op \in Tests THEN pc - 1 ELSE pc

NeedValue(fs, list) == \E j \in list : fs.code[JumpControl(fs.code, j)].op # "TESTSET"

(* A TESTSET gets its register, or becomes a TEST when it needs none.      *)
PatchTestReg(code, node, reg) ==
  LET i == JumpControl(code, node)
  IN  IF code[i].op # "TESTSET" THEN code
      ELSE [code EXCEPT ![i] = IF reg # NoReg /\ reg # @.b THEN [@ EXCEPT !.a = reg]
                               ELSE Instr("TEST", @.b, 0, @.c)]

RemoveValues(fs, list) ==
  [fs EXCEPT !.code = FoldSet(LAMBDA j, code : PatchTestReg(code, j, NoReg), @, list)]

PatchListAux(fs, list, vtarget, reg, dtarget) ==
  LET Patch(j, code) ==
        [PatchTestReg(code, j, reg) EXCEPT
           ![j].b = IF code[JumpControl(code, j)].op = "TESTSET" THEN vtarget ELSE dtarget]
  IN  [fs EXCEPT !.code = FoldSet(Patch, @, list)]

DischargeJpc(fs) == [PatchListAux(fs, fs.jpc, PC(fs), NoReg, PC(fs)) EXCEPT !.jpc = {}]

Code(fs, i) == [DischargeJpc(fs) EXCEPT !.code = Append(@, i)]

GetLabel(fs) == [fs EXCEPT !.lasttarget = PC(fs)]

PatchToHere(fs, list) == [GetLabel(fs) EXCEPT !.jpc = @ \cup list]

PatchList(fs, list, target) ==
  IF target = PC(fs) THEN PatchToHere(fs, list) ELSE PatchListAux(fs, list, target, NoReg, target)

(* A jump takes with it the jumps that waited for its position.            *)
Jump(fs) ==
  LET f == Code([fs EXCEPT !.jpc = {}], Instr("JMP", 0, NoJump, 0))
  IN  [fs |-> f, j |-> fs.jpc \cup {Len(f.code)}]

CondJump(fs, op, a, b, c) == Jump(Code(fs, Instr(op, a, b, c)))

Return(fs, first, nret) == Code(fs, Instr("RETURN", first, nret + 1, 0))

-----------------------------------------------------------------------------
(* Registers and constants. *)
(* Nils join those of the previous instruction, unless a jump may come     *)
(* between the two.                                                        *)
CodeNil(fs, from, n) ==
  LET straight == PC(fs) > fs.lasttarget
      last     == fs.code[Len(fs.code)]
  IN  IF straight /\ fs.code = <<>> /\ from >= fs.nact THEN fs
      ELSE IF straight /\ fs.code # <<>> /\ last.op = "LOADNIL" /\ last.a <= from /\ from <= last.b + 1
      THEN [fs EXCEPT !.code[Len(fs.code)].b = IF from + n - 1 > @ THEN from + n - 1 ELSE @]
      ELSE Code(fs, Instr("LOADNIL", from, from + n - 1, 0))

(* Slip: one register too few. *)
CheckStack_OffByOne(fs, n) == [fs EXCEPT !.maxstack = IF fs.freereg + n > @ + 1 THEN fs.freereg + n ELSE @]

CheckStack(fs, n) == [fs EXCEPT !.maxstack = IF fs.freereg + n > @ THEN fs.freereg + n ELSE @]

ReserveRegs(fs, n) == [CheckStack(fs, n) EXCEPT !.freereg = @ + n]

FreeReg(fs, reg) ==
  IF IsK(reg) \/ reg < fs.nact THEN fs
  ELSE [fs EXCEPT !.freereg = @ - 1, !.sound = @ /\ reg = fs.freereg - 1]

FreeExp(fs, e) == IF e.k = "VNONRELOC" THEN FreeReg(fs, e.info) ELSE fs

(* The index of a constant; NaN cannot be one, it is no key of a table.    *)
AddK(fs, v) ==
  IF v \in ToSet(fs.k) THEN Left(fs, (CHOOSE i \in DOMAIN fs.k : fs.k[i] = v) - 1)
  ELSE Left([fs EXCEPT !.k = Append(@, v), !.sound = @ /\ v # Number(NaN)], Len(fs.k))

-----------------------------------------------------------------------------
(* Expressions to registers. *)
SetReturns(fs, e, n) ==
  CASE e.k = "VCALL"   -> [fs EXCEPT !.code[e.info].c = n + 1]
    [] e.k = "VVARARG" -> ReserveRegs([fs EXCEPT !.code[e.info].b = n + 1, !.code[e.info].a = fs.freereg], 1)
    [] OTHER           -> fs

SetOneRet(fs, e) ==
  CASE e.k = "VCALL"   -> Left(fs, [e EXCEPT !.k = "VNONRELOC", !.info = CodeOf(fs, e).a])
    [] e.k = "VVARARG" -> Left([fs EXCEPT !.code[e.info].b = 2], [e EXCEPT !.k = "VRELOCABLE"])
    [] OTHER           -> Left(fs, e)

(* A value that an instruction just coded leaves in a register to be fixed. *)
Relocable(fs, e) == Left(fs, [e EXCEPT !.k = "VRELOCABLE", !.info = Len(fs.code)])

DischargeVars(fs, e) ==
  CASE e.k = "VLOCAL"   -> Left(fs, [e EXCEPT !.k = "VNONRELOC"])
    [] e.k = "VUPVAL"   -> Relocable(Code(fs, Instr("GETUPVAL", 0, e.info, 0)), e)
    [] e.k = "VGLOBAL"  -> Relocable(Code(fs, Instr("GETGLOBAL", 0, e.info, 0)), e)
    [] e.k = "VINDEXED" -> Relocable(Code(FreeReg(FreeReg(fs, e.aux), e.info), Instr("GETTABLE", 0, e.info, e.aux)), e)
    [] HasMultRet(e)    -> SetOneRet(fs, e)
    [] OTHER            -> Left(fs, e)

Discharge2Reg(fs, e, reg) ==
  LET d  == DischargeVars(fs, e)
      nk == AddK(d.fs, Number(d.e.nval))
      fixed == CASE d.e.k = "VNIL"  -> CodeNil(d.fs, reg, 1)
                 [] d.e.k \in {"VFALSE", "VTRUE"} -> Code(d.fs, Instr("LOADBOOL", reg, IF d.e.k = "VTRUE" THEN 1 ELSE 0, 0))
                 [] d.e.k = "VK"    -> Code(d.fs, Instr("LOADK", reg, d.e.info, 0))
                 [] d.e.k = "VKNUM" -> Code(nk.fs, Instr("LOADK", reg, nk.e, 0))
                 [] d.e.k = "VRELOCABLE" -> [d.fs EXCEPT !.code[d.e.info].a = reg]
                 [] d.e.k = "VNONRELOC"  -> IF reg # d.e.info THEN Code(d.fs, Instr("MOVE", reg, d.e.info, 0)) ELSE d.fs
  IN  IF d.e.k \in {"VVOID", "VJMP"} THEN d
      ELSE Left(fixed, [d.e EXCEPT !.info = reg, !.k = "VNONRELOC"])

Discharge2AnyReg(fs, e) ==
  IF e.k = "VNONRELOC" THEN Left(fs, e)
  ELSE LET f == ReserveRegs(fs, 1) IN Discharge2Reg(f, e, f.freereg - 1)

CodeLabel(fs, a, b, jump) == Code(GetLabel(fs), Instr("LOADBOOL", a, b, jump))

(* Where an expression has jumps of its own, the value may come from a     *)
(* TESTSET, or from one of two loads of a boolean placed after it.         *)
Exp2Reg(fs, e, reg) ==
  LET d     == Discharge2Reg(fs, e, reg)
      t     == IF d.e.k = "VJMP" THEN d.e.t \cup {d.e.info} ELSE d.e.t
      f     == d.e.f
      need  == NeedValue(d.fs, t) \/ NeedValue(d.fs, f)
      skip  == IF d.e.k = "VJMP" THEN [fs |-> d.fs, j |-> {}] ELSE Jump(d.fs)
      loadf == CodeLabel(skip.fs, reg, 0, 1)
      loadt == CodeLabel(loadf, reg, 1, 0)
      both  == IF need THEN PatchToHere(loadt, skip.j) ELSE d.fs
      final == GetLabel(both)
      pf    == PatchListAux(final, f, PC(final), reg, Len(loadf.code))
      pt    == PatchListAux(pf, t, PC(final), reg, Len(loadt.code))
  IN  Left(IF t # f THEN pt ELSE d.fs, Exp("VNONRELOC", reg))

Exp2NextReg(fs, e) ==
  LET d == DischargeVars(fs, e)
      f == ReserveRegs(FreeExp(d.fs, d.e), 1)
  IN  Exp2Reg(f, d.e, f.freereg - 1)

Exp2AnyReg(fs, e) ==
  LET d == DischargeVars(fs, e)
  IN  IF d.e.k = "VNONRELOC" /\ ~HasJumps(d.e) THEN d
      ELSE IF d.e.k = "VNONRELOC" /\ d.e.info >= d.fs.nact THEN Exp2Reg(d.fs, d.e, d.e.info)
      ELSE Exp2NextReg(d.fs, d.e)

Exp2Val(fs, e) == IF HasJumps(e) THEN Exp2AnyReg(fs, e) ELSE DischargeVars(fs, e)

(* The constant that an expression is, if it is one.                       *)
ConstantOf(e) ==
  CASE e.k = "VNIL"  -> Nil
    [] e.k = "VKNUM" -> Number(e.nval)
    [] OTHER         -> Boolean(e.k = "VTRUE")

Exp2RK(fs, e) ==
  LET v == Exp2Val(fs, e)
      k == AddK(v.fs, ConstantOf(v.e))
  IN  IF v.e.k \in {"VKNUM", "VTRUE", "VFALSE", "VNIL"} /\ Len(v.fs.k) <= MaxIndexRK
      THEN Left(k.fs, [v.e EXCEPT !.k = "VK", !.info = k.e])
      ELSE IF v.e.k = "VK" /\ v.e.info <= MaxIndexRK THEN v ELSE Exp2AnyReg(v.fs, v.e)

(* The operand that Exp2RK left an expression as.                          *)
RK(e) == IF e.k = "VK" THEN BitRK + e.info ELSE e.info

StoreVar(fs, var, ex) ==
  LET any == Exp2AnyReg(fs, ex)
      rk  == Exp2RK(fs, ex)
  IN  CASE var.k = "VLOCAL"   -> Exp2Reg(FreeExp(fs, ex), ex, var.info).fs
        [] var.k = "VUPVAL"   -> FreeExp(Code(any.fs, Instr("SETUPVAL", any.e.info, var.info, 0)), any.e)
        [] var.k = "VGLOBAL"  -> FreeExp(Code(any.fs, Instr("SETGLOBAL", any.e.info, var.info, 0)), any.e)
        [] var.k = "VINDEXED" -> FreeExp(Code(rk.fs, Instr("SETTABLE", var.info, var.aux, RK(rk.e))), rk.e)

Self(fs, e, key) ==
  LET any  == Exp2AnyReg(fs, e)
      func == FreeExp(any.fs, any.e).freereg
      rk   == Exp2RK(ReserveRegs(FreeExp(any.fs, any.e), 2), key)
  IN  Left(FreeExp(Code(rk.fs, Instr("SELF", func, any.e.info, RK(rk.e))), rk.e), [any.e EXCEPT !.info = func, !.k = "VNONRELOC"])

-----------------------------------------------------------------------------
(* Conditions. *)
InvertJump(fs, e) ==
  LET i == JumpControl(fs.code, e.info) IN [fs EXCEPT !.code[i].a = 1 - @]

JumpOnCond(fs, e, cond) ==
  LET d == Discharge2AnyReg(fs, e)
  IN  IF e.k = "VRELOCABLE" /\ CodeOf(fs, e).op = "NOT"
      THEN CondJump([fs EXCEPT !.code = Front(@)], "TEST", CodeOf(fs, e).b, 0, 1 - cond)
      ELSE CondJump(FreeExp(d.fs, d.e), "TESTSET", NoReg, d.e.info, cond)

GoIfTrue(fs, e) ==
  LET d == DischargeVars(fs, e)
      j == CASE d.e.k \in {"VK", "VKNUM", "VTRUE"} -> [fs |-> d.fs, j |-> {}]
             [] d.e.k = "VFALSE" -> Jump(d.fs)
             [] d.e.k = "VJMP"   -> [fs |-> InvertJump(d.fs, d.e), j |-> {d.e.info}]
             [] OTHER            -> JumpOnCond(d.fs, d.e, 0)
  IN  Left(PatchToHere(j.fs, d.e.t), [d.e EXCEPT !.f = @ \cup j.j, !.t = {}])

GoIfFalse(fs, e) ==
  LET d == DischargeVars(fs, e)
      j == CASE d.e.k \in {"VNIL", "VFALSE"} -> [fs |-> d.fs, j |-> {}]
             [] d.e.k = "VTRUE" -> Jump(d.fs)
             [] d.e.k = "VJMP"  -> [fs |-> d.fs, j |-> {d.e.info}]
             [] OTHER           -> JumpOnCond(d.fs, d.e, 1)
  IN  Left(PatchToHere(j.fs, d.e.f), [d.e EXCEPT !.t = @ \cup j.j, !.f = {}])

(* Slip: the tests keep their values. *)
CodeNot_KeepsValues(fs, e) ==
  LET d == DischargeVars(fs, e)
      a == Discharge2AnyReg(d.fs, d.e)
      n == CASE d.e.k \in {"VNIL", "VFALSE"} -> Left(d.fs, [d.e EXCEPT !.k = "VTRUE"])
             [] d.e.k \in {"VK", "VKNUM", "VTRUE"} -> Left(d.fs, [d.e EXCEPT !.k = "VFALSE"])
             [] d.e.k = "VJMP" -> Left(InvertJump(d.fs, d.e), d.e)
             [] d.e.k \in {"VRELOCABLE", "VNONRELOC"} ->
                  Relocable(Code(FreeExp(a.fs, a.e), Instr("NOT", 0, a.e.info, 0)), a.e)
  IN  Left(n.fs, [n.e EXCEPT !.t = n.e.f, !.f = n.e.t])

(* A negation exchanges the lists; values that their tests would have left *)
(* are no longer wanted.                                                   *)
CodeNot(fs, e) ==
  LET d == DischargeVars(fs, e)
      a == Discharge2AnyReg(d.fs, d.e)
      n == CASE d.e.k \in {"VNIL", "VFALSE"} -> Left(d.fs, [d.e EXCEPT !.k = "VTRUE"])
             [] d.e.k \in {"VK", "VKNUM", "VTRUE"} -> Left(d.fs, [d.e EXCEPT !.k = "VFALSE"])
             [] d.e.k = "VJMP" -> Left(InvertJump(d.fs, d.e), d.e)
             [] d.e.k \in {"VRELOCABLE", "VNONRELOC"} ->
                  Relocable(Code(FreeExp(a.fs, a.e), Instr("NOT", 0, a.e.info, 0)), a.e)
  IN  Left(RemoveValues(RemoveValues(n.fs, n.e.t), n.e.f), [n.e EXCEPT !.t = n.e.f, !.f = n.e.t])

-----------------------------------------------------------------------------
(* Operators. *)
Indexed(fs, t, key) ==
  LET rk == Exp2RK(fs, key) IN Left(rk.fs, [t EXCEPT !.aux = RK(rk.e), !.k = "VINDEXED"])

(* luai_numadd and the others, for numbers that are integers here.         *)
NumArith(op, x, y) ==
  CASE NaN \in {x, y} -> NaN
    [] op = "ADD" -> x + y
    [] op = "SUB" -> x - y
    [] op = "MUL" -> x * y
    [] op = "MOD" -> IF y = 0 THEN NaN ELSE IF y > 0 THEN x % y ELSE -((-x) % (-y))
    [] op = "UNM" -> -x

(* An operation on numerals is done now, unless it may go wrong.           *)
Folds(op, e1, e2) ==
  /\ IsNumeral(e1) /\ IsNumeral(e2)
  /\ op # "LEN"
  /\ op = "MOD" => e2.nval # 0
  /\ NumArith(op, e1.nval, e2.nval) # NaN

CodeArith(fs, op, e1, e2) ==
  LET r2 == IF op \in {"UNM", "LEN"} THEN Left(fs, e2) ELSE Exp2RK(fs, e2)
      o2 == IF op \in {"UNM", "LEN"} THEN 0 ELSE RK(r2.e)
      r1 == Exp2RK(r2.fs, e1)
      o1 == RK(r1.e)
      free == IF o1 > o2 THEN FreeExp(FreeExp(r1.fs, r1.e), r2.e) ELSE FreeExp(FreeExp(r1.fs, r2.e), r1.e)
  IN  IF Folds(op, e1, e2) THEN Left(fs, [e1 EXCEPT !.nval = NumArith(op, e1.nval, e2.nval)])
      ELSE Relocable(Code(free, Instr(op, 0, o1, o2)), r1.e)

CodeComp(fs, op, cond, e1, e2) ==
  LET r1   == Exp2RK(fs, e1)
      r2   == Exp2RK(r1.fs, e2)
      free == FreeExp(FreeExp(r2.fs, r2.e), r1.e)
      swap == cond = 0 /\ op # "EQ"
      j    == IF swap THEN CondJump(free, op, 1, RK(r2.e), RK(r1.e)) ELSE CondJump(free, op, cond, RK(r1.e), RK(r2.e))
  IN  Left(j.fs, [r1.e EXCEPT !.k = "VJMP", !.info = Len(j.fs.code)])

Prefix(fs, op, e) ==
  LET zero == Exp("VKNUM", 0)
      any  == Exp2AnyReg(fs, e)
  IN  CASE op = "not" -> CodeNot(fs, e)
        [] op = "-"   -> IF IsNumeral(e) THEN CodeArith(fs, "UNM", e, zero) ELSE CodeArith(any.fs, "UNM", any.e, zero)
        [] op = "#"   -> CodeArith(any.fs, "LEN", any.e, zero)

Arithmetic == [x \in {"+", "-", "*", "%"} |-> CASE x = "+" -> "ADD" [] x = "-" -> "SUB" [] x = "*" -> "MUL" [] x = "%" -> "MOD"]

(* After the first operand has been read.                                  *)
Infix(fs, op, v) ==
  CASE op = "and" -> GoIfTrue(fs, v)
    [] op = "or"  -> GoIfFalse(fs, v)
    [] op = ".."  -> Exp2NextReg(fs, v)
    [] OTHER      -> IF op \in DOMAIN Arithmetic /\ IsNumeral(v) THEN Left(fs, v) ELSE Exp2RK(fs, v)

(* Concatenations to the right join into one instruction.                  *)
CodeConcat(fs, e1, e2) ==
  LET v == Exp2Val(fs, e2)
      n == Exp2NextReg(v.fs, v.e)
      f == FreeExp(v.fs, e1)
  IN  IF v.e.k = "VRELOCABLE" /\ CodeOf(v.fs, v.e).op = "CONCAT"
      THEN Left([f EXCEPT !.code[v.e.info].b = e1.info, !.sound = @ /\ e1.info = CodeOf(v.fs, v.e).b - 1],
                [e1 EXCEPT !.k = "VRELOCABLE", !.info = v.e.info])
      ELSE CodeArith(n.fs, "CONCAT", e1, n.e)

(* After both have been read.                                              *)
Posfix(fs, op, e1, e2) ==
  LET d == DischargeVars(fs, e2)
  IN  CASE op = "and" -> Left([d.fs EXCEPT !.sound = @ /\ e1.t = {}], [d.e EXCEPT !.f = @ \cup e1.f])
        [] op = "or"  -> Left([d.fs EXCEPT !.sound = @ /\ e1.f = {}], [d.e EXCEPT !.t = @ \cup e1.t])
        [] op = ".."  -> CodeConcat(fs, e1, e2)
        [] op \in DOMAIN Arithmetic -> CodeArith(fs, Arithmetic[op], e1, e2)
        [] op = "=="  -> CodeComp(fs, "EQ", 1, e1, e2)
        [] op = "~="  -> CodeComp(fs, "EQ", 0, e1, e2)
        [] op = "<"   -> CodeComp(fs, "LT", 1, e1, e2)
        [] op = "<="  -> CodeComp(fs, "LE", 1, e1, e2)
        [] op = ">"   -> CodeComp(fs, "LT", 0, e1, e2)
        [] op = ">="  -> CodeComp(fs, "LE", 0, e1, e2)

(* The items of a constructor that wait in registers are stored.           *)
SetList(fs, base, nelems, tostore) ==
  LET batch == ((nelems - 1) \div FieldsPerFlush) + 1
  IN  [Code(fs, Instr("SETLIST", base, IF tostore = MultRet THEN 0 ELSE tostore, batch)) EXCEPT !.freereg = base + 1]
=============================================================================
