----------------------------- MODULE LuaVerify -----------------------------
(***************************************************************************)
(* luaG_checkcode (ldebug.c): what every function must satisfy before it   *)
(* is run.  A chunk loaded in binary form is refused when it fails; of the *)
(* compiler's own output it is only asserted (lparser.c:374).              *)
(* Here the target of a jump is the absolute b of its instruction.         *)
(***************************************************************************)
EXTENDS LuaParser

(* luaP_opmodes: what A, B and C are; those not listed are unused or free. *)
Jumps == {"JMP", "FORLOOP", "FORPREP"}
Operate == {"ADD", "SUB", "MUL", "MOD"}
RegisterB == {"MOVE", "LOADNIL", "GETTABLE", "SELF", "UNM", "NOT", "LEN", "CONCAT", "TEST", "TESTSET"}
OperandB  == {"SETTABLE", "EQ", "LT", "LE"} \cup Operate
OperandC  == {"GETTABLE", "SETTABLE", "SELF", "EQ", "LT", "LE"} \cup Operate
ConstantB == {"LOADK", "GETGLOBAL", "SETGLOBAL"}
UnusedB   == {"CLOSE", "TFORLOOP"}
UnusedC   == {"MOVE", "LOADNIL", "GETUPVAL", "SETUPVAL", "UNM", "NOT", "LEN", "RETURN", "CLOSE", "VARARG"}

PreCheck(p) ==
  /\ p.numparams + (IF "HASARG" \in p.vararg THEN 1 ELSE 0) <= p.maxstack
  /\ "NEEDSARG" \in p.vararg => "HASARG" \in p.vararg
  /\ p.code # <<>> /\ Last(p.code).op = "RETURN"

CheckOpenOp(i) == i.op \in {"CALL", "TAILCALL", "RETURN", "SETLIST"} /\ i.b = 0

CheckArgModes(p, i) ==
  LET Reg(r)     == r < p.maxstack
      Operand(r) == IF IsK(r) THEN r - BitRK < Len(p.k) ELSE Reg(r)
  IN  /\ Reg(i.a)
      /\ i.op \in RegisterB => Reg(i.b)
      /\ i.op \in OperandB => Operand(i.b)
      /\ i.op \in OperandC => Operand(i.c)
      /\ i.op = "CONCAT" => Reg(i.c)
      /\ i.op \in ConstantB => i.b < Len(p.k)
      /\ i.op \in UnusedB => i.b = 0
      /\ i.op \in UnusedC => i.c = 0
      /\ i.op \in Jumps => i.b \in DOMAIN p.code

CheckInstruction(p, pc) ==
  LET i      == p.code[pc]
      Reg(r) == r < p.maxstack
      NextOp == p.code[pc + 1]
      nup    == Len(p.p[i.b + 1].upvals)
  IN  /\ i.op \in Tests => pc + 2 <= Len(p.code) /\ NextOp.op = "JMP"
      /\ i.op = "LOADBOOL" /\ i.c = 1 => pc + 2 <= Len(p.code)
      /\ i.op \in {"GETUPVAL", "SETUPVAL"} => i.b < Len(p.upvals)
      /\ i.op \in {"GETGLOBAL", "SETGLOBAL"} => p.k[i.b + 1][1] = "str"
      /\ i.op = "SELF" => Reg(i.a + 1)
      /\ i.op = "CONCAT" => i.b < i.c
      /\ i.op = "TFORLOOP" => i.c >= 1 /\ Reg(i.a + 2 + i.c)
      /\ i.op \in {"FORLOOP", "FORPREP"} => Reg(i.a + 3)
      /\ i.op \in {"CALL", "TAILCALL"} =>
           /\ i.b # 0 => Reg(i.a + i.b - 1)
           /\ IF i.c - 1 = MultRet THEN CheckOpenOp(NextOp) ELSE i.c - 1 # 0 => Reg(i.a + i.c - 2)
      /\ i.op = "RETURN" /\ i.b > 1 => Reg(i.a + i.b - 2)
      /\ i.op = "SETLIST" /\ i.b > 0 => Reg(i.a + i.b)
      /\ i.op = "CLOSURE" => /\ i.b < Len(p.p) /\ pc + nup < Len(p.code)
                             /\ \A j \in 1..nup : p.code[pc + j].op \in {"GETUPVAL", "MOVE"}
      /\ i.op = "VARARG" => /\ "ISVARARG" \in p.vararg /\ "NEEDSARG" \notin p.vararg
                            /\ i.b - 1 = MultRet => CheckOpenOp(NextOp)
                            /\ Reg(i.a + i.b - 2)

SymbExec(p) == PreCheck(p) /\ \A pc \in DOMAIN p.code : CheckArgModes(p, p.code[pc]) /\ CheckInstruction(p, pc)

(* The function and those nested in it.                                    *)
RECURSIVE CheckCode(_)
CheckCode(p) == SymbExec(p) /\ \A i \in DOMAIN p.p : CheckCode(p.p[i])
=============================================================================
