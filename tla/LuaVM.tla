------------------------------- MODULE LuaVM -------------------------------
(***************************************************************************)
(* The virtual machine of Lua: luaV_execute (lvm.c), with the calls and    *)
(* returns of ldo.c and the upvalues of lfunc.c, running what the parser   *)
(* made of a program.                                                      *)
(*                                                                         *)
(* There is one stack; a frame (CallInfo) is a window on it, so registers  *)
(* that a function never wrote hold what earlier calls left there.  A      *)
(* value is a tuple that starts with its type.  A string is a sequence of  *)
(* pieces.  Numbers are integers.  No value has a metatable, no hook is    *)
(* set, the stack does not overflow.                                       *)
(***************************************************************************)
EXTENDS LuaVerify

CONSTANTS
  Programs,     \* the programs, of any form
  Compile(_),   \* the main function that the compiler makes of one
  StackSize

VARIABLES
  program, main,   \* the program and the function it was compiled to
  stack, top, frames,
  closures, upvals, tables, globals,
  log,             \* history: what the program reported
  status           \* "running", "done" or "error"

vars == <<program, main, stack, top, frames, closures, upvals, tables, globals, log, status>>
heap == <<closures, upvals, tables, globals, log>>

Slots == 0..(StackSize - 1)
Primitive(name) == <<"prim", name>>

(* Functions of the host: probe reports its arguments and returns them,    *)
(* upto(n, i) counts i up to n for a generic loop.                         *)
Globals == "probe" :> Primitive("probe") @@ "upto" :> Primitive("upto")
HostResults(name, args) ==
  IF name = "probe" THEN args ELSE <<IF args[2][2] < args[1][2] THEN Number(args[2][2] + 1) ELSE Nil>>

-----------------------------------------------------------------------------
(* Values. *)
IsFalse(v)    == v \in {Nil, Boolean(FALSE)}
IsNumber(v)   == v[1] = "num"
IsTable(v)    == v[1] = "tab"
IsString(v)   == v[1] = "str"
IsFunction(v) == v[1] \in {"fun", "prim"}

(* luaV_tonumber, luaV_tostring: a string of one numeral is that number.   *)
ConvertsTo(v) == IsNumber(v) \/ (IsString(v) /\ Len(v[2]) = 1 /\ v[2][1] \in DOMAIN NumeralOf)
ToNumber(v) == IF IsNumber(v) THEN v[2] ELSE NumeralOf[v[2][1]]
ToStr(v)    == IF IsNumber(v) THEN <<ToString(v[2])>> ELSE v[2]

GetTable(t, k) == LET f == tables[t[2]] IN IF k \in DOMAIN f THEN f[k] ELSE Nil
Stored(f, k, v) == IF v = Nil THEN [x \in DOMAIN f \ {k} |-> f[x]] ELSE (k :> v) @@ f

Border(f) == CHOOSE n \in 0..Cardinality(DOMAIN f) : (n = 0 \/ Number(n) \in DOMAIN f) /\ Number(n + 1) \notin DOMAIN f

EqualObj(a, b) == a = b /\ a # Number(NaN)
Comparable(op, a, b) == op = "EQ" \/ (a[1] = b[1] /\ a[1] \in {"num"})
Compare(op, a, b) ==
  CASE op = "EQ" -> EqualObj(a, b)
    [] op = "LT" -> a[2] < b[2] /\ NaN \notin {a[2], b[2]}
    [] op = "LE" -> a[2] <= b[2] /\ NaN \notin {a[2], b[2]}

-----------------------------------------------------------------------------
(* The current frame. *)
ci == Last(frames)
cl == closures[ci.cl]

ProtoAt(path) == FoldLeft(LAMBDA p, i : p.p[i], main, path)
P == ProtoAt(cl.p)
I == P.code[ci.pc]

R(n)  == stack[ci.base + n]
K(n)  == P.k[n + 1]
RKV(x) == IF IsK(x) THEN K(x - BitRK) ELSE R(x)

Ready(ops) == status = "running" /\ ~ci.mid /\ I.op \in ops

Goto(pc)    == frames' = [frames EXCEPT ![Len(frames)].pc = pc]
Step        == Goto(ci.pc + 1)
(* A test that succeeds takes the jump after it, one that fails skips it.  *)
Branch(yes) == Goto(IF yes THEN P.code[ci.pc + 1].b ELSE ci.pc + 2)

Written(regs, Value(_)) == [i \in Slots |-> IF i - ci.base \in regs THEN Value(i - ci.base) ELSE stack[i]]
Put(reg, v)   == stack' = Written({reg}, LAMBDA r : v)
Only(reg, v)  == Put(reg, v) /\ Step /\ UNCHANGED <<top, heap, status, program, main>>

-----------------------------------------------------------------------------
(* Upvalues (lfunc.c). *)
UpvalValue(u) == IF upvals[u].open THEN stack[upvals[u].at] ELSE upvals[u].v

Close(ups, level) ==
  [u \in DOMAIN ups |-> IF ups[u].open /\ ups[u].at >= level THEN [open |-> FALSE, at |-> 0, v |-> stack[ups[u].at]] ELSE ups[u]]

(* FindUpval: the open one for the slot, or a new one.                     *)
FindUpval(ups, slot) ==
  LET open == {u \in DOMAIN ups : ups[u].open /\ ups[u].at = slot}
  IN  IF open # {} THEN <<ups, Max(open)>> ELSE <<Append(ups, [open |-> TRUE, at |-> slot, v |-> Nil]), Len(ups) + 1>>

-----------------------------------------------------------------------------
(* Calls (ldo.c). *)
(* luaD_precall of a Lua function c at func with the arguments up to tp: a *)
(* vararg function moves its fixed parameters above the arguments.         *)
Enter(st, c, path, func, tp, nresults, arg) ==
  LET p     == ProtoAt(path)
      nargs == tp - func - 1
      extra == "ISVARARG" \in p.vararg
      base  == IF extra THEN func + 1 + (IF nargs > p.numparams THEN nargs ELSE p.numparams) ELSE func + 1
      Arg(j) == IF j < nargs THEN st[func + 1 + j] ELSE Nil
      Slot(i) == IF i - base \in 0..(p.numparams - 1) THEN Arg(i - base)
                 ELSE IF i = base + p.numparams /\ "NEEDSARG" \in p.vararg THEN arg
                 ELSE IF i \in base..(base + p.maxstack - 1) \/ (extra /\ i - func \in 1..p.numparams) THEN Nil
                 ELSE IF i \in tp..(base - 1) THEN Nil ELSE st[i]
  IN  [stack |-> [i \in Slots |-> Slot(i)],
       frame |-> [cl |-> c, func |-> func, base |-> base, top |-> base + p.maxstack, pc |-> 1, nresults |-> nresults, mid |-> FALSE]]

(* The table arg of an old-style vararg function.                          *)
ArgTable(st, path, func, tp) ==
  LET np == ProtoAt(path).numparams
      n  == IF tp - func - 1 > np THEN tp - func - 1 - np ELSE 0
  IN  (String(<<"n">>) :> Number(n)) @@ [k \in {Number(i) : i \in 1..n} |-> st[func + np + k[2]]]
NeedsArg(path) == "NEEDSARG" \in ProtoAt(path).vararg

(* luaD_poscall: as many results as wanted, from func on.                  *)
Place(st, func, values, wanted) ==
  LET n == IF wanted = MultRet THEN Len(values) ELSE wanted
  IN  [stack |-> [i \in Slots |-> IF i - func \in 0..(n - 1) THEN (IF i - func < Len(values) THEN values[i - func + 1] ELSE Nil) ELSE st[i]],
       top   |-> func + n]

Values(st, from, to) == [i \in 1..(to - from) |-> st[from + i - 1]]

(* A call at func of st with the arguments up to tp, from the frames fs.   *)
DoCall(st, fs, func, tp, nresults) ==
  LET f    == st[func]
      path == closures[f[2]].p
      new  == Enter(st, f[2], path, func, tp, nresults, <<"tab", Len(tables) + 1>>)
      args == Values(st, func + 1, tp)
      back == Place(st, func, HostResults(f[2], args), nresults)
  IN  IF f[1] = "fun"
      THEN /\ stack' = new.stack /\ frames' = Append(fs, new.frame) /\ top' = new.frame.top
           /\ tables' = IF NeedsArg(path) THEN Append(tables, ArgTable(st, path, func, tp)) ELSE tables
           /\ log' = log
      ELSE /\ stack' = back.stack /\ frames' = fs
           /\ top' = IF nresults = MultRet THEN back.top ELSE ci.top
           /\ log' = IF f[2] = "probe" THEN Append(log, args) ELSE log
           /\ tables' = tables

-----------------------------------------------------------------------------
(* The instructions. *)
Loads ==
  /\ Ready({"MOVE", "LOADK", "GETUPVAL", "GETGLOBAL"})
  /\ Only(I.a, CASE I.op = "MOVE"     -> R(I.b)
                 [] I.op = "LOADK"    -> K(I.b)
                 [] I.op = "GETUPVAL" -> UpvalValue(cl.up[I.b + 1])
                 [] OTHER             -> LET n == K(I.b)[2][1] IN IF n \in DOMAIN globals THEN globals[n] ELSE Nil)

LoadBool ==
  /\ Ready({"LOADBOOL"})
  /\ Put(I.a, Boolean(I.b = 1))
  /\ Goto(IF I.c = 1 THEN ci.pc + 2 ELSE ci.pc + 1)
  /\ UNCHANGED <<top, heap, status, program, main>>

LoadNil ==
  /\ Ready({"LOADNIL"})
  /\ stack' = Written(I.a..I.b, LAMBDA r : Nil) /\ Step
  /\ UNCHANGED <<top, heap, status, program, main>>

SetGlobal ==
  /\ Ready({"SETGLOBAL"})
  /\ globals' = Stored(globals, K(I.b)[2][1], R(I.a)) /\ Step
  /\ UNCHANGED <<stack, top, closures, upvals, tables, log, status, program, main>>

SetUpval ==
  /\ Ready({"SETUPVAL"})
  /\ LET u == cl.up[I.b + 1]
     IN  IF upvals[u].open THEN stack' = [stack EXCEPT ![upvals[u].at] = R(I.a)] /\ UNCHANGED upvals
         ELSE upvals' = [upvals EXCEPT ![u].v = R(I.a)] /\ UNCHANGED stack
  /\ Step
  /\ UNCHANGED <<top, closures, tables, globals, log, status, program, main>>

Index ==   \* OP_GETTABLE
  /\ Ready({"GETTABLE"}) /\ IsTable(R(I.b))
  /\ Only(I.a, GetTable(R(I.b), RKV(I.c)))

SelfIndex ==   \* OP_SELF
  /\ Ready({"SELF"}) /\ IsTable(R(I.b))
  /\ stack' = Written({I.a, I.a + 1}, LAMBDA r : IF r = I.a THEN GetTable(R(I.b), RKV(I.c)) ELSE R(I.b)) /\ Step
  /\ UNCHANGED <<top, heap, status, program, main>>

SetTable ==
  /\ Ready({"SETTABLE"}) /\ IsTable(R(I.a)) /\ RKV(I.b) \notin {Nil, Number(NaN)}
  /\ tables' = [tables EXCEPT ![R(I.a)[2]] = Stored(@, RKV(I.b), RKV(I.c))] /\ Step
  /\ UNCHANGED <<stack, top, closures, upvals, globals, log, status, program, main>>

NewTable ==
  /\ Ready({"NEWTABLE"})
  /\ tables' = Append(tables, <<>>)
  /\ Put(I.a, <<"tab", Len(tables) + 1>>) /\ Step
  /\ UNCHANGED <<top, closures, upvals, globals, log, status, program, main>>

SetListItems ==   \* OP_SETLIST
  /\ Ready({"SETLIST"})
  /\ LET n     == IF I.b = 0 THEN top - (ci.base + I.a) - 1 ELSE I.b
         first == (I.c - 1) * FieldsPerFlush
     IN  tables' = [tables EXCEPT ![R(I.a)[2]] = FoldLeft(LAMBDA f, i : Stored(f, Number(first + i), R(I.a + i)), @, [i \in 1..n |-> i])]
  /\ top' = ci.top /\ Step
  /\ UNCHANGED <<stack, closures, upvals, globals, log, status, program, main>>

Arith ==
  /\ Ready(Operate \cup {"UNM"})
  /\ LET b == RKV(I.b) c == IF I.op = "UNM" THEN b ELSE RKV(I.c)
     IN  ConvertsTo(b) /\ ConvertsTo(c) /\ Only(I.a, Number(NumArith(I.op, ToNumber(b), ToNumber(c))))

Not == Ready({"NOT"}) /\ Only(I.a, Boolean(IsFalse(R(I.b))))

Length ==
  /\ Ready({"LEN"}) /\ (IsTable(R(I.b)) \/ IsString(R(I.b)))
  /\ Only(I.a, Number(IF IsTable(R(I.b)) THEN Border(tables[R(I.b)[2]]) ELSE Len(R(I.b)[2])))

(* The operands are converted in place, the result is left at the first.   *)
Concat ==
  /\ Ready({"CONCAT"})
  /\ \A r \in I.b..I.c : IsString(R(r)) \/ IsNumber(R(r))
  /\ LET all == String(FlattenSeq([i \in 1..(I.c - I.b + 1) |-> ToStr(R(I.b + i - 1))]))
     IN  stack' = Written({I.a, I.b}, LAMBDA r : all)
  /\ Step
  /\ UNCHANGED <<top, heap, status, program, main>>

Jmp == Ready({"JMP"}) /\ Goto(I.b) /\ UNCHANGED <<stack, top, heap, status, program, main>>

CompareOp ==
  /\ Ready({"EQ", "LT", "LE"}) /\ Comparable(I.op, RKV(I.b), RKV(I.c))
  /\ Branch(Compare(I.op, RKV(I.b), RKV(I.c)) = (I.a = 1))
  /\ UNCHANGED <<stack, top, heap, status, program, main>>

Test ==
  /\ Ready({"TEST"})
  /\ Branch(IsFalse(R(I.a)) # (I.c = 1))
  /\ UNCHANGED <<stack, top, heap, status, program, main>>

TestSet ==
  /\ Ready({"TESTSET"})
  /\ LET yes == IsFalse(R(I.b)) # (I.c = 1)
     IN  Branch(yes) /\ stack' = IF yes THEN Written({I.a}, LAMBDA r : R(I.b)) ELSE stack
  /\ UNCHANGED <<top, heap, status, program, main>>

ArgsTop == IF I.b # 0 THEN ci.base + I.a + I.b ELSE top

Call ==
  /\ Ready({"CALL"}) /\ IsFunction(R(I.a))
  /\ DoCall(stack, [frames EXCEPT ![Len(frames)].pc = ci.pc + 1], ci.base + I.a, ArgsTop, I.c - 1)
  /\ UNCHANGED <<closures, upvals, globals, status, program, main>>

(* The new frame is moved down over the one that calls, whose upvalues are *)
(* closed first; a host function's results are returned by what follows.   *)
TailCall ==
  /\ Ready({"TAILCALL"}) /\ IsFunction(R(I.a))
  /\ IF R(I.a)[1] = "prim"
     THEN /\ DoCall(stack, [frames EXCEPT ![Len(frames)].pc = ci.pc + 1], ci.base + I.a, ArgsTop, MultRet)
          /\ UNCHANGED <<closures, upvals, globals, status, program, main>>
     ELSE LET c     == R(I.a)[2]
              pfunc == ci.base + I.a
              path  == closures[c].p
              new   == Enter(stack, c, path, pfunc, ArgsTop, ci.nresults, <<"tab", Len(tables) + 1>>)
              down  == pfunc - ci.func
          IN  /\ upvals' = Close(upvals, ci.base)
              /\ stack' = [i \in Slots |-> IF i \in ci.func..(new.frame.top - down - 1) THEN new.stack[i + down] ELSE new.stack[i]]
              /\ frames' = Append(Front(frames), [new.frame EXCEPT !.func = ci.func, !.base = @ - down, !.top = @ - down, !.mid = FALSE])
              /\ top' = new.frame.top - down
              /\ tables' = IF NeedsArg(path) THEN Append(tables, ArgTable(stack, path, pfunc, ArgsTop)) ELSE tables
              /\ UNCHANGED <<closures, globals, log, status, program, main>>

(* Slip: the upvalues of the frame stay open. *)
ReturnOp_NotClosed ==   \* OP_RETURN
  /\ Ready({"RETURN"})
  /\ LET from == ci.base + I.a
         back == Place(stack, ci.func, Values(stack, from, IF I.b # 0 THEN from + I.b - 1 ELSE top), ci.nresults)
     IN  /\ stack' = back.stack
         /\ upvals' = upvals
         /\ frames' = Front(frames)
         /\ status' = IF Len(frames) = 1 THEN "done" ELSE status
         /\ top' = IF ci.nresults = MultRet \/ Len(frames) = 1 THEN back.top ELSE frames[Len(frames) - 1].top
  /\ UNCHANGED <<closures, tables, globals, log, program, main>>

ReturnOp ==   \* OP_RETURN
  /\ Ready({"RETURN"})
  /\ LET from == ci.base + I.a
         back == Place(stack, ci.func, Values(stack, from, IF I.b # 0 THEN from + I.b - 1 ELSE top), ci.nresults)
     IN  /\ stack' = back.stack
         /\ upvals' = Close(upvals, ci.base)
         /\ frames' = Front(frames)
         /\ status' = IF Len(frames) = 1 THEN "done" ELSE status
         /\ top' = IF ci.nresults = MultRet \/ Len(frames) = 1 THEN back.top ELSE frames[Len(frames) - 1].top
  /\ UNCHANGED <<closures, tables, globals, log, program, main>>

ForPrep ==
  /\ Ready({"FORPREP"}) /\ \A r \in I.a..(I.a + 2) : ConvertsTo(R(r))
  /\ stack' = Written(I.a..(I.a + 2), LAMBDA r : Number(IF r = I.a THEN ToNumber(R(r)) - ToNumber(R(r + 2)) ELSE ToNumber(R(r))))
  /\ Goto(I.b)
  /\ UNCHANGED <<top, heap, status, program, main>>

(* Slip: only the copy the body sees is stepped. *)
ForLoop_KeepsIndex ==
  /\ Ready({"FORLOOP"})
  /\ LET step == R(I.a + 2)[2]
         idx  == R(I.a)[2] + step
         more == IF 0 < step THEN idx <= R(I.a + 1)[2] ELSE R(I.a + 1)[2] <= idx
     IN  /\ stack' = IF more THEN Written({I.a + 3}, LAMBDA r : Number(idx)) ELSE stack
         /\ Goto(IF more THEN I.b ELSE ci.pc + 1)
  /\ UNCHANGED <<top, heap, status, program, main>>

ForLoop ==
  /\ Ready({"FORLOOP"})
  /\ LET step == R(I.a + 2)[2]
         idx  == R(I.a)[2] + step
         more == IF 0 < step THEN idx <= R(I.a + 1)[2] ELSE R(I.a + 1)[2] <= idx
     IN  /\ stack' = IF more THEN Written({I.a, I.a + 3}, LAMBDA r : Number(idx)) ELSE stack
         /\ Goto(IF more THEN I.b ELSE ci.pc + 1)
  /\ UNCHANGED <<top, heap, status, program, main>>

(* The generator may be a Lua function: the loop goes on when it returns.  *)
TForLoop ==
  /\ Ready({"TFORLOOP"}) /\ IsFunction(R(I.a))
  /\ LET cb     == I.a + 3
         copied == Written(cb..(cb + 2), LAMBDA r : R(r - 3))
     IN  DoCall(copied, [frames EXCEPT ![Len(frames)].mid = TRUE], ci.base + cb, ci.base + cb + 3, I.c)
  /\ UNCHANGED <<closures, upvals, globals, status, program, main>>

TForTest ==
  /\ status = "running" /\ ci.mid
  /\ LET v    == R(I.a + 3)
         more == v # Nil
     IN  /\ stack' = IF more THEN Written({I.a + 2}, LAMBDA r : v) ELSE stack
         /\ frames' = [frames EXCEPT ![Len(frames)] = [@ EXCEPT !.mid = FALSE, !.pc = IF more THEN P.code[@ + 1].b ELSE @ + 2]]
  /\ top' = ci.top
  /\ UNCHANGED <<heap, status, program, main>>

CloseOp ==
  /\ Ready({"CLOSE"})
  /\ upvals' = Close(upvals, ci.base + I.a) /\ Step
  /\ UNCHANGED <<stack, top, closures, tables, globals, log, status, program, main>>

(* An upvalue is a register of this function, or one of its own upvalues.  *)
Closure ==
  /\ Ready({"CLOSURE"})
  /\ LET nup == Len(P.p[I.b + 1].upvals)
         Capture(acc, j) ==
           LET pseudo == P.code[ci.pc + j]
               found  == FindUpval(acc[1], ci.base + pseudo.b)
           IN  IF pseudo.op = "GETUPVAL" THEN <<acc[1], Append(acc[2], cl.up[pseudo.b + 1])>> ELSE <<found[1], Append(acc[2], found[2])>>
         made == FoldLeft(Capture, <<upvals, <<>> >>, [j \in 1..nup |-> j])
     IN  /\ upvals' = made[1]
         /\ closures' = Append(closures, [p |-> Append(cl.p, I.b + 1), up |-> made[2]])
         /\ Put(I.a, <<"fun", Len(closures) + 1>>)
         /\ Goto(ci.pc + 1 + nup)
  /\ UNCHANGED <<top, tables, globals, log, status, program, main>>

Vararg ==
  /\ Ready({"VARARG"})
  /\ LET n == ci.base - ci.func - P.numparams - 1
         b == IF I.b - 1 = MultRet THEN n ELSE I.b - 1
     IN  /\ stack' = Written(I.a..(I.a + b - 1), LAMBDA r : IF r - I.a < n THEN stack[ci.base - n + r - I.a] ELSE Nil)
         /\ top' = IF I.b - 1 = MultRet THEN ci.base + I.a + n ELSE top
  /\ Step
  /\ UNCHANGED <<heap, status, program, main>>

(* The operands an instruction cannot work with: luaG_runerror.            *)
Fails ==
  CASE I.op \in {"GETTABLE", "SELF"} -> ~IsTable(R(I.b))
    [] I.op = "SETTABLE" -> ~IsTable(R(I.a)) \/ RKV(I.b) \in {Nil, Number(NaN)}
    [] I.op \in Operate -> ~ConvertsTo(RKV(I.b)) \/ ~ConvertsTo(RKV(I.c))
    [] I.op = "UNM" -> ~ConvertsTo(R(I.b))
    [] I.op = "LEN" -> ~IsTable(R(I.b)) /\ ~IsString(R(I.b))
    [] I.op = "CONCAT" -> \E r \in I.b..I.c : ~IsString(R(r)) /\ ~IsNumber(R(r))
    [] I.op \in {"LT", "LE"} -> ~Comparable(I.op, RKV(I.b), RKV(I.c))
    [] I.op \in {"CALL", "TAILCALL", "TFORLOOP"} -> ~IsFunction(R(I.a))
    [] I.op = "FORPREP" -> \E r \in I.a..(I.a + 2) : ~ConvertsTo(R(r))
    [] OTHER -> FALSE

RunError ==
  /\ status = "running" /\ ~ci.mid /\ Fails
  /\ status' = "error"
  /\ UNCHANGED <<stack, top, frames, heap, program, main>>

-----------------------------------------------------------------------------
(* The program has been compiled (lua_load) and its main function called   *)
(* with no arguments.                                                      *)
Init ==
  /\ program \in Programs
  /\ main = Compile(program)
  /\ closures = <<[p |-> <<>>, up |-> <<>>]>>
  /\ stack = [[i \in Slots |-> Nil] EXCEPT ![0] = <<"fun", 1>>]
  /\ frames = <<[cl |-> 1, func |-> 0, base |-> 1, top |-> 1 + main.maxstack, pc |-> 1, nresults |-> MultRet, mid |-> FALSE]>>
  /\ top = 1 + main.maxstack
  /\ upvals = <<>> /\ tables = <<>> /\ globals = Globals
  /\ log = <<>> /\ status = "running"

Next ==
  \/ Loads \/ LoadBool \/ LoadNil \/ SetGlobal \/ SetUpval
  \/ Index \/ SelfIndex \/ SetTable \/ NewTable \/ SetListItems
  \/ Arith \/ Not \/ Length \/ Concat
  \/ Jmp \/ CompareOp \/ Test \/ TestSet
  \/ Call \/ TailCall \/ ReturnOp
  \/ ForPrep \/ ForLoop \/ TForLoop \/ TForTest
  \/ CloseOp \/ Closure \/ Vararg
  \/ RunError

Spec == Init /\ [][Next]_vars /\ WF_vars(Next)
=============================================================================
