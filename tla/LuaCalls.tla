------------------------------ MODULE LuaCalls ------------------------------
(***************************************************************************)
(* Calls, errors and coroutines of the Lua state that runs the hooks:      *)
(* ldo.c, the functions pcall, xpcall, error and the coroutine library of  *)
(* lbaselib.c, and docall of LuaIntergration.cpp, by which the program     *)
(* calls every hook.                                                       *)
(*                                                                         *)
(* A thread is its array of CallInfo without the base level (frames), its  *)
(* count of nested C calls (nCcalls), its chain of setjmp buffers (jumps), *)
(* its error handler and the size of the array.  Scripts call, return,     *)
(* fail, resume and yield as they like; every such choice costs one unit   *)
(* of fuel, and what the interpreter does by itself (handlers, unwinding,  *)
(* overflow) costs nothing.                                                *)
(***************************************************************************)
EXTENDS Integers, FiniteSets, SequencesExt

CONSTANTS
  Main,          \* the thread of the state
  Coroutines,    \* the threads scripts may create
  MaxCCalls,     \* LUAI_MAXCCALLS
  ExtraCCalls,   \* LUAI_MAXCCALLS >> 3: levels left for the handling of an overflow
  BasicCI,       \* BASIC_CI_SIZE
  MaxCalls,      \* LUAI_MAXCALLS
  BaseSlots,     \* LUA_MINSTACK, the slots of the program's level of the stack
  Fuel           \* bound on the choices of the program and its scripts

ASSUME CallsAssumption ==
  /\ Main \notin Coroutines
  /\ {MaxCCalls, ExtraCCalls, BasicCI, MaxCalls, BaseSlots, Fuel} \subseteq Nat \ {0}
  /\ BasicCI > 1 /\ BasicCI <= MaxCalls

Threads == Coroutines \cup {Main}

VARIABLES
  chain,       \* the running thread and those that resumed it, the running one last
  status,      \* lua_State.status
  frames, nCcalls, baseCcalls, jumps, errfunc, sizeCI,
  gettop,      \* whether the base level of a coroutine holds values
  doing,       \* "run" a frame, "raise" (luaG_errormsg) or throw "errrun" or "errerr"
  left,        \* values on the program's level of the main stack
  life,        \* history: what became of each coroutine
  fuel

threadVars == <<status, frames, nCcalls, baseCcalls, jumps, errfunc, sizeCI, gettop>>
vars == <<chain, threadVars, doing, left, life, fuel>>

Handlers == {"none", "traceback", "script", "value"}   \* "value": not a function
Codes == {"lua", "pcall", "protects", "resume", "wrap", "resumes", "wraps", "yield", "traceback", "returns"}
Vias == {"op", "call", "pcall", "handler", "resume"}
CFrames == {"call", "pcall", "handler"}                \* frames entered through luaD_call

Frame(code, via, arg) == [code |-> code, via |-> via, arg |-> arg]

Init ==
  /\ chain = <<>>
  /\ status = [t \in Threads |-> "ok"]
  /\ frames = [t \in Threads |-> <<>>]
  /\ nCcalls = [t \in Threads |-> 0]
  /\ baseCcalls = [t \in Threads |-> 0]
  /\ jumps = [t \in Threads |-> <<>>]
  /\ errfunc = [t \in Threads |-> "none"]
  /\ sizeCI = [t \in Threads |-> BasicCI]
  /\ gettop = [t \in Threads |-> FALSE]
  /\ doing = "run"
  /\ left = 0
  /\ life = [t \in Coroutines |-> "none"]
  /\ fuel = Fuel

Running == Last(chain)
Below == Front(chain)
Top(t) == Last(frames[t])
Recoded(fs, code) == [fs EXCEPT ![Len(fs)].code = code]
At(t, code) == chain # <<>> /\ t = Running /\ doing = "run" /\ frames[t] # <<>> /\ Top(t).code = code
Spend == fuel > 0 /\ fuel' = fuel - 1

-----------------------------------------------------------------------------
(* Entering a frame above fs: inc_ci and growCI.  A full array is doubled;  *)
(* past the limit the call is a stack overflow, and an overflow while the   *)
(* first is handled an error in error handling.                             *)
Enter(t, fs, f) ==
  LET full == Len(fs) = sizeCI[t] - 1
      grown == IF full /\ sizeCI[t] <= MaxCalls THEN 2 * sizeCI[t] ELSE sizeCI[t]
      enters == ~full \/ (grown # sizeCI[t] /\ grown <= MaxCalls)
  IN /\ sizeCI' = [sizeCI EXCEPT ![t] = grown]
     /\ frames' = [frames EXCEPT ![t] = IF enters THEN Append(fs, f) ELSE fs]
     /\ doing' = IF enters THEN "run" ELSE IF grown # sizeCI[t] THEN "raise" ELSE "errerr"

CallC_NotCounted(t, fs, f) ==   \* slip: the level is counted only when the call is made
  LET n == nCcalls[t] + 1
  IN \/ /\ n = MaxCCalls
        /\ doing' = "raise"
        /\ frames' = [frames EXCEPT ![t] = fs] /\ UNCHANGED <<sizeCI, nCcalls>>
     \/ n # MaxCCalls /\ nCcalls' = [nCcalls EXCEPT ![t] = n] /\ Enter(t, fs, f)

(* luaD_call: one more C call, with its own limits.                         *)
CallC(t, fs, f) ==
  LET n == nCcalls[t] + 1
  IN /\ nCcalls' = [nCcalls EXCEPT ![t] = n]
     /\ \/ /\ n = MaxCCalls
           /\ doing' = "raise"
           /\ frames' = [frames EXCEPT ![t] = fs] /\ UNCHANGED sizeCI
        \/ /\ n >= MaxCCalls + ExtraCCalls
           /\ doing' = "errerr"
           /\ frames' = [frames EXCEPT ![t] = fs] /\ UNCHANGED sizeCI
        \/ n # MaxCCalls /\ n < MaxCCalls + ExtraCCalls /\ Enter(t, fs, f)

-----------------------------------------------------------------------------
(* docall: the program calls a hook, or a chunk, with traceback as handler. *)
(* A hook that is not defined is a call of nil, an error in luaD_precall.   *)
Docall(defined) ==
  /\ chain = <<>> /\ Spend
  /\ chain' = <<Main>>
  /\ jumps' = [jumps EXCEPT ![Main] = <<[ci |-> 0, nC |-> nCcalls[Main], errfunc |-> errfunc[Main], by |-> "pcall"]>>]
  /\ errfunc' = [errfunc EXCEPT ![Main] = "traceback"]
  /\ IF defined THEN CallC(Main, frames[Main], Frame("lua", "pcall", "none"))
     ELSE /\ nCcalls' = [nCcalls EXCEPT ![Main] = @ + 1]
          /\ doing' = "raise" /\ UNCHANGED <<frames, sizeCI>>
  /\ UNCHANGED <<status, baseCcalls, gettop, left, life>>

(* A script calls a Lua function, or a C function that is about to do its   *)
(* work: pcall, xpcall, resume, a function of wrap, yield (OP_CALL).        *)
Call(t, f) ==
  /\ At(t, "lua") /\ Spend
  /\ Enter(t, frames[t], f)
  /\ UNCHANGED <<chain, status, nCcalls, baseCcalls, jumps, errfunc, gettop, left, life>>

(* A script causes a call from C: a metamethod, an iterator, a comparison.  *)
CallMeta(t) ==
  /\ At(t, "lua") /\ Spend
  /\ CallC(t, frames[t], Frame("lua", "call", "none"))
  /\ UNCHANGED <<chain, status, baseCcalls, jumps, errfunc, gettop, left, life>>

(* luaB_pcall and luaB_xpcall do their work: luaD_pcall and f_call.         *)
Protect(t) ==
  /\ At(t, "pcall")
  /\ jumps' = [jumps EXCEPT ![t] = Append(@, [ci |-> Len(frames[t]), nC |-> nCcalls[t], errfunc |-> errfunc[t], by |-> "pcall"])]
  /\ errfunc' = [errfunc EXCEPT ![t] = Top(t).arg]
  /\ CallC(t, Recoded(frames[t], "protects"), Frame("lua", "pcall", "none"))
  /\ UNCHANGED <<chain, status, baseCcalls, gettop, left, life, fuel>>

(* The program's call is over: results or a message stay on its level.      *)
EndDocall(n) == chain' = <<>> /\ left' = left + n

(* luaD_poscall and what its caller does next, by the way the frame was     *)
(* entered.  A handler's return is the throw of luaG_errormsg.              *)
ReturnOp(t) ==
  /\ Top(t).via = "op"
  /\ frames' = [frames EXCEPT ![t] = Front(@)]
  /\ UNCHANGED <<chain, nCcalls, jumps, errfunc, gettop, doing, left, life>>

ReturnC(t) ==
  /\ Top(t).via \in {"call", "handler"}
  /\ frames' = [frames EXCEPT ![t] = Front(@)]
  /\ nCcalls' = [nCcalls EXCEPT ![t] = @ - 1]
  /\ doing' = IF Top(t).via = "handler" THEN "errrun" ELSE "run"
  /\ UNCHANGED <<chain, jumps, errfunc, gettop, left, life>>

ReturnProtected(t) ==
  /\ Top(t).via = "pcall"
  /\ nCcalls' = [nCcalls EXCEPT ![t] = @ - 1]
  /\ errfunc' = [errfunc EXCEPT ![t] = Last(jumps[t]).errfunc]
  /\ jumps' = [jumps EXCEPT ![t] = Front(@)]
  /\ IF Last(jumps[t]).ci = 0
     THEN frames' = [frames EXCEPT ![t] = <<>>] /\ \E n \in 0..1 : EndDocall(n)
     ELSE frames' = [frames EXCEPT ![t] = Recoded(Front(@), "returns")] /\ UNCHANGED <<chain, left>>
  /\ UNCHANGED <<gettop, doing, life>>

(* The body of a coroutine returns through resume and lua_resume.           *)
ReturnResume(t) ==
  LET p == Last(Below)
  IN /\ Top(t).via = "resume"
     /\ frames' = [frames EXCEPT ![t] = Front(@), ![p] = Recoded(@, "returns")]
     /\ nCcalls' = [nCcalls EXCEPT ![t] = @ - 1]
     /\ jumps' = [jumps EXCEPT ![t] = Front(@)]
     /\ gettop' = [gettop EXCEPT ![t] = FALSE]
     /\ life' = [life EXCEPT ![t] = "finished"]
     /\ chain' = Below
     /\ UNCHANGED <<errfunc, doing, left>>

Return(t) ==
  /\ At(t, "lua") \/ At(t, "returns")
  /\ ReturnOp(t) \/ ReturnC(t) \/ ReturnProtected(t) \/ ReturnResume(t)
  /\ UNCHANGED <<status, baseCcalls, sizeCI, fuel>>

-----------------------------------------------------------------------------
(* An error in a script: error(), or an operation on the wrong type.        *)
Error(t) ==
  /\ At(t, "lua")
  /\ doing' = "raise"
  /\ UNCHANGED <<chain, threadVars, left, life, fuel>>

(* luaG_errormsg: call the error handler, then throw.                       *)
Raise ==
  /\ doing = "raise"
  /\ LET t == Running
         handler == Frame(IF errfunc[t] = "traceback" THEN "traceback" ELSE "lua", "handler", "none")
     IN IF errfunc[t] \in {"none", "value"}
        THEN /\ doing' = IF errfunc[t] = "none" THEN "errrun" ELSE "errerr"
             /\ UNCHANGED <<frames, nCcalls, sizeCI>>
        ELSE CallC(t, frames[t], handler)
  /\ UNCHANGED <<chain, status, baseCcalls, jumps, errfunc, gettop, left, life, fuel>>

(* traceback of the program calls debug.traceback, a C function, by         *)
(* lua_call; a message that is not a string it returns at once.             *)
Traceback(t) ==
  /\ At(t, "traceback")
  /\ \/ CallC(t, Recoded(frames[t], "returns"), Frame("returns", "call", "none"))
     \/ /\ frames' = [frames EXCEPT ![t] = Recoded(@, "returns")]
        /\ UNCHANGED <<nCcalls, sizeCI, doing>>
  /\ UNCHANGED <<chain, status, baseCcalls, jumps, errfunc, gettop, left, life, fuel>>

RestoredLimit(t, inuse) ==   \* restore_stack_limit
  IF sizeCI[t] > MaxCalls /\ inuse + 1 < MaxCalls THEN MaxCalls ELSE sizeCI[t]

CatchPcall_KeepsLevel(t, j) ==   \* slip: nCcalls is not restored
  /\ j.by = "pcall"
  /\ frames' = [frames EXCEPT ![t] = IF j.ci = 0 THEN <<>> ELSE Recoded(SubSeq(@, 1, j.ci), "returns")]
  /\ errfunc' = [errfunc EXCEPT ![t] = j.errfunc]
  /\ sizeCI' = [sizeCI EXCEPT ![t] = RestoredLimit(t, j.ci)]
  /\ doing' = "run"
  /\ IF j.ci = 0 THEN EndDocall(1) ELSE UNCHANGED <<chain, left>>
  /\ UNCHANGED <<status, life, nCcalls>>

(* luaD_throw into luaD_pcall, which restores what it saved.                *)
CatchPcall(t, j) ==
  /\ j.by = "pcall"
  /\ frames' = [frames EXCEPT ![t] = IF j.ci = 0 THEN <<>> ELSE Recoded(SubSeq(@, 1, j.ci), "returns")]
  /\ nCcalls' = [nCcalls EXCEPT ![t] = j.nC]
  /\ errfunc' = [errfunc EXCEPT ![t] = j.errfunc]
  /\ sizeCI' = [sizeCI EXCEPT ![t] = RestoredLimit(t, j.ci)]
  /\ doing' = "run"
  /\ IF j.ci = 0 THEN EndDocall(1) ELSE UNCHANGED <<chain, left>>
  /\ UNCHANGED <<status, life>>

(* What auxresume's caller does with a coroutine that did not yield or      *)
(* return: resume returns false and the message, wrap raises it again.      *)
ResumeFails(p) ==
  IF Top(p).code \in {"wrap", "wraps"}
  THEN doing' = "raise" /\ frames' = frames
  ELSE doing' = "run" /\ frames' = [frames EXCEPT ![p] = Recoded(@, "returns")]

(* luaD_throw into lua_resume: the coroutine is dead, its frames are left.  *)
CatchResume(t, j) ==
  /\ j.by = "resume"
  /\ status' = [status EXCEPT ![t] = doing]
  /\ nCcalls' = [nCcalls EXCEPT ![t] = @ - 1]
  /\ ResumeFails(Last(Below))
  /\ life' = [life EXCEPT ![t] = "finished"]
  /\ chain' = Below
  /\ UNCHANGED <<errfunc, sizeCI, left>>

Throw ==
  /\ doing \in {"errrun", "errerr"}
  /\ LET t == Running
         j == Last(jumps[t])
     IN /\ CatchPcall(t, j) \/ CatchResume(t, j)
        /\ jumps' = [jumps EXCEPT ![t] = Front(@)]
  /\ UNCHANGED <<baseCcalls, gettop, fuel>>

-----------------------------------------------------------------------------
(* Coroutines. *)

CoStatus(t, co) ==   \* costatus, seen from thread t
  CASE co = t -> "running"
    [] co # t /\ status[co] = "yield" -> "suspended"
    [] co # t /\ status[co] = "ok" /\ frames[co] # <<>> -> "normal"
    [] co # t /\ status[co] = "ok" /\ frames[co] = <<>> -> IF gettop[co] THEN "suspended" ELSE "dead"
    [] co # t /\ status[co] \notin {"ok", "yield"} -> "dead"

Create(t, co) ==
  /\ At(t, "lua") /\ Spend
  /\ life[co] = "none"
  /\ life' = [life EXCEPT ![co] = "fresh"]
  /\ gettop' = [gettop EXCEPT ![co] = TRUE]
  /\ UNCHANGED <<chain, status, frames, nCcalls, baseCcalls, jumps, errfunc, sizeCI, doing, left>>

(* auxresume of a coroutine that is not suspended.                          *)
ResumeRefused(t, co) ==
  /\ CoStatus(t, co) # "suspended"
  /\ ResumeFails(t)
  /\ UNCHANGED <<chain, status, nCcalls, baseCcalls, jumps, sizeCI, gettop, life>>

SetLevel(from) == nCcalls[from]   \* lua_setlevel

(* resume_error: the C stack is exhausted.  The values of the coroutine's   *)
(* level are lost, of a fresh one its function too.                         *)
ResumeTooDeep(t, co) ==
  /\ CoStatus(t, co) = "suspended" /\ SetLevel(t) >= MaxCCalls
  /\ nCcalls' = [nCcalls EXCEPT ![co] = SetLevel(t)]
  /\ ResumeFails(t)
  /\ gettop' = [gettop EXCEPT ![co] = FALSE]
  /\ life' = [life EXCEPT ![co] = IF @ = "fresh" THEN "finished" ELSE @]
  /\ UNCHANGED <<chain, status, baseCcalls, jumps, sizeCI>>

(* lua_resume: start the body, or complete the call of yield.               *)
ResumeRuns(t, co) ==
  /\ CoStatus(t, co) = "suspended" /\ SetLevel(t) < MaxCCalls
  /\ nCcalls' = [nCcalls EXCEPT ![co] = SetLevel(t) + 1]
  /\ baseCcalls' = [baseCcalls EXCEPT ![co] = SetLevel(t) + 1]
  /\ jumps' = [jumps EXCEPT ![co] = <<[ci |-> 0, nC |-> 0, errfunc |-> "none", by |-> "resume"]>>]
  /\ frames' = [frames EXCEPT ![t] = Recoded(@, IF Top(t).code = "wrap" THEN "wraps" ELSE "resumes"),
                              ![co] = IF status[co] = "ok" THEN <<Frame("lua", "resume", "none")>> ELSE Front(@)]
  /\ status' = [status EXCEPT ![co] = "ok"]
  /\ gettop' = [gettop EXCEPT ![co] = FALSE]
  /\ life' = [life EXCEPT ![co] = "active"]
  /\ chain' = Append(chain, co)
  /\ UNCHANGED <<doing, sizeCI>>

Resume(t) ==
  /\ At(t, "resume") \/ At(t, "wrap")
  /\ LET co == Top(t).arg
     IN ResumeRefused(t, co) \/ ResumeTooDeep(t, co) \/ ResumeRuns(t, co)
  /\ UNCHANGED <<errfunc, left, fuel>>

YieldAllowed_InCoroutine(t) == t # Main   \* slip: only the main thread is refused

YieldAllowed(t) == nCcalls[t] <= baseCcalls[t]

(* lua_yield, through resume back to the resumer.                           *)
Yield(t) ==
  /\ At(t, "yield")
  /\ IF YieldAllowed(t)
     THEN /\ status' = [status EXCEPT ![t] = "yield"]
          /\ nCcalls' = [nCcalls EXCEPT ![t] = @ - 1]
          /\ jumps' = [jumps EXCEPT ![t] = Front(@)]
          /\ frames' = [frames EXCEPT ![Last(Below)] = Recoded(@, "returns")]
          /\ life' = [life EXCEPT ![t] = "yielded"]
          /\ chain' = Below
          /\ UNCHANGED doing
     ELSE doing' = "raise" /\ UNCHANGED <<chain, status, nCcalls, jumps, frames, life>>
  /\ UNCHANGED <<baseCcalls, errfunc, sizeCI, gettop, left, fuel>>

(* The collector traverses a thread and halves an array that is mostly      *)
(* empty (checkstacksizes).                                                 *)
Shrink(t) ==
  /\ t # Main => life[t] # "none"
  /\ sizeCI[t] <= MaxCalls
  /\ 4 * Len(frames[t]) < sizeCI[t] /\ 2 * BasicCI < sizeCI[t]
  /\ sizeCI' = [sizeCI EXCEPT ![t] = @ \div 2]
  /\ UNCHANGED <<chain, status, frames, nCcalls, baseCcalls, jumps, errfunc, gettop, doing, left, life, fuel>>

-----------------------------------------------------------------------------
Script(t) ==
  \/ Call(t, Frame("lua", "op", "none"))
  \/ \E h \in Handlers \ {"traceback"} : Call(t, Frame("pcall", "op", h))
  \/ \E co \in Coroutines, c \in {"resume", "wrap"} : life[co] # "none" /\ Call(t, Frame(c, "op", co))
  \/ Call(t, Frame("yield", "op", "none"))
  \/ CallMeta(t)
  \/ \E co \in Coroutines : Create(t, co)

Interpreter(t) == Protect(t) \/ Return(t) \/ Error(t) \/ Traceback(t) \/ Resume(t) \/ Yield(t)

(* The program makes no more calls.                                         *)
Finished == chain = <<>> /\ fuel = 0 /\ UNCHANGED vars

Next ==
  \/ \E defined \in BOOLEAN : Docall(defined)
  \/ \E t \in Threads : Script(t) \/ Interpreter(t) \/ Shrink(t)
  \/ Raise
  \/ Throw
  \/ Finished

Run == Raise \/ Throw \/ \E t \in Threads : Script(t) \/ Interpreter(t)

(* Fairness: the interpreter is one thread of the process and always goes   *)
(* on; a script that loops without calling is not modelled, and the fuel    *)
(* bounds the calls.                                                        *)
Spec == Init /\ [][Next]_vars /\ WF_vars(Run)

-----------------------------------------------------------------------------
(* Types.                                                                   *)
TypeOK ==
  /\ chain \in BoundedSeq(Threads, Cardinality(Threads)) /\ IsInjective(chain)
  /\ status \in [Threads -> {"ok", "yield", "errrun", "errerr"}]
  /\ \A t \in Threads :
       /\ \A i \in DOMAIN frames[t] : frames[t][i].code \in Codes /\ frames[t][i].via \in Vias
       /\ nCcalls[t] \in 0..(MaxCCalls + ExtraCCalls) /\ baseCcalls[t] \in 0..MaxCCalls
       /\ Len(frames[t]) < sizeCI[t]
  /\ errfunc \in [Threads -> Handlers]
  /\ gettop \in [Threads -> BOOLEAN]
  /\ doing \in {"run", "raise", "errrun", "errerr"}
  /\ left \in 0..Fuel /\ fuel \in 0..Fuel

(* The calls of C on the process's stack, those of all threads of the chain *)
(* together (each coroutine runs on the C stack of its resumer), stay below *)
(* the limit however scripts nest coroutines, metamethods, protected calls  *)
(* and failing handlers; and no thread's array of frames passes twice its   *)
(* own.                                                                     *)
CallsOfC(t) == Cardinality({i \in DOMAIN frames[t] : frames[t][i].via \in CFrames \cup {"resume"}})
Depth(c) == MapThenSumSet(CallsOfC, ToSet(c))
StackBounded ==
  /\ Depth(chain) < MaxCCalls + ExtraCCalls
  /\ \A t \in Threads : sizeCI[t] <= 2 * MaxCalls

(* nCcalls counts the C calls of the chain up to its thread: exactly, while *)
(* no error is handled, so that neither protected calls that caught an      *)
(* error nor coroutines that yielded or died make the limit creep.          *)
Handling == \E t \in Threads : \E i \in DOMAIN frames[t] : frames[t][i].via = "handler"
LevelsCounted ==
  doing = "run" /\ ~Handling => \A i \in DOMAIN chain : nCcalls[chain[i]] = Depth(SubSeq(chain, 1, i))

(* Between two calls of the program its state is as new: no frame, no       *)
(* protected call, no handler, no level, on the main thread.                *)
QuiescentClean ==
  chain = <<>> =>
    frames[Main] = <<>> /\ jumps[Main] = <<>> /\ errfunc[Main] = "none" /\ nCcalls[Main] = 0 /\ doing = "run"

(* The stacks are bounded and what counts them is exact, through errors,    *)
(* coroutines and handlers, and as new when a hook has returned.            *)
LevelsAreSound == TypeOK /\ StackBounded /\ LevelsCounted /\ QuiescentClean

(* An error goes to the handler and the protected call nearest to it: the   *)
(* jump buffers of a thread are those of its frames that protect, and its   *)
(* handler is the one of the innermost.                                     *)
Protecting(t) == SelectSeq([i \in DOMAIN frames[t] |-> i], LAMBDA i : frames[t][i].code = "protects")
NearestCatches ==
  \A i \in DOMAIN chain :
    LET t == chain[i]
        ps == Protecting(t)
    IN /\ [k \in DOMAIN jumps[t] |-> jumps[t][k].ci] = <<0>> \o ps
       /\ errfunc[t] = IF ps # <<>> THEN frames[t][Last(ps)].arg ELSE IF t = Main THEN "traceback" ELSE "none"

(* A suspended coroutine can be continued by luaV_execute alone: all its    *)
(* frames below the call of yield are Lua functions called by Lua, none     *)
(* stands for a C function whose C stack is gone.                           *)
SuspendedIsLua ==
  \A co \in Coroutines : status[co] = "yield" =>
    /\ Top(co).code = "yield" /\ jumps[co] = <<>> /\ errfunc[co] = "none"
    /\ \A i \in 1..(Len(frames[co]) - 1) :
         frames[co][i].code = "lua" /\ frames[co][i].via = (IF i = 1 THEN "resume" ELSE "op")

(* coroutine.status tells what became of every coroutine, whatever killed   *)
(* it.                                                                      *)
StatusTells ==
  chain # <<>> /\ doing = "run" => \A co \in Coroutines :
    CASE life[co] \in {"fresh", "yielded"} -> CoStatus(Running, co) = "suspended"
      [] life[co] = "active" -> CoStatus(Running, co) = IF co = Running THEN "running" ELSE "normal"
      [] life[co] = "finished" -> CoStatus(Running, co) = "dead"
      [] OTHER -> TRUE

(* Errors end where they should and coroutines are what they are said to    *)
(* be: the nearest protected call catches, only what Lua alone can continue *)
(* is suspended, and the dead are known as dead.                            *)
ErrorsAreCaught == NearestCatches /\ SuspendedIsLua /\ StatusTells

(* Every call of a hook returns to the program, whatever its scripts and    *)
(* their error handlers do.                                                 *)
DocallReturns == (chain # <<>>) ~> (chain = <<>>)

(* The assertion of api_incr_top (lapi.c:45): a value pushed on the stack   *)
(* finds a slot of its level free.  Between two hooks the program pushes    *)
(* the next one.                                                            *)
PushesFit == chain = <<>> => left < BaseSlots
=============================================================================
