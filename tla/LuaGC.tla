-------------------------------- MODULE LuaGC --------------------------------
(* The incremental garbage collector of the Lua state that scripts run in     *)
(* (lua/lgc.c), with the upvalues it shares with closures and stacks          *)
(* (lua/lfunc.c).  One action per singlestep of the collector and one per     *)
(* operation of a script that allocates, or stores a reference; they          *)
(* interleave as allocations happen to pay for steps.                         *)
(* Left out: strings, which have no references and lists of their own;        *)
(* prototypes, which are traversed like closures; metatables, of which only   *)
(* what the collector asks them (__mode, __gc) is kept.                       *)
EXTENDS Integers, FiniteSets, Sequences, FiniteSetsExt, SequencesExt

CONSTANTS
  Addr,           \* where objects can be
  Main, Globals,  \* the main thread and the table of globals
  Nil,
  Slots,          \* the stack of a thread is 1..Slots
  SweepMax,       \* GCSWEEPMAX
  Modes,          \* the __mode of new tables: sets of "k" and "v"
  Programs        \* what scripts do: sequences of sets of operations' names

Operations == {"table", "userdata", "thread", "function", "set", "get", "setupval",
               "getupval", "setfenv", "close", "forget", "resume", "yield", "collect", "exit"}

ASSUME GCAssumption ==
  /\ Main \in Addr /\ Globals \in Addr /\ Main # Globals /\ Nil \notin Addr
  /\ Slots \in Nat \ {0} /\ SweepMax \in Nat \ {0}
  /\ Modes \subseteq SUBSET {"k", "v"}
  /\ Programs \subseteq Seq(SUBSET Operations)

VARIABLES
  heap,       \* the objects
  root,       \* rootgc, from its first object to its last; userdata follow Main
  gcstate, white,
  gray, grayagain, weak,   \* the three lists chained through gclist
  swept,      \* how many objects precede *sweepgc
  tmudata,    \* userdata whose finalizer is to be called
  full,       \* luaC_fullgc or lua_close is running, and how far it is
  running,    \* the running thread
  program,    \* what the script has still to do
  garbage,    \* history: objects no script could reach when the cycle began
  finalizers  \* history: how often the finalizer of a userdata has been called

collector == <<gcstate, white, gray, grayagain, weak, swept, tmudata>>
vars == <<heap, root, collector, full, running, program, garbage, finalizers>>

Whites == {"white0", "white1"}
Otherwhite(w) == IF w = "white0" THEN "white1" ELSE "white0"

NewTable(c, mode) == [type |-> "table", color |-> c, mode |-> mode,
                      key |-> Nil, val |-> Nil]
NewThread(c) == [type |-> "thread", color |-> c, open |-> << >>,
                 stack |-> [i \in 1..Slots |-> Nil]]
NewUdata(c, gc) == [type |-> "userdata", color |-> c, gc |-> gc, finalized |-> FALSE,
                    env |-> Globals]

Init ==
  /\ heap = (Main :> NewThread("white0")) @@ (Globals :> NewTable("white0", {}))
  /\ root = <<Globals, Main>>
  /\ gcstate = "pause" /\ white = "white0"
  /\ gray = << >> /\ grayagain = << >> /\ weak = << >>
  /\ swept = 0
  /\ tmudata = << >>
  /\ full = "no"
  /\ running = Main
  /\ program \in Programs
  /\ garbage = {}
  /\ finalizers = [x \in {} |-> 0]

TypeIs(o, t) == o # Nil /\ heap[o].type = t

IsDead(o) == heap[o].color = Otherwhite(white) /\ o # Main

\* The value of an upvalue: in the stack while it is open.
ValueOf(h, u) == IF h[u].at = << >> THEN h[u].val
                 ELSE h[h[u].at[1]].stack[h[u].at[2]]

-----------------------------------------------------------------------------
(* Marking.  The collector state of these operators is a record of the heap   *)
(* and of the lists of gray objects.                                          *)

Now == [heap |-> heap, gray |-> gray, again |-> grayagain, weak |-> weak]

IsWhite(s, o) == o # Nil /\ s.heap[o].color \in Whites

Color(s, o, c) == [s EXCEPT !.heap[o].color = c]

\* reallymarkobject, without the two types it does not put into the gray list.
MarkListed(s, o) ==
  IF IsWhite(s, o) THEN [Color(s, o, "gray") EXCEPT !.gray = <<o>> \o @] ELSE s

MarkValue(s, o) ==
  IF IsWhite(s, o) /\ s.heap[o].type = "userdata"
    THEN MarkListed(Color(s, o, "black"), s.heap[o].env)
    ELSE MarkListed(s, o)

\* Open upvalues are never black.
MarkUpval(s, u) ==
  IF IsWhite(s, u)
    THEN MarkValue(Color(s, u, IF s.heap[u].at = << >> THEN "black" ELSE "gray"),
                   ValueOf(s.heap, u))
    ELSE s

Become(s) == heap' = s.heap /\ gray' = s.gray /\ grayagain' = s.again /\ weak' = s.weak

MarkAll(s, values) == FoldLeft(MarkValue, s, values)

\* A weak table stays gray and is traversed again at the end.
TraverseTable(s, h) ==
  LET t == s.heap[h]
      w == IF t.mode = {} THEN s
           ELSE [Color(s, h, "gray") EXCEPT !.weak = <<h>> \o @]
  IN  IF t.mode = {"k", "v"} THEN w
      ELSE IF t.val = Nil THEN [w EXCEPT !.heap[h].key = Nil]
      ELSE MarkAll(w, (IF "k" \in t.mode THEN << >> ELSE <<t.key>>)
                      \o (IF "v" \in t.mode THEN << >> ELSE <<t.val>>))

\* Threads stay gray, too: stacks have no barrier.
TraverseThread(s, t) ==
  MarkAll([Color(s, t, "gray") EXCEPT !.again = <<t>> \o @],
          <<Globals>> \o s.heap[t].stack)

PropagateMark(s) ==
  LET o == Head(s.gray)
      b == [Color(s, o, "black") EXCEPT !.gray = Tail(@)]
  IN  CASE s.heap[o].type = "table" -> TraverseTable(b, o)
        [] s.heap[o].type = "function" ->
             MarkUpval(MarkValue(b, Globals), s.heap[o].up)
        [] s.heap[o].type = "thread" -> TraverseThread(b, o)

\* Every object enters the gray list at most once after what is in it.
PropagateAll(s) ==
  FoldLeft(LAMBDA r, i : IF r.gray = << >> THEN r ELSE PropagateMark(r),
           s, [i \in 1..(Len(s.gray) + Cardinality(Addr)) |-> i])

MarkRoot ==
  MarkAll([Now EXCEPT !.gray = << >>, !.again = << >>, !.weak = << >>],
          <<Main, Globals>>)

OpenUpvals(h) == {u \in DOMAIN h : h[u].type = "upval" /\ h[u].at # << >>}

\* Upvalues of threads that nobody marked.
RemarkUpvals(s) ==
  FoldLeft(LAMBDA r, u : MarkValue(r, ValueOf(r.heap, u)), s,
           SetToSeq({u \in OpenUpvals(s.heap) : s.heap[u].color = "gray"}))

\* Key or value o goes from a weak table; finalized userdata stay as keys.
IsCleared(h, o, iskey) ==
  /\ o # Nil
  /\ \/ h[o].color \in Whites
     \/ h[o].type = "userdata" /\ ~iskey /\ h[o].finalized

ClearTables(h, tables) ==
  [o \in DOMAIN h |->
     IF o \in Range(tables) /\ h[o].val # Nil
        /\ (IsCleared(h, h[o].key, TRUE) \/ IsCleared(h, h[o].val, FALSE))
       THEN [h[o] EXCEPT !.key = Nil, !.val = Nil] ELSE h[o]]

\* luaC_separateudata(L, 0): dead userdata are finalized, with a call if their
\* metatable has __gc.
ToFinalize(h) == {u \in DOMAIN h : /\ h[u].type = "userdata"
                                   /\ h[u].color \in Whites
                                   /\ ~h[u].finalized}

Separated(s) == SelectSeq(root, LAMBDA u : u \in ToFinalize(s.heap) /\ s.heap[u].gc)

\* Slip: the bit is not set for userdata without a finalizer or with one.
SetFinalized_Not(s) == s

SetFinalized(s) ==
  [s EXCEPT !.heap = [o \in DOMAIN @ |-> IF o \in ToFinalize(@)
                                           THEN [@[o] EXCEPT !.finalized = TRUE]
                                           ELSE @[o]]]

\* marktmu: what finalizers will see is kept, whether it is marked already or not.
MarkTmu(s, list) ==
  FoldLeft(LAMBDA r, u : MarkValue(Color(r, u, white), u), s, list)

\* remark is RemarkUpvals; the parameter is there for the sake of the slip.
AtomicWith(remark(_)) ==
  LET s1 == PropagateAll(remark(Now))
      s2 == PropagateAll(MarkValue([s1 EXCEPT !.gray = s1.weak, !.weak = << >>], running))
      s3 == PropagateAll([s2 EXCEPT !.gray = s2.again, !.again = << >>])
      todo == tmudata \o Separated(s3)
      s4 == PropagateAll(MarkTmu(SetFinalized(s3), todo))
  IN  /\ gray = << >>
      /\ heap' = ClearTables(s4.heap, s4.weak)
      /\ gray' = s4.gray /\ grayagain' = s4.again /\ weak' = s4.weak
      /\ root' = SelectSeq(root, LAMBDA o : o \notin Range(Separated(s3)))
      /\ tmudata' = todo
      /\ white' = Otherwhite(white)
      /\ swept' = 0
      /\ gcstate' = "sweep"

-----------------------------------------------------------------------------
(* Barriers, and the closing of upvalues.                                     *)

IsBarrier(s, o, v) == s.heap[o].color = "black" /\ IsWhite(s, v)

\* luaC_barrierf: the value is marked, or the object is white from now on.
BarrierForward(s, o, v) ==
  IF IsBarrier(s, o, v)
    THEN IF gcstate = "propagate" THEN MarkValue(s, v) ELSE Color(s, o, white)
    ELSE s

\* luaC_barrierback: the table is to be traversed again.
BarrierBack(s, t, values) ==
  IF \E v \in values : IsBarrier(s, t, v)
    THEN [Color(s, t, "gray") EXCEPT !.again = <<t>> \o @]
    ELSE s

Clear(h, o) == [h EXCEPT ![o].color = white]

Free(h, s) == [o \in DOMAIN h \ s |-> h[o]]

\* luaC_link, and luaC_linkupval without its barrier: in front of what is swept.
Link(s, o) == [s EXCEPT !.root = <<o>> \o @, !.pos = IF @ = 0 THEN 0 ELSE @ + 1]

Closed(h, u) == [h EXCEPT ![u].val = ValueOf(h, u), ![u].at = << >>]

\* Slip: luaC_linkupval without its barrier.
CloseUpval_NoBarrier(s, t, u) ==
  LET o == [s EXCEPT !.heap[t].open = Tail(@)]
  IN  IF IsDead(u) THEN [o EXCEPT !.heap = Free(@, {u})]
      ELSE LET c == Link([o EXCEPT !.heap = Closed(@, u)], u)
           IN  IF c.heap[u].color # "gray" THEN c ELSE Color(c, u, "black")

\* luaF_close for one upvalue of thread t: a gray one needs the barrier it had
\* not as an open one, or is swept.
CloseUpval(s, t, u) ==
  LET o == [s EXCEPT !.heap[t].open = Tail(@)]
  IN  IF IsDead(u) THEN [o EXCEPT !.heap = Free(@, {u})]
      ELSE LET c == Link([o EXCEPT !.heap = Closed(@, u)], u)
           IN  IF c.heap[u].color # "gray" THEN c
               ELSE IF gcstate = "propagate"
                 THEN BarrierForward(Color(c, u, "black"), u, c.heap[u].val)
                 ELSE Color(c, u, white)

-----------------------------------------------------------------------------
(* Sweeping.  A record of the heap, of rootgc and of the position in it.      *)

\* The open upvalues of a thread have a list of their own.
SweepUpvals(h, t) ==
  LET dead == {u \in Range(h[t].open) : IsDead(u)}
      kept == [h EXCEPT ![t].open = SelectSeq(@, LAMBDA u : u \notin dead)]
  IN  Free([o \in DOMAIN h |-> IF o \in Range(kept[t].open)
                                 THEN [kept[o] EXCEPT !.color = white] ELSE kept[o]],
           dead)

\* freeobj; luaE_freethread closes the upvalues that SweepUpvals has left.
FreeObject(s, o) ==
  LET open == IF s.heap[o].type = "thread" THEN s.heap[o].open ELSE << >>
      r == FoldLeft(LAMBDA q, u : CloseUpval(q, o, u), s, open)
  IN  [r EXCEPT !.heap = Free(@, {o})]

\* Slip: the upvalues of a thread are left to luaF_close.
SweepOne_NoUpvals(s) ==
  LET o == s.root[s.pos + 1]
  IN  IF IsDead(o) THEN FreeObject([s EXCEPT !.root = RemoveAt(@, s.pos + 1)], o)
      ELSE [s EXCEPT !.heap = Clear(@, o), !.pos = @ + 1]

SweepOne(s) ==
  LET o == s.root[s.pos + 1]
      t == IF s.heap[o].type = "thread" THEN [s EXCEPT !.heap = SweepUpvals(@, o)] ELSE s
  IN  IF IsDead(o) THEN FreeObject([t EXCEPT !.root = RemoveAt(@, s.pos + 1)], o)
      ELSE [t EXCEPT !.heap = Clear(@, o), !.pos = @ + 1]

SweepList(s) ==
  FoldLeft(LAMBDA r, i : IF r.pos = Len(r.root) THEN r ELSE SweepOne(r),
           s, [i \in 1..SweepMax |-> i])

-----------------------------------------------------------------------------
(* What scripts can reach; it is the properties that are about it.            *)

StrongRefs(h, o) ==
  LET r == h[o]
  IN  CASE r.type = "table" -> IF r.val = Nil THEN {}
                               ELSE (IF "k" \in r.mode THEN {} ELSE {r.key})
                                    \cup (IF "v" \in r.mode THEN {} ELSE {r.val})
        [] r.type = "function" -> {r.up, Globals}
        [] r.type = "upval" -> {ValueOf(h, o)}
        [] r.type = "thread" -> Range(r.stack) \cup {Globals}
        [] r.type = "userdata" -> {r.env}

AllRefs(h, o) ==
  StrongRefs(h, o) \cup (IF h[o].type = "table" /\ h[o].val # Nil
                           THEN {h[o].key, h[o].val} ELSE {})

ReachableBy(Refs(_, _), h, from) ==
  FoldLeft(LAMBDA r, i : r \cup (UNION {Refs(h, o) : o \in r \cap DOMAIN h} \ {Nil}),
           from, [i \in 1..Cardinality(Addr) |-> i])

Roots == {Main, Globals, running}

\* Open upvalues are reached through closures only: a dead one that a new
\* closure needs is revived.  Finalizers make accessible what they are given.
Accessible == ReachableBy(AllRefs, heap, Roots \cup Range(tmudata))

Finalizable ==
  Range(tmudata) \cup {u \in DOMAIN heap : /\ heap[u].type = "userdata"
                                           /\ heap[u].gc /\ ~heap[u].finalized}

Garbage == DOMAIN heap \ ReachableBy(AllRefs, heap, Roots \cup Finalizable)

-----------------------------------------------------------------------------
(* The collector's steps.                                                     *)

StartCycle ==
  LET s == MarkRoot
  IN  /\ heap' = s.heap
      /\ gray' = s.gray /\ grayagain' = s.again /\ weak' = s.weak
      /\ gcstate' = "propagate"
      /\ garbage' = Garbage
      /\ UNCHANGED <<root, white, swept, tmudata>>

Propagate ==
  LET s == PropagateMark(Now)
  IN  /\ gray # << >>
      /\ heap' = s.heap
      /\ gray' = s.gray /\ grayagain' = s.again /\ weak' = s.weak
      /\ UNCHANGED <<root, gcstate, white, swept, tmudata, garbage>>

\* Slip: upvalues of threads that nobody marked are forgotten.
Atomic_NoRemark == AtomicWith(LAMBDA s : s) /\ UNCHANGED garbage

Atomic == AtomicWith(RemarkUpvals) /\ UNCHANGED garbage

Sweep ==
  LET s == SweepList([heap |-> heap, root |-> root, pos |-> swept])
  IN  /\ heap' = s.heap
      /\ root' = s.root
      /\ garbage' = garbage \cap DOMAIN s.heap
      /\ IF s.pos = Len(s.root) THEN gcstate' = "finalize" /\ swept' = 0
                                ELSE gcstate' = "sweep" /\ swept' = s.pos
      /\ UNCHANGED <<white, gray, grayagain, weak, tmudata>>

LinkUdata(r, u) == InsertAt(r, SelectInSeq(r, LAMBDA o : o = Main) + 1, u)

\* GCTM: the userdata is an ordinary one again before its finalizer runs, which
\* may store it where scripts find it.
Finalize ==
  /\ tmudata # << >>
  /\ LET u == Head(tmudata)
     IN  /\ tmudata' = Tail(tmudata)
         /\ root' = LinkUdata(root, u)
         /\ finalizers' = [finalizers EXCEPT ![u] = @ + 1]
         /\ \E stored \in BOOLEAN :
              LET h == Clear(heap, u)
              IN  Become(IF stored
                           THEN BarrierBack([Now EXCEPT !.heap =
                                  [h EXCEPT ![Globals].key = u, ![Globals].val = u]],
                                  Globals, {u})
                           ELSE [Now EXCEPT !.heap = h])
  /\ UNCHANGED <<gcstate, white, swept, garbage>>

EndCycle ==
  /\ tmudata = << >>
  /\ gcstate' = "pause"
  /\ UNCHANGED <<heap, root, white, gray, grayagain, weak, swept, tmudata, garbage,
                 finalizers>>

SingleStep ==
  \/ gcstate = "pause" /\ StartCycle /\ UNCHANGED finalizers
  \/ gcstate = "propagate" /\ (Propagate \/ Atomic) /\ UNCHANGED finalizers
  \/ gcstate = "sweep" /\ Sweep
     /\ finalizers' = [u \in DOMAIN finalizers \cap DOMAIN heap' |-> finalizers[u]]
  \/ gcstate = "finalize" /\ (Finalize \/ EndCycle)

Step ==
  /\ full = "no"
  /\ SingleStep
  /\ UNCHANGED <<full, running, program>>

\* The next operation of the program may be op; a full collection is not going
\* on.
Does(op) ==
  /\ full = "no"
  /\ program # << >>
  /\ op \in Head(program)
  /\ program' = Tail(program)

\* luaC_fullgc: a cycle that is still marking is given up, its marks are swept;
\* then a whole cycle runs, and no script but the finalizers meanwhile.
CollectGarbage ==
  /\ Does("collect")
  /\ full' = "sweeping"
  /\ IF gcstate \in {"pause", "propagate"}
       THEN /\ swept' = 0
            /\ gray' = << >> /\ grayagain' = << >> /\ weak' = << >>
            /\ gcstate' = "sweep"
       ELSE UNCHANGED <<gcstate, gray, grayagain, weak, swept>>
  /\ UNCHANGED <<heap, root, white, tmudata, running, garbage, finalizers>>

RunFull ==
  /\ full \in {"sweeping", "marking"}
  /\ IF full = "sweeping" /\ gcstate = "finalize"
       THEN StartCycle /\ full' = "marking" /\ UNCHANGED finalizers
       ELSE /\ SingleStep
            /\ full' = IF full = "marking" /\ gcstate' = "pause" THEN "no" ELSE full
  /\ UNCHANGED <<running, program>>

-----------------------------------------------------------------------------
(* What scripts do.  The running script is the running thread's; slots of its *)
(* stack are its variables, and Globals can be used like a variable.          *)

Stack == heap[running].stack

Variables == Range(Stack) \cup {Globals}

OfType(t) == {o \in Variables : TypeIs(o, t)}

Fresh == Min(Addr \ DOMAIN heap)

Put(h, i, v) == [h EXCEPT ![running].stack[i] = v]

\* luaC_link: the new object is white and in front of what has been swept.
LinkNew(o) ==
  /\ root' = <<o>> \o root
  /\ swept' = IF swept = 0 THEN 0 ELSE swept + 1

Create(op, new) ==
  /\ Does(op)
  /\ Addr # DOMAIN heap
  /\ LinkNew(Fresh)
  /\ \E i \in 1..Slots : heap' = Put((Fresh :> new) @@ heap, i, Fresh)
  /\ UNCHANGED <<gcstate, white, gray, grayagain, weak, tmudata, full, running,
                 garbage, finalizers>>

CreateTable == \E mode \in Modes : Create("table", NewTable(white, mode))

CreateThread == Create("thread", NewThread(white))

\* Userdata are linked behind the main thread.
CreateUdata ==
  /\ Does("userdata")
  /\ Addr # DOMAIN heap
  /\ root' = LinkUdata(root, Fresh)
  /\ swept' = IF swept < SelectInSeq(root, LAMBDA o : o = Main) + 1 THEN swept ELSE swept + 1
  /\ \E i \in 1..Slots, gc \in BOOLEAN :
       heap' = Put((Fresh :> NewUdata(white, gc)) @@ heap, i, Fresh)
  /\ finalizers' = (Fresh :> 0) @@ finalizers
  /\ UNCHANGED <<gcstate, white, gray, grayagain, weak, tmudata, full, running, garbage>>

\* The open upvalue of slot j, if there is one.
OpenAt(j) == {u \in Range(heap[running].open) : heap[u].at = <<running, j>>}

\* The list is in the order of the stack, from its top.
InsertOpen(h, u, j) ==
  LET above == SelectSeq(h[running].open, LAMBDA v : h[v].at[2] > j)
      below == SelectSeq(h[running].open, LAMBDA v : h[v].at[2] < j)
  IN  [h EXCEPT ![running].open = above \o <<u>> \o below]

NewUpval(j) == [type |-> "upval", color |-> white, at |-> <<running, j>>, val |-> Nil]

\* luaF_findupval: the upvalue for slot j, and the heap with it.
FindUpval(j) ==
  IF OpenAt(j) = {}
    THEN [uv |-> Fresh, heap |-> InsertOpen((Fresh :> NewUpval(j)) @@ heap, Fresh, j)]
    ELSE LET u == Min(OpenAt(j))
         IN  [uv |-> u, heap |-> IF IsDead(u) THEN Clear(heap, u) ELSE heap]

\* A closure over slot j.
CreateFunction ==
  /\ Does("function")
  /\ \E i, j \in 1..Slots :
       /\ Cardinality(Addr \ DOMAIN heap) > (IF OpenAt(j) = {} THEN 1 ELSE 0)
       /\ LET f == FindUpval(j)
              c == Min(Addr \ DOMAIN f.heap)
          IN  /\ LinkNew(c)
              /\ heap' = Put((c :> [type |-> "function", color |-> white, up |-> f.uv])
                             @@ f.heap, i, c)
              /\ garbage' = garbage \ {f.uv}
  /\ UNCHANGED <<gcstate, white, gray, grayagain, weak, tmudata, full, running, finalizers>>

\* luaV_settable with luaC_barrierback: the table is to be traversed again.
SetTable ==
  /\ Does("set")
  /\ \E t \in OfType("table"), k \in Variables \ {Nil}, v \in Variables :
       LET old == heap[t]
           h == [heap EXCEPT ![t].key = k, ![t].val = v]
       IN  /\ old.val # Nil => k = old.key
           /\ old.val = Nil => v # Nil
           /\ Become(BarrierBack([Now EXCEPT !.heap = h], t,
                                 IF k = old.key THEN {v} ELSE {k, v}))
  /\ UNCHANGED <<root, gcstate, white, swept, tmudata, full, running, garbage, finalizers>>

\* A value, or a key that next returns.
GetTable ==
  /\ Does("get")
  /\ \E t \in OfType("table"), i \in 1..Slots :
       /\ heap[t].val # Nil
       /\ \E v \in {heap[t].key, heap[t].val} : heap' = Put(heap, i, v)
  /\ UNCHANGED <<root, collector, full, running, garbage, finalizers>>

SetUpval ==
  /\ Does("setupval")
  /\ \E c \in OfType("function"), v \in Range(Stack) :
       LET u == heap[c].up
           at == heap[u].at
           h == IF at = << >> THEN [heap EXCEPT ![u].val = v]
                ELSE [heap EXCEPT ![at[1]].stack[at[2]] = v]
       IN  Become(BarrierForward([Now EXCEPT !.heap = h], u, v))
  /\ UNCHANGED <<root, gcstate, white, swept, tmudata, full, running, garbage, finalizers>>

GetUpval ==
  /\ Does("getupval")
  /\ \E c \in OfType("function"), i \in 1..Slots :
       heap' = Put(heap, i, ValueOf(heap, heap[c].up))
  /\ UNCHANGED <<root, collector, full, running, garbage, finalizers>>

SetEnvironment ==
  /\ Does("setfenv")
  /\ \E u \in OfType("userdata"), t \in OfType("table") :
       Become(BarrierForward([Now EXCEPT !.heap[u].env = t], u, t))
  /\ UNCHANGED <<root, gcstate, white, swept, tmudata, full, running, garbage, finalizers>>

\* A block ends whose variables are those from slot j.
CloseBlock ==
  /\ Does("close")
  /\ \E j \in 1..Slots :
       LET closing == SelectSeq(heap[running].open, LAMBDA u : heap[u].at[2] >= j)
           s == FoldLeft(LAMBDA r, u : CloseUpval(r, running, u),
                         Now @@ [root |-> root, pos |-> swept], closing)
       IN  /\ closing # << >>
           /\ heap' = [s.heap EXCEPT ![running].stack =
                         [i \in 1..Slots |-> IF i >= j THEN Nil ELSE @[i]]]
           /\ gray' = s.gray
           /\ root' = s.root /\ swept' = s.pos
           /\ garbage' = garbage \cap DOMAIN s.heap
  /\ UNCHANGED <<gcstate, white, grayagain, weak, tmudata, full, running, finalizers>>

Forget ==
  /\ Does("forget")
  /\ \E i \in 1..Slots : Stack[i] # Nil /\ heap' = Put(heap, i, Nil)
  /\ UNCHANGED <<root, collector, full, running, garbage, finalizers>>

\* The main thread resumes a coroutine with a value.
Resume ==
  /\ Does("resume")
  /\ running = Main
  /\ \E t \in OfType("thread"), v \in Range(Stack) :
       /\ running' = t
       /\ heap' = [heap EXCEPT ![t].stack[1] = v]
  /\ UNCHANGED <<root, collector, full, garbage, finalizers>>

Yield ==
  /\ Does("yield")
  /\ running # Main
  /\ running' = Main
  /\ UNCHANGED <<heap, root, collector, full, garbage, finalizers>>

Script ==
  \/ CreateTable \/ CreateThread \/ CreateUdata \/ CreateFunction
  \/ SetTable \/ GetTable \/ SetUpval \/ GetUpval \/ SetEnvironment
  \/ CloseBlock \/ Forget \/ Resume \/ Yield \/ CollectGarbage

-----------------------------------------------------------------------------
(* The end of the state.                                                      *)

\* luaC_separateudata(L, 1)
ToFinalizeAtExit == {u \in DOMAIN heap : heap[u].type = "userdata" /\ ~heap[u].finalized}

\* lua_close: upvalues of the main stack are closed, and all userdata are to be
\* finalized.
Exit ==
  /\ Does("exit")
  /\ running = Main
  /\ full' = "closing"
  /\ LET s == FoldLeft(LAMBDA r, u : CloseUpval(r, Main, u),
                       Now @@ [root |-> root, pos |-> swept], heap[Main].open)
         last == SelectSeq(s.root, LAMBDA u : u \in ToFinalizeAtExit /\ heap[u].gc)
     IN  /\ heap' = [o \in DOMAIN s.heap |->
                       IF o \in ToFinalizeAtExit THEN [s.heap[o] EXCEPT !.finalized = TRUE]
                       ELSE IF o = Main THEN NewThread(heap[Main].color) ELSE s.heap[o]]
         /\ gray' = s.gray
         /\ root' = SelectSeq(s.root, LAMBDA o : o \notin Range(last))
         /\ swept' = 0
         /\ tmudata' = tmudata \o last
         /\ garbage' = garbage \cap DOMAIN s.heap
  /\ UNCHANGED <<gcstate, white, grayagain, weak, running, finalizers>>

\* close_state frees everything; no collection was finished.
RunExit ==
  /\ full = "closing"
  /\ IF tmudata # << >>
       THEN Finalize /\ UNCHANGED full
       ELSE /\ full' = "closed"
            /\ heap' = (Main :> NewThread(white)) @@ (Globals :> NewTable(white, {}))
            /\ root' = <<Globals, Main>> /\ gcstate' = "pause"
            /\ gray' = << >> /\ grayagain' = << >> /\ weak' = << >> /\ swept' = 0
            /\ garbage' = {} /\ finalizers' = [x \in {} |-> 0]
            /\ UNCHANGED <<white, tmudata>>
  /\ UNCHANGED <<running, program>>

Ended == full = "closed" /\ UNCHANGED vars

Next == Step \/ RunFull \/ Script \/ Exit \/ RunExit \/ Ended

Spec == Init /\ [][Next]_vars

-----------------------------------------------------------------------------
(* Every object is on the one list that will sweep it: rootgc, the open       *)
(* upvalues of the thread whose stack it points into, or tmudata.             *)
OnList(o) ==
  /\ o \in Range(root) <=> ~(o \in OpenUpvals(heap) \/ o \in Range(tmudata))
  /\ o \in OpenUpvals(heap) =>
       heap[o].at[1] \in DOMAIN heap /\ o \in Range(heap[heap[o].at[1]].open)
  /\ heap[o].type = "thread" => /\ Range(heap[o].open) \subseteq OpenUpvals(heap)
                                /\ IsInjective([i \in DOMAIN heap[o].open |->
                                                  heap[heap[o].open[i]].at])

\* The heap, the lists of the collector and the place of the sweep.
TypeOK ==
  /\ DOMAIN heap \subseteq Addr
  /\ \A o \in DOMAIN heap : heap[o].color \in Whites \cup {"gray", "black"} /\ OnList(o)
  /\ IsInjective(root) /\ IsInjective(tmudata)
  /\ Range(root) \cup Range(tmudata) \subseteq DOMAIN heap
  /\ gcstate \in {"pause", "propagate", "sweep", "finalize"}
  /\ white \in Whites
  /\ swept \in 0..Len(root)
  /\ full \in {"no", "sweeping", "marking", "closing", "closed"}
  /\ TypeIs(running, "thread")
  /\ DOMAIN finalizers = {o \in DOMAIN heap : heap[o].type = "userdata"}

\* lua_close does not go on with a collection.
Marking == gcstate = "propagate" /\ full # "closing"

(* Whatever a script or a finalizer can reach, through weak tables too, is an *)
(* object that exists and that the sweep in progress will not free            *)
(* (reallymarkobject to cleartable, and every barrier).                       *)
AccessibleLives ==
  \A o \in Accessible : o \in DOMAIN heap /\ ~IsDead(o)

(* While the collector marks, no black object refers to a white one: what it  *)
(* has done with is not written behind its back (luaC_barrierf,               *)
(* luaC_barrierback, luaC_linkupval); stacks and open upvalues, which have no *)
(* barrier, are never black.                                                  *)
NoBlackToWhite ==
  Marking =>
    \A o \in DOMAIN heap : heap[o].color = "black" =>
      /\ heap[o].type # "thread" /\ o \notin OpenUpvals(heap)
      /\ \A r \in StrongRefs(heap, o) \ {Nil} : heap[r].color \notin Whites

(* The three gray lists share one link per object, gclist: while the          *)
(* collector marks, an object is on one of them if it is gray, and on none    *)
(* otherwise; a second entry would cut a list short or close it to a ring.    *)
OneGrayList ==
  Marking =>
    \A o \in DOMAIN heap :
      Cardinality({i \in DOMAIN (gray \o grayagain \o weak) :
                     (gray \o grayagain \o weak)[i] = o})
        = IF heap[o].color = "gray" /\ heap[o].type # "upval" THEN 1 ELSE 0

(* The collector's own state is sound: types, colours and gray lists.         *)
CollectorIsSound == TypeOK /\ NoBlackToWhite /\ OneGrayList

(* A userdata is finalized once, however often a finalizer makes it           *)
(* accessible again (luaC_separateudata, GCTM).                               *)
FinalizedOnce == \A u \in DOMAIN finalizers : finalizers[u] <= 1

(* lua_close calls the finalizer of every userdata that has one before it     *)
(* frees them all (luaC_separateudata with all, luaC_callGCTM).               *)
FinalizedAtExit ==
  full = "closing" /\ tmudata = << >> =>
    \A u \in DOMAIN finalizers : heap[u].gc => finalizers[u] = 1

(* A userdata with a finalizer is finalized exactly once, at the latest when  *)
(* its state closes.                                                          *)
FinalizedExactlyOnce == FinalizedOnce /\ FinalizedAtExit

(* What no script could reach when a cycle began is gone when it ends, except *)
(* open upvalues a closure has found again (markroot to the end of the sweep).*)
CycleCollects == gcstate = "pause" => garbage = {}

=============================================================================
