------------------------------ MODULE LuaTable ------------------------------
(***************************************************************************)
(* Lua's tables (ltable.c): an array part, and a hash part of chained      *)
(* nodes (Brent's variation) whose free nodes are handed out from the end; *)
(* with the rehash that moves keys between the parts, the search for a     *)
(* boundary and the traversal of luaH_next.                                *)
(*                                                                         *)
(* A key is an integer; those in Objects stand for strings, which the      *)
(* collector may find dead.  A field holds its key or Nil, so that a value *)
(* read at the wrong key shows.                                            *)
(***************************************************************************)
EXTENDS Integers, SequencesExt

CONSTANTS
  Numbers,      \* integer keys
  Objects,      \* the other keys
  HashOf(_),    \* the hash of a key before it is reduced to a node
  Sizes,        \* sizes that luaH_new and luaH_resizearray are asked for
  Nil

TableAssumption ==
  /\ Numbers \subseteq Nat \ {0} /\ Objects \subseteq Nat /\ Numbers \cap Objects = {}
  /\ Nil \notin Numbers \cup Objects /\ Sizes \subseteq Nat

Keys == Numbers \cup Objects

VARIABLES
  t,            \* the table
  content,      \* history: what a map would hold
  walk          \* the traversal in progress: last key, keys seen, keys present throughout

vars == <<t, content, walk>>

-----------------------------------------------------------------------------
(* Positions; 0 is none. *)
FreeNode == [key |-> Nil, val |-> Nil, next |-> 0, dead |-> FALSE]

Pow2 == {2^i : i \in 0..4}
RoundUp(n) == CHOOSE p \in Pow2 : p >= n /\ \A q \in Pow2 : q >= n => p <= q

(* setnodevector: no node at all for size 0 (dummynode). *)
NodeVector(n) == IF n = 0 THEN <<>> ELSE [i \in 1..RoundUp(n) |-> FreeNode]

Table(array, nodes) == [array |-> array, node |-> nodes, lastfree |-> Len(nodes) + 1, stuck |-> FALSE]

NilArray(n) == [i \in 1..n |-> Nil]

MainPosition(tb, k) ==
  LET size == Len(tb.node)
  IN  1 + (IF k \in Numbers THEN HashOf(k) % (IF size = 1 THEN 1 ELSE size - 1) ELSE HashOf(k) % size)

InArray(tb, k) == k \in 1..Len(tb.array)

(* The chain of a key's main position, searched for a node that fits.       *)
Search(tb, k, Fits(_)) ==
  LET from[i \in 0..Len(tb.node)] ==
        IF i = 0 THEN 0 ELSE IF Fits(tb.node[i]) THEN i ELSE from[tb.node[i].next]
  IN  IF tb.node = <<>> THEN 0 ELSE from[MainPosition(tb, k)]

NodeOf(tb, k) == Search(tb, k, LAMBDA n : n.key = k /\ ~n.dead)

Get(tb, k) ==   \* luaH_get
  IF InArray(tb, k) THEN tb.array[k] ELSE IF NodeOf(tb, k) # 0 THEN tb.node[NodeOf(tb, k)].val ELSE Nil

-----------------------------------------------------------------------------
(* New keys. *)
FreePos(tb) ==   \* getfreepos: downwards from lastfree
  LET free == {i \in 1..(tb.lastfree - 1) : tb.node[i].key = Nil}
  IN  IF free = {} THEN 0 ELSE CHOOSE i \in free : \A j \in free : j <= i

Main(tb, k) == IF tb.node = <<>> THEN FreeNode ELSE tb.node[MainPosition(tb, k)]
HasRoom(tb, k) == tb.node # <<>> /\ (Main(tb, k).val = Nil \/ FreePos(tb) # 0)

MoveColliding_Unlinks(tb, k, mp, n) ==   \* slip: the chain is not redone
  [tb EXCEPT !.node[n] = tb.node[mp], !.node[mp] = [FreeNode EXCEPT !.key = k, !.val = k], !.lastfree = n]

(* The colliding node gives way: it moves to the free node n, which takes   *)
(* its place in its chain.                                                  *)
MoveColliding(tb, k, mp, n) ==
  LET previous == Search(tb, tb.node[mp].key, LAMBDA m : m.next = mp)
  IN  [tb EXCEPT !.node[previous].next = n, !.node[n] = tb.node[mp],
                 !.node[mp] = [FreeNode EXCEPT !.key = k, !.val = k], !.lastfree = n]

(* newkey, with the value set by its caller (v is k, or Nil: the node is    *)
(* then taken and empty).                                                   *)
NewKey(tb, k, v) ==
  LET mp == MainPosition(tb, k) n == FreePos(tb)
      taken == [FreeNode EXCEPT !.key = k, !.val = v]
  IN  CASE ~HasRoom(tb, k) -> [tb EXCEPT !.stuck = TRUE]
        [] HasRoom(tb, k) /\ tb.node[mp].val = Nil ->
             [tb EXCEPT !.node[mp] = [taken EXCEPT !.next = tb.node[mp].next]]
        [] HasRoom(tb, k) /\ tb.node[mp].val # Nil /\ MainPosition(tb, tb.node[mp].key) = mp ->
             [tb EXCEPT !.node[n] = [taken EXCEPT !.next = tb.node[mp].next], !.node[mp].next = n,
                        !.lastfree = n]
        [] OTHER -> [MoveColliding(tb, k, mp, n) EXCEPT !.node[mp].val = v]

Store(tb, k, v) ==   \* luaH_set and the assignment, when there is room
  IF InArray(tb, k) THEN [tb EXCEPT !.array = [i \in DOMAIN @ |-> IF i = k THEN v ELSE @[i]]]
  ELSE IF NodeOf(tb, k) # 0 THEN [tb EXCEPT !.node[NodeOf(tb, k)].val = v]
  ELSE NewKey(tb, k, v)

-----------------------------------------------------------------------------
(* Rehash. *)
Used(seq) == FoldLeft(LAMBDA found, k : IF k = Nil THEN found ELSE Append(found, k), <<>>, seq)

ReinsertSlice(tb, old) ==
  FoldLeft(LAMBDA acc, k : Store(acc, k, k), tb, Used(SubSeq(old, Len(tb.array) + 1, Len(old))))

Resize(tb, nasize, nhsize) ==
  LET array == [i \in 1..nasize |-> IF i <= Len(tb.array) THEN tb.array[i] ELSE Nil]
      sliced == ReinsertSlice(Table(array, NodeVector(nhsize)), tb.array)
      values == [i \in 1..Len(tb.node) |-> tb.node[i].val]
  IN  FoldLeft(LAMBDA acc, k : Store(acc, k, k), sliced, Used(Reverse(values)))

Present(tb) == (ToSet(tb.array) \cup {tb.node[i].val : i \in 1..Len(tb.node)}) \ {Nil}

UpTo(ints, n) == Cardinality({k \in ints : k <= n})

(* computesizes: the largest power of two with more than half of its slots  *)
(* in use.                                                                  *)
ComputeSize(ints) ==
  LET fits == {n \in Pow2 : UpTo(ints, n) > n \div 2}
  IN  IF fits = {} THEN 0 ELSE CHOOSE n \in fits : \A m \in fits : m <= n

Rehash(tb, k) ==
  LET all == Present(tb) \cup {k} ints == all \cap Numbers na == ComputeSize(ints)
  IN  Resize(tb, na, Cardinality(all) - UpTo(ints, na))

Assign(tb, k, v) ==   \* luaH_set: a full hash part is rehashed and the key tried again
  IF InArray(tb, k) \/ NodeOf(tb, k) # 0 \/ HasRoom(tb, k) THEN Store(tb, k, v)
  ELSE Store(Rehash(tb, k), k, v)

-----------------------------------------------------------------------------
(* luaH_getn: a binary search for a boundary in the array part, or from its *)
(* end by doubling in the hash part.                                        *)
Between(i, j, Absent(_)) ==
  LET search[a \in 0..j, b \in 0..j] ==
        IF b - a <= 1 THEN a
        ELSE IF Absent((a + b) \div 2) THEN search[a, (a + b) \div 2] ELSE search[(a + b) \div 2, b]
  IN  search[i, j]

GetN(tb) ==
  LET size == Len(tb.array)
      doubled[j \in 0..64, i \in 0..64] ==
        IF Get(tb, j) = Nil THEN Between(i, j, LAMBDA m : Get(tb, m) = Nil) ELSE doubled[2 * j, j]
  IN  IF size > 0 /\ tb.array[size] = Nil THEN Between(0, size, LAMBDA m : tb.array[m] = Nil)
      ELSE IF tb.node = <<>> THEN size
      ELSE doubled[size + 1, size]

-----------------------------------------------------------------------------
(* luaH_next: positions of the array part, then of the hash part.           *)
Fields(tb) == tb.array \o [i \in 1..Len(tb.node) |-> tb.node[i].val]

FindIndex_Alive(tb, k) ==   \* slip: a dead key is not recognised
  IF k = Nil THEN 0 ELSE IF InArray(tb, k) THEN k
  ELSE IF NodeOf(tb, k) = 0 THEN -1 ELSE Len(tb.array) + NodeOf(tb, k)

FindIndex(tb, k) ==
  LET n == Search(tb, k, LAMBDA m : m.key = k)
  IN  IF k = Nil THEN 0 ELSE IF InArray(tb, k) THEN k ELSE IF n = 0 THEN -1 ELSE Len(tb.array) + n

NoWalk == [at |-> Nil, on |-> FALSE, seen |-> {}, stays |-> {}, failed |-> FALSE, complete |-> TRUE]

BeginWalk ==
  /\ ~walk.on
  /\ walk' = [NoWalk EXCEPT !.on = TRUE, !.stays = {k \in Keys : content[k] # Nil}]
  /\ UNCHANGED <<t, content>>

StepWalk ==
  /\ walk.on
  /\ LET i == FindIndex(t, walk.at)
         rest == {j \in DOMAIN Fields(t) : j > i /\ Fields(t)[j] # Nil}
         j == CHOOSE m \in rest : \A o \in rest : m <= o
     IN  walk' = CASE i = -1 -> [NoWalk EXCEPT !.failed = TRUE]
                   [] i # -1 /\ rest = {} -> [NoWalk EXCEPT !.complete = walk.stays \subseteq walk.seen]
                   [] OTHER -> [walk EXCEPT !.at = Fields(t)[j], !.seen = @ \cup {Fields(t)[j]},
                                            !.failed = Fields(t)[j] \in walk.seen]
  /\ UNCHANGED <<t, content>>

-----------------------------------------------------------------------------
Init ==   \* luaH_new
  /\ \E a, h \in Sizes : t = Table(NilArray(a), NodeVector(h))
  /\ content = [k \in Keys |-> Nil]
  /\ walk = NoWalk

(* A traversal may change and clear fields, but not add one.                *)
Set(k, v) ==
  /\ walk.on => content[k] # Nil
  /\ t' = Assign(t, k, v)
  /\ content' = [content EXCEPT ![k] = v]
  /\ walk' = IF v = Nil THEN [walk EXCEPT !.stays = @ \ {k}] ELSE walk

ResizeArray(n) ==   \* luaH_resizearray, for a constructor
  /\ ~walk.on
  /\ n > Len(t.array)
  /\ t' = Resize(t, n, Len(t.node))
  /\ UNCHANGED <<content, walk>>

(* The collector marks the keys of empty fields as dead (removeentry).      *)
Collect ==
  /\ t' = [t EXCEPT !.node = [i \in DOMAIN t.node |->
             IF t.node[i].val = Nil /\ t.node[i].key \in Objects THEN [t.node[i] EXCEPT !.dead = TRUE]
             ELSE t.node[i]]]
  /\ t' # t
  /\ UNCHANGED <<content, walk>>

Next ==
  \/ \E k \in Keys : Set(k, k) \/ Set(k, Nil)
  \/ \E n \in Sizes : ResizeArray(n)
  \/ Collect
  \/ BeginWalk \/ StepWalk

Spec == Init /\ [][Next]_vars

-----------------------------------------------------------------------------
(* The table is the map that the assignments describe, through collisions,  *)
(* moved nodes, reused nodes and rehashes.                                  *)
ReadsBack == \A k \in Keys : Get(t, k) = content[k]

(* A rehash makes room for all keys and the one to come: inserting them     *)
(* never asks for another.                                                  *)
RehashMakesRoom == ~t.stuck

(* The length is a boundary: a present index (or 0) followed by an absent   *)
(* one, whichever part holds it.                                            *)
LengthIsBoundary ==
  LET n == GetN(t) IN (n = 0 \/ (n \in Keys /\ content[n] = n)) /\ (n + 1 \in Numbers => content[n + 1] = Nil)

(* A traversal during which fields are changed and cleared, and keys of     *)
(* cleared fields collected, sees every field that stays, none twice, and   *)
(* always finds the key it left off at.                                     *)
WalkIsComplete == walk.complete /\ ~walk.failed

(* A rehash leaves an array part that is more than half full.               *)
ArrayHalfFull ==
  Len(t'.array) # Len(t.array) /\ t'.array # <<>> /\ (\E k \in Keys : content'[k] # content[k]) =>
    2 * Cardinality({i \in DOMAIN t'.array : t'.array[i] # Nil}) > Len(t'.array)

(* A table is the map that its assignments describe, its length a boundary  *)
(* of it, and a rehash makes room enough and not too much.                  *)
TableIsMap == [][ReadsBack' /\ LengthIsBoundary' /\ RehashMakesRoom' /\ ArrayHalfFull]_vars
=============================================================================
