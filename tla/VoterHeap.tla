----------------------------- MODULE VoterHeap ------------------------------
(***************************************************************************)
(* voter.PriorityQueue (voter/utils.go): an itemslice kept as a binary    *)
(* heap by Go's container/heap, with itemsMap from key to *Item and every *)
(* Item carrying its own Index.  An Item is identified by its key: heap   *)
(* is the items slice as a sequence of keys (position p+1 holds items[p]),*)
(* idx[k] is Item.Index, inMap the keys of itemsMap, blk[k] and val[k] the *)
(* Block and Value of the item of key k.  Each public method holds the    *)
(* queue's mutex for its whole body, so each is one atomic action.        *)
(* container/heap's up, down, Fix, Push and Pop are RECURSIVE operators   *)
(* on a record s = [h |-> items, idx |-> indices], with Go's truncating   *)
(* parent index (j-1)/2, which is 0 for j = 0 and ends the loop there.    *)
(***************************************************************************)
EXTENDS Integers, Sequences, FiniteSets, Functions, TLC

CONSTANTS Keys, Values, Blocks, MaxSize

VARIABLES heap, idx, inMap, blk, val

vars == <<heap, idx, inMap, blk, val>>

(* itemslice.Less: a higher block goes first (0-based positions). *)
Less(h, b, i, j) == b[h[i + 1]] > b[h[j + 1]]

(* itemslice.Swap without the index update, a mutant of Swap. *)
SwapNoIndex(s, i, j) ==
  [h |-> [s.h EXCEPT ![i + 1] = s.h[j + 1], ![j + 1] = s.h[i + 1]], idx |-> s.idx]

(* itemslice.Swap: exchange two items and give each its new Index. *)
Swap(s, i, j) ==
  [h   |-> [s.h EXCEPT ![i + 1] = s.h[j + 1], ![j + 1] = s.h[i + 1]],
   idx |-> [s.idx EXCEPT ![s.h[j + 1]] = i, ![s.h[i + 1]] = j]]

(* Go's integer division truncates toward zero. *)
GoHalf(x) == IF x < 0 THEN -((-x) \div 2) ELSE x \div 2

(* heap.up: move item j towards the root while it beats its parent. *)
RECURSIVE up(_, _, _)
up(s, b, j) ==
  LET i == GoHalf(j - 1)
  IN  IF i = j \/ ~Less(s.h, b, j, i) THEN s ELSE up(Swap(s, i, j), b, i)

(* heap.down that only looks at the left child, a mutant of downFrom. *)
RECURSIVE downLeftOnly(_, _, _, _)
downLeftOnly(s, b, i, n) ==
  LET j == 2 * i + 1
  IN  IF j >= n \/ j < 0 \/ ~Less(s.h, b, j, i) THEN [s |-> s, i |-> i]
      ELSE downLeftOnly(Swap(s, i, j), b, j, n)

(* The loop of heap.down: sink item i below its better child while that *)
(* child beats it; returns the state and where the item stopped.        *)
RECURSIVE downFrom(_, _, _, _)
downFrom(s, b, i, n) ==
  LET j1 == 2 * i + 1
      j  == IF j1 + 1 < n /\ Less(s.h, b, j1 + 1, j1) THEN j1 + 1 ELSE j1
  IN  IF j1 >= n \/ j1 < 0 \/ ~Less(s.h, b, j, i) THEN [s |-> s, i |-> i]
      ELSE downFrom(Swap(s, i, j), b, j, n)

(* heap.down: the new state, and whether item i0 moved. *)
down(s, b, i0, n) ==
  LET r == downFrom(s, b, i0, n) IN [s |-> r.s, moved |-> r.i > i0]

(* heap.Push with itemslice.Push: Index n, append, then up. *)
HeapPush(s, b, k) ==
  LET n == Len(s.h)
  IN  up([h |-> Append(s.h, k), idx |-> [s.idx EXCEPT ![k] = n]], b, n)

(* heap.Pop with itemslice.Pop: swap the root to the end, sink the new  *)
(* root over the first n-1 items, cut the last item off with Index -1.  *)
HeapPop(s, b) ==
  LET n == Len(s.h) - 1
      t == down(Swap(s, 0, n), b, 0, n).s
  IN  [h |-> SubSeq(t.h, 1, n), idx |-> [t.idx EXCEPT ![t.h[n + 1]] = -1],
       top |-> t.h[n + 1]]

(* heap.Fix: sink item i, and if it did not move let it rise. *)
HeapFix(s, b, i) ==
  LET d == down(s, b, i, Len(s.h))
  IN  IF d.moved THEN d.s ELSE up(d.s, b, i)

(* PriorityQueue.Init: empty slice and map; no item exists yet. *)
Init ==
  /\ heap = << >>
  /\ idx = [k \in Keys |-> -1]
  /\ inMap = {}
  /\ blk = [k \in Keys |-> CHOOSE b \in Blocks : TRUE]
  /\ val = [k \in Keys |-> CHOOSE v \in Values : TRUE]

(* minItem: the root of the heap, or nil. *)
MinItem == IF heap = << >> THEN "nil" ELSE heap[1]

(* A mutant of HasRoom: full only above maxSize. *)
HasRoomOffByOne(size) == MaxSize <= 0 \/ size <= MaxSize

(* PushItem's test for a free place. *)
HasRoom(size) == MaxSize <= 0 \/ size < MaxSize

SetState(t, b, v, m) ==
  /\ heap' = t.h /\ idx' = t.idx /\ blk' = b /\ val' = v /\ inMap' = m

(* PriorityQueue.PushItem: update a present key in place (updateItem,   *)
(* heap.Fix); else push a new Item while there is room; else pop the    *)
(* root (the highest block) and push.                                   *)
PushItem(k, v, bk) ==
  LET s    == [h |-> heap, idx |-> idx]
      size == Len(heap)
      b2   == [blk EXCEPT ![k] = bk]
      v2   == [val EXCEPT ![k] = v]
  IN  CASE size > 0 /\ k \in inMap ->
             SetState(HeapFix(s, b2, idx[k]), b2, v2, inMap)
        [] HasRoom(size) ->
             SetState(HeapPush(s, b2, k), b2, v2, inMap \cup {k})
        [] OTHER ->
             LET p == HeapPop(s, blk)
             IN  SetState(HeapPush([h |-> p.h, idx |-> p.idx], b2, k), b2, v2,
                          (inMap \ {p.top}) \cup {k})

(* PriorityQueue.PopItem and Pop: heap.Pop when not empty; on an empty  *)
(* queue they return nil and change nothing.                            *)
PopItem ==
  /\ heap # << >>
  /\ LET p == HeapPop([h |-> heap, idx |-> idx], blk)
     IN  /\ heap' = p.h /\ idx' = p.idx /\ inMap' = inMap \ {p.top}
         /\ UNCHANGED <<blk, val>>

Next == \/ \E k \in Keys, v \in Values, b \in Blocks : PushItem(k, v, b)
        \/ PopItem

Spec == Init /\ [][Next]_vars

-----------------------------------------------------------------------------
(* Every slot of the slice holds an item whose Index is that slot, and   *)
(* every other key has Index -1; the queue never exceeds maxSize.        *)
TypeOK ==
  /\ heap \in Seq(Keys)
  /\ MaxSize > 0 => Len(heap) <= MaxSize
  /\ idx \in [Keys -> -1 .. Cardinality(Keys) - 1]
  /\ inMap \subseteq Keys
  /\ blk \in [Keys -> Blocks]
  /\ val \in [Keys -> Values]

(* The heap invariant PushItem and PopItem rely on after every Swap and  *)
(* Fix: each item's Block is at most its parent's (so minItem is a       *)
(* highest block), each item's Index is its slot, and itemsMap holds     *)
(* exactly the keys in the slice, each once.  A Swap that forgot an      *)
(* Index would send a later updateItem's heap.Fix to the wrong slot.     *)
HeapIndexed ==
  /\ \A p \in 1 .. Len(heap) - 1 : blk[heap[GoHalf(p - 1) + 1]] >= blk[heap[p + 1]]
  /\ \A p \in 0 .. Len(heap) - 1 : idx[heap[p + 1]] = p
  /\ \A k \in Keys \ Range(heap) : idx[k] = -1
  /\ inMap = Range(heap) /\ Cardinality(inMap) = Len(heap)
  /\ heap # << >> => \A k \in inMap : blk[k] <= blk[MinItem]

(* The heap implements the queue of VoterQueue: the items in the slice,  *)
(* with their Value and Block, behave as a bounded map where PopItem,    *)
(* and the eviction in a full PushItem, always take a highest block.     *)
Queue == INSTANCE VoterQueue
           WITH q <- [k \in Range(heap) |-> [value |-> val[k], block |-> blk[k]]]

QueueRefined == Queue!Spec
====
