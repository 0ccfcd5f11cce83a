------------------------------- MODULE MinHeap -------------------------------
(***************************************************************************)
(* yut::base::MinHeap<T> (base/min_heap.h), the binary heap of pointers    *)
(* under TimerHeap.  A node is its address: "heap_vector_[i] <             *)
(* heap_vector_[j]" compares two pointers, not the values they point to.   *)
(*                                                                         *)
(* heap[i] is heap_vector_[i]; the nullptr in slot 0 is left out.  The     *)
(* loops of insert() and erase() are steps of their own, one per           *)
(* iteration: op tells which loop is running, cur is its cur_index, and    *)
(* nothing else happens until it is over.                                  *)
(***************************************************************************)
EXTENDS Integers, Sequences, SequencesExt

CONSTANT Nodes     \* the addresses a node can have

ASSUME NodesAssumption == Nodes \subseteq Nat

VARIABLES
  heap,      \* heap_vector_ from slot 1 on
  heapPos,   \* heapPos[v]: the heap_pos_ of node v
  op,        \* "none", or the loop that is running: "up", "down"
  cur        \* cur_index of that loop

heapVars == <<heap, heapPos, op, cur>>

HeapInit ==
  /\ heap = <<>>
  /\ heapPos = [v \in Nodes |-> -1]
  /\ op = "none"
  /\ cur = 0

Members == {heap[i] : i \in DOMAIN heap}

(* The Mut... operators are plausible bugs, used by no definition: each    *)
(* stands for the definition below it and breaks one property.  Here only  *)
(* one of two nodes is told.                                               *)
MutSwapTellsOne(i, j) ==
  /\ heap' = [heap EXCEPT ![i] = heap[j], ![j] = heap[i]]
  /\ heapPos' = [heapPos EXCEPT ![heap[i]] = j]

(* Slots i and j change places, and the two nodes are told.                *)
Swap(i, j) ==
  /\ heap' = [heap EXCEPT ![i] = heap[j], ![j] = heap[i]]
  /\ heapPos' = [heapPos EXCEPT ![heap[i]] = j, ![heap[j]] = i]

LoopEnds == op' = "none" /\ cur' = 0 /\ UNCHANGED <<heap, heapPos>>

-----------------------------------------------------------------------------
(* insert(v), up to its loop                                               *)
Insert(v) ==
  /\ op = "none"
  /\ heap' = Append(heap, v)
  /\ heapPos' = [heapPos EXCEPT ![v] = Len(heap) + 1]
  /\ op' = "up"
  /\ cur' = Len(heap) + 1

(* One iteration of the loop of insert().                                  *)
SiftUp ==
  /\ op = "up"
  /\ LET parent == cur \div 2
     IN  \/ /\ parent # 0 => heap[parent] < heap[cur]
            /\ LoopEnds
         \/ /\ parent # 0
            /\ ~ heap[parent] < heap[cur]
            /\ Swap(parent, cur)
            /\ cur' = parent
            /\ UNCHANGED op

(* erase(v), up to its loop: the last node takes the place of v.  When v   *)
(* itself is the last node, its heap_pos_ is set again, after the -1.      *)
Erase(v) ==
  /\ op = "none"
  /\ heapPos[v] >= 0
  /\ LET pos == heapPos[v]
     IN  /\ heap' = Front([heap EXCEPT ![pos] = Last(heap)])
         /\ heapPos' = [heapPos EXCEPT ![v] = -1, ![Last(heap)] = pos]
         /\ cur' = pos
  /\ op' = "down"

(* The child that erase() compares with: the right one when the node in    *)
(* slot cur + 1, which is not a child of cur unless cur = 1, is smaller    *)
(* than the node in slot cur.                                              *)
Child ==
  IF 2 * cur + 1 <= Len(heap) /\ heap[cur + 1] < heap[cur]
  THEN 2 * cur + 1
  ELSE 2 * cur

(* One iteration of the loop of erase().                                   *)
SiftDown ==
  /\ op = "down"
  /\ \/ /\ 2 * cur <= Len(heap) => heap[cur] < heap[Child]
        /\ LoopEnds
     \/ /\ 2 * cur <= Len(heap)
        /\ ~ heap[cur] < heap[Child]
        /\ Swap(cur, Child)
        /\ cur' = Child
        /\ UNCHANGED op

(* The callers insert a node that is not in the heap, and erase one that   *)
(* is: a node erased from the last slot is left with a heap_pos_ that      *)
(* looks like a member's, and must not be erased again.                    *)
HeapNext ==
  \/ \E v \in Nodes \ Members : Insert(v)
  \/ \E v \in Members : Erase(v)
  \/ SiftUp
  \/ SiftDown

HeapSpec == HeapInit /\ [][HeapNext]_heapVars

-----------------------------------------------------------------------------
HeapTypeOK ==
  /\ heap \in Seq(Nodes)
  /\ heapPos \in [Nodes -> Int]
  /\ op \in {"none", "up", "down"}
  /\ cur \in Nat
  /\ op = "up" => cur \in 1..Len(heap)
  /\ op = "down" => cur \in 1..(Len(heap) + 1)

(* A node in the heap knows its slot, even in the middle of a loop; so no  *)
(* node is in two slots, and erase() removes the node it is given.         *)
PositionsAgree == \A i \in 1..Len(heap) : heapPos[heap[i]] = i

(* The heap loses and gains exactly the node of the call, whatever the     *)
(* loops move around.                                                      *)
MembersFollowCalls ==
  [][ /\ (op = "none" /\ op' = "up")   =>
           \E v \in Nodes \ Members : Members' = Members \cup {v}
      /\ (op = "none" /\ op' = "down") =>
           \E v \in Members : heapPos[v] = cur' /\ Members' = Members \ {v}
      /\ op # "none" => Members' = Members ]_heapVars
=============================================================================
