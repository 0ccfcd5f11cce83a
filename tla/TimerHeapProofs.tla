--------------------------- MODULE TimerHeapProofs ---------------------------
(***************************************************************************)
(* The safety of MinHeap and of TimerHeap for any addresses, any requests  *)
(* and ids of any range.                                                   *)
(*                                                                         *)
(* First MinHeap alone: it keeps its nodes and their positions right, what *)
(* its callers rely on when they erase a node that is not at the top.  (Its*)
(* order is another matter: see SmallerUp.)  Then TimerHeap on top of it:  *)
(* TimerInv says that the map, the heap and the timers allocated are the   *)
(* same timers, and a step of the heap is a step of TimerService.          *)
(***************************************************************************)
EXTENDS TimerHeap, SequenceTheorems, TLAPS

HeapInv == HeapTypeOK /\ PositionsAgree

(* The slots that are left when the last one is gone.                      *)
LEMMA OneSlotLess ==
  ASSUME NEW n \in Nat
  PROVE  \A k : k \in 1..(n - 1) <=> k \in 1..n /\ k # n
  OBVIOUS

(* A node of the heap, and where it is.                                    *)
LEMMA SlotFacts ==
  ASSUME HeapInv, NEW i \in 1..Len(heap)
  PROVE  heap[i] \in Nodes /\ heapPos[heap[i]] = i /\ heap[i] \in Members
  BY DEF HeapInv, HeapTypeOK, PositionsAgree, Members

(* Exchanging two slots keeps the nodes and tells both of them.            *)
LEMMA SwapKeeps ==
  ASSUME HeapInv, NEW i \in 1..Len(heap), NEW j \in 1..Len(heap), i # j, Swap(i, j)
  PROVE  /\ heap' \in Seq(Nodes) /\ Len(heap') = Len(heap)
         /\ heapPos' \in [Nodes -> Int]
         /\ PositionsAgree'
         /\ Members' = Members
<1>1. heap \in Seq(Nodes) /\ Len(heap) \in Nat /\ heapPos \in [Nodes -> Int]
  BY DEF HeapInv, HeapTypeOK
<1>2. heap[i] \in Nodes /\ heap[j] \in Nodes /\ heap[i] # heap[j]
  BY SlotFacts
<1>3. heap' = [heap EXCEPT ![i] = heap[j], ![j] = heap[i]]
  BY DEF Swap
<1>4. /\ heap' \in Seq(Nodes) /\ Len(heap') = Len(heap) /\ DOMAIN heap' = 1..Len(heap)
      /\ DOMAIN heap = 1..Len(heap)
  BY <1>1, <1>2, <1>3
<1>5. \A k \in 1..Len(heap) :
        heap'[k] = IF k = i THEN heap[j] ELSE IF k = j THEN heap[i] ELSE heap[k]
  BY <1>1, <1>3
<1>6. heapPos' = [heapPos EXCEPT ![heap[i]] = j, ![heap[j]] = i]
  BY DEF Swap
<1>7. heapPos' \in [Nodes -> Int]
  BY <1>1, <1>2, <1>6
<1>8. PositionsAgree'
  <2> SUFFICES ASSUME NEW k \in 1..Len(heap) PROVE heapPos'[heap'[k]] = k
    BY <1>4 DEF PositionsAgree
  <2>1. heap[k] \in Nodes /\ heapPos[heap[k]] = k /\ heapPos[heap[i]] = i /\ heapPos[heap[j]] = j
    BY SlotFacts
  <2> QED
    BY <1>1, <1>2, <1>5, <1>6, <2>1
<1>9. Members' = Members
  BY <1>4, <1>5 DEF Members
<1> QED
  BY <1>4, <1>7, <1>8, <1>9

-----------------------------------------------------------------------------
(* insert(v): v joins the nodes, in the last slot.                         *)
LEMMA InsertKeeps ==
  ASSUME HeapInv, NEW v \in Nodes \ Members, Insert(v)
  PROVE  HeapInv' /\ Members' = Members \cup {v}
<1>1. heap \in Seq(Nodes) /\ Len(heap) \in Nat /\ heapPos \in [Nodes -> Int]
  BY DEF HeapInv, HeapTypeOK
<1>2. /\ heap' \in Seq(Nodes) /\ Len(heap') = Len(heap) + 1
      /\ \A k \in 1..Len(heap) : heap'[k] = heap[k]
      /\ heap'[Len(heap) + 1] = v
      /\ DOMAIN heap = 1..Len(heap) /\ DOMAIN heap' = 1..(Len(heap) + 1)
  BY <1>1 DEF Insert
<1>3. heapPos' = [heapPos EXCEPT ![v] = Len(heap) + 1]
  BY DEF Insert
<1>4. HeapTypeOK'
  BY <1>1, <1>2, <1>3 DEF Insert, HeapTypeOK
<1>5. PositionsAgree'
  <2> SUFFICES ASSUME NEW k \in 1..(Len(heap) + 1) PROVE heapPos'[heap'[k]] = k
    BY <1>2 DEF PositionsAgree
  <2>1. CASE k \in 1..Len(heap)
    <3>1. heap[k] \in Nodes /\ heapPos[heap[k]] = k /\ heap[k] # v
      BY <2>1, SlotFacts
    <3> QED
      BY <1>1, <1>2, <1>3, <2>1, <3>1
  <2>2. CASE k = Len(heap) + 1
    BY <1>1, <1>2, <1>3, <2>2
  <2> QED
    BY <1>1, <2>1, <2>2
<1>6. Members' = Members \cup {v}
  <2>1. \A k \in 1..(Len(heap) + 1) : k \in 1..Len(heap) \/ k = Len(heap) + 1
    BY <1>1
  <2>2. 1..Len(heap) \subseteq 1..(Len(heap) + 1) /\ Len(heap) + 1 \in 1..(Len(heap) + 1)
    BY <1>1
  <2> QED
    BY <1>2, <2>1, <2>2 DEF Members
<1> QED
  BY <1>4, <1>5, <1>6 DEF HeapInv

(* erase(v): v leaves the nodes, and the last node takes its slot.         *)
LEMMA EraseKeeps ==
  ASSUME HeapInv, NEW v \in Members, Erase(v)
  PROVE  HeapInv' /\ Members' = Members \ {v} /\ cur' = heapPos[v]
<1> DEFINE n == Len(heap)
           pos == heapPos[v]
<1>1. heap \in Seq(Nodes) /\ n \in Nat /\ heapPos \in [Nodes -> Int] /\ DOMAIN heap = 1..n
  BY DEF HeapInv, HeapTypeOK
<1>2. pos \in 1..n /\ heap[pos] = v /\ v \in Nodes /\ n > 0 /\ n \in 1..n
  BY <1>1, SlotFacts DEF Members
<1>3. Last(heap) = heap[n] /\ heap[n] \in Nodes /\ heapPos[heap[n]] = n
  BY <1>1, <1>2, SlotFacts DEF Last
<1> DEFINE moved == [heap EXCEPT ![pos] = heap[n]]
<1>4. moved \in Seq(Nodes) /\ Len(moved) = n /\ moved # <<>>
  BY <1>1, <1>2, <1>3
<1>5. heap' = SubSeq(moved, 1, n - 1)
  BY <1>3, <1>4 DEF Erase, Front
<1>6. /\ heap' \in Seq(Nodes) /\ Len(heap') = n - 1 /\ DOMAIN heap' = 1..(n - 1)
      /\ \A k \in 1..(n - 1) : heap'[k] = IF k = pos THEN heap[n] ELSE heap[k]
  BY <1>1, <1>2, <1>4, <1>5
<1>7. heapPos' = [heapPos EXCEPT ![v] = -1, ![heap[n]] = pos]
  BY <1>3 DEF Erase
<1>8. HeapTypeOK'
  <2>1. heapPos' \in [Nodes -> Int]
    BY <1>1, <1>2, <1>3, <1>7
  <2>2. cur' \in 1..(Len(heap') + 1) /\ op' = "down"
    BY <1>1, <1>2, <1>6 DEF Erase
  <2> QED
    BY <1>1, <1>6, <2>1, <2>2 DEF HeapTypeOK
<1>9. PositionsAgree'
  <2> SUFFICES ASSUME NEW k \in 1..(n - 1) PROVE heapPos'[heap'[k]] = k
    BY <1>6 DEF PositionsAgree
  <2>1. k \in 1..n /\ k # n
    BY <1>1, OneSlotLess
  <2>2. heap[k] \in Nodes /\ heapPos[heap[k]] = k /\ heap[k] # heap[n]
    BY <1>3, <2>1, SlotFacts
  <2>3. CASE k = pos
    BY <1>1, <1>3, <1>6, <1>7, <2>3
  <2>4. CASE k # pos
    <3>1. heap[k] # v
      BY <2>2, <2>4
    <3> QED
      BY <1>1, <1>2, <1>3, <1>6, <1>7, <2>2, <2>4, <3>1
  <2> QED
    BY <2>3, <2>4
<1>10. Members' = Members \ {v}
  <2>1. ASSUME NEW k \in 1..(n - 1) PROVE heap'[k] \in Members \ {v}
    <3>1. k \in 1..n /\ k # n
      BY <1>1, OneSlotLess
    <3>2. CASE k = pos
      <4>1. heap'[k] = heap[n] /\ heap[n] \in Members
        BY <1>2, <1>6, <3>2, SlotFacts
      <4>2. heap[n] # v
        BY <1>3, <3>1, <3>2
      <4> QED
        BY <4>1, <4>2
    <3>3. CASE k # pos
      <4>1. heap'[k] = heap[k] /\ heap[k] \in Members /\ heapPos[heap[k]] = k
        BY <1>6, <3>1, <3>3, SlotFacts
      <4> QED
        BY <3>3, <4>1
    <3> QED
      BY <3>2, <3>3
  <2>2. ASSUME NEW w \in Members, w # v PROVE \E k \in 1..(n - 1) : heap'[k] = w
    <3>1. PICK k \in 1..n : heap[k] = w
      BY <1>1, <2>2 DEF Members
    <3>2. k # pos
      BY <1>2, <2>2, <3>1
    <3>3. CASE k = n
      <4>1. pos \in 1..(n - 1)
        BY <1>1, <1>2, <3>2, <3>3
      <4> QED
        BY <1>6, <3>1, <3>3, <4>1
    <3>4. CASE k # n
      <4>1. k \in 1..(n - 1)
        BY <1>1, <3>4, OneSlotLess
      <4> QED
        BY <1>6, <3>1, <3>2, <4>1
    <3> QED
      BY <3>3, <3>4
  <2>3. Members' = {heap'[k] : k \in 1..(n - 1)}
    BY <1>6 DEF Members
  <2> QED
    BY <2>1, <2>2, <2>3
<1> QED
  BY <1>8, <1>9, <1>10 DEF HeapInv, Erase

(* An iteration of the loop of insert().                                   *)
LEMMA SiftUpKeeps ==
  ASSUME HeapInv, SiftUp
  PROVE  HeapInv' /\ Members' = Members
<1>1. heap \in Seq(Nodes) /\ Len(heap) \in Nat /\ cur \in 1..Len(heap)
  BY DEF HeapInv, HeapTypeOK, SiftUp
<1>2. CASE LoopEnds
  BY <1>2 DEF LoopEnds, HeapInv, HeapTypeOK, PositionsAgree, Members
<1>3. CASE cur \div 2 # 0 /\ Swap(cur \div 2, cur) /\ cur' = cur \div 2 /\ UNCHANGED op
  <2>1. cur \div 2 \in 1..Len(heap) /\ cur \div 2 # cur
    BY <1>1, <1>3, SMT
  <2>2. /\ heap' \in Seq(Nodes) /\ Len(heap') = Len(heap) /\ heapPos' \in [Nodes -> Int]
        /\ PositionsAgree' /\ Members' = Members
    BY <1>1, <1>3, <2>1, SwapKeeps
  <2>3. op' = "up" /\ cur' \in 1..Len(heap') /\ cur' \in Nat
    BY <1>3, <2>1, <2>2 DEF SiftUp
  <2> QED
    BY <2>2, <2>3 DEF HeapInv, HeapTypeOK
<1> QED
  BY <1>2, <1>3 DEF SiftUp

(* An iteration of the loop of erase().                                    *)
LEMMA SiftDownKeeps ==
  ASSUME HeapInv, SiftDown
  PROVE  HeapInv' /\ Members' = Members
<1>1. heap \in Seq(Nodes) /\ Len(heap) \in Nat /\ cur \in 1..(Len(heap) + 1)
  BY DEF HeapInv, HeapTypeOK, SiftDown
<1>2. CASE LoopEnds
  BY <1>2 DEF LoopEnds, HeapInv, HeapTypeOK, PositionsAgree, Members
<1>3. CASE 2 * cur <= Len(heap) /\ Swap(cur, Child) /\ cur' = Child /\ UNCHANGED op
  <2>1. cur \in 1..Len(heap) /\ Child \in 1..Len(heap) /\ Child # cur
    BY <1>1, <1>3 DEF Child
  <2>2. /\ heap' \in Seq(Nodes) /\ Len(heap') = Len(heap) /\ heapPos' \in [Nodes -> Int]
        /\ PositionsAgree' /\ Members' = Members
    BY <1>3, <2>1, SwapKeeps
  <2>3. op' = "down" /\ cur' \in 1..(Len(heap') + 1) /\ cur' \in Nat
    BY <1>1, <1>3, <2>1, <2>2 DEF SiftDown
  <2> QED
    BY <2>2, <2>3 DEF HeapInv, HeapTypeOK
<1> QED
  BY <1>2, <1>3 DEF SiftDown

-----------------------------------------------------------------------------
(* HeapInv is inductive.                                                   *)
LEMMA HeapInvHolds == HeapSpec => []HeapInv
<1>1. HeapInit => HeapInv
  BY DEF HeapInit, HeapInv, HeapTypeOK, PositionsAgree
<1>2. HeapInv /\ [HeapNext]_heapVars => HeapInv'
  <2> SUFFICES ASSUME HeapInv, [HeapNext]_heapVars PROVE HeapInv'
    OBVIOUS
  <2>1. ASSUME UNCHANGED heapVars PROVE HeapInv'
    BY <2>1 DEF heapVars, HeapInv, HeapTypeOK, PositionsAgree
  <2> QED
    BY <2>1, InsertKeeps, EraseKeeps, SiftUpKeeps, SiftDownKeeps DEF HeapNext
<1> QED
  BY <1>1, <1>2, PTL DEF HeapSpec

(* The heap is well-typed and its loops stay inside it                     *)
(* (min_heap.h:26-86).                                                     *)
THEOREM HeapTypeCorrect == HeapSpec => []HeapTypeOK
<1>1. HeapInv => HeapTypeOK
  BY DEF HeapInv
<1> QED
  BY <1>1, HeapInvHolds, PTL

(* Every node in the heap knows its slot, so that erase() removes the node *)
(* it is given (min_heap.h:44-47, 59-62, 80-82).                           *)
THEOREM PositionsCorrect == HeapSpec => []PositionsAgree
<1>1. HeapInv => PositionsAgree
  BY DEF HeapInv
<1> QED
  BY <1>1, HeapInvHolds, PTL

(* The heap gains and loses exactly the node of the call.                  *)
THEOREM MembersCorrect == HeapSpec => MembersFollowCalls
<1> DEFINE Follows ==
      /\ (op = "none" /\ op' = "up")   =>
           \E v \in Nodes \ Members : Members' = Members \cup {v}
      /\ (op = "none" /\ op' = "down") =>
           \E v \in Members : heapPos[v] = cur' /\ Members' = Members \ {v}
      /\ op # "none" => Members' = Members
<1>1. HeapInv /\ [HeapNext]_heapVars => [Follows]_heapVars
  <2> SUFFICES ASSUME HeapInv, HeapNext PROVE Follows
    OBVIOUS
  <2>1. ASSUME NEW v \in Nodes \ Members, Insert(v) PROVE Follows
    BY <2>1, InsertKeeps DEF Insert
  <2>2. ASSUME NEW v \in Members, Erase(v) PROVE Follows
    BY <2>2, EraseKeeps DEF Erase
  <2>3. ASSUME SiftUp \/ SiftDown PROVE Follows
    BY <2>3, SiftUpKeeps, SiftDownKeeps DEF SiftUp, SiftDown
  <2> QED
    BY <2>1, <2>2, <2>3 DEF HeapNext
<1> QED
  BY <1>1, HeapInvHolds, PTL DEF HeapSpec, MembersFollowCalls

-----------------------------------------------------------------------------
(* TimerHeap: its map, its heap and its timers.                            *)
TimerInv == TypeOK /\ PositionsAgree /\ HeapMapAgree

(* A timer is not free memory.                                             *)
LEMMA RecordIsNotFreed ==
  ASSUME NEW r \in TimerRecord
  PROVE  r # Freed
  BY DEF TimerRecord, Freed

(* What is known of a timer that is there, and of the heap it may be in.   *)
LEMMA TimerFacts ==
  ASSUME TimerInv
  PROVE  /\ HeapInv /\ Members \subseteq Live /\ NoNode \notin Nodes
         /\ \A v \in Live : v \in Nodes /\ timer[v] \in TimerRecord /\ timer[v] # Freed
         /\ \A v \in Nodes : v \notin Live <=> timer[v] = Freed
         /\ mode # "reinsert" => firing = NoNode /\ Live = Members
         /\ \A id \in DOMAIN timers : timers[id] \in Live /\ timer[timers[id]].id = id
         /\ \A v \in Live : timer[v].id \in DOMAIN timers /\ timers[timer[v].id] = v
<1>1. HeapInv
  BY DEF TimerInv, TypeOK, HeapInv
<1>2. NoNode \notin Nodes
  BY NodesAssumption DEF NoNode
<1>3. \A v \in Live : v \in Nodes /\ timer[v] \in TimerRecord /\ timer[v] # Freed
  BY DEF TimerInv, TypeOK, Live
<1>4. mode # "reinsert" => firing = NoNode
  BY DEF TimerInv, TypeOK
<1> QED
  BY <1>1, <1>2, <1>3, <1>4 DEF TimerInv, HeapMapAgree, Live

(* getId() gives an id, also where it wraps.                               *)
LEMMA NextIdsFacts ==
  ASSUME lastId \in Ids
  PROVE  NextIds \subseteq Ids
  BY MaxIdAssumption DEF NextIds, Ids

(* An int is an int, whatever was cut off.                                 *)
LEMMA AsIntFacts ==
  ASSUME NEW n \in Int
  PROVE  AsInt(n) \in Int /\ (n \in 0..(IntLimit - 1) => AsInt(n) = n)
  BY IntAssumption DEF AsInt

(* The timer that addTimer() makes.                                        *)
LEMMA NewTimerFacts ==
  ASSUME NEW id \in Ids, NEW request \in Requests, NEW now \in Int
  PROVE  /\ NewTimer(id, request, now) \in TimerRecord
         /\ NewTimer(id, request, now).id = id
<1>1. request[1] \in Int /\ request[2] \in Int
  BY RequestsAssumption
<1>2. AtLeast0(request[1]) \in Nat
  BY <1>1 DEF AtLeast0
<1> QED
  BY <1>1, <1>2 DEF NewTimer, TimerRecord

(* addTimer() puts one timer in the map and the heap, at a free address.   *)
LEMMA AddTimerKeeps ==
  ASSUME TimerInv, NEW request \in Requests, AddTimer(request)
  PROVE  TimerInv'
<1>1. /\ mode # "reinsert" /\ UNCHANGED <<clock, checkVars>>
      /\ clock \in Int
  BY DEF AddTimer, CallerRuns, TimerInv, TypeOK
<1>2. PICK id \in NextIds \ DOMAIN timers, v \in Nodes \ Live :
        /\ lastId' = id
        /\ timer' = [timer EXCEPT ![v] = NewTimer(id, request, clock)]
        /\ timers' = [i \in DOMAIN timers \cup {id} |-> IF i = id THEN v ELSE timers[i]]
        /\ Insert(v)
  BY DEF AddTimer
<1>3. id \in Ids
  BY <1>2, NextIdsFacts DEF TimerInv, TypeOK
<1> DEFINE new == NewTimer(id, request, clock)
<1>4. new \in TimerRecord /\ new # Freed /\ new.id = id
  BY <1>1, <1>3, NewTimerFacts, RecordIsNotFreed
<1> HIDE DEF new
<1>5. timer \in [Nodes -> TimerRecord \cup {Freed}] /\ Live = Members /\ firing = NoNode
  BY <1>1, TimerFacts DEF TimerInv, TypeOK
<1>6. /\ timer'[v] = new /\ \A w \in Nodes \ {v} : timer'[w] = timer[w]
      /\ timer' \in [Nodes -> TimerRecord \cup {Freed}]
  BY <1>2, <1>4, <1>5 DEF new
<1>7. /\ DOMAIN timers' = DOMAIN timers \cup {id} /\ timers'[id] = v
      /\ \A i \in DOMAIN timers : timers'[i] = timers[i]
  BY <1>2
<1>8. HeapInv' /\ Members' = Members \cup {v}
  BY <1>2, <1>5, TimerFacts, InsertKeeps
<1>9. Live' = Live \cup {v}
  BY <1>2, <1>4, <1>6 DEF Live
<1>10. TypeOK'
  BY <1>1, <1>2, <1>3, <1>6, <1>7, <1>8 DEF TimerInv, TypeOK, HeapInv, checkVars
<1>11. HeapMapAgree'
  <2>1. \A i \in DOMAIN timers' : timers'[i] \in Live' /\ timer'[timers'[i]].id = i
    BY <1>2, <1>4, <1>6, <1>7, <1>9, TimerFacts
  <2>2. \A w \in Live' : timer'[w].id \in DOMAIN timers' /\ timers'[timer'[w].id] = w
    BY <1>2, <1>4, <1>6, <1>7, <1>9, TimerFacts
  <2> QED
    BY <1>1, <1>2, <1>5, <1>8, <1>9, <2>1, <2>2, TimerFacts DEF HeapMapAgree, checkVars
<1> QED
  BY <1>8, <1>10, <1>11 DEF TimerInv, HeapInv

(* A timer of the heap leaves it, the map and the memory: removeTimer(),   *)
(* and checkTimeout() at the last call of a timer.                         *)
LEMMA ErasedTimer ==
  ASSUME TimerInv, mode # "reinsert", mode' # "reinsert", NEW v \in Live,
         Erase(v), Drop(timer[v].id), timer' = [timer EXCEPT ![v] = Freed],
         UNCHANGED firing
  PROVE  /\ HeapInv' /\ HeapMapAgree'
         /\ timer' \in [Nodes -> TimerRecord \cup {Freed}]
         /\ DOMAIN timers' \subseteq DOMAIN timers
         /\ \A i \in DOMAIN timers' : timers'[i] = timers[i]
<1>1. timer \in [Nodes -> TimerRecord \cup {Freed}] /\ Live = Members /\ firing = NoNode
  BY TimerFacts DEF TimerInv, TypeOK
<1>2. HeapInv' /\ Members' = Members \ {v}
  BY <1>1, TimerFacts, EraseKeeps
<1>3. /\ timer'[v] = Freed /\ \A w \in Nodes \ {v} : timer'[w] = timer[w]
      /\ timer' \in [Nodes -> TimerRecord \cup {Freed}]
  BY <1>1, TimerFacts
<1>4. Live' = Live \ {v}
  BY <1>3 DEF Live
<1>5. /\ DOMAIN timers' = DOMAIN timers \ {timer[v].id}
      /\ \A i \in DOMAIN timers' : timers'[i] = timers[i]
  BY DEF Drop
<1>6. \A i \in DOMAIN timers' : timers'[i] \in Live' /\ timer'[timers'[i]].id = i
  BY <1>3, <1>4, <1>5, TimerFacts
<1>7. \A w \in Live' : timer'[w].id \in DOMAIN timers' /\ timers'[timer'[w].id] = w
  BY <1>3, <1>4, <1>5, TimerFacts
<1>8. HeapMapAgree'
  BY <1>1, <1>2, <1>4, <1>6, <1>7, TimerFacts DEF HeapMapAgree
<1> QED
  BY <1>2, <1>3, <1>5, <1>8

LEMMA RemoveTimerKeeps ==
  ASSUME TimerInv, NEW id \in DOMAIN timers, RemoveTimer(id)
  PROVE  TimerInv'
<1>1. /\ mode # "reinsert" /\ UNCHANGED <<clock, lastId, checkVars>>
      /\ Erase(timers[id]) /\ Drop(id) /\ timer' = [timer EXCEPT ![timers[id]] = Freed]
  BY DEF RemoveTimer, CallerRuns
<1>2. timers[id] \in Live /\ timer[timers[id]].id = id
  BY TimerFacts
<1>3. /\ HeapInv' /\ HeapMapAgree'
      /\ timer' \in [Nodes -> TimerRecord \cup {Freed}]
      /\ DOMAIN timers' \subseteq DOMAIN timers
      /\ \A i \in DOMAIN timers' : timers'[i] = timers[i]
  BY <1>1, <1>2, ErasedTimer DEF checkVars
<1>4. TypeOK'
  BY <1>1, <1>3 DEF TimerInv, TypeOK, HeapInv, checkVars
<1> QED
  BY <1>3, <1>4 DEF TimerInv, HeapInv

(* The node at the top of the heap, when there is one.                     *)
LEMMA HeadFacts ==
  ASSUME TimerInv, mode = "check", heap # <<>>
  PROVE  /\ Head(heap) \in Members /\ Head(heap) \in Live /\ Head(heap) \in Nodes
         /\ timer[Head(heap)] \in TimerRecord
         /\ timer[Head(heap)].id \in DOMAIN timers /\ timer[Head(heap)].id \in Ids
         /\ timers[timer[Head(heap)].id] = Head(heap)
<1>1. Head(heap) \in Members
  <2>1. heap \in Seq(Nodes)
    BY DEF TimerInv, TypeOK, HeapTypeOK
  <2>2. 1 \in DOMAIN heap /\ Head(heap) = heap[1]
    BY <2>1
  <2> QED
    BY <2>2 DEF Members
<1>2. Head(heap) \in Live
  BY <1>1, TimerFacts
<1> QED
  BY <1>1, <1>2, TimerFacts DEF TimerRecord

LEMMA FireLastKeeps ==
  ASSUME TimerInv, FireLast
  PROVE  TimerInv'
<1> DEFINE v == Head(heap)
<1>1. /\ mode = "check" /\ heap # <<>> /\ mode' = "callback"
      /\ UNCHANGED <<clock, lastId, checkNow, firing>> /\ callId' = timer[v].id
      /\ Erase(v) /\ Drop(timer[v].id) /\ timer' = [timer EXCEPT ![v] = Freed]
  BY DEF FireLast
<1>2. v \in Live /\ timer[v].id \in Ids
  BY <1>1, HeadFacts
<1> HIDE DEF v
<1>3. /\ HeapInv' /\ HeapMapAgree'
      /\ timer' \in [Nodes -> TimerRecord \cup {Freed}]
      /\ DOMAIN timers' \subseteq DOMAIN timers
      /\ \A i \in DOMAIN timers' : timers'[i] = timers[i]
  BY <1>1, <1>2, ErasedTimer
<1>4. TypeOK'
  BY <1>1, <1>2, <1>3 DEF TimerInv, TypeOK, HeapInv
<1> QED
  BY <1>3, <1>4 DEF TimerInv, HeapInv

(* What checkTimeout() changes in a timer that stays.                      *)
Again(r) ==
  [r EXCEPT !.callTimes = IF @ > 0 THEN @ - 1 ELSE @,
            !.deadline = @ + AsInt(r.timeout)]

LEMMA FireAgainEffect ==
  ASSUME TimerInv, FireAgain
  PROVE  /\ timer' = [timer EXCEPT ![Head(heap)] = Again(timer[Head(heap)])]
         /\ Again(timer[Head(heap)]) \in TimerRecord
         /\ Again(timer[Head(heap)]).id = timer[Head(heap)].id
<1> DEFINE v == Head(heap)
           r == timer[v]
<1>1. /\ mode = "check" /\ heap # <<>>
      /\ timer' = [timer EXCEPT ![v].callTimes = IF @ > 0 THEN @ - 1 ELSE @,
                                ![v].deadline = @ + AsInt(timer[v].timeout)]
  BY DEF FireAgain
<1>2. v \in Nodes /\ r \in TimerRecord /\ timer \in [Nodes -> TimerRecord \cup {Freed}]
  BY <1>1, HeadFacts DEF TimerInv, TypeOK
<1> HIDE DEF v
<1>3. timer' = [timer EXCEPT ![v] = Again(r)]
  BY <1>1, <1>2 DEF Again, TimerRecord
<1> HIDE DEF r
<1>4. Again(r) \in TimerRecord /\ Again(r).id = r.id
  <2>1. r.timeout \in Int /\ AsInt(r.timeout) \in Int
    BY <1>2, AsIntFacts DEF TimerRecord
  <2>2. /\ r.id \in Ids /\ r.deadline \in Int /\ r.timeout \in Nat /\ r.callTimes \in Int
        /\ r = [id |-> r.id, deadline |-> r.deadline, timeout |-> r.timeout,
               callTimes |-> r.callTimes]
    BY <1>2 DEF TimerRecord
  <2> DEFINE calls == IF r.callTimes > 0 THEN r.callTimes - 1 ELSE r.callTimes
             deadline == r.deadline + AsInt(r.timeout)
  <2>3. calls \in Int /\ deadline \in Int
    BY <2>1, <2>2
  <2>4. Again(r) = [r EXCEPT !.callTimes = calls, !.deadline = deadline]
    BY DEF Again
  <2> HIDE DEF calls, deadline
  <2>5. Again(r) = [id |-> r.id, deadline |-> deadline, timeout |-> r.timeout,
                    callTimes |-> calls]
    BY <2>2, <2>4
  <2> QED
    BY <2>2, <2>3, <2>5 DEF TimerRecord
<1> QED
  BY <1>3, <1>4 DEF v, r

LEMMA FireAgainKeeps ==
  ASSUME TimerInv, FireAgain
  PROVE  TimerInv'
<1> DEFINE v == Head(heap)
<1>1. /\ mode = "check" /\ heap # <<>> /\ mode' = "reinsert" /\ firing' = v
      /\ UNCHANGED <<clock, lastId, timers, checkNow>> /\ callId' = timer[v].id
      /\ Erase(v)
  BY DEF FireAgain
<1>2. v \in Live /\ v \in Members /\ v \in Nodes /\ timer[v].id \in Ids
  BY <1>1, HeadFacts
<1>3. /\ timer' = [timer EXCEPT ![v] = Again(timer[v])]
      /\ Again(timer[v]) \in TimerRecord /\ Again(timer[v]) # Freed
      /\ Again(timer[v]).id = timer[v].id
  BY FireAgainEffect, RecordIsNotFreed
<1> HIDE DEF v
<1>4. timer \in [Nodes -> TimerRecord \cup {Freed}] /\ Live = Members /\ firing = NoNode
  BY <1>1, TimerFacts DEF TimerInv, TypeOK
<1>5. HeapInv' /\ Members' = Members \ {v}
  BY <1>1, <1>2, TimerFacts, EraseKeeps
<1>6. /\ timer' \in [Nodes -> TimerRecord \cup {Freed}]
      /\ timer'[v] \in TimerRecord /\ timer'[v] # Freed /\ timer'[v].id = timer[v].id
      /\ \A w \in Nodes \ {v} : timer'[w] = timer[w]
  BY <1>2, <1>3, <1>4
<1>7. Live' = Live /\ \A w \in Live : timer'[w].id = timer[w].id
  BY <1>2, <1>6 DEF Live
<1>8. TypeOK'
  BY <1>1, <1>2, <1>5, <1>6, TimerFacts DEF TimerInv, TypeOK, HeapInv
<1>9. HeapMapAgree'
  BY <1>1, <1>2, <1>4, <1>5, <1>7, TimerFacts DEF HeapMapAgree
<1> QED
  BY <1>5, <1>8, <1>9 DEF TimerInv, HeapInv

LEMMA ReinsertKeeps ==
  ASSUME TimerInv, Reinsert
  PROVE  TimerInv'
<1>1. /\ mode = "reinsert" /\ Insert(firing) /\ firing' = NoNode /\ mode' = "callback"
      /\ UNCHANGED <<clock, lastId, timers, timer, checkNow, callId>>
  BY DEF Reinsert
<1>2. firing \in Nodes \ Members /\ Live = Members \cup {firing}
  BY <1>1 DEF TimerInv, TypeOK, HeapMapAgree
<1>3. HeapInv' /\ Members' = Members \cup {firing}
  BY <1>1, <1>2, TimerFacts, InsertKeeps
<1>4. Live' = Live
  BY <1>1 DEF Live
<1>5. TypeOK'
  BY <1>1, <1>3 DEF TimerInv, TypeOK, HeapInv
<1>6. HeapMapAgree'
  <2>1. Live' = Members' \cup ({firing'} \ {NoNode}) /\ firing' \notin Members'
    BY <1>1, <1>2, <1>3, <1>4, TimerFacts
  <2> QED
    BY <1>1, <1>4, <2>1, TimerFacts DEF HeapMapAgree
<1> QED
  BY <1>3, <1>5, <1>6 DEF TimerInv, HeapInv

LEMMA DestroyKeeps ==
  ASSUME TimerInv, Destroy
  PROVE  TimerInv'
<1>1. /\ mode = "idle" /\ op = "none" /\ mode' = "gone" /\ heap' = <<>>
      /\ timers' = [id \in {} |-> NoNode]
      /\ timer' = [v \in Nodes |-> IF \E id \in DOMAIN timers : timers[id] = v
                                   THEN Freed ELSE timer[v]]
      /\ UNCHANGED <<heapPos, op, cur, clock, lastId, checkNow, firing, callId>>
  BY DEF Destroy
<1>2. timer \in [Nodes -> TimerRecord \cup {Freed}]
  BY DEF TimerInv, TypeOK
<1>3. timer' \in [Nodes -> TimerRecord \cup {Freed}]
  BY <1>1, <1>2
<1>4. Live' = {}
  <2> SUFFICES ASSUME NEW v \in Nodes PROVE timer'[v] = Freed
    BY DEF Live
  <2>1. CASE v \in Live
    BY <1>1, <2>1, TimerFacts
  <2>2. CASE v \notin Live
    BY <1>1, <2>2, TimerFacts
  <2> QED
    BY <2>1, <2>2
<1>5. HeapInv' /\ Members' = {}
  <2>1. HeapTypeOK' /\ Len(heap') = 0 /\ DOMAIN heap' = {}
    BY <1>1 DEF TimerInv, TypeOK, HeapTypeOK
  <2> QED
    BY <2>1 DEF HeapInv, PositionsAgree, Members
<1>6. TypeOK'
  BY <1>1, <1>3, <1>5 DEF TimerInv, TypeOK, HeapInv
<1>7. HeapMapAgree'
  BY <1>1, <1>4, <1>5, TimerFacts DEF HeapMapAgree
<1> QED
  BY <1>5, <1>6, <1>7 DEF TimerInv, HeapInv

(* An iteration of a loop of the heap: the timers stay as they are.        *)
LEMMA HeapLoopKeeps ==
  ASSUME TimerInv, HeapLoop
  PROVE  TimerInv'
<1>1. UNCHANGED timerVars /\ (SiftUp \/ SiftDown)
  BY DEF HeapLoop
<1>2. HeapInv' /\ Members' = Members
  BY <1>1, TimerFacts, SiftUpKeeps, SiftDownKeeps
<1>3. Live' = Live
  BY <1>1 DEF timerVars, Live
<1>4. TypeOK'
  BY <1>1, <1>2 DEF TimerInv, TypeOK, HeapInv, timerVars, checkVars
<1>5. HeapMapAgree'
  BY <1>1, <1>2, <1>3 DEF TimerInv, HeapMapAgree, timerVars, checkVars
<1> QED
  BY <1>2, <1>4, <1>5 DEF TimerInv, HeapInv

(* The steps that leave the map, the heap and the timers alone.            *)
LEMMA OtherStepsKeep ==
  ASSUME TimerInv,
         \/ AddTimerFails \/ CheckTimeout \/ CheckReturns \/ CallbackBegins
         \/ CallbackReturns \/ ClockMoves \/ UNCHANGED vars
  PROVE  TimerInv'
<1>1. UNCHANGED <<heapVars, timers, timer, firing>>
  BY DEF AddTimerFails, CheckTimeout, CheckReturns, CallbackBegins, CallbackReturns,
         ClockMoves, vars, timerVars, checkVars
<1>2. HeapTypeOK' /\ PositionsAgree' /\ Members' = Members /\ Live' = Live
  BY <1>1 DEF TimerInv, TypeOK, HeapTypeOK, PositionsAgree, Members, Live, heapVars
<1>3. HeapMapAgree'
  BY <1>1, <1>2 DEF TimerInv, HeapMapAgree
<1>4. /\ clock' \in 0..MaxTime /\ checkNow' \in 0..MaxTime
      /\ lastId' \in Ids
  BY NextIdsFacts DEF AddTimerFails, CheckTimeout, CheckReturns, CallbackBegins,
     CallbackReturns, ClockMoves, vars, timerVars, checkVars, TimerInv, TypeOK
<1>5. /\ mode' \in {"idle", "check", "reinsert", "callback", "inCallback", "gone"}
      /\ mode' = "reinsert" <=> mode = "reinsert"
      /\ callId' \in Ids \cup {NoId}
  BY DEF AddTimerFails, CheckTimeout, CheckReturns, CallbackBegins, CallbackReturns,
         ClockMoves, vars, timerVars, checkVars, TimerInv, TypeOK
<1>6. TypeOK'
  BY <1>1, <1>2, <1>4, <1>5 DEF TimerInv, TypeOK
<1> QED
  BY <1>2, <1>3, <1>6 DEF TimerInv

(* TimerInv holds in every reachable state.                                *)
LEMMA TimerInvPreserved == TimerInv /\ [Next]_vars => TimerInv'
  BY AddTimerKeeps, RemoveTimerKeeps, FireLastKeeps, FireAgainKeeps, ReinsertKeeps,
     DestroyKeeps, HeapLoopKeeps, OtherStepsKeep DEF Next, CheckStep

(* It starts with no timer at all.                                         *)
LEMMA InitTimerInv == Init => TimerInv
<1> SUFFICES ASSUME Init PROVE TimerInv
  OBVIOUS
<1>1. HeapTypeOK /\ PositionsAgree /\ Members = {}
  BY DEF Init, HeapInit, HeapTypeOK, PositionsAgree, Members
<1>2. NoNode \notin Nodes /\ Live = {} /\ timer = [v \in Nodes |-> Freed]
  BY NodesAssumption DEF Init, NoNode, Live
<1>3. TypeOK
  BY <1>1, <1>2, MaxIdAssumption, TimeAssumption DEF Init, TypeOK, Ids
<1>4. HeapMapAgree
  BY <1>1, <1>2 DEF Init, HeapMapAgree
<1> QED
  BY <1>1, <1>3, <1>4 DEF TimerInv

(* Every reachable state satisfies it.                                     *)
LEMMA TimerInvHolds == Spec => []TimerInv
  BY InitTimerInv, TimerInvPreserved, PTL DEF Spec

(* A timer heap is well typed whatever its callbacks do: a timer is out of *)
(* the heap only between its erase() and its insert() in checkTimeout()    *)
(* (timer_heap.cc:92-201).                                                 *)
THEOREM TimerTypeCorrect == Spec => []TypeOK
<1>1. TimerInv => TypeOK
  BY DEF TimerInv
<1> QED
  BY <1>1, TimerInvHolds, PTL

(* The map, the heap and the memory agree on the timers there are: none    *)
(* leaks, none is used or freed after its delete, however callbacks add    *)
(* and remove timers and the ids wrap (timer_heap.cc:123-201).             *)
THEOREM HeapMapCorrect == Spec => []HeapMapAgree
<1>1. TimerInv => HeapMapAgree
  BY DEF TimerInv
<1> QED
  BY <1>1, TimerInvHolds, PTL

(* Inside a timer heap too every node knows its slot, so that the erase()  *)
(* of a timer in the middle of the heap removes that timer                 *)
(* (min_heap.h:53-86 as timer_heap.cc:148-201 calls it).                   *)
THEOREM HeapPositionsCorrect == Spec => []PositionsAgree
<1>1. TimerInv => PositionsAgree
  BY DEF TimerInv
<1> QED
  BY <1>1, TimerInvHolds, PTL

-----------------------------------------------------------------------------
(* TimerHeap implements TimerService.                                      *)

(* What the service knows of a timer, of all timers, and of checkTimeout().*)
Entry(r) ==
  [deadline |-> r.deadline, timeout |-> r.timeout, left |-> AtLeast0(r.callTimes)]
PendingTimers == [id \in DOMAIN timers |-> Entry(timer[timers[id]])]
ServicePhase  == IF mode \in {"reinsert", "inCallback"} THEN "callback" ELSE mode
ServiceTime   == IF mode \in {"idle", "gone"} THEN 0 ELSE checkNow

serviceState == <<clock, PendingTimers, ServicePhase, ServiceTime, callId>>

(* The timeouts asked for are ints, so that the timeouts kept are.         *)
PeriodsFit  == \A request \in Requests : request[1] < IntLimit
PeriodsKept == \A v \in Live : timer[v].timeout < IntLimit

(* addTimer() adds to the service.                                         *)
LEMMA AddTimerServes ==
  ASSUME TimerInv, NEW request \in Requests, AddTimer(request)
  PROVE  \E id \in Ids : Service!ServiceAdd(id, request)
<1>1. /\ mode \in {"idle", "inCallback"} /\ UNCHANGED <<clock, checkNow, mode, callId>>
  BY DEF AddTimer, CallerRuns, checkVars
<1>2. PICK id \in NextIds \ DOMAIN timers, v \in Nodes \ Live :
        /\ timer' = [timer EXCEPT ![v] = NewTimer(id, request, clock)]
        /\ timers' = [i \in DOMAIN timers \cup {id} |-> IF i = id THEN v ELSE timers[i]]
  BY DEF AddTimer
<1>3. id \in Ids
  BY <1>2, NextIdsFacts DEF TimerInv, TypeOK
<1> DEFINE new == NewTimer(id, request, clock)
<1>4. Entry(new) = [deadline |-> Plus(clock, AtLeast0(request[1])),
                    timeout  |-> AtLeast0(request[1]),
                    left     |-> AtLeast0(request[2])]
  BY DEF Entry, NewTimer, Plus
<1> HIDE DEF new
<1>5. /\ timer'[v] = new
      /\ \A i \in DOMAIN timers : timer'[timers[i]] = timer[timers[i]]
  BY <1>2, TimerFacts DEF TimerInv, TypeOK, new
<1>6. PendingTimers' = [i \in DOMAIN PendingTimers \cup {id} |->
                          IF i # id THEN PendingTimers[i] ELSE Entry(new)]
  BY <1>2, <1>5 DEF PendingTimers
<1>7. /\ ServicePhase \in {"idle", "callback"} /\ id \notin DOMAIN PendingTimers
      /\ UNCHANGED <<clock, ServicePhase, ServiceTime, callId>>
  BY <1>1, <1>2 DEF ServicePhase, ServiceTime, PendingTimers
<1>8. Service!ServiceAdd(id, request)
  BY <1>3, <1>4, <1>6, <1>7
     DEF Service!ServiceAdd, Service!AtLeast0, AtLeast0, PendingTimers, Entry,
         ServicePhase, ServiceTime
<1> QED
  BY <1>3, <1>8

(* A timer dropped from the map is dropped from the service.               *)
LEMMA DropServes ==
  ASSUME TimerInv, NEW id \in DOMAIN timers, Drop(id),
         timer' = [timer EXCEPT ![timers[id]] = Freed]
  PROVE  PendingTimers' = [i \in DOMAIN PendingTimers \ {id} |-> PendingTimers[i]]
<1>1. /\ DOMAIN timers' = DOMAIN timers \ {id}
      /\ \A i \in DOMAIN timers' : timers'[i] = timers[i]
  BY DEF Drop
<1>2. \A i \in DOMAIN timers' : timers[i] # timers[id] /\ timers[i] \in Nodes
  BY <1>1, TimerFacts
<1>3. \A i \in DOMAIN timers' : timer'[timers'[i]] = timer[timers[i]]
  BY <1>1, <1>2 DEF TimerInv, TypeOK
<1> QED
  BY <1>1, <1>3 DEF PendingTimers

(* removeTimer() removes from the service.                                 *)
LEMMA RemoveTimerServes ==
  ASSUME TimerInv, NEW id \in DOMAIN timers, RemoveTimer(id)
  PROVE  id \in DOMAIN PendingTimers /\ Service!ServiceRemove(id)
<1>1. /\ mode \in {"idle", "inCallback"} /\ UNCHANGED <<clock, checkNow, mode, callId>>
      /\ Drop(id) /\ timer' = [timer EXCEPT ![timers[id]] = Freed]
  BY DEF RemoveTimer, CallerRuns, checkVars
<1>2. PendingTimers' = [i \in DOMAIN PendingTimers \ {id} |-> PendingTimers[i]]
  BY <1>1, DropServes
<1>3. /\ ServicePhase \in {"idle", "callback"} /\ id \in DOMAIN PendingTimers
      /\ UNCHANGED <<clock, ServicePhase, ServiceTime, callId>>
  BY <1>1 DEF ServicePhase, ServiceTime, PendingTimers
<1> QED
  BY <1>2, <1>3
     DEF Service!ServiceRemove, Service!Without, PendingTimers, Entry,
         ServicePhase, ServiceTime

(* A check ends with nothing pending or something not due.                 *)
LEMMA CheckReturnsServes ==
  ASSUME TimerInv, CheckReturns
  PROVE  Service!ServiceCheckEnds
<1>1. /\ mode = "check" /\ mode' = "idle"
      /\ heap # <<>> => ~ Due(Head(heap))
      /\ UNCHANGED <<heapVars, clock, timers, timer, callId>>
  BY DEF CheckReturns
<1>2. /\ ServicePhase = "check" /\ ServicePhase' = "idle" /\ ServiceTime' = 0
      /\ ServiceTime = checkNow /\ UNCHANGED <<clock, PendingTimers, callId>>
  BY <1>1 DEF ServicePhase, ServiceTime, PendingTimers
<1>3. \/ DOMAIN PendingTimers = {}
      \/ \E id \in DOMAIN PendingTimers : ~ NotAfter(PendingTimers[id].deadline, checkNow)
  <2>1. CASE heap = <<>>
    <3>1. Live = {}
      BY <1>1, <2>1, TimerFacts DEF Members
    <3> QED
      BY <3>1, TimerFacts DEF PendingTimers
  <2>2. CASE heap # <<>>
    <3> DEFINE id == timer[Head(heap)].id
    <3>1. id \in DOMAIN timers /\ timers[id] = Head(heap)
      BY <1>1, <2>2, HeadFacts
    <3>2. PendingTimers[id].deadline = timer[Head(heap)].deadline
      BY <3>1 DEF PendingTimers, Entry
    <3> QED
      BY <1>1, <2>2, <3>1, <3>2 DEF Due, NotAfter, PendingTimers
  <2> QED
    BY <2>1, <2>2
<1> QED
  BY <1>2, <1>3
     DEF Service!ServiceCheckEnds, PendingTimers, Entry, ServicePhase, ServiceTime

(* A timer fires only when it is due, and is gone after its last call.     *)
LEMMA FireLastServes ==
  ASSUME TimerInv, FireLast
  PROVE  \E id \in DOMAIN PendingTimers : Service!ServiceFire(id)
<1> DEFINE v == Head(heap)
<1> PICK id : id = timer[v].id
  OBVIOUS
<1>1. /\ mode = "check" /\ heap # <<>> /\ Due(v) /\ mode' = "callback"
      /\ UNCHANGED <<clock, checkNow>> /\ callId' = id /\ timer[v].callTimes = 1
      /\ Drop(id) /\ timer' = [timer EXCEPT ![v] = Freed]
  BY DEF FireLast
<1>2. id \in DOMAIN timers /\ timers[id] = v
  BY <1>1, HeadFacts
<1> HIDE DEF v
<1>3. PendingTimers' = [i \in DOMAIN PendingTimers \ {id} |-> PendingTimers[i]]
  BY <1>1, <1>2, DropServes
<1>4. /\ id \in DOMAIN PendingTimers /\ PendingTimers[id].left = 1
      /\ NotAfter(PendingTimers[id].deadline, checkNow)
  BY <1>1, <1>2 DEF PendingTimers, Entry, Due, NotAfter, AtLeast0
<1>5. /\ ServicePhase = "check" /\ ServicePhase' = "callback" /\ ServiceTime = checkNow
      /\ UNCHANGED <<clock, ServiceTime>>
  BY <1>1 DEF ServicePhase, ServiceTime
<1>6. Service!ServiceFire(id)
  BY <1>1, <1>3, <1>4, <1>5
     DEF Service!ServiceFire, Service!Without, PendingTimers, Entry,
         ServicePhase, ServiceTime
<1> QED
  BY <1>4, <1>6

(* It keeps to its period otherwise, if the period is an int.              *)
LEMMA FireAgainServes ==
  ASSUME TimerInv, PeriodsKept, FireAgain
  PROVE  \E id \in DOMAIN PendingTimers : Service!ServiceFire(id)
<1> DEFINE v == Head(heap)
           r == timer[v]
<1> PICK id : id = r.id
  OBVIOUS
<1> DEFINE p == PendingTimers[id]
<1>1. /\ mode = "check" /\ heap # <<>> /\ Due(v) /\ mode' = "reinsert"
      /\ UNCHANGED <<clock, timers, checkNow>> /\ callId' = id /\ r.callTimes # 1
  BY DEF FireAgain
<1>2. /\ id \in DOMAIN timers /\ timers[id] = v /\ v \in Nodes /\ v \in Live
      /\ r \in TimerRecord
  BY <1>1, HeadFacts
<1>3. timer' = [timer EXCEPT ![v] = Again(r)]
  BY FireAgainEffect
<1>4. /\ r.timeout \in Nat /\ r.callTimes \in Int /\ r.deadline \in Int
      /\ AsInt(r.timeout) = r.timeout
  <2>1. r.timeout \in Nat /\ r.callTimes \in Int /\ r.deadline \in Int
    BY <1>2 DEF TimerRecord
  <2>2. r.timeout \in 0..(IntLimit - 1)
    BY <1>2, <2>1, IntAssumption DEF PeriodsKept
  <2> QED
    BY <2>1, <2>2, AsIntFacts
<1>5. p = Entry(r) /\ id \in DOMAIN PendingTimers
  BY <1>2 DEF PendingTimers
<1> HIDE DEF v, r, p
<1>6. /\ p.left # 1
      /\ Entry(Again(r)) = [deadline |-> Plus(p.deadline, p.timeout),
                            timeout  |-> p.timeout,
                            left     |-> IF p.left = 0 THEN p.left ELSE p.left - 1]
  <2>1. /\ Again(r).callTimes = (IF r.callTimes > 0 THEN r.callTimes - 1 ELSE r.callTimes)
        /\ Again(r).deadline = r.deadline + AsInt(r.timeout)
        /\ Again(r).timeout = r.timeout
    BY <1>2 DEF Again, TimerRecord
  <2>2. /\ p.left = AtLeast0(r.callTimes) /\ p.deadline = r.deadline /\ p.timeout = r.timeout
    BY <1>5 DEF Entry
  <2>3. /\ p.left # 1
        /\ AtLeast0(Again(r).callTimes) = IF p.left = 0 THEN p.left ELSE p.left - 1
    BY <1>1, <1>4, <2>1, <2>2 DEF AtLeast0
  <2> QED
    BY <1>4, <2>1, <2>2, <2>3 DEF Entry, Plus
<1>7. PendingTimers' = [PendingTimers EXCEPT ![id] = Entry(Again(r))]
  <2>1. \A i \in DOMAIN timers : timers[i] \in Nodes /\ (timers[i] = v <=> i = id)
    BY <1>2, TimerFacts
  <2>2. timer'[v] = Again(r) /\ \A w \in Nodes \ {v} : timer'[w] = timer[w]
    BY <1>2, <1>3 DEF TimerInv, TypeOK
  <2> QED
    BY <1>1, <1>2, <2>1, <2>2 DEF PendingTimers
<1>8. PendingTimers' =
        [PendingTimers EXCEPT ![id].deadline = Plus(@, p.timeout),
                              ![id].left = IF @ = 0 THEN @ ELSE @ - 1]
  BY <1>5, <1>6, <1>7 DEF p, Entry
<1>9. NotAfter(p.deadline, checkNow)
  BY <1>1, <1>5 DEF Due, NotAfter, Entry, r
<1>10. /\ ServicePhase = "check" /\ ServicePhase' = "callback" /\ ServiceTime = checkNow
       /\ UNCHANGED <<clock, ServiceTime>>
  BY <1>1 DEF ServicePhase, ServiceTime
<1>11. Service!ServiceFire(id)
  BY <1>1, <1>5, <1>6, <1>8, <1>9, <1>10
     DEF Service!ServiceFire, Service!Forever, p, PendingTimers, Entry,
         ServicePhase, ServiceTime
<1> QED
  BY <1>5, <1>11

(* The other steps of the heap are a step of the service each, or none.    *)
LEMMA OtherStepsServe ==
  ASSUME TimerInv,
         \/ AddTimerFails \/ CheckTimeout \/ Reinsert \/ CallbackBegins \/ CallbackReturns
         \/ HeapLoop \/ ClockMoves \/ Destroy \/ UNCHANGED vars
  PROVE  Service!ServiceNext \/ UNCHANGED serviceState
<1>1. ASSUME AddTimerFails \/ Reinsert \/ CallbackBegins \/ HeapLoop \/ UNCHANGED vars
      PROVE  UNCHANGED serviceState
  BY <1>1 DEF AddTimerFails, Reinsert, CallbackBegins, HeapLoop, vars, timerVars, checkVars,
              serviceState, PendingTimers, ServicePhase, ServiceTime
<1>2. ASSUME CheckTimeout PROVE Service!ServiceCheck
  BY <1>2 DEF CheckTimeout, Service!ServiceCheck
<1>3. ASSUME CallbackReturns PROVE Service!ServiceReturn
  BY <1>3 DEF CallbackReturns, Service!ServiceReturn
<1>4. ASSUME ClockMoves PROVE Service!ServiceClock \/ UNCHANGED serviceState
  BY <1>4 DEF ClockMoves, checkVars, Service!ServiceClock, serviceState, PendingTimers,
              ServicePhase, ServiceTime
<1>5. ASSUME Destroy PROVE Service!ServiceDestroy
  BY <1>5 DEF Destroy, Service!ServiceDestroy
<1> QED
  BY <1>1, <1>2, <1>3, <1>4, <1>5 DEF Service!ServiceNext

(* The timeouts of addTimer() stay what they are.                          *)
LEMMA PeriodsKeptPreserved ==
  ASSUME PeriodsFit, TimerInv, PeriodsKept, [Next]_vars
  PROVE  PeriodsKept'
<1>1. \A v \in Live : v \in Nodes /\ timer[v] \in TimerRecord
  BY TimerFacts
<1>2. timer \in [Nodes -> TimerRecord \cup {Freed}]
  BY DEF TimerInv, TypeOK
<1>3. ASSUME NEW request \in Requests, AddTimer(request) PROVE PeriodsKept'
  <2>1. PICK id \in NextIds \ DOMAIN timers, v \in Nodes \ Live :
          timer' = [timer EXCEPT ![v] = NewTimer(id, request, clock)]
    BY <1>3 DEF AddTimer
  <2>2. NewTimer(id, request, clock).timeout < IntLimit
    BY RequestsAssumption, IntAssumption DEF PeriodsFit, NewTimer, AtLeast0
  <2>3. \A w \in Live' : \/ w \in Live /\ timer'[w] = timer[w]
                         \/ timer'[w].timeout < IntLimit
    BY <1>2, <2>1, <2>2 DEF Live
  <2> QED
    BY <2>3 DEF PeriodsKept
<1>4. ASSUME NEW v \in Nodes, timer' = [timer EXCEPT ![v] = Freed] PROVE PeriodsKept'
  BY <1>2, <1>4 DEF PeriodsKept, Live
<1>5. ASSUME NEW id \in DOMAIN timers, RemoveTimer(id) PROVE PeriodsKept'
  BY <1>4, <1>5, TimerFacts DEF RemoveTimer
<1>6. ASSUME FireLast PROVE PeriodsKept'
  BY <1>4, <1>6, HeadFacts DEF FireLast
<1>7. ASSUME FireAgain PROVE PeriodsKept'
  <2> DEFINE v == Head(heap)
  <2>1. v \in Live /\ v \in Nodes /\ timer[v] \in TimerRecord
    BY <1>7, HeadFacts DEF FireAgain
  <2>2. timer' = [timer EXCEPT ![v] = Again(timer[v])]
    BY <1>7, FireAgainEffect
  <2> HIDE DEF v
  <2>3. Again(timer[v]).timeout = timer[v].timeout
    BY <2>1 DEF Again, TimerRecord
  <2>4. \A w \in Live' : w \in Live /\ timer'[w].timeout = timer[w].timeout
    BY <1>2, <2>1, <2>2, <2>3 DEF Live
  <2> QED
    BY <2>4 DEF PeriodsKept
<1>8. ASSUME Destroy PROVE PeriodsKept'
  <2>1. \A v \in Nodes : timer'[v] = Freed \/ timer'[v] = timer[v]
    BY <1>8 DEF Destroy
  <2> QED
    BY <2>1 DEF PeriodsKept, Live
<1>9. ASSUME UNCHANGED timer PROVE PeriodsKept'
  BY <1>9 DEF PeriodsKept, Live
<1> QED
  BY <1>3, <1>5, <1>6, <1>7, <1>8, <1>9
     DEF Next, CheckStep, AddTimerFails, CheckTimeout, CheckReturns, Reinsert,
         CallbackBegins, CallbackReturns, HeapLoop, ClockMoves, vars, timerVars

(* Every step of a timer heap is a step of the service it promises, or     *)
(* none, so that timers are called when due, as often as asked, whole      *)
(* periods apart and never after removeTimer(), if each timeout asked for  *)
(* fits in the int that getTimeout() returns (timer_heap.cc:47, 123-201).  *)
THEOREM TimerServiceCorrect ==
  ASSUME PeriodsFit
  PROVE  Spec => TimerServiceSpec
<1>1. Init => Service!ServiceInit
  BY DEF Init, Service!ServiceInit
<1>2. Init => PeriodsKept
  BY DEF Init, PeriodsKept, Live
<1>3. PeriodsKept /\ TimerInv /\ [Next]_vars => PeriodsKept'
  BY PeriodsKeptPreserved
<1>4. PeriodsKept /\ TimerInv /\ [Next]_vars => [Service!ServiceNext]_(Service!serviceVars)
  <2> SUFFICES ASSUME PeriodsKept, TimerInv, [Next]_vars
               PROVE  Service!ServiceNext \/ UNCHANGED serviceState
    BY DEF Service!serviceVars, serviceState, PendingTimers, Entry, ServicePhase, ServiceTime
  <2>1. ASSUME NEW request \in Requests, AddTimer(request) PROVE Service!ServiceNext
    BY <2>1, AddTimerServes DEF Service!ServiceNext
  <2>2. ASSUME NEW id \in DOMAIN timers, RemoveTimer(id) PROVE Service!ServiceNext
    BY <2>2, RemoveTimerServes DEF Service!ServiceNext, PendingTimers, Entry
  <2>3. ASSUME CheckReturns PROVE Service!ServiceNext
    BY <2>3, CheckReturnsServes DEF Service!ServiceNext
  <2>4. ASSUME FireLast \/ FireAgain PROVE Service!ServiceNext
    BY <2>4, FireLastServes, FireAgainServes DEF Service!ServiceNext, PendingTimers, Entry
  <2> QED
    BY <2>1, <2>2, <2>3, <2>4, OtherStepsServe DEF Next, CheckStep
<1> QED
  BY <1>1, <1>2, <1>3, <1>4, InitTimerInv, TimerInvPreserved, PTL
     DEF Spec, TimerServiceSpec, Service!ServiceSpec
=============================================================================
