-------------------------- MODULE RenderPoolProofs --------------------------
(***************************************************************************)
(* Proofs about RenderPool for every number of workers, calls, restarts    *)
(* and failures, and every limit of the queue.                             *)
(***************************************************************************)
EXTENDS RenderPool, TLAPS, FiniteSetTheorems, SequenceTheorems, WellFoundedInduction

(* Calls are numbered in the order they come in, and a worker is made for  *)
(* a call that has left the queue: what the names of workers rest on.      *)
NamesAreFresh ==
  /\ \A c \in Calls : answer[c] # "none" => c <= called
  /\ Made \subseteq 1..called
  /\ Made \cap ToSet(queue) = {}

IInv == PoolIsSound /\ NamesAreFresh

-----------------------------------------------------------------------------
(* pump hands out at most one call at a time *)

LEMMA LeastOf ==
  ASSUME NEW T \in SUBSET Nat, T # {}
  PROVE  \E x \in T : \A y \in T : x <= y
<1> DEFINE less == {s \in Nat \X Nat : s[1] < s[2]}
<1>1. IsWellFoundedOn(less, Nat)
  BY NatLessThanWellFounded DEF OpToRel
<1>2. PICK x \in T : \A y \in T : <<y, x>> \notin less
  <2> HIDE DEF less
  <2> QED
    BY <1>1, WFMin
<1>3. ASSUME NEW y \in T PROVE x <= y
  <2>1. CASE y < x
    <3>1. <<y, x>> \in less
      BY <2>1
    <3> QED
      BY <1>2, <3>1
  <2> QED
    BY <2>1
<1> QED
  BY <1>3

LEMMA TurnsCount ==
  ASSUME NEW n \in Nat, NEW F \in SUBSET (1..n), NEW k \in F
  PROVE  /\ Turn(k, F) \in Nat /\ Turn(k, F) >= 1
         /\ (\A j \in F : k <= j) => Turn(k, F) = 1
         /\ \A j \in F : j < k => Turn(k, F) >= 2
<1> DEFINE before(m) == {j \in F : j <= m}
<1>1. /\ IsFiniteSet(before(k)) /\ Cardinality(before(k)) \in Nat
      /\ \A S \in SUBSET before(k) : Cardinality(S) <= Cardinality(before(k))
  <2>1. IsFiniteSet(1..n)
    BY FS_Interval
  <2>2. before(k) \in SUBSET (1..n)
    OBVIOUS
  <2>3. IsFiniteSet(before(k))
    BY <2>1, <2>2, FS_Subset
  <2> HIDE DEF before
  <2> QED
    BY <2>3, FS_Subset, FS_CardinalityType
<1>2. {k} \in SUBSET before(k) /\ Cardinality({k}) = 1
  BY FS_Singleton
<1>3. ASSUME \A j \in F : k <= j PROVE before(k) = {k}
  <2>1. ASSUME NEW j \in before(k) PROVE j = k
    <3>1. j \in 1..n /\ k \in 1..n /\ j <= k /\ k <= j
      BY <1>3
    <3> QED
      BY <3>1
  <2> HIDE DEF before
  <2> QED
    BY <1>2, <2>1
<1>4. ASSUME NEW j \in F, j < k PROVE Cardinality(before(k)) >= 2
  <2>1. {j, k} \in SUBSET before(k)
    BY <1>4
  <2>2. Cardinality({j} \cup {k}) = 2
    <3>1. j # k
      BY <1>4
    <3>2. IsFiniteSet({j}) /\ Cardinality({j}) = 1 /\ k \notin {j}
      BY <3>1, FS_Singleton
    <3> QED
      BY <3>2, FS_AddElement
  <2>3. {j} \cup {k} = {j, k}
    OBVIOUS
  <2> HIDE DEF before
  <2> QED
    BY <1>1, <2>1, <2>2, <2>3
<1>5. Turn(k, F) = Cardinality(before(k))
  BY DEF Turn
<1> HIDE DEF before
<1> QED
  BY <1>1, <1>2, <1>3, <1>4, <1>5

(* With one free slot, or at most one call in the queue, nothing is taken  *)
(* or one slot takes the first call.                                       *)
LEMMA OneIsTaken ==
  ASSUME NEW n \in Nat, NEW F \in SUBSET (1..n), NEW m \in Nat,
         m <= 1 \/ F = {} \/ \E k \in F : F = {k}
  PROVE  LET taken == {k \in F : Turn(k, F) <= m}
         IN  \/ taken = {} /\ (F = {} \/ m = 0)
             \/ \E k \in F : taken = {k} /\ Turn(k, F) = 1 /\ (F = {k} \/ m = 1)
<1>1. \A k \in F : /\ Turn(k, F) \in Nat /\ Turn(k, F) >= 1
                   /\ (\A j \in F : k <= j) => Turn(k, F) = 1
                   /\ \A j \in F : j < k => Turn(k, F) >= 2
  BY TurnsCount
<1>2. CASE m = 0
  <2>1. ASSUME NEW k \in F PROVE ~(Turn(k, F) <= m)
    BY <1>1, <1>2
  <2> QED
    BY <1>2, <2>1
<1>3. ASSUME NEW k \in F, F = {k}, m # 0
      PROVE  {j \in F : Turn(j, F) <= m} = {k} /\ Turn(k, F) = 1
  BY <1>3, TurnsCount
<1>4. ASSUME m = 1, F # {}
      PROVE  \E k \in F : {j \in F : Turn(j, F) <= m} = {k} /\ Turn(k, F) = 1
  <2>1. PICK k \in F : \A j \in F : k <= j
    BY <1>4, LeastOf
  <2>2. Turn(k, F) = 1
    BY <1>1, <2>1
  <2>3. ASSUME NEW j \in F, Turn(j, F) <= 1 PROVE j = k
    BY <1>1, <2>1, <2>3
  <2>4. {j \in F : Turn(j, F) <= m} = {k}
    <3> DEFINE T == {j \in F : Turn(j, F) <= m}
    <3>1. k \in T /\ \A j \in T : j = k
      BY <1>4, <2>2, <2>3
    <3> HIDE DEF T
    <3>2. T = {k}
      BY <3>1
    <3> QED
      BY <3>2 DEF T
  <2> QED
    BY <2>2, <2>4
<1>5. CASE F = {}
  BY <1>5
<1>6. CASE F # {} /\ m # 0 /\ m <= 1
  <2>1. m = 1
    BY <1>6
  <2> QED
    BY <1>4, <1>6, <2>1
<1>7. CASE F # {} /\ m # 0 /\ \E k \in F : F = {k}
  BY <1>3, <1>7
<1> QED
  BY <1>2, <1>5, <1>6, <1>7

-----------------------------------------------------------------------------
(* What pump does with one free slot, or one call *)

(* Slot i after armIdle, if pump had nothing for it.                       *)
Rested(sl, i) ==
  [k \in DOMAIN sl |-> IF k = i /\ sl[k].handle # None THEN [sl[k] EXCEPT !.timer = "idle"]
                                                      ELSE sl[k]]
WorkerFor(slot, c) == IF slot.handle # None THEN slot.handle ELSE c
(* The slots and the workers after slot k has taken the first call.        *)
Given(sl, q, i, k) ==
  [Rested(sl, i) EXCEPT ![k] = Assigned(sl[k], WorkerFor(sl[k], q[1]), q[1])]
MadeFor(sl, q, k) == IF sl[k].handle = None THEN Made \cup {q[1]} ELSE Made

(* All slots, with a call or without.                                      *)
SlotLists == [1..Workers -> Slots] \cup {<<>>}

LEMMA PumpOutcome ==
  ASSUME NEW sl \in SlotLists, NEW q \in Seq(Calls), NEW live, NEW i, TypeOK,
         Len(q) <= 1 \/ FreeSlots(sl) = {} \/ \E k \in FreeSlots(sl) : FreeSlots(sl) = {k},
         Pump(sl, q, live, i)
  PROVE  /\ job' \in [Handles -> Calls \cup {None}]
         /\ \/ /\ FreeSlots(sl) = {} \/ q = <<>>
               /\ queue' = q /\ slots' = Rested(sl, i) /\ workers' = workers /\ alive' = live
            \/ \E k \in FreeSlots(sl) :
                 /\ q # <<>> /\ (FreeSlots(sl) = {k} \/ Len(q) = 1)
                 /\ queue' = Tail(q)
                 /\ slots' = Given(sl, q, i, k)
                 /\ alive' = live \cup {WorkerFor(sl[k], q[1])}
                 /\ sl[k].handle # None => workers' = workers
                 /\ sl[k].handle = None =>
                      workers' = [h \in Made \cup {q[1]} |->
                                    IF h = q[1] THEN [slot |-> k, pool |-> restarts]
                                                ELSE workers[h]]
<1> DEFINE free      == FreeSlots(sl)
           caller(T, k) == q[Turn(k, T)]
           worker(T, k) == IF sl[k].handle # None THEN sl[k].handle ELSE caller(T, k)
<1>0. PICK taken \in SUBSET free :
        /\ \A k \in free : k \in taken <=> Turn(k, free) <= Len(q)
        /\ queue' = SubSeq(q, Cardinality(taken) + 1, Len(q))
        /\ slots' = [k \in DOMAIN sl |->
                       CASE k \in taken -> Assigned(sl[k], worker(taken, k), caller(taken, k))
                         [] k \notin taken /\ k = i /\ sl[k].handle # None ->
                              [sl[k] EXCEPT !.timer = "idle"]
                         [] OTHER -> sl[k]]
        /\ LET new(h)   == {k \in taken : sl[k].handle = None /\ caller(taken, k) = h}
               given(h) == {k \in taken : worker(taken, k) = h}
           IN  /\ workers' = [h \in Made \cup {c \in Handles : new(c) # {}} |->
                               IF new(h) = {} THEN workers[h]
                               ELSE [slot |-> CHOOSE k \in new(h) : TRUE, pool |-> restarts]]
               /\ alive' = live \cup {worker(taken, k) : k \in taken}
               /\ job' = [h \in Handles |->
                            IF given(h) # {} THEN caller(taken, CHOOSE k \in given(h) : TRUE)
                            ELSE IF h \in live THEN job[h] ELSE None]
  BY DEF Pump
<1> DEFINE call(k)   == q[Turn(k, taken)]
           handle(k) == IF sl[k].handle # None THEN sl[k].handle ELSE call(k)
           new(h)    == {k \in taken : sl[k].handle = None /\ call(k) = h}
           given(h)  == {k \in taken : handle(k) = h}
           after(k)  == CASE k \in taken -> Assigned(sl[k], handle(k), call(k))
                          [] k \notin taken /\ k = i /\ sl[k].handle # None ->
                               [sl[k] EXCEPT !.timer = "idle"]
                          [] OTHER -> sl[k]
<1>1. /\ queue' = SubSeq(q, Cardinality(taken) + 1, Len(q))
      /\ slots' = [k \in DOMAIN sl |-> after(k)]
      /\ workers' = [h \in Made \cup {c \in Handles : new(c) # {}} |->
                       IF new(h) = {} THEN workers[h]
                       ELSE [slot |-> CHOOSE k \in new(h) : TRUE, pool |-> restarts]]
      /\ alive' = live \cup {handle(k) : k \in taken}
      /\ job' = [h \in Handles |->
                   IF given(h) # {} THEN call(CHOOSE k \in given(h) : TRUE)
                   ELSE IF h \in live THEN job[h] ELSE None]
  BY <1>0
<1>2. free \in SUBSET (1..Workers) /\ free \subseteq DOMAIN sl
  <2>1. DOMAIN sl \subseteq 1..Workers
    <3>1. CASE sl = <<>>
      BY <3>1
    <3>2. CASE sl \in [1..Workers -> Slots]
      BY <3>2
    <3> QED
      BY <3>1, <3>2 DEF SlotLists
  <2> QED
    BY <2>1 DEF FreeSlots
<1>3. \/ taken = {} /\ (free = {} \/ Len(q) = 0)
      \/ \E k \in free : taken = {k} /\ Turn(k, taken) = 1 /\ (free = {k} \/ Len(q) = 1)
  <2>1. Workers \in Nat /\ Len(q) \in Nat
    BY PoolAssumption DEF PoolAssumption
  <2>2. Len(q) <= 1 \/ free = {} \/ \E k \in free : free = {k}
    OBVIOUS
  <2> DEFINE first == {k \in free : Turn(k, free) <= Len(q)}
  <2>3. taken = first
    BY <1>0
  <2>4. \A k \in free : Turn(k, {k}) = 1
    <3> SUFFICES ASSUME NEW k \in free PROVE Turn(k, {k}) = 1
      OBVIOUS
    <3>1. PICK F : F = {k}
      OBVIOUS
    <3>2. F \in SUBSET (1..Workers) /\ k \in F /\ \A j \in F : k <= j
      BY <1>2, <2>1, <3>1
    <3>3. Turn(k, F) = 1
      BY <2>1, <3>2, TurnsCount
    <3> QED
      BY <3>1, <3>3
  <2> HIDE DEF free
  <2>5. \/ first = {} /\ (free = {} \/ Len(q) = 0)
        \/ \E k \in free : first = {k} /\ Turn(k, free) = 1 /\ (free = {k} \/ Len(q) = 1)
    BY <1>2, <2>1, <2>2, OneIsTaken
  <2> HIDE DEF first
  <2> QED
    BY <2>3, <2>4, <2>5
<1>4. CASE taken = {} /\ (free = {} \/ Len(q) = 0)
  <2>1. Cardinality(taken) = 0
    BY <1>4, FS_EmptySet
  <2>2. \A h : new(h) = {} /\ given(h) = {}
    BY <1>4
  <2>3. queue' = q
    <3>1. Cardinality(taken) + 1 = 1
      BY <2>1
    <3>2. queue' = SubSeq(q, 1, Len(q))
      BY <1>1, <3>1
    <3> QED
      BY <3>2, SubSeqFull
  <2>4. slots' = Rested(sl, i)
    <3>1. \A k \in DOMAIN sl : after(k) = IF k = i /\ sl[k].handle # None
                                          THEN [sl[k] EXCEPT !.timer = "idle"] ELSE sl[k]
      BY <1>4
    <3> HIDE DEF after
    <3> QED
      BY <1>1, <3>1 DEF Rested
  <2>5. workers' = workers
    <3> HIDE DEF new
    <3>1. workers' = [h \in Made |-> workers[h]]
      BY <1>1, <2>2
    <3> QED
      BY <3>1 DEF TypeOK, Made
  <2>6. alive' = live
    <3>1. {handle(k) : k \in taken} = {}
      BY <1>4
    <3> QED
      BY <1>1, <3>1
  <2>7. job' \in [Handles -> Calls \cup {None}]
    <3> HIDE DEF given
    <3> QED
      BY <1>1, <2>2 DEF TypeOK
  <2> QED
    BY <1>4, <2>3, <2>4, <2>5, <2>6, <2>7
<1>5. ASSUME NEW k \in free, taken = {k}, Turn(k, taken) = 1, free = {k} \/ Len(q) = 1
      PROVE  /\ job' \in [Handles -> Calls \cup {None}]
             /\ q # <<>> /\ (free = {k} \/ Len(q) = 1)
             /\ queue' = Tail(q)
             /\ slots' = Given(sl, q, i, k)
             /\ alive' = live \cup {WorkerFor(sl[k], q[1])}
             /\ sl[k].handle # None => workers' = workers
             /\ sl[k].handle = None =>
                  workers' = [h \in Made \cup {q[1]} |->
                                IF h = q[1] THEN [slot |-> k, pool |-> restarts]
                                            ELSE workers[h]]
  <2>1. Cardinality(taken) = 1
    BY <1>5, FS_Singleton
  <2>2. q # <<>> /\ q[1] \in Calls /\ Len(q) \in Nat /\ Len(q) >= 1
    <3>1. Turn(k, free) <= Len(q)
      BY <1>0, <1>5
    <3>2. Turn(k, free) \in Nat /\ Turn(k, free) >= 1
      <4>1. Workers \in Nat
        BY PoolAssumption DEF PoolAssumption
      <4> HIDE DEF free
      <4> QED
        BY <1>2, <4>1, TurnsCount
    <3> HIDE DEF free
    <3> QED
      BY <3>1, <3>2
  <2>3. call(k) = q[1] /\ handle(k) = WorkerFor(sl[k], q[1])
    BY <1>5 DEF WorkerFor
  <2>4. \A h : /\ new(h) = IF sl[k].handle = None /\ h = q[1] THEN {k} ELSE {}
               /\ given(h) = IF h = handle(k) THEN {k} ELSE {}
    BY <1>5, <2>3
  <2>5. queue' = Tail(q)
    <3>1. Cardinality(taken) + 1 = 2
      BY <2>1
    <3>2. queue' = SubSeq(q, 2, Len(q))
      BY <1>1, <3>1
    <3> QED
      BY <2>2, <3>2, TailIsSubSeq
  <2>6. slots' = Given(sl, q, i, k)
    <3>1. \A j \in DOMAIN sl :
            after(j) = IF j = k THEN Assigned(sl[k], WorkerFor(sl[k], q[1]), q[1])
                       ELSE IF j = i /\ sl[j].handle # None
                       THEN [sl[j] EXCEPT !.timer = "idle"] ELSE sl[j]
      BY <1>5, <2>3
    <3> HIDE DEF after
    <3> QED
      BY <1>1, <1>2, <3>1 DEF Rested, Given
  <2>7. alive' = live \cup {WorkerFor(sl[k], q[1])}
    <3>1. {handle(j) : j \in taken} = {handle(k)}
      BY <1>5
    <3> HIDE DEF handle
    <3> QED
      BY <1>1, <2>3, <3>1
  <2>8. ASSUME sl[k].handle # None PROVE workers' = workers
    <3>1. \A h : new(h) = {}
      BY <2>4, <2>8
    <3> HIDE DEF new
    <3>2. workers' = [h \in Made |-> workers[h]]
      BY <1>1, <3>1
    <3> QED
      BY <3>2 DEF TypeOK, Made
  <2>9. ASSUME sl[k].handle = None
        PROVE  workers' = [h \in Made \cup {q[1]} |->
                            IF h = q[1] THEN [slot |-> k, pool |-> restarts] ELSE workers[h]]
    <3>1. \A h : new(h) = IF h = q[1] THEN {k} ELSE {}
      BY <2>4, <2>9
    <3> HIDE DEF new
    <3>2. {c \in Handles : new(c) # {}} = {q[1]}
      BY <2>2, <3>1 DEF Handles
    <3> QED
      BY <1>1, <3>1, <3>2
  <2>10. job' \in [Handles -> Calls \cup {None}]
    <3>1. ASSUME NEW h, given(h) # {} PROVE call(CHOOSE j \in given(h) : TRUE) = q[1]
      <4>1. given(h) = {k}
        BY <2>4, <3>1
      <4> HIDE DEF given
      <4>2. (CHOOSE j \in given(h) : TRUE) = k
        BY <4>1
      <4> QED
        BY <2>3, <4>2
    <3> HIDE DEF given, call
    <3> QED
      BY <1>1, <2>2, <3>1 DEF TypeOK
  <2> HIDE DEF free, handle, call, new, given, after
  <2> QED
    BY <1>5, <2>2, <2>5, <2>6, <2>7, <2>8, <2>9, <2>10
<1>6. CASE \E k \in free : taken = {k} /\ Turn(k, taken) = 1 /\ (free = {k} \/ Len(q) = 1)
  <2> HIDE DEF handle, call, new, given, after
  <2> QED
    BY <1>5, <1>6
<1> HIDE DEF handle, call, new, given, after
<1> QED
  BY <1>3, <1>4, <1>6

-----------------------------------------------------------------------------
(* What holds when pump is called, and what it makes of it *)

Held(sl, q) == ToSet(q) \cup ({sl[k].current : k \in DOMAIN sl} \ {None})
HeldOnce(sl, q) ==
  /\ IsInjective(q)
  /\ \A k \in DOMAIN sl : sl[k].current # None => sl[k].current \notin ToSet(q)
  /\ \A j, k \in DOMAIN sl : sl[j].current # None /\ sl[j].current = sl[k].current => j = k
Staffed(sl, live) ==
  /\ live = {sl[k].handle : k \in DOMAIN sl} \ {None}
  /\ \A k \in DOMAIN sl : sl[k].current # None => sl[k].handle # None
  /\ \A j, k \in DOMAIN sl : sl[j].handle # None /\ sl[j].handle = sl[k].handle => j = k
TimerFor(slot) ==
  CASE slot.current # None -> "job"
    [] slot.current = None /\ slot.handle # None -> "idle"
    [] OTHER -> "none"

(* The pool but for the free slots that could take a call, and for the     *)
(* timer of slot i.                                                        *)
Ready(sl, q, live, i) ==
  /\ sl \in SlotLists /\ q \in Seq(Calls) /\ Len(q) <= QueueLimit
  /\ sl = <<>> => q = <<>>
  /\ Len(q) <= 1 \/ FreeSlots(sl) = {} \/ \E k \in FreeSlots(sl) : FreeSlots(sl) = {k}
  /\ HeldOnce(sl, q) /\ Staffed(sl, live) /\ live \subseteq Made
  /\ Made \cap ToSet(q) = {}
  /\ \A k \in DOMAIN sl : IF k = i THEN sl[k].current = None /\ sl[k].timer = "none"
                          ELSE sl[k].timer = TimerFor(sl[k])

(* The same with every call that could be assigned assigned.               *)
Pumped(sl, q, live, made) ==
  /\ sl \in SlotLists /\ q \in Seq(Calls) /\ Len(q) <= QueueLimit
  /\ q # <<>> => sl # <<>> /\ \A k \in DOMAIN sl : sl[k].current # None
  /\ HeldOnce(sl, q) /\ Staffed(sl, live) /\ live \subseteq made
  /\ made \cap ToSet(q) = {}
  /\ \A k \in DOMAIN sl : sl[k].timer = TimerFor(sl[k])

LEMMA SlotsAreTyped ==
  ASSUME NEW sl \in SlotLists
  PROVE  /\ DOMAIN sl \subseteq 1..Workers
         /\ \A k \in DOMAIN sl : sl[k] \in Slots
<1>1. CASE sl = <<>>
  BY <1>1
<1>2. CASE sl \in [1..Workers -> Slots]
  BY <1>2
<1> QED
  BY <1>1, <1>2 DEF SlotLists

(* No slot takes a call.                                                   *)
LEMMA RestingKeepsThePool ==
  ASSUME NEW sl, NEW q, NEW live, NEW i, Ready(sl, q, live, i), FreeSlots(sl) = {} \/ q = <<>>
  PROVE  /\ Pumped(Rested(sl, i), q, live, Made)
         /\ Held(Rested(sl, i), q) = Held(sl, q)
<1> DEFINE r == Rested(sl, i)
<1> USE DEF Ready
<1>1. /\ DOMAIN r = DOMAIN sl
      /\ \A k \in DOMAIN sl : sl[k] \in Slots
      /\ \A k \in DOMAIN sl :
           r[k] = IF k = i /\ sl[k].handle # None THEN [sl[k] EXCEPT !.timer = "idle"] ELSE sl[k]
  BY SlotsAreTyped DEF Rested
<1>2. \A k \in DOMAIN sl :
        /\ r[k] \in Slots /\ r[k].current = sl[k].current /\ r[k].handle = sl[k].handle
        /\ r[k].timer = TimerFor(r[k])
  BY <1>1 DEF Slots, TimerFor
<1>3. r \in SlotLists
  <2>1. CASE sl = <<>>
    BY <1>1, <2>1 DEF Rested, SlotLists
  <2>2. CASE sl \in [1..Workers -> Slots]
    <3>1. DOMAIN sl = 1..Workers
      BY <2>2
    <3> QED
      BY <1>2, <3>1 DEF Rested, SlotLists
  <2> QED
    BY <2>1, <2>2 DEF SlotLists
<1> HIDE DEF r
<1>4. {r[k].current : k \in DOMAIN r} = {sl[k].current : k \in DOMAIN sl}
  BY <1>1, <1>2
<1>5. {r[k].handle : k \in DOMAIN r} = {sl[k].handle : k \in DOMAIN sl}
  BY <1>1, <1>2
<1>6. HeldOnce(r, q) /\ Staffed(r, live)
  BY <1>1, <1>2, <1>5 DEF HeldOnce, Staffed
<1>7. q # <<>> => r # <<>> /\ \A k \in DOMAIN r : r[k].current # None
  <2>1. sl # <<>> => r # <<>>
    <3>1. ASSUME sl # <<>> PROVE 1 \in DOMAIN r
      BY <1>1, <3>1, PoolAssumption DEF PoolAssumption, SlotLists
    <3> QED
      BY <3>1
  <2> QED
    BY <1>1, <1>2, <2>1 DEF FreeSlots
<1>8. Pumped(r, q, live, Made)
  BY <1>1, <1>2, <1>3, <1>6, <1>7 DEF Pumped
<1>9. Held(r, q) = Held(sl, q)
  BY <1>4 DEF Held
<1> QED
  BY <1>8, <1>9 DEF r

LEMMA TheHeadIsGone ==
  ASSUME NEW S, NEW q \in Seq(S), q # <<>>, IsInjective(q)
  PROVE  /\ q[1] \in S /\ Tail(q) \in Seq(S) /\ Len(Tail(q)) = Len(q) - 1
         /\ ToSet(q) = {q[1]} \cup ToSet(Tail(q))
         /\ q[1] \notin ToSet(Tail(q)) /\ IsInjective(Tail(q))
<1>1. /\ Tail(q) \in Seq(S) /\ Len(Tail(q)) = Len(q) - 1 /\ Len(q) \in Nat /\ Len(q) >= 1
      /\ DOMAIN q = 1..Len(q) /\ DOMAIN Tail(q) = 1..(Len(q) - 1)
      /\ \A n \in 1..(Len(q) - 1) : Tail(q)[n] = q[n + 1]
  BY HeadTailProperties
<1>2. q[1] \in S /\ 1 \in DOMAIN q
  BY <1>1
<1>3. ASSUME NEW x PROVE x \in ToSet(q) <=> x = q[1] \/ x \in ToSet(Tail(q))
  <2>1. ASSUME NEW n \in DOMAIN q, n # 1 PROVE q[n] \in ToSet(Tail(q))
    <3>1. n - 1 \in DOMAIN Tail(q) /\ Tail(q)[n - 1] = q[n]
      BY <1>1, <2>1
    <3> QED
      BY <3>1 DEF ToSet
  <2>2. ASSUME NEW n \in DOMAIN Tail(q) PROVE Tail(q)[n] \in ToSet(q)
    <3>1. n + 1 \in DOMAIN q /\ Tail(q)[n] = q[n + 1]
      BY <1>1
    <3> QED
      BY <3>1 DEF ToSet
  <2> QED
    BY <1>2, <2>1, <2>2 DEF ToSet
<1>4. ASSUME NEW n \in DOMAIN Tail(q) PROVE Tail(q)[n] # q[1]
  <2>1. n + 1 \in DOMAIN q /\ Tail(q)[n] = q[n + 1] /\ n + 1 # 1
    BY <1>1
  <2> QED
    BY <1>2, <2>1 DEF IsInjective
<1>5. ASSUME NEW m \in DOMAIN Tail(q), NEW n \in DOMAIN Tail(q), Tail(q)[m] = Tail(q)[n]
      PROVE  m = n
  <2>1. /\ m + 1 \in DOMAIN q /\ n + 1 \in DOMAIN q /\ m \in Nat /\ n \in Nat
        /\ q[m + 1] = q[n + 1]
    BY <1>1, <1>5
  <2>2. m + 1 = n + 1
    BY <2>1 DEF IsInjective
  <2> QED
    BY <2>1, <2>2
<1>6. q[1] \notin ToSet(Tail(q))
  BY <1>4 DEF ToSet
<1>7. IsInjective(Tail(q))
  BY <1>5 DEF IsInjective
<1> QED
  BY <1>1, <1>2, <1>3, <1>6, <1>7

(* Slot k takes the head of the queue.                                     *)
LEMMA TakingKeepsThePool ==
  ASSUME NEW sl, NEW q, NEW live, NEW i, Ready(sl, q, live, i),
         NEW k \in FreeSlots(sl), q # <<>>, FreeSlots(sl) = {k} \/ Len(q) = 1,
         Made \subseteq Handles
  PROVE  /\ Pumped(Given(sl, q, i, k), Tail(q), live \cup {WorkerFor(sl[k], q[1])},
                   MadeFor(sl, q, k))
         /\ Held(Given(sl, q, i, k), Tail(q)) = Held(sl, q)
<1> DEFINE h == WorkerFor(sl[k], q[1])
           r == Given(sl, q, i, k)
           made == MadeFor(sl, q, k)
<1> USE DEF Ready
<1>1. k \in DOMAIN sl /\ sl[k].current = None
  BY DEF FreeSlots
<1>2. /\ q[1] \in Calls /\ Tail(q) \in Seq(Calls) /\ Len(Tail(q)) = Len(q) - 1
      /\ ToSet(q) = {q[1]} \cup ToSet(Tail(q))
      /\ q[1] \notin ToSet(Tail(q)) /\ IsInjective(Tail(q))
  BY TheHeadIsGone DEF HeldOnce
<1>3. q[1] # None /\ q[1] \in Handles /\ q[1] \notin Made /\ h # None
  BY <1>2 DEF Calls, Handles, None, WorkerFor
<1>4. \A j \in DOMAIN sl : sl[j] \in Slots
  BY SlotsAreTyped
<1>5. h \in Handles /\ h \in made
  <2>1. CASE sl[k].handle = None
    BY <1>3, <2>1 DEF WorkerFor, MadeFor
  <2>2. CASE sl[k].handle # None
    BY <1>1, <2>2 DEF WorkerFor, Staffed, MadeFor
  <2> QED
    BY <2>1, <2>2
<1>6. /\ DOMAIN r = DOMAIN sl
      /\ r[k] = [handle |-> h, current |-> q[1], timer |-> "job"]
      /\ \A j \in DOMAIN sl \ {k} :
           r[j] = IF j = i /\ sl[j].handle # None THEN [sl[j] EXCEPT !.timer = "idle"] ELSE sl[j]
  BY <1>1 DEF Rested, Assigned, Given
<1>7. /\ r[k] \in Slots /\ r[k].current = q[1] /\ r[k].handle = h /\ r[k].timer = TimerFor(r[k])
      /\ \A j \in DOMAIN sl \ {k} :
           /\ r[j] \in Slots /\ r[j].current = sl[j].current /\ r[j].handle = sl[j].handle
           /\ r[j].timer = TimerFor(r[j])
  <2>1. /\ r[k] \in Slots /\ r[k].current = q[1] /\ r[k].handle = h
        /\ r[k].timer = TimerFor(r[k])
    BY <1>2, <1>3, <1>5, <1>6 DEF Slots, TimerFor
  <2>2. ASSUME NEW j \in DOMAIN sl \ {k}
        PROVE  /\ r[j] \in Slots /\ r[j].current = sl[j].current /\ r[j].handle = sl[j].handle
               /\ r[j].timer = TimerFor(r[j])
    <3>1. r[j] = IF j = i /\ sl[j].handle # None THEN [sl[j] EXCEPT !.timer = "idle"] ELSE sl[j]
      BY <1>6
    <3> HIDE DEF r
    <3> QED
      BY <1>4, <3>1 DEF Slots, TimerFor
  <2> HIDE DEF r
  <2> QED
    BY <2>1, <2>2
<1>8. r \in SlotLists
  <2>1. sl \in [1..Workers -> Slots] /\ DOMAIN sl = 1..Workers
    BY <1>1 DEF SlotLists
  <2>2. r = [j \in DOMAIN sl |-> r[j]]
    BY DEF Rested, Given
  <2> HIDE DEF r
  <2> QED
    BY <1>7, <2>1, <2>2 DEF SlotLists
<1> HIDE DEF r, h, made
<1>9. {r[j].current : j \in DOMAIN r} \ {None}
        = ({sl[j].current : j \in DOMAIN sl} \ {None}) \cup {q[1]}
  BY <1>1, <1>3, <1>6, <1>7
<1>10. Held(r, Tail(q)) = Held(sl, q)
  BY <1>2, <1>9 DEF Held
<1>11. HeldOnce(r, Tail(q))
  <2>1. q[1] \in ToSet(q)
    BY <1>2
  <2>2. \A j \in DOMAIN sl : sl[j].current # q[1]
    BY <1>3, <2>1 DEF HeldOnce
  <2> QED
    BY <1>1, <1>2, <1>3, <1>6, <1>7, <2>2 DEF HeldOnce
<1>12. Staffed(r, live \cup {h})
  <2>1. \A j \in DOMAIN sl \ {k} : sl[j].handle # h
    <3>1. CASE sl[k].handle # None
      BY <1>1, <3>1 DEF Staffed, WorkerFor, h
    <3>2. CASE sl[k].handle = None
      <4>1. h \notin Made
        BY <1>3, <3>2 DEF WorkerFor, h
      <4> QED
        BY <1>3, <4>1 DEF Staffed
    <3> QED
      BY <3>1, <3>2
  <2>2. {r[j].handle : j \in DOMAIN r} \ {None}
          = ({sl[j].handle : j \in DOMAIN sl} \ {None}) \cup {h}
    <3>1. sl[k].handle \in {None, h}
      BY DEF WorkerFor, h
    <3> QED
      BY <1>1, <1>3, <1>6, <1>7, <3>1
  <2>3. live \cup {h} = {r[j].handle : j \in DOMAIN r} \ {None}
    BY <2>2 DEF Staffed
  <2>4. \A j \in DOMAIN r : r[j].current # None => r[j].handle # None
    BY <1>3, <1>6, <1>7 DEF Staffed
  <2>5. ASSUME NEW j \in DOMAIN r, NEW m \in DOMAIN r,
               r[j].handle # None, r[j].handle = r[m].handle
        PROVE  j = m
    <3>1. CASE j = k \/ m = k
      BY <1>6, <1>7, <2>1, <2>5, <3>1
    <3>2. CASE j # k /\ m # k
      BY <1>6, <1>7, <2>5, <3>2 DEF Staffed
    <3> QED
      BY <3>1, <3>2
  <2> QED
    BY <2>3, <2>4, <2>5 DEF Staffed
<1>13. live \cup {h} \subseteq made /\ made \cap ToSet(Tail(q)) = {}
  BY <1>2, <1>3, <1>5 DEF MadeFor, made
<1>14. Tail(q) # <<>> => r # <<>> /\ \A j \in DOMAIN r : r[j].current # None
  <2>1. r # <<>>
    BY <1>1, <1>6
  <2>2. ASSUME Tail(q) # <<>> PROVE FreeSlots(sl) = {k}
    BY <1>2, <2>2
  <2>3. ASSUME Tail(q) # <<>>, NEW j \in DOMAIN r PROVE r[j].current # None
    <3>1. CASE j = k
      BY <1>3, <1>7, <3>1
    <3>2. CASE j # k
      BY <1>6, <1>7, <2>2, <2>3, <3>2 DEF FreeSlots
    <3> QED
      BY <3>1, <3>2
  <2> QED
    BY <2>1, <2>3
<1>15. Len(Tail(q)) <= QueueLimit
  BY <1>2, PoolAssumption DEF PoolAssumption
<1>16. \A j \in DOMAIN r : r[j].timer = TimerFor(r[j])
  BY <1>1, <1>6, <1>7
<1> QED
  BY <1>2, <1>8, <1>10, <1>11, <1>12, <1>13, <1>14, <1>15, <1>16 DEF Pumped, r, h, made

-----------------------------------------------------------------------------
(* The invariant, before and after a step *)

Waiting(a) == {c \in Calls : a[c] = "waiting"}

(* The rest of the invariant.                                              *)
Kept(cl, a, re, ws, jb, ob) ==
  /\ cl \in 0..MaxCalls /\ a \in [Calls -> Answers] /\ re \in 0..MaxRestarts
  /\ ws \in [DOMAIN ws -> [slot : 1..Workers, pool : 0..MaxRestarts]]
  /\ DOMAIN ws \subseteq Handles /\ DOMAIN ws \subseteq 1..cl
  /\ jb \in [Handles -> Calls \cup {None}] /\ ob \in [Handles -> Seq(Posts)]
  /\ \A c \in Calls : a[c] # "none" => c <= cl

LEMMA WhatIInvSays ==
  ASSUME IInv
  PROVE  /\ Pumped(slots, queue, alive, Made) /\ Held(slots, queue) = Waiting(answer)
         /\ Kept(called, answer, restarts, workers, job, outbox)
<1> USE DEF IInv, PoolIsSound, TypeOK, NamesAreFresh
<1>1. Held(slots, queue) = Waiting(answer)
  BY DEF Held, Waiting, WaitingIsHeld, Outstanding
<1>2. HeldOnce(slots, queue)
  BY DEF HeldOnce, WaitingIsHeld, Rendering
<1>3. Staffed(slots, alive)
  BY DEF Staffed, WorkersAreHeld
<1>4. \A k \in DOMAIN slots : slots[k].timer = TimerFor(slots[k])
  BY DEF TimersMatch, TimerFor
<1>5. Pumped(slots, queue, alive, Made)
  BY <1>2, <1>3, <1>4 DEF Pumped, SlotLists, NoneWaitsInVain
<1>6. Kept(called, answer, restarts, workers, job, outbox)
  BY DEF Kept, Made
<1> QED
  BY <1>1, <1>5, <1>6

LEMMA WhatIInvTakes ==
  ASSUME Pumped(slots', queue', alive', Made'), Held(slots', queue') = Waiting(answer'),
         Kept(called', answer', restarts', workers', job', outbox')
  PROVE  IInv'
<1>1. TypeOK'
  BY DEF TypeOK, Pumped, Kept, SlotLists, Made
<1>2. WaitingIsHeld'
  BY DEF WaitingIsHeld, Rendering, Outstanding, Held, Waiting, Pumped, HeldOnce
<1>3. NoneWaitsInVain'
  BY DEF NoneWaitsInVain, Pumped
<1>4. WorkersAreHeld'
  BY DEF WorkersAreHeld, Pumped, Staffed
<1>5. TimersMatch'
  BY DEF TimersMatch, Pumped, TimerFor
<1>6. NamesAreFresh'
  BY DEF NamesAreFresh, Pumped, Kept, Made
<1> QED
  BY <1>1, <1>2, <1>3, <1>4, <1>5, <1>6 DEF IInv, PoolIsSound

LEMMA PumpKeepsIInv ==
  ASSUME IInv, NEW sl, NEW q, NEW live, NEW i, Ready(sl, q, live, i), Pump(sl, q, live, i),
         called' \in 0..MaxCalls, called <= called', restarts' = restarts,
         answer' \in [Calls -> Answers], outbox' \in [Handles -> Seq(Posts)],
         Held(sl, q) = Waiting(answer'),
         \A c \in Calls : answer'[c] # "none" => c <= called'
  PROVE  IInv'
<1>1. /\ TypeOK /\ sl \in SlotLists /\ q \in Seq(Calls)
      /\ Len(q) <= 1 \/ FreeSlots(sl) = {} \/ \E k \in FreeSlots(sl) : FreeSlots(sl) = {k}
  BY DEF IInv, PoolIsSound, Ready
<1>2. Kept(called, answer, restarts, workers, job, outbox) /\ Made = DOMAIN workers
  BY WhatIInvSays DEF Made
<1>3. called \in 0..MaxCalls /\ 1..called \subseteq 1..called'
  BY <1>2, PoolAssumption DEF Kept, PoolAssumption
<1>4. job' \in [Handles -> Calls \cup {None}]
  BY <1>1, PumpOutcome
<1>5. CASE /\ FreeSlots(sl) = {} \/ q = <<>>
           /\ queue' = q /\ slots' = Rested(sl, i) /\ workers' = workers /\ alive' = live
  <2>1. Pumped(Rested(sl, i), q, live, Made) /\ Held(Rested(sl, i), q) = Held(sl, q)
    BY <1>5, RestingKeepsThePool
  <2>2. Made' = Made
    BY <1>5 DEF Made
  <2>3. Kept(called', answer', restarts', workers', job', outbox')
    BY <1>2, <1>3, <1>4, <1>5 DEF Kept
  <2> QED
    BY <1>5, <2>1, <2>2, <2>3, WhatIInvTakes
<1>6. ASSUME NEW k \in FreeSlots(sl), q # <<>>, FreeSlots(sl) = {k} \/ Len(q) = 1,
             queue' = Tail(q),
             slots' = Given(sl, q, i, k),
             alive' = live \cup {WorkerFor(sl[k], q[1])},
             sl[k].handle # None => workers' = workers,
             sl[k].handle = None =>
               workers' = [h \in Made \cup {q[1]} |->
                             IF h = q[1] THEN [slot |-> k, pool |-> restarts] ELSE workers[h]]
      PROVE  IInv'
  <2>1. Made' = MadeFor(sl, q, k)
    BY <1>6 DEF Made, MadeFor
  <2>2. Made \subseteq Handles
    BY <1>2 DEF Kept
  <2>3. /\ Pumped(slots', queue', alive', Made')
        /\ Held(slots', queue') = Held(sl, q)
    BY <1>6, <2>1, <2>2, TakingKeepsThePool
  <2>4. q[1] \in Calls /\ q[1] \in Waiting(answer') /\ q[1] \in 1..called'
    <3>1. q[1] \in ToSet(q)
      BY <1>1, <1>6 DEF ToSet
    <3>2. q[1] \in Waiting(answer')
      BY <3>1 DEF Held
    <3> QED
      BY <3>2 DEF Waiting, Calls
  <2>5. k \in 1..Workers
    BY <1>1, SlotsAreTyped DEF FreeSlots
  <2>6. workers' \in [Made' -> [slot : 1..Workers, pool : 0..MaxRestarts]]
    <3>1. CASE sl[k].handle # None
      BY <1>2, <1>6, <2>1, <3>1 DEF Kept, MadeFor
    <3>2. CASE sl[k].handle = None
      BY <1>2, <1>6, <2>1, <2>5, <3>2 DEF Kept, MadeFor
    <3> QED
      BY <3>1, <3>2
  <2>7. Made' \subseteq Handles /\ Made' \subseteq 1..called'
    BY <1>2, <1>3, <2>1, <2>4 DEF Kept, Handles, MadeFor
  <2>8. Kept(called', answer', restarts', workers', job', outbox')
    BY <1>2, <1>4, <2>6, <2>7 DEF Kept, Made
  <2> QED
    BY <2>3, <2>8, WhatIInvTakes
<1> QED
  BY <1>1, <1>5, <1>6, PumpOutcome

-----------------------------------------------------------------------------
(* The steps *)

LEMMA InitIInv == Init => IInv
<1> SUFFICES ASSUME Init PROVE IInv
  OBVIOUS
<1> USE DEF Init
<1>1. DOMAIN slots = {} /\ ToSet(queue) = {} /\ Made = {}
  BY DEF ToSet, Made
<1>2. TypeOK
  BY <1>1, PoolAssumption DEF TypeOK, PoolAssumption, Answers, Calls, Handles, Made
<1>3. WaitingIsHeld
  BY <1>1 DEF WaitingIsHeld, Rendering, Outstanding, IsInjective
<1>4. NoneWaitsInVain /\ TimersMatch
  BY <1>1 DEF NoneWaitsInVain, TimersMatch
<1>5. WorkersAreHeld
  BY <1>1 DEF WorkersAreHeld
<1>6. NamesAreFresh
  BY <1>1 DEF NamesAreFresh
<1> QED
  BY <1>2, <1>3, <1>4, <1>5, <1>6 DEF IInv, PoolIsSound

(* The pool is ready as it is, and after slot i has been freed.            *)
LEMMA SoundIsReady ==
  ASSUME IInv
  PROVE  Ready(slots, queue, alive, None) /\ Held(slots, queue) = Waiting(answer)
<1>1. Pumped(slots, queue, alive, Made) /\ Held(slots, queue) = Waiting(answer)
  BY WhatIInvSays
<1>2. None \notin DOMAIN slots
  BY <1>1, SlotsAreTyped DEF Pumped, None
<1>3. Len(queue) <= 1 \/ FreeSlots(slots) = {}
  <2>1. queue = <<>> => Len(queue) <= 1
    OBVIOUS
  <2> QED
    BY <1>1, <2>1 DEF Pumped, FreeSlots
<1> QED
  BY <1>1, <1>2, <1>3 DEF Ready, Pumped

Refit(i, h) == [slots EXCEPT ![i].handle = h]
Freed(i, h) == [slots EXCEPT ![i] = [handle |-> h, current |-> None, timer |-> "none"]]

LEMMA FreedIsReady ==
  ASSUME IInv, NEW i \in DOMAIN slots, NEW h, NEW live,
         \/ h = slots[i].handle /\ live = alive
         \/ h = None /\ live = alive \ {slots[i].handle}
  PROVE  /\ Ready(Freed(i, h), queue, live, i)
         /\ Held(Freed(i, h), queue) = Waiting(answer) \ {slots[i].current}
<1> DEFINE f == Freed(i, h)
<1>1. Pumped(slots, queue, alive, Made) /\ Held(slots, queue) = Waiting(answer)
  BY WhatIInvSays
<1>2. /\ slots \in [1..Workers -> Slots] /\ DOMAIN slots = 1..Workers /\ i \in 1..Workers
      /\ slots[i] \in Slots /\ h \in Handles \cup {None}
  <2>1. slots \in [1..Workers -> Slots]
    BY <1>1 DEF Pumped, SlotLists
  <2> QED
    BY <2>1 DEF Slots
<1>3. /\ f \in [1..Workers -> Slots] /\ DOMAIN f = DOMAIN slots
      /\ f[i] = [handle |-> h, current |-> None, timer |-> "none"]
      /\ \A k \in DOMAIN slots \ {i} : f[k] = slots[k]
  <2>1. [handle |-> h, current |-> None, timer |-> "none"] \in Slots
    BY <1>2 DEF Slots
  <2> QED
    BY <1>2, <2>1 DEF Freed
<1> HIDE DEF f
<1>4. {f[k].current : k \in DOMAIN f} \ {None}
        = ({slots[k].current : k \in DOMAIN slots} \ {None}) \ {slots[i].current}
  <2>1. \A k \in DOMAIN slots \ {i} : slots[k].current # None => slots[k].current # slots[i].current
    BY <1>1 DEF Pumped, HeldOnce
  <2> QED
    BY <1>3, <2>1
<1>5. slots[i].current \notin ToSet(queue)
  <2>1. None \notin ToSet(queue)
    <3>1. ToSet(queue) \subseteq Calls
      BY <1>1 DEF Pumped, ToSet
    <3> QED
      BY <3>1 DEF Calls, None
  <2> QED
    BY <1>1, <2>1 DEF Pumped, HeldOnce
<1>6. Held(f, queue) = Waiting(answer) \ {slots[i].current}
  BY <1>1, <1>4, <1>5 DEF Held
<1>7. HeldOnce(f, queue)
  <2>1. \A k \in DOMAIN f : f[k].current # None => k # i /\ f[k] = slots[k]
    BY <1>3
  <2>2. /\ IsInjective(queue)
        /\ \A k \in DOMAIN f : f[k].current # None => f[k].current \notin ToSet(queue)
    BY <1>1, <1>3, <2>1 DEF Pumped, HeldOnce
  <2>3. ASSUME NEW j \in DOMAIN f, NEW k \in DOMAIN f,
               f[j].current # None, f[j].current = f[k].current
        PROVE  j = k
    BY <1>1, <1>3, <2>1, <2>3 DEF Pumped, HeldOnce
  <2> QED
    BY <2>2, <2>3 DEF HeldOnce
<1>8. Staffed(f, live)
  <2>1. \A k \in DOMAIN slots \ {i} : slots[k].handle # None => slots[k].handle # slots[i].handle
    BY <1>1 DEF Pumped, Staffed
  <2>2. live = {f[k].handle : k \in DOMAIN f} \ {None}
    <3>1. CASE h = slots[i].handle /\ live = alive
      <4>1. {f[k].handle : k \in DOMAIN f} = {slots[k].handle : k \in DOMAIN slots}
        BY <1>3, <3>1
      <4> QED
        BY <1>1, <3>1, <4>1 DEF Pumped, Staffed
    <3>2. CASE h = None /\ live = alive \ {slots[i].handle}
      <4>1. {f[k].handle : k \in DOMAIN f} \ {None}
              = ({slots[k].handle : k \in DOMAIN slots} \ {None}) \ {slots[i].handle}
        BY <1>3, <2>1, <3>2
      <4> QED
        BY <1>1, <3>2, <4>1 DEF Pumped, Staffed
    <3> QED
      BY <3>1, <3>2
  <2>3. \A k \in DOMAIN f : f[k].current # None => f[k].handle # None
    BY <1>1, <1>3 DEF Pumped, Staffed
  <2>4. ASSUME NEW j \in DOMAIN f, NEW k \in DOMAIN f,
               f[j].handle # None, f[j].handle = f[k].handle
        PROVE  j = k
    <3>1. f[i].handle \in {None, slots[i].handle}
      BY <1>3
    <3> QED
      BY <1>1, <1>3, <2>4, <3>1 DEF Pumped, Staffed
  <2> QED
    BY <2>2, <2>3, <2>4 DEF Staffed
<1>9. Len(queue) <= 1 \/ FreeSlots(f) = {} \/ \E k \in FreeSlots(f) : FreeSlots(f) = {k}
  <2>1. CASE queue = <<>>
    BY <2>1
  <2>2. CASE queue # <<>>
    <3>1. FreeSlots(f) = {i}
      BY <1>1, <1>3, <2>2 DEF Pumped, FreeSlots
    <3> QED
      BY <3>1
  <2> QED
    BY <2>1, <2>2
<1>10. live \subseteq Made
  BY <1>1 DEF Pumped
<1>11. \A k \in DOMAIN f : IF k = i THEN f[k].current = None /\ f[k].timer = "none"
                                   ELSE f[k].timer = TimerFor(f[k])
  BY <1>1, <1>3 DEF Pumped
<1>12. f = <<>> => queue = <<>>
  BY <1>3, <1>2
<1> QED
  BY <1>1, <1>3, <1>6, <1>7, <1>8, <1>9, <1>10, <1>11, <1>12 DEF Ready, Pumped, SlotLists, f

Cleared(slot) == [slot EXCEPT !.current = None, !.timer = "none"]
LEMMA ClearedSlot ==
  ASSUME NEW h, NEW c, NEW t, NEW slot, slot = [handle |-> h, current |-> c, timer |-> t]
  PROVE  Cleared(slot) = [handle |-> h, current |-> None, timer |-> "none"]
<1> DEFINE left == [slot EXCEPT !.current = None]
<1>1. left = [handle |-> h, current |-> None, timer |-> t]
  OBVIOUS
<1>2. [left EXCEPT !.timer = "none"] = [handle |-> h, current |-> None, timer |-> "none"]
  <2> HIDE DEF left
  <2> QED
    BY <1>1
<1> QED
  BY <1>2 DEF Cleared

LEMMA SettleKeepsIInv ==
  ASSUME IInv, NEW i \in DOMAIN slots, NEW a \in Answers \ {"none", "waiting"},
         \/ Settle(i, slots, alive, a)
         \/ Settle(i, Recycled(slots, i), Killed(i), a),
         outbox' \in [Handles -> Seq(Posts)]
  PROVE  IInv'
<1>1. /\ Pumped(slots, queue, alive, Made) /\ Held(slots, queue) = Waiting(answer)
      /\ Kept(called, answer, restarts, workers, job, outbox)
  BY WhatIInvSays
<1>2. slots[i] \in Slots
  BY <1>1, SlotsAreTyped DEF Pumped
<1> DEFINE c == slots[i].current
<1>3. ASSUME NEW h, NEW live,
             \/ h = slots[i].handle /\ live = alive
             \/ h = None /\ live = alive \ {slots[i].handle},
             Settle(i, Refit(i, h), live, a)
      PROVE  IInv'
  <2> DEFINE sl == Refit(i, h)
  <2>1. sl[i].current = c /\ [sl EXCEPT ![i].current = None, ![i].timer = "none"] = Freed(i, h)
    <3>1. /\ slots \in [1..Workers -> Slots] /\ i \in 1..Workers
          /\ slots[i] = [handle |-> slots[i].handle, current |-> c, timer |-> slots[i].timer]
      <4>1. slots \in [1..Workers -> Slots]
        BY <1>1 DEF Pumped, SlotLists
      <4> QED
        BY <1>2, <4>1 DEF Slots
    <3>2. sl[i] = [handle |-> h, current |-> c, timer |-> slots[i].timer]
      BY <3>1 DEF Refit
    <3>3. [sl EXCEPT ![i].current = None, ![i].timer = "none"]
            = [sl EXCEPT ![i] = Cleared(sl[i])]
      BY <3>1, <3>2 DEF Refit, Cleared
    <3>4. Cleared(sl[i]) = [handle |-> h, current |-> None, timer |-> "none"]
      BY <3>2, ClearedSlot
    <3> QED
      BY <3>1, <3>2, <3>3, <3>4 DEF Freed, Refit
  <2>2. Ready(Freed(i, h), queue, live, i) /\ Held(Freed(i, h), queue) = Waiting(answer) \ {c}
    BY <1>3, FreedIsReady
  <2>3. /\ answer' = IF c = None THEN answer ELSE [answer EXCEPT ![c] = a]
        /\ Pump(Freed(i, h), queue, live, i)
        /\ UNCHANGED <<called, restarts>>
    BY <1>3, <2>1 DEF Settle
  <2>4. /\ answer' \in [Calls -> Answers] /\ Waiting(answer') = Waiting(answer) \ {c}
        /\ \A d \in Calls : answer'[d] # "none" => answer[d] # "none"
    <3>1. CASE c = None
      BY <1>1, <2>3, <3>1 DEF Kept, Waiting, Calls, None
    <3>2. CASE c # None
      <4>1. c \in Calls /\ answer[c] = "waiting"
        <5>1. c \in Held(slots, queue)
          BY <3>2 DEF Held
        <5> QED
          BY <1>1, <5>1 DEF Waiting
      <4>2. answer' = [answer EXCEPT ![c] = a]
        BY <2>3, <3>2
      <4> HIDE DEF c
      <4> QED
        BY <1>1, <4>1, <4>2 DEF Kept, Waiting
    <3> QED
      BY <3>1, <3>2
  <2>5. called' = called /\ called \in 0..MaxCalls /\ called <= called'
    BY <1>1, <2>3, PoolAssumption DEF Kept, PoolAssumption
  <2>6. \A d \in Calls : answer'[d] # "none" => d <= called'
    BY <1>1, <2>4, <2>5 DEF Kept
  <2>7. called' \in 0..MaxCalls /\ restarts' = restarts
    BY <2>3, <2>5
  <2>8. Held(Freed(i, h), queue) = Waiting(answer')
    BY <2>2, <2>4
  <2> HIDE DEF c
  <2> QED
    BY <2>2, <2>3, <2>4, <2>5, <2>6, <2>7, <2>8, PumpKeepsIInv
<1>4. CASE Settle(i, slots, alive, a)
  <2>1. slots = Refit(i, slots[i].handle)
    BY <1>1, <1>2 DEF Pumped, SlotLists, Slots, Refit
  <2>2. Settle(i, Refit(i, slots[i].handle), alive, a)
    BY <1>4, <2>1
  <2> QED
    BY <1>3, <2>2
<1>5. CASE Settle(i, Recycled(slots, i), Killed(i), a)
  BY <1>3, <1>5 DEF Recycled, Killed, Refit
<1> QED
  BY <1>4, <1>5

(* Steps that only touch what the workers do.                              *)
LEMMA WorkingKeepsIInv ==
  ASSUME IInv, UNCHANGED <<pool, workers, alive>>,
         job' \in [Handles -> Calls \cup {None}], outbox' \in [Handles -> Seq(Posts)]
  PROVE  IInv'
<1>1. /\ Pumped(slots, queue, alive, Made) /\ Held(slots, queue) = Waiting(answer)
      /\ Kept(called, answer, restarts, workers, job, outbox)
  BY WhatIInvSays
<1>2. /\ Pumped(slots', queue', alive', Made') /\ Held(slots', queue') = Waiting(answer')
      /\ Kept(called', answer', restarts', workers', job', outbox')
  BY <1>1 DEF pool, Kept, Made
<1> QED
  BY <1>2, WhatIInvTakes

LEMMA TypedIsTyped ==
  ASSUME IInv
  PROVE  /\ job \in [Handles -> Calls \cup {None}] /\ outbox \in [Handles -> Seq(Posts)]
         /\ \A h \in Made : /\ h \in Handles /\ outbox[h] \in Seq(Posts)
                            /\ workers[h].slot \in 1..Workers
         /\ answer \in [Calls -> Answers] /\ called \in 0..MaxCalls /\ restarts \in 0..MaxRestarts
BY DEF IInv, PoolIsSound, TypeOK

LEMMA WorkerStepsKeepIInv ==
  ASSUME IInv, NEW h \in Made, Reply(h) \/ Fail(h) \/ Drop(h)
  PROVE  IInv'
<1> USE TypedIsTyped
<1>1. \A m \in Posts : Append(outbox[h], m) \in Seq(Posts)
  OBVIOUS
<1>2. CASE Reply(h)
  <2>1. [kind |-> "reply", call |-> job[h]] \in Posts
    BY <1>2 DEF Reply, Posts
  <2>2. outbox' = [outbox EXCEPT ![h] = Append(outbox[h], [kind |-> "reply", call |-> job[h]])]
    BY <1>2 DEF Reply, Post
  <2>3. outbox' \in [Handles -> Seq(Posts)] /\ job' \in [Handles -> Calls \cup {None}]
    BY <1>1, <1>2, <2>1, <2>2 DEF Reply
  <2> QED
    BY <1>2, <2>3, WorkingKeepsIInv DEF Reply
<1>3. CASE Fail(h)
  <2>1. [kind |-> "failure", call |-> None] \in Posts
    BY DEF Posts
  <2>2. outbox' = [outbox EXCEPT ![h] = Append(outbox[h], [kind |-> "failure", call |-> None])]
    BY <1>3 DEF Fail, Post
  <2>3. outbox' \in [Handles -> Seq(Posts)] /\ job' \in [Handles -> Calls \cup {None}]
    BY <1>1, <1>3, <2>1, <2>2 DEF Fail
  <2> QED
    BY <1>3, <2>3, WorkingKeepsIInv DEF Fail
<1>4. CASE Drop(h)
  <2>1. outbox' \in [Handles -> Seq(Posts)] /\ job' = job
    BY <1>4 DEF Drop
  <2> QED
    BY <1>4, <2>1, WorkingKeepsIInv DEF Drop
<1> QED
  BY <1>2, <1>3, <1>4

(* A reply or a failure is taken from the outbox.                          *)
LEMMA DeliveryIsTyped ==
  ASSUME IInv, NEW h \in Made, outbox[h] # <<>>, outbox' = [outbox EXCEPT ![h] = Tail(@)]
  PROVE  outbox' \in [Handles -> Seq(Posts)]
BY TypedIsTyped

LEMMA HandleReplyKeepsIInv ==
  ASSUME IInv, NEW h \in Made, HandleReply(h)
  PROVE  IInv'
<1>1. outbox' \in [Handles -> Seq(Posts)]
  BY DeliveryIsTyped DEF HandleReply
<1>2. CASE Current(h) /\ Awaited(SlotOf(h), Head(outbox[h]).call)
  <2>1. SlotOf(h) \in DOMAIN slots
    BY <1>2, TypedIsTyped DEF IInv, PoolIsSound, TypeOK, Current, SlotOf
  <2>2. Settle(SlotOf(h), slots, alive, "reply")
    BY <1>2 DEF HandleReply
  <2>3. "reply" \in Answers \ {"none", "waiting"}
    BY DEF Answers
  <2> QED
    BY <1>1, <2>1, <2>2, <2>3, SettleKeepsIInv
<1>3. CASE ~(Current(h) /\ Awaited(SlotOf(h), Head(outbox[h]).call))
  <2>1. UNCHANGED <<pool, workers, alive, job>>
    BY <1>3 DEF HandleReply
  <2> QED
    BY <1>1, <2>1, WorkingKeepsIInv, TypedIsTyped
<1> QED
  BY <1>2, <1>3

LEMMA HandleFailureKeepsIInv ==
  ASSUME IInv, NEW h \in Made, HandleFailure(h)
  PROVE  IInv'
<1>1. outbox' \in [Handles -> Seq(Posts)]
  BY DeliveryIsTyped DEF HandleFailure
<1>2. CASE Current(h)
  <2>1. SlotOf(h) \in DOMAIN slots
    BY <1>2, TypedIsTyped DEF IInv, PoolIsSound, TypeOK, Current, SlotOf
  <2>2. Settle(SlotOf(h), Recycled(slots, SlotOf(h)), Killed(SlotOf(h)), "error")
    BY <1>2 DEF HandleFailure
  <2>3. "error" \in Answers \ {"none", "waiting"}
    BY DEF Answers
  <2> QED
    BY <1>1, <2>1, <2>2, <2>3, SettleKeepsIInv
<1>3. CASE ~Current(h)
  <2>1. Pump(slots, queue, alive, None) /\ UNCHANGED <<called, answer, restarts>>
    BY <1>3 DEF HandleFailure
  <2>2. Ready(slots, queue, alive, None) /\ Held(slots, queue) = Waiting(answer)
    BY SoundIsReady
  <2>3. /\ called' \in 0..MaxCalls /\ called <= called' /\ restarts' = restarts
        /\ answer' \in [Calls -> Answers] /\ Held(slots, queue) = Waiting(answer')
        /\ \A c \in Calls : answer'[c] # "none" => c <= called'
    BY <2>1, <2>2, TypedIsTyped DEF IInv, NamesAreFresh
  <2> QED
    BY <1>1, <2>1, <2>2, <2>3, PumpKeepsIInv
<1> QED
  BY <1>2, <1>3

LEMMA OnTimeoutKeepsIInv ==
  ASSUME IInv, NEW i \in 1..Workers, OnTimeout(i)
  PROVE  IInv'
<1>1. /\ i \in DOMAIN slots /\ "timeout" \in Answers \ {"none", "waiting"}
      /\ Settle(i, Recycled(slots, i), Killed(i), "timeout")
      /\ outbox' \in [Handles -> Seq(Posts)]
  BY TypedIsTyped DEF OnTimeout, Answers
<1> QED
  BY <1>1, SettleKeepsIInv

LEMMA OnIdleKeepsIInv ==
  ASSUME IInv, NEW i \in 1..Workers, OnIdle(i)
  PROVE  IInv'
<1>1. /\ Pumped(slots, queue, alive, Made) /\ Held(slots, queue) = Waiting(answer)
      /\ Kept(called, answer, restarts, workers, job, outbox)
  BY WhatIInvSays
<1>2. i \in DOMAIN slots /\ slots[i].timer = "idle" /\ slots[i].current = None
  BY <1>1 DEF OnIdle, Pumped, TimerFor
<1>3. slots \in [1..Workers -> Slots] /\ i \in 1..Workers /\ slots[i] \in Slots
  <2>1. slots \in [1..Workers -> Slots]
    BY <1>1, <1>2 DEF Pumped, SlotLists
  <2> QED
    BY <1>2, <2>1
<1>4. slots' = Freed(i, None)
  <2>1. slots' = [Recycled(slots, i) EXCEPT ![i].timer = "none"]
    BY DEF OnIdle
  <2>2. Recycled(slots, i)[i] = [handle |-> None, current |-> None, timer |-> slots[i].timer]
    BY <1>2, <1>3 DEF Recycled, Slots
  <2> DEFINE rest == [handle |-> None, current |-> None, timer |-> slots[i].timer]
  <2>3. Recycled(slots, i) = [slots EXCEPT ![i] = rest]
    BY <1>3, <2>2 DEF Recycled
  <2>4. [rest EXCEPT !.timer = "none"] = [handle |-> None, current |-> None, timer |-> "none"]
    OBVIOUS
  <2> HIDE DEF rest
  <2> QED
    BY <1>3, <2>1, <2>3, <2>4 DEF Freed
<1>5. queue = <<>>
  BY <1>1, <1>2 DEF Pumped
<1>6. /\ Ready(slots', queue, alive \ {slots[i].handle}, i)
      /\ Held(slots', queue) = Waiting(answer) \ {None}
  BY <1>2, <1>4, FreedIsReady
<1>7. /\ alive' = alive \ {slots[i].handle}
      /\ UNCHANGED <<called, queue, answer, restarts, workers, outbox>>
  BY DEF OnIdle, Killed
<1>8. \A k \in DOMAIN slots' : slots'[k].timer = TimerFor(slots'[k])
  <2>1. slots'[i] = [handle |-> None, current |-> None, timer |-> "none"]
    BY <1>3, <1>4 DEF Freed
  <2> QED
    BY <1>6, <2>1 DEF Ready, TimerFor
<1>9. Pumped(slots', queue', alive', Made')
  BY <1>5, <1>6, <1>7, <1>8 DEF Ready, Pumped, Made
<1>10. Held(slots', queue') = Waiting(answer')
  BY <1>6, <1>7 DEF Waiting, Calls, None
<1>11. job' \in [Handles -> Calls \cup {None}]
  BY TypedIsTyped DEF OnIdle
<1>12. Kept(called', answer', restarts', workers', job', outbox')
  BY <1>1, <1>7, <1>11 DEF Kept
<1> QED
  BY <1>9, <1>10, <1>12, WhatIInvTakes

LEMMA ShutdownKeepsIInv ==
  ASSUME IInv, Shutdown
  PROVE  IInv'
<1>1. /\ Pumped(slots, queue, alive, Made) /\ Held(slots, queue) = Waiting(answer)
      /\ Kept(called, answer, restarts, workers, job, outbox)
  BY WhatIInvSays
<1>2. /\ slots' = <<>> /\ queue' = <<>> /\ DOMAIN slots' = {} /\ ToSet(queue') = {}
      /\ Made' = Made
  BY DEF Shutdown, ToSet, Made
<1>3. alive' = {}
  BY <1>1 DEF Pumped, Staffed, Shutdown
<1>4. Outstanding = Waiting(answer)
  BY <1>1 DEF Outstanding, Held
<1>5. /\ answer' \in [Calls -> Answers] /\ Waiting(answer') = {}
      /\ \A c \in Calls : answer'[c] # "none" => answer[c] # "none"
  <2>1. answer' = [c \in Calls |-> IF c \in Waiting(answer) THEN "closed" ELSE answer[c]]
    BY <1>4 DEF Shutdown
  <2> QED
    BY <1>1, <2>1 DEF Kept, Waiting, Answers
<1>6. Pumped(slots', queue', alive', Made')
  BY <1>2, <1>3, PoolAssumption
     DEF Pumped, SlotLists, HeldOnce, Staffed, IsInjective, PoolAssumption
<1>7. Held(slots', queue') = Waiting(answer')
  BY <1>2, <1>5 DEF Held
<1>8. /\ called' = called /\ workers' = workers /\ outbox' = outbox
      /\ restarts' \in 0..MaxRestarts /\ job' \in [Handles -> Calls \cup {None}]
  BY TypedIsTyped, PoolAssumption DEF Shutdown, PoolAssumption
<1>9. Kept(called', answer', restarts', workers', job', outbox')
  BY <1>1, <1>5, <1>8 DEF Kept
<1> QED
  BY <1>6, <1>7, <1>9, WhatIInvTakes

LEMMA RenderImageKeepsIInv ==
  ASSUME IInv, RenderImage
  PROVE  IInv'
<1> DEFINE c  == called + 1
           sl == IF slots = <<>> THEN [i \in 1..Workers |-> Empty] ELSE slots
<1>1. /\ Pumped(slots, queue, alive, Made) /\ Held(slots, queue) = Waiting(answer)
      /\ Kept(called, answer, restarts, workers, job, outbox)
  BY WhatIInvSays
<1>2. /\ called \in Nat /\ c \in Calls /\ called' = c /\ c \in 0..MaxCalls
      /\ UNCHANGED <<restarts, outbox>>
      /\ answer[c] = "none" /\ answer \in [Calls -> Answers]
  BY <1>1, PoolAssumption DEF RenderImage, Kept, Calls, PoolAssumption
<1>3. \A a \in Answers \ {"none"} : answer' = [answer EXCEPT ![c] = a] =>
        /\ answer' \in [Calls -> Answers]
        /\ \A d \in Calls : answer'[d] # "none" => d <= called'
  <2> TAKE a \in Answers \ {"none"}
  <2> HAVE answer' = [answer EXCEPT ![c] = a]
  <2>1. ASSUME NEW d \in Calls, answer'[d] # "none" PROVE d <= called'
    <3>1. d = c \/ d <= called
      BY <1>1, <1>2, <2>1 DEF Kept
    <3> QED
      BY <1>2, <3>1 DEF Calls
  <2> HIDE DEF c
  <2> QED
    BY <1>2, <2>1
<1>4. CASE QueueFull
  <2>1. queue # <<>>
    BY <1>1, <1>4, PoolAssumption DEF QueueFull, Pumped, PoolAssumption
  <2>2. slots' = slots /\ answer' = [answer EXCEPT ![c] = "busy"]
        /\ UNCHANGED <<queue, workers, alive, job>>
    BY <1>1, <1>4, <2>1 DEF RenderImage, Pumped
  <2>3. /\ answer' \in [Calls -> Answers]
        /\ \A d \in Calls : answer'[d] # "none" => d <= called'
    BY <1>3, <2>2 DEF Answers
  <2>4. Waiting(answer') = Waiting(answer)
    <3> HIDE DEF c
    <3> QED
      BY <1>2, <2>2 DEF Waiting
  <2>5. Pumped(slots', queue', alive', Made') /\ Held(slots', queue') = Waiting(answer')
    BY <1>1, <2>2, <2>4 DEF Made
  <2>6. 1..called \subseteq 1..called'
    BY <1>2
  <2>7. Kept(called', answer', restarts', workers', job', outbox')
    BY <1>1, <1>2, <2>2, <2>3, <2>6 DEF Kept
  <2> QED
    BY <2>5, <2>7, WhatIInvTakes
<1>5. CASE ~QueueFull
  <2>1. answer' = [answer EXCEPT ![c] = "waiting"] /\ Pump(sl, Append(queue, c), alive, None)
    BY <1>5 DEF RenderImage
  <2>2. /\ answer' \in [Calls -> Answers]
        /\ \A d \in Calls : answer'[d] # "none" => d <= called'
    BY <1>3, <2>1 DEF Answers
  <2>3. Waiting(answer') = Waiting(answer) \cup {c}
    <3> HIDE DEF c
    <3> QED
      BY <1>2, <2>1 DEF Waiting
  <2>4. /\ sl \in [1..Workers -> Slots] /\ DOMAIN sl = 1..Workers
        /\ \A k \in DOMAIN slots : k \in DOMAIN sl /\ sl[k] = slots[k]
        /\ \A k \in DOMAIN sl : k \notin DOMAIN slots => sl[k] = Empty
    <3>1. Empty \in Slots
      BY DEF Empty, Slots
    <3>2. CASE slots = <<>>
      BY <3>1, <3>2
    <3>3. CASE slots # <<>>
      BY <1>1, <3>3 DEF Pumped, SlotLists
    <3> QED
      BY <3>2, <3>3
  <2> HIDE DEF sl
  <2>5. /\ {sl[k].current : k \in DOMAIN sl} \ {None}
               = {slots[k].current : k \in DOMAIN slots} \ {None}
        /\ {sl[k].handle : k \in DOMAIN sl} \ {None}
               = {slots[k].handle : k \in DOMAIN slots} \ {None}
    <3>1. Empty.current = None /\ Empty.handle = None
      BY DEF Empty
    <3> QED
      BY <2>4, <3>1
  <2>6. /\ Append(queue, c) \in Seq(Calls) /\ Len(Append(queue, c)) = Len(queue) + 1
        /\ ToSet(Append(queue, c)) = ToSet(queue) \cup {c}
        /\ \A n \in 1..Len(queue) : Append(queue, c)[n] = queue[n]
        /\ Append(queue, c)[Len(queue) + 1] = c /\ Len(queue) \in Nat
    <3>1. queue \in Seq(Calls)
      BY <1>1 DEF Pumped
    <3> HIDE DEF c
    <3> QED
      BY <1>2, <3>1 DEF ToSet
  <2>7. c \notin Held(slots, queue) /\ c \notin Made /\ c # None
    BY <1>1, <1>2 DEF Waiting, Kept, Made, None
  <2>8. IsInjective(Append(queue, c))
    <3>1. c \notin ToSet(queue) /\ IsInjective(queue) /\ queue \in Seq(Calls)
      BY <1>1, <2>7 DEF Held, Pumped, HeldOnce
    <3>2. ASSUME NEW m \in DOMAIN Append(queue, c), NEW n \in DOMAIN Append(queue, c),
                 Append(queue, c)[m] = Append(queue, c)[n]
          PROVE  m = n
      <4>1. m \in 1..(Len(queue) + 1) /\ n \in 1..(Len(queue) + 1)
        BY <2>6
      <4>2. \A k \in 1..Len(queue) : queue[k] # c
        BY <3>1 DEF ToSet
      <4> HIDE DEF c
      <4>3. CASE m = Len(queue) + 1 \/ n = Len(queue) + 1
        BY <2>6, <3>2, <4>1, <4>2, <4>3
      <4>4. CASE m \in 1..Len(queue) /\ n \in 1..Len(queue)
        BY <2>6, <3>1, <3>2, <4>4 DEF IsInjective
      <4> QED
        BY <2>6, <4>1, <4>3, <4>4
    <3> QED
      BY <3>2 DEF IsInjective
  <2> HIDE DEF c
  <2>9. HeldOnce(sl, Append(queue, c))
    <3>1. \A k \in DOMAIN sl : sl[k].current # None => k \in DOMAIN slots /\ sl[k] = slots[k]
      BY <2>4 DEF Empty
    <3>2. \A k \in DOMAIN sl : sl[k].current # None => sl[k].current \notin ToSet(Append(queue, c))
      BY <1>1, <2>6, <2>7, <3>1 DEF Pumped, HeldOnce, Held
    <3>3. \A j, k \in DOMAIN sl : sl[j].current # None /\ sl[j].current = sl[k].current => j = k
      BY <1>1, <3>1 DEF Pumped, HeldOnce
    <3> QED
      BY <2>8, <3>2, <3>3 DEF HeldOnce
  <2>10. Staffed(sl, alive)
    <3>1. \A k \in DOMAIN sl : sl[k].handle # None \/ sl[k].current # None
                               => k \in DOMAIN slots /\ sl[k] = slots[k]
      BY <2>4 DEF Empty
    <3> QED
      BY <1>1, <2>5, <3>1 DEF Pumped, Staffed
  <2>11. /\ Len(Append(queue, c)) <= QueueLimit
         /\ \/ Len(Append(queue, c)) <= 1
            \/ FreeSlots(sl) = {}
    <3>1. CASE queue = <<>>
      <4>1. Len(Append(queue, c)) = 1
        BY <2>6, <3>1
      <4> QED
        BY <4>1, PoolAssumption DEF PoolAssumption
    <3>2. CASE queue # <<>>
      <4>1. Len(Append(queue, c)) <= QueueLimit
        BY <1>5, <2>6, PoolAssumption DEF QueueFull, PoolAssumption
      <4>2. slots # <<>> /\ \A k \in DOMAIN slots : slots[k].current # None
        BY <1>1, <3>2 DEF Pumped
      <4>3. DOMAIN sl = DOMAIN slots
        BY <1>1, <2>4, <4>2 DEF Pumped, SlotLists
      <4> QED
        BY <2>4, <4>1, <4>2, <4>3 DEF FreeSlots
    <3> QED
      BY <3>1, <3>2
  <2>12. \A k \in DOMAIN sl : sl[k].timer = TimerFor(sl[k]) /\ k # None
    BY <1>1, <2>4 DEF Pumped, TimerFor, Empty, None
  <2>13. Ready(sl, Append(queue, c), alive, None)
    <3>1. alive \subseteq Made /\ Made \cap ToSet(Append(queue, c)) = {}
      BY <1>1, <2>6, <2>7 DEF Pumped
    <3>2. sl # <<>> /\ sl \in SlotLists
      <4>1. 1 \in DOMAIN sl
        BY <2>4, PoolAssumption DEF PoolAssumption
      <4>2. sl # <<>>
        BY <4>1
      <4> QED
        BY <2>4, <4>2 DEF SlotLists
    <3> QED
      BY <2>6, <2>9, <2>10, <2>11, <2>12, <3>1, <3>2 DEF Ready
  <2>14. Held(sl, Append(queue, c)) = Waiting(answer')
    BY <1>1, <2>3, <2>5, <2>6 DEF Held
  <2>15. called' \in 0..MaxCalls /\ called <= called'
    BY <1>2 DEF c
  <2>16. restarts' = restarts /\ outbox' \in [Handles -> Seq(Posts)]
    BY <1>1, <1>2 DEF Kept
  <2> QED
    BY <2>1, <2>2, <2>13, <2>14, <2>15, <2>16, PumpKeepsIInv
<1> QED
  BY <1>4, <1>5

LEMMA NextKeepsIInv ==
  ASSUME IInv, [Next]_vars
  PROVE  IInv'
<1>1. CASE RenderImage
  BY <1>1, RenderImageKeepsIInv
<1>2. CASE Shutdown
  BY <1>2, ShutdownKeepsIInv
<1>3. ASSUME NEW h \in Made, HandleReply(h) \/ HandleFailure(h) \/ Reply(h) \/ Fail(h) \/ Drop(h)
      PROVE  IInv'
  BY <1>3, HandleReplyKeepsIInv, HandleFailureKeepsIInv, WorkerStepsKeepIInv
<1>4. ASSUME NEW i \in 1..Workers, OnTimeout(i) \/ OnIdle(i) PROVE IInv'
  BY <1>4, OnTimeoutKeepsIInv, OnIdleKeepsIInv
<1>5. CASE UNCHANGED vars
  BY <1>5, WorkingKeepsIInv, TypedIsTyped DEF vars
<1> QED
  BY <1>1, <1>2, <1>3, <1>4, <1>5 DEF Next

LEMMA PoolInvariant == Spec => []IInv
BY InitIInv, NextKeepsIInv, PTL DEF Spec

(* Between any two callbacks, for any number of workers and any limit of   *)
(* the queue: every unanswered call is held once, none queues beside a     *)
(* free slot, no worker runs unheld, every timer is the right one.         *)
THEOREM PoolStaysSound == Spec => []PoolIsSound
BY PoolInvariant, PTL DEF IInv

-----------------------------------------------------------------------------
(* What a step does to the answers *)

LEMMA SettlingAnswersOne ==
  ASSUME IInv, NEW i \in DOMAIN slots, NEW a,
         \/ Settle(i, slots, alive, a)
         \/ Settle(i, Recycled(slots, i), Killed(i), a)
  PROVE  \A c \in Calls :
           \/ answer'[c] = answer[c]
           \/ answer[c] = "waiting" /\ c = slots[i].current /\ answer'[c] = a
<1> DEFINE d == slots[i].current
<1>1. Recycled(slots, i)[i].current = d
  <2>1. slots \in SlotLists
    BY WhatIInvSays DEF Pumped
  <2>2. slots[i] \in Slots
    BY <2>1, SlotsAreTyped
  <2>3. Recycled(slots, i)[i] = [slots[i] EXCEPT !.handle = None]
    BY DEF Recycled
  <2>4. "current" \in DOMAIN slots[i]
    BY <2>2 DEF Slots
  <2> QED
    BY <2>2, <2>3, <2>4 DEF Slots
<1>2. answer' = IF d = None THEN answer ELSE [answer EXCEPT ![d] = a]
  BY <1>1 DEF Settle
<1>3. d # None => d \in Waiting(answer)
  <2>1. Held(slots, queue) = Waiting(answer)
    BY WhatIInvSays
  <2> QED
    BY <2>1 DEF Held
<1>4. answer \in [Calls -> Answers]
  BY TypedIsTyped
<1> HIDE DEF d
<1>5. CASE d = None
  BY <1>2, <1>5
<1>6. CASE d # None
  BY <1>2, <1>3, <1>4, <1>6 DEF Waiting, d
<1> QED
  BY <1>5, <1>6

FinalAnswers ==
  \A c \in Calls :
    /\ answer[c] \notin {"none", "waiting"} => answer'[c] = answer[c]
    /\ answer'[c] = "reply" /\ answer[c] # "reply" =>
         \E h \in Made : /\ Len(outbox[h]) > 0
                         /\ Head(outbox[h]) = [kind |-> "reply", call |-> c]

LEMMA StepsKeepAnswers ==
  ASSUME IInv, [Next]_vars
  PROVE  FinalAnswers
<1>1. ASSUME UNCHANGED answer PROVE FinalAnswers
  BY <1>1 DEF FinalAnswers
<1>2. ASSUME NEW i \in DOMAIN slots, NEW a, a # "reply",
             \/ Settle(i, slots, alive, a)
             \/ Settle(i, Recycled(slots, i), Killed(i), a)
      PROVE  FinalAnswers
  BY <1>2, SettlingAnswersOne DEF FinalAnswers
<1>3. ASSUME NEW h \in Made, HandleReply(h) PROVE FinalAnswers
  <2> DEFINE i == SlotOf(h)
             r == Head(outbox[h])
  <2>1. CASE Current(h) /\ Awaited(i, r.call)
    <3>1. i \in DOMAIN slots
      BY <2>1, TypedIsTyped DEF IInv, PoolIsSound, TypeOK, Current, SlotOf
    <3>2. Settle(i, slots, alive, "reply") /\ slots[i].current = r.call
      BY <1>3, <2>1 DEF HandleReply, Awaited
    <3>3. Len(outbox[h]) > 0 /\ r \in Posts /\ r.kind = "reply"
      <4>1. outbox[h] \in Seq(Posts) /\ outbox[h] # <<>> /\ r.kind = "reply"
        BY <1>3, TypedIsTyped DEF HandleReply
      <4> QED
        BY <4>1, HeadTailProperties
    <3>4. r = [kind |-> "reply", call |-> r.call]
      <4> HIDE DEF r
      <4> QED
        BY <3>3 DEF Posts
    <3>5. ASSUME NEW c \in Calls
          PROVE  \/ answer'[c] = answer[c]
                 \/ answer[c] = "waiting" /\ c = slots[i].current /\ answer'[c] = "reply"
      BY <3>1, <3>2, SettlingAnswersOne
    <3> HIDE DEF i, r
    <3>6. ASSUME NEW c \in Calls, answer'[c] = "reply", answer[c] # "reply"
          PROVE  r = [kind |-> "reply", call |-> c]
      BY <3>2, <3>4, <3>5, <3>6
    <3> QED
      BY <3>3, <3>5, <3>6 DEF FinalAnswers, r
  <2>2. CASE ~(Current(h) /\ Awaited(i, r.call))
    BY <1>1, <1>3, <2>2 DEF HandleReply, pool
  <2> QED
    BY <2>1, <2>2
<1>4. ASSUME NEW h \in Made, HandleFailure(h) PROVE FinalAnswers
  <2>1. CASE Current(h)
    <3>1. SlotOf(h) \in DOMAIN slots
      BY <2>1, TypedIsTyped DEF IInv, PoolIsSound, TypeOK, Current, SlotOf
    <3>2. Settle(SlotOf(h), Recycled(slots, SlotOf(h)), Killed(SlotOf(h)), "error")
      BY <1>4, <2>1 DEF HandleFailure
    <3> QED
      BY <1>2, <3>1, <3>2
  <2>2. CASE ~Current(h)
    BY <1>1, <1>4, <2>2 DEF HandleFailure
  <2> QED
    BY <2>1, <2>2
<1>5. ASSUME NEW i \in 1..Workers, OnTimeout(i) PROVE FinalAnswers
  BY <1>2, <1>5 DEF OnTimeout
<1>6. CASE RenderImage
  <2>1. PICK a \in {"busy", "waiting"} : answer' = [answer EXCEPT ![called + 1] = a]
    BY <1>6 DEF RenderImage
  <2>2. called + 1 \in Calls /\ answer[called + 1] = "none"
    <3>1. called \in 0..MaxCalls /\ called < MaxCalls
      BY <1>6, TypedIsTyped DEF RenderImage
    <3>2. called + 1 \in Calls
      BY <3>1, PoolAssumption DEF Calls, PoolAssumption
    <3> QED
      BY <3>1, <3>2 DEF IInv, NamesAreFresh
  <2>3. answer \in [Calls -> Answers]
    BY TypedIsTyped
  <2> QED
    BY <2>1, <2>2, <2>3 DEF FinalAnswers
<1>7. CASE Shutdown
  <2>1. Outstanding = Waiting(answer)
    BY WhatIInvSays DEF Outstanding, Held
  <2>2. answer' = [c \in Calls |-> IF c \in Waiting(answer) THEN "closed" ELSE answer[c]]
    BY <1>7, <2>1 DEF Shutdown
  <2> QED
    BY <2>2 DEF FinalAnswers, Waiting
<1>8. ASSUME NEW h \in Made, Reply(h) \/ Fail(h) \/ Drop(h) PROVE FinalAnswers
  BY <1>1, <1>8 DEF Reply, Fail, Drop, pool
<1>9. ASSUME NEW i \in 1..Workers, OnIdle(i) PROVE FinalAnswers
  BY <1>1, <1>9 DEF OnIdle
<1>10. CASE UNCHANGED vars
  BY <1>1, <1>10 DEF vars, pool
<1> QED
  BY <1>3, <1>4, <1>5, <1>6, <1>7, <1>8, <1>9, <1>10 DEF Next

(* No reply that comes late - after a timeout, another job in the slot, or *)
(* a restart of the pool - answers a call a second time or answers another *)
(* call, however many workers, calls and restarts there are.               *)
THEOREM AnswersStayFinal == Spec => AnswersAreFinal
<1>1. IInv /\ [Next]_vars => [FinalAnswers]_vars
  BY StepsKeepAnswers
<1>2. Spec => [][FinalAnswers]_vars
  <2> HIDE DEF FinalAnswers
  <2> QED
    BY <1>1, PoolInvariant, PTL DEF Spec
<1> QED
  BY <1>2 DEF AnswersAreFinal, FinalAnswers
=============================================================================
