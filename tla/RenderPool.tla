----------------------------- MODULE RenderPool -----------------------------
(***************************************************************************)
(* The pool of render workers (render-pool.ts): slots with a worker, the   *)
(* job it has and one timer, and a bounded queue in front of them.  The    *)
(* pool's code runs on one event loop, a callback at a time; what comes in *)
(* any order are calls, replies and errors of workers, and timers.         *)
(*                                                                         *)
(* Workers are threads, modelled by what the pool sees of them: a worker   *)
(* replies to its job at most once, may fail at any time, and what it had  *)
(* posted when it was terminated arrives later or not at all.              *)
(***************************************************************************)
EXTENDS Naturals, Sequences, FiniteSets, SequencesExt

CONSTANTS
  MaxCalls,     \* bound on the calls of renderImage
  Workers,      \* options.workers
  QueueLimit,   \* options.queueLimit
  MaxRestarts,  \* bound on shutdowns and reconfigurations
  MaxFailures   \* bound on the workers that fail

ASSUME PoolAssumption ==
  /\ {MaxCalls, MaxRestarts, MaxFailures} \subseteq Nat
  /\ Workers \in Nat \ {0} /\ QueueLimit \in Nat \ {0}

Calls   == 1..MaxCalls
Handles == Calls    \* a worker is named by the call it was made for
None    == 0

VARIABLES
  called,    \* nextId - 1: calls so far
  queue,
  slots,     \* empty until the first call and after a shutdown
  answer,    \* what the promise of a call was settled with
  restarts

VARIABLES    \* the workers
  workers,   \* those made so far: the slot object their callbacks hold, [slot, pool]
  alive,     \* not terminated
  failures,  \* how many have failed
  job,       \* what a worker is rendering
  outbox     \* what a worker has posted and the loop has not delivered

pool == <<called, queue, slots, answer, restarts>>
vars == <<pool, workers, alive, failures, job, outbox>>

Empty == [handle |-> None, current |-> None, timer |-> "none"]

Init ==
  /\ called = 0 /\ queue = <<>> /\ slots = <<>> /\ restarts = 0
  /\ answer = [c \in Calls |-> "none"]
  /\ workers = [h \in {} |-> None] /\ alive = {} /\ failures = 0
  /\ job = [h \in Handles |-> None] /\ outbox = [h \in Handles |-> <<>>]

-----------------------------------------------------------------------------
(* The functions of the pool *)

Made == DOMAIN workers

Recycled(sl, i) == [sl EXCEPT ![i].handle = None]
Killed(i)       == alive \ {slots[i].handle}

FreeSlots_WithWorker(sl) == {k \in DOMAIN sl : sl[k].current = None /\ sl[k].handle # None}
FreeSlots(sl)            == {k \in DOMAIN sl : sl[k].current = None}

(* slots.find takes the first free slot, so that they take calls in order. *)
Turn(k, free) == Cardinality({j \in free : j <= k})

(* A slot that has just been given a job; its timer is replaced.           *)
Assigned_IdleTimer(slot, h, c) ==
  [handle |-> h, current |-> c, timer |-> IF slot.timer = "none" THEN "job" ELSE slot.timer]
Assigned(slot, h, c) == [handle |-> h, current |-> c, timer |-> "job"]

(* pump, then armIdle for slot i: the first free slots take the head of    *)
(* the queue, and a slot without a worker gets a new one.                  *)
Pump(sl, q, live, i) ==
  \E taken \in SUBSET FreeSlots(sl) :
    LET call(k)   == q[Turn(k, taken)]
        handle(k) == IF sl[k].handle # None THEN sl[k].handle ELSE call(k)
        new(h)    == {k \in taken : sl[k].handle = None /\ call(k) = h}
        given(h)  == {k \in taken : handle(k) = h}
    IN  /\ \A k \in FreeSlots(sl) : k \in taken <=> Turn(k, FreeSlots(sl)) <= Len(q)
        /\ queue' = SubSeq(q, Cardinality(taken) + 1, Len(q))
        /\ slots' = [k \in DOMAIN sl |->
                       CASE k \in taken -> Assigned(sl[k], handle(k), call(k))
                         [] k \notin taken /\ k = i /\ sl[k].handle # None ->
                              [sl[k] EXCEPT !.timer = "idle"]
                         [] OTHER -> sl[k]]
        /\ workers' = [h \in Made \cup {c \in Handles : new(c) # {}} |->
                         IF new(h) = {} THEN workers[h]
                         ELSE [slot |-> CHOOSE k \in new(h) : TRUE, pool |-> restarts]]
        /\ alive' = live \cup {handle(k) : k \in taken}
        /\ job' = [h \in Handles |->
                     IF given(h) # {} THEN call(CHOOSE k \in given(h) : TRUE)
                     ELSE IF h \in live THEN job[h] ELSE None]

(* settle: sl are the slots after a recycle, if there was one.             *)
Settle(i, sl, live, a) ==
  LET c == sl[i].current
  IN  /\ answer' = IF c = None THEN answer ELSE [answer EXCEPT ![c] = a]
      /\ Pump([sl EXCEPT ![i].current = None, ![i].timer = "none"], queue, live, i)
      /\ UNCHANGED <<called, restarts>>

QueueFull == Len(queue) >= QueueLimit

RenderImage ==
  LET c  == called + 1
      sl == IF slots = <<>> THEN [i \in 1..Workers |-> Empty] ELSE slots
  IN  /\ called < MaxCalls /\ called' = c
      /\ IF QueueFull
         THEN /\ answer' = [answer EXCEPT ![c] = "busy"] /\ slots' = sl
              /\ UNCHANGED <<queue, workers, alive, job>>
         ELSE /\ answer' = [answer EXCEPT ![c] = "waiting"]
              /\ Pump(sl, Append(queue, c), alive, None)
      /\ UNCHANGED <<restarts, outbox, failures>>

(* A callback of a worker of an earlier pool holds a slot that is cleared. *)
Current(h) == workers[h].pool = restarts /\ slots # <<>>
SlotOf(h)  == workers[h].slot

(* A reply to a job that was given up is ignored.                          *)
Awaited_Busy(i, c) == slots[i].current # None
Awaited(i, c)      == slots[i].current = c

HandleReply(h) ==
  LET r == Head(outbox[h])
      i == SlotOf(h)
  IN  /\ UNCHANGED failures
      /\ outbox[h] # <<>> /\ r.kind = "reply"
      /\ outbox' = [outbox EXCEPT ![h] = Tail(@)]
      /\ IF Current(h) /\ Awaited(i, r.call)
         THEN Settle(i, slots, alive, "reply")
         ELSE UNCHANGED <<pool, workers, alive, job>>

(* The error of a worker is not compared with the worker the slot has now. *)
HandleFailure(h) ==
  /\ outbox[h] # <<>> /\ Head(outbox[h]).kind = "failure"
  /\ UNCHANGED failures
  /\ outbox' = [outbox EXCEPT ![h] = Tail(@)]
  /\ IF Current(h)
     THEN Settle(SlotOf(h), Recycled(slots, SlotOf(h)), Killed(SlotOf(h)), "error")
     ELSE Pump(slots, queue, alive, None) /\ UNCHANGED <<called, answer, restarts>>

OnTimeout(i) ==
  /\ i \in DOMAIN slots /\ slots[i].timer = "job"
  /\ Settle(i, Recycled(slots, i), Killed(i), "timeout")
  /\ UNCHANGED <<outbox, failures>>

OnIdle(i) ==
  /\ i \in DOMAIN slots /\ slots[i].timer = "idle"
  /\ slots' = [Recycled(slots, i) EXCEPT ![i].timer = "none"]
  /\ alive' = Killed(i)
  /\ job' = [h \in Handles |-> IF h \in alive' THEN job[h] ELSE None]
  /\ UNCHANGED <<called, queue, answer, restarts, workers, outbox, failures>>

(* shutdownRenderPool, also the first step of configureRenderPool.         *)
Outstanding == ToSet(queue) \cup ({slots[i].current : i \in DOMAIN slots} \ {None})
Shutdown ==
  /\ restarts < MaxRestarts /\ restarts' = restarts + 1
  /\ answer' = [c \in Calls |-> IF c \in Outstanding THEN "closed" ELSE answer[c]]
  /\ queue' = <<>> /\ slots' = <<>>
  /\ alive' = alive \ {slots[i].handle : i \in DOMAIN slots}
  /\ job' = [h \in Handles |-> IF h \in alive' THEN job[h] ELSE None]
  /\ UNCHANGED <<called, workers, outbox, failures>>

-----------------------------------------------------------------------------
(* Workers *)

Post(h, m) == outbox' = [outbox EXCEPT ![h] = Append(@, m)]

Reply(h) ==
  /\ job[h] # None
  /\ Post(h, [kind |-> "reply", call |-> job[h]])
  /\ job' = [job EXCEPT ![h] = None]
  /\ UNCHANGED <<pool, workers, alive, failures>>

(* An uncaught error ends what the worker was rendering.                   *)
Fail(h) ==
  /\ failures < MaxFailures /\ failures' = failures + 1
  /\ h \in alive /\ ~\E m \in ToSet(outbox[h]) : m.kind = "failure"
  /\ Post(h, [kind |-> "failure", call |-> None])
  /\ job' = [job EXCEPT ![h] = None]
  /\ UNCHANGED <<pool, workers, alive>>

(* What a terminated worker had posted may be dropped.                     *)
Drop(h) ==
  /\ h \notin alive /\ outbox[h] # <<>>
  /\ outbox' = [outbox EXCEPT ![h] = <<>>]
  /\ UNCHANGED <<pool, workers, alive, failures, job>>

-----------------------------------------------------------------------------
Next ==
  \/ RenderImage \/ Shutdown
  \/ \E h \in Made : HandleReply(h) \/ HandleFailure(h) \/ Reply(h) \/ Fail(h) \/ Drop(h)
  \/ \E i \in 1..Workers : OnTimeout(i) \/ OnIdle(i)

(* Timers fire; workers need not answer.                                   *)
Fairness == \A i \in 1..Workers : WF_vars(OnTimeout(i))
Spec == Init /\ [][Next]_vars /\ Fairness

-----------------------------------------------------------------------------
(* Properties *)

Answers == {"none", "waiting", "reply", "error", "timeout", "busy", "closed"}
Posts   == [kind : {"reply"}, call : Calls] \cup [kind : {"failure"}, call : {None}]

Slots   == [handle : Handles \cup {None}, current : Calls \cup {None},
            timer : {"none", "job", "idle"}]

TypeOK ==
  /\ called \in 0..MaxCalls /\ queue \in Seq(Calls) /\ Len(queue) <= QueueLimit
  /\ slots \in [1..Workers -> Slots] \cup {<<>>}
  /\ answer \in [Calls -> Answers] /\ restarts \in 0..MaxRestarts
  /\ workers \in [Made -> [slot : 1..Workers, pool : 0..MaxRestarts]]
  /\ Made \subseteq Handles /\ alive \subseteq Made
  /\ job \in [Handles -> Calls \cup {None}] /\ outbox \in [Handles -> Seq(Posts)]

(* A call that has not been answered is held in exactly one place, in the  *)
(* queue or by a slot, and nothing else is held there.                     *)
Rendering == {i \in DOMAIN slots : slots[i].current # None}
WaitingIsHeld ==
  /\ Outstanding = {c \in Calls : answer[c] = "waiting"}
  /\ IsInjective(queue)
  /\ \A i \in Rendering : slots[i].current \notin ToSet(queue)
  /\ \A i, k \in Rendering : slots[i].current = slots[k].current => i = k

(* No call queues beside a slot that could take it, whichever callback ran *)
(* last.                                                                   *)
NoneWaitsInVain ==
  queue # <<>> => slots # <<>> /\ \A i \in DOMAIN slots : slots[i].current # None

(* Every worker that has not been terminated is the worker of one slot,    *)
(* and a slot that is rendering has one: a worker no slot holds would run  *)
(* for ever.                                                               *)
WorkersAreHeld ==
  /\ alive = {slots[i].handle : i \in DOMAIN slots} \ {None}
  /\ \A i \in DOMAIN slots : slots[i].current # None => slots[i].handle # None
  /\ \A i, k \in DOMAIN slots :
       i # k /\ slots[i].handle # None => slots[i].handle # slots[k].handle

(* The one timer of a slot is the right one: a timeout while it renders,   *)
(* the idle timer while its worker waits, none without a worker.           *)
TimersMatch ==
  \A i \in DOMAIN slots :
    slots[i].timer = CASE slots[i].current # None -> "job"
                       [] slots[i].current = None /\ slots[i].handle # None -> "idle"
                       [] OTHER -> "none"

(* The pool is sound between any two callbacks: no call is lost or held     *)
(* twice, none queues beside a free slot, no worker runs on unheld, and    *)
(* the timer that is due is the right one.                                 *)
PoolIsSound == TypeOK /\ WaitingIsHeld /\ NoneWaitsInVain /\ WorkersAreHeld /\ TimersMatch

(* A call is answered once, and by a worker's reply only if that reply is  *)
(* to this very call - also when replies come late, after a timeout,       *)
(* another job in the same slot or a restart.                              *)
AnswersAreFinal ==
  [][\A c \in Calls :
       /\ answer[c] \notin {"none", "waiting"} => answer'[c] = answer[c]
       /\ answer'[c] = "reply" /\ answer[c] # "reply" =>
            \E h \in Made : /\ Len(outbox[h]) > 0
                            /\ Head(outbox[h]) = [kind |-> "reply", call |-> c]]_vars

(* Every call is answered, though workers may hang: calls are bounded, so  *)
(* that there is a time after which none waits.                            *)
EveryCallAnswered == []<>(\A c \in Calls : answer[c] # "waiting")
=============================================================================
