--------------------------- MODULE JobRunsProofs ---------------------------
(***************************************************************************)
(* Proofs about JobRuns for every number of bodies, items and rows.        *)
(***************************************************************************)
EXTENDS JobRuns, TLAPS, WellFoundedInduction, FiniteSetTheorems, SequenceTheorems

Covers(checkpoint) == 1..checkpoint.at \subseteq checkpoint.did

RowIsSound(row) ==
  /\ row \in Rows /\ Covers(row.result) /\ row.late <= 1
  /\ kind = "changelog" => row.late = 0

(* A batch begun after a request to cancel is the body's last.             *)
MarksFit(pc, row) ==
  /\ pc \in {"begin", "work", "finish"} => row.late = 0
  /\ pc \in {"record", "check"} /\ row.late = 1 => row.cancelled

TasksInv ==
  /\ tasks \in [Bodies -> Tasks]
  /\ \A w \in Bodies : Covers(tasks[w].at)
  /\ \A w \in Bodies : Busy(w) => /\ tasks[w].run \in Running
                                  /\ MarksFit(tasks[w].pc, runs[tasks[w].run])
  /\ \A v, w \in Bodies : Busy(v) /\ Busy(w) => v = w
  /\ process = "down" => \A w \in Bodies : tasks[w] = Idle

RunsInv ==
  /\ runs \in Seq(Rows) /\ Len(runs) <= MaxRuns
  /\ \A r \in DOMAIN runs : RowIsSound(runs[r])
  /\ \A r, s \in Running : r = s

RestInv ==
  /\ kind \in Kinds /\ process \in {"up", "stopping", "down"}
  /\ cancel \in 0..Len(runs)
  /\ posts \in [1..Items -> Nat] /\ excused \in [1..Items -> Nat]
  /\ ends \in 0..MaxEnds /\ lost \subseteq DOMAIN runs
  /\ process = "stopping" => ends < MaxEnds

IInv == TasksInv /\ RunsInv /\ RestInv

USE JobAssumption DEF JobAssumption

-----------------------------------------------------------------------------
(* Which row a job goes on from *)

LEMMA LeastNumber ==
  ASSUME NEW T \in SUBSET Nat, T # {}
  PROVE  \E x \in T : \A y \in T : x <= y
<1> DEFINE less == {s \in Nat \X Nat : s[1] < s[2]}
<1>1. IsWellFoundedOn(less, Nat)
  BY NatLessThanWellFounded DEF OpToRel
<1>2. PICK x \in T : \A y \in T : <<y, x>> \notin less
  <2> HIDE DEF less
  <2> QED
    BY <1>1, WFMin
<1>3. ASSUME NEW y \in T, y < x PROVE FALSE
  <2>1. <<y, x>> \in less
    BY <1>3
  <2> QED
    BY <1>2, <2>1
<1>4. \A y \in T : y \in Nat /\ ~(y < x)
  BY <1>3
<1> QED
  BY <1>4

LEMMA LatestIsAMember ==
  ASSUME NEW n \in Nat, NEW S \in SUBSET (1..n), S # {}
  PROVE  Latest(S) \in S
<1> DEFINE back == {n - r : r \in S}
<1>1. PICK x \in back : \A y \in back : x <= y
  <2>1. \A r \in S : n - r \in Nat
    OBVIOUS
  <2>2. back \in SUBSET Nat /\ back # {}
    BY <2>1
  <2> HIDE DEF back
  <2> QED
    BY <2>2, LeastNumber
<1>2. PICK r \in S : x = n - r
  OBVIOUS
<1>3. \A s \in S : s <= r
  <2> TAKE s \in S
  <2>1. n - s \in back
    OBVIOUS
  <2> HIDE DEF back
  <2> QED
    BY <1>1, <1>2, <2>1
<1> HIDE DEF back
<1> QED
  BY <1>3 DEF Latest

LEMMA FreshIsSound == Fresh \in Checkpoints /\ Covers(Fresh)
BY DEF Fresh, Checkpoints, Covers

(* Whatever a job goes on from is a sound checkpoint.                      *)
LEMMA SourcesAreSound ==
  ASSUME IInv
  PROVE  /\ Watermark \in Checkpoints /\ Covers(Watermark)
         /\ ToResume \in Checkpoints /\ Covers(ToResume)
<1> DEFINE S == {r \in Kept : runs[r].stored}
<1>1. S \in SUBSET (1..Len(runs)) /\ Len(runs) \in Nat /\ DOMAIN runs = 1..Len(runs)
  BY LenProperties DEF Kept, IInv, RunsInv
<1>2. LatestForResume = NoRun \/ LatestForResume \in DOMAIN runs
  <2>1. CASE S = {}
    BY <2>1 DEF LatestForResume, Latest
  <2>2. CASE S # {}
    <3> HIDE DEF S
    <3>1. Latest(S) \in S
      BY <1>1, <2>2, LatestIsAMember
    <3> QED
      BY <1>1, <3>1 DEF LatestForResume, S
  <2> QED
    BY <2>1, <2>2
<1>3. \A r \in DOMAIN runs : runs[r].result \in Checkpoints /\ Covers(runs[r].result)
  BY DEF IInv, RunsInv, RowIsSound, Rows
<1> QED
  BY <1>2, <1>3, FreshIsSound DEF Watermark, ToResume

-----------------------------------------------------------------------------
(* Rows *)

LEMMA RunsAreNumbered ==
  ASSUME RunsInv
  PROVE  /\ Len(runs) \in Nat /\ DOMAIN runs = 1..Len(runs)
         /\ \A r \in DOMAIN runs : runs[r] \in Rows
BY LenProperties, ElementOfSeq DEF RunsInv

LEMMA RowChanges ==
  ASSUME RunsInv, NEW r \in DOMAIN runs, NEW row \in Rows, runs' = [runs EXCEPT ![r] = row]
  PROVE  /\ runs' \in Seq(Rows) /\ Len(runs') = Len(runs) /\ DOMAIN runs' = DOMAIN runs
         /\ runs'[r] = row /\ \A s \in DOMAIN runs \ {r} : runs'[s] = runs[s]
<1>1. r \in 1..Len(runs) /\ DOMAIN runs = 1..Len(runs) /\ runs \in Seq(Rows)
  BY RunsAreNumbered DEF RunsInv
<1>2. /\ runs' \in Seq(Rows) /\ Len(runs') = Len(runs)
      /\ \A j \in 1..Len(runs) : runs'[j] = IF j = r THEN row ELSE runs[j]
  BY <1>1, ExceptSeq
<1>3. DOMAIN runs' = 1..Len(runs')
  BY <1>2, LenProperties
<1> QED
  BY <1>1, <1>2, <1>3

(* A set of rows no two of which are different has at most one.            *)
LEMMA AtMostOneRuns == ASSUME RunsInv PROVE Cardinality(Running) <= 1
<1>1. CASE Running = {}
  <2>1. Cardinality(Running) = 0
    BY <1>1, FS_EmptySet
  <2> QED
    BY <2>1
<1>2. CASE Running # {}
  <2>1. PICK r \in Running : TRUE
    BY <1>2
  <2>2. Running = {r}
    BY <2>1 DEF RunsInv
  <2>3. Cardinality(Running) = 1
    BY <2>2, FS_Singleton
  <2> QED
    BY <2>3
<1> QED
  BY <1>1, <1>2

(* A step of a body that is at work, which changes its own row at most.    *)
LEMMA BodySteps ==
  ASSUME TasksInv, RunsInv, NEW w \in Bodies, Busy(w), UNCHANGED <<kind, process>>,
         NEW task \in Tasks, tasks' = [tasks EXCEPT ![w] = task], Covers(task.at),
         NEW row, RowIsSound(row),
         runs' = [runs EXCEPT ![tasks[w].run] = row],
         task.pc \in {"begin", "work", "record", "check", "finish", "fail"} =>
           task.run = tasks[w].run /\ row.status = "running" /\ MarksFit(task.pc, row)
  PROVE  TasksInv' /\ RunsInv' /\ Len(runs') = Len(runs) /\ DOMAIN runs' = DOMAIN runs
<1> DEFINE r == tasks[w].run
<1>1. r \in Running /\ r \in DOMAIN runs /\ row \in Rows
  BY DEF TasksInv, Running, RowIsSound
<1>2. /\ runs' \in Seq(Rows) /\ Len(runs') = Len(runs) /\ DOMAIN runs' = DOMAIN runs
      /\ runs'[r] = row /\ \A s \in DOMAIN runs \ {r} : runs'[s] = runs[s]
  BY <1>1, RowChanges
<1>3. /\ tasks' \in [Bodies -> Tasks] /\ tasks'[w] = task
      /\ \A v \in Bodies \ {w} : tasks'[v] = tasks[v] /\ ~Busy(v)
  BY DEF TasksInv
<1>4. Running' \subseteq Running /\ (row.status = "running" => r \in Running')
  BY <1>1, <1>2 DEF Running, RunsInv
<1>5. RunsInv'
  BY <1>1, <1>2, <1>4 DEF RunsInv, RowIsSound
<1>6. process # "down"
  BY DEF TasksInv, Busy, Idle
<1>7. \A v \in Bodies : Busy(v)' => v = w
  BY <1>3 DEF Busy
<1>8. Busy(w)' => tasks'[w].run = r /\ row.status = "running" /\ MarksFit(task.pc, row)
  BY <1>3 DEF Busy
<1>9. \A v \in Bodies : Covers(tasks'[v].at)
  BY <1>3 DEF TasksInv
<1>10. \A v \in Bodies : Busy(v)' => /\ tasks'[v].run \in Running'
                                     /\ MarksFit(tasks'[v].pc, runs'[tasks'[v].run])
  BY <1>2, <1>3, <1>4, <1>7, <1>8
<1> HIDE DEF r
<1>11. TasksInv'
  BY <1>3, <1>6, <1>7, <1>9, <1>10 DEF TasksInv, Busy, Covers, MarksFit
<1> QED
  BY <1>2, <1>5, <1>11

(* A step of a body that has no row.                                       *)
LEMMA OtherSteps ==
  ASSUME TasksInv, RunsInv, NEW w \in Bodies, ~Busy(w), UNCHANGED <<kind, process, runs>>,
         process # "down",
         NEW task \in Tasks, tasks' = [tasks EXCEPT ![w] = task], Covers(task.at),
         task.pc \in {"idle", "claim", "start"}
  PROVE  TasksInv' /\ RunsInv'
<1>1. /\ tasks' \in [Bodies -> Tasks] /\ tasks'[w] = task
      /\ \A v \in Bodies \ {w} : tasks'[v] = tasks[v]
  BY DEF TasksInv
<1>2. RunsInv' /\ Running' = Running
  BY DEF RunsInv, Running, RowIsSound
<1>3. ~Busy(w)' /\ \A v \in Bodies \ {w} : Busy(v)' <=> Busy(v)
  BY <1>1 DEF Busy
<1>4. TasksInv'
  BY <1>1, <1>2, <1>3 DEF TasksInv, Covers, MarksFit
<1> QED
  BY <1>2, <1>4

(* Steps that leave the bodies alone and change no row's status or mark.   *)
LEMMA RowsKeep ==
  ASSUME TasksInv, RunsInv, UNCHANGED <<kind, process, tasks>>,
         runs' \in Seq(Rows), Len(runs') = Len(runs), DOMAIN runs' = DOMAIN runs,
         \A r \in DOMAIN runs : RowIsSound(runs'[r]),
         \A r \in DOMAIN runs : runs'[r].status = "running" <=> runs[r].status = "running",
         \A r \in DOMAIN runs : runs[r].status = "running" =>
            runs'[r].late = runs[r].late /\ (runs[r].cancelled => runs'[r].cancelled)
  PROVE  TasksInv' /\ RunsInv'
<1>1. Running' = Running
  BY DEF Running
<1>2. RunsInv'
  BY <1>1 DEF RunsInv, RowIsSound
<1>3. \A w \in Bodies : Busy(w)' <=> Busy(w)
  BY DEF Busy
<1>4. \A w \in Bodies : Busy(w)' => /\ tasks'[w].run \in Running'
                                    /\ MarksFit(tasks'[w].pc, runs'[tasks'[w].run])
  BY <1>1, <1>3 DEF TasksInv, MarksFit, Running
<1>5. TasksInv'
  BY <1>1, <1>3, <1>4 DEF TasksInv, Covers, MarksFit
<1> QED
  BY <1>2, <1>5

-----------------------------------------------------------------------------
(* The actions *)

LEMMA IdleIsFine == Idle \in Tasks /\ Covers(Idle.at) /\ Idle.pc = "idle"
<1>1. /\ Idle.at = Fresh
      /\ Idle = [pc |-> "idle", inside |-> FALSE, attempt |-> 0, run |-> 0, at |-> Fresh]
  BY DEF Idle, NoRun
<1>2. 0 \in 0..MaxRuns
  OBVIOUS
<1> QED
  BY <1>1, <1>2, FreshIsSound DEF Tasks

LEMMA InitIInv == RunsInit => IInv
<1> SUFFICES ASSUME RunsInit PROVE IInv
  OBVIOUS
<1>1. /\ FirstRow \in Rows /\ RowIsSound(FirstRow) /\ FirstRow.status # "running"
  <2>1. Done1 \in Checkpoints /\ Covers(Done1)
    BY DEF Done1, Checkpoints, Covers
  <2> DEFINE status == IF kind = "images" THEN "failed" ELSE "succeeded"
  <2>2. /\ FirstRow = [status |-> status, stored |-> TRUE, result |-> Done1,
                       cancelled |-> FALSE, late |-> 0]
        /\ status \in {"failed", "succeeded"}
    <3>1. FirstRow = [Row EXCEPT !.status = status, !.stored = TRUE, !.result = Done1]
      BY Zenon DEF FirstRow
    <3> HIDE DEF status
    <3>2. FirstRow = [status |-> status, stored |-> TRUE, result |-> Done1,
                      cancelled |-> FALSE, late |-> 0]
      BY <3>1 DEF Row
    <3> QED
      BY <3>2 DEF status
  <2> QED
    BY <2>1, <2>2 DEF RowIsSound, Rows
<1>2. runs \in Seq(Rows) /\ Len(runs) = 1 /\ DOMAIN runs = {1} /\ runs[1] = FirstRow
  BY <1>1 DEF RunsInit
<1>3. RunsInv
  BY <1>1, <1>2 DEF RunsInv, Running
<1>4. Idle \in Tasks /\ Covers(Idle.at)
  BY IdleIsFine
<1>5. TasksInv
  BY <1>4 DEF RunsInit, TasksInv, Busy, Idle
<1>6. RestInv
  BY <1>2 DEF RunsInit, RestInv, NoRun
<1> QED
  BY <1>3, <1>5, <1>6 DEF IInv

LEMMA RequestKeepsIInv == ASSUME IInv, NEW w \in Bodies, Request(w) PROVE IInv'
<1>1. PICK inside \in BOOLEAN, at \in Checkpoints : Covers(at) /\ Begun(w, inside, at)
  BY SourcesAreSound, FreshIsSound DEF Request
<1> DEFINE task == [Idle EXCEPT !.pc = "claim", !.inside = inside, !.at = at]
<1>2. task \in Tasks /\ task.pc = "claim" /\ task.at = at
  BY <1>1, IdleIsFine DEF Tasks
<1> HIDE DEF task
<1>3. tasks' = [tasks EXCEPT ![w] = task] /\ ~Busy(w) /\ process # "down"
  BY <1>1 DEF Begun, Request, Busy, Idle, task
<1>4. UNCHANGED <<kind, process, runs, cancel, history>>
  BY DEF Request
<1> QED
  BY <1>1, <1>2, <1>3, <1>4, OtherSteps DEF IInv, RestInv, history

LEMMA ClaimKeepsIInv == ASSUME IInv, NEW w \in Bodies, Claim(w) PROVE IInv'
<1> DEFINE task == IF Running # {} THEN Idle ELSE [tasks[w] EXCEPT !.pc = "start"]
<1>1. /\ tasks[w] \in Tasks /\ Covers(tasks[w].at) /\ ~Busy(w) /\ process # "down"
  BY DEF Claim, IInv, TasksInv, At, Busy, Idle
<1>2. task \in Tasks /\ task.pc \in {"idle", "start"} /\ Covers(task.at)
  BY <1>1, IdleIsFine DEF Tasks
<1>3. tasks' = [tasks EXCEPT ![w] = task]
  BY <1>1 DEF Claim, Leave, Go, IInv, TasksInv
<1>4. UNCHANGED <<kind, process, runs, cancel, history>>
  BY DEF Claim
<1> HIDE DEF task
<1> QED
  BY <1>1, <1>2, <1>3, <1>4, OtherSteps DEF IInv, RestInv, history

LEMMA StartKeepsIInv == ASSUME IInv, NEW w \in Bodies, Start(w) PROVE IInv'
<1>1. /\ tasks[w] \in Tasks /\ Covers(tasks[w].at) /\ ~Busy(w) /\ process # "down"
  BY DEF Start, IInv, TasksInv, At, Busy, Idle
<1>2. UNCHANGED <<kind, process, cancel, history>>
  BY DEF Start
<1>3. CASE Free
  <2> DEFINE n == Len(runs)
             task == [tasks[w] EXCEPT !.pc = "begin", !.run = n + 1]
  <2>1. /\ n \in Nat /\ DOMAIN runs = 1..n /\ n < MaxRuns /\ \A r \in 1..n : runs[r] \in Rows
    BY RunsAreNumbered DEF IInv, Start
  <2>2. Row \in Rows /\ RowIsSound(Row) /\ Row.status = "running" /\ Row.late = 0
    BY DEF Row, Rows, Fresh, Checkpoints, RowIsSound, Covers
  <2>3. runs' = Append(runs, Row) /\ tasks' = [tasks EXCEPT ![w] = task]
    BY <1>1, <1>3 DEF Start, IInv, TasksInv
  <2>4. /\ runs' \in Seq(Rows) /\ Len(runs') = n + 1 /\ DOMAIN runs' = 1..n + 1
        /\ runs'[n + 1] = Row /\ \A r \in 1..n : runs'[r] = runs[r]
    BY <2>1, <2>2, <2>3 DEF IInv, RunsInv
  <2>5. Running = {} /\ Running' = {n + 1}
    BY <1>3, <2>1, <2>2, <2>4 DEF Free, Running
  <2>6. RunsInv'
    BY <1>2, <2>1, <2>2, <2>4, <2>5 DEF IInv, RunsInv, RowIsSound
  <2>7. \A v \in Bodies : ~Busy(v)
    BY <2>5 DEF IInv, TasksInv
  <2>8. /\ task \in Tasks /\ task.pc = "begin" /\ task.run = n + 1 /\ task.at = tasks[w].at
    <3>1. n + 1 \in 0..MaxRuns
      BY <2>1
    <3> DEFINE number == n + 1
    <3>2. task = [tasks[w] EXCEPT !.pc = "begin", !.run = number]
      OBVIOUS
    <3> HIDE DEF n, task, number
    <3>3. task \in Tasks /\ task.pc = "begin" /\ task.run = number /\ task.at = tasks[w].at
      BY <1>1, <3>1, <3>2 DEF Tasks, number
    <3> QED
      BY <3>3 DEF number
  <2> HIDE DEF task
  <2>9. /\ tasks' \in [Bodies -> Tasks] /\ tasks'[w] = task
        /\ \A v \in Bodies \ {w} : tasks'[v] = tasks[v]
    BY <2>3, <2>8 DEF IInv, TasksInv
  <2>10. \A v \in Bodies : Busy(v)' => v = w
    BY <2>7, <2>9 DEF Busy
  <2>11. TasksInv'
    BY <1>1, <1>2, <2>2, <2>4, <2>5, <2>8, <2>9, <2>10 DEF IInv, TasksInv, MarksFit, Covers
  <2>12. RestInv'
    BY <1>2, <2>1, <2>4 DEF IInv, RestInv, history
  <2> QED
    BY <2>6, <2>11, <2>12 DEF IInv
<1>4. CASE ~Free
  <2> DEFINE task == IF tasks[w].attempt = 2 THEN Idle
                     ELSE [tasks[w] EXCEPT !.pc = "claim", !.attempt = @ + 1]
  <2>1. task \in Tasks /\ task.pc \in {"idle", "claim"} /\ Covers(task.at)
    <3>1. CASE tasks[w].attempt = 2
      BY <3>1, IdleIsFine
    <3>2. CASE tasks[w].attempt # 2
      <4>1. tasks[w].attempt + 1 \in 0..2
        BY <1>1, <3>2 DEF Tasks
      <4>2. task = [pc |-> "claim", inside |-> tasks[w].inside,
                    attempt |-> tasks[w].attempt + 1, run |-> tasks[w].run, at |-> tasks[w].at]
        BY <1>1, <3>2 DEF Tasks
      <4> HIDE DEF task
      <4> QED
        BY <1>1, <4>1, <4>2 DEF Tasks
    <3> QED
      BY <3>1, <3>2
  <2>2. tasks' = [tasks EXCEPT ![w] = task] /\ UNCHANGED runs
    BY <1>1, <1>4 DEF Start, Leave, IInv, TasksInv
  <2> HIDE DEF task
  <2> QED
    BY <1>1, <1>2, <2>1, <2>2, OtherSteps DEF IInv, RestInv, history
<1> QED
  BY <1>3, <1>4

(* What is known of a body at work.                                        *)
LEMMA AtWork ==
  ASSUME IInv, NEW w \in Bodies, Busy(w)
  PROVE  /\ tasks[w].run \in DOMAIN runs /\ RunOf(w) = runs[tasks[w].run]
         /\ RunOf(w) \in Rows /\ RowIsSound(RunOf(w)) /\ RunOf(w).status = "running"
         /\ MarksFit(tasks[w].pc, RunOf(w))
         /\ tasks[w] \in Tasks /\ Covers(tasks[w].at) /\ process # "down"
         /\ tasks \in [Bodies -> Tasks] /\ runs \in Seq(Rows)
<1>1. process # "down"
  BY DEF IInv, TasksInv, Busy, Idle
<1> QED
  BY <1>1 DEF IInv, TasksInv, RunsInv, Running, RunOf, RowIsSound

LEMMA RepeatableIsFine ==
  ASSUME IInv
  PROVE  \A from, to : Repeatable(from, to) \in [1..Items -> Nat]
<1>1. \A i \in 1..Items : excused[i] \in Nat
  BY DEF IInv, RestInv
<1> QED
  BY <1>1 DEF Repeatable

LEMMA BeginKeepsIInv == ASSUME IInv, NEW w \in Bodies, Begin(w) PROVE IInv'
<1> DEFINE r  == tasks[w].run
           at == IF tasks[w].inside THEN Watermark ELSE tasks[w].at
           row == IF kind = "images"
                  THEN [RunOf(w) EXCEPT !.status = "running", !.stored = TRUE, !.result = at,
                                        !.cancelled = FALSE]
                  ELSE RunOf(w)
<1>1. Busy(w) /\ tasks[w].pc = "begin"
  BY DEF Begin, Busy, At
<1>2. at \in Checkpoints /\ Covers(at)
  BY <1>1, AtWork, SourcesAreSound DEF Tasks
<1>3. PICK pc \in {"work", "finish"} : tasks' = [tasks EXCEPT ![w].pc = pc, ![w].at = at]
  BY DEF Begin
<1> DEFINE task == [tasks[w] EXCEPT !.pc = pc, !.at = at]
<1>4. UNCHANGED <<kind, process, cancel, posts, ends, lost>>
  BY DEF Begin
<1>5. excused' \in [1..Items -> Nat]
  BY RepeatableIsFine DEF Begin, IInv, RestInv
<1>6. RowIsSound(row) /\ row.status = "running" /\ row.late = 0
  <2>1. RunOf(w).late = 0
    BY <1>1, AtWork DEF MarksFit
  <2>2. CASE kind = "images"
    <3> HIDE DEF at
    <3>0. row = [RunOf(w) EXCEPT !.status = "running", !.stored = TRUE, !.result = at,
                                 !.cancelled = FALSE]
      BY <2>2
    <3>2. RunOf(w) \in Rows
      BY <1>1, AtWork
    <3> HIDE DEF row
    <3>1. /\ row \in Rows /\ row.status = "running" /\ row.result = at
          /\ row.late = RunOf(w).late
      BY <1>2, <3>0, <3>2 DEF Rows
    <3> QED
      BY <1>2, <2>1, <2>2, <3>1 DEF RowIsSound
  <2>3. CASE kind # "images"
    BY <1>1, <2>1, <2>3, AtWork
  <2> QED
    BY <2>2, <2>3
<1>7. runs' = [runs EXCEPT ![r] = row]
  <2> HIDE DEF at
  <2>1. runs[r] \in Rows /\ RunOf(w) = runs[r] /\ runs[r].status = "running"
    BY <1>1, AtWork
  <2>2. CASE kind = "images"
    <3>1. row = [runs[r] EXCEPT !.stored = TRUE, !.result = at, !.cancelled = FALSE]
      BY <2>1, <2>2 DEF Rows
    <3> HIDE DEF row
    <3> QED
      BY <2>2, <3>1 DEF Begin, at
  <2>3. CASE kind # "images"
    BY <1>1, <2>1, <2>3, AtWork DEF Begin
  <2> QED
    BY <2>2, <2>3
<1>8. tasks' = [tasks EXCEPT ![w] = task]
  BY <1>1, <1>3, AtWork
<1> HIDE DEF at, row
<1>9. task \in Tasks /\ task.pc \in {"work", "finish"} /\ task.at = at /\ task.run = r
  <2>1. tasks[w] \in Tasks
    BY <1>1, AtWork
  <2>2. task = [tasks[w] EXCEPT !.pc = pc, !.at = at]
    OBVIOUS
  <2> HIDE DEF task
  <2> QED
    BY <1>2, <1>3, <2>1, <2>2 DEF Tasks
<1> HIDE DEF task
<1>10. MarksFit(task.pc, row)
  BY <1>6, <1>9 DEF MarksFit
<1>11. TasksInv' /\ RunsInv' /\ Len(runs') = Len(runs) /\ DOMAIN runs' = DOMAIN runs
  BY <1>1, <1>2, <1>4, <1>6, <1>7, <1>8, <1>9, <1>10, BodySteps DEF IInv
<1> QED
  BY <1>4, <1>5, <1>11 DEF IInv, RestInv

LEMMA WorkKeepsIInv == ASSUME IInv, NEW w \in Bodies, Work(w) PROVE IInv'
<1> DEFINE r    == tasks[w].run
           item == tasks[w].at.at + 1
           at   == [at |-> item, did |-> tasks[w].at.did \cup {item}]
           task == [tasks[w] EXCEPT !.pc = "record", !.at = at]
           late == RunOf(w).late + IF RunOf(w).cancelled THEN 1 ELSE 0
           row  == IF kind = "changelog" THEN RunOf(w) ELSE [RunOf(w) EXCEPT !.late = late]
<1>1. Busy(w) /\ tasks[w].pc = "work"
  BY DEF Work, Busy, At
<1>2. UNCHANGED <<kind, process, cancel, excused, ends, lost>>
  BY DEF Work
<1>3. /\ tasks[w].at \in Checkpoints /\ tasks[w].at.at < Items
  BY <1>1, AtWork DEF Work, More, Tasks
<1>4. item \in 1..Items /\ at \in Checkpoints /\ Covers(at)
  <2>1. Covers(tasks[w].at)
    BY <1>1, AtWork
  <2>2. item \in 1..Items /\ 1..item \subseteq (1..tasks[w].at.at) \cup {item}
    BY <1>3 DEF Checkpoints
  <2>3. at.at = item /\ at.did = tasks[w].at.did \cup {item}
    OBVIOUS
  <2> QED
    BY <1>3, <2>1, <2>2, <2>3 DEF Checkpoints, Covers
<1>5. tasks' = [tasks EXCEPT ![w] = task]
  <2>1. tasks' = [tasks EXCEPT ![w].pc = "record", ![w].at = at]
    BY <1>1, AtWork DEF Work
  <2> HIDE DEF at
  <2> QED
    BY <1>1, <2>1, AtWork
<1>6. /\ RunOf(w).late = 0 /\ RunOf(w) \in Rows /\ RowIsSound(RunOf(w))
      /\ RunOf(w).status = "running"
  BY <1>1, AtWork DEF MarksFit
<1>7. RowIsSound(row) /\ row.status = "running" /\ (row.late = 1 => row.cancelled)
  <2>1. CASE kind = "changelog"
    BY <1>6, <2>1
  <2>2. CASE kind # "changelog"
    <3>1. late \in {0, 1} /\ (late = 1 => RunOf(w).cancelled)
      BY <1>6
    <3>2. row = [RunOf(w) EXCEPT !.late = late]
      BY <2>2
    <3> HIDE DEF row, late
    <3>3. /\ row \in Rows /\ row.late = late /\ row.status = RunOf(w).status
          /\ row.cancelled = RunOf(w).cancelled /\ row.result = RunOf(w).result
      BY <1>6, <3>1, <3>2 DEF Rows
    <3> QED
      BY <1>6, <2>2, <3>1, <3>3 DEF RowIsSound
  <2> QED
    BY <2>1, <2>2
<1>8. runs' = [runs EXCEPT ![r] = row]
  <2>1. CASE kind = "changelog"
    BY <1>1, <2>1, AtWork DEF Work
  <2>2. CASE kind # "changelog"
    <3>1. /\ row = [runs[r] EXCEPT !.late = late]
          /\ late = RunOf(w).late + IF RunOf(w).cancelled THEN 1 ELSE 0
      BY <1>1, <2>2, AtWork
    <3>2. runs' = [runs EXCEPT ![r].late = @ + IF RunOf(w).cancelled THEN 1 ELSE 0]
      BY <2>2 DEF Work
    <3>3. runs[r].late = RunOf(w).late
      BY <1>1, AtWork
    <3> HIDE DEF row, late
    <3> QED
      BY <3>1, <3>2, <3>3
  <2> QED
    BY <2>1, <2>2
<1>9. posts' \in [1..Items -> Nat]
  <2>1. posts[item] + 1 \in Nat
    <3>1. \A i \in 1..Items : posts[i] \in Nat
      BY DEF IInv, RestInv
    <3>2. posts[item] \in Nat
      BY <1>4, <3>1
    <3> QED
      BY <3>2
  <2> HIDE DEF item
  <2>2. posts' = posts \/ posts' = [posts EXCEPT ![item] = posts[item] + 1]
    BY DEF Work, item
  <2> QED
    BY <2>1, <2>2 DEF IInv, RestInv
<1> HIDE DEF at, row, item, late
<1>10. task \in Tasks /\ task.pc = "record" /\ task.at = at /\ task.run = r
  BY <1>1, <1>4, AtWork DEF Tasks
<1> HIDE DEF task
<1>11. MarksFit(task.pc, row)
  BY <1>7, <1>10 DEF MarksFit
<1>12. TasksInv' /\ RunsInv' /\ Len(runs') = Len(runs) /\ DOMAIN runs' = DOMAIN runs
  BY <1>1, <1>2, <1>4, <1>5, <1>7, <1>8, <1>10, <1>11, BodySteps DEF IInv
<1> QED
  BY <1>2, <1>9, <1>12 DEF IInv, RestInv

LEMMA RecordKeepsIInv == ASSUME IInv, NEW w \in Bodies, Record(w) PROVE IInv'
<1> DEFINE r    == tasks[w].run
           task == [tasks[w] EXCEPT !.pc = IF kind = "images" THEN "check" ELSE "work"]
           row  == [RunOf(w) EXCEPT !.stored = TRUE, !.result = tasks[w].at,
                                    !.cancelled = KeptCancel(w)]
<1>1. Busy(w) /\ tasks[w].pc = "record"
  BY DEF Record, Busy, At
<1>2. UNCHANGED <<kind, process, cancel, history>>
  BY DEF Record
<1>3. /\ RunOf(w) \in Rows /\ RowIsSound(RunOf(w)) /\ RunOf(w).status = "running"
      /\ RunOf(w).late = 1 => RunOf(w).cancelled
      /\ tasks[w].at \in Checkpoints /\ Covers(tasks[w].at)
  BY <1>1, AtWork DEF MarksFit, Tasks
<1>4. tasks' = [tasks EXCEPT ![w] = task]
  BY <1>1, AtWork DEF Record, Go
<1>5. runs' = [runs EXCEPT ![r] = row]
  BY <1>1, AtWork DEF Record, Checkpoint
<1>6. KeptCancel(w) \in BOOLEAN /\ (kind = "images" => KeptCancel(w) = RunOf(w).cancelled)
  BY <1>3 DEF KeptCancel, Rows
<1>7. /\ row \in Rows /\ row.late = RunOf(w).late /\ row.status = "running"
      /\ row.cancelled = KeptCancel(w) /\ row.result = tasks[w].at
  BY <1>3, <1>6 DEF Rows
<1> HIDE DEF row
<1>8. RowIsSound(row)
  BY <1>3, <1>7 DEF RowIsSound
<1>9. /\ task \in Tasks /\ task.at = tasks[w].at /\ task.run = r
      /\ task.pc = IF kind = "images" THEN "check" ELSE "work"
  BY <1>1, AtWork DEF Tasks
<1> HIDE DEF task
<1>10. MarksFit(task.pc, row)
  BY <1>3, <1>6, <1>7, <1>8, <1>9 DEF MarksFit, RowIsSound, IInv, RestInv, Kinds
<1>11. TasksInv' /\ RunsInv' /\ Len(runs') = Len(runs) /\ DOMAIN runs' = DOMAIN runs
  BY <1>1, <1>2, <1>3, <1>4, <1>5, <1>7, <1>8, <1>9, <1>10, BodySteps DEF IInv
<1> QED
  BY <1>2, <1>11 DEF IInv, RestInv, history

(* A body goes on, gives up or stops without a word to its row.            *)
LEMMA RowStays ==
  ASSUME IInv, NEW w \in Bodies, Busy(w), UNCHANGED <<kind, process, runs>>,
         NEW task \in Tasks, tasks' = [tasks EXCEPT ![w] = task], Covers(task.at),
         task.pc = "idle" \/ (task.run = tasks[w].run /\ MarksFit(task.pc, RunOf(w)))
  PROVE  TasksInv' /\ RunsInv'
<1>1. /\ runs' = [runs EXCEPT ![tasks[w].run] = RunOf(w)] /\ RowIsSound(RunOf(w))
      /\ RunOf(w).status = "running"
  BY AtWork
<1> QED
  BY <1>1, BodySteps DEF IInv

LEMMA CheckKeepsIInv == ASSUME IInv, NEW w \in Bodies, Check(w) PROVE IInv'
<1> DEFINE task == [tasks[w] EXCEPT !.pc = IF RunOf(w).cancelled THEN "fail" ELSE "work"]
<1>1. Busy(w) /\ tasks[w].pc = "check"
  BY DEF Check, Busy, At
<1>2. UNCHANGED <<kind, process, runs, cancel, history>>
  BY DEF Check
<1>3. tasks' = [tasks EXCEPT ![w] = task]
  BY <1>1, AtWork DEF Check, Go
<1>4. /\ task \in Tasks /\ task.at = tasks[w].at /\ task.run = tasks[w].run
      /\ task.pc = IF RunOf(w).cancelled THEN "fail" ELSE "work"
      /\ Covers(tasks[w].at)
  BY <1>1, AtWork DEF Tasks
<1> HIDE DEF task
<1>5. MarksFit(task.pc, RunOf(w))
  BY <1>1, <1>4, AtWork DEF MarksFit, RowIsSound, Rows
<1>6. TasksInv' /\ RunsInv'
  BY <1>1, <1>2, <1>3, <1>4, <1>5, RowStays
<1> QED
  BY <1>2, <1>6 DEF IInv, RestInv, history

LEMMA ThrowKeepsIInv == ASSUME IInv, NEW w \in Bodies, Throw(w) PROVE IInv'
<1> DEFINE task == [tasks[w] EXCEPT !.pc = "fail"]
<1>1. Busy(w)
  BY DEF Throw, Busy
<1>2. UNCHANGED <<kind, process, runs, cancel, posts, ends, lost>>
  BY DEF Throw
<1>3. tasks' = [tasks EXCEPT ![w] = task]
  BY <1>1, AtWork DEF Throw, Go
<1>4. /\ task \in Tasks /\ task.at = tasks[w].at /\ task.run = tasks[w].run
      /\ task.pc = "fail" /\ Covers(tasks[w].at)
  BY <1>1, AtWork DEF Tasks
<1> HIDE DEF task
<1>5. TasksInv' /\ RunsInv'
  BY <1>1, <1>2, <1>3, <1>4, RowStays DEF MarksFit
<1>6. excused' \in [1..Items -> Nat]
  <2>1. excused \in [1..Items -> Nat]
    BY DEF IInv, RestInv
  <2>2. CASE excused' = excused
    BY <2>1, <2>2
  <2>3. CASE excused' = [excused EXCEPT ![tasks[w].at.at] = @ + 1]
    <3> DEFINE i == tasks[w].at.at
    <3>1. \A j \in 1..Items : excused[j] \in Nat /\ excused[j] + 1 \in Nat
      <4>1. \A j \in 1..Items : excused[j] \in Nat
        BY <2>1
      <4> QED
        BY <4>1
    <3>2. excused' = [j \in 1..Items |-> IF j = i THEN excused[j] + 1 ELSE excused[j]]
      BY <2>1, <2>3
    <3> HIDE DEF i
    <3> QED
      BY <3>1, <3>2
  <2> QED
    BY <2>2, <2>3 DEF Throw, Unrecorded
<1> QED
  BY <1>2, <1>5, <1>6 DEF IInv, RestInv

LEMMA SucceedKeepsIInv == ASSUME IInv, NEW w \in Bodies, Succeed(w) PROVE IInv'
<1> DEFINE r   == tasks[w].run
           row == [RunOf(w) EXCEPT !.status = "succeeded", !.stored = TRUE,
                                   !.result = tasks[w].at, !.cancelled = FALSE]
<1>1. Busy(w)
  BY DEF Succeed, Busy, At
<1>2. UNCHANGED <<kind, process, cancel, history>>
  BY DEF Succeed
<1>3. /\ RunOf(w) \in Rows /\ RowIsSound(RunOf(w))
      /\ tasks[w].at \in Checkpoints /\ Covers(tasks[w].at)
  BY <1>1, AtWork DEF Tasks
<1>4. tasks' = [tasks EXCEPT ![w] = Idle] /\ runs' = [runs EXCEPT ![r] = row]
  BY <1>1, AtWork DEF Succeed, Leave
<1>5. row \in Rows /\ row.late = RunOf(w).late /\ row.result = tasks[w].at
  BY <1>3 DEF Rows
<1> HIDE DEF row
<1>6. RowIsSound(row)
  BY <1>3, <1>5 DEF RowIsSound
<1>7. TasksInv' /\ RunsInv' /\ Len(runs') = Len(runs) /\ DOMAIN runs' = DOMAIN runs
  BY <1>1, <1>2, <1>4, <1>6, IdleIsFine, BodySteps DEF IInv
<1> QED
  BY <1>2, <1>7 DEF IInv, RestInv, history

LEMMA MarkFailedKeepsIInv == ASSUME IInv, NEW w \in Bodies, MarkFailed(w) PROVE IInv'
<1> DEFINE r   == tasks[w].run
           row == [RunOf(w) EXCEPT !.status = "failed"]
<1>1. Busy(w)
  BY DEF MarkFailed, Busy, At
<1>2. UNCHANGED <<kind, process, cancel, history>>
  BY DEF MarkFailed
<1>3. tasks' = [tasks EXCEPT ![w] = Idle]
  BY DEF MarkFailed, Leave
<1>4. CASE process = "stopping"
  <2>1. TasksInv' /\ RunsInv'
    BY <1>1, <1>2, <1>3, <1>4, IdleIsFine, RowStays DEF MarkFailed
  <2> QED
    BY <1>2, <1>4, <2>1 DEF MarkFailed, IInv, RestInv, history
<1>5. CASE process # "stopping"
  <2>1. runs' = [runs EXCEPT ![r] = row]
    BY <1>1, <1>5, AtWork DEF MarkFailed, Ended
  <2>2. RunOf(w) \in Rows /\ RowIsSound(RunOf(w))
    BY <1>1, AtWork
  <2>3. row \in Rows /\ row.late = RunOf(w).late /\ row.result = RunOf(w).result
    BY <2>2 DEF Rows
  <2> HIDE DEF row
  <2>4. RowIsSound(row)
    BY <2>2, <2>3 DEF RowIsSound
  <2>5. TasksInv' /\ RunsInv' /\ Len(runs') = Len(runs) /\ DOMAIN runs' = DOMAIN runs
    BY <1>1, <1>2, <1>3, <2>1, <2>4, IdleIsFine, BodySteps DEF IInv
  <2> QED
    BY <1>2, <2>5 DEF IInv, RestInv, history
<1> QED
  BY <1>4, <1>5

LEMMA FailureLostKeepsIInv == ASSUME IInv, NEW w \in Bodies, FailureLost(w) PROVE IInv'
<1>1. Busy(w)
  BY DEF FailureLost, Busy, At
<1>2. UNCHANGED <<kind, process, runs, cancel, posts, excused, ends>>
  BY DEF FailureLost
<1>3. TasksInv' /\ RunsInv'
  BY <1>1, <1>2, IdleIsFine, RowStays DEF FailureLost, Leave
<1>4. lost' \subseteq DOMAIN runs
  BY <1>1, AtWork DEF FailureLost, IInv, RestInv
<1> QED
  BY <1>2, <1>3, <1>4 DEF IInv, RestInv

LEMMA FindRunKeepsIInv == ASSUME IInv, FindRun PROVE IInv'
<1>1. UNCHANGED <<kind, process, runs, tasks, history>> /\ cancel' \in DOMAIN runs
  BY DEF FindRun, Running
<1>2. cancel' \in 0..Len(runs)
  BY <1>1, RunsAreNumbered DEF IInv
<1>3. TasksInv' /\ RunsInv'
  BY <1>1 DEF IInv, TasksInv, RunsInv, Running, Busy, Covers, MarksFit, RowIsSound
<1> QED
  BY <1>1, <1>2, <1>3 DEF IInv, RestInv, history

LEMMA RequestCancelKeepsIInv == ASSUME IInv, RequestCancel PROVE IInv'
<1> DEFINE row == [runs[cancel] EXCEPT !.cancelled = TRUE]
<1>1. cancel \in DOMAIN runs /\ cancel' = 0 /\ UNCHANGED <<kind, process, tasks, history>>
  BY RunsAreNumbered DEF RequestCancel, IInv, RestInv, NoRun
<1>2. Len(runs) \in Nat /\ runs[cancel] \in Rows /\ RowIsSound(runs[cancel])
  BY <1>1, RunsAreNumbered DEF IInv, RunsInv
<1>3. CASE runs' = runs
  <2>1. TasksInv' /\ RunsInv'
    BY <1>1, <1>3 DEF IInv, TasksInv, RunsInv, Running, Busy, Covers, MarksFit, RowIsSound
  <2> QED
    BY <1>1, <1>2, <1>3, <2>1 DEF IInv, RestInv, history
<1>4. CASE runs' = [runs EXCEPT ![cancel].cancelled = TRUE]
  <2>1. runs' = [runs EXCEPT ![cancel] = row]
    BY <1>4
  <2>2. /\ row \in Rows /\ row.status = runs[cancel].status /\ row.cancelled
        /\ row.late = runs[cancel].late /\ row.result = runs[cancel].result
    BY <1>2 DEF Rows
  <2> HIDE DEF row
  <2>3. RowIsSound(row)
    BY <1>2, <2>2 DEF RowIsSound
  <2>4. /\ runs' \in Seq(Rows) /\ Len(runs') = Len(runs) /\ DOMAIN runs' = DOMAIN runs
        /\ runs'[cancel] = row /\ \A s \in DOMAIN runs \ {cancel} : runs'[s] = runs[s]
    BY <1>1, <2>1, <2>2, RowChanges DEF IInv
  <2>5. TasksInv' /\ RunsInv'
    BY <1>1, <2>2, <2>3, <2>4, RowsKeep DEF IInv, RunsInv
  <2> QED
    BY <1>1, <1>2, <2>4, <2>5 DEF IInv, RestInv, history
<1> QED
  BY <1>3, <1>4 DEF RequestCancel

(* The rows may all change at once.                                        *)
LEMMA RowsTable ==
  ASSUME RunsInv, NEW f, f = [r \in DOMAIN runs |-> f[r]],
         \A r \in DOMAIN runs : f[r] \in Rows
  PROVE  f \in Seq(Rows) /\ Len(f) = Len(runs) /\ DOMAIN f = DOMAIN runs
<1>1. Len(runs) \in Nat /\ DOMAIN runs = 1..Len(runs)
  BY RunsAreNumbered
<1>2. f \in [1..Len(runs) -> Rows]
  BY <1>1
<1>3. f \in Seq(Rows)
  BY <1>1, <1>2, SeqDef
<1> QED
  BY <1>1, <1>2, <1>3, LenProperties

LEMMA PurgeKeepsIInv == ASSUME IInv, NEW n \in DOMAIN runs, Purge(n) PROVE IInv'
<1>1. UNCHANGED <<kind, process, tasks, cancel, posts, ends, lost>>
  BY DEF Purge
<1>2. Len(runs) \in Nat /\ DOMAIN runs = 1..Len(runs)
  BY RunsAreNumbered DEF IInv
<1>3. \A r \in DOMAIN runs : runs'[r] = IF r <= n THEN Purged ELSE runs[r]
  BY DEF Purge
<1>4. \A w \in Bodies : tasks[w].run \notin 1..n
  BY DEF Purge
<1>5. Purged \in Rows /\ RowIsSound(Purged) /\ Purged.status # "running"
  <2>1. Purged = [status |-> "purged", stored |-> FALSE, result |-> Fresh,
                  cancelled |-> FALSE, late |-> 0]
    <3>1. Purged = [Row EXCEPT !.status = "purged"]
      BY Zenon DEF Purged
    <3> QED
      BY <3>1 DEF Row
  <2> QED
    BY <2>1, FreshIsSound DEF RowIsSound, Rows
<1>6. \A r \in DOMAIN runs : runs'[r] \in Rows /\ RowIsSound(runs'[r])
  BY <1>3, <1>5 DEF IInv, RunsInv, RowIsSound
<1>7. runs' \in Seq(Rows) /\ Len(runs') = Len(runs) /\ DOMAIN runs' = DOMAIN runs
  <2>1. runs' = [r \in DOMAIN runs |-> runs'[r]]
    BY DEF Purge
  <2>2. \A r \in DOMAIN runs : runs'[r] \in Rows
    BY <1>6
  <2> QED
    BY <2>1, <2>2, RowsTable DEF IInv
<1>8. TasksInv' /\ RunsInv'
  <2>1. Running' \subseteq Running
    BY <1>3, <1>5, <1>7 DEF Running
  <2>2. RunsInv'
    BY <1>1, <1>6, <1>7, <2>1 DEF IInv, RunsInv, RowIsSound, Covers
  <2>3. ASSUME NEW w \in Bodies, Busy(w)
        PROVE  /\ tasks[w].run \in Running'
               /\ MarksFit(tasks[w].pc, runs'[tasks[w].run])
    <3>1. tasks[w].run \in Running /\ MarksFit(tasks[w].pc, runs[tasks[w].run])
      BY <2>3 DEF IInv, TasksInv
    <3>2. tasks[w].run \in 1..Len(runs) /\ n \in 1..Len(runs)
      BY <1>2, <3>1 DEF Running
    <3>3. ~(tasks[w].run <= n)
      BY <1>2, <1>4, <3>2
    <3>4. runs'[tasks[w].run] = runs[tasks[w].run]
      BY <1>2, <1>3, <3>2, <3>3
    <3> QED
      BY <1>7, <3>1, <3>4 DEF Running
  <2>4. \A w \in Bodies : Busy(w)' <=> Busy(w)
    BY <1>1 DEF Busy
  <2>5. TasksInv'
    BY <1>1, <2>3, <2>4 DEF IInv, TasksInv, Covers, MarksFit
  <2> QED
    BY <2>2, <2>5
<1>9. excused' \in [1..Items -> Nat]
  BY RepeatableIsFine DEF Purge, IInv, RestInv
<1> QED
  BY <1>1, <1>7, <1>8, <1>9 DEF IInv, RestInv

LEMMA BeginShutdownKeepsIInv ==
  ASSUME IInv, ends < MaxEnds, BeginShutdown
  PROVE  IInv'
<1>1. /\ process = "up" /\ process' = "stopping"
      /\ UNCHANGED <<kind, runs, tasks, cancel, posts, excused, ends, lost>>
  BY DEF BeginShutdown, history
<1>2. TasksInv' /\ RunsInv'
  BY <1>1 DEF IInv, TasksInv, RunsInv, Running, Busy, Covers, MarksFit, RowIsSound
<1> QED
  BY <1>1, <1>2 DEF IInv, RestInv

LEMMA ExitKeepsIInv == ASSUME IInv, Exit PROVE IInv'
<1>1. /\ process' = "down" /\ ends' = ends + 1 /\ ends < MaxEnds /\ cancel' = 0
      /\ tasks' = [w \in Bodies |-> Idle] /\ UNCHANGED <<kind, runs, posts, lost>>
  BY DEF Exit, IInv, RestInv, NoRun
<1>2. \A w \in Bodies : tasks'[w] = Idle /\ ~Busy(w)'
  BY <1>1 DEF Busy, Idle
<1>3. TasksInv' /\ RunsInv'
  BY <1>1, <1>2, IdleIsFine DEF IInv, TasksInv, RunsInv, Running, Covers, RowIsSound
<1>4. excused' \in [1..Items -> Nat]
  <2> DEFINE Posting(i) == {w \in Bodies : /\ At(w, "record") /\ tasks[w].at.at = i
                                            /\ kind = "changelog"}
  <2>1. \A i \in 1..Items : Cardinality(Posting(i)) \in Nat
    <3> TAKE i \in 1..Items
    <3>1. Posting(i) \subseteq Bodies /\ IsFiniteSet(Bodies)
      OBVIOUS
    <3> QED
      BY <3>1, FS_Subset, FS_CardinalityType
  <2>2. \A i \in 1..Items : excused[i] \in Nat
    BY DEF IInv, RestInv
  <2>3. excused' = [i \in 1..Items |-> excused[i] + Cardinality(Posting(i))]
    BY Zenon DEF Exit
  <2> HIDE DEF Posting
  <2> QED
    BY <2>1, <2>2, <2>3
<1>5. Len(runs) \in Nat
  BY RunsAreNumbered DEF IInv
<1> QED
  BY <1>1, <1>3, <1>4, <1>5 DEF IInv, RestInv

LEMMA RestartKeepsIInv == ASSUME IInv, Restart PROVE IInv'
<1>1. /\ process = "down" /\ process' = "up" /\ runs' = Swept
      /\ UNCHANGED <<kind, tasks, cancel, posts, excused, ends, lost>>
  BY DEF Restart, history
<1>2. \A w \in Bodies : tasks'[w] = Idle /\ ~Busy(w)'
  BY <1>1 DEF IInv, TasksInv, Busy, Idle
<1>3. \A r \in DOMAIN runs : RowIsSound(runs'[r]) /\ runs'[r].status # "running"
  <2> TAKE r \in DOMAIN runs
  <2>1. runs[r] \in Rows /\ RowIsSound(runs[r])
    BY RunsAreNumbered DEF IInv, RunsInv
  <2>2. CASE runs[r].status = "running"
    <3> DEFINE row == [runs[r] EXCEPT !.status = "failed"]
    <3>1. runs'[r] = row
      BY <1>1, <2>2 DEF Swept
    <3>2. /\ row \in Rows /\ row.status = "failed" /\ row.result = runs[r].result
          /\ row.late = runs[r].late
      BY <2>1 DEF Rows
    <3> HIDE DEF row
    <3> QED
      BY <1>1, <2>1, <3>1, <3>2 DEF RowIsSound
  <2>3. CASE runs[r].status # "running"
    <3>1. runs'[r] = runs[r]
      BY <1>1, <2>3 DEF Swept
    <3> QED
      BY <1>1, <2>1, <2>3, <3>1 DEF RowIsSound
  <2> QED
    BY <2>2, <2>3
<1>4. runs' \in Seq(Rows) /\ Len(runs') = Len(runs) /\ DOMAIN runs' = DOMAIN runs
  <2>1. runs' = [r \in DOMAIN runs |-> runs'[r]]
    BY <1>1 DEF Swept
  <2>2. \A r \in DOMAIN runs : runs'[r] \in Rows
    BY <1>3 DEF RowIsSound
  <2> QED
    BY <2>1, <2>2, RowsTable DEF IInv
<1>5. RunsInv'
  BY <1>1, <1>3, <1>4 DEF IInv, RunsInv, Running, RowIsSound
<1>6. TasksInv'
  BY <1>1, <1>2 DEF IInv, TasksInv, Covers
<1> QED
  BY <1>1, <1>4, <1>5, <1>6 DEF IInv, RestInv

-----------------------------------------------------------------------------
(* The specification *)

LEMMA StutterKeepsIInv == ASSUME IInv, UNCHANGED runsVars PROVE IInv'
BY DEF IInv, TasksInv, RunsInv, RestInv, runsVars, history, Running, Busy, Covers,
       MarksFit, RowIsSound

LEMMA NextKeepsIInv == ASSUME IInv, [RunsNext]_runsVars PROVE IInv'
<1>1. ASSUME NEW w \in Bodies, Request(w) \/ Step(w) \/ Throw(w) \/ FailureLost(w)
      PROVE  IInv'
  BY <1>1, RequestKeepsIInv, ClaimKeepsIInv, StartKeepsIInv, BeginKeepsIInv, WorkKeepsIInv,
     RecordKeepsIInv, CheckKeepsIInv, SucceedKeepsIInv, MarkFailedKeepsIInv,
     ThrowKeepsIInv, FailureLostKeepsIInv DEF Step
<1>2. ASSUME NEW n \in DOMAIN runs, Purge(n) PROVE IInv'
  BY <1>2, PurgeKeepsIInv
<1>3. CASE FindRun \/ RequestCancel
  BY <1>3, FindRunKeepsIInv, RequestCancelKeepsIInv
<1>4. CASE (ends < MaxEnds /\ BeginShutdown) \/ Exit \/ Restart
  BY <1>4, BeginShutdownKeepsIInv, ExitKeepsIInv, RestartKeepsIInv
<1>5. CASE UNCHANGED runsVars
  BY <1>5, StutterKeepsIInv
<1> QED
  BY <1>1, <1>2, <1>3, <1>4, <1>5 DEF RunsNext

(* A body at work holds the one running row of its kind, its checkpoint is *)
(* covered by what was done, and a batch begun after a request to cancel   *)
(* is its last: together they are kept by every step of run-job.ts, of the *)
(* bodies, of the cancel route, of the purge and of a restart.             *)
THEOREM RunsInvariant == RunsSpec => []IInv
<1>1. IInv /\ [RunsNext]_runsVars => IInv'
  BY NextKeepsIInv
<1> QED
  BY <1>1, InitIInv, PTL DEF RunsSpec

(* The rows, the bodies and the request to cancel keep to their types.     *)
THEOREM RunsKeepTheirTypes == RunsSpec => []RunsTypeOK
<1>1. IInv => RunsTypeOK
  BY DEF IInv, TasksInv, RunsInv, RestInv, RunsTypeOK
<1> QED
  BY <1>1, RunsInvariant, PTL

(* The claim and the partial unique index let one body of a kind in, and   *)
(* nothing that happens to the first lets a second one in beside it.       *)
THEOREM OneBodyPerKind == RunsSpec => []OneBody
<1>1. ASSUME IInv PROVE OneBody
  <2>1. Cardinality(Running) <= 1
    BY <1>1, AtMostOneRuns DEF IInv
  <2>2. \A w \in Bodies : Busy(w) => Running = {tasks[w].run}
    BY <1>1 DEF IInv, TasksInv, RunsInv
  <2> QED
    BY <1>1, <2>1, <2>2 DEF OneBody, IInv, TasksInv
<1> QED
  BY <1>1, RunsInvariant, PTL

(* Whatever a run resumes, it goes on from work that was done.             *)
THEOREM ResumingSkipsNothing == RunsSpec => []NothingIsSkipped
<1>1. IInv => NothingIsSkipped
  BY DEF IInv, RunsInv, RowIsSound, Covers, NothingIsSkipped
<1> QED
  BY <1>1, RunsInvariant, PTL

(* However many batches there are, one at most begins after the request.   *)
THEOREM CancellationIsHeeded == RunsSpec => []CancelIsHeeded
<1>1. IInv => CancelIsHeeded
  BY DEF IInv, RunsInv, RowIsSound, CancelIsHeeded
<1> QED
  BY <1>1, RunsInvariant, PTL

-----------------------------------------------------------------------------
(* Repeated posts.  Until a date is posted again, every end of a run, every *)
(* stale read and every purge that may repeat it has been counted: beyond  *)
(* the watermark, and beyond the body at work, a date may be posted once   *)
(* more and is still explained.                                            *)

Posting(i) == \E w \in Bodies : tasks[w].pc = "record" /\ tasks[w].at.at = i
Ahead(w)   == tasks[w].pc \in {"work", "record", "check", "finish"}

RunsInOrder == \A w \in Bodies : Busy(w) => tasks[w].run = Len(runs)

PostsInv ==
  /\ \A i \in 1..Items : posts[i] <= 1 + excused[i]
  /\ \A i \in 1..Items : i > Watermark.at /\ ~Posting(i) => posts[i] <= excused[i]
  /\ \A w \in Bodies : Ahead(w) =>
       \A i \in 1..Items : i > tasks[w].at.at => posts[i] <= excused[i]

RepeatsInv == RunsInOrder /\ (kind = "changelog" => PostsInv)

(* The watermark of a table of runs.                                       *)
StoredIn(rs) == {r \in {s \in DOMAIN rs : rs[s].status # "purged"} : rs[r].stored}
MarkIn(rs) ==
  LET prior == Latest(StoredIn(rs))
  IN  IF prior = NoRun \/ ~rs[prior].stored THEN Fresh ELSE rs[prior].result

LEMMA WatermarkOfTable == Watermark = MarkIn(runs) /\ Watermark' = MarkIn(runs')
BY Zenon DEF Watermark, MarkIn, LatestForResume, Kept, StoredIn

LEMMA LatestIsLast ==
  ASSUME NEW n \in Nat, NEW S \in SUBSET (1..n), NEW r \in S, \A s \in S : s <= r
  PROVE  Latest(S) = r
<1>1. Latest(S) \in S /\ \A s \in S : s <= Latest(S)
  BY DEF Latest
<1>2. r <= Latest(S) /\ Latest(S) <= r
  BY <1>1
<1>3. \A s \in S : s \in Nat
  OBVIOUS
<1>4. r \in Nat /\ Latest(S) \in Nat
  BY <1>1, <1>3
<1> QED
  BY <1>2, <1>4

(* It is what the last run that stored anything has stored.                *)
LEMMA MarkOfLast ==
  ASSUME NEW rs \in Seq(Rows), NEW r \in StoredIn(rs), \A s \in StoredIn(rs) : s <= r
  PROVE  MarkIn(rs) = rs[r].result /\ Latest(StoredIn(rs)) = r
<1>1. Len(rs) \in Nat /\ DOMAIN rs = 1..Len(rs)
  BY LenProperties
<1>2. StoredIn(rs) \in SUBSET (1..Len(rs)) /\ rs[r].stored
  BY <1>1 DEF StoredIn
<1>3. Latest(StoredIn(rs)) = r
  BY <1>1, <1>2, LatestIsLast
<1>4. r # NoRun
  BY <1>1, <1>2 DEF NoRun
<1> QED
  BY <1>2, <1>3, <1>4 DEF MarkIn

LEMMA MarkOfNone ==
  ASSUME NEW rs, StoredIn(rs) = {}
  PROVE  MarkIn(rs) = Fresh /\ Latest(StoredIn(rs)) = NoRun
BY DEF MarkIn, Latest

LEMMA LastIsThere ==
  ASSUME NEW rs \in Seq(Rows), StoredIn(rs) # {}
  PROVE  \E r \in StoredIn(rs) : \A s \in StoredIn(rs) : s <= r
<1> DEFINE n == Len(rs)
           S == StoredIn(rs)
           back == {n - r : r \in S}
<1>1. n \in Nat /\ DOMAIN rs = 1..n
  BY LenProperties
<1>2. S \in SUBSET (1..n) /\ S # {}
  BY <1>1 DEF StoredIn
<1> HIDE DEF n, S
<1>3. \A r \in S : n - r \in Nat
  BY <1>1, <1>2
<1>4. back \in SUBSET Nat /\ back # {}
  BY <1>2, <1>3
<1>5. PICK x \in back : \A y \in back : x <= y
  <2> HIDE DEF back
  <2> QED
    BY <1>4, LeastNumber
<1>6. PICK r \in S : x = n - r
  OBVIOUS
<1>7. ASSUME NEW s \in S PROVE s <= r
  <2>1. n - s \in back
    OBVIOUS
  <2>2. n - r <= n - s
    <3> HIDE DEF back
    <3> QED
      BY <1>5, <1>6, <2>1
  <2> QED
    BY <1>1, <1>2, <2>2
<1> QED
  BY <1>6, <1>7 DEF S

(* Runs that end, are cancelled or are begun leave it alone.               *)
LEMMA SameMark ==
  ASSUME NEW rs \in Seq(Rows), NEW ss \in Seq(Rows), StoredIn(ss) = StoredIn(rs),
         \A r \in StoredIn(rs) : ss[r].result = rs[r].result
  PROVE  MarkIn(ss) = MarkIn(rs)
<1>1. CASE StoredIn(rs) = {}
  BY <1>1, MarkOfNone
<1>2. CASE StoredIn(rs) # {}
  <2>1. PICK r \in StoredIn(rs) : \A s \in StoredIn(rs) : s <= r
    BY <1>2, LastIsThere
  <2>2. MarkIn(rs) = rs[r].result
    BY <2>1, MarkOfLast
  <2>3. r \in StoredIn(ss) /\ \A s \in StoredIn(ss) : s <= r
    BY <2>1
  <2>4. MarkIn(ss) = ss[r].result
    BY <2>3, MarkOfLast
  <2> QED
    BY <2>2, <2>4
<1> QED
  BY <1>1, <1>2

(* A purge that takes the last of them leaves none.                        *)
LEMMA PurgedMark ==
  ASSUME NEW rs \in Seq(Rows), NEW ss \in Seq(Rows), NEW n \in Nat,
         StoredIn(ss) = {r \in StoredIn(rs) : r > n},
         \A r \in StoredIn(ss) : ss[r].result = rs[r].result
  PROVE  \/ MarkIn(ss) = MarkIn(rs)
         \/ MarkIn(ss) = Fresh /\ Latest(StoredIn(rs)) \in 1..n
<1>1. CASE StoredIn(rs) = {}
  <2>1. StoredIn(ss) = {}
    BY <1>1
  <2> QED
    BY <1>1, <2>1, MarkOfNone
<1>2. CASE StoredIn(rs) # {}
  <2>1. PICK r \in StoredIn(rs) : \A s \in StoredIn(rs) : s <= r
    BY <1>2, LastIsThere
  <2>2. MarkIn(rs) = rs[r].result /\ Latest(StoredIn(rs)) = r
    BY <2>1, MarkOfLast
  <2>3. StoredIn(rs) \subseteq Nat \ {0}
    BY LenProperties DEF StoredIn
  <2>4. CASE r > n
    <3>1. r \in StoredIn(ss) /\ \A s \in StoredIn(ss) : s <= r
      BY <2>1, <2>4
    <3>2. MarkIn(ss) = ss[r].result
      BY <3>1, MarkOfLast
    <3> QED
      BY <2>2, <3>1, <3>2
  <2>5. CASE ~(r > n)
    <3>1. r \in 1..n
      BY <2>1, <2>3, <2>5
    <3>2. \A s \in StoredIn(rs) : ~(s > n)
      BY <2>1, <2>3, <2>5
    <3>3. StoredIn(ss) = {}
      BY <3>2
    <3> QED
      BY <2>2, <3>1, <3>3, MarkOfNone
  <2> QED
    BY <2>4, <2>5
<1> QED
  BY <1>1, <1>2

(* Steps that count what they may repeat, and leave no body further back.  *)
LEMMA CountedStep ==
  ASSUME IInv, IInv', PostsInv, posts' = posts,
         \A i \in 1..Items : excused[i] <= excused'[i],
         \A i \in 1..Items :
           \/ i > Watermark'.at => i > Watermark.at
           \/ excused[i] + 1 <= excused'[i],
         \A i \in 1..Items : Posting(i) => Posting(i)' \/ excused[i] + 1 <= excused'[i],
         \A w \in Bodies : Ahead(w)' => Ahead(w) /\ tasks'[w].at = tasks[w].at
  PROVE  PostsInv'
<1>1. \A i \in 1..Items : posts[i] \in Nat /\ excused[i] \in Nat /\ excused'[i] \in Nat
  BY DEF IInv, RestInv
<1>2. \A i \in 1..Items : posts'[i] <= 1 + excused'[i]
  BY <1>1 DEF PostsInv
<1>3. ASSUME NEW i \in 1..Items, i > Watermark'.at, ~Posting(i)'
      PROVE  posts'[i] <= excused'[i]
  <2>1. CASE excused[i] + 1 <= excused'[i]
    BY <1>1, <2>1 DEF PostsInv
  <2>2. CASE ~(excused[i] + 1 <= excused'[i])
    <3>1. i > Watermark.at /\ ~Posting(i)
      BY <1>3, <2>2
    <3> QED
      BY <1>1, <3>1 DEF PostsInv
  <2> QED
    BY <2>1, <2>2
<1>4. ASSUME NEW w \in Bodies, Ahead(w)', NEW i \in 1..Items, i > tasks'[w].at.at
      PROVE  posts'[i] <= excused'[i]
  <2>1. posts[i] <= excused[i]
    BY <1>4 DEF PostsInv
  <2> QED
    BY <1>1, <2>1
<1> QED
  BY <1>2, <1>3, <1>4 DEF PostsInv

LEMMA StandsStill ==
  ASSUME IInv, IInv', StoredIn(runs') = StoredIn(runs),
         \A r \in StoredIn(runs) : runs'[r].result = runs[r].result
  PROVE  Watermark' = Watermark
<1>1. runs \in Seq(Rows) /\ runs' \in Seq(Rows)
  BY DEF IInv, RunsInv
<1>2. MarkIn(runs') = MarkIn(runs)
  BY <1>1, SameMark
<1> QED
  BY <1>2, WatermarkOfTable

(* One body goes on to a step that posts nothing.                          *)
LEMMA BodyGoesOn ==
  ASSUME IInv, IInv', RepeatsInv, UNCHANGED <<kind, posts>>, Len(runs') = Len(runs),
         kind = "changelog" => Watermark' = Watermark,
         \A i \in 1..Items : excused[i] <= excused'[i],
         NEW w \in Bodies, NEW task, tasks' = [tasks EXCEPT ![w] = task],
         task.pc \in {"begin", "work", "record", "check", "finish", "fail"} =>
           Busy(w) /\ task.run = tasks[w].run,
         task.pc \in {"work", "record", "check", "finish"} =>
           Ahead(w) /\ task.at = tasks[w].at,
         kind = "changelog" /\ tasks[w].pc = "record" =>
           \A i \in 1..Items : i = tasks[w].at.at => excused[i] + 1 <= excused'[i]
  PROVE  RepeatsInv'
<1>1. /\ tasks'[w] = task
      /\ \A v \in Bodies \ {w} : tasks'[v] = tasks[v]
  BY DEF IInv, TasksInv
<1>2. RunsInOrder'
  BY <1>1 DEF RepeatsInv, RunsInOrder, Busy
<1>3. ASSUME kind = "changelog" PROVE PostsInv'
  <2>1. \A i \in 1..Items : Posting(i) => Posting(i)' \/ excused[i] + 1 <= excused'[i]
    <3> TAKE i \in 1..Items
    <3> SUFFICES ASSUME Posting(i) PROVE Posting(i)' \/ excused[i] + 1 <= excused'[i]
      OBVIOUS
    <3>1. PICK v \in Bodies : tasks[v].pc = "record" /\ tasks[v].at.at = i
      BY DEF Posting
    <3>2. CASE v = w
      BY <1>3, <3>1, <3>2
    <3>3. CASE v # w
      BY <1>1, <3>1, <3>3 DEF Posting
    <3> QED
      BY <3>2, <3>3
  <2>2. \A v \in Bodies : Ahead(v)' => Ahead(v) /\ tasks'[v].at = tasks[v].at
    BY <1>1 DEF Ahead
  <2> QED
    BY <1>3, <2>1, <2>2, CountedStep DEF RepeatsInv
<1> QED
  BY <1>2, <1>3 DEF RepeatsInv

LEMMA ExcusesGrow ==
  ASSUME IInv
  PROVE  /\ \A i \in 1..Items : excused[i] \in Nat /\ posts[i] \in Nat
         /\ \A i \in 1..Items : excused[i] <= excused[i]
BY DEF IInv, RestInv

(* The bodies are left alone.                                              *)
LEMMA BodiesStay ==
  ASSUME IInv, IInv', RepeatsInv, UNCHANGED <<kind, posts, tasks>>, Len(runs') = Len(runs),
         \A i \in 1..Items : excused[i] <= excused'[i],
         kind = "changelog" =>
           \A i \in 1..Items :
             \/ i > Watermark'.at => i > Watermark.at
             \/ excused[i] + 1 <= excused'[i]
  PROVE  RepeatsInv'
<1>1. RunsInOrder'
  BY DEF RepeatsInv, RunsInOrder, Busy
<1>2. ASSUME kind = "changelog" PROVE PostsInv'
  <2>1. /\ \A i \in 1..Items : Posting(i) => Posting(i)' \/ excused[i] + 1 <= excused'[i]
        /\ \A v \in Bodies : Ahead(v)' => Ahead(v) /\ tasks'[v].at = tasks[v].at
    BY DEF Ahead, Posting
  <2> QED
    BY <1>2, <2>1, CountedStep DEF RepeatsInv
<1> QED
  BY <1>1, <1>2 DEF RepeatsInv

-----------------------------------------------------------------------------
LEMMA InitRepeats == RunsInit => RepeatsInv
<1> SUFFICES ASSUME RunsInit PROVE RepeatsInv
  OBVIOUS
<1>1. IInv
  BY InitIInv
<1>2. \A w \in Bodies : ~Busy(w) /\ ~Ahead(w)
  BY DEF RunsInit, Idle, Busy, Ahead
<1>3. StoredIn(runs) = {1} /\ runs[1].result = Done1 /\ runs \in Seq(Rows)
  <2>1. DOMAIN runs = {1} /\ runs[1] = FirstRow
    BY DEF RunsInit
  <2>2. FirstRow.stored /\ FirstRow.result = Done1 /\ FirstRow.status # "purged"
    BY DEF FirstRow, Row
  <2> QED
    BY <1>1, <2>1, <2>2 DEF StoredIn, IInv, RunsInv
<1>4. Watermark = Done1
  <2>1. 1 \in StoredIn(runs) /\ \A s \in StoredIn(runs) : s <= 1
    BY <1>3
  <2> QED
    BY <1>3, <2>1, MarkOfLast, WatermarkOfTable
<1>5. \A i \in 1..Items : /\ posts[i] <= 1 /\ excused[i] = 0 /\ posts[i] \in Nat
                          /\ i > 1 => posts[i] = 0
  BY DEF RunsInit
<1>6. \A i \in 1..Items : posts[i] <= 1 + excused[i]
  BY <1>5
<1>7. \A i \in 1..Items : i > Watermark.at => posts[i] <= excused[i]
  BY <1>4, <1>5 DEF Done1
<1> QED
  BY <1>2, <1>6, <1>7 DEF RepeatsInv, RunsInOrder, PostsInv

LEMMA RequestKeepsRepeats ==
  ASSUME IInv, IInv', RepeatsInv, NEW w \in Bodies, Request(w)
  PROVE  RepeatsInv'
<1>1. UNCHANGED <<kind, runs, posts, excused>> /\ tasks[w] = Idle
  BY DEF Request, history
<1>2. PICK inside, at :
        tasks' = [tasks EXCEPT ![w] = [Idle EXCEPT !.pc = "claim", !.inside = inside, !.at = at]]
  BY DEF Request, Begun
<1> DEFINE task == [Idle EXCEPT !.pc = "claim", !.inside = inside, !.at = at]
<1>3. task.pc = "claim" /\ tasks[w].pc = "idle"
  BY <1>1 DEF Idle
<1> HIDE DEF task
<1>4. tasks' = [tasks EXCEPT ![w] = task]
  BY <1>2 DEF task
<1>5. Watermark' = Watermark
  BY <1>1, StandsStill
<1> QED
  BY <1>1, <1>3, <1>4, <1>5, ExcusesGrow, BodyGoesOn

LEMMA ClaimKeepsRepeats ==
  ASSUME IInv, IInv', RepeatsInv, NEW w \in Bodies, Claim(w)
  PROVE  RepeatsInv'
<1>1. UNCHANGED <<kind, runs, posts, excused>> /\ tasks[w].pc = "claim"
  BY DEF Claim, At, history
<1> DEFINE task == IF Running # {} THEN Idle ELSE [tasks[w] EXCEPT !.pc = "start"]
<1>2. task.pc \in {"idle", "start"} /\ tasks' = [tasks EXCEPT ![w] = task]
  BY DEF Claim, Leave, Go, Idle, IInv, TasksInv, Tasks
<1> HIDE DEF task
<1>3. Watermark' = Watermark
  BY <1>1, StandsStill
<1> QED
  BY <1>1, <1>2, <1>3, ExcusesGrow, BodyGoesOn

LEMMA CheckKeepsRepeats ==
  ASSUME IInv, IInv', RepeatsInv, NEW w \in Bodies, Check(w)
  PROVE  RepeatsInv'
<1>1. UNCHANGED <<kind, runs, posts, excused>> /\ tasks[w].pc = "check"
  BY DEF Check, At, history
<1> DEFINE task == [tasks[w] EXCEPT !.pc = IF RunOf(w).cancelled THEN "fail" ELSE "work"]
<1>2. /\ task.run = tasks[w].run /\ task.at = tasks[w].at
      /\ tasks' = [tasks EXCEPT ![w] = task]
  BY DEF Check, Go, IInv, TasksInv, Tasks
<1> HIDE DEF task
<1>3. Watermark' = Watermark /\ Busy(w) /\ Ahead(w)
  BY <1>1, StandsStill DEF Busy, Ahead
<1> QED
  BY <1>1, <1>2, <1>3, ExcusesGrow, BodyGoesOn

LEMMA ThrowKeepsRepeats ==
  ASSUME IInv, IInv', RepeatsInv, NEW w \in Bodies, Throw(w)
  PROVE  RepeatsInv'
<1>1. UNCHANGED <<kind, runs, posts>> /\ excused' = Unrecorded(w) /\ Busy(w)
  BY DEF Throw, Busy
<1> DEFINE task == [tasks[w] EXCEPT !.pc = "fail"]
<1>2. task.pc = "fail" /\ task.run = tasks[w].run /\ tasks' = [tasks EXCEPT ![w] = task]
  BY <1>1, AtWork DEF Throw, Go, Tasks
<1> HIDE DEF task
<1>3. Watermark' = Watermark
  BY <1>1, StandsStill
<1>4. /\ \A i \in 1..Items : excused[i] <= excused'[i]
      /\ kind = "changelog" /\ tasks[w].pc = "record" =>
           \A i \in 1..Items : i = tasks[w].at.at => excused[i] + 1 <= excused'[i]
  <2>1. \A i \in 1..Items : excused[i] \in Nat
    BY ExcusesGrow
  <2>2. CASE kind = "changelog" /\ tasks[w].pc = "record"
    <3>1. excused' = [excused EXCEPT ![tasks[w].at.at] = @ + 1]
      BY <1>1, <2>2 DEF Unrecorded, At
    <3>2. \A i \in 1..Items :
            excused'[i] = IF i = tasks[w].at.at THEN excused[i] + 1 ELSE excused[i]
      BY <3>1 DEF IInv, RestInv
    <3> QED
      BY <2>1, <3>2
  <2>3. CASE ~(kind = "changelog" /\ tasks[w].pc = "record")
    BY <1>1, <2>1, <2>3 DEF Unrecorded, At
  <2> QED
    BY <2>2, <2>3
<1> QED
  BY <1>1, <1>2, <1>3, <1>4, BodyGoesOn

(* One row changes, but not what it has stored.                            *)
LEMMA OneRowStands ==
  ASSUME IInv, IInv', NEW r \in DOMAIN runs, NEW row, runs' = [runs EXCEPT ![r] = row],
         row.status = "purged" <=> runs[r].status = "purged",
         row.stored = runs[r].stored, row.result = runs[r].result
  PROVE  Watermark' = Watermark /\ Len(runs') = Len(runs)
<1>1. DOMAIN runs' = DOMAIN runs /\ runs'[r] = row
      /\ \A s \in DOMAIN runs \ {r} : runs'[s] = runs[s]
  OBVIOUS
<1>2. StoredIn(runs') = StoredIn(runs)
  BY <1>1 DEF StoredIn
<1>3. \A s \in StoredIn(runs) : runs'[s].result = runs[s].result
  BY <1>1 DEF StoredIn
<1>4. Len(runs') = Len(runs)
  <2>1. /\ Len(runs) \in Nat /\ DOMAIN runs = 1..Len(runs)
        /\ Len(runs') \in Nat /\ DOMAIN runs' = 1..Len(runs')
    BY LenProperties DEF IInv, RunsInv
  <2> QED
    BY <1>1, <2>1
<1> QED
  BY <1>2, <1>3, <1>4, StandsStill

(* The newest run stores its checkpoint.                                   *)
LEMMA LastStores ==
  ASSUME IInv, IInv', Len(runs') \in DOMAIN runs',
         runs'[Len(runs')].stored, runs'[Len(runs')].status # "purged"
  PROVE  Watermark' = runs'[Len(runs')].result
<1>1. runs' \in Seq(Rows) /\ Len(runs') \in Nat /\ DOMAIN runs' = 1..Len(runs')
  BY LenProperties DEF IInv, RunsInv
<1>2. Len(runs') \in StoredIn(runs') /\ \A s \in StoredIn(runs') : s <= Len(runs')
  BY <1>1 DEF StoredIn
<1>3. MarkIn(runs') = runs'[Len(runs')].result
  BY <1>1, <1>2, MarkOfLast
<1> QED
  BY <1>3, WatermarkOfTable

LEMMA MarkFailedKeepsRepeats ==
  ASSUME IInv, IInv', RepeatsInv, NEW w \in Bodies, MarkFailed(w)
  PROVE  RepeatsInv'
<1>1. /\ UNCHANGED <<kind, posts, excused>> /\ tasks[w].pc = "fail" /\ Busy(w)
      /\ tasks' = [tasks EXCEPT ![w] = Idle] /\ Idle.pc = "idle"
  BY DEF MarkFailed, At, history, Busy, Leave, Idle
<1>2. Watermark' = Watermark /\ Len(runs') = Len(runs)
  <2>1. CASE runs' = runs
    BY <2>1, StandsStill
  <2>2. CASE runs' # runs
    <3> DEFINE row == [RunOf(w) EXCEPT !.status = "failed"]
    <3>1. runs' = [runs EXCEPT ![tasks[w].run] = row]
      BY <1>1, <2>2, AtWork DEF MarkFailed, Ended
    <3>2. /\ row.status = "failed" /\ row.stored = RunOf(w).stored
          /\ row.result = RunOf(w).result
      BY <1>1, AtWork DEF Rows
    <3> HIDE DEF row
    <3>3. RunOf(w).status = "running"
      BY <1>1, AtWork
    <3> QED
      BY <1>1, <3>1, <3>2, <3>3, AtWork, OneRowStands DEF RunOf
  <2> QED
    BY <2>1, <2>2
<1> QED
  BY <1>1, <1>2, ExcusesGrow, BodyGoesOn

LEMMA FailureLostKeepsRepeats ==
  ASSUME IInv, IInv', RepeatsInv, NEW w \in Bodies, FailureLost(w)
  PROVE  RepeatsInv'
<1>1. /\ UNCHANGED <<kind, runs, posts, excused>> /\ tasks[w].pc = "fail"
      /\ tasks' = [tasks EXCEPT ![w] = Idle] /\ Idle.pc = "idle"
  BY DEF FailureLost, At, Leave, Idle
<1>2. Watermark' = Watermark
  BY <1>1, StandsStill
<1> QED
  BY <1>1, <1>2, ExcusesGrow, BodyGoesOn

LEMMA StartKeepsRepeats ==
  ASSUME IInv, IInv', RepeatsInv, NEW w \in Bodies, Start(w)
  PROVE  RepeatsInv'
<1>1. UNCHANGED <<kind, posts, excused>> /\ tasks[w].pc = "start"
  BY DEF Start, At, history
<1>2. CASE Free
  <2> DEFINE n == Len(runs)
             task == [tasks[w] EXCEPT !.pc = "begin", !.run = n + 1]
  <2>1. n \in Nat /\ DOMAIN runs = 1..n
    BY RunsAreNumbered DEF IInv
  <2>2. runs' = Append(runs, Row) /\ tasks' = [tasks EXCEPT ![w] = task]
    BY <1>2 DEF Start, IInv, TasksInv, Tasks
  <2>3. /\ Len(runs') = n + 1 /\ DOMAIN runs' = 1..n + 1
        /\ runs'[n + 1] = Row /\ \A r \in 1..n : runs'[r] = runs[r]
    BY <2>1, <2>2 DEF IInv, RunsInv
  <2>4. StoredIn(runs') = StoredIn(runs) /\ ~Row.stored
    BY <2>1, <2>3 DEF StoredIn, Row
  <2>5. Watermark' = Watermark
    <3>1. \A r \in StoredIn(runs) : runs'[r].result = runs[r].result
      BY <2>1, <2>3 DEF StoredIn
    <3> QED
      BY <2>4, <3>1, StandsStill
  <2>6. \A v \in Bodies : ~Busy(v)
    BY <1>2 DEF Free, IInv, TasksInv
  <2>7. tasks'[w] = task /\ \A v \in Bodies \ {w} : tasks'[v] = tasks[v]
    BY <2>2 DEF IInv, TasksInv
  <2>8. task.pc = "begin" /\ task.run = n + 1
    BY DEF IInv, TasksInv, Tasks
  <2> HIDE DEF task, n
  <2>9. RunsInOrder'
    BY <2>3, <2>6, <2>7, <2>8 DEF RunsInOrder, Busy
  <2>10. /\ \A i \in 1..Items : ~Posting(i)
         /\ \A v \in Bodies : ~Ahead(v)'
    BY <2>6, <2>7, <2>8 DEF Posting, Ahead, Busy
  <2>11. kind = "changelog" => PostsInv'
    BY <1>1, <2>5, <2>10, ExcusesGrow, CountedStep DEF RepeatsInv
  <2> QED
    BY <1>1, <2>9, <2>11 DEF RepeatsInv
<1>3. CASE ~Free
  <2> DEFINE task == IF tasks[w].attempt = 2 THEN Idle
                     ELSE [tasks[w] EXCEPT !.pc = "claim", !.attempt = @ + 1]
  <2>1. runs' = runs /\ tasks' = [tasks EXCEPT ![w] = task] /\ task.pc \in {"idle", "claim"}
    BY <1>3 DEF Start, Leave, Idle, IInv, TasksInv, Tasks
  <2> HIDE DEF task
  <2>2. Watermark' = Watermark
    BY <2>1, StandsStill
  <2> QED
    BY <1>1, <2>1, <2>2, ExcusesGrow, BodyGoesOn
<1> QED
  BY <1>2, <1>3

LEMMA CancellingKeepsRepeats ==
  ASSUME IInv, IInv', RepeatsInv, FindRun \/ RequestCancel
  PROVE  RepeatsInv'
<1>1. UNCHANGED <<kind, tasks, posts, excused>>
  BY DEF FindRun, RequestCancel, history
<1>2. Watermark' = Watermark /\ Len(runs') = Len(runs)
  <2>1. CASE runs' = runs
    BY <2>1, StandsStill
  <2>2. CASE runs' # runs
    <3> DEFINE row == [runs[cancel] EXCEPT !.cancelled = TRUE]
    <3>1. cancel \in DOMAIN runs /\ runs' = [runs EXCEPT ![cancel] = row]
      BY <2>2, RunsAreNumbered DEF FindRun, RequestCancel, IInv, RestInv, NoRun
    <3>2. /\ row.status = runs[cancel].status /\ row.stored = runs[cancel].stored
          /\ row.result = runs[cancel].result
      OBVIOUS
    <3> HIDE DEF row
    <3> QED
      BY <3>1, <3>2, OneRowStands
  <2> QED
    BY <2>1, <2>2
<1> QED
  BY <1>1, <1>2, ExcusesGrow, BodiesStay

LEMMA RepeatableGrows ==
  ASSUME IInv, NEW from, NEW to, excused' = Repeatable(from, to)
  PROVE  /\ \A i \in 1..Items : excused[i] <= excused'[i]
         /\ \A i \in 1..Items : from < i /\ i <= to => excused[i] + 1 <= excused'[i]
<1>1. \A i \in 1..Items :
        excused'[i] = excused[i] + (IF from < i /\ i <= to THEN 1 ELSE 0)
  BY DEF Repeatable
<1>2. \A i \in 1..Items : excused[i] \in Nat
  BY ExcusesGrow
<1>3. \A i \in 1..Items :
        excused'[i] = IF from < i /\ i <= to THEN excused[i] + 1 ELSE excused[i]
  BY <1>1, <1>2
<1> QED
  BY <1>2, <1>3

LEMMA PurgeKeepsRepeats ==
  ASSUME IInv, IInv', RepeatsInv, NEW n \in DOMAIN runs, Purge(n)
  PROVE  RepeatsInv'
<1>1. UNCHANGED <<kind, tasks, posts>>
  BY DEF Purge
<1>2. /\ DOMAIN runs' = DOMAIN runs /\ Len(runs) \in Nat /\ DOMAIN runs = 1..Len(runs)
      /\ Len(runs') \in Nat /\ DOMAIN runs' = 1..Len(runs')
      /\ runs \in Seq(Rows) /\ runs' \in Seq(Rows)
  BY LenProperties DEF IInv, RunsInv, Purge
<1>3. \A r \in DOMAIN runs : runs'[r] = IF r <= n THEN Purged ELSE runs[r]
  BY DEF Purge
<1>4. n \in Nat /\ ~Purged.stored
  BY <1>2 DEF Purged, Row
<1>5. StoredIn(runs') = {r \in StoredIn(runs) : r > n}
  BY <1>2, <1>3, <1>4 DEF StoredIn
<1>6. \A r \in StoredIn(runs') : runs'[r].result = runs[r].result
  <2>1. \A r \in StoredIn(runs') : r \in DOMAIN runs /\ r > n
    BY <1>5 DEF StoredIn
  <2> QED
    BY <1>2, <1>3, <1>4, <2>1
<1>7. \/ Watermark' = Watermark
      \/ Watermark' = Fresh /\ Latest(StoredIn(runs)) \in 1..n
  BY <1>2, <1>4, <1>5, <1>6, PurgedMark, WatermarkOfTable
<1>8. Latest(StoredIn(runs)) = LatestForResume
  BY Zenon DEF LatestForResume, StoredIn, Kept
<1>9. excused' = IF kind = "changelog" /\ LatestForResume \in 1..n
                 THEN Repeatable(0, Watermark.at) ELSE excused
  BY DEF Purge
<1>10. \A i \in 1..Items : excused[i] <= excused'[i]
  BY <1>9, RepeatableGrows, ExcusesGrow
<1>11. ASSUME kind = "changelog", NEW i \in 1..Items
       PROVE  \/ i > Watermark'.at => i > Watermark.at
              \/ excused[i] + 1 <= excused'[i]
  <2>1. CASE Watermark' = Watermark
    BY <2>1
  <2>2. CASE LatestForResume \in 1..n
    <3>1. \A j \in 1..Items : 0 < j /\ j <= Watermark.at => excused[j] + 1 <= excused'[j]
      BY <1>9, <1>11, <2>2, RepeatableGrows
    <3>2. Watermark.at \in Nat
      BY SourcesAreSound DEF Checkpoints
    <3> QED
      BY <3>1, <3>2
  <2> QED
    BY <1>7, <1>8, <2>1, <2>2
<1>12. Len(runs') = Len(runs)
  BY <1>2
<1> QED
  BY <1>1, <1>10, <1>11, <1>12, BodiesStay

LEMMA ProcessKeepsRepeats ==
  ASSUME IInv, IInv', RepeatsInv, BeginShutdown \/ Restart \/ UNCHANGED runsVars
  PROVE  RepeatsInv'
<1>1. UNCHANGED <<kind, tasks, posts, excused>>
  BY DEF BeginShutdown, Restart, runsVars, history
<1>2. Watermark' = Watermark /\ Len(runs') = Len(runs)
  <2>1. CASE runs' = runs
    BY <2>1, StandsStill
  <2>2. CASE runs' = Swept
    <3>1. /\ DOMAIN runs' = DOMAIN runs
          /\ \A r \in DOMAIN runs :
               runs'[r] = IF runs[r].status = "running"
                          THEN [runs[r] EXCEPT !.status = "failed"] ELSE runs[r]
      BY <2>2 DEF Swept
    <3>2. \A r \in DOMAIN runs :
            /\ runs'[r].stored = runs[r].stored /\ runs'[r].result = runs[r].result
            /\ runs'[r].status = "purged" <=> runs[r].status = "purged"
      <4>1. \A r \in DOMAIN runs : runs[r] \in Rows
        BY RunsAreNumbered DEF IInv
      <4> QED
        BY <3>1, <4>1 DEF Rows
    <3>3. StoredIn(runs') = StoredIn(runs) /\ StoredIn(runs) \subseteq DOMAIN runs
      BY <3>1, <3>2 DEF StoredIn
    <3>4. Len(runs') = Len(runs)
      <4>1. /\ Len(runs) \in Nat /\ DOMAIN runs = 1..Len(runs)
            /\ Len(runs') \in Nat /\ DOMAIN runs' = 1..Len(runs')
        BY LenProperties DEF IInv, RunsInv
      <4> QED
        BY <3>1, <4>1
    <3> QED
      BY <3>2, <3>3, <3>4, StandsStill
  <2> QED
    BY <2>1, <2>2 DEF BeginShutdown, Restart, runsVars
<1> QED
  BY <1>1, <1>2, ExcusesGrow, BodiesStay

LEMMA ExitKeepsRepeats ==
  ASSUME IInv, IInv', RepeatsInv, Exit
  PROVE  RepeatsInv'
<1>1. UNCHANGED <<kind, runs, posts>> /\ tasks' = [w \in Bodies |-> Idle]
  BY DEF Exit
<1>2. \A w \in Bodies : ~Busy(w)' /\ ~Ahead(w)'
  BY <1>1 DEF Busy, Ahead, Idle
<1>3. Watermark' = Watermark
  BY <1>1, StandsStill
<1>4. ASSUME NEW i \in 1..Items
      PROVE  /\ excused[i] <= excused'[i]
             /\ kind = "changelog" /\ Posting(i) => excused[i] + 1 <= excused'[i]
  <2> DEFINE S == {w \in Bodies : /\ At(w, "record") /\ tasks[w].at.at = i
                                  /\ kind = "changelog"}
  <2>1. excused'[i] = excused[i] + Cardinality(S)
    BY DEF Exit
  <2>2. S \subseteq Bodies /\ IsFiniteSet(Bodies)
    OBVIOUS
  <2>3. IsFiniteSet(S) /\ Cardinality(S) \in Nat /\ (S # {} => Cardinality(S) # 0)
    <3> HIDE DEF S
    <3> QED
      BY <2>2, FS_Subset, FS_CardinalityType, FS_EmptySet
  <2>4. kind = "changelog" /\ Posting(i) => S # {}
    BY DEF Posting, At
  <2>5. excused[i] \in Nat
    BY ExcusesGrow
  <2> HIDE DEF S
  <2> QED
    BY <2>1, <2>3, <2>4, <2>5
<1>5. RunsInOrder'
  BY <1>2 DEF RunsInOrder
<1>6. kind = "changelog" => PostsInv'
  BY <1>1, <1>2, <1>3, <1>4, CountedStep DEF RepeatsInv
<1> QED
  BY <1>1, <1>5, <1>6 DEF RepeatsInv

(* A body at work is alone, and its row is the newest.                     *)
LEMMA Alone ==
  ASSUME IInv, RepeatsInv, NEW w \in Bodies, Busy(w)
  PROVE  /\ tasks[w].run = Len(runs) /\ Len(runs) \in DOMAIN runs
         /\ \A v \in Bodies \ {w} : ~Busy(v) /\ ~Ahead(v)
         /\ \A i : Posting(i) => tasks[w].pc = "record" /\ tasks[w].at.at = i
<1>1. \A v \in Bodies \ {w} : ~Busy(v)
  BY DEF IInv, TasksInv
<1>2. tasks[w].run = Len(runs) /\ tasks[w].run \in DOMAIN runs
  BY AtWork DEF RepeatsInv, RunsInOrder
<1> QED
  BY <1>1, <1>2 DEF Busy, Ahead, Posting

(* The body at work takes its step.                                        *)
LEMMA OrderStays ==
  ASSUME IInv, RepeatsInv, Len(runs') = Len(runs), NEW w \in Bodies, Busy(w),
         NEW task, tasks' = [tasks EXCEPT ![w] = task],
         task.run = tasks[w].run \/ task.pc = "idle"
  PROVE  /\ RunsInOrder' /\ tasks'[w] = task
         /\ \A v \in Bodies \ {w} : ~Busy(v)' /\ ~Ahead(v)' /\ tasks'[v].pc # "record"
<1>1. tasks'[w] = task /\ \A v \in Bodies \ {w} : tasks'[v] = tasks[v]
  BY DEF IInv, TasksInv
<1>2. \A v \in Bodies \ {w} : ~Busy(v) /\ ~Ahead(v) /\ tasks[v].pc # "record"
  BY Alone DEF Ahead
<1>3. \A v \in Bodies \ {w} : ~Busy(v)' /\ ~Ahead(v)' /\ tasks'[v].pc # "record"
  BY <1>1, <1>2 DEF Busy, Ahead
<1>4. Busy(w)' => tasks'[w].run = Len(runs')
  BY <1>1, Alone DEF Busy
<1> QED
  BY <1>1, <1>3, <1>4 DEF RunsInOrder

LEMMA BeginKeepsRepeats ==
  ASSUME IInv, IInv', RepeatsInv, NEW w \in Bodies, Begin(w)
  PROVE  RepeatsInv'
<1> DEFINE at == IF tasks[w].inside THEN Watermark ELSE tasks[w].at
<1>1. Busy(w) /\ tasks[w].pc = "begin" /\ UNCHANGED <<kind, posts>>
  BY DEF Begin, Busy, At
<1>2. PICK pc \in {"work", "finish"} : tasks' = [tasks EXCEPT ![w].pc = pc, ![w].at = at]
  BY DEF Begin
<1> DEFINE task == [tasks[w] EXCEPT !.pc = pc, !.at = at]
<1>3. tasks[w] \in Tasks /\ at \in Checkpoints
  BY <1>1, AtWork, SourcesAreSound DEF Tasks
<1>4. tasks' = [tasks EXCEPT ![w] = task]
  BY <1>1, <1>2, AtWork
<1>5. Len(runs') = Len(runs)
  <2>1. CASE kind = "images"
    <3>1. DOMAIN runs' = DOMAIN runs
      BY <2>1 DEF Begin
    <3> QED
      BY <3>1, LenProperties DEF IInv, RunsInv
  <2>2. CASE kind # "images"
    BY <2>2 DEF Begin
  <2> QED
    BY <2>1, <2>2
<1>6. kind = "changelog" => excused' = Repeatable(at.at, Watermark.at) /\ runs' = runs
  BY DEF Begin
<1> HIDE DEF at
<1>7. task.pc = pc /\ task.at = at /\ task.run = tasks[w].run
  BY <1>3 DEF Tasks
<1> HIDE DEF task
<1>8. /\ RunsInOrder' /\ tasks'[w] = task
      /\ \A v \in Bodies \ {w} : ~Busy(v)' /\ ~Ahead(v)' /\ tasks'[v].pc # "record"
  BY <1>1, <1>4, <1>5, <1>7, OrderStays
<1>9. ASSUME kind = "changelog" PROVE PostsInv'
  <2>1. Watermark' = Watermark /\ PostsInv
    BY <1>6, <1>9, StandsStill DEF RepeatsInv
  <2>2. /\ \A i \in 1..Items : excused[i] <= excused'[i]
        /\ \A i \in 1..Items : at.at < i /\ i <= Watermark.at => excused[i] + 1 <= excused'[i]
    BY <1>6, <1>9, RepeatableGrows
  <2>3. \A i \in 1..Items : posts[i] \in Nat /\ excused[i] \in Nat /\ excused'[i] \in Nat
    BY DEF IInv, RestInv
  <2>4. \A i \in 1..Items : ~Posting(i)
    BY <1>1, Alone
  <2>5. \A i \in 1..Items : posts'[i] <= 1 + excused'[i]
    BY <1>1, <2>1, <2>2, <2>3 DEF PostsInv
  <2>6. \A i \in 1..Items : i > Watermark'.at => posts'[i] <= excused'[i]
    <3>1. \A i \in 1..Items : i > Watermark.at => posts[i] <= excused[i]
      BY <2>1, <2>4 DEF PostsInv
    <3> QED
      BY <1>1, <2>1, <2>2, <2>3, <3>1
  <2>7. ASSUME NEW i \in 1..Items, i > at.at PROVE posts'[i] <= excused'[i]
    <3>1. Watermark.at \in Nat /\ at.at \in Nat
      BY <1>3, SourcesAreSound DEF Checkpoints
    <3>2. CASE i <= Watermark.at
      <4>1. excused[i] + 1 <= excused'[i]
        BY <2>2, <2>7, <3>1, <3>2
      <4>2. posts[i] <= 1 + excused[i]
        BY <2>1 DEF PostsInv
      <4> QED
        BY <1>1, <2>3, <4>1, <4>2
    <3>3. CASE ~(i <= Watermark.at)
      <4>1. i > Watermark.at
        BY <3>1, <3>3
      <4> QED
        BY <2>1, <2>6, <4>1
    <3> QED
      BY <3>2, <3>3
  <2>8. ASSUME NEW v \in Bodies, Ahead(v)', NEW i \in 1..Items, i > tasks'[v].at.at
        PROVE  posts'[i] <= excused'[i]
    BY <1>7, <1>8, <2>7, <2>8
  <2> QED
    BY <2>5, <2>6, <2>8 DEF PostsInv
<1> QED
  BY <1>1, <1>8, <1>9 DEF RepeatsInv

LEMMA WorkKeepsRepeats ==
  ASSUME IInv, IInv', RepeatsInv, NEW w \in Bodies, Work(w)
  PROVE  RepeatsInv'
<1>0. PICK item : item = tasks[w].at.at + 1
  OBVIOUS
<1> DEFINE at   == [at |-> item, did |-> tasks[w].at.did \cup {item}]
           task == [tasks[w] EXCEPT !.pc = "record", !.at = at]
<1>1. Busy(w) /\ Ahead(w) /\ tasks[w].pc = "work" /\ UNCHANGED <<kind, excused>>
  BY DEF Work, Busy, Ahead, At
<1>2. tasks[w].at \in Checkpoints /\ tasks[w].at.at < Items /\ tasks[w] \in Tasks
  BY <1>1, AtWork DEF Work, More, Tasks
<1>3. item \in 1..Items /\ at.at = item
  BY <1>0, <1>2 DEF Checkpoints
<1>4. tasks' = [tasks EXCEPT ![w] = task]
  <2>1. tasks' = [tasks EXCEPT ![w].pc = "record", ![w].at = at]
    BY <1>0, <1>1, AtWork DEF Work
  <2> HIDE DEF at
  <2> QED
    BY <1>1, <2>1, AtWork
<1>5. Len(runs') = Len(runs)
  <2>1. CASE kind = "changelog"
    BY <2>1 DEF Work
  <2>2. CASE kind # "changelog"
    <3>1. DOMAIN runs' = DOMAIN runs
      BY <2>2 DEF Work
    <3> QED
      BY <3>1, LenProperties DEF IInv, RunsInv
  <2> QED
    BY <2>1, <2>2
<1>6. kind = "changelog" => posts' = [posts EXCEPT ![item] = @ + 1] /\ runs' = runs
  BY <1>0 DEF Work
<1>7. \A i \in 1..Items : i >= item => i > tasks[w].at.at
  BY <1>0, <1>2 DEF Checkpoints
<1> HIDE DEF at
<1>8. task.pc = "record" /\ task.at = at /\ task.run = tasks[w].run
  BY <1>2 DEF Tasks
<1> HIDE DEF task
<1>9. /\ RunsInOrder' /\ tasks'[w] = task
      /\ \A v \in Bodies \ {w} : ~Busy(v)' /\ ~Ahead(v)' /\ tasks'[v].pc # "record"
  BY <1>1, <1>4, <1>5, <1>8, OrderStays
<1>10. ASSUME kind = "changelog" PROVE PostsInv'
  <2>1. Watermark' = Watermark /\ PostsInv
    BY <1>6, <1>10, StandsStill DEF RepeatsInv
  <2>2. \A i \in 1..Items : posts[i] \in Nat /\ excused[i] \in Nat
    BY ExcusesGrow
  <2>3. \A i \in 1..Items : posts'[i] = IF i = item THEN posts[i] + 1 ELSE posts[i]
    BY <1>6, <1>10 DEF IInv, RestInv
  <2>4. posts[item] <= excused[item]
    BY <1>1, <1>3, <1>7, <2>1 DEF PostsInv
  <2>5. \A i \in 1..Items : posts'[i] <= 1 + excused'[i]
    BY <1>1, <1>3, <2>1, <2>2, <2>3, <2>4 DEF PostsInv
  <2>6. Posting(item)'
    BY <1>3, <1>8, <1>9 DEF Posting
  <2>7. \A i \in 1..Items : ~Posting(i)
    BY <1>1, Alone
  <2>8. \A i \in 1..Items : i > Watermark'.at /\ ~Posting(i)' => posts'[i] <= excused'[i]
    <3>1. \A i \in 1..Items : i > Watermark.at => posts[i] <= excused[i]
      BY <2>1, <2>7 DEF PostsInv
    <3> QED
      BY <1>1, <2>1, <2>3, <2>6, <3>1
  <2>9. ASSUME NEW i \in 1..Items, i > item PROVE posts'[i] <= excused'[i]
    <3>1. i # item /\ i >= item
      BY <1>3, <2>9
    <3>2. posts[i] <= excused[i]
      BY <1>1, <1>7, <2>1, <3>1 DEF PostsInv
    <3> QED
      BY <1>1, <2>3, <3>1, <3>2
  <2>10. ASSUME NEW v \in Bodies, Ahead(v)', NEW i \in 1..Items, i > tasks'[v].at.at
         PROVE  posts'[i] <= excused'[i]
    BY <1>3, <1>8, <1>9, <2>9, <2>10
  <2> QED
    BY <2>5, <2>8, <2>10 DEF PostsInv
<1> QED
  BY <1>1, <1>9, <1>10 DEF RepeatsInv

LEMMA RecordKeepsRepeats ==
  ASSUME IInv, IInv', RepeatsInv, NEW w \in Bodies, Record(w)
  PROVE  RepeatsInv'
<1> DEFINE r    == tasks[w].run
           task == [tasks[w] EXCEPT !.pc = IF kind = "images" THEN "check" ELSE "work"]
           row  == [RunOf(w) EXCEPT !.stored = TRUE, !.result = tasks[w].at,
                                    !.cancelled = KeptCancel(w)]
<1>1. Busy(w) /\ Ahead(w) /\ tasks[w].pc = "record" /\ UNCHANGED <<kind, posts, excused>>
  BY DEF Record, Busy, Ahead, At, history
<1>2. /\ tasks[w] \in Tasks /\ r \in DOMAIN runs /\ RunOf(w) \in Rows
      /\ RunOf(w).status = "running"
  BY <1>1, AtWork
<1>3. tasks' = [tasks EXCEPT ![w] = task] /\ runs' = [runs EXCEPT ![r] = row]
  BY <1>1, AtWork DEF Record, Go, Checkpoint
<1>4. row.stored /\ row.status = "running" /\ row.result = tasks[w].at
  BY <1>2 DEF Rows
<1>5. task.at = tasks[w].at /\ task.run = r
  BY <1>2 DEF Tasks
<1>6. kind # "images" => task.pc = "work"
  BY <1>2 DEF Tasks
<1> HIDE DEF row, task
<1>7. Len(runs') = Len(runs) /\ DOMAIN runs' = DOMAIN runs /\ runs'[r] = row
  <2>1. DOMAIN runs' = DOMAIN runs /\ runs'[r] = row
    BY <1>2, <1>3
  <2> QED
    BY <2>1, LenProperties DEF IInv, RunsInv
<1>8. /\ RunsInOrder' /\ tasks'[w] = task
      /\ \A v \in Bodies \ {w} : ~Busy(v)' /\ ~Ahead(v)' /\ tasks'[v].pc # "record"
  BY <1>1, <1>3, <1>5, <1>7, OrderStays
<1>9. ASSUME kind = "changelog" PROVE PostsInv'
  <2>1. PostsInv
    BY <1>9 DEF RepeatsInv
  <2>2. Watermark' = tasks[w].at
    <3>1. r = Len(runs')
      BY <1>1, <1>7, Alone
    <3> QED
      BY <1>2, <1>4, <1>7, <3>1, LastStores
  <2>3. \A i \in 1..Items : posts'[i] <= 1 + excused'[i]
    BY <1>1, <2>1 DEF PostsInv
  <2>4. \A i \in 1..Items : i > tasks[w].at.at => posts'[i] <= excused'[i]
    BY <1>1, <2>1 DEF PostsInv
  <2>5. ASSUME NEW v \in Bodies, Ahead(v)', NEW i \in 1..Items, i > tasks'[v].at.at
        PROVE  posts'[i] <= excused'[i]
    BY <1>5, <1>8, <2>4, <2>5
  <2> QED
    BY <2>2, <2>3, <2>4, <2>5 DEF PostsInv
<1> QED
  BY <1>1, <1>8, <1>9 DEF RepeatsInv

LEMMA SucceedKeepsRepeats ==
  ASSUME IInv, IInv', RepeatsInv, NEW w \in Bodies, Succeed(w)
  PROVE  RepeatsInv'
<1> DEFINE r   == tasks[w].run
           row == [RunOf(w) EXCEPT !.status = "succeeded", !.stored = TRUE,
                                   !.result = tasks[w].at, !.cancelled = FALSE]
<1>1. Busy(w) /\ Ahead(w) /\ UNCHANGED <<kind, posts, excused>>
  BY DEF Succeed, Busy, Ahead, At, history
<1>2. r \in DOMAIN runs /\ RunOf(w) \in Rows
  BY <1>1, AtWork
<1>3. tasks' = [tasks EXCEPT ![w] = Idle] /\ runs' = [runs EXCEPT ![r] = row]
  BY <1>1, AtWork DEF Succeed, Leave
<1>4. row.stored /\ row.status = "succeeded" /\ row.result = tasks[w].at
  BY <1>2 DEF Rows
<1> HIDE DEF row
<1>5. Len(runs') = Len(runs) /\ DOMAIN runs' = DOMAIN runs /\ runs'[r] = row
  <2>1. DOMAIN runs' = DOMAIN runs /\ runs'[r] = row
    BY <1>2, <1>3
  <2> QED
    BY <2>1, LenProperties DEF IInv, RunsInv
<1>6. /\ RunsInOrder' /\ tasks'[w] = Idle
      /\ \A v \in Bodies \ {w} : ~Busy(v)' /\ ~Ahead(v)' /\ tasks'[v].pc # "record"
  BY <1>1, <1>3, <1>5, IdleIsFine, OrderStays
<1>7. ASSUME kind = "changelog" PROVE PostsInv'
  <2>1. PostsInv
    BY <1>7 DEF RepeatsInv
  <2>2. Watermark' = tasks[w].at
    <3>1. r = Len(runs')
      BY <1>1, <1>5, Alone
    <3> QED
      BY <1>2, <1>4, <1>5, <3>1, LastStores
  <2>3. \A i \in 1..Items : posts'[i] <= 1 + excused'[i]
    BY <1>1, <2>1 DEF PostsInv
  <2>4. \A i \in 1..Items : i > tasks[w].at.at => posts'[i] <= excused'[i]
    BY <1>1, <2>1 DEF PostsInv
  <2>5. \A v \in Bodies : ~Ahead(v)'
    BY <1>6 DEF Ahead, Idle
  <2> QED
    BY <2>2, <2>3, <2>4, <2>5 DEF PostsInv
<1> QED
  BY <1>1, <1>6, <1>7 DEF RepeatsInv

LEMMA NextKeepsRepeats ==
  ASSUME IInv, IInv', RepeatsInv, [RunsNext]_runsVars
  PROVE  RepeatsInv'
<1>1. ASSUME NEW w \in Bodies, Request(w) \/ Step(w) \/ Throw(w) \/ FailureLost(w)
      PROVE  RepeatsInv'
  BY <1>1, RequestKeepsRepeats, ClaimKeepsRepeats, StartKeepsRepeats, BeginKeepsRepeats,
     WorkKeepsRepeats, RecordKeepsRepeats, CheckKeepsRepeats, SucceedKeepsRepeats,
     MarkFailedKeepsRepeats, ThrowKeepsRepeats, FailureLostKeepsRepeats DEF Step
<1>2. ASSUME NEW n \in DOMAIN runs, Purge(n) PROVE RepeatsInv'
  BY <1>2, PurgeKeepsRepeats
<1>3. CASE FindRun \/ RequestCancel
  BY <1>3, CancellingKeepsRepeats
<1>4. CASE BeginShutdown \/ Restart \/ UNCHANGED runsVars
  BY <1>4, ProcessKeepsRepeats
<1>5. CASE Exit
  BY <1>5, ExitKeepsRepeats
<1> QED
  BY <1>1, <1>2, <1>3, <1>4, <1>5 DEF RunsNext

(* Only the changelog posts.                                               *)
ImagesPostNothing == kind = "images" => \A i \in 1..Items : posts[i] = 0

LEMMA NextPosts ==
  ASSUME [RunsNext]_runsVars
  PROVE  UNCHANGED kind /\ (kind # "changelog" => UNCHANGED posts)
<1>1. ASSUME NEW w \in Bodies, Request(w) \/ Step(w) \/ Throw(w) \/ FailureLost(w)
      PROVE  UNCHANGED kind /\ (kind # "changelog" => UNCHANGED posts)
  BY <1>1 DEF history, Request, Step, Throw, FailureLost, Claim, Start, Begin, Work, Record,
              Check, Succeed, MarkFailed
<1>2. CASE \E n \in DOMAIN runs : Purge(n)
  BY <1>2 DEF Purge
<1>3. CASE FindRun \/ RequestCancel \/ BeginShutdown \/ Restart \/ Exit
  BY <1>3 DEF history, FindRun, RequestCancel, BeginShutdown, Restart, Exit
<1>4. CASE UNCHANGED runsVars
  BY <1>4 DEF runsVars, history
<1> QED
  BY <1>1, <1>2, <1>3, <1>4 DEF RunsNext

(* Every date that may be posted again - by a run that resumes behind it,  *)
(* by an admin's run that read an old watermark, after a purge - has been  *)
(* counted by then: kept by every step of the bodies, of the purge and of  *)
(* the process.                                                            *)
THEOREM RepeatsInvariant == RunsSpec => [](RepeatsInv /\ ImagesPostNothing)
<1>1. RunsInit => RepeatsInv /\ ImagesPostNothing
  BY InitRepeats DEF RunsInit, ImagesPostNothing
<1>2. IInv /\ IInv' /\ RepeatsInv /\ ImagesPostNothing /\ [RunsNext]_runsVars
        => RepeatsInv' /\ ImagesPostNothing'
  BY NextKeepsRepeats, NextPosts DEF ImagesPostNothing
<1> QED
  BY <1>1, <1>2, RunsInvariant, PTL DEF RunsSpec

(* No date is announced twice but where a run ended between the post and   *)
(* its watermark, an admin's post read the watermark before another run    *)
(* moved it, or the rows that held it were purged - for any number of      *)
(* runs, crashes and restarts.                                             *)
THEOREM RepeatsStayExplained == RunsSpec => []RepeatsAreExplained
<1>1. IInv /\ RepeatsInv /\ ImagesPostNothing => RepeatsAreExplained
  <2> SUFFICES ASSUME IInv, RepeatsInv, ImagesPostNothing PROVE RepeatsAreExplained
    OBVIOUS
  <2>1. CASE kind = "changelog"
    BY <2>1 DEF RepeatsInv, PostsInv, RepeatsAreExplained
  <2>2. CASE kind = "images"
    <3>1. \A i \in 1..Items : posts[i] = 0 /\ excused[i] \in Nat
      BY <2>2, ExcusesGrow DEF ImagesPostNothing
    <3> QED
      BY <3>1 DEF RepeatsAreExplained
  <2> QED
    BY <2>1, <2>2 DEF IInv, RestInv, Kinds
<1> QED
  BY <1>1, RunsInvariant, RepeatsInvariant, PTL
=============================================================================
