------------------------------ MODULE JobRuns ------------------------------
(***************************************************************************)
(* The API process's background jobs: claiming a row of job_runs, the body *)
(* that works through items and checkpoints them in the row, cancelling,   *)
(* resuming, the purge of old rows, and what a shutdown, a crash and a     *)
(* restart leave behind.                                                   *)
(*                                                                         *)
(* Of the jobs that keep results in their rows two are here: "images"      *)
(* regenerates images and can be cancelled and resumed; "changelog" posts  *)
(* dates to Discord, from the watermark of the last run.  Rows of          *)
(* different kinds have nothing to do with each other, so that a behaviour *)
(* is about one kind.  There is one process, started again when it ends.   *)
(***************************************************************************)
EXTENDS Naturals, Sequences, FiniteSets

CONSTANTS
  Bodies,     \* the requests and bodies under way at once
  Items,      \* batches of a snapshot, dates of the changelog
  MaxRuns,    \* bound on the rows, the first one included
  MaxEnds,    \* bound on the ends of the process
  MaxLost     \* bound on the failure writes the database refuses

ASSUME JobAssumption ==
  /\ IsFiniteSet(Bodies) /\ Items \in Nat \ {0}
  /\ {MaxRuns, MaxEnds, MaxLost} \subseteq Nat \ {0}

VARIABLES
  kind,       \* the kind of the rows
  process,    \* "up", "stopping" or "down"
  runs,       \* job_runs, in the order of startedAt
  tasks,      \* what each worker is doing
  cancel      \* the run a cancel request has found, NoRun for none

VARIABLES     \* history
  posts,      \* how often each date was posted
  excused,    \* how many repeated posts of it are accounted for
  ends,       \* how often the process has ended
  lost        \* runs whose failure could not be written

history == <<posts, excused, ends, lost>>
runsVars    == <<kind, process, runs, tasks, cancel, history>>

Kinds == {"images", "changelog"}
NoRun == 0

(* A checkpoint, and the items done by the run and by those it resumed.    *)
Fresh == [at |-> 0, did |-> {}]
Done1 == [at |-> 1, did |-> {1}]
Row   == [status |-> "running", stored |-> FALSE, result |-> Fresh,
          cancelled |-> FALSE, late |-> 0]
Purged == [Row EXCEPT !.status = "purged"]
Idle  == [pc |-> "idle", inside |-> FALSE, attempt |-> 0, run |-> NoRun, at |-> Fresh]

(* A run of an earlier day got to item 1.                                  *)
FirstRow ==
  [Row EXCEPT !.status = IF kind = "images" THEN "failed" ELSE "succeeded",
              !.stored = TRUE, !.result = Done1]

RunsInit ==
  /\ kind \in Kinds /\ process = "up" /\ cancel = NoRun
  /\ runs = <<FirstRow>>
  /\ tasks = [w \in Bodies |-> Idle]
  /\ posts = [i \in 1..Items |-> IF kind = "changelog" /\ i = 1 THEN 1 ELSE 0]
  /\ excused = [i \in 1..Items |-> 0] /\ ends = 0 /\ lost = {}

-----------------------------------------------------------------------------
(* The table *)

Running == {r \in DOMAIN runs : runs[r].status = "running"}

(* getLatestForResume: a run that failed before its first checkpoint does  *)
(* not hide the one before it.                                             *)
Latest(S) == IF S = {} THEN NoRun ELSE CHOOSE r \in S : \A s \in S : s <= r
Kept      == {r \in DOMAIN runs : runs[r].status # "purged"}
LatestForResume_AnyRun == Latest(Kept)
LatestForResume        == Latest({r \in Kept : runs[r].stored})

(* extractWatermark                                                        *)
Watermark ==
  LET prior == LatestForResume
  IN  IF prior = NoRun \/ ~runs[prior].stored THEN Fresh ELSE runs[prior].result

(* Only a failed run that is not at its end is resumed.                    *)
ToResume ==
  LET prior == LatestForResume
  IN  IF prior = NoRun \/ runs[prior].status # "failed" \/ runs[prior].result.at >= Items
      THEN Fresh ELSE runs[prior].result

Ended(r, status) == [runs EXCEPT ![r].status = status]

-----------------------------------------------------------------------------
(* Requests and timers.  The admin routes read the row they go on from     *)
(* before they claim theirs; the scheduled changelog job, which a timer or *)
(* runNow starts, reads it inside its run.                                 *)

Begun(w, inside, at) ==
  tasks' = [tasks EXCEPT ![w] = [Idle EXCEPT !.pc = "claim", !.inside = inside, !.at = at]]

Request(w) ==
  /\ process = "up" /\ tasks[w] = Idle
  /\ \/ kind = "images" /\ Begun(w, FALSE, ToResume)
     \/ kind = "images" /\ Begun(w, FALSE, Fresh)        \* reset or scansOnly
     \/ kind = "changelog" /\ Begun(w, FALSE, Watermark)
     \/ kind = "changelog" /\ Begun(w, TRUE, Fresh)
  /\ UNCHANGED <<kind, process, runs, cancel, history>>

-----------------------------------------------------------------------------
(* claimRun *)

At(w, pc)   == tasks[w].pc = pc
Go(w, pc)   == [tasks EXCEPT ![w].pc = pc]
Leave(w)    == [tasks EXCEPT ![w] = Idle]
RunOf(w)    == runs[tasks[w].run]

Claim(w) ==
  /\ At(w, "claim")
  /\ tasks' = IF Running # {} THEN Leave(w) ELSE Go(w, "start")
  /\ UNCHANGED <<kind, process, runs, cancel, history>>

(* The partial unique index lets one running row of a kind in; who loses   *)
(* reads again, three times at most.                                       *)
Free_Unchecked == TRUE
Free == Running = {}

Start(w) ==
  LET task == tasks[w]
  IN  /\ At(w, "start") /\ Len(runs) < MaxRuns
      /\ IF Free
         THEN /\ runs' = Append(runs, Row)
              /\ tasks' = [tasks EXCEPT ![w].pc = "begin", ![w].run = Len(runs) + 1]
         ELSE /\ tasks' = IF task.attempt = 2 THEN Leave(w)
                          ELSE [tasks EXCEPT ![w].pc = "claim", ![w].attempt = @ + 1]
              /\ UNCHANGED runs
      /\ UNCHANGED <<kind, process, cancel, history>>

-----------------------------------------------------------------------------
(* The bodies *)

(* A stale or fresh start posts again what later watermarks had covered.   *)
Repeatable(from, to) ==
  [i \in 1..Items |-> excused[i] + (IF from < i /\ i <= to THEN 1 ELSE 0)]

(* runRegenerateImagesJob writes the checkpoint it starts from; the        *)
(* changelog job may find no changelog and be done.                        *)
Begin(w) ==
  LET task == tasks[w]
      at   == IF task.inside THEN Watermark ELSE task.at
  IN  /\ At(w, "begin")
      /\ \E pc \in IF kind = "images" THEN {"work"} ELSE {"work", "finish"} :
           tasks' = [tasks EXCEPT ![w].pc = pc, ![w].at = at]
      /\ IF kind = "images"
         THEN /\ runs' = [runs EXCEPT ![task.run].stored = TRUE,
                                      ![task.run].result = at,
                                      ![task.run].cancelled = FALSE]
              /\ UNCHANGED excused
         ELSE /\ excused' = Repeatable(at.at, Watermark.at)
              /\ UNCHANGED runs
      /\ UNCHANGED <<kind, process, cancel, posts, ends, lost>>

More(task) == task.at.at < Items

(* One batch of images, one date of the changelog.                         *)
Work(w) ==
  LET task == tasks[w]
      item == task.at.at + 1
  IN  /\ At(w, "work") /\ More(task)
      /\ tasks' = [tasks EXCEPT ![w].pc = "record",
                                ![w].at = [at |-> item, did |-> @.did \cup {item}]]
      /\ IF kind = "changelog"
         THEN posts' = [posts EXCEPT ![item] = @ + 1] /\ UNCHANGED runs
         ELSE /\ runs' = [runs EXCEPT ![task.run].late = @ + IF RunOf(w).cancelled THEN 1 ELSE 0]
              /\ UNCHANGED posts
      /\ UNCHANGED <<kind, process, cancel, excused, ends, lost>>

(* mergeResult keeps the request to cancel, updateResult has none to keep. *)
Checkpoint_Cursor(task) == [task.at EXCEPT !.at = IF @ < Items THEN @ + 1 ELSE @]
Checkpoint(task) == task.at
KeptCancel_Overwritten(w) == FALSE
KeptCancel(w) == kind = "images" /\ RunOf(w).cancelled
Record(w) ==
  LET task == tasks[w]
  IN  /\ At(w, "record")
      /\ runs' = [runs EXCEPT ![task.run].stored = TRUE,
                              ![task.run].result = Checkpoint(task),
                              ![task.run].cancelled = KeptCancel(w)]
      /\ tasks' = Go(w, IF kind = "images" THEN "check" ELSE "work")
      /\ UNCHANGED <<kind, process, cancel, history>>

Check(w) ==
  /\ At(w, "check")
  /\ tasks' = Go(w, IF RunOf(w).cancelled THEN "fail" ELSE "work")
  /\ UNCHANGED <<kind, process, runs, cancel, history>>

(* The summary replaces the checkpoint; the changelog's is its watermark.  *)
Succeed(w) ==
  LET task == tasks[w]
  IN  /\ At(w, "finish") \/ (At(w, "work") /\ ~More(task))
      /\ runs' = [runs EXCEPT ![task.run].status = "succeeded",
                              ![task.run].stored = TRUE,
                              ![task.run].result = task.at,
                              ![task.run].cancelled = FALSE]
      /\ tasks' = Leave(w)
      /\ UNCHANGED <<kind, process, cancel, history>>

(* The webhook refuses, a batch throws, the database is away.              *)
Unrecorded(w) ==
  IF kind = "changelog" /\ At(w, "record")
  THEN [excused EXCEPT ![tasks[w].at.at] = @ + 1] ELSE excused
Throw(w) ==
  /\ tasks[w].pc \in {"begin", "work", "record", "check", "finish"}
  /\ tasks' = Go(w, "fail")
  /\ excused' = Unrecorded(w)
  /\ UNCHANGED <<kind, process, runs, cancel, posts, ends, lost>>

(* While the process stops, the row is left to the next start.             *)
MarkFailed(w) ==
  /\ At(w, "fail")
  /\ runs' = IF process = "stopping" THEN runs ELSE Ended(tasks[w].run, "failed")
  /\ tasks' = Leave(w)
  /\ UNCHANGED <<kind, process, cancel, history>>

FailureLost(w) ==
  /\ At(w, "fail") /\ process = "up" /\ Cardinality(lost) < MaxLost
  /\ lost' = lost \cup {tasks[w].run}
  /\ tasks' = Leave(w)
  /\ UNCHANGED <<kind, process, runs, cancel, posts, excused, ends>>

-----------------------------------------------------------------------------
(* cancelRegenerate: the running row and its checkpoint are read, then the *)
(* request is written to the row whatever has become of it.                *)

FindRun ==
  /\ kind = "images" /\ process = "up" /\ cancel = NoRun
  /\ \E r \in Running : runs[r].stored /\ cancel' = r
  /\ UNCHANGED <<kind, process, runs, tasks, history>>

RequestCancel ==
  /\ cancel # NoRun
  /\ runs' = IF runs[cancel].status = "purged" THEN runs
                                               ELSE [runs EXCEPT ![cancel].cancelled = TRUE]
  /\ cancel' = NoRun
  /\ UNCHANGED <<kind, process, tasks, history>>

(* purgeOlderThan, for the rows past the retention time, whatever their    *)
(* status.  No body works for that long, but the row of one whose failure  *)
(* was lost goes this way.                                                 *)
Purge(n) ==
  /\ process = "up"
  /\ \A w \in Bodies : tasks[w].run \notin 1..n
  /\ \E r \in 1..n : runs[r].status # "purged"
  /\ runs' = [r \in DOMAIN runs |->
                IF r <= n THEN Purged ELSE runs[r]]
  /\ excused' = IF kind = "changelog" /\ LatestForResume \in 1..n
                THEN Repeatable(0, Watermark.at) ELSE excused
  /\ UNCHANGED <<kind, process, tasks, cancel, posts, ends, lost>>

-----------------------------------------------------------------------------
(* The process *)

BeginShutdown ==
  /\ process = "up" /\ process' = "stopping"
  /\ UNCHANGED <<kind, runs, tasks, cancel, history>>

(* A crash, the end of a shutdown or its deadline.                         *)
Exit ==
  /\ kind \in Kinds /\ process \in {"up", "stopping"}
  /\ process = "up" => ends < MaxEnds
  /\ process' = "down" /\ ends' = ends + 1
  /\ tasks' = [w \in Bodies |-> Idle] /\ cancel' = NoRun
  /\ excused' = [i \in 1..Items |->
       excused[i] + Cardinality({w \in Bodies : /\ At(w, "record") /\ tasks[w].at.at = i
                                                /\ kind = "changelog"})]
  /\ UNCHANGED <<kind, runs, posts, lost>>

(* sweepOrphaned, before anything else starts.                             *)
Swept_Not == runs
Swept == [r \in DOMAIN runs |->
            IF runs[r].status = "running" THEN [runs[r] EXCEPT !.status = "failed"]
                                          ELSE runs[r]]
Restart ==
  /\ process = "down" /\ process' = "up"
  /\ runs' = Swept
  /\ UNCHANGED <<kind, tasks, cancel, history>>

-----------------------------------------------------------------------------
Step(w) ==
  \/ Claim(w) \/ Start(w) \/ Begin(w) \/ Work(w) \/ Record(w) \/ Check(w)
  \/ Succeed(w) \/ MarkFailed(w)

RunsNext ==
  \/ \E w \in Bodies : Request(w) \/ Step(w) \/ Throw(w) \/ FailureLost(w)
  \/ FindRun \/ RequestCancel \/ \E n \in DOMAIN runs : Purge(n)
  \/ (ends < MaxEnds /\ BeginShutdown) \/ Exit \/ Restart

(* Bodies go on while the process lives, a shutdown has a deadline, and    *)
(* the container is started again.                                         *)
RunsFairness ==
  /\ \A w \in Bodies : WF_runsVars(Step(w))
  /\ WF_runsVars(process = "stopping" /\ Exit) /\ WF_runsVars(Restart)

RunsSpec == RunsInit /\ [][RunsNext]_runsVars /\ RunsFairness

-----------------------------------------------------------------------------
(* Properties *)

Checkpoints == [at : 0..Items, did : SUBSET (1..Items)]
Rows == [status : {"running", "succeeded", "failed", "purged"},
         stored : BOOLEAN, result : Checkpoints, cancelled : BOOLEAN, late : 0..Items]
Tasks == [pc : {"idle", "claim", "start", "begin", "work", "record", "check",
               "finish", "fail"},
          inside : BOOLEAN, attempt : 0..2,
          run : 0..MaxRuns, at : Checkpoints]

RunsTypeOK ==
  /\ kind \in Kinds /\ process \in {"up", "stopping", "down"}
  /\ runs \in Seq(Rows) /\ Len(runs) <= MaxRuns
  /\ tasks \in [Bodies -> Tasks]
  /\ cancel \in 0..Len(runs)
  /\ posts \in [1..Items -> Nat] /\ excused \in [1..Items -> Nat]
  /\ ends \in 0..MaxEnds /\ lost \subseteq DOMAIN runs

(* A body that is at work is that of the kind's one running row, and no    *)
(* two bodies of a kind are ever at work: neither two claims at once, nor  *)
(* a restart, nor a cancelled or failed run leaves a second one going.     *)
Busy(w) == tasks[w].pc \in {"begin", "work", "record", "check", "finish", "fail"}
OneBody ==
  /\ Cardinality(Running) <= 1
  /\ \A w \in Bodies : Busy(w) => Running = {tasks[w].run}
  /\ \A v, w \in Bodies : Busy(v) /\ Busy(w) => v = w

(* A row's checkpoint never runs ahead of the work: everything below it    *)
(* was done by the run or by the runs it went on from, so that resuming    *)
(* skips nothing.                                                          *)
NothingIsSkipped == \A r \in DOMAIN runs : 1..runs[r].result.at \subseteq runs[r].result.did

(* A date is posted again only where a run ended between the post and its  *)
(* watermark, an admin's post read the watermark before another run moved  *)
(* it, or the rows that held it were purged.                               *)
RepeatsAreExplained == \A i \in 1..Items : posts[i] <= 1 + excused[i]

(* A request to cancel that reaches a running job is not lost to the       *)
(* checkpoints the job writes: it begins at most one more batch.           *)
CancelIsHeeded == \A r \in DOMAIN runs : runs[r].late <= 1

(* No run stays "running" and blocks its kind for good: it ends, or the    *)
(* next start of the process ends it.  A row whose failure the database    *)
(* refused waits for that start, which nothing brings about, or for the    *)
(* purge weeks later.                                                      *)
EveryRunEnds == []<>(Running \subseteq lost)
=============================================================================
