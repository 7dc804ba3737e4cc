----------------------------- MODULE ThreadPool -----------------------------
(***************************************************************************)
(* The worker pool of compiler/src/header/frontend/lexer.h, which syntax.h *)
(* repeats word for word, together with the one thread that calls it: the  *)
(* main thread, inside lexer::entry / syntax::entry and, at process exit,  *)
(* inside the pool's destructor.                                           *)
(*                                                                         *)
(* One step is one statement between two points where another thread can   *)
(* be scheduled: taking the mutex is a step, what is done while it is held *)
(* is a step, and the test of a wait predicate is a step apart from the    *)
(* blocking that follows it, so that a notification can fall in between if *)
(* the mutex does not prevent it.                                          *)
(*                                                                         *)
(* Jobs are numbered in the order the caller submits them; job k of a call *)
(* lexes (or parses) the file number k - settled of that call.             *)
(***************************************************************************)
EXTENDS Integers, Sequences, FiniteSets

CONSTANTS
  Workers,      \* the pool's threads, max(1, hardware_concurrency()) of them
  Main,         \* the thread that calls entry and runs the destructor
  Nobody,       \* the owner of a mutex that is free
  Files,        \* inputfiles.size(): the jobs of one entry call
  Calls,        \* how often main calls entry before the process exits
  MaxSpurious   \* bound on the spurious wake-ups of a behaviour

ASSUME ConstantAssumption ==
  /\ Workers # {}
  /\ IsFiniteSet(Workers)
  /\ Main \notin Workers
  /\ Nobody \notin Workers \cup {Main}
  /\ Files \in Nat
  /\ Calls \in Nat
  /\ MaxSpurious \in Nat

VARIABLES
  lock,         \* the owner of mtx
  tasks,        \* the queue of submitted jobs
  activeTasks,
  stop,
  pc,           \* where each worker is in its loop; "blocked" is cv's wait set
  job,          \* the job each worker holds, 0 for none
  mpc,          \* where main is in entry, waitAll and the destructor
  calls,        \* entry calls that have returned
  i,            \* entry's loop counter: jobs submitted by the current call
  settled,      \* jobs of the calls that have returned
  started,      \* history: the jobs in the order their bodies were entered
  finished,     \* history: the jobs whose bodies have returned
  spurious      \* spurious wake-ups so far

shared == <<lock, tasks, activeTasks, stop>>
caller == <<mpc, calls, i, settled>>
history == <<started, finished, spurious>>
vars == <<shared, pc, job, caller, history>>

-----------------------------------------------------------------------------

Init ==
  /\ lock = Nobody
  /\ tasks = <<>>
  /\ activeTasks = 0
  /\ stop = FALSE
  /\ pc = [w \in Workers |-> "idle"]
  /\ job = [w \in Workers |-> 0]
  /\ mpc = "out"
  /\ calls = 0
  /\ i = 0
  /\ settled = 0
  /\ started = <<>>
  /\ finished = {}
  /\ spurious = 0

Goto(w, here, there) == pc[w] = here /\ pc' = [pc EXCEPT ![w] = there]
MainGoto(here, there) == mpc = here /\ mpc' = there

Acquire(t) == lock = Nobody /\ lock' = t
Holding(t) == lock = t
Release == lock' = Nobody

Blocked == {w \in Workers : pc[w] = "blocked"}
Submitted == settled + i

-----------------------------------------------------------------------------
(* The loop of a worker.                                                   *)

WorkerLock(w) ==
  /\ Goto(w, "idle", "test")
  /\ Acquire(w)
  /\ UNCHANGED <<tasks, activeTasks, stop, job, caller, history>>

(* The predicate of cv.wait is false: the thread will block.               *)
MustWait(w) ==
  /\ Holding(w)
  /\ Goto(w, "test", "park")
  /\ ~stop /\ tasks = <<>>
  /\ UNCHANGED <<shared, job, caller, history>>

(* cv.wait gives the mutex up and blocks, in one step.                     *)
Park(w) ==
  /\ Holding(w)
  /\ Goto(w, "park", "blocked")
  /\ Release
  /\ UNCHANGED <<tasks, activeTasks, stop, job, caller, history>>

(* A blocked thread may wake although nobody notified it.                  *)
SpuriousWake(w) ==
  /\ Goto(w, "blocked", "idle")
  /\ spurious < MaxSpurious
  /\ spurious' = spurious + 1
  /\ UNCHANGED <<shared, job, caller, started, finished>>

Leave(w) ==
  /\ Holding(w)
  /\ Goto(w, "test", "exited")
  /\ stop /\ tasks = <<>>
  /\ Release
  /\ UNCHANGED <<tasks, activeTasks, stop, job, caller, history>>

(* Variant: the job queued last is taken first.                            *)
TakeNewest(w) ==
  /\ Holding(w)
  /\ Goto(w, "test", "run")
  /\ tasks # <<>>
  /\ job' = [job EXCEPT ![w] = tasks[Len(tasks)]]
  /\ tasks' = SubSeq(tasks, 1, Len(tasks) - 1)
  /\ started' = Append(started, tasks[Len(tasks)])
  /\ Release
  /\ UNCHANGED <<activeTasks, stop, caller, finished, spurious>>

Take(w) ==
  /\ Holding(w)
  /\ Goto(w, "test", "run")
  /\ tasks # <<>>
  /\ job' = [job EXCEPT ![w] = Head(tasks)]
  /\ tasks' = Tail(tasks)
  /\ started' = Append(started, Head(tasks))
  /\ Release
  /\ UNCHANGED <<activeTasks, stop, caller, finished, spurious>>

(* The body of the job returns: threadEntry for one file.                  *)
Run(w) ==
  /\ Goto(w, "run", "ran")
  /\ finished' = finished \cup {job[w]}
  /\ UNCHANGED <<shared, job, caller, started, spurious>>

ReportLock(w) ==
  /\ Goto(w, "ran", "report")
  /\ Acquire(w)
  /\ UNCHANGED <<tasks, activeTasks, stop, job, caller, history>>

(* Variants: the count is left as it is; nobody is notified.               *)
ReportUncounted(w) ==
  /\ Holding(w)
  /\ Goto(w, "report", "idle")
  /\ mpc' = IF mpc = "asleep" THEN "woken" ELSE mpc
  /\ job' = [job EXCEPT ![w] = 0]
  /\ Release
  /\ UNCHANGED <<tasks, activeTasks, stop, calls, i, settled, history>>

ReportSilently(w) ==
  /\ Holding(w)
  /\ Goto(w, "report", "idle")
  /\ activeTasks' = activeTasks - 1
  /\ job' = [job EXCEPT ![w] = 0]
  /\ Release
  /\ UNCHANGED <<tasks, stop, caller, history>>

(* activeTasks--; cvDone.notify_all(): only main ever waits on cvDone.     *)
Report(w) ==
  /\ Holding(w)
  /\ Goto(w, "report", "idle")
  /\ activeTasks' = activeTasks - 1
  /\ mpc' = IF mpc = "asleep" THEN "woken" ELSE mpc
  /\ job' = [job EXCEPT ![w] = 0]
  /\ Release
  /\ UNCHANGED <<tasks, stop, calls, i, settled, history>>

-----------------------------------------------------------------------------
(* The calling thread: entry, with enqueue and waitAll.                    *)

EnterCall ==
  /\ calls < Calls
  /\ MainGoto("out", "enqueue")
  /\ UNCHANGED <<shared, pc, job, calls, i, settled, history>>

(* The destructor follows the calls of a whole run, or no call at all when *)
(* parseInput has exited.                                                  *)
MainLock ==
  /\ \/ i < Files /\ MainGoto("enqueue", "push")
     \/ i = Files /\ MainGoto("enqueue", "check")
     \/ MainGoto("woken", "check")
     \/ calls \in {0, Calls} /\ MainGoto("out", "stopping")
  /\ Acquire(Main)
  /\ UNCHANGED <<tasks, activeTasks, stop, pc, job, calls, i, settled, history>>

(* Variant: the notification is forgotten.                                 *)
NotifyNobody == UNCHANGED pc

(* cv.notify_one() wakes one blocked worker, if there is one.              *)
NotifyOne ==
  IF Blocked = {}
    THEN UNCHANGED pc
    ELSE \E w \in Blocked : pc' = [pc EXCEPT ![w] = "idle"]

(* Variant: the job is queued without being counted.                       *)
PushUncounted ==
  /\ Holding(Main)
  /\ MainGoto("push", "enqueue")
  /\ tasks' = Append(tasks, Submitted + 1)
  /\ i' = i + 1
  /\ NotifyOne
  /\ Release
  /\ UNCHANGED <<activeTasks, stop, job, calls, settled, history>>

Push ==
  /\ Holding(Main)
  /\ MainGoto("push", "enqueue")
  /\ activeTasks' = activeTasks + 1
  /\ tasks' = Append(tasks, Submitted + 1)
  /\ i' = i + 1
  /\ NotifyOne
  /\ Release
  /\ UNCHANGED <<stop, job, calls, settled, history>>

MainMustWait ==
  /\ Holding(Main)
  /\ MainGoto("check", "park")
  /\ activeTasks # 0
  /\ UNCHANGED <<shared, pc, job, calls, i, settled, history>>

MainPark ==
  /\ Holding(Main)
  /\ MainGoto("park", "asleep")
  /\ Release
  /\ UNCHANGED <<tasks, activeTasks, stop, pc, job, calls, i, settled, history>>

MainSpuriousWake ==
  /\ MainGoto("asleep", "woken")
  /\ spurious < MaxSpurious
  /\ spurious' = spurious + 1
  /\ UNCHANGED <<shared, pc, job, calls, i, settled, started, finished>>

(* Variant: an empty queue is taken for the end of all jobs.               *)
ReturnWhenQueueEmpty ==
  /\ Holding(Main)
  /\ MainGoto("check", "out")
  /\ tasks = <<>>
  /\ calls' = calls + 1
  /\ settled' = Submitted
  /\ i' = 0
  /\ Release
  /\ UNCHANGED <<tasks, activeTasks, stop, pc, job, history>>

Return ==
  /\ Holding(Main)
  /\ MainGoto("check", "out")
  /\ activeTasks = 0
  /\ calls' = calls + 1
  /\ settled' = Submitted
  /\ i' = 0
  /\ Release
  /\ UNCHANGED <<tasks, activeTasks, stop, pc, job, history>>

-----------------------------------------------------------------------------
(* The destructor, run by main while the process exits.                    *)

SetStop ==
  /\ Holding(Main)
  /\ MainGoto("stopping", "notify")
  /\ stop' = TRUE
  /\ Release
  /\ UNCHANGED <<tasks, activeTasks, pc, job, calls, i, settled, history>>

NotifyAll ==
  /\ MainGoto("notify", "join")
  /\ pc' = [w \in Workers |-> IF pc[w] = "blocked" THEN "idle" ELSE pc[w]]
  /\ UNCHANGED <<shared, job, calls, i, settled, history>>

JoinAll ==
  /\ MainGoto("join", "dead")
  /\ \A w \in Workers : pc[w] = "exited"
  /\ UNCHANGED <<shared, pc, job, calls, i, settled, history>>

(* The process is gone; it stutters, so that any other state without a     *)
(* successor is reported as a deadlock.                                    *)
Gone == mpc = "dead" /\ UNCHANGED vars

-----------------------------------------------------------------------------

WorkerStep(w) ==
  \/ WorkerLock(w) \/ MustWait(w) \/ Park(w) \/ Leave(w) \/ Take(w)
  \/ Run(w) \/ ReportLock(w) \/ Report(w)

MainStep ==
  \/ EnterCall \/ MainLock \/ Push \/ MainMustWait \/ MainPark \/ Return
  \/ SetStop \/ NotifyAll \/ JoinAll

Next ==
  \/ \E w \in Workers : WorkerStep(w) \/ SpuriousWake(w)
  \/ MainStep \/ MainSpuriousWake
  \/ Gone

Spec == Init /\ [][Next]_vars

(* A thread that can run is scheduled. Nothing is assumed of spurious      *)
(* wake-ups, nor of which waiter gets the mutex.                           *)
Fairness == WF_vars(MainStep) /\ \A w \in Workers : WF_vars(WorkerStep(w))

FairSpec == Spec /\ Fairness

-----------------------------------------------------------------------------
WorkerState ==
  {"idle", "test", "park", "blocked", "run", "ran", "report", "exited"}
MainState ==
  {"out", "enqueue", "push", "check", "park", "asleep", "woken",
   "stopping", "notify", "join", "dead"}

(* Every variable stays in its range: in particular activeTasks, an int in *)
(* the code, never goes negative.                                          *)
TypeOK ==
  /\ lock \in Workers \cup {Main, Nobody}
  /\ tasks \in Seq(Nat \ {0})
  /\ activeTasks \in Nat
  /\ stop \in BOOLEAN
  /\ pc \in [Workers -> WorkerState]
  /\ job \in [Workers -> Nat]
  /\ mpc \in MainState
  /\ calls \in 0..Calls
  /\ i \in 0..Files
  /\ settled \in Nat
  /\ started \in Seq(Nat \ {0})
  /\ finished \in SUBSET (Nat \ {0})
  /\ spurious \in 0..MaxSpurious

Busy == {w \in Workers : pc[w] \in {"run", "ran", "report"}}

(* activeTasks, which waitAll trusts, counts exactly the jobs that are     *)
(* queued or in the hands of a worker.                                     *)
CountExact == activeTasks = Len(tasks) + Cardinality(Busy)

(* No job is lost, repeated or overtaken: the jobs entered so far, then    *)
(* the queue, are all the jobs submitted so far, in the order of           *)
(* submission.                                                             *)
FirstInFirstOut == started \o tasks = [k \in 1..Submitted |-> k]

(* The lambdas capture entry's locals by reference: while a worker is in   *)
(* the body of a job, the call that submitted the job has not returned.    *)
InCall == {"enqueue", "push", "check", "park", "asleep", "woken"}

CapturesAlive ==
  \A w \in Workers : pc[w] = "run" =>
    mpc \in InCall /\ job[w] \in settled + 1 .. Submitted

(* When entry has returned, every file it was given has been processed.    *)
ReturnedMeansFinished == 1..settled \subseteq finished

(* No notification is lost: main never sleeps in waitAll with nothing left *)
(* to wait for, the workers are never all blocked while a job is queued,   *)
(* and none of them is blocked once the destructor has begun to join.      *)
NoLostWakeup ==
  /\ mpc = "asleep" => activeTasks > 0
  /\ tasks # <<>> => \E w \in Workers : pc[w] \notin {"blocked", "exited"}
  /\ mpc = "join" => Blocked = {}

-----------------------------------------------------------------------------
(* What the invariants above rest on, conjoined with them in IndInv.       *)

(* The mutex is held by the one thread that is between lock and unlock.    *)
LockInv ==
  /\ \A w \in Workers : pc[w] \in {"test", "park", "report"} <=> lock = w
  /\ mpc \in {"push", "check", "park", "stopping"} <=> lock = Main

(* Where the caller is fixes its counters, and the pool is idle whenever   *)
(* the caller is not in a call.                                            *)
CallInv ==
  /\ stop <=> mpc \in {"notify", "join", "dead"}
  /\ mpc \in InCall => calls < Calls
  /\ mpc \in {"stopping", "notify", "join", "dead"} => calls \in {0, Calls}
  /\ mpc = "push" => i < Files
  /\ mpc \in {"check", "park", "asleep", "woken"} => i = Files
  /\ mpc \notin InCall => i = 0 /\ activeTasks = 0

(* A thread that has found its predicate false still finds it false when   *)
(* it blocks, and a worker leaves its loop only when told to stop.         *)
ParkInv ==
  /\ \A w \in Workers : pc[w] = "park" => ~stop /\ tasks = <<>>
  /\ \A w \in Workers : pc[w] = "exited" => stop
  /\ mpc = "park" => activeTasks > 0

(* FirstInFirstOut, element by element.                                    *)
QueueInv ==
  /\ Len(started) + Len(tasks) = Submitted
  /\ settled <= Len(started)
  /\ \A k \in 1..Len(started) : started[k] = k
  /\ \A k \in 1..Len(tasks) : tasks[k] = Len(started) + k

(* A job that was entered and has not finished is in one worker's hands.   *)
JobInv ==
  /\ finished \subseteq 1..Len(started)
  /\ \A w \in Workers : pc[w] = "run" =>
       job[w] \in settled + 1 .. Len(started) /\ job[w] \notin finished
  /\ \A v, w \in Workers :
       pc[v] = "run" /\ pc[w] = "run" /\ job[v] = job[w] => v = w
  /\ \A k \in 1..Len(started) :
       k \in finished \/ \E w \in Workers : pc[w] = "run" /\ job[w] = k

IndInv ==
  /\ TypeOK /\ LockInv /\ CallInv /\ ParkInv /\ QueueInv /\ JobInv
  /\ CountExact /\ NoLostWakeup /\ ReturnedMeansFinished

-----------------------------------------------------------------------------
(* The pool and its caller keep the promise of EntryCalls.                 *)
Promise == INSTANCE EntryCalls WITH
  Threads   <- Cardinality(Workers),
  submitted <- Submitted,
  entered   <- Len(started),
  closed    <- mpc = "dead"

(* Seen from main, the pool does nothing but submit, enter, finish and     *)
(* return: never a job lost, never a return before its files are done.     *)
KeepsPromise == Promise!Spec

(* Under the scheduler's fairness it also gets every call done, and the    *)
(* process gets through its exit: a promise that is kept fairly ends with  *)
(* the pool closed, which it is when the destructor has joined every       *)
(* worker.                                                                 *)
KeepsPromiseFairly == Promise!FairSpec

=============================================================================
