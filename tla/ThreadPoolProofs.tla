-------------------------- MODULE ThreadPoolProofs --------------------------
(***************************************************************************)
(* Proofs about ThreadPool: its inductive invariant IndInv and the safety  *)
(* properties that follow from it, for every set of workers, number of     *)
(* files and number of calls.                                              *)
(***************************************************************************)
EXTENDS ThreadPool, FiniteSetTheorems, SequenceTheorems, TLAPS

USE ConstantAssumption DEF ConstantAssumption

(* The initial state satisfies the inductive invariant.                    *)
LEMMA InitIndInv == Init => IndInv
<1> SUFFICES ASSUME Init PROVE IndInv
  OBVIOUS
<1> USE DEF Init
<1>1. TypeOK
  <2>1. tasks \in Seq(Nat \ {0}) /\ started \in Seq(Nat \ {0})
    OBVIOUS
  <2>2. pc \in [Workers -> WorkerState] /\ job \in [Workers -> Nat]
    BY DEF WorkerState
  <2>3. lock \in Workers \cup {Main, Nobody} /\ mpc \in MainState
    BY DEF MainState
  <2>4. calls \in 0..Calls /\ i \in 0..Files /\ spurious \in 0..MaxSpurious
    OBVIOUS
  <2>5. /\ activeTasks \in Nat /\ stop \in BOOLEAN /\ settled \in Nat
        /\ finished \in SUBSET (Nat \ {0})
    OBVIOUS
  <2> HIDE DEF Init
  <2> QED
    BY <2>1, <2>2, <2>3, <2>4, <2>5 DEF TypeOK
<1>2. LockInv /\ CallInv /\ ParkInv /\ QueueInv /\ JobInv
  BY DEF LockInv, CallInv, ParkInv, QueueInv, JobInv, InCall, Submitted
<1>3. NoLostWakeup /\ ReturnedMeansFinished
  BY DEF NoLostWakeup, ReturnedMeansFinished
<1>4. CountExact
  <2>1. Busy = {}
    BY DEF Busy
  <2> QED
    BY <2>1, FS_EmptySet DEF CountExact
<1> QED
  BY <1>1, <1>2, <1>3, <1>4 DEF IndInv

-----------------------------------------------------------------------------
(* Types.                                                                  *)

(* A worker with a job in its hands is counted in activeTasks.             *)
LEMMA BusyCounted ==
  ASSUME TypeOK, CountExact, NEW w \in Busy
  PROVE  activeTasks \in Nat /\ activeTasks > 0
<1>1. IsFiniteSet(Busy)
  BY FS_Subset DEF Busy
<1>2. Cardinality(Busy) \in Nat /\ Cardinality(Busy) # 0
  BY <1>1, FS_EmptySet, FS_CardinalityType
<1>3. Len(tasks) \in Nat
  BY DEF TypeOK
<1> QED
  BY <1>2, <1>3 DEF CountExact, TypeOK

(* A step keeps every variable in its range; activeTasks stays a natural   *)
(* number because a reporting worker is counted in it.                     *)
LEMMA TypeStep == IndInv /\ [Next]_vars => TypeOK'
<1> SUFFICES ASSUME IndInv, [Next]_vars PROVE TypeOK'
  OBVIOUS
<1> USE DEF IndInv, TypeOK, WorkerState, MainState, shared, caller, history,
            Goto, MainGoto, Acquire, Release, Holding, Submitted
<1>1. ASSUME NEW w \in Workers, WorkerLock(w) PROVE TypeOK'
  BY <1>1 DEF WorkerLock
<1>2. ASSUME NEW w \in Workers, MustWait(w) PROVE TypeOK'
  BY <1>2 DEF MustWait
<1>3. ASSUME NEW w \in Workers, Park(w) PROVE TypeOK'
  BY <1>3 DEF Park
<1>4. ASSUME NEW w \in Workers, SpuriousWake(w) PROVE TypeOK'
  BY <1>4 DEF SpuriousWake
<1>5. ASSUME NEW w \in Workers, Leave(w) PROVE TypeOK'
  BY <1>5 DEF Leave
<1>6. ASSUME NEW w \in Workers, Take(w) PROVE TypeOK'
  <2>1. Head(tasks) \in Nat \ {0} /\ Tail(tasks) \in Seq(Nat \ {0})
    BY <1>6, HeadTailProperties DEF Take
  <2>2. started' \in Seq(Nat \ {0})
    BY <1>6, <2>1, AppendProperties DEF Take
  <2> QED
    BY <1>6, <2>1, <2>2 DEF Take
<1>7. ASSUME NEW w \in Workers, Run(w) PROVE TypeOK'
  <2>1. job[w] \in 1..Len(started)
    BY <1>7 DEF Run, JobInv, QueueInv
  <2>2. job[w] \in Nat \ {0}
    BY <2>1
  <2>3. finished' \in SUBSET (Nat \ {0})
    BY <1>7, <2>2 DEF Run
  <2>4. UNCHANGED <<lock, tasks, activeTasks, stop, job, caller, started, spurious>>
    BY <1>7 DEF Run
  <2>5. pc' \in [Workers -> WorkerState]
    BY <1>7 DEF Run
  <2> QED
    BY <2>3, <2>4, <2>5
<1>8. ASSUME NEW w \in Workers, ReportLock(w) PROVE TypeOK'
  BY <1>8 DEF ReportLock
<1>9. ASSUME NEW w \in Workers, Report(w) PROVE TypeOK'
  <2>1. activeTasks \in Nat /\ activeTasks > 0
    BY <1>9, BusyCounted DEF Report, Busy
  <2> QED
    BY <1>9, <2>1 DEF Report
<1>10. CASE EnterCall
  BY <1>10 DEF EnterCall
<1>11. CASE MainLock
  BY <1>11, ConstantAssumption DEF MainLock
<1>12. CASE Push
  <2>1. tasks' \in Seq(Nat \ {0})
    BY <1>12, AppendProperties, ConstantAssumption DEF Push
  <2>2. pc' \in [Workers -> WorkerState]
    BY <1>12 DEF Push, NotifyOne, Blocked
  <2>3. i' \in 0..Files
    BY <1>12, ConstantAssumption DEF Push, CallInv
  <2> QED
    BY <1>12, <2>1, <2>2, <2>3 DEF Push
<1>13. CASE MainMustWait
  BY <1>13 DEF MainMustWait
<1>14. CASE MainPark
  BY <1>14 DEF MainPark
<1>15. CASE Return
  <2>1. calls' \in 0..Calls
    BY <1>15, ConstantAssumption DEF Return, CallInv, InCall
  <2> QED
    BY <1>15, <2>1, ConstantAssumption DEF Return
<1>16. CASE SetStop
  BY <1>16 DEF SetStop
<1>17. CASE NotifyAll
  BY <1>17 DEF NotifyAll
<1>18. CASE JoinAll
  BY <1>18 DEF JoinAll
<1>19. CASE MainSpuriousWake
  BY <1>19, ConstantAssumption DEF MainSpuriousWake
<1>20. CASE UNCHANGED vars
  BY <1>20 DEF vars
<1> QED
  BY <1>1, <1>2, <1>3, <1>4, <1>5, <1>6, <1>7, <1>8, <1>9, <1>10, <1>11,
     <1>12, <1>13, <1>14, <1>15, <1>16, <1>17, <1>18, <1>19, <1>20
  DEF Next, WorkerStep, MainStep, Gone

-----------------------------------------------------------------------------
(* The mutex, the caller's counters and the condition variables.           *)

Control == LockInv /\ CallInv /\ ParkInv /\ NoLostWakeup

(* One thread at a time is between lock and unlock; where the caller is    *)
(* fixes its counters; a wait predicate found false stays false until the  *)
(* thread blocks, because only the holder of the mutex could make it true; *)
(* hence whoever is blocked has been, or will be, notified.                *)
LEMMA ControlStep == IndInv /\ [Next]_vars => Control'
<1> SUFFICES ASSUME IndInv, [Next]_vars PROVE Control'
  OBVIOUS
<1> USE DEF IndInv, TypeOK, shared, caller, history, Goto, MainGoto, Acquire,
            Release, Holding, Control, LockInv, CallInv, ParkInv,
            NoLostWakeup, InCall, Blocked
<1>1. ASSUME NEW w \in Workers, WorkerLock(w) PROVE Control'
  BY <1>1 DEF WorkerLock
<1>2. ASSUME NEW w \in Workers, MustWait(w) PROVE Control'
  BY <1>2 DEF MustWait
<1>3. ASSUME NEW w \in Workers, Park(w) PROVE Control'
  BY <1>3 DEF Park
<1>4. ASSUME NEW w \in Workers, SpuriousWake(w) PROVE Control'
  BY <1>4 DEF SpuriousWake
<1>5. ASSUME NEW w \in Workers, Leave(w) PROVE Control'
  BY <1>5 DEF Leave
<1>6. ASSUME NEW w \in Workers, Take(w) PROVE Control'
  BY <1>6 DEF Take
<1>7. ASSUME NEW w \in Workers, Run(w) PROVE Control'
  BY <1>7 DEF Run
<1>8. ASSUME NEW w \in Workers, ReportLock(w) PROVE Control'
  BY <1>8 DEF ReportLock
<1>9. ASSUME NEW w \in Workers, Report(w) PROVE Control'
  <2>1. activeTasks > 0
    BY <1>9, BusyCounted DEF Report, Busy
  <2>2. mpc \in InCall
    BY <2>1
  <2> QED
    BY <1>9, <2>1, <2>2 DEF Report
<1>10. CASE EnterCall
  BY <1>10 DEF EnterCall
<1>11. CASE MainLock
  BY <1>11 DEF MainLock
<1>12. CASE Push
  BY <1>12 DEF Push, NotifyOne
<1>13. CASE MainMustWait
  BY <1>13 DEF MainMustWait
<1>14. CASE MainPark
  BY <1>14 DEF MainPark
<1>15. CASE Return
  BY <1>15 DEF Return
<1>16. CASE SetStop
  BY <1>16 DEF SetStop
<1>17. CASE NotifyAll
  BY <1>17 DEF NotifyAll
<1>18. CASE JoinAll
  BY <1>18 DEF JoinAll
<1>19. CASE MainSpuriousWake
  BY <1>19 DEF MainSpuriousWake
<1>20. CASE UNCHANGED vars
  BY <1>20 DEF vars
<1> QED
  BY <1>1, <1>2, <1>3, <1>4, <1>5, <1>6, <1>7, <1>8, <1>9, <1>10, <1>11,
     <1>12, <1>13, <1>14, <1>15, <1>16, <1>17, <1>18, <1>19, <1>20
  DEF Next, WorkerStep, MainStep, Gone

-----------------------------------------------------------------------------
(* The queue and the jobs.                                                 *)

(* Nothing is queued, and no worker holds a job, when a call returns.      *)
LEMMA ReturnIdle ==
  ASSUME IndInv, Return
  PROVE  tasks = <<>> /\ Busy = {}
<1>1. IsFiniteSet(Busy)
  BY FS_Subset DEF Busy
<1>2. Len(tasks) = 0 /\ Cardinality(Busy) = 0
  BY <1>1, FS_CardinalityType DEF Return, CountExact, IndInv, TypeOK
<1> QED
  BY <1>1, <1>2, FS_EmptySet, EmptySeq DEF IndInv, TypeOK

(* Jobs enter the queue at its end and leave it at its front.              *)
LEMMA QueueStep == IndInv /\ [Next]_vars => QueueInv'
<1> SUFFICES ASSUME IndInv, [Next]_vars PROVE QueueInv'
  OBVIOUS
<1> USE DEF QueueInv, Submitted
<1>0. /\ QueueInv /\ settled \in Nat /\ i \in Nat
      /\ Len(tasks) \in Nat /\ tasks \in Seq(Nat \ {0})
      /\ Len(started) \in Nat /\ started \in Seq(Nat \ {0})
  BY DEF IndInv, TypeOK
<1>1. CASE UNCHANGED <<tasks, started, i, settled>>
  BY <1>0, <1>1
<1>2. ASSUME NEW w \in Workers, Take(w) PROVE QueueInv'
  <2>1. /\ Len(tasks') = Len(tasks) - 1
        /\ \A k \in 1..Len(tasks') : tasks'[k] = tasks[k + 1]
    BY <1>0, <1>2, HeadTailProperties DEF Take
  <2>2. Head(tasks) = Len(started) + 1
    BY <1>0, <1>2 DEF Take
  <2>3. /\ Len(started') = Len(started) + 1
        /\ \A k \in 1..Len(started) : started'[k] = started[k]
        /\ started'[Len(started) + 1] = Len(started) + 1
    BY <1>0, <1>2, <2>2, AppendProperties DEF Take
  <2>4. UNCHANGED <<i, settled>>
    BY <1>2 DEF Take, caller
  <2>5. ASSUME NEW k \in 1..Len(started') PROVE started'[k] = k
    <3>1. CASE k \in 1..Len(started)
      BY <1>0, <2>3, <3>1
    <3>2. CASE k = Len(started) + 1
      BY <2>3, <3>2
    <3> QED
      BY <1>0, <2>3, <3>1, <3>2
  <2>6. \A k \in 1..Len(tasks') : tasks'[k] = Len(started') + k
    BY <1>0, <2>1, <2>3
  <2>7. Len(started') + Len(tasks') = settled' + i' /\ settled' <= Len(started')
    BY <1>0, <2>1, <2>3, <2>4
  <2> QED
    BY <2>5, <2>6, <2>7
<1>3. CASE Push
  <2>1. /\ Len(tasks') = Len(tasks) + 1
        /\ \A k \in 1..Len(tasks) : tasks'[k] = tasks[k]
        /\ tasks'[Len(tasks) + 1] = settled + i + 1
    BY <1>0, <1>3, AppendProperties DEF Push
  <2>2. i' = i + 1 /\ UNCHANGED <<started, settled>>
    BY <1>3 DEF Push, history
  <2>3. ASSUME NEW k \in 1..Len(tasks') PROVE tasks'[k] = Len(started') + k
    <3>1. CASE k \in 1..Len(tasks)
      BY <1>0, <2>1, <2>2, <3>1
    <3>2. CASE k = Len(tasks) + 1
      BY <1>0, <2>1, <2>2, <3>2
    <3> QED
      BY <1>0, <2>1, <3>1, <3>2
  <2> QED
    BY <1>0, <2>1, <2>2, <2>3
<1>4. CASE Return
  <2>1. tasks = <<>>
    BY <1>4, ReturnIdle
  <2> QED
    BY <1>0, <1>4, <2>1 DEF Return, history
<1> QED
  BY <1>1, <1>2, <1>3, <1>4
  DEF Next, WorkerStep, MainStep, Gone, vars, shared, caller, history,
      WorkerLock, MustWait, Park, SpuriousWake, Leave, Run, ReportLock, Report,
      EnterCall, MainLock, MainMustWait, MainPark, SetStop, NotifyAll, JoinAll,
      MainSpuriousWake

(* Each job has one worker from the moment it is taken until its body has  *)
(* returned, and what has been settled has finished.                       *)
LEMMA JobStep == IndInv /\ [Next]_vars => (JobInv /\ ReturnedMeansFinished)'
<1> SUFFICES ASSUME IndInv, [Next]_vars PROVE (JobInv /\ ReturnedMeansFinished)'
  OBVIOUS
<1> USE DEF IndInv, TypeOK, WorkerState, JobInv, ReturnedMeansFinished
<1>1. CASE /\ UNCHANGED <<started, finished, settled>>
           /\ \A w \in Workers : pc'[w] = "run" <=> pc[w] = "run"
           /\ \A w \in Workers : pc[w] = "run" => job'[w] = job[w]
  BY <1>1
<1>2. ASSUME NEW w \in Workers, Take(w) PROVE (JobInv /\ ReturnedMeansFinished)'
  <2>1. Head(tasks) = Len(started) + 1
    BY <1>2 DEF Take, QueueInv
  <2>2. Len(started') = Len(started) + 1
    BY <1>2, AppendProperties, HeadTailProperties DEF Take
  <2>3. /\ pc' = [pc EXCEPT ![w] = "run"] /\ pc[w] # "run"
        /\ job' = [job EXCEPT ![w] = Len(started) + 1]
        /\ UNCHANGED <<finished, settled>>
    BY <1>2, <2>1 DEF Take, Goto, caller
  <2>4. Len(started) \in Nat /\ settled \in Nat /\ settled <= Len(started)
    BY DEF QueueInv
  <2>5. finished \subseteq 1..Len(started')
    BY <2>2, <2>4
  <2>6. \A v \in Workers : pc'[v] = "run" =>
          job'[v] \in settled + 1 .. Len(started') /\ job'[v] \notin finished
    BY <2>2, <2>3, <2>4
  <2>7. \A u, v \in Workers :
          pc'[u] = "run" /\ pc'[v] = "run" /\ job'[u] = job'[v] => u = v
    BY <2>3, <2>4
  <2>8. ASSUME NEW k \in 1..Len(started')
        PROVE  k \in finished \/ \E v \in Workers : pc'[v] = "run" /\ job'[v] = k
    <3>1. CASE k = Len(started) + 1
      <4>1. pc'[w] = "run" /\ job'[w] = k
        BY <2>3, <3>1
      <4> QED
        BY <4>1
    <3>2. CASE k \in 1..Len(started)
      <4>1. k \in finished \/ \E v \in Workers : pc[v] = "run" /\ job[v] = k
        BY <3>2
      <4>2. \A v \in Workers : pc[v] = "run" => pc'[v] = "run" /\ job'[v] = job[v]
        BY <2>3
      <4> QED
        BY <4>1, <4>2
    <3> HIDE DEF IndInv, TypeOK, JobInv, ReturnedMeansFinished
    <3> QED
      BY <2>2, <2>4, <3>1, <3>2
  <2> QED
    BY <2>3, <2>5, <2>6, <2>7, <2>8
<1>3. ASSUME NEW w \in Workers, Run(w) PROVE (JobInv /\ ReturnedMeansFinished)'
  <2>1. /\ pc' = [pc EXCEPT ![w] = "ran"] /\ pc[w] = "run"
        /\ finished' = finished \cup {job[w]}
        /\ UNCHANGED <<job, started, settled>>
    BY <1>3 DEF Run, Goto, caller
  <2>2. job[w] \in 1..Len(started)
    BY <2>1 DEF QueueInv
  <2>3. finished' \subseteq 1..Len(started')
    BY <2>1, <2>2
  <2>4. \A v \in Workers : pc'[v] = "run" =>
          job'[v] \in settled' + 1 .. Len(started') /\ job'[v] \notin finished'
    BY <2>1
  <2>5. \A k \in 1..Len(started') :
          k \in finished' \/ \E v \in Workers : pc'[v] = "run" /\ job'[v] = k
    BY <2>1
  <2>6. \A u, v \in Workers :
          pc'[u] = "run" /\ pc'[v] = "run" /\ job'[u] = job'[v] => u = v
    BY <2>1
  <2> QED
    BY <2>1, <2>3, <2>4, <2>5, <2>6
<1>4. CASE Return
  <2>1. tasks = <<>> /\ \A w \in Workers : pc[w] # "run"
    BY <1>4, ReturnIdle DEF Busy
  <2>2. settled' = Len(started)
    BY <1>4, <2>1 DEF Return, QueueInv, Submitted
  <2>3. UNCHANGED <<pc, job, started, finished>>
    BY <1>4 DEF Return, history
  <2> QED
    BY <2>1, <2>2, <2>3
<1>5. ASSUME NEW w \in Workers,
             WorkerLock(w) \/ MustWait(w) \/ Park(w) \/ SpuriousWake(w)
               \/ Leave(w) \/ ReportLock(w) \/ Report(w)
      PROVE  (JobInv /\ ReturnedMeansFinished)'
  <2>1. \E s \in WorkerState \ {"run"} :
           pc[w] # "run" /\ pc' = [pc EXCEPT ![w] = s]
    BY <1>5 DEF WorkerLock, MustWait, Park, SpuriousWake, Leave, ReportLock,
                Report, Goto
  <2>2. job' = job \/ job' = [job EXCEPT ![w] = 0]
    BY <1>5 DEF WorkerLock, MustWait, Park, SpuriousWake, Leave, ReportLock,
                Report
  <2>3. UNCHANGED <<started, finished, settled>>
    BY <1>5 DEF WorkerLock, MustWait, Park, SpuriousWake, Leave, ReportLock,
                Report, caller, history
  <2> QED
    BY <1>1, <2>1, <2>2, <2>3
<1>6. CASE Push \/ NotifyAll
  <2>1. UNCHANGED <<job, started, finished, settled>>
    BY <1>6 DEF Push, NotifyAll, history
  <2>2. CASE Push
    BY <1>1, <2>1, <2>2 DEF Push, NotifyOne, Blocked
  <2>3. CASE NotifyAll
    BY <1>1, <2>1, <2>3 DEF NotifyAll
  <2> QED
    BY <1>6, <2>2, <2>3
<1>7. CASE \/ EnterCall \/ MainLock \/ MainMustWait \/ MainPark \/ SetStop
           \/ JoinAll \/ MainSpuriousWake \/ UNCHANGED vars
  BY <1>1, <1>7 DEF EnterCall, MainLock, MainMustWait, MainPark, SetStop,
       JoinAll, MainSpuriousWake, vars, caller, history
<1> QED
  BY <1>2, <1>3, <1>4, <1>5, <1>6, <1>7 DEF Next, WorkerStep, MainStep, Gone

(* activeTasks goes up with each job queued and down with each job         *)
(* reported, and a job goes from the queue into a worker's hands at once.  *)
LEMMA CountStep == IndInv /\ [Next]_vars => CountExact'
<1> SUFFICES ASSUME IndInv, [Next]_vars PROVE CountExact'
  OBVIOUS
<1> USE DEF IndInv, TypeOK, CountExact
<1>0. IsFiniteSet(Busy) /\ Cardinality(Busy) \in Nat
  BY FS_Subset, FS_CardinalityType DEF Busy
<1>1. CASE UNCHANGED <<activeTasks, tasks, Busy>>
  BY <1>1
<1>2. ASSUME NEW w \in Workers, Take(w) PROVE CountExact'
  <2>1. Busy' = Busy \cup {w} /\ w \notin Busy
    BY <1>2 DEF Take, Goto, Busy, WorkerState
  <2>2. Cardinality(Busy') = Cardinality(Busy) + 1
    BY <1>0, <2>1, FS_AddElement
  <2>3. Len(tasks') = Len(tasks) - 1 /\ activeTasks' = activeTasks
    BY <1>2, HeadTailProperties DEF Take
  <2> QED
    BY <1>0, <2>2, <2>3
<1>3. ASSUME NEW w \in Workers, Report(w) PROVE CountExact'
  <2>1. Busy' = Busy \ {w} /\ w \in Busy
    BY <1>3 DEF Report, Goto, Busy, WorkerState
  <2>2. Cardinality(Busy') = Cardinality(Busy) - 1
    BY <1>0, <2>1, FS_RemoveElement
  <2>3. tasks' = tasks /\ activeTasks' = activeTasks - 1
    BY <1>3 DEF Report
  <2> QED
    BY <1>0, <2>2, <2>3
<1>4. CASE Push
  <2>1. Busy' = Busy
    BY <1>4 DEF Push, NotifyOne, Blocked, Busy, WorkerState
  <2>2. Len(tasks') = Len(tasks) + 1 /\ activeTasks' = activeTasks + 1
    BY <1>4, AppendProperties DEF Push
  <2> QED
    BY <1>0, <2>1, <2>2
<1> QED
  BY <1>1, <1>2, <1>3, <1>4
  DEF Next, WorkerStep, MainStep, Gone, vars, shared, caller, history, Goto,
      MainGoto, Busy, WorkerState, WorkerLock, MustWait, Park, SpuriousWake,
      Leave, Run, ReportLock, EnterCall, MainLock, MainMustWait, MainPark,
      Return, SetStop, NotifyAll, JoinAll, MainSpuriousWake

-----------------------------------------------------------------------------
(* The theorems.                                                           *)

(* The conjunction of all of the above is an invariant.                    *)
THEOREM Invariance == Spec => []IndInv
<1>1. IndInv /\ [Next]_vars => IndInv'
  BY TypeStep, ControlStep, QueueStep, JobStep, CountStep DEF IndInv, Control
<1> QED
  BY <1>1, InitIndInv, PTL DEF Spec

(* Every variable keeps its range; activeTasks never goes negative.        *)
THEOREM TypeCorrect == Spec => []TypeOK
<1>1. IndInv => TypeOK
  BY DEF IndInv
<1> QED
  BY <1>1, Invariance, PTL

(* activeTasks always counts the queued jobs and those in a worker's hands. *)
THEOREM CountCorrect == Spec => []CountExact
<1>1. IndInv => CountExact
  BY DEF IndInv
<1> QED
  BY <1>1, Invariance, PTL

(* No notification of cv or cvDone is lost.                                *)
THEOREM WakeupCorrect == Spec => []NoLostWakeup
<1>1. IndInv => NoLostWakeup
  BY DEF IndInv
<1> QED
  BY <1>1, Invariance, PTL

(* When entry has returned, the jobs it submitted have finished.           *)
THEOREM ReturnCorrect == Spec => []ReturnedMeansFinished
<1>1. IndInv => ReturnedMeansFinished
  BY DEF IndInv
<1> QED
  BY <1>1, Invariance, PTL

(* Jobs are entered in the order in which they were submitted, each once.  *)
THEOREM OrderCorrect == Spec => []FirstInFirstOut
<1>1. ASSUME IndInv PROVE FirstInFirstOut
  <2> DEFINE all == started \o tasks
  <2>1. /\ tasks \in Seq(Nat \ {0}) /\ Len(tasks) \in Nat
        /\ started \in Seq(Nat \ {0}) /\ Len(started) \in Nat
        /\ Submitted \in Nat
        /\ QueueInv
    BY <1>1 DEF IndInv, TypeOK, Submitted
  <2>2. all \in Seq(Nat \ {0}) /\ Len(all) = Submitted
    BY <2>1, ConcatProperties DEF QueueInv
  <2>3. ASSUME NEW k \in 1..Submitted PROVE all[k] = k
    <3>1. CASE k <= Len(started)
      BY <2>1, <3>1, ConcatProperties DEF QueueInv
    <3>2. CASE k > Len(started)
      <4>1. k - Len(started) \in 1..Len(tasks)
        BY <2>1, <3>2 DEF QueueInv
      <4>2. all[k] = tasks[k - Len(started)]
        BY <2>1, <2>2, <3>2, ConcatProperties
      <4> QED
        BY <2>1, <4>1, <4>2 DEF QueueInv
    <3>3. k <= Len(started) \/ k > Len(started)
      BY <2>1
    <3> QED
      BY <3>1, <3>2, <3>3
  <2>4. all = [k \in 1..Submitted |-> all[k]]
    BY <2>2, LenProperties
  <2> QED
    BY <2>3, <2>4 DEF FirstInFirstOut
<1> QED
  BY <1>1, Invariance, PTL

(* While a worker is in the body of a job, the entry call that owns the    *)
(* locals the job refers to has not returned.                              *)
THEOREM CaptureCorrect == Spec => []CapturesAlive
<1>1. ASSUME IndInv PROVE CapturesAlive
  <2> SUFFICES ASSUME NEW w \in Workers, pc[w] = "run"
               PROVE  mpc \in InCall /\ job[w] \in settled + 1 .. Submitted
    BY DEF CapturesAlive
  <2>1. mpc \in InCall
    BY <1>1, BusyCounted DEF IndInv, Busy, CallInv
  <2>2. Len(started) <= Submitted
    BY <1>1 DEF IndInv, TypeOK, QueueInv, Submitted
  <2>3. job[w] \in settled + 1 .. Len(started)
    BY <1>1 DEF IndInv, JobInv
  <2> QED
    BY <1>1, <2>1, <2>2, <2>3 DEF IndInv, TypeOK, Submitted
<1> QED
  BY <1>1, Invariance, PTL

-----------------------------------------------------------------------------
(* The pool and its caller implement EntryCalls.                           *)

(* Fewer jobs run than there are threads when a worker that runs none is   *)
(* about to take one.                                                      *)
LEMMA FreeThread ==
  ASSUME IndInv, NEW w \in Workers, pc[w] # "run"
  PROVE  Cardinality((1..Len(started)) \ finished) < Cardinality(Workers)
<1> DEFINE R == {v \in Workers : pc[v] = "run"}
           J == (1..Len(started)) \ finished
           f == [v \in R |-> job[v]]
<1>1. /\ JobInv /\ QueueInv /\ Len(started) \in Nat /\ settled \in Nat
      /\ job \in [Workers -> Nat]
  BY DEF IndInv, TypeOK
<1>2. f \in [R -> J]
  <2> SUFFICES ASSUME NEW v \in R PROVE job[v] \in J
    OBVIOUS
  <2> QED
    BY <1>1 DEF JobInv, QueueInv
<1>3. \A k \in J : \E v \in R : f[v] = k
  BY <1>1 DEF JobInv
<1>4. f \in Surjection(R, J)
  BY <1>2, <1>3 DEF Surjection
<1>5. IsFiniteSet(R) /\ IsFiniteSet(Workers \ {w})
  BY FS_Subset
<1>6. Cardinality(J) <= Cardinality(R) /\ IsFiniteSet(J)
  BY <1>4, <1>5, FS_Surjection
<1>7. Cardinality(R) <= Cardinality(Workers \ {w})
  BY <1>5, FS_Subset
<1>8. Cardinality(Workers \ {w}) = Cardinality(Workers) - 1
  BY FS_RemoveElement
<1>9. /\ Cardinality(J) \in Nat /\ Cardinality(R) \in Nat
      /\ Cardinality(Workers) \in Nat
  BY <1>5, <1>6, FS_CardinalityType
<1> QED
  BY <1>6, <1>7, <1>8, <1>9

(* The abstract module counts as this one does.                            *)
LEMMA SameCardinality ==
  ASSUME NEW S PROVE Promise!Cardinality(S) = Cardinality(S)
BY Zenon DEF Promise!Cardinality, Promise!IsFiniteSet, Cardinality, IsFiniteSet

(* Each step of the pool or its caller is a step of EntryCalls, or changes *)
(* nothing that EntryCalls speaks of.                                      *)
LEMMA StepImplements ==
  IndInv /\ [Next]_vars => [Promise!Next]_(Promise!vars)
<1> SUFFICES ASSUME IndInv, [Next]_vars
             PROVE  Promise!Next \/ UNCHANGED Promise!vars
  OBVIOUS
<1>0. /\ QueueInv /\ JobInv /\ CallInv
      /\ tasks \in Seq(Nat \ {0}) /\ Len(tasks) \in Nat
      /\ started \in Seq(Nat \ {0}) /\ Len(started) \in Nat
      /\ settled \in Nat /\ i \in Nat /\ Submitted = settled + i
  BY DEF IndInv, TypeOK, Submitted
<1>1. ASSUME NEW w \in Workers, Take(w) PROVE Promise!Enter
  <2>1. Len(tasks) > 0 /\ Len(started') = Len(started) + 1
    BY <1>0, <1>1, HeadTailProperties, AppendProperties, EmptySeq DEF Take
  <2>2. Len(started) < Submitted
    BY <1>0, <2>1 DEF QueueInv
  <2>3. Promise!Cardinality(Promise!Running) < Cardinality(Workers)
    <3>1. Cardinality(Promise!Running) < Cardinality(Workers)
      BY <1>1, FreeThread DEF Take, Goto, Promise!Running
    <3> QED
      BY <3>1, SameCardinality
  <2>4. /\ UNCHANGED <<calls, settled, Submitted, finished>>
        /\ (mpc = "dead")' = (mpc = "dead")
    BY <1>1 DEF Take, caller, Submitted
  <2> QED
    BY <2>1, <2>2, <2>3, <2>4 DEF Promise!Enter
<1>2. ASSUME NEW w \in Workers, Run(w) PROVE Promise!Finish
  <2>1. job[w] \in (1..Len(started)) \ finished
    BY <1>0, <1>2 DEF Run, Goto, JobInv, QueueInv
  <2>2. /\ finished' = finished \cup {job[w]}
        /\ UNCHANGED <<calls, settled, Submitted, started, mpc>>
    BY <1>2 DEF Run, caller, Submitted
  <2> QED
    BY <2>1, <2>2 DEF Promise!Finish, Promise!Running
<1>3. ASSUME Push PROVE Promise!Submit
  <2>1. calls < Calls /\ mpc # "dead" /\ Submitted < settled + Files
    BY <1>0, <1>3 DEF Push, MainGoto, CallInv, InCall
  <2>2. /\ Submitted' = Submitted + 1
        /\ UNCHANGED <<calls, settled, started, finished>>
        /\ (mpc = "dead")' = (mpc = "dead")
    BY <1>0, <1>3 DEF Push, MainGoto, history, Submitted
  <2> QED
    BY <2>1, <2>2 DEF Promise!Submit
<1>4. ASSUME Return PROVE Promise!Return
  <2>1. calls < Calls /\ Submitted = settled + Files
    BY <1>0, <1>4 DEF Return, MainGoto, CallInv, InCall
  <2>2. tasks = <<>> /\ Busy = {}
    BY <1>4, ReturnIdle
  <2>3. Len(started) = Submitted
    BY <1>0, <2>2 DEF QueueInv
  <2>4. finished = 1..Submitted
    BY <1>0, <2>2, <2>3 DEF JobInv, Busy
  <2>5. /\ settled' = Submitted /\ calls' = calls + 1
        /\ Submitted' = Submitted
        /\ UNCHANGED <<started, finished>>
        /\ (mpc = "dead")' = (mpc = "dead")
    BY <1>0, <1>4 DEF Return, MainGoto, history, Submitted
  <2> QED
    BY <2>1, <2>4, <2>5 DEF Promise!Return
<1>5. ASSUME JoinAll PROVE Promise!Close
  BY <1>0, <1>5
  DEF JoinAll, MainGoto, CallInv, InCall, history, Submitted, Promise!Close
<1>6. ASSUME NEW w \in Workers,
             WorkerLock(w) \/ MustWait(w) \/ Park(w) \/ SpuriousWake(w)
               \/ Leave(w) \/ ReportLock(w) \/ Report(w)
      PROVE  UNCHANGED Promise!vars
  <2>1. UNCHANGED <<calls, settled, i, started, finished>>
    BY <1>6 DEF WorkerLock, MustWait, Park, SpuriousWake, Leave, ReportLock,
                Report, caller, history
  <2>2. (mpc = "dead")' = (mpc = "dead")
    BY <1>6 DEF WorkerLock, MustWait, Park, SpuriousWake, Leave, ReportLock,
                Report, caller
  <2> QED
    BY <2>1, <2>2 DEF Promise!vars, Submitted
<1>7. ASSUME \/ EnterCall \/ MainLock \/ MainMustWait \/ MainPark \/ SetStop
             \/ NotifyAll \/ MainSpuriousWake \/ UNCHANGED vars
      PROVE  UNCHANGED Promise!vars
  <2>1. UNCHANGED <<calls, settled, i, started, finished>>
    BY <1>7 DEF EnterCall, MainLock, MainMustWait, MainPark, SetStop,
                NotifyAll, MainSpuriousWake, vars, caller, history
  <2>2. (mpc = "dead")' = (mpc = "dead")
    BY <1>7 DEF EnterCall, MainLock, MainMustWait, MainPark, SetStop,
                NotifyAll, MainSpuriousWake, MainGoto, vars, caller
  <2> QED
    BY <2>1, <2>2 DEF Promise!vars, Submitted
<1> QED
  BY <1>1, <1>2, <1>3, <1>4, <1>5, <1>6, <1>7
  DEF Next, WorkerStep, MainStep, Gone, Promise!Next

(* The mutex, the condition variables and the queue together do nothing    *)
(* but what EntryCalls allows.                                             *)
THEOREM Implements == Spec => KeepsPromise
<1>1. Init => Promise!Init
  BY DEF Init, Submitted, Promise!Init
<1>2. IndInv /\ [Next]_vars => [Promise!Next]_(Promise!vars)
  BY StepImplements
<1> QED
  BY <1>1, <1>2, Invariance, PTL DEF Spec, KeepsPromise, Promise!Spec

=============================================================================
