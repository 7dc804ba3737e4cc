----------------------------- MODULE EntryCalls -----------------------------
(***************************************************************************)
(* What lexer::entry and syntax::entry promise to main, without a mutex, a *)
(* condition variable or a queue: a call hands over its files in order,    *)
(* the bodies are entered in that order, at most Threads of them at a time,*)
(* they finish in any order, and the call returns once all have.           *)
(*                                                                         *)
(* Jobs are numbered in the order of submission over all calls.            *)
(***************************************************************************)
EXTENDS Integers, FiniteSets

CONSTANTS
  Threads,   \* bodies that can run at a time, at least one
  Files,     \* files handed over by a call
  Calls      \* calls made before the pool is destroyed

VARIABLES
  calls,      \* entry calls that have returned
  settled,    \* jobs of those calls
  submitted,  \* jobs handed over
  entered,    \* jobs whose body has been entered: 1..entered
  finished,   \* jobs whose body has returned
  closed      \* the pool has been destroyed

vars == <<calls, settled, submitted, entered, finished, closed>>

Running == (1..entered) \ finished

Init ==
  /\ calls = 0 /\ settled = 0 /\ submitted = 0 /\ entered = 0
  /\ finished = {}
  /\ closed = FALSE

(* Variant: one file too many is handed over.                              *)
SubmitFar ==
  /\ calls < Calls /\ ~closed
  /\ submitted <= settled + Files
  /\ submitted' = submitted + 1
  /\ UNCHANGED <<calls, settled, entered, finished, closed>>

Submit ==
  /\ calls < Calls /\ ~closed
  /\ submitted < settled + Files
  /\ submitted' = submitted + 1
  /\ UNCHANGED <<calls, settled, entered, finished, closed>>

(* Variant: one thread too many.                                           *)
EnterFar ==
  /\ entered < submitted
  /\ Cardinality(Running) <= Threads
  /\ entered' = entered + 1
  /\ UNCHANGED <<calls, settled, submitted, finished, closed>>

Enter ==
  /\ entered < submitted
  /\ Cardinality(Running) < Threads
  /\ entered' = entered + 1
  /\ UNCHANGED <<calls, settled, submitted, finished, closed>>

Finish ==
  /\ \E k \in Running : finished' = finished \cup {k}
  /\ UNCHANGED <<calls, settled, submitted, entered, closed>>

(* Variant: the call returns once every body has been entered.             *)
ReturnEarly ==
  /\ calls < Calls
  /\ submitted = settled + Files
  /\ entered = submitted
  /\ settled' = submitted
  /\ calls' = calls + 1
  /\ UNCHANGED <<submitted, entered, finished, closed>>

Return ==
  /\ calls < Calls
  /\ submitted = settled + Files
  /\ finished = 1..submitted
  /\ settled' = submitted
  /\ calls' = calls + 1
  /\ UNCHANGED <<submitted, entered, finished, closed>>

(* The pool is destroyed after all calls, or unused.                       *)
Close ==
  /\ calls \in {0, Calls} /\ submitted = settled
  /\ closed' = TRUE
  /\ UNCHANGED <<calls, settled, submitted, entered, finished>>

Next == Submit \/ Enter \/ Finish \/ Return \/ Close

Spec == Init /\ [][Next]_vars
FairSpec == Spec /\ WF_vars(Next)
=============================================================================
