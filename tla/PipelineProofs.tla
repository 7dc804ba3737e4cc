--------------------------- MODULE PipelineProofs ---------------------------
(***************************************************************************)
(* Proofs about Pipeline: its inductive invariant IndInv and the safety    *)
(* properties that follow from it, for every number of threads and files.  *)
(***************************************************************************)
EXTENDS Pipeline, FiniteSetTheorems, TLAPS

USE PipelineAssumption DEF PipelineAssumption, LexerCalls, SyntaxCalls

(* What the theorems rest on: how far the pools have got, in which phase,  *)
(* and what has become of the two files then.                              *)
LexProgress ==
  /\ <<lexCalls, lexSettled>> \in {<<0, 0>>, <<1, Files>>, <<2, 2 * Files>>}
  /\ lexSubmitted \in lexSettled .. lexSettled + Files
  /\ lexCalls = LexerCalls => lexSubmitted = lexSettled
  /\ 1..lexSettled \subseteq lexFinished

SynProgress ==
  /\ <<synCalls, synSettled>> \in {<<0, 0>>, <<1, Files>>}
  /\ synSubmitted \in synSettled .. synSettled + Files
  /\ synCalls = SyntaxCalls => synSubmitted = synSettled
  /\ 1..synSettled \subseteq synFinished
  /\ \A k \in synFinished : Fate(k) = "ends"

PhaseInv ==
  /\ main = "command" => lexSubmitted = 0
  /\ main \in {"command", "lexing"} =>
       synSubmitted = 0 /\ lexOut = "absent" /\ synOut = "absent" /\ said = {}
  /\ main \in {"parsing", "returning", "killed"} => lexCalls = LexerCalls
  /\ main = "parsing" => "trees" \notin said
  /\ main = "returning" => synCalls = SyntaxCalls
  /\ main = "exited" => lexClosed /\ synClosed

StatusInv ==
  /\ status = -1 <=> main \notin {"exiting", "exited"}
  /\ status = 0 => lexCalls = LexerCalls /\ synCalls = SyntaxCalls
  /\ status = 1 => lexSubmitted = 0 /\ synSubmitted = 0 /\ said = {}
                  /\ lexOut = "absent" /\ synOut = "absent"
  /\ "tokens" \in said => lexOut = IF status = 0 THEN "complete" ELSE "buffered"
  /\ "trees" \in said => synOut = IF status = 0 THEN "complete" ELSE "buffered"

IndInv ==
  TypeOK /\ LexProgress /\ SynProgress /\ PhaseInv /\ StatusInv /\ BehindSpinningUnread

-----------------------------------------------------------------------------
(* The files before a given one are finitely many, so that the spinning    *)
(* ones among them can be counted.                                         *)
LEMMA SpinningFinite ==
  ASSUME NEW k \in Nat
  PROVE  IsFiniteSet(Spinning(k)) /\ Cardinality(Spinning(k)) \in Nat
<1>1. IsFiniteSet(1..k)
  BY FS_Interval
<1>2. Spinning(k) \subseteq 1..k
  BY DEF Spinning
<1> QED
  BY <1>1, <1>2, FS_Subset, FS_CardinalityType

(* The contract's instance of Cardinality is Cardinality.                  *)
LEMMA SameCardinality ==
  ASSUME NEW S PROVE Syn!Cardinality(S) = Cardinality(S)
BY Zenon DEF Syn!Cardinality, Syn!IsFiniteSet, Cardinality, IsFiniteSet

(* In the initial state nothing has been done.                             *)
LEMMA InitIndInv == Init => IndInv
<1> SUFFICES ASSUME Init PROVE IndInv
  OBVIOUS
<1> USE DEF Init, Lex!Init, Syn!Init
<1>1. TypeOK
  BY DEF TypeOK
<1>2. LexProgress /\ SynProgress
  BY DEF LexProgress, SynProgress
<1>3. PhaseInv /\ StatusInv
  BY DEF PhaseInv, StatusInv
<1>4. BehindSpinningUnread
  BY DEF BehindSpinningUnread
<1> QED
  BY <1>1, <1>2, <1>3, <1>4 DEF IndInv

-----------------------------------------------------------------------------
(* A step of the lexer's pool: its variables stay in range and its         *)
(* progress is kept.                                                       *)
LEMMA LexerPoolStep ==
  ASSUME TypeOK, LexProgress,
         Lex!Submit \/ Lex!Enter \/ Lex!Return \/ Lex!Finish
  PROVE  /\ LexProgress'
         /\ lexSubmitted' \in 0 .. LexerCalls * Files
         /\ lexEntered' \in 0..lexSubmitted' /\ lexFinished' \subseteq 1..lexEntered'
<1> USE DEF TypeOK, LexProgress
<1>1. CASE Lex!Submit
  BY <1>1 DEF Lex!Submit
<1>2. CASE Lex!Enter
  BY <1>2 DEF Lex!Enter
<1>3. CASE Lex!Return
  BY <1>3 DEF Lex!Return
<1>4. CASE Lex!Finish
  BY <1>4 DEF Lex!Finish, Lex!Running
<1> QED
  BY <1>1, <1>2, <1>3, <1>4

(* A step of the parser's pool, in which only parses that end finish.      *)
LEMMA ParserPoolStep ==
  ASSUME TypeOK, SynProgress, UNCHANGED <<fate, unread>>,
         Syn!Submit \/ Syn!Enter \/ Syn!Return \/ Syn!Finish,
         \A k \in synFinished' : Fate(k) = "ends"
  PROVE  /\ SynProgress'
         /\ synSubmitted' \in 0..Files
         /\ synEntered' \in 0..synSubmitted' /\ synFinished' \subseteq 1..synEntered'
<1> USE DEF TypeOK, SynProgress, Fate
<1>1. CASE Syn!Submit
  BY <1>1 DEF Syn!Submit
<1>2. CASE Syn!Enter
  BY <1>2 DEF Syn!Enter
<1>3. CASE Syn!Return
  BY <1>3 DEF Syn!Return
<1>4. CASE Syn!Finish
  BY <1>4 DEF Syn!Finish, Syn!Running
<1> QED
  BY <1>1, <1>2, <1>3, <1>4

(* A pool that is destroyed has nothing else changed.                      *)
LEMMA CloseFrame ==
  ASSUME ClosePool
  PROVE  /\ main = "exiting"
         /\ UNCHANGED <<fate, unread, main, status, output>>
         /\ UNCHANGED <<lexCalls, lexSettled, lexSubmitted, lexEntered, lexFinished>>
         /\ UNCHANGED <<synCalls, synSettled, synSubmitted, synEntered, synFinished>>
BY DEF ClosePool, Lex!Close, Syn!Close, lexPool, synPool

-----------------------------------------------------------------------------
(* Every variable stays in its range.                                      *)
LEMMA TypeStep ==
  ASSUME IndInv, [Next]_vars
  PROVE  TypeOK'
<1> USE DEF IndInv
<1>1. CASE Accept \/ Reject \/ WriteTokens \/ WriteTrees \/ Crash \/ ReturnFromMain \/ Exit
  BY <1>1 DEF TypeOK, Accept, Reject, WriteTokens, WriteTrees, Crash, ReturnFromMain, Exit,
     Flushed, Goto, output, lexPool, synPool
<1>2. CASE Lexing
  BY <1>2, LexerPoolStep DEF TypeOK, Lexing, output, synPool
<1>3. CASE FileLexed
  BY <1>3, LexerPoolStep DEF TypeOK, FileLexed, LexedFile, output, synPool
<1>4. CASE Parsing
  BY <1>4, ParserPoolStep DEF TypeOK, Parsing, output, lexPool
<1>5. CASE ClosePool
  BY <1>5, CloseFrame DEF TypeOK, output
<1>6. CASE UNCHANGED vars
  BY <1>6 DEF TypeOK, vars, output, lexPool, synPool
<1> QED
  BY <1>1, <1>2, <1>3, <1>4, <1>5, <1>6 DEF Next, Step, Over, Hung

(* How far the pools have got: their own steps keep it, and which files    *)
(* could not be read does not change once there is a parse.                *)
LEMMA ProgressStep ==
  ASSUME IndInv, [Next]_vars
  PROVE  LexProgress' /\ SynProgress'
<1> USE DEF IndInv
<1>1. CASE Accept \/ Reject \/ WriteTokens \/ WriteTrees \/ Crash \/ ReturnFromMain \/ Exit
  BY <1>1 DEF LexProgress, SynProgress, Fate, Accept, Reject, WriteTokens, WriteTrees, Crash,
     ReturnFromMain, Exit, lexPool, synPool
<1>2. CASE Lexing
  BY <1>2, LexerPoolStep DEF SynProgress, Fate, Lexing, synPool
<1>3. CASE FileLexed
  <2>1. LexProgress'
    BY <1>3, LexerPoolStep DEF FileLexed
  <2>2. synFinished' = {}
    BY <1>3 DEF FileLexed, synPool, PhaseInv, TypeOK
  <2>3. SynProgress'
    BY <1>3, <2>2 DEF SynProgress, FileLexed, synPool
  <2> QED
    BY <2>1, <2>3
<1>4. CASE Parsing
  <2>1. SynProgress'
    BY <1>4, ParserPoolStep DEF Parsing
  <2>2. LexProgress'
    BY <1>4 DEF LexProgress, Parsing, lexPool
  <2> QED
    BY <2>1, <2>2
<1>5. CASE ClosePool
  BY <1>5, CloseFrame DEF LexProgress, SynProgress, Fate
<1>6. CASE UNCHANGED vars
  BY <1>6 DEF LexProgress, SynProgress, Fate, vars, lexPool, synPool
<1> QED
  BY <1>1, <1>2, <1>3, <1>4, <1>5, <1>6 DEF Next, Step, Over, Hung

(* What has been done in which phase.                                      *)
LEMMA PhaseStep ==
  ASSUME IndInv, [Next]_vars
  PROVE  PhaseInv'
<1> USE DEF IndInv, PhaseInv
<1>1. CASE Accept \/ Reject \/ WriteTokens \/ WriteTrees \/ Crash \/ ReturnFromMain
  BY <1>1 DEF Accept, Reject, WriteTokens, WriteTrees, Crash, ReturnFromMain,
     Goto, output, lexPool, synPool
<1>2. CASE Exit
  BY <1>2 DEF Exit, Goto, lexPool, synPool
<1>3. CASE Lexing \/ FileLexed
  BY <1>3 DEF Lexing, FileLexed, output, synPool
<1>4. CASE Parsing
  BY <1>4 DEF Parsing, output, lexPool
<1>5. CASE ClosePool
  BY <1>5, CloseFrame
<1>6. CASE UNCHANGED vars
  BY <1>6 DEF vars, output, lexPool, synPool
<1> QED
  BY <1>1, <1>2, <1>3, <1>4, <1>5, <1>6 DEF Next, Step, Over, Hung

(* What the exit status says, and what has become of the files by then.    *)
LEMMA StatusStep ==
  ASSUME IndInv, [Next]_vars
  PROVE  StatusInv'
<1> USE DEF IndInv, StatusInv
<1>1. CASE Accept \/ Crash \/ Exit
  BY <1>1 DEF Accept, Crash, Exit, Goto, output, lexPool, synPool
<1>2. CASE Reject
  BY <1>2 DEF Reject, Goto, PhaseInv, output, lexPool, synPool
<1>3. CASE Lexing \/ FileLexed
  BY <1>3 DEF Lexing, FileLexed, output, synPool
<1>4. CASE WriteTokens
  BY <1>4, "tokens" # "trees" DEF WriteTokens, Goto, PhaseInv, lexPool, synPool
<1>5. CASE Parsing
  BY <1>5 DEF Parsing, output, lexPool
<1>6. CASE WriteTrees
  BY <1>6, "tokens" # "trees" DEF WriteTrees, Goto, PhaseInv, lexPool, synPool
<1>7. CASE ReturnFromMain
  BY <1>7 DEF ReturnFromMain, Goto, Flushed, PhaseInv, lexPool, synPool
<1>8. CASE ClosePool
  BY <1>8, CloseFrame DEF output
<1>9. CASE UNCHANGED vars
  BY <1>9 DEF vars, output, lexPool, synPool
<1> QED
  BY <1>1, <1>2, <1>3, <1>4, <1>5, <1>6, <1>7, <1>8, <1>9 DEF Next, Step, Over, Hung

(* A thread that could enter a file behind Threads spinning parses would   *)
(* be one more than there are: each of those has been entered and does not *)
(* finish.                                                                 *)
LEMMA StarvationStep ==
  ASSUME IndInv, [Next]_vars
  PROVE  BehindSpinningUnread'
<1> USE DEF IndInv
<1>1. CASE synEntered' = synEntered /\ UNCHANGED <<fate, unread>>
  BY <1>1 DEF BehindSpinningUnread, Spinning, Fate
<1>2. CASE synEntered' = 0
  BY <1>2 DEF BehindSpinningUnread
<1>3. CASE Parsing /\ Syn!Enter
  <2>1. /\ UNCHANGED <<fate, unread>>
        /\ synEntered' = synEntered + 1 /\ synEntered \in Nat
    BY <1>3 DEF Parsing, Syn!Enter, TypeOK
  <2>2. Cardinality(Syn!Running) < Threads
    BY <1>3, SameCardinality DEF Syn!Enter
  <2>3. Spinning(synEntered) \subseteq Syn!Running
    BY DEF Spinning, Syn!Running, SynProgress
  <2>4. IsFiniteSet(Syn!Running)
    <3>1. IsFiniteSet(1..synEntered)
      BY <2>1, FS_Interval
    <3>2. Syn!Running \subseteq 1..synEntered
      BY DEF Syn!Running
    <3> QED
      BY <3>1, <3>2, FS_Subset
  <2>5. Cardinality(Spinning(synEntered)) < Threads
    <3>1. Cardinality(Spinning(synEntered)) <= Cardinality(Syn!Running)
      BY <2>3, <2>4, FS_Subset
    <3>2. Cardinality(Syn!Running) \in Nat /\ Cardinality(Spinning(synEntered)) \in Nat
      BY <2>1, <2>4, FS_CardinalityType, SpinningFinite
    <3> QED
      BY <2>2, <3>1, <3>2
  <2>6. \A k \in 1..Files : Spinning(k - 1)' = Spinning(k - 1)
    BY <2>1 DEF Spinning, Fate
  <2> QED
    <3> SUFFICES ASSUME NEW k \in 1..Files, Cardinality(Spinning(k - 1)) >= Threads
                 PROVE  synEntered' < k
      BY <2>6 DEF BehindSpinningUnread
    <3>1. synEntered < k
      BY DEF BehindSpinningUnread
    <3>2. k - 1 # synEntered
      BY <2>1, <2>5, SpinningFinite
    <3> QED
      BY <2>1, <3>1, <3>2
<1>4. CASE FileLexed
  BY <1>2, <1>4 DEF FileLexed, synPool, PhaseInv, TypeOK
<1> QED
  BY <1>1, <1>3, <1>4, CloseFrame DEF Next, Step, Over, Hung, vars, Accept, Reject, Lexing, WriteTokens,
     Parsing, Crash, WriteTrees, ReturnFromMain, Exit, Syn!Submit, Syn!Finish, Syn!Return, synPool

-----------------------------------------------------------------------------
(* The inductive invariant holds in every reachable state.                 *)
THEOREM Invariance == Spec => []IndInv
<1>1. IndInv /\ [Next]_vars => IndInv'
  BY TypeStep, ProgressStep, PhaseStep, StatusStep, StarvationStep DEF IndInv
<1> QED
  BY InitIndInv, <1>1, PTL DEF Spec

(* Every variable stays in its range.                                      *)
THEOREM TypeCorrect == Spec => []TypeOK
<1>1. IndInv => TypeOK
  BY DEF IndInv
<1> QED
  BY Invariance, <1>1, PTL

(* No parse is entered while a lexer call is running.                      *)
THEOREM TokensCorrect == Spec => []TokensSettled
<1>1. IndInv => TokensSettled
  <2> SUFFICES ASSUME IndInv, synEntered > 0
               PROVE  lexCalls = LexerCalls /\ lexFinished = 1 .. LexerCalls * Files
    BY DEF TokensSettled
  <2> USE DEF IndInv, TypeOK
  <2>1. lexCalls = LexerCalls
    BY DEF PhaseInv, StatusInv
  <2>2. lexSettled = 2 * Files /\ lexSubmitted = 2 * Files
    BY <2>1 DEF LexProgress
  <2>3. 1 .. 2 * Files \subseteq lexFinished
    BY <2>2 DEF LexProgress
  <2>4. lexFinished \subseteq 1 .. 2 * Files
    BY <2>2
  <2> QED
    BY <2>1, <2>3, <2>4
<1> QED
  BY Invariance, <1>1, PTL

(* What the exit status of the process says of its files.                  *)
THEOREM ExitCorrect == Spec => []ExitMeansParsed
<1>1. IndInv => ExitMeansParsed
  <2> SUFFICES ASSUME IndInv PROVE ExitMeansParsed
    OBVIOUS
  <2> USE DEF IndInv, TypeOK
  <2>1. status = 0 => 1..Files \subseteq synFinished
    BY DEF StatusInv, SynProgress
  <2>2. status = 0 => \A k \in 1..Files : fate[k] = "ends" \/ k \in unread
    BY <2>1 DEF SynProgress, Fate
  <2>3. status = 1 => lexEntered = 0 /\ synEntered = 0 /\ lexOut = "absent" /\ synOut = "absent"
    BY DEF StatusInv
  <2> QED
    BY <2>2, <2>3 DEF ExitMeansParsed, StatusInv, PhaseInv
<1> QED
  BY Invariance, <1>1, PTL

(* The files behind as many spinning parses as there are threads are never *)
(* entered.                                                                *)
THEOREM StarvationCorrect == Spec => []BehindSpinningUnread
<1>1. IndInv => BehindSpinningUnread
  BY DEF IndInv
<1> QED
  BY Invariance, <1>1, PTL

-----------------------------------------------------------------------------
(* The run without its pools.                                              *)

LexedFiles == {k \in 1..Files : k + Files \in lexFinished}

(* A step inside a call of the lexer changes nothing but what is lexed.    *)
LEMMA LexingImplements ==
  ASSUME IndInv, Lexing
  PROVE  UNCHANGED Whole!vars
<1>1. lexFinished' = lexFinished
  BY DEF Lexing, Lex!Submit, Lex!Enter, Lex!Return
<1> QED
  BY <1>1 DEF Lexing, synPool, output, Whole!vars, Whole!files, Whole!output

(* A file of the warm-up is no file that is read; any other is read once.  *)
LEMMA FileLexedImplements ==
  ASSUME IndInv, FileLexed
  PROVE  Whole!Lex \/ UNCHANGED Whole!vars
<1>1. /\ main = "lexing" /\ unread' \in {unread, unread \cup LexedFile}
      /\ UNCHANGED <<fate, main, status, synFinished, lexOut, synOut, said>>
  BY DEF FileLexed, synPool, output
<1>2. PICK j \in (1..lexEntered) \ lexFinished : lexFinished' = lexFinished \cup {j}
  BY DEF FileLexed, Lex!Finish, Lex!Running
<1>3. j \in Nat /\ lexFinished' \ lexFinished = {j} /\ j <= 2 * Files
  BY <1>2 DEF IndInv, TypeOK
<1>4. CASE j <= Files
  <2>1. LexedFile = {}
    BY <1>3, <1>4 DEF LexedFile
  <2>2. LexedFiles' = LexedFiles
    BY <1>2, <1>3, <1>4 DEF LexedFiles
  <2> QED
    BY <1>1, <2>1, <2>2 DEF LexedFiles, Whole!vars, Whole!files, Whole!output
<1>5. CASE j > Files
  <2>1. PICK k \in 1..Files : j = k + Files
    <3>1. j - Files \in 1..Files /\ j = (j - Files) + Files
      BY <1>3, <1>5
    <3> QED
      BY <3>1
  <2>2. LexedFile = {k}
    <3>1. LexedFile = {j - Files} \cap (1..Files) /\ j - Files = k
      BY <1>3, <2>1 DEF LexedFile
    <3> QED
      BY <2>1, <3>1
  <2>3. k \notin LexedFiles /\ LexedFiles' = LexedFiles \cup {k}
    BY <1>2, <2>1 DEF LexedFiles
  <2> QED
    BY <1>1, <2>1, <2>2, <2>3 DEF LexedFiles, Whole!Lex, Whole!output
<1> QED
  BY <1>3, <1>4, <1>5

(* When both calls are over every file has been read.                      *)
LEMMA TokensImplement ==
  ASSUME IndInv, WriteTokens
  PROVE  Whole!WriteTokens
<1>1. 1 .. 2 * Files \subseteq lexFinished
  BY DEF WriteTokens, IndInv, LexProgress
<1>2. \A k \in 1..Files : k + Files \in 1 .. 2 * Files
  OBVIOUS
<1>3. LexedFiles = 1..Files
  BY <1>1, <1>2 DEF LexedFiles
<1> QED
  BY <1>3 DEF WriteTokens, Goto, lexPool, synPool, LexedFiles, Whole!WriteTokens, Whole!Goto,
              Whole!files

(* A parse that finishes is of a file that had not been parsed, and ends.  *)
LEMMA ParsingImplements ==
  ASSUME IndInv, Parsing
  PROVE  Whole!Parse \/ UNCHANGED Whole!vars
<1>1. /\ main = "parsing" /\ \A k \in synFinished' : Fate(k) = "ends"
      /\ UNCHANGED <<fate, unread, main, status, lexFinished, lexOut, synOut, said>>
  BY DEF Parsing, lexPool, output
<1>2. CASE synFinished' = synFinished
  BY <1>1, <1>2 DEF Whole!vars, Whole!files, Whole!output
<1>3. CASE Syn!Finish
  <2>1. PICK k \in (1..synEntered) \ synFinished : synFinished' = synFinished \cup {k}
    BY <1>3 DEF Syn!Finish, Syn!Running
  <2>2. k \in (1..Files) \ synFinished
    BY DEF IndInv, TypeOK
  <2>3. Whole!Ends(k)
    BY <1>1, <2>1 DEF Fate, Whole!Ends
  <2> QED
    BY <1>1, <2>1, <2>2, <2>3 DEF Whole!Parse, Whole!output
<1> QED
  BY <1>2, <1>3 DEF Parsing, Syn!Submit, Syn!Enter, Syn!Return

(* Each step of main or of a pool is a step of the whole run, or changes   *)
(* nothing that it speaks of.                                              *)
LEMMA StepImplements ==
  IndInv /\ [Next]_vars => [Whole!Next]_(Whole!vars)
<1> SUFFICES ASSUME IndInv, [Next]_vars
             PROVE  Whole!Next \/ UNCHANGED Whole!vars
  OBVIOUS
<1>1. ASSUME Accept \/ Reject \/ Exit PROVE Whole!Accept \/ Whole!Reject \/ Whole!Exit
  BY <1>1 DEF Accept, Reject, Exit, Goto, lexPool, synPool, output, Whole!Accept, Whole!Reject,
              Whole!Exit, Whole!Goto, Whole!files, Whole!output
<1>2. ASSUME Crash PROVE Whole!Die
  <2>1. PICK k \in Syn!Running : Fate(k) = "crashes"
    BY <1>2 DEF Crash
  <2>2. k \in (1..Files) \ unread /\ fate[k] = "crashes"
    BY <2>1 DEF Syn!Running, Fate, IndInv, TypeOK
  <2> QED
    BY <1>2, <2>2 DEF Crash, Goto, lexPool, synPool, output, Whole!Die, Whole!Goto, Whole!files,
                      Whole!output
<1>3. ASSUME WriteTrees PROVE Whole!WriteTrees
  <2>1. synFinished = 1..Files
    <3>1. 1..Files \subseteq synFinished
      BY <1>3 DEF WriteTrees, IndInv, SynProgress
    <3>2. synFinished \subseteq 1..Files
      BY DEF IndInv, TypeOK
    <3> QED
      BY <3>1, <3>2
  <2> QED
    BY <1>3, <2>1 DEF WriteTrees, Goto, lexPool, synPool, Whole!WriteTrees, Whole!Goto, Whole!files
<1>4. ASSUME ReturnFromMain PROVE Whole!Return
  BY <1>4 DEF ReturnFromMain, Goto, Flushed, lexPool, synPool, Whole!Return, Whole!Goto,
              Whole!Closed, Whole!files
<1>5. ASSUME ClosePool PROVE UNCHANGED Whole!vars
  BY <1>5, CloseFrame DEF output, Whole!vars, Whole!files, Whole!output
<1>6. ASSUME UNCHANGED vars PROVE UNCHANGED Whole!vars
  BY <1>6 DEF vars, output, lexPool, synPool, Whole!vars, Whole!files, Whole!output
<1> QED
  BY <1>1, <1>2, <1>3, <1>4, <1>5, <1>6, LexingImplements, FileLexedImplements, TokensImplement,
     ParsingImplements DEF Next, Step, Over, Hung, Whole!Next

(* The threads, the pools, the warm-up and the destructors together do     *)
(* nothing but what Compilation allows.                                    *)
THEOREM Implements == Spec => Compiles
<1>1. Init => Whole!Init
  BY DEF Init, Lex!Init, Syn!Init, Fates, Whole!Init
<1>2. IndInv /\ [Next]_vars => [Whole!Next]_(Whole!vars)
  BY StepImplements
<1> QED
  BY <1>1, <1>2, Invariance, PTL DEF Spec, Compiles, Whole!Spec
=============================================================================
