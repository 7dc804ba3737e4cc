-------------------------- MODULE CommandLineProofs --------------------------
(***************************************************************************)
(* Proofs about CommandLine: its types, which lines are accepted, and what *)
(* the command and the warnings of an accepted one are, for command lines  *)
(* of any length.                                                          *)
(***************************************************************************)
EXTENDS CommandLine, FiniteSetTheorems, TLAPS

USE CommandLineAssumption DEF CommandLineAssumption

(* The classes of arguments are told apart by the code in this order.      *)
LEMMA Classes ==
  /\ Args = Inputs \cup Plain \cup Unknown \cup Known
  /\ Inputs \cap (Plain \cup Unknown \cup Known) = {}
  /\ Plain \cap (Unknown \cup Known) = {} /\ Unknown \cap Known = {}
  /\ Numbers \subseteq Plain /\ Projects \cap (Inputs \cup Known) = {}
  /\ None \notin Args
  /\ Known = {"-o", "-mT", "-sS", "-iW"}
BY DEF Args, Inputs, Plain, Unknown, Known, Numbers, Projects, None

(* No step takes a variable out of its range.                              *)
LEMMA TypeStep ==
  ASSUME TypeOK, [Next]_vars
  PROVE  TypeOK'
<1> USE DEF TypeOK
<1>1. CASE InputFile
  BY <1>1 DEF InputFile, Take
<1>2. CASE Ignored
  BY <1>2 DEF Ignored, Take, command
<1>3. CASE OutputFile
  BY <1>3 DEF OutputFile, Take, NextIn
<1>4. CASE NoFileName \/ NoNumber \/ Missing
  BY <1>4 DEF NoFileName, NoNumber, Missing, Reject, Exit, command
<1>5. CASE MaxThreads
  BY <1>5 DEF MaxThreads, Take, NextIn
<1>6. CASE ShowStatus \/ IgnorWarnings
  <2>1. showStatus' \in BOOLEAN /\ ignorWarning' \in BOOLEAN
    BY <1>6, Zenon DEF ShowStatus, IgnorWarnings
  <2>2. /\ args' \in Seq(Args) /\ curr' \in 1 .. Len(args') + 1
        /\ UNCHANGED <<outputFile, inputFiles, maxThreads, warnings, status>>
    BY <1>6 DEF ShowStatus, IgnorWarnings, Take
  <2> QED
    BY <2>1, <2>2
<1>7. CASE UnknownFlag
  BY <1>7 DEF UnknownFlag, Take, command
<1>8. CASE Accept
  BY <1>8 DEF Accept, command
<1>9. CASE UNCHANGED vars
  BY <1>9 DEF vars, command
<1> QED
  BY <1>1, <1>2, <1>3, <1>4, <1>5, <1>6, <1>7, <1>8, <1>9 DEF Next, Ended

(* Init, as far as the types go.                                           *)
LEMMA InitTypeOK == Init => TypeOK
<1> SUFFICES ASSUME Init PROVE TypeOK
  OBVIOUS
<1>1. args \in Seq(Args) /\ curr \in 1 .. Len(args) + 1
  BY DEF Init
<1>2. showStatus \in BOOLEAN /\ ignorWarning \in BOOLEAN
  BY Zenon DEF Init
<1>3. outputFile = None /\ maxThreads = None /\ inputFiles = <<>> /\ warnings = <<>>
  BY Zenon DEF Init
<1>4. status = "reading"
  BY Zenon DEF Init
<1> QED
  BY <1>1, <1>2, <1>3, <1>4 DEF TypeOK

(* Every variable stays in its range, for lines of any length.             *)
THEOREM TypeCorrect == Spec => []TypeOK
BY InitTypeOK, TypeStep, PTL DEF Spec

-----------------------------------------------------------------------------
(* What has been read of the line: an -o and an input have been seen just  *)
(* if they stand before curr, every -o and -mT there had what it needs,    *)
(* and an exit was taken for one that had not or at the end of the line.   *)
Before(A) == {k \in Places(A) : k < curr}

SoFar ==
  /\ outputFile # None <=> Before({"-o"}) # {}
  /\ inputFiles # <<>> <=> Before(Inputs) # {}
  /\ \A k \in Before({"-o"}) : Follows(k, Args \ Dashed)
  /\ \A k \in Before({"-mT"}) : Follows(k, Numbers)
  /\ status = "accepted" => curr > Len(args) /\ outputFile # None /\ inputFiles # <<>>
  /\ status = "exited" =>
       \/ curr > Len(args) /\ (outputFile = None \/ inputFiles = <<>>)
       \/ ~OutputNamed \/ ~ThreadsGiven

(* An argument left behind is added to its class alone.                    *)
LEMMA OneMore ==
  ASSUME TypeOK, NEW A, NEW B, Take(A, 1), A \cap B = {}
  PROVE  Before(B)' = Before(B)
BY DEF TypeOK, Take, Before, Places

(* To a class that contains its own it is added.                           *)
LEMMA OneMoreOf ==
  ASSUME TypeOK, NEW A, NEW B, Take(A, 1), A \subseteq B
  PROVE  Before(B)' = Before(B) \cup {curr}
BY DEF TypeOK, Take, Before, Places

(* An argument and its operand left behind are added to their classes.     *)
LEMMA TwoMore ==
  ASSUME TypeOK, NEW A, NEW B, Take(A, 2), curr < Len(args), args[curr + 1] \notin B
  PROVE  /\ A \cap B = {} => Before(B)' = Before(B)
         /\ A \subseteq B => Before(B)' = Before(B) \cup {curr}
<1>1. /\ args' = args /\ curr' = curr + 2 /\ curr \in DOMAIN args /\ args[curr] \in A
      /\ DOMAIN args = 1..Len(args) /\ Len(args) \in Nat
  BY DEF Take, TypeOK
<1>2. \A k \in DOMAIN args : k < curr' <=> k < curr \/ k = curr \/ k = curr + 1
  BY <1>1
<1>3. Before(B)' = {k \in DOMAIN args : args[k] \in B /\ k < curr'}
  BY <1>1 DEF Before, Places
<1>4. Before(B) = {k \in DOMAIN args : args[k] \in B /\ k < curr}
  BY DEF Before, Places
<1> QED
  BY <1>1, <1>2, <1>3, <1>4

(* SoFar is kept by every step, each argument changing its class only.     *)
LEMMA SoFarStep ==
  ASSUME TypeOK, SoFar, [Next]_vars
  PROVE  SoFar'
<1> USE DEF SoFar
<1>s. "-o" # "-mT" /\ Inputs \cap Known = {} /\ {"-o", "-mT"} \subseteq Known
  BY Classes
<1>1. CASE InputFile
  <2>1. /\ Take(Inputs, 1) /\ UNCHANGED <<args, status, outputFile>>
        /\ status = "reading"
    BY <1>1 DEF InputFile, Take
  <2>2. inputFiles' # <<>>
    BY <1>1 DEF InputFile, TypeOK
  <2>3. Before({"-o"})' = Before({"-o"}) /\ Before({"-mT"})' = Before({"-mT"})
    BY <2>1, <1>s, OneMore
  <2>4. Before(Inputs)' # {}
    BY <2>1, OneMoreOf
  <2> QED
    BY <2>1, <2>2, <2>3, <2>4 DEF Follows
<1>2. CASE Ignored \/ UnknownFlag \/ ShowStatus \/ IgnorWarnings
  <2>1. PICK A \in {Plain, Unknown, {"-sS"}, {"-iW"}} : Take(A, 1)
    BY <1>2 DEF Ignored, UnknownFlag, ShowStatus, IgnorWarnings
  <2>2. UNCHANGED <<args, status, outputFile, inputFiles>> /\ status = "reading"
    BY <1>2 DEF Ignored, UnknownFlag, ShowStatus, IgnorWarnings, Take, command
  <2>3. A \cap {"-o"} = {} /\ A \cap {"-mT"} = {} /\ A \cap Inputs = {}
    BY Classes
  <2>4. /\ Before({"-o"})' = Before({"-o"}) /\ Before({"-mT"})' = Before({"-mT"})
        /\ Before(Inputs)' = Before(Inputs)
    BY <2>1, <2>3, OneMore
  <2> QED
    BY <2>2, <2>4 DEF Follows
<1>3. CASE OutputFile
  <2>1. /\ Take({"-o"}, 1) /\ UNCHANGED <<args, status, inputFiles>>
        /\ status = "reading" /\ Follows(curr, Args \ Dashed)
    BY <1>3 DEF OutputFile, Take, NextIn, Follows, TypeOK
  <2>2. outputFile' # None
    BY <1>3, Classes DEF OutputFile, NextIn
  <2>3. Before({"-mT"})' = Before({"-mT"}) /\ Before(Inputs)' = Before(Inputs)
    BY <2>1, <1>s, OneMore
  <2>4. Before({"-o"})' = Before({"-o"}) \cup {curr}
    BY <2>1, OneMoreOf
  <2> QED
    BY <2>1, <2>2, <2>3, <2>4 DEF Follows
<1>4. CASE MaxThreads
  <2>1. /\ UNCHANGED <<args, status, inputFiles, outputFile>> /\ status = "reading"
        /\ args[curr] = "-mT" /\ args[curr + 1] \in Numbers
        /\ curr \in DOMAIN args /\ curr + 1 \in DOMAIN args /\ curr' = curr + 2
    BY <1>4 DEF MaxThreads, Take, NextIn, TypeOK
  <2>2. args[curr + 1] \notin {"-o", "-mT"} /\ args[curr + 1] \notin Inputs
    BY <2>1, Classes
  <2>3. Take({"-mT"}, 2) /\ curr < Len(args)
    BY <1>4 DEF MaxThreads, NextIn
  <2>4. Before({"-o"})' = Before({"-o"}) /\ Before(Inputs)' = Before(Inputs)
    BY <2>2, <2>3, <1>s, TwoMore
  <2>5. Before({"-mT"})' = Before({"-mT"}) \cup {curr}
    BY <2>2, <2>3, TwoMore
  <2>6. Follows(curr, Numbers)
    BY <2>1 DEF Follows
  <2> QED
    BY <2>1, <2>4, <2>5, <2>6 DEF Follows
<1>5. CASE NoFileName \/ NoNumber
  <2>1. UNCHANGED <<args, curr, inputFiles, outputFile>> /\ status' = "exited"
    BY <1>5 DEF NoFileName, NoNumber, Reject, Exit, command
  <2>2. ~OutputNamed \/ ~ThreadsGiven
    <3>1. curr \in DOMAIN args /\ \A A : NextIn(A) <=> Follows(curr, A)
      BY <1>5 DEF NoFileName, NoNumber, Reject, NextIn, Follows, TypeOK
    <3>2. CASE NoFileName
      BY <3>1, <3>2 DEF NoFileName, Reject, OutputNamed, Places
    <3>3. CASE NoNumber
      BY <3>1, <3>3 DEF NoNumber, Reject, ThreadsGiven, Places
    <3> QED
      BY <1>5, <3>2, <3>3
  <2> QED
    BY <2>1, <2>2 DEF Before, Places, Follows, OutputNamed, ThreadsGiven
<1>6. CASE Missing \/ Accept
  BY <1>6 DEF Missing, Accept, AllRead, Exit, command, Before, Places, Follows
<1>7. CASE UNCHANGED vars
  BY <1>7 DEF vars, command, Before, Places, Follows, OutputNamed, ThreadsGiven
<1> QED
  BY <1>1, <1>2, <1>3, <1>4, <1>5, <1>6, <1>7 DEF Next, Ended

(* At the end of the line all of it has been read, so that what was seen   *)
(* is what there is.                                                       *)
LEMMA AcceptedAtEnd ==
  ASSUME TypeOK, SoFar
  PROVE  AcceptedExactly
<1> USE DEF SoFar
<1>1. ASSUME curr > Len(args), NEW A PROVE Before(A) = Places(A)
  BY <1>1 DEF TypeOK, Before, Places
<1>2. CASE status = "accepted"
  BY <1>1, <1>2 DEF AcceptedExactly, OutputGiven, OutputNamed, ThreadsGiven
<1>3. CASE status = "exited"
  BY <1>1, <1>3 DEF AcceptedExactly, OutputGiven
<1>4. CASE status = "reading"
  BY <1>4 DEF AcceptedExactly
<1> QED
  BY <1>2, <1>3, <1>4 DEF TypeOK

(* Before the first argument nothing has been seen.                        *)
LEMMA InitSoFar == Init => SoFar
<1> SUFFICES ASSUME Init PROVE SoFar
  OBVIOUS
<1>1. TypeOK
  BY InitTypeOK
<1>2. \A A : A \cap Projects = {} => Before(A) = {}
  BY <1>1 DEF Init, TypeOK, Before, Places
<1>3. Before({"-o"}) = {} /\ Before({"-mT"}) = {} /\ Before(Inputs) = {}
  BY <1>2, Classes
<1> QED
  BY <1>3 DEF Init, SoFar

(* A line of any length is accepted just if it has an output name, every   *)
(* flag that needs an operand has one, and there is an input.              *)
THEOREM AcceptedCorrect == Spec => []AcceptedExactly
<1>1. TypeOK /\ SoFar /\ [Next]_vars => (TypeOK /\ SoFar)'
  BY TypeStep, SoFarStep
<1>2. TypeOK /\ SoFar => AcceptedExactly
  BY AcceptedAtEnd
<1> QED
  BY InitTypeOK, InitSoFar, <1>1, <1>2, PTL DEF Spec

-----------------------------------------------------------------------------
(* The contents of the command.                                            *)

(* Places of the line are finitely many.                                   *)
LEMMA PlacesFinite ==
  ASSUME TypeOK, NEW S, S \subseteq DOMAIN args
  PROVE  IsFiniteSet(S) /\ Cardinality(S) \in Nat
<1>1. DOMAIN args = 1..Len(args) /\ Len(args) \in Nat
  BY DEF TypeOK
<1>2. IsFiniteSet(DOMAIN args)
  BY <1>1, FS_Interval
<1> QED
  BY <1>2, FS_Subset, FS_CardinalityType

(* A list is kept one when the argument after all its places is appended.  *)
LEMMA ListsOneMore ==
  ASSUME TypeOK, NEW T, NEW s \in Seq(T), NEW S, S \subseteq DOMAIN args, Lists(s, S),
         NEW n \in DOMAIN args, \A k \in S : k < n, args[n] \in T
  PROVE  Lists(Append(s, args[n]), S \cup {n})
<1> DEFINE Upto(k) == {m \in S : m <= k}
           t == Append(s, args[n])
<1>0. DOMAIN args \subseteq Nat
  BY DEF TypeOK
<1>1. IsFiniteSet(S) /\ Cardinality(S) \in Nat /\ n \notin S
  BY <1>0, PlacesFinite
<1>2. Cardinality(S \cup {n}) = Cardinality(S) + 1
  BY <1>1, FS_AddElement
<1>3. Len(s) = Cardinality(S)
  BY DEF Lists
<1>4. Len(t) = Cardinality(S) + 1 /\ t[Cardinality(S) + 1] = args[n]
      /\ \A j \in 1..Cardinality(S) : t[j] = s[j]
  BY <1>3
<1>5. ASSUME NEW k \in S PROVE t[Cardinality({m \in S \cup {n} : m <= k})] = args[k]
  <2>1. {m \in S \cup {n} : m <= k} = Upto(k)
    BY <1>0, k < n
  <2>2. Upto(k) \in SUBSET S /\ k \in Upto(k)
    BY <1>0
  <2>3. IsFiniteSet(Upto(k)) /\ Cardinality(Upto(k)) \in Nat
        /\ Cardinality(Upto(k)) <= Cardinality(S)
    BY <1>1, <2>2, FS_Subset, FS_CardinalityType
  <2>4. Cardinality(Upto(k)) # 0
    BY <2>2, <2>3, FS_EmptySet
  <2>5. s[Cardinality(Upto(k))] = args[k]
    BY DEF Lists
  <2>6. Cardinality(Upto(k)) \in 1..Cardinality(S)
    BY <1>1, <2>3, <2>4
  <2> HIDE DEF Upto, t
  <2> QED
    BY <1>4, <2>1, <2>5, <2>6
<1>6. {m \in S \cup {n} : m <= n} = S \cup {n}
  BY <1>0
<1>7. t[Cardinality({m \in S \cup {n} : m <= n})] = args[n]
  BY <1>2, <1>4, <1>6
<1> HIDE DEF t
<1>8. Lists(t, S \cup {n})
  BY <1>2, <1>4, <1>5, <1>7 DEF Lists
<1> QED
  BY <1>8 DEF t

(* The last place is the one that was added after all others.              *)
LEMMA LastAdded ==
  ASSUME TypeOK, NEW S, S \subseteq DOMAIN args, NEW n \in DOMAIN args, \A k \in S : k < n
  PROVE  Last(S \cup {n}) = n
<1> DEFINE Q(k) == k \in S \cup {n} /\ \A m \in S \cup {n} : m <= k
<1>0. DOMAIN args \subseteq Nat
  BY DEF TypeOK
<1>1. Q(n)
  BY <1>0
<1>2. \A k : Q(k) => k = n
  BY <1>0
<1>3. Last(S \cup {n}) = CHOOSE k : Q(k)
  BY DEF Last
<1> HIDE DEF Q
<1> QED
  BY <1>1, <1>2, <1>3

(* The value of the operand of a flag, as far as the line has been read.   *)
Operand(A) == IF Before(A) = {} THEN None ELSE args[Last(Before(A)) + 1]
Heard == {k \in Before(Unknown) : ~ProjectFirst(k) /\ \A q \in Before({"-iW"}) : k < q}

(* A project in first place has been passed over from the beginning.       *)
ProjectPassed == \A k \in DOMAIN args : ProjectFirst(k) => k < curr

ContentsSoFar ==
  /\ Lists(inputFiles, Before(Inputs))
  /\ outputFile = Operand({"-o"})
  /\ maxThreads = Operand({"-mT"})
  /\ showStatus <=> Before({"-sS"}) # {}
  /\ ignorWarning <=> Before({"-iW"}) # {}
  /\ Lists(warnings, Heard)

(* What has been read of each class is places of the line before curr.     *)
LEMMA BeforePlaces ==
  ASSUME NEW A PROVE Before(A) \subseteq DOMAIN args /\ \A k \in Before(A) : k < curr
BY DEF Before, Places

(* A list stays one if neither it nor its places change, an operand if the *)
(* places of its flag do not.                                              *)
LEMMA Kept ==
  ASSUME args' = args
  PROVE  /\ Before(Inputs)' = Before(Inputs) /\ inputFiles' = inputFiles =>
              (Lists(inputFiles, Before(Inputs))' <=> Lists(inputFiles, Before(Inputs)))
         /\ Heard' = Heard /\ warnings' = warnings =>
              (Lists(warnings, Heard)' <=> Lists(warnings, Heard))
         /\ Before({"-o"})' = Before({"-o"}) => Operand({"-o"})' = Operand({"-o"})
         /\ Before({"-mT"})' = Before({"-mT"}) => Operand({"-mT"})' = Operand({"-mT"})
BY DEF Lists, Operand

(* The operand of a flag that has just been read is the one that counts.   *)
LEMMA OperandRead ==
  ASSUME TypeOK, args' = args, curr \in DOMAIN args, NEW A, Before(A)' = Before(A) \cup {curr}
  PROVE  Operand(A)' = args[curr + 1]
<1>1. Last(Before(A) \cup {curr}) = curr
  BY BeforePlaces, LastAdded
<1>2. Last(Before(A))' = curr
  BY <1>1 DEF Last
<1>3. Before(A)' # {}
  OBVIOUS
<1> QED
  BY <1>2, <1>3 DEF Operand

(* A flag that is not heard, or not unknown, leaves what is heard alone.   *)
LEMMA HeardKept ==
  ASSUME TypeOK, args' = args, Before(Unknown)' = Before(Unknown),
         \/ Before({"-iW"})' = Before({"-iW"})
         \/ Before({"-iW"})' = Before({"-iW"}) \cup {curr}
  PROVE  Heard' = Heard
BY BeforePlaces DEF Heard, ProjectFirst

(* No step goes back to a project that was passed over.                    *)
LEMMA PassedStep ==
  ASSUME TypeOK, ProjectPassed, [Next]_vars
  PROVE  ProjectPassed'
<1>1. args' = args /\ curr' >= curr
  BY DEF TypeOK, Next, InputFile, Ignored, OutputFile, NoFileName, MaxThreads, NoNumber, ShowStatus,
     IgnorWarnings, UnknownFlag, Missing, Accept, Ended, Take, Reject, Exit, vars
<1> QED
  BY <1>1, TypeStep DEF TypeOK, ProjectPassed, ProjectFirst

(* The argument at curr is of one class and goes into what is kept of it.  *)
LEMMA ContentsStep ==
  ASSUME TypeOK, ContentsSoFar, ProjectPassed, [Next]_vars
  PROVE  ContentsSoFar'
<1> USE DEF ContentsSoFar
<1>s. /\ Inputs \cap (Unknown \cup Known) = {} /\ Unknown \cap Known = {}
      /\ Plain \cap (Inputs \cup Unknown \cup Known) = {} /\ Numbers \subseteq Plain
      /\ {"-o", "-mT", "-sS", "-iW"} \subseteq Known
      /\ "-o" # "-mT" /\ "-o" # "-sS" /\ "-o" # "-iW" /\ "-mT" # "-sS" /\ "-mT" # "-iW"
      /\ "-sS" # "-iW"
  BY Classes
<1>1. CASE InputFile
  <2>1. /\ Take(Inputs, 1) /\ curr \in DOMAIN args /\ args[curr] \in Inputs /\ args' = args
        /\ inputFiles' = Append(inputFiles, args[curr])
        /\ UNCHANGED <<outputFile, showStatus, ignorWarning, maxThreads, warnings>>
    BY <1>1 DEF InputFile, Take, TypeOK
  <2>2. /\ Before({"-o"})' = Before({"-o"}) /\ Before({"-mT"})' = Before({"-mT"})
        /\ Before({"-sS"})' = Before({"-sS"}) /\ Before({"-iW"})' = Before({"-iW"})
        /\ Before(Unknown)' = Before(Unknown)
    BY <2>1, <1>s, OneMore
  <2>3. Before(Inputs)' = Before(Inputs) \cup {curr}
    BY <2>1, OneMoreOf
  <2>4. Lists(Append(inputFiles, args[curr]), Before(Inputs) \cup {curr})
    BY <2>1, BeforePlaces, ListsOneMore DEF TypeOK
  <2>5. Lists(inputFiles, Before(Inputs))'
    BY <2>1, <2>3, <2>4 DEF Lists
  <2>6. Heard' = Heard
    BY <2>1, <2>2, HeardKept
  <2> QED
    BY <2>1, <2>2, <2>5, <2>6, Kept
<1>2. CASE Ignored
  <2>1. Take(Plain, 1) /\ args' = args /\ UNCHANGED <<command, warnings>>
    BY <1>2 DEF Ignored, Take
  <2>2. /\ Before({"-o"})' = Before({"-o"}) /\ Before({"-mT"})' = Before({"-mT"})
        /\ Before({"-sS"})' = Before({"-sS"}) /\ Before({"-iW"})' = Before({"-iW"})
        /\ Before(Unknown)' = Before(Unknown) /\ Before(Inputs)' = Before(Inputs)
    BY <2>1, <1>s, OneMore
  <2>3. Heard' = Heard
    BY <2>1, <2>2, HeardKept
  <2> QED
    BY <2>1, <2>2, <2>3, Kept DEF command
<1>3. CASE OutputFile
  <2>1. /\ Take({"-o"}, 1) /\ curr \in DOMAIN args /\ args' = args
        /\ outputFile' = args[curr + 1]
        /\ UNCHANGED <<inputFiles, showStatus, ignorWarning, maxThreads, warnings>>
    BY <1>3 DEF OutputFile, Take, TypeOK
  <2>2. /\ Before({"-mT"})' = Before({"-mT"})
        /\ Before({"-sS"})' = Before({"-sS"}) /\ Before({"-iW"})' = Before({"-iW"})
        /\ Before(Unknown)' = Before(Unknown) /\ Before(Inputs)' = Before(Inputs)
    BY <2>1, <1>s, OneMore
  <2>3. Before({"-o"})' = Before({"-o"}) \cup {curr}
    BY <2>1, OneMoreOf
  <2>4. Operand({"-o"})' = args[curr + 1]
    BY <2>1, <2>3, OperandRead
  <2>5. Heard' = Heard
    BY <2>1, <2>2, HeardKept
  <2> QED
    BY <2>1, <2>2, <2>4, <2>5, Kept
<1>4. CASE MaxThreads
  <2>1. /\ Take({"-mT"}, 2) /\ curr \in DOMAIN args /\ args' = args
        /\ curr < Len(args) /\ args[curr + 1] \in Numbers
        /\ maxThreads' = args[curr + 1]
        /\ UNCHANGED <<inputFiles, showStatus, ignorWarning, outputFile, warnings>>
    BY <1>4 DEF MaxThreads, Take, NextIn, TypeOK
  <2>2. args[curr + 1] \notin Inputs \cup Unknown \cup Known
    BY <2>1, <1>s
  <2>3. /\ Before({"-o"})' = Before({"-o"})
        /\ Before({"-sS"})' = Before({"-sS"}) /\ Before({"-iW"})' = Before({"-iW"})
        /\ Before(Unknown)' = Before(Unknown) /\ Before(Inputs)' = Before(Inputs)
    BY <2>1, <2>2, <1>s, TwoMore
  <2>4. Before({"-mT"})' = Before({"-mT"}) \cup {curr}
    BY <2>1, <2>2, <1>s, TwoMore
  <2>5. Operand({"-mT"})' = args[curr + 1]
    BY <2>1, <2>4, OperandRead
  <2>6. Heard' = Heard
    BY <2>1, <2>3, HeardKept
  <2> QED
    BY <2>1, <2>3, <2>5, <2>6, Kept
<1>5. CASE ShowStatus
  <2>1. /\ Take({"-sS"}, 1) /\ args' = args /\ showStatus' = TRUE
        /\ UNCHANGED <<outputFile, inputFiles, ignorWarning, maxThreads, warnings>>
    BY <1>5 DEF ShowStatus, Take
  <2>2. /\ Before({"-o"})' = Before({"-o"}) /\ Before({"-mT"})' = Before({"-mT"})
        /\ Before({"-iW"})' = Before({"-iW"})
        /\ Before(Unknown)' = Before(Unknown) /\ Before(Inputs)' = Before(Inputs)
    BY <2>1, <1>s, OneMore
  <2>3. Before({"-sS"})' # {}
    BY <2>1, OneMoreOf
  <2>4. Heard' = Heard
    BY <2>1, <2>2, HeardKept
  <2> QED
    BY <2>1, <2>2, <2>3, <2>4, Kept
<1>6. CASE IgnorWarnings
  <2>1. /\ Take({"-iW"}, 1) /\ args' = args /\ ignorWarning' = TRUE
        /\ UNCHANGED <<outputFile, inputFiles, showStatus, maxThreads, warnings>>
    BY <1>6 DEF IgnorWarnings, Take
  <2>2. /\ Before({"-o"})' = Before({"-o"}) /\ Before({"-mT"})' = Before({"-mT"})
        /\ Before({"-sS"})' = Before({"-sS"})
        /\ Before(Unknown)' = Before(Unknown) /\ Before(Inputs)' = Before(Inputs)
    BY <2>1, <1>s, OneMore
  <2>3. Before({"-iW"})' = Before({"-iW"}) \cup {curr}
    BY <2>1, OneMoreOf
  <2>4. Heard' = Heard
    BY <2>1, <2>2, <2>3, HeardKept
  <2> QED
    BY <2>1, <2>2, <2>3, <2>4, Kept
<1>7. CASE UnknownFlag
  <2>1. /\ Take(Unknown, 1) /\ curr \in DOMAIN args /\ args[curr] \in Unknown /\ args' = args
        /\ warnings' = IF ignorWarning THEN warnings ELSE Append(warnings, args[curr])
        /\ UNCHANGED command
    BY <1>7 DEF UnknownFlag, Take, TypeOK
  <2>2. /\ Before({"-o"})' = Before({"-o"}) /\ Before({"-mT"})' = Before({"-mT"})
        /\ Before({"-sS"})' = Before({"-sS"}) /\ Before({"-iW"})' = Before({"-iW"})
        /\ Before(Inputs)' = Before(Inputs)
    BY <2>1, <1>s, OneMore
  <2>3. Before(Unknown)' = Before(Unknown) \cup {curr}
    BY <2>1, OneMoreOf
  <2>4. Lists(warnings, Heard)'
    <3>1. Heard \subseteq DOMAIN args /\ \A k \in Heard : k < curr
      BY BeforePlaces DEF Heard
    <3>2. \A q \in Before({"-iW"}) : q < curr /\ ~(curr < q)
      BY BeforePlaces DEF TypeOK
    <3>3. CASE ignorWarning
      <4>1. Heard' = Heard
        BY <2>1, <2>2, <2>3, <3>2, <3>3 DEF Heard, ProjectFirst
      <4> QED
        BY <2>1, <3>3, <4>1, Kept
    <3>4. CASE ~ignorWarning
      <4>1. Heard' = Heard \cup {curr}
        <5>1. ~ProjectFirst(curr)
          BY <2>1 DEF TypeOK, ProjectPassed
        <5> QED
          BY <2>1, <2>2, <2>3, <3>4, <5>1 DEF Heard, ProjectFirst
      <4>2. Lists(Append(warnings, args[curr]), Heard \cup {curr})
        BY <2>1, <3>1, ListsOneMore DEF TypeOK
      <4> QED
        BY <2>1, <3>4, <4>1, <4>2 DEF Lists
    <3> QED
      BY <3>3, <3>4
  <2> QED
    BY <2>1, <2>2, <2>4, Kept DEF command
<1>8. CASE NoFileName \/ NoNumber \/ Missing \/ Accept \/ UNCHANGED vars
  <2>1. UNCHANGED <<args, curr, command, warnings>>
    BY <1>8 DEF NoFileName, NoNumber, Missing, Reject, Exit, Accept, vars
  <2>2. \A A : Before(A)' = Before(A)
    BY <2>1 DEF Before, Places
  <2>3. Heard' = Heard
    BY <2>1, <2>2 DEF Heard, ProjectFirst
  <2> QED
    BY <2>1, <2>2, <2>3, Kept DEF command
<1> QED
  BY <1>1, <1>2, <1>3, <1>4, <1>5, <1>6, <1>7, <1>8 DEF Next, Ended

(* Before the first argument nothing has been kept.                        *)
LEMMA InitContents == Init => ContentsSoFar /\ ProjectPassed
<1> SUFFICES ASSUME Init PROVE ContentsSoFar /\ ProjectPassed
  OBVIOUS
<1>1. TypeOK
  BY InitTypeOK
<1>2. \A A : A \cap Projects = {} => Before(A) = {}
  BY <1>1 DEF Init, TypeOK, Before, Places
<1>3. /\ Before({"-o"}) = {} /\ Before({"-mT"}) = {} /\ Before(Inputs) = {}
      /\ Before({"-sS"}) = {} /\ Before({"-iW"}) = {}
  BY <1>2, Classes
<1>4. Heard = {} /\ Cardinality({}) = 0
  <2>1. \A k \in Before(Unknown) : ProjectFirst(k)
    BY <1>1 DEF Init, TypeOK, Before, Places, ProjectFirst
  <2> QED
    BY <2>1, FS_EmptySet DEF Heard
<1>8. ProjectPassed
  BY <1>1 DEF Init, TypeOK, ProjectPassed, ProjectFirst
<1>5. /\ inputFiles = <<>> /\ warnings = <<>> /\ outputFile = None /\ maxThreads = None
  BY DEF Init
<1>6. ~showStatus /\ ~ignorWarning
  BY Zenon DEF Init
<1>7. Lists(inputFiles, Before(Inputs)) /\ Lists(warnings, Heard)
  BY <1>3, <1>4, <1>5 DEF Lists
<1> QED
  BY <1>3, <1>5, <1>6, <1>7, <1>8 DEF ContentsSoFar, Operand

(* At the end of the line everything on it has been read.                  *)
LEMMA ContentsAtEnd ==
  ASSUME TypeOK, SoFar, ContentsSoFar
  PROVE  CommandAsWritten /\ WarningsInOrder
<1> SUFFICES ASSUME status = "accepted" PROVE CommandAsWritten /\ WarningsInOrder
  BY DEF CommandAsWritten, WarningsInOrder
<1>1. \A A : Before(A) = Places(A)
  BY DEF SoFar, TypeOK, Before, Places
<1>2. Heard = {k \in Places(Unknown) : ~ProjectFirst(k) /\ \A q \in Places({"-iW"}) : k < q}
  <2>1. Before(Unknown) = Places(Unknown) /\ Before({"-iW"}) = Places({"-iW"})
    BY <1>1
  <2> QED
    BY <2>1 DEF Heard
<1>3. Places({"-o"}) # {}
  BY <1>1 DEF SoFar
<1>4. showStatus = (Places({"-sS"}) # {})
  <2>1. showStatus \in BOOLEAN
    BY DEF TypeOK
  <2>2. showStatus <=> Places({"-sS"}) # {}
    BY <1>1, Zenon DEF ContentsSoFar
  <2> QED
    BY <2>1, <2>2, Zenon
<1>5. CommandAsWritten
  BY <1>1, <1>3, <1>4 DEF CommandAsWritten, ContentsSoFar, Operand
<1>6. WarningsInOrder
  BY <1>2 DEF WarningsInOrder, ContentsSoFar
<1> QED
  BY <1>5, <1>6

(* What has been read is as it should be, whatever has been read.          *)
LEMMA ReadInvariance == Spec => [](TypeOK /\ SoFar /\ ContentsSoFar /\ ProjectPassed)
<1>1. TypeOK /\ SoFar /\ ContentsSoFar /\ ProjectPassed /\ [Next]_vars =>
        (TypeOK /\ SoFar /\ ContentsSoFar /\ ProjectPassed)'
  BY TypeStep, SoFarStep, ContentsStep, PassedStep
<1> QED
  BY InitTypeOK, InitSoFar, InitContents, <1>1, PTL DEF Spec

(* The command holds every input of the line in its order, and the         *)
(* operands of its last -o and its last -mT, however long the line.        *)
THEOREM ContentsCorrect == Spec => []CommandAsWritten
<1>1. TypeOK /\ SoFar /\ ContentsSoFar => CommandAsWritten
  BY ContentsAtEnd
<1> QED
  BY ReadInvariance, <1>1, PTL

(* Just the unknown flags before the first -iW are warned of, in order,    *)
(* but for a project in first place.                                       *)
THEOREM WarningsCorrect == Spec => []WarningsInOrder
<1>1. TypeOK /\ SoFar /\ ContentsSoFar => WarningsInOrder
  BY ContentsAtEnd
<1> QED
  BY ReadInvariance, <1>1, PTL
=============================================================================
