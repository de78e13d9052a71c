---------------------------- MODULE ConsoleProofs ----------------------------
(***************************************************************************)
(* The safety properties of Console, for any number of shells, commands,   *)
(* threads and addresses.  The inductive invariant Inv says where each     *)
(* process may be (Places, Positions), that a start is alone and the       *)
(* engine at rest until one was not (Alone), and what mybuf, the files and *)
(* the table hold while nobody interferes (Worded, Filed, Copied).         *)
(***************************************************************************)
EXTENDS Console, FiniteSetTheorems, TLAPS

(* Where the processes are *)

InitPhases == {"wpCleanStart", "initCount", "initAddr", "initState", "initFlag"}
AddPhases  == {"addFirst", "addStride", "addRandom"}
LoopPhases == Loops \cup AddPhases \cup {"setRunning"}
StopPhases == {"begin", "clean", "drain", "wpCleanStop"}
WorkPhases == StopPhases \cup InitPhases \cup LoopPhases \cup {"unload", "gone"}

\* Each phase belongs to a command, rmmod only stops, and nothing but rmmod
\* unloads.
Places ==
  /\ \A s \in Shells :
       /\ pc[s] \notin {"unload", "gone"}
       /\ pc[s] = "copy" <=> Inside(s) /\ doing[s] = "load"
       /\ pc[s] = "read" => doing[s] = "status"
       /\ Reading(s) \/ pc[s] \in StopPhases => doing[s] \in {"start", "stop"}
       /\ pc[s] \in InitPhases \cup LoopPhases => doing[s] = "start"
  /\ pc[Rmmod] \in {"idle", "unload", "gone"} \cup StopPhases
  /\ pc[Rmmod] # "idle" => doing[Rmmod] = "exit"
  /\ loaded \/ pc[Rmmod] = "gone"

\* No index is outside of its list.
Positions ==
  /\ list \in [Shells -> Lists \cup {<<>>}]
  /\ \A s \in Shells : pc[s] = "copy" => pos[s] \in 0..Len(list[s])
  /\ \A p \in Processes : pc[p] \in {"initAddr", "initState"} => pos[p] \in 0..len[p]
  /\ \A p \in Processes : pc[p] = "initState" => pos[p] < len[p]
  /\ \A s \in Shells : pc[s] = "read" => pos[s] <= Title + (UNUSED * len[s]) + Wp(4)

\* While starts run alone ...
Lonely == \A p, q \in Processes : Starting(p) /\ Working(q) => p = q

\* ... the engine is at rest between a stop and the loops of start, and empty but
\* for what bp_add plants after bp_clean: no thread can enter while it is stopping,
\* and before the first start there is nothing to trap at ...
Empty    == used = {} \/ latePlant
AtRest ==
  /\ used \subseteq Active \/ latePlant
  /\ bp_trap_count = held
  /\ \A p \in Processes :
       /\ pc[p] \in {"drain", "wpCleanStop"} => Empty /\ bp_stopping
       /\ pc[p] = "wpCleanStop" => held = 0
       /\ pc[p] \in InitPhases \cup LoopPhases \cup {"unload", "gone"} => ~running
  /\ ~running /\ (\A p \in Processes : pc[p] \notin LoopPhases) =>
       Empty /\ held = 0 /\ (bp_stopping \/ (used = {} /\ removed = 0))

Alone == ~startMet => Lonely /\ AtRest

\* A word that nobody else has written over is the one of the command, and the zero
\* that somebody is about to store is one that it has.
OwnWord(s) ==
  /\ \A p \in Processes \ {s} :
       pc[p] # "terminate" /\ (doing[s] = "start" => pc[p] # "zero")
  /\ mybuf.middle = Word(doing[s]).middle
  /\ doing[s] = "start" \/ pc[s] # "terminate" => mybuf.fifth = Word(doing[s]).fifth
  /\ pc[s] \in {"zero", "isStop"} => doing[s] = "stop"
Worded == \A s \in Shells : Reading(s) /\ "word" \notin met[s] => OwnWord(s)

\* The files hold one list, as far as a load has come.
Whole(l) == u_addresscnt = Len(l) /\ \A i \in 1..Len(l) : address[i - 1] = l[i]
Undisturbed(p) == "load" \notin met[p]
Filed ==
  /\ \A s \in Shells : pc[s] = "copy" => ~oneList
  /\ \A s \in Shells, p \in Processes :
       Inside(p) /\ Undisturbed(p) /\ s # p => pc[s] # "copy"
  /\ \A s \in Shells :
       pc[s] = "copy" /\ Undisturbed(s) => \A i \in 1..pos[s] : address[i - 1] = list[s][i]
  /\ oneList => \E l \in Lists \cup {<<>>} : Whole(l)

\* bp_init has copied the files, as far as it has come.
Copying == {"initAddr", "initState", "initFlag"}
Copied ==
  ~startMet => \A s \in Shells :
    (pc[s] \in Copying /\ Undisturbed(s)) =>
      /\ bp_count = u_addresscnt /\ len[s] = u_addresscnt
      /\ pc[s] = "initFlag" => pos[s] = len[s]
      /\ pc[s] = "initState" => bp_addr[pos[s]] = address[pos[s]]
      /\ \A i \in 0..(pos[s] - 1) : bp_addr[i] = address[i]
-----------------------------------------------------------------------------
(* What the operators that several actions use do *)

\* A table of n entries.
LEMMA IndicesFinite == \A n \in Nat : IsFiniteSet(0..(n - 1)) /\ Cardinality(0..(n - 1)) = n
  BY FS_Interval

\* bp_add plants one breakpoint of the table at most; latePlant notes a plant of a
\* stopping engine.
LEMMA AddOne ==
  ASSUME NEW choice, Add(choice)
  PROVE  /\ used \subseteq used' /\ used' \subseteq used \cup Active
         /\ latePlant => latePlant'
         /\ latePlant \in BOOLEAN => latePlant' \in BOOLEAN
         /\ bp_stopping => used' = used \/ latePlant'
         /\ UNCHANGED <<bp_addr, bp_count>>
  BY DEF Add, Choices, Free

\* Begin: what a process and the others learn of each other.
LEMMA Begun ==
  ASSUME TypeOK, NEW s \in Processes, NEW c, NEW at, Begin(s, c, at)
  PROVE  /\ loaded /\ pc[s] = "idle" /\ pc[Rmmod] = "idle"
         /\ pc' = [pc EXCEPT ![s] = at] /\ doing' = [doing EXCEPT ![s] = c]
         /\ commands' \in 0..MaxCommands
         /\ met' \in [Processes -> SUBSET {"load", "word"}]
         /\ "word" \notin met'[s] => \A p \in Processes \ {s} : pc[p] \notin {"terminate", "zero"}
         /\ "load" \notin met'[s] => \A p \in Processes \ {s} : Inside(p) => doing[p] # "load"
         /\ \A p \in Processes \ {s} :
              /\ met[p] \subseteq met'[p]
              /\ c = "load" /\ Inside(p) => "load" \in met'[p]
              /\ c \in {"start", "stop"} /\ Reading(p) => "word" \in met'[p]
<1> DEFINE others == {p \in Processes \ {s} : Inside(p)}
           found == {x \in {"load", "word"} :
                       \E q \in others : IF x = "load" THEN doing[q] = x ELSE Cutting(q)}
           told(p) == IF c = "load" THEN {c}
                      ELSE IF c \in {"start", "stop"} /\ Reading(p) THEN {"word"} ELSE {}
<1>1. met' = [p \in Processes |-> IF p = s THEN found
                                  ELSE IF p \in others THEN met[p] \cup told(p) ELSE met[p]]
  BY DEF Begin
<1>2. \A p \in Processes : Reading(p) => Inside(p)
  BY DEF Reading, Inside
<1>3. met'[s] = found
  BY <1>1
<1>4. \A p \in Processes \ {s} : met'[p] = IF p \in others THEN met[p] \cup told(p) ELSE met[p]
  BY <1>1
<1>5. \A p \in Processes : told(p) \subseteq {"load", "word"}
  OBVIOUS
<1>6. met' \in [Processes -> SUBSET {"load", "word"}]
  <2>1. met \in [Processes -> SUBSET {"load", "word"}]
    BY DEF TypeOK
  <2> QED
    BY <2>1, <1>1, <1>5
<1>7. "word" \notin met'[s] => \A p \in Processes \ {s} : pc[p] \notin {"terminate", "zero"}
  BY <1>3 DEF Inside, Cutting
<1>8. "load" \notin met'[s] => \A p \in Processes \ {s} : Inside(p) => doing[p] # "load"
  BY <1>3 DEF Cutting
<1>9. ASSUME NEW p \in Processes \ {s}
      PROVE  /\ met[p] \subseteq met'[p]
             /\ c = "load" /\ Inside(p) => "load" \in met'[p]
             /\ c \in {"start", "stop"} /\ Reading(p) => "word" \in met'[p]
  BY <1>4, <1>2
<1>10. commands' \in 0..MaxCommands
  <2>1. commands \in 0..MaxCommands /\ commands < MaxCommands /\ commands' = commands + 1
    BY DEF Begin, TypeOK
  <2>2. MaxCommands \in Nat
    BY ListsAssumption
  <2> QED
    BY <2>1, <2>2
<1>11. /\ loaded /\ pc[s] = "idle" /\ pc[Rmmod] = "idle"
       /\ pc' = [pc EXCEPT ![s] = at] /\ doing' = [doing EXCEPT ![s] = c]
  BY DEF Begin, Goto
<1> HIDE DEF others, found, told
<1> QED
  BY <1>6, <1>7, <1>8, <1>9, <1>10, <1>11
-----------------------------------------------------------------------------
\* The parts of TypeOK.
FilesOK == /\ address \in [Indices -> Addr \cup {NoAddr}] /\ u_addresscnt \in 0..NAddress
           /\ i_param \in Int /\ running \in BOOLEAN
           /\ mybuf \in [middle : {"none", "ar", "op"}, fifth : {"end", "t"}]
ThreadsOK == /\ removed \in Nat /\ held \in Nat /\ adding \in Nat /\ leaving \in Nat
             /\ adding + leaving <= held
EngineOK == /\ bp_addr \in [Indices -> Addr \cup {NoAddr}] /\ used \subseteq Indices
            /\ bp_count \in 0..NAddress /\ bp_trap_count \in Int
            /\ bp_stopping \in BOOLEAN /\ latePlant \in BOOLEAN /\ loaded \in BOOLEAN
            /\ ThreadsOK
PhaseOK == /\ pc \in [Processes -> Phases]
           /\ doing \in [Processes -> Activities \cup {"none"}]
CallOK == /\ pos \in [Processes -> Int] /\ len \in [Processes -> 0..NAddress]
          /\ commands \in 0..MaxCommands
          /\ met \in [Processes -> SUBSET {"load", "word"}]
          /\ oneList \in BOOLEAN /\ startMet \in BOOLEAN

\* The list that is being loaded.
LEMMA ListLength ==
  ASSUME Positions, NEW s \in Shells
  PROVE  list[s] \in Seq(Addr) /\ Len(list[s]) \in 0..NAddress
<1>1. list[s] \in Lists \cup {<<>>}
  BY DEF Positions
<1>2. CASE list[s] \in Lists
  BY <1>2, ListsAssumption
<1>3. CASE list[s] = <<>>
  BY <1>3, ListsAssumption
<1> QED
  BY <1>1, <1>2, <1>3

\* The lines that bp_monitor prints.
LEMMA TableParts ==
  ASSUME EngineOK
  PROVE  /\ Cardinality(Free) \in Nat /\ Cardinality(used \cap Active) \in Nat
         /\ Cardinality(Free) + Cardinality(used \cap Active) = bp_count
<1>1. IsFiniteSet(Active) /\ Cardinality(Active) = bp_count
  BY IndicesFinite, ListsAssumption DEF Active, EngineOK
<1>2. Free = Active \ (used \cap Active)
  BY DEF Free
<1>3. IsFiniteSet(used \cap Active) /\ IsFiniteSet(Free)
  BY <1>1, <1>2, FS_Subset
<1>4. Cardinality(Free) = Cardinality(Active) - Cardinality(used \cap Active)
  <2>1. Cardinality(Free) = Cardinality(Active) - Cardinality(Active \cap (used \cap Active))
    BY <1>1, <1>2, FS_Difference
  <2>2. Active \cap (used \cap Active) = used \cap Active
    OBVIOUS
  <2> QED
    BY <2>1, <2>2
<1>5. Cardinality(Free) \in Nat /\ Cardinality(used \cap Active) \in Nat
  BY <1>3, FS_CardinalityType
<1> QED
  BY <1>1, <1>4, <1>5 DEF EngineOK

\* A step of a command, or its end.
LEMMA GoesOn ==
  ASSUME PhaseOK, CallOK, NEW s \in Processes, NEW from, NEW to, GotoOrReturn(s, from, to)
  PROVE  /\ pos' \in [Processes -> Int] /\ len' \in [Processes -> 0..NAddress]
         /\ met' \in [Processes -> SUBSET {"load", "word"}]
         /\ \A p \in Processes \ {s} :
              doing'[p] = doing[p] /\ pos'[p] = pos[p] /\ len'[p] = len[p] /\ met'[p] = met[p]
<1>1. 0 \in 0..NAddress
  BY ListsAssumption
<1>2. CASE to = "idle"
  <2>1. /\ doing' = [doing EXCEPT ![s] = "none"] /\ met' = [met EXCEPT ![s] = {}]
        /\ pos' = [pos EXCEPT ![s] = 0] /\ len' = [len EXCEPT ![s] = 0]
    BY <1>2 DEF GotoOrReturn
  <2>2. pos' \in [Processes -> Int] /\ len' \in [Processes -> 0..NAddress]
    BY <1>1, <2>1 DEF CallOK
  <2>3. met' \in [Processes -> SUBSET {"load", "word"}]
    BY <2>1 DEF CallOK
  <2> QED
    BY <2>1, <2>2, <2>3 DEF PhaseOK, CallOK
<1>3. CASE to # "idle"
  BY <1>3 DEF GotoOrReturn, CallOK
<1> QED
  BY <1>2, <1>3

\* Its effect on where the process is and on the list.
LEMMA GoesOnList ==
  ASSUME Positions, PhaseOK, NEW s \in Processes, NEW from, NEW to, GotoOrReturn(s, from, to)
  PROVE  /\ pc[s] = from /\ pc' = [pc EXCEPT ![s] = to]
         /\ list' \in [Shells -> Lists \cup {<<>>}]
         /\ \A p \in Shells \ {s} : list'[p] = list[p]
  BY DEF Positions, GotoOrReturn, Goto

\* The phases that follow the part that is stop.
LEMMA AfterStopPhase ==
  ASSUME NEW s
  PROVE  AfterStop(s) \in {"wpCleanStart", "unload", "idle"}
  BY DEF AfterStop

\* They make up TypeOK.
LEMMA TypeParts == TypeOK <=> FilesOK /\ EngineOK /\ PhaseOK /\ CallOK
  BY DEF TypeOK, FilesOK, EngineOK, ThreadsOK, PhaseOK, CallOK

\* The steps within a call of start or stop, from one phase to another of the same
\* kind, and what they leave alone.
Within(s) ==
  \/ Clean(s) \/ Drain(s) \/ WpCleaned(s) \/ InitCount(s) \/ InitAddr(s) \/ InitState(s)
  \/ InitTrap(s) \/ InitFlag(s) \/ PlantTest(s) \/ PlantRefused(s)
  \/ (\E loop \in Loops : PlantNext(s, loop)) \/ ResetParam(s)
Walk(from, to) ==
  \/ from \in StopPhases /\ to \in StopPhases \ {"begin"}
  \/ from \in InitPhases \cup LoopPhases /\ to \in InitPhases \cup LoopPhases
Inner(s) ==
  /\ \E to : pc' = [pc EXCEPT ![s] = to] /\ Walk(pc[s], to)
  /\ UNCHANGED <<address, u_addresscnt, mybuf, running, loaded, threads, still>>
  /\ i_param' \in {i_param, -1}
  /\ pos' \in [Processes -> Int] /\ len' \in [Processes -> 0..NAddress]
  /\ \A p \in Processes \ {s} : pos'[p] = pos[p] /\ len'[p] = len[p]

\* bp_add, called by start, tests bp_stopping, and plants.
LEMMA Tested ==
  ASSUME NEW s, PlantTest(s)
  PROVE  \E to \in AddPhases : pc[s] \in Loops /\ pc' = [pc EXCEPT ![s] = to]
<1>1. pc[s] \in Loops /\ pc' = [pc EXCEPT ![s] = InAdd[pc[s]]]
  BY DEF PlantTest, More, Loops
<1>2. \A loop \in Loops : InAdd[loop] \in AddPhases
  BY DEF InAdd, Loops, AddPhases
<1> QED
  BY <1>1, <1>2

LEMMA Planted ==
  ASSUME NEW s, NEW loop \in Loops, PlantNext(s, loop)
  PROVE  pc[s] \in AddPhases /\ pc' = [pc EXCEPT ![s] = loop]
<1>1. \A l \in Loops : InAdd[l] \in AddPhases
  BY DEF InAdd, Loops, AddPhases
<1> QED
  BY <1>1 DEF PlantNext, Goto

\* The loops advance by a number.
LEMMA Advanced ==
  ASSUME FilesOK, CallOK, NEW s \in Processes, NEW loop, Advance(s, loop)
  PROVE  pos' \in [Processes -> Int] /\ \A p \in Processes \ {s} : pos'[p] = pos[p]
<1>1. pos[s] \in Int /\ i_param \in Int
  BY DEF FilesOK, CallOK
<1>2. pos[s] - i_param \in Int /\ pos[s] + 1 \in Int
  BY <1>1
<1> QED
  BY <1>2 DEF Advance, CallOK

\* Each of the steps is such a step.
LEMMA InnerStep ==
  ASSUME FilesOK, PhaseOK, CallOK, NEW s \in Processes, Within(s)
  PROVE  Inner(s)
<1>a. /\ pos \in [Processes -> Int] /\ len \in [Processes -> 0..NAddress]
      /\ u_addresscnt \in 0..NAddress
  BY DEF CallOK, FilesOK
<1> USE DEF Walk, StopPhases, InitPhases, Goto, files, engine, table, threads, still
<1>1. CASE Clean(s)
  <2>0. pc[s] = "clean" /\ pc' = [pc EXCEPT ![s] = "drain"]
    BY <1>1 DEF Clean
  <2>1. \E to : pc' = [pc EXCEPT ![s] = to] /\ Walk(pc[s], to)
    <3>1. Walk("clean", "drain")
      OBVIOUS
    <3> QED
      BY <2>0, <3>1
  <2> QED
    BY <2>1, <1>1, <1>a DEF Clean, Inner
<1>2. CASE Drain(s)
  <2>0. pc[s] = "drain" /\ pc' = [pc EXCEPT ![s] = "wpCleanStop"]
    BY <1>2 DEF Drain
  <2>1. \E to : pc' = [pc EXCEPT ![s] = to] /\ Walk(pc[s], to)
    <3>1. Walk("drain", "wpCleanStop")
      OBVIOUS
    <3> QED
      BY <2>0, <3>1
  <2> QED
    BY <2>1, <1>2, <1>a DEF Drain, Inner
<1>3. CASE WpCleaned(s)
  <2>1. \E to : pc' = [pc EXCEPT ![s] = to] /\ Walk(pc[s], to)
    BY <1>3 DEF WpCleaned
  <2> QED
    BY <2>1, <1>3, <1>a DEF WpCleaned, Inner
<1>4. CASE InitCount(s)
  <2>1. \E to : pc' = [pc EXCEPT ![s] = to] /\ Walk(pc[s], to)
    BY <1>4 DEF InitCount
  <2>2. pos' = [pos EXCEPT ![s] = 0] /\ len' = [len EXCEPT ![s] = u_addresscnt]
    BY <1>4 DEF InitCount
  <2>3. /\ pos' \in [Processes -> Int] /\ len' \in [Processes -> 0..NAddress]
        /\ \A p \in Processes \ {s} : pos'[p] = pos[p] /\ len'[p] = len[p]
    BY <2>2, <1>a
  <2> QED
    BY <2>1, <2>3, <1>4 DEF InitCount, Inner
<1>5. CASE InitAddr(s)
  <2>1. \E to : pc' = [pc EXCEPT ![s] = to] /\ Walk(pc[s], to)
    BY <1>5 DEF InitAddr
  <2> QED
    BY <2>1, <1>5, <1>a DEF InitAddr, Inner
<1>6. CASE InitState(s)
  <2>1. \E to : pc' = [pc EXCEPT ![s] = to] /\ Walk(pc[s], to)
    BY <1>6 DEF InitState
  <2>2. pos' = [pos EXCEPT ![s] = @ + 1] /\ len' = len
    BY <1>6 DEF InitState
  <2>3. /\ pos' \in [Processes -> Int] /\ len' \in [Processes -> 0..NAddress]
        /\ \A p \in Processes \ {s} : pos'[p] = pos[p] /\ len'[p] = len[p]
    BY <2>2, <1>a
  <2> QED
    BY <2>1, <2>3, <1>6 DEF InitState, Inner
<1>7. CASE InitTrap(s)
  <2>1. \E to : pc' = [pc EXCEPT ![s] = to] /\ Walk(pc[s], to)
    BY <1>7 DEF InitTrap
  <2> QED
    BY <2>1, <1>7, <1>a DEF InitTrap, Inner
<1>8. CASE InitFlag(s)
  <2>1. Loop \in Loops
    BY DEF Loop, Loops
  <2>2. \E to : pc' = [pc EXCEPT ![s] = to] /\ Walk(pc[s], to)
    BY <2>1, <1>8 DEF InitFlag, LoopPhases
  <2>3. pos' \in [Processes -> Int] /\ \A p \in Processes \ {s} : pos'[p] = pos[p]
    BY <1>8, <1>a DEF InitFlag
  <2> QED
    BY <2>2, <2>3, <1>8, <1>a DEF InitFlag, Inner
<1>9. CASE PlantTest(s)
  <2>1. \E to : pc' = [pc EXCEPT ![s] = to] /\ Walk(pc[s], to)
    BY <1>9, Tested DEF LoopPhases
  <2> QED
    BY <2>1, <1>9, <1>a DEF PlantTest, Inner
<1>10. CASE PlantRefused(s)
  <2>1. pc[s] \in LoopPhases /\ pc' = pc
    BY <1>10 DEF PlantRefused, More, LoopPhases, Loops
  <2>2. \E to : pc' = [pc EXCEPT ![s] = to] /\ Walk(pc[s], to)
    BY <2>1 DEF PhaseOK
  <2>3. pos' \in [Processes -> Int] /\ \A p \in Processes \ {s} : pos'[p] = pos[p]
    BY <1>10, Advanced DEF PlantRefused
  <2> QED
    BY <2>2, <2>3, <1>10, <1>a DEF PlantRefused, Inner
<1>11. ASSUME NEW loop \in Loops, PlantNext(s, loop) PROVE Inner(s)
  <2>1. \E to : pc' = [pc EXCEPT ![s] = to] /\ Walk(pc[s], to)
    BY <1>11, Planted DEF LoopPhases
  <2>3. pos' \in [Processes -> Int] /\ \A p \in Processes \ {s} : pos'[p] = pos[p]
    BY <1>11, Advanced DEF PlantNext
  <2> QED
    BY <2>1, <2>3, <1>11, <1>a DEF PlantNext, Inner
<1>12. CASE ResetParam(s)
  <2>1. \E to : pc' = [pc EXCEPT ![s] = to] /\ Walk(pc[s], to)
    BY <1>12 DEF ResetParam, LoopPhases
  <2> QED
    BY <2>1, <1>12, <1>a DEF ResetParam, Inner
<1> QED
  BY <1>1, <1>2, <1>3, <1>4, <1>5, <1>6, <1>7, <1>8, <1>9, <1>10, <1>11, <1>12 DEF Within

\* The threads see nothing of the calls.
LEMMA ThreadsOnly ==
  ASSUME Trap \/ EndWatch \/ Thread
  PROVE  UNCHANGED <<outside, bp_addr, bp_count, bp_stopping>>
  BY DEF Trap, EndWatch, Thread, IncTrapped, AddLocked, DecTrapped, Add, table

\* Each step leaves the files in shape.
LEMMA FilesNext ==
  FilesOK /\ EngineOK /\ PhaseOK /\ CallOK /\ Positions /\ [Next]_vars
    => FilesOK'
<1> SUFFICES ASSUME FilesOK, EngineOK, PhaseOK, CallOK, Positions, [Next]_vars PROVE FilesOK'
  OBVIOUS
<1> USE DEF files, engine, shell, private, still, FilesOK
<1>1. ASSUME NEW s \in Shells, NEW l \in Lists, Load(s, l) PROVE FilesOK'
  BY <1>1, ListsAssumption DEF Load, Begin, Goto
<1>2. ASSUME NEW s \in Shells, NEW x \in Params, Param(s, x) PROVE FilesOK'
  BY <1>2, ListsAssumption DEF Param
<1>3. ASSUME NEW s \in Shells, NEW c \in {"start", "stop"}, Control(s, c) PROVE FilesOK'
  BY <1>3, ListsAssumption DEF Control, Begin, Goto, Word
<1>4. ASSUME NEW s \in Shells, Monitor(s) PROVE FilesOK'
  BY <1>4, ListsAssumption DEF Monitor, Begin, Goto
<1>5. ASSUME NEW s \in Shells, Crash(s) PROVE FilesOK'
  BY <1>5, ListsAssumption DEF Crash
<1>6. ASSUME NEW s \in Shells, WriteAddress(s) PROVE FilesOK'
  <2>1. pos[s] \in 0..(Len(list[s]) - 1)
    <3>1. pos[s] \in 0..Len(list[s]) /\ pos[s] < Len(list[s])
      BY <1>6 DEF WriteAddress, Positions
    <3> QED
      BY <3>1, <1>6, ListLength
  <2>2. pos[s] \in 0..(NAddress - 1) /\ list[s][pos[s] + 1] \in Addr
    <3>1. list[s] \in Seq(Addr) /\ Len(list[s]) \in 0..NAddress
      BY <1>6, ListLength
    <3> QED
      BY <3>1, <2>1, ListsAssumption
  <2> QED
    BY <2>2, <1>6 DEF WriteAddress, Indices
<1>7. ASSUME NEW s \in Shells, WriteCount(s) PROVE FilesOK'
  BY <1>7, ListLength DEF WriteCount
<1>8. ASSUME NEW s \in Shells, Terminate(s) PROVE FilesOK'
  BY <1>8, ListsAssumption DEF Terminate, Goto
<1>9. ASSUME NEW s \in Shells, Sanitize(s) PROVE FilesOK'
  BY <1>9 DEF Sanitize
<1>10. ASSUME NEW s \in Shells, StoreZero(s) PROVE FilesOK'
  BY <1>10 DEF StoreZero
<1>11. ASSUME NEW s \in Shells, IsStart(s) PROVE FilesOK'
  BY <1>11, ListsAssumption DEF IsStart, Goto
<1>12. ASSUME NEW s \in Shells, IsStop(s) PROVE FilesOK'
  BY <1>12, ListsAssumption DEF IsStop, Return, GotoOrReturn, Goto
<1>13. ASSUME NEW s \in Shells, Status(s) PROVE FilesOK'
  BY <1>13, ListsAssumption DEF Status, Return, GotoOrReturn, Goto
<1>14. ASSUME NEW s \in Processes, TestRunning(s) PROVE FilesOK'
  BY <1>14, ListsAssumption DEF TestRunning, GotoOrReturn, Goto, AfterStop
<1>15. ASSUME NEW s \in Processes, Within(s) PROVE FilesOK'
  <2>1. Inner(s)
    BY <1>15, InnerStep
  <2>2. i_param' \in Int
    BY <2>1 DEF Inner
  <2> QED
    BY <2>1, <2>2 DEF Inner
<1>16. ASSUME NEW s \in Processes, StopDone(s) PROVE FilesOK'
  BY <1>16 DEF StopDone
<1>17. ASSUME NEW s \in Processes, Started(s) PROVE FilesOK'
  BY <1>17 DEF Started
<1>18. CASE Exit
  BY <1>18, ListsAssumption DEF Exit, Begin, Goto
<1>19. CASE Unload
  BY <1>19, ListsAssumption DEF Unload, Goto
<1>20. CASE Trap \/ EndWatch \/ Thread
  BY <1>20, ThreadsOnly DEF outside
<1>21. CASE UNCHANGED vars
  BY <1>21, ListsAssumption DEF vars
<1> HIDE DEF files, engine, shell, private, still, FilesOK
<1> QED
  BY <1>1, <1>2, <1>3, <1>4, <1>5, <1>6, <1>7, <1>8, <1>9, <1>10, <1>11, <1>12, <1>13, <1>14,
     <1>15, <1>16, <1>17, <1>18, <1>19, <1>20, <1>21 DEF Next, Serve, Body, WpClean, Within

\* Each step within a call leaves the engine in shape.
LEMMA EngineWithin ==
  ASSUME FilesOK, EngineOK, PhaseOK, CallOK, Positions, NEW s \in Processes, Within(s)
  PROVE  EngineOK'
<1>a. Active \subseteq Indices
  BY ListsAssumption DEF Active, Indices, EngineOK
<1>b. UNCHANGED <<loaded, threads>>
  BY InnerStep DEF Inner
<1> USE DEF engine, table, threads, EngineOK, ThreadsOK
<1>1. CASE Clean(s)
  BY <1>1, <1>b DEF Clean
<1>2. CASE Drain(s)
  BY <1>2, <1>b DEF Drain
<1>3. CASE WpCleaned(s)
  BY <1>3, <1>b DEF WpCleaned
<1>4. CASE InitCount(s)
  BY <1>4, <1>b DEF InitCount, FilesOK
<1>5. CASE InitAddr(s)
  <2>1. pos[s] \in Indices
    <3>1. pos[s] \in 0..len[s] /\ pos[s] < len[s] /\ len[s] \in 0..NAddress
      BY <1>5 DEF InitAddr, Goto, Positions, CallOK
    <3> QED
      BY <3>1, ListsAssumption DEF Indices
  <2>2. address[pos[s]] \in Addr \cup {NoAddr}
    BY <2>1 DEF FilesOK
  <2>3. bp_addr' \in [Indices -> Addr \cup {NoAddr}]
    BY <2>2, <1>5 DEF InitAddr
  <2> QED
    BY <2>3, <1>5, <1>b DEF InitAddr
<1>6. CASE InitState(s)
  BY <1>6, <1>b DEF InitState
<1>7. CASE InitTrap(s)
  BY <1>7, <1>b DEF InitTrap
<1>8. CASE InitFlag(s)
  BY <1>8, <1>b DEF InitFlag
<1>9. CASE PlantTest(s)
  BY <1>9, <1>b DEF PlantTest
<1>10. CASE PlantRefused(s)
  BY <1>10, <1>b DEF PlantRefused
<1>11. ASSUME NEW loop \in Loops, PlantNext(s, loop) PROVE EngineOK'
  <2>1. /\ used' \subseteq used \cup Active /\ latePlant' \in BOOLEAN
        /\ UNCHANGED <<bp_addr, bp_count>>
    BY <1>11, AddOne DEF PlantNext
  <2> QED
    BY <2>1, <1>11, <1>a, <1>b DEF PlantNext
<1>12. CASE ResetParam(s)
  BY <1>12, <1>b DEF ResetParam
<1> QED
  BY <1>1, <1>2, <1>3, <1>4, <1>5, <1>6, <1>7, <1>8, <1>9, <1>10, <1>11, <1>12 DEF Within

\* Each step leaves the engine in shape.
LEMMA EngineNext ==
  FilesOK /\ EngineOK /\ PhaseOK /\ CallOK /\ Positions /\ [Next]_vars
    => EngineOK'
<1> SUFFICES ASSUME FilesOK, EngineOK, PhaseOK, CallOK, Positions, [Next]_vars PROVE EngineOK'
  OBVIOUS
<1> USE DEF files, engine, table, threads, shell, private, still, EngineOK, ThreadsOK
<1>1. ASSUME NEW s \in Shells, NEW l \in Lists, Load(s, l) PROVE EngineOK'
  BY <1>1, ListsAssumption DEF Load, Begin, Goto
<1>2. ASSUME NEW s \in Shells, NEW x \in Params, Param(s, x) PROVE EngineOK'
  BY <1>2, ListsAssumption DEF Param
<1>3. ASSUME NEW s \in Shells, NEW c \in {"start", "stop"}, Control(s, c) PROVE EngineOK'
  BY <1>3, ListsAssumption DEF Control, Begin, Goto
<1>4. ASSUME NEW s \in Shells, Monitor(s) PROVE EngineOK'
  BY <1>4, ListsAssumption DEF Monitor, Begin, Goto
<1>5. ASSUME NEW s \in Shells, Crash(s) PROVE EngineOK'
  BY <1>5, ListsAssumption DEF Crash
<1>6. ASSUME NEW s \in Shells, WriteAddress(s) PROVE EngineOK'
  BY <1>6, ListsAssumption DEF WriteAddress
<1>7. ASSUME NEW s \in Shells, WriteCount(s) PROVE EngineOK'
  BY <1>7, ListsAssumption DEF WriteCount, Return, GotoOrReturn, Goto
<1>8. ASSUME NEW s \in Shells, Terminate(s) PROVE EngineOK'
  BY <1>8, ListsAssumption DEF Terminate, Goto
<1>9. ASSUME NEW s \in Shells, Sanitize(s) PROVE EngineOK'
  BY <1>9 DEF Sanitize
<1>10. ASSUME NEW s \in Shells, StoreZero(s) PROVE EngineOK'
  BY <1>10 DEF StoreZero
<1>11. ASSUME NEW s \in Shells, IsStart(s) PROVE EngineOK'
  BY <1>11, ListsAssumption DEF IsStart, Goto
<1>12. ASSUME NEW s \in Shells, IsStop(s) PROVE EngineOK'
  BY <1>12, ListsAssumption DEF IsStop, Return, GotoOrReturn, Goto
<1>13. ASSUME NEW s \in Shells, Status(s) PROVE EngineOK'
  BY <1>13, ListsAssumption DEF Status, Return, GotoOrReturn, Goto
<1>14. ASSUME NEW s \in Processes, TestRunning(s) PROVE EngineOK'
  BY <1>14, ListsAssumption DEF TestRunning, GotoOrReturn, Goto, AfterStop
<1>15. ASSUME NEW s \in Processes, Within(s) PROVE EngineOK'
  BY <1>15, EngineWithin
<1>16. ASSUME NEW s \in Processes, StopDone(s) PROVE EngineOK'
  BY <1>16 DEF StopDone
<1>17. ASSUME NEW s \in Processes, Started(s) PROVE EngineOK'
  BY <1>17 DEF Started
<1>18. CASE Exit
  BY <1>18, ListsAssumption DEF Exit, Begin, Goto
<1>19. CASE Unload
  BY <1>19, ListsAssumption DEF Unload, Goto
<1>20. CASE Trap \/ EndWatch \/ Thread
  <2>a. UNCHANGED <<loaded, bp_addr, bp_count, bp_stopping>>
    BY <1>20, ThreadsOnly DEF outside
  <2>b. Active \subseteq Indices
    BY ListsAssumption DEF Active, Indices
  <2>1. CASE Trap
    BY <2>1, <2>a DEF Trap
  <2>2. CASE IncTrapped
    BY <2>2, <2>a DEF IncTrapped
  <2>3. CASE EndWatch
    BY <2>3, <2>a DEF EndWatch
  <2>4. CASE AddLocked
    <3>1. used' \subseteq used \cup Active /\ latePlant' \in BOOLEAN
      BY <2>4, AddOne DEF AddLocked
    <3>2. ThreadsOK'
      BY <2>4 DEF AddLocked
    <3> QED
      BY <3>1, <3>2, <2>a, <2>b, <2>4 DEF AddLocked
  <2>5. CASE DecTrapped
    BY <2>5, <2>a DEF DecTrapped
  <2> QED
    BY <1>20, <2>1, <2>2, <2>3, <2>4, <2>5 DEF Thread
<1>21. CASE UNCHANGED vars
  BY <1>21, ListsAssumption DEF vars
<1> HIDE DEF files, engine, table, threads, shell, private, still, EngineOK, ThreadsOK
<1> QED
  BY <1>1, <1>2, <1>3, <1>4, <1>5, <1>6, <1>7, <1>8, <1>9, <1>10, <1>11, <1>12, <1>13, <1>14,
     <1>15, <1>16, <1>17, <1>18, <1>19, <1>20, <1>21 DEF Next, Serve, Body, WpClean, Within

\* Each step leaves the phases in shape.
LEMMA PhaseNext ==
  TypeOK /\ FilesOK /\ EngineOK /\ PhaseOK /\ CallOK /\
  Positions /\ [Next]_vars
    => PhaseOK'
<1> SUFFICES ASSUME TypeOK, FilesOK, EngineOK, PhaseOK, CallOK, Positions,
    [Next]_vars PROVE PhaseOK'
  OBVIOUS
<1>a. /\ pc \in [Processes -> Phases]
      /\ doing \in [Processes -> Activities \cup {"none"}]
  BY DEF TypeOK
<1> USE DEF shell, private, still, PhaseOK, Phases, Activities
<1>1. ASSUME NEW s \in Shells, NEW l \in Lists, Load(s, l) PROVE PhaseOK'
  BY <1>1, <1>a DEF Load, Begin, Goto, Processes
<1>2. ASSUME NEW s \in Shells, NEW x \in Params, Param(s, x) PROVE PhaseOK'
  BY <1>2, <1>a DEF Param
<1>3. ASSUME NEW s \in Shells, NEW c \in {"start", "stop"}, Control(s, c) PROVE PhaseOK'
  BY <1>3, <1>a DEF Control, Begin, Goto, Processes
<1>4. ASSUME NEW s \in Shells, Monitor(s) PROVE PhaseOK'
  BY <1>4, <1>a DEF Monitor, Begin, Goto, Processes
<1>5. ASSUME NEW s \in Shells, Crash(s) PROVE PhaseOK'
  BY <1>5, <1>a DEF Crash
<1>6. ASSUME NEW s \in Shells, WriteAddress(s) PROVE PhaseOK'
  BY <1>6, <1>a DEF WriteAddress
<1>7. ASSUME NEW s \in Shells, WriteCount(s) PROVE PhaseOK'
  BY <1>7, <1>a DEF WriteCount, Return, GotoOrReturn, Goto
<1>8. ASSUME NEW s \in Shells, Terminate(s) PROVE PhaseOK'
  BY <1>8, <1>a DEF Terminate, Goto
<1>9. ASSUME NEW s \in Shells, Sanitize(s) PROVE PhaseOK'
  BY <1>9, <1>a DEF Sanitize, Goto
<1>10. ASSUME NEW s \in Shells, StoreZero(s) PROVE PhaseOK'
  BY <1>10, <1>a DEF StoreZero, Goto
<1>11. ASSUME NEW s \in Shells, IsStart(s) PROVE PhaseOK'
  BY <1>11, <1>a DEF IsStart, Goto
<1>12. ASSUME NEW s \in Shells, IsStop(s) PROVE PhaseOK'
  BY <1>12, <1>a DEF IsStop, Return, GotoOrReturn, Goto
<1>13. ASSUME NEW s \in Shells, Status(s) PROVE PhaseOK'
  BY <1>13, <1>a DEF Status, Return, GotoOrReturn, Goto
<1>14. ASSUME NEW s \in Processes, TestRunning(s) PROVE PhaseOK'
  BY <1>14, <1>a DEF TestRunning, GotoOrReturn, Goto, AfterStop
<1>15. ASSUME NEW s \in Processes, Within(s) PROVE PhaseOK'
  <2>1. Inner(s)
    BY <1>15, InnerStep
  <2>2. PICK to : pc' = [pc EXCEPT ![s] = to] /\ Walk(pc[s], to)
    BY <2>1 DEF Inner
  <2>3. to \in Phases
    BY <2>2 DEF Walk, StopPhases, InitPhases, LoopPhases, AddPhases
  <2> QED
    BY <2>1, <2>2, <2>3, <1>a DEF Inner
<1>16. ASSUME NEW s \in Processes, StopDone(s) PROVE PhaseOK'
  BY <1>16, <1>a DEF StopDone, GotoOrReturn, Goto, AfterStop
<1>17. ASSUME NEW s \in Processes, Started(s) PROVE PhaseOK'
  BY <1>17, <1>a DEF Started, Return, GotoOrReturn, Goto
<1>18. CASE Exit
  BY <1>18, <1>a DEF Exit, Begin, Goto, Processes
<1>19. CASE Unload
  BY <1>19, <1>a DEF Unload, Goto
<1>20. CASE Trap \/ EndWatch \/ Thread
  BY <1>20, <1>a, ThreadsOnly DEF outside
<1>21. CASE UNCHANGED vars
  BY <1>21, <1>a DEF vars
<1> HIDE DEF shell, private, still, PhaseOK, Phases, Activities
<1> QED
  BY <1>1, <1>2, <1>3, <1>4, <1>5, <1>6, <1>7, <1>8, <1>9, <1>10, <1>11, <1>12, <1>13, <1>14,
     <1>15, <1>16, <1>17, <1>18, <1>19, <1>20, <1>21 DEF Next, Serve, Body, WpClean, Within

\* Each step leaves what a process knows of its call in shape.
LEMMA CallNext ==
  TypeOK /\ FilesOK /\ EngineOK /\ PhaseOK /\ CallOK /\
  Positions /\ [Next]_vars
    => CallOK'
<1> SUFFICES ASSUME TypeOK, FilesOK, EngineOK, PhaseOK, CallOK, Positions,
    [Next]_vars PROVE CallOK'
  OBVIOUS
<1> USE DEF shell, private, still, CallOK, Reading, MeetsStart
<1>1. ASSUME NEW s \in Shells, NEW l \in Lists, Load(s, l) PROVE CallOK'
  <2>1. commands' \in 0..MaxCommands /\ met' \in [Processes -> SUBSET {"load", "word"}]
    BY <1>1, Begun DEF Load, Processes
  <2> QED
    <3>1. /\ pos' = [pos EXCEPT ![s] = 0] /\ len' = len
          /\ oneList' = FALSE /\ startMet' = startMet
      BY <1>1 DEF Load
    <3>2. pos' \in [Processes -> Int]
      BY <3>1, <1>1 DEF Processes
    <3>4. len' \in [Processes -> 0..NAddress]
      BY <3>1
    <3>3. oneList' \in BOOLEAN /\ startMet' \in BOOLEAN
      BY <3>1
    <3> QED
      BY <2>1, <3>2, <3>3, <3>4
<1>2. ASSUME NEW s \in Shells, NEW x \in Params, Param(s, x) PROVE CallOK'
  <2>1. commands' \in 0..MaxCommands
    BY <1>2, ListsAssumption DEF Param
  <2> QED
    BY <2>1, <1>2 DEF Param
<1>3. ASSUME NEW s \in Shells, NEW c \in {"start", "stop"}, Control(s, c) PROVE CallOK'
  BY <1>3, Begun, ListsAssumption DEF Control, Processes
<1>4. ASSUME NEW s \in Shells, Monitor(s) PROVE CallOK'
  <2>1. commands' \in 0..MaxCommands /\ met' \in [Processes -> SUBSET {"load", "word"}]
    BY <1>4, Begun DEF Monitor, Processes
  <2>2. \A n \in InUse : BpMonitor + Wp(n) \in Int
    BY TableParts, ListsAssumption DEF BpMonitor, Wp, Title, UNUSED, USING
  <2> QED
    BY <2>1, <2>2, <1>4 DEF Monitor, EngineOK, Processes
<1>5. ASSUME NEW s \in Shells, Crash(s) PROVE CallOK'
  BY <1>5 DEF Crash
<1>6. ASSUME NEW s \in Shells, WriteAddress(s) PROVE CallOK'
  BY <1>6 DEF WriteAddress, Processes
<1>7. ASSUME NEW s \in Shells, WriteCount(s) PROVE CallOK'
  BY <1>7, GoesOn DEF WriteCount, Return, Processes
<1>8. ASSUME NEW s \in Shells, Terminate(s) PROVE CallOK'
  BY <1>8, ListsAssumption DEF Terminate, Goto
<1>9. ASSUME NEW s \in Shells, Sanitize(s) PROVE CallOK'
  BY <1>9 DEF Sanitize
<1>10. ASSUME NEW s \in Shells, StoreZero(s) PROVE CallOK'
  BY <1>10 DEF StoreZero
<1>11. ASSUME NEW s \in Shells, IsStart(s) PROVE CallOK'
  BY <1>11, ListsAssumption DEF IsStart, Goto
<1>12. ASSUME NEW s \in Shells, IsStop(s) PROVE CallOK'
  BY <1>12, GoesOn DEF IsStop, Return, Processes
<1>13. ASSUME NEW s \in Shells, Status(s) PROVE CallOK'
  BY <1>13, GoesOn DEF Status, Return, Processes
<1>14. ASSUME NEW s \in Processes, TestRunning(s) PROVE CallOK'
  BY <1>14, GoesOn DEF TestRunning, Return, Processes
<1>15. ASSUME NEW s \in Processes, Within(s) PROVE CallOK'
  <2>1. Inner(s)
    BY <1>15, InnerStep
  <2> QED
    BY <2>1 DEF Inner
<1>16. ASSUME NEW s \in Processes, StopDone(s) PROVE CallOK'
  BY <1>16, GoesOn DEF StopDone
<1>17. ASSUME NEW s \in Processes, Started(s) PROVE CallOK'
  BY <1>17, GoesOn DEF Started, Return, Processes
<1>18. CASE Exit
  BY <1>18, Begun, ListsAssumption DEF Exit, Processes
<1>19. CASE Unload
  BY <1>19, ListsAssumption DEF Unload, Goto
<1>20. CASE Trap \/ EndWatch \/ Thread
  BY <1>20, ThreadsOnly DEF outside
<1>21. CASE UNCHANGED vars
  BY <1>21, ListsAssumption DEF vars
<1> HIDE DEF shell, private, still, CallOK, Reading, MeetsStart
<1> QED
  BY <1>1, <1>2, <1>3, <1>4, <1>5, <1>6, <1>7, <1>8, <1>9, <1>10, <1>11, <1>12, <1>13, <1>14,
     <1>15, <1>16, <1>17, <1>18, <1>19, <1>20, <1>21 DEF Next, Serve, Body, WpClean, Within

-----------------------------------------------------------------------------
(* Where the processes are, and who is alone *)

\* Each step leaves every process in a phase of its command.
LEMMA PlacesNext ==
  TypeOK /\ Places /\ [Next]_vars
    => Places'
<1> SUFFICES ASSUME TypeOK, Places, [Next]_vars PROVE Places'
  OBVIOUS
<1>a. /\ pc \in [Processes -> Phases]
      /\ doing \in [Processes -> Activities \cup {"none"}]
  BY DEF TypeOK
<1> USE DEF shell, private, still, Places, InitPhases, LoopPhases, AddPhases, Loops,
    StopPhases, Inside, Reading, Processes, Rmmod
<1>1. ASSUME NEW s \in Shells, NEW l \in Lists, Load(s, l) PROVE Places'
  <2>1. /\ loaded /\ pc[s] = "idle" /\ pc[Rmmod] = "idle"
        /\ pc' = [pc EXCEPT ![s] = "copy"] /\ doing' = [doing EXCEPT ![s] = "load"]
    BY <1>1, Begun DEF Load
  <2> QED
    BY <2>1, <1>a, <1>1, ListsAssumption DEF Load
<1>2. ASSUME NEW s \in Shells, NEW x \in Params, Param(s, x) PROVE Places'
  BY <1>2, <1>a, ListsAssumption DEF Param
<1>3. ASSUME NEW s \in Shells, NEW c \in {"start", "stop"}, Control(s, c) PROVE Places'
  BY <1>3, <1>a, ListsAssumption, Begun DEF Control
<1>4. ASSUME NEW s \in Shells, Monitor(s) PROVE Places'
  BY <1>4, <1>a, ListsAssumption, Begun DEF Monitor
<1>5. ASSUME NEW s \in Shells, Crash(s) PROVE Places'
  BY <1>5, <1>a, ListsAssumption DEF Crash
<1>6. ASSUME NEW s \in Shells, WriteAddress(s) PROVE Places'
  BY <1>6, <1>a, ListsAssumption DEF WriteAddress
<1>7. ASSUME NEW s \in Shells, WriteCount(s) PROVE Places'
  BY <1>7, <1>a, ListsAssumption DEF WriteCount, Return, GotoOrReturn, Goto
<1>8. ASSUME NEW s \in Shells, Terminate(s) PROVE Places'
  BY <1>8, <1>a, ListsAssumption DEF Terminate, Goto
<1>9. ASSUME NEW s \in Shells, Sanitize(s) PROVE Places'
  BY <1>9, <1>a, ListsAssumption DEF Sanitize, Goto
<1>10. ASSUME NEW s \in Shells, StoreZero(s) PROVE Places'
  BY <1>10, <1>a, ListsAssumption DEF StoreZero, Goto
<1>11. ASSUME NEW s \in Shells, IsStart(s) PROVE Places'
  BY <1>11, <1>a, ListsAssumption DEF IsStart, Goto
<1>12. ASSUME NEW s \in Shells, IsStop(s) PROVE Places'
  BY <1>12, <1>a, ListsAssumption DEF IsStop, Return, GotoOrReturn, Goto
<1>13. ASSUME NEW s \in Shells, Status(s) PROVE Places'
  BY <1>13, <1>a, ListsAssumption DEF Status, Return, GotoOrReturn, Goto
<1>14. ASSUME NEW s \in Processes, TestRunning(s) PROVE Places'
  BY <1>14, <1>a, ListsAssumption DEF TestRunning, GotoOrReturn, Goto, AfterStop
<1>15. ASSUME NEW s \in Processes, Within(s) PROVE Places'
  <2>1. Inner(s)
    BY <1>15, InnerStep, TypeParts
  <2>2. PICK to : pc' = [pc EXCEPT ![s] = to] /\ Walk(pc[s], to)
    BY <2>1 DEF Inner
  <2>3. UNCHANGED <<doing, loaded>>
    BY <2>1 DEF Inner
  <2> QED
    BY <2>2, <2>3, <1>15, <1>a, ListsAssumption DEF Walk
<1>16. ASSUME NEW s \in Processes, StopDone(s) PROVE Places'
  BY <1>16, <1>a, ListsAssumption DEF StopDone, GotoOrReturn, Goto, AfterStop
<1>17. ASSUME NEW s \in Processes, Started(s) PROVE Places'
  BY <1>17, <1>a, ListsAssumption DEF Started, Return, GotoOrReturn, Goto
<1>18. CASE Exit
  BY <1>18, <1>a, ListsAssumption DEF Exit, Begin, Goto
<1>19. CASE Unload
  BY <1>19, <1>a, ListsAssumption DEF Unload, Goto
<1>20. CASE Trap \/ EndWatch \/ Thread
  BY <1>20, <1>a, ThreadsOnly DEF outside
<1>21. CASE UNCHANGED vars
  BY <1>21, <1>a, ListsAssumption DEF vars
<1> HIDE DEF shell, private, still, Places, InitPhases, LoopPhases, AddPhases, Loops,
    StopPhases, Inside, Reading, Processes, Rmmod
<1> QED
  BY <1>1, <1>2, <1>3, <1>4, <1>5, <1>6, <1>7, <1>8, <1>9, <1>10, <1>11, <1>12, <1>13, <1>14,
     <1>15, <1>16, <1>17, <1>18, <1>19, <1>20, <1>21 DEF Next, Serve, Body, WpClean, Within

\* Where a step within a call leads.
LEMMA InnerPhases ==
  ASSUME PhaseOK, NEW s \in Processes, Inner(s)
  PROVE  /\ {pc[s], pc'[s]} \subseteq StopPhases \cup InitPhases \cup LoopPhases
         /\ \A p \in Processes \ {s} : pc'[p] = pc[p] /\ pos'[p] = pos[p] /\ len'[p] = len[p]
<1>1. PICK to : pc' = [pc EXCEPT ![s] = to] /\ Walk(pc[s], to)
  BY DEF Inner
<1>2. pc'[s] = to /\ \A p \in Processes \ {s} : pc'[p] = pc[p]
  BY <1>1 DEF PhaseOK
<1>3. {pc[s], to} \subseteq StopPhases \cup InitPhases \cup LoopPhases
  BY <1>1 DEF Walk
<1> QED
  BY <1>2, <1>3 DEF Inner

\* Most of them are not those of bp_init.
Elsewhere(s) ==
  \/ Clean(s) \/ Drain(s) \/ WpCleaned(s) \/ InitFlag(s) \/ PlantTest(s) \/ PlantRefused(s)
  \/ (\E loop \in Loops : PlantNext(s, loop)) \/ ResetParam(s)
LEMMA NotCopying ==
  ASSUME PhaseOK, NEW s \in Processes, Elsewhere(s)
  PROVE  pc'[s] \notin Copying
<1> USE DEF Copying, PhaseOK
<1>1. CASE Clean(s) \/ Drain(s) \/ WpCleaned(s) \/ ResetParam(s)
  BY <1>1 DEF Clean, Drain, WpCleaned, ResetParam, Goto
<1>2. CASE InitFlag(s)
  BY <1>2 DEF InitFlag, Goto, Loop
<1>3. CASE PlantTest(s)
  BY <1>3, Tested DEF AddPhases
<1>4. CASE PlantRefused(s)
  BY <1>4 DEF PlantRefused, More
<1>5. ASSUME NEW loop \in Loops, PlantNext(s, loop) PROVE pc'[s] \notin Copying
  BY <1>5, Planted DEF Loops
<1> QED
  BY <1>1, <1>2, <1>3, <1>4, <1>5 DEF Elsewhere

\* bp_init keeps to the length it was given.
LEMMA PositionsWithin ==
  ASSUME FilesOK, PhaseOK, CallOK, Positions, NEW s \in Processes, Within(s)
  PROVE  Positions'
<1>1. Inner(s) /\ list' = list
  BY InnerStep DEF Inner, still
<1>2. /\ pc'[s] \notin {"copy", "read"}
      /\ \A p \in Processes \ {s} : pc'[p] = pc[p] /\ pos'[p] = pos[p] /\ len'[p] = len[p]
  BY <1>1, InnerPhases DEF StopPhases, InitPhases, LoopPhases, AddPhases, Loops
<1>3. /\ pc'[s] \in {"initAddr", "initState"} => pos'[s] \in 0..len'[s]
      /\ pc'[s] = "initState" => pos'[s] < len'[s]
  <2> USE DEF Goto, PhaseOK, CallOK
  <2>1. CASE InitCount(s)
    BY <2>1 DEF InitCount, FilesOK
  <2>2. CASE InitAddr(s)
    BY <2>2 DEF InitAddr, Positions
  <2>3. CASE InitState(s)
    <3>1. pos[s] \in 0..len[s] /\ pos[s] < len[s] /\ len[s] \in Nat
      BY <2>3 DEF InitState, Positions
    <3>2. pos'[s] = pos[s] + 1 /\ len'[s] = len[s] /\ pc'[s] = "initAddr"
      BY <2>3 DEF InitState
    <3> QED
      BY <3>1, <3>2
  <2>4. CASE InitTrap(s)
    BY <2>4 DEF InitTrap
  <2>5. CASE Elsewhere(s)
    BY <2>5, NotCopying DEF Copying
  <2> QED
    BY <2>1, <2>2, <2>3, <2>4, <2>5 DEF Within, Elsewhere
<1> QED
  BY <1>1, <1>2, <1>3 DEF Positions, Processes

\* Each step keeps the positions within the lists.
LEMMA PositionsNext ==
  TypeOK /\ FilesOK /\ EngineOK /\ PhaseOK /\ CallOK /\
  Positions /\ Places /\ [Next]_vars
    => Positions'
<1> SUFFICES ASSUME TypeOK, FilesOK, EngineOK, PhaseOK, CallOK, Positions, Places,
    [Next]_vars PROVE Positions'
  OBVIOUS
<1> USE DEF shell, private, still, Positions
<1>1. ASSUME NEW s \in Shells, NEW l \in Lists, Load(s, l) PROVE Positions'
  <2>1. pc' = [pc EXCEPT ![s] = "copy"]
    BY <1>1, Begun DEF Load, Processes
  <2>2. list' = [list EXCEPT ![s] = l] /\ pos' = [pos EXCEPT ![s] = 0] /\ len' = len
    BY <1>1 DEF Load
  <2>3. Len(l) \in Nat
    BY ListsAssumption
  <2> QED
    BY <2>1, <2>2, <2>3 DEF PhaseOK, CallOK, Processes
<1>2. ASSUME NEW s \in Shells, NEW x \in Params, Param(s, x) PROVE Positions'
  BY <1>2, ListsAssumption DEF Param, PhaseOK, CallOK, Processes
<1>3. ASSUME NEW s \in Shells, NEW c \in {"start", "stop"}, Control(s, c) PROVE Positions'
  <2>1. pc' = [pc EXCEPT ![s] = "terminate"]
    BY <1>3, Begun DEF Control, Processes
  <2> QED
    BY <2>1, <1>3 DEF Control, PhaseOK, CallOK, Processes
<1>4. ASSUME NEW s \in Shells, Monitor(s) PROVE Positions'
  <2>1. pc' = [pc EXCEPT ![s] = "read"]
    BY <1>4, Begun DEF Monitor, Processes
  <2>2. PICK n \in InUse : pos' = [pos EXCEPT ![s] = BpMonitor + Wp(n)]
    BY <1>4 DEF Monitor
  <2>3. len' = [len EXCEPT ![s] = bp_count] /\ list' = list
    BY <1>4 DEF Monitor
  <2>4. BpMonitor + Wp(n) <= Title + (UNUSED * bp_count) + Wp(4)
    <3> DEFINE f == Cardinality(Free)
               u == Cardinality(used \cap Active)
    <3>1. f \in Nat /\ u \in Nat /\ f + u = bp_count
      BY TableParts
    <3>2. BpMonitor = 19 + (48 * f) + (47 * u)
      BY DEF BpMonitor, Title, UNUSED, USING
    <3>3. BpMonitor <= 19 + (48 * bp_count)
      <4> HIDE DEF f, u
      <4> QED
        BY <3>1, <3>2
    <3>4. Wp(n) <= Wp(4) /\ Wp(n) \in Int /\ Wp(4) \in Int
      BY ListsAssumption DEF Wp, Title
    <3>5. BpMonitor \in Int /\ bp_count \in Int
      <4> HIDE DEF f, u
      <4> QED
        BY <3>1, <3>2
    <3> QED
      BY <3>3, <3>4, <3>5 DEF Title, UNUSED
  <2> QED
    BY <2>1, <2>2, <2>3, <2>4 DEF PhaseOK, CallOK, Processes
<1>5. ASSUME NEW s \in Shells, Crash(s) PROVE Positions'
  BY <1>5, ListsAssumption DEF Crash, PhaseOK, CallOK, Processes
<1>6. ASSUME NEW s \in Shells, WriteAddress(s) PROVE Positions'
  <2>1. pos[s] \in 0..Len(list[s]) /\ pos[s] < Len(list[s]) /\ Len(list[s]) \in Nat
    BY <1>6, ListLength DEF WriteAddress
  <2>2. pos[s] + 1 \in 0..Len(list[s])
    BY <2>1
  <2> QED
    BY <2>2, <1>6 DEF WriteAddress, PhaseOK, CallOK, Processes
<1>7. ASSUME NEW s \in Shells, WriteCount(s) PROVE Positions'
  <2>1. /\ pc'[s] \notin {"copy", "initAddr", "initState", "read"}
        /\ \A p \in Processes \ {s} : pc'[p] = pc[p]
    BY <1>7, GoesOnList, AfterStopPhase DEF WriteCount, Return, PhaseOK, Processes
  <2>2. list' \in [Shells -> Lists \cup {<<>>}] /\ \A p \in Shells \ {s} : list'[p] = list[p]
    BY <1>7, GoesOnList DEF WriteCount, Return, Processes
  <2>3. \A p \in Processes \ {s} : pos'[p] = pos[p] /\ len'[p] = len[p]
    BY <1>7, GoesOn DEF WriteCount, Return, Processes
  <2> QED
    BY <2>1, <2>2, <2>3 DEF Processes
<1>8. ASSUME NEW s \in Shells, Terminate(s) PROVE Positions'
  BY <1>8, ListsAssumption DEF Terminate, Goto, PhaseOK, CallOK, Processes
<1>9. ASSUME NEW s \in Shells, Sanitize(s) PROVE Positions'
  <2>1. \E to \in {"zero", "isStart"} : pc' = [pc EXCEPT ![s] = to]
    BY <1>9 DEF Sanitize, Goto
  <2> QED
    BY <2>1, <1>9 DEF Sanitize, PhaseOK, CallOK, Processes
<1>10. ASSUME NEW s \in Shells, StoreZero(s) PROVE Positions'
  BY <1>10 DEF StoreZero, Goto, PhaseOK, CallOK, Processes
<1>11. ASSUME NEW s \in Shells, IsStart(s) PROVE Positions'
  <2>1. \E x \in {"begin", "isStop"} : pc' = [pc EXCEPT ![s] = x]
    BY <1>11 DEF IsStart, Goto
  <2> QED
    BY <2>1, <1>11 DEF IsStart, PhaseOK, CallOK, Processes
<1>12. ASSUME NEW s \in Shells, IsStop(s) PROVE Positions'
  <2>1. CASE mybuf = Word("stop")
    BY <2>1, <1>12 DEF IsStop, Goto, PhaseOK, CallOK, Processes
  <2>2. CASE mybuf # Word("stop")
    <3> USE <2>2
    <3>1. pc'[s] \notin {"copy", "initAddr", "initState", "read"}
        /\ \A p \in Processes \ {s} : pc'[p] = pc[p]
      BY <1>12, GoesOnList, AfterStopPhase DEF IsStop, Return, PhaseOK, Processes
    <3>2. list' \in [Shells -> Lists \cup {<<>>}] /\ \A p \in Shells \ {s} : list'[p] = list[p]
      BY <1>12, GoesOnList DEF IsStop, Return, Processes
    <3>3. \A p \in Processes \ {s} : pos'[p] = pos[p] /\ len'[p] = len[p]
      BY <1>12, GoesOn DEF IsStop, Return, Processes
    <3> QED
      BY <3>1, <3>2, <3>3 DEF Processes
  <2> QED
    BY <2>1, <2>2
<1>13. ASSUME NEW s \in Shells, Status(s) PROVE Positions'
  <2>1. /\ pc'[s] \notin {"copy", "initAddr", "initState", "read"}
        /\ \A p \in Processes \ {s} : pc'[p] = pc[p]
    BY <1>13, GoesOnList, AfterStopPhase DEF Status, Return, PhaseOK, Processes
  <2>2. list' \in [Shells -> Lists \cup {<<>>}] /\ \A p \in Shells \ {s} : list'[p] = list[p]
    BY <1>13, GoesOnList DEF Status, Return, Processes
  <2>3. \A p \in Processes \ {s} : pos'[p] = pos[p] /\ len'[p] = len[p]
    BY <1>13, GoesOn DEF Status, Return, Processes
  <2> QED
    BY <2>1, <2>2, <2>3 DEF Processes
<1>14. ASSUME NEW s \in Processes, TestRunning(s) PROVE Positions'
  <2>1. /\ pc'[s] \notin {"copy", "initAddr", "initState", "read"}
        /\ \A p \in Processes \ {s} : pc'[p] = pc[p]
    BY <1>14, GoesOnList, AfterStopPhase DEF TestRunning, Return, PhaseOK, Processes
  <2>2. list' \in [Shells -> Lists \cup {<<>>}] /\ \A p \in Shells \ {s} : list'[p] = list[p]
    BY <1>14, GoesOnList DEF TestRunning, Return, Processes
  <2>3. \A p \in Processes \ {s} : pos'[p] = pos[p] /\ len'[p] = len[p]
    BY <1>14, GoesOn DEF TestRunning, Return, Processes
  <2> QED
    BY <2>1, <2>2, <2>3 DEF Processes
<1>15. ASSUME NEW s \in Processes, Within(s) PROVE Positions'
  BY <1>15, PositionsWithin
<1>16. ASSUME NEW s \in Processes, StopDone(s) PROVE Positions'
  <2>1. /\ pc'[s] \notin {"copy", "initAddr", "initState", "read"}
        /\ \A p \in Processes \ {s} : pc'[p] = pc[p]
    BY <1>16, GoesOnList, AfterStopPhase DEF StopDone, Return, PhaseOK, Processes
  <2>2. list' \in [Shells -> Lists \cup {<<>>}] /\ \A p \in Shells \ {s} : list'[p] = list[p]
    BY <1>16, GoesOnList DEF StopDone, Return, Processes
  <2>3. \A p \in Processes \ {s} : pos'[p] = pos[p] /\ len'[p] = len[p]
    BY <1>16, GoesOn DEF StopDone, Return, Processes
  <2> QED
    BY <2>1, <2>2, <2>3 DEF Processes
<1>17. ASSUME NEW s \in Processes, Started(s) PROVE Positions'
  <2>1. /\ pc'[s] \notin {"copy", "initAddr", "initState", "read"}
        /\ \A p \in Processes \ {s} : pc'[p] = pc[p]
    BY <1>17, GoesOnList, AfterStopPhase DEF Started, Return, PhaseOK, Processes
  <2>2. list' \in [Shells -> Lists \cup {<<>>}] /\ \A p \in Shells \ {s} : list'[p] = list[p]
    BY <1>17, GoesOnList DEF Started, Return, Processes
  <2>3. \A p \in Processes \ {s} : pos'[p] = pos[p] /\ len'[p] = len[p]
    BY <1>17, GoesOn DEF Started, Return, Processes
  <2> QED
    BY <2>1, <2>2, <2>3 DEF Processes
<1>18. CASE Exit
  <2>1. pc' = [pc EXCEPT ![Rmmod] = "begin"]
    BY <1>18, Begun DEF Exit, Processes
  <2> QED
    BY <2>1, <1>18 DEF Exit, PhaseOK, CallOK, Processes
<1>19. CASE Unload
  BY <1>19, ListsAssumption DEF Unload, Goto, PhaseOK, CallOK, Processes
<1>20. CASE Trap \/ EndWatch \/ Thread
  BY <1>20, ThreadsOnly DEF outside
<1>21. CASE UNCHANGED vars
  BY <1>21, ListsAssumption DEF vars
<1> HIDE DEF shell, private, still, Positions
<1> QED
  BY <1>1, <1>2, <1>3, <1>4, <1>5, <1>6, <1>7, <1>8, <1>9, <1>10, <1>11, <1>12, <1>13, <1>14,
     <1>15, <1>16, <1>17, <1>18, <1>19, <1>20, <1>21 DEF Next, Serve, Body, WpClean, Within

\* While startMet is FALSE, a start is alone.
LEMMA LonelyNext ==
  TypeOK /\ Places /\ (~startMet => Lonely) /\ [Next]_vars
    => (~startMet => Lonely)'
<1> SUFFICES ASSUME TypeOK, Places, (~startMet => Lonely),
    [Next]_vars PROVE (~startMet => Lonely)'
  OBVIOUS
<1>a. /\ pc \in [Processes -> Phases]
      /\ doing \in [Processes -> Activities \cup {"none"}]
  BY DEF TypeOK
<1> USE DEF shell, private, still, Lonely, MeetsStart, Starting, Working, Inside, Reading
<1>1. ASSUME NEW s \in Shells, NEW l \in Lists, Load(s, l) PROVE (~startMet => Lonely)'
  <2>1. /\ loaded /\ pc[s] = "idle" /\ pc[Rmmod] = "idle"
        /\ pc' = [pc EXCEPT ![s] = "copy"] /\ doing' = [doing EXCEPT ![s] = "load"]
    BY <1>1, Begun, <1>a DEF Load, Processes
  <2> QED
    BY <2>1, <1>a, ListsAssumption, <1>1 DEF Load, Processes
<1>2. ASSUME NEW s \in Shells, NEW x \in Params, Param(s, x) PROVE (~startMet => Lonely)'
  BY <1>2, <1>a, ListsAssumption DEF Param
<1>3. ASSUME NEW s \in Shells, NEW c \in {"start", "stop"}, Control(s,
    c) PROVE (~startMet => Lonely)'
  <2>1. /\ loaded /\ pc[s] = "idle" /\ pc[Rmmod] = "idle"
        /\ pc' = [pc EXCEPT ![s] = "terminate"] /\ doing' = [doing EXCEPT ![s] = c]
    BY <1>3, Begun, <1>a DEF Control, Processes
  <2> QED
    BY <2>1, <1>a, ListsAssumption, <1>3 DEF Control, Processes
<1>4. ASSUME NEW s \in Shells, Monitor(s) PROVE (~startMet => Lonely)'
  <2>1. /\ loaded /\ pc[s] = "idle" /\ pc[Rmmod] = "idle"
        /\ pc' = [pc EXCEPT ![s] = "read"] /\ doing' = [doing EXCEPT ![s] = "status"]
    BY <1>4, Begun, <1>a DEF Monitor, Processes
  <2> QED
    BY <2>1, <1>a, ListsAssumption, <1>4 DEF Monitor, Processes
<1>5. ASSUME NEW s \in Shells, Crash(s) PROVE (~startMet => Lonely)'
  BY <1>5, <1>a, ListsAssumption DEF Crash
<1>6. ASSUME NEW s \in Shells, WriteAddress(s) PROVE (~startMet => Lonely)'
  BY <1>6, <1>a, ListsAssumption DEF WriteAddress
<1>7. ASSUME NEW s \in Shells, WriteCount(s) PROVE (~startMet => Lonely)'
  BY <1>7, <1>a, ListsAssumption DEF WriteCount, Return, GotoOrReturn, Goto
<1>8. ASSUME NEW s \in Shells, Terminate(s) PROVE (~startMet => Lonely)'
  BY <1>8, <1>a, ListsAssumption DEF Terminate, Goto
<1>9. ASSUME NEW s \in Shells, Sanitize(s) PROVE (~startMet => Lonely)'
  <2>1. /\ pc[s] = "sanitize" /\ \E to \in {"zero", "isStart"} : pc' = [pc EXCEPT ![s] = to]
        /\ UNCHANGED <<doing, startMet>>
    BY <1>9 DEF Sanitize, Goto
  <2> QED
    BY <2>1, <1>9, <1>a DEF Processes
<1>10. ASSUME NEW s \in Shells, StoreZero(s) PROVE (~startMet => Lonely)'
  BY <1>10, <1>a DEF StoreZero, Goto
<1>11. ASSUME NEW s \in Shells, IsStart(s) PROVE (~startMet => Lonely)'
  BY <1>11, <1>a, ListsAssumption DEF IsStart, Goto
<1>12. ASSUME NEW s \in Shells, IsStop(s) PROVE (~startMet => Lonely)'
  BY <1>12, <1>a, ListsAssumption DEF IsStop, Return, GotoOrReturn, Goto
<1>13. ASSUME NEW s \in Shells, Status(s) PROVE (~startMet => Lonely)'
  BY <1>13, <1>a, ListsAssumption DEF Status, Return, GotoOrReturn, Goto
<1>14. ASSUME NEW s \in Processes, TestRunning(s) PROVE (~startMet => Lonely)'
  BY <1>14, <1>a, ListsAssumption DEF TestRunning, GotoOrReturn, Goto, AfterStop
<1>15. ASSUME NEW s \in Processes, Within(s) PROVE (~startMet => Lonely)'
  <2>1. Inner(s) /\ doing' = doing /\ startMet' = startMet
    BY <1>15, InnerStep, TypeParts DEF Inner
  <2>2. /\ {pc[s], pc'[s]} \subseteq StopPhases \cup InitPhases \cup LoopPhases
        /\ \A p \in Processes \ {s} : pc'[p] = pc[p]
    BY <2>1, InnerPhases, TypeParts
  <2>3. \A p \in Processes : Working(p)' <=> Working(p)
    BY <2>1, <2>2 DEF StopPhases, InitPhases, LoopPhases, AddPhases, Loops
  <2> QED
    BY <2>1, <2>3
<1>16. ASSUME NEW s \in Processes, StopDone(s) PROVE (~startMet => Lonely)'
  BY <1>16, <1>a, ListsAssumption DEF StopDone, GotoOrReturn, Goto, AfterStop
<1>17. ASSUME NEW s \in Processes, Started(s) PROVE (~startMet => Lonely)'
  BY <1>17, <1>a, ListsAssumption DEF Started, Return, GotoOrReturn, Goto
<1>18. CASE Exit
  <2>1. /\ loaded /\ pc[Rmmod] = "idle" /\ pc[Rmmod] = "idle"
        /\ pc' = [pc EXCEPT ![Rmmod] = "begin"] /\ doing' = [doing EXCEPT ![Rmmod] = "exit"]
    BY <1>18, Begun, <1>a DEF Exit, Processes
  <2> QED
    BY <2>1, <1>a, ListsAssumption, <1>18 DEF Exit, Processes
<1>19. CASE Unload
  BY <1>19, <1>a, ListsAssumption DEF Unload, Goto, Places, Processes, Rmmod
<1>20. CASE Trap \/ EndWatch \/ Thread
  BY <1>20, <1>a, ThreadsOnly DEF outside
<1>21. CASE UNCHANGED vars
  BY <1>21, <1>a, ListsAssumption DEF vars
<1> HIDE DEF shell, private, still, Lonely, MeetsStart, Starting, Working, Inside, Reading
<1> QED
  BY <1>1, <1>2, <1>3, <1>4, <1>5, <1>6, <1>7, <1>8, <1>9, <1>10, <1>11, <1>12, <1>13, <1>14,
     <1>15, <1>16, <1>17, <1>18, <1>19, <1>20, <1>21 DEF Next, Serve, Body, WpClean, Within

\* start runs its phases while nobody else is at work.
Apart == \A p, q \in Processes :
           pc[p] \in InitPhases \cup LoopPhases /\ pc[q] \in WorkPhases => p = q

\* It follows from the roles of the phases.
LEMMA LonelyApart == Places /\ Lonely => Apart
<1> SUFFICES ASSUME Places, Lonely, NEW p \in Processes, NEW q \in Processes,
                    pc[p] \in InitPhases \cup LoopPhases, pc[q] \in WorkPhases
             PROVE  p = q
  BY DEF Apart
<1>1. Starting(p)
  BY DEF Places, Starting, Working, Inside, Reading, InitPhases, LoopPhases, AddPhases,
     Loops, Processes, StopPhases
<1>2. Working(q)
  BY ListsAssumption DEF Places, Working, Inside, Reading, WorkPhases, InitPhases,
     LoopPhases, AddPhases, Loops, StopPhases, Processes, Rmmod
<1> QED
  BY <1>1, <1>2 DEF Lonely

\* Each step within a call keeps the engine at rest where it should be.
LEMMA RestWithin ==
  ASSUME EngineOK, FilesOK, PhaseOK, CallOK, Apart, AtRest, NEW s \in Processes, Within(s)
  PROVE  AtRest'
<1>a. PICK to : pc' = [pc EXCEPT ![s] = to] /\ Walk(pc[s], to)
  BY InnerStep DEF Inner
<1>b. UNCHANGED <<running, threads>>
  BY InnerStep DEF Inner
<1>c. pc'[s] = to /\ \A p \in Processes \ {s} : pc'[p] = pc[p]
  BY <1>a DEF PhaseOK
\* The phases of start are not left, and entered by InitFlag only.
<1>d. ASSUME pc[s] \in InitPhases \cup LoopPhases
      PROVE  \A p \in Processes \ {s} : pc'[p] \notin WorkPhases
  BY <1>c, <1>d DEF Apart
<1> USE DEF threads, table, engine, Empty, Active
<1>1. CASE Clean(s)
  <2>1. /\ pc[s] = "clean" /\ pc'[s] = "drain" /\ used' = used \ Active /\ bp_stopping'
        /\ UNCHANGED <<bp_count, latePlant, bp_trap_count>>
    BY <1>1 DEF Clean, Goto, PhaseOK
  <2>2. used' = {} \/ latePlant'
    BY <2>1 DEF AtRest
  <2>3. \A p \in Processes : pc'[p] # "drain" => pc'[p] = pc[p]
    BY <2>1, <1>c
  <2>4. (\A p \in Processes : pc'[p] \notin LoopPhases) =>
          \A p \in Processes : pc[p] \notin LoopPhases
    BY <2>1, <1>c DEF LoopPhases, AddPhases, Loops
  <2> QED
    BY <2>1, <2>2, <2>3, <2>4, <1>b DEF AtRest, InitPhases, LoopPhases, AddPhases, Loops
<1>2. CASE Drain(s)
  <2>1. /\ pc[s] = "drain" /\ pc'[s] = "wpCleanStop" /\ bp_trap_count = 0
        /\ UNCHANGED <<used, bp_stopping, bp_count, latePlant, bp_trap_count>>
    BY <1>2 DEF Drain, Goto, PhaseOK
  <2>2. Empty /\ bp_stopping /\ held = 0
    BY <2>1 DEF AtRest
  <2>3. (\A p \in Processes : pc'[p] \notin LoopPhases) =>
          \A p \in Processes : pc[p] \notin LoopPhases
    BY <2>1, <1>c DEF LoopPhases, AddPhases, Loops
  <2> QED
    BY <2>1, <2>2, <2>3, <1>b, <1>c DEF AtRest, InitPhases, LoopPhases, AddPhases, Loops
\* In bp_init the table is empty but for late plants, and nobody is counted.
<1>e. ASSUME pc[s] \in InitPhases
      PROVE  /\ ~running /\ Empty /\ held = 0 /\ (bp_stopping \/ (used = {} /\ removed = 0))
  <2>1. ~running
    BY <1>e DEF AtRest
  <2>2. \A p \in Processes : pc[p] \notin LoopPhases
    BY <1>e DEF Apart, WorkPhases, InitPhases, LoopPhases, AddPhases, Loops
  <2> QED
    BY <2>1, <2>2 DEF AtRest
\* What is left to show there.
<1>f. ASSUME pc[s] \in InitPhases, used' \subseteq used, latePlant' = latePlant,
             bp_trap_count' \in {0, bp_trap_count},
             bp_stopping' = bp_stopping \/ pc'[s] \in LoopPhases
      PROVE  AtRest'
  <2>1. /\ ~running' /\ Empty' /\ held' = 0 /\ bp_trap_count' = held'
        /\ used = {} => used' = {}
    BY <1>b, <1>e, <1>f DEF AtRest
  <2>2. \A p \in Processes : pc'[p] \notin {"drain", "wpCleanStop"}
    <3>1. pc'[s] \in InitPhases \cup LoopPhases
      BY <1>a, <1>c, <1>f DEF Walk, InitPhases, StopPhases
    <3> QED
      BY <3>1, <1>d, <1>f DEF WorkPhases, InitPhases, StopPhases, LoopPhases, AddPhases, Loops
  <2>3. (\A p \in Processes : pc'[p] \notin LoopPhases) =>
          bp_stopping' \/ (used' = {} /\ removed' = 0)
    BY <2>1, <1>b, <1>e, <1>f
  <2> QED
    BY <2>1, <2>2, <2>3 DEF AtRest
<1>3. CASE WpCleaned(s)
  BY <1>3, <1>f DEF WpCleaned, Goto, InitPhases
<1>4. CASE InitCount(s)
  BY <1>4, <1>f DEF InitCount, Goto, InitPhases
<1>5. CASE InitAddr(s)
  BY <1>5, <1>f DEF InitAddr, Goto, InitPhases
<1>6. CASE InitState(s)
  BY <1>6, <1>f DEF InitState, Goto, InitPhases
<1>7. CASE InitTrap(s)
  BY <1>7, <1>f DEF InitTrap, Goto, InitPhases
<1>8. CASE InitFlag(s)
  <2>1. pc[s] \in InitPhases /\ pc' = [pc EXCEPT ![s] = Loop] /\ Loop \in LoopPhases
    BY <1>8 DEF InitFlag, Goto, InitPhases, Loop, LoopPhases, Loops
  <2>2. pc'[s] \in LoopPhases
    BY <2>1 DEF PhaseOK
  <2> QED
    BY <2>1, <2>2, <1>8, <1>f DEF InitFlag
\* In the loops only used and latePlant change.
<1>g. ASSUME pc[s] \in LoopPhases, pc'[s] \in LoopPhases,
             used' \subseteq used \cup Active, latePlant => latePlant',
             UNCHANGED <<bp_count, bp_trap_count>>
      PROVE  AtRest'
  <2>1. used' \subseteq Active' \/ latePlant'
    BY <1>g DEF AtRest
  <2>2. \A p \in Processes : pc'[p] \notin {"drain", "wpCleanStop"}
    BY <1>d, <1>g DEF WorkPhases, InitPhases, StopPhases, LoopPhases, AddPhases, Loops
  <2>3. ~running' /\ bp_trap_count' = held'
    BY <1>b, <1>g DEF AtRest
  <2> QED
    BY <2>1, <2>2, <2>3, <1>g DEF AtRest
<1>9. CASE PlantTest(s)
  <2>1. pc[s] \in LoopPhases /\ pc'[s] \in LoopPhases
    BY <1>9, Tested DEF LoopPhases, PhaseOK
  <2> QED
    BY <2>1, <1>9, <1>g DEF PlantTest
<1>10. CASE PlantRefused(s)
  <2>1. pc[s] \in LoopPhases /\ pc'[s] \in LoopPhases
    BY <1>10 DEF PlantRefused, More, LoopPhases, Loops
  <2> QED
    BY <2>1, <1>10, <1>g DEF PlantRefused
<1>11. ASSUME NEW loop \in Loops, PlantNext(s, loop) PROVE AtRest'
  <2>1. pc[s] \in LoopPhases /\ pc'[s] \in LoopPhases
    BY <1>11, Planted DEF LoopPhases, PhaseOK
  <2>2. used' \subseteq used \cup Active /\ (latePlant => latePlant') /\ UNCHANGED bp_count
    BY <1>11, AddOne DEF PlantNext
  <2> QED
    BY <2>1, <2>2, <1>11, <1>g DEF PlantNext
<1>12. CASE ResetParam(s)
  <2>1. pc[s] \in LoopPhases /\ pc'[s] \in LoopPhases
    BY <1>12 DEF ResetParam, Goto, LoopPhases, PhaseOK
  <2> QED
    BY <2>1, <1>12, <1>g DEF ResetParam
<1> HIDE DEF threads, table, engine, Empty, Active
<1> QED
  BY <1>1, <1>2, <1>3, <1>4, <1>5, <1>6, <1>7, <1>8, <1>9, <1>10, <1>11, <1>12 DEF Within

\* Each step of a thread does: where the engine rests there is none that may enter.
LEMMA RestThreads ==
  ASSUME EngineOK, AtRest, Trap \/ EndWatch \/ Thread
  PROVE  AtRest'
<1>a. UNCHANGED <<pc, running, bp_count, bp_stopping>>
  BY ThreadsOnly DEF outside, shell
<1>b. bp_trap_count \in Int /\ bp_stopping \in BOOLEAN /\ ThreadsOK
  BY DEF EngineOK
<1>1. CASE Trap
  BY <1>1, <1>a, <1>b DEF Trap, AtRest, Empty, Active, ThreadsOK
<1>2. CASE IncTrapped
  BY <1>2, <1>a, <1>b DEF IncTrapped, AtRest, Empty, Active, ThreadsOK, table
<1>3. CASE EndWatch
  BY <1>3, <1>a, <1>b DEF EndWatch, AtRest, Empty, Active, table
<1>4. CASE AddLocked
  <2>1. held > 0
    BY <1>4, <1>b DEF AddLocked, ThreadsOK
  <2>2. /\ used' \subseteq used \cup Active /\ (latePlant => latePlant')
        /\ bp_stopping => used' = used \/ latePlant'
        /\ UNCHANGED <<held, removed, bp_trap_count>>
    BY <1>4, AddOne DEF AddLocked
  <2> QED
    BY <2>1, <2>2, <1>a DEF AtRest, Empty, Active
<1>5. CASE DecTrapped
  <2>1. held > 0
    BY <1>5, <1>b DEF DecTrapped, ThreadsOK
  <2>2. /\ held' = held - 1 /\ bp_trap_count' = bp_trap_count - 1 /\ held # 0
        /\ UNCHANGED <<used, latePlant, removed>>
    BY <2>1, <1>5 DEF DecTrapped, table
  <2> QED
    BY <2>2, <1>a DEF AtRest, Empty, Active
<1> QED
  BY <1>1, <1>2, <1>3, <1>4, <1>5 DEF Thread

\* While startMet is FALSE, each step keeps the engine at rest where it should be.
LEMMA RestNext ==
  TypeOK /\ Places /\ Alone /\ [Next]_vars
    => (~startMet => AtRest)'
<1> SUFFICES ASSUME TypeOK, Places, Alone, [Next]_vars PROVE (~startMet => AtRest)'
  OBVIOUS
<1>a. /\ pc \in [Processes -> Phases]
      /\ doing \in [Processes -> Activities \cup {"none"}]
  BY DEF TypeOK
<1>b. /\ ~startMet => Apart
      /\ ~startMet => AtRest
  BY LonelyApart DEF Alone
<1> USE DEF shell, private, still, engine, table, threads, AtRest, Empty, Active, InitPhases,
    LoopPhases, AddPhases, Loops, MeetsStart
<1>1. ASSUME NEW s \in Shells, NEW l \in Lists, Load(s, l) PROVE (~startMet => AtRest)'
  <2>1. /\ loaded /\ pc[s] = "idle" /\ pc[Rmmod] = "idle"
        /\ pc' = [pc EXCEPT ![s] = "copy"] /\ doing' = [doing EXCEPT ![s] = "load"]
    BY <1>1, Begun, <1>a DEF Load, Processes
  <2> QED
    BY <2>1, <1>a, <1>b, ListsAssumption, <1>1 DEF Load, Processes
<1>2. ASSUME NEW s \in Shells, NEW x \in Params, Param(s, x) PROVE (~startMet => AtRest)'
  BY <1>2, <1>a, <1>b, ListsAssumption DEF Param
<1>3. ASSUME NEW s \in Shells, NEW c \in {"start", "stop"}, Control(s,
    c) PROVE (~startMet => AtRest)'
  <2>1. /\ loaded /\ pc[s] = "idle" /\ pc[Rmmod] = "idle"
        /\ pc' = [pc EXCEPT ![s] = "terminate"] /\ doing' = [doing EXCEPT ![s] = c]
    BY <1>3, Begun, <1>a DEF Control, Processes
  <2> QED
    BY <2>1, <1>a, <1>b, ListsAssumption, <1>3 DEF Control, Processes
<1>4. ASSUME NEW s \in Shells, Monitor(s) PROVE (~startMet => AtRest)'
  <2>1. /\ loaded /\ pc[s] = "idle" /\ pc[Rmmod] = "idle"
        /\ pc' = [pc EXCEPT ![s] = "read"] /\ doing' = [doing EXCEPT ![s] = "status"]
    BY <1>4, Begun, <1>a DEF Monitor, Processes
  <2> QED
    BY <2>1, <1>a, <1>b, ListsAssumption, <1>4 DEF Monitor, Processes
<1>5. ASSUME NEW s \in Shells, Crash(s) PROVE (~startMet => AtRest)'
  BY <1>5, <1>a, <1>b, ListsAssumption DEF Crash, Places, Apart, WorkPhases, Processes, Rmmod
<1>6. ASSUME NEW s \in Shells, WriteAddress(s) PROVE (~startMet => AtRest)'
  BY <1>6, <1>a, <1>b, ListsAssumption DEF WriteAddress
<1>7. ASSUME NEW s \in Shells, WriteCount(s) PROVE (~startMet => AtRest)'
  BY <1>7, <1>a, <1>b, ListsAssumption DEF WriteCount, Return, GotoOrReturn, Goto
<1>8. ASSUME NEW s \in Shells, Terminate(s) PROVE (~startMet => AtRest)'
  BY <1>8, <1>a, <1>b, ListsAssumption DEF Terminate, Goto
<1>9. ASSUME NEW s \in Shells, Sanitize(s) PROVE (~startMet => AtRest)'
  <2>1. /\ pc[s] = "sanitize" /\ \E to \in {"zero", "isStart"} : pc' = [pc EXCEPT ![s] = to]
        /\ UNCHANGED <<running, engine, startMet>>
    BY <1>9 DEF Sanitize, Goto
  <2> QED
    BY <2>1, <1>9, <1>a, <1>b DEF Processes
<1>10. ASSUME NEW s \in Shells, StoreZero(s) PROVE (~startMet => AtRest)'
  BY <1>10, <1>a, <1>b DEF StoreZero, Goto
<1>11. ASSUME NEW s \in Shells, IsStart(s) PROVE (~startMet => AtRest)'
  BY <1>11, <1>a, <1>b, ListsAssumption DEF IsStart, Goto
<1>12. ASSUME NEW s \in Shells, IsStop(s) PROVE (~startMet => AtRest)'
  BY <1>12, <1>a, <1>b, ListsAssumption DEF IsStop, Return, GotoOrReturn, Goto
<1>13. ASSUME NEW s \in Shells, Status(s) PROVE (~startMet => AtRest)'
  BY <1>13, <1>a, <1>b, ListsAssumption DEF Status, Return, GotoOrReturn, Goto
<1>14. ASSUME NEW s \in Processes, TestRunning(s) PROVE (~startMet => AtRest)'
  <2>1. PICK to \in {"wpCleanStart", "unload", "idle", "clean"} :
          /\ pc[s] = "begin" /\ pc' = [pc EXCEPT ![s] = to] /\ (to = "clean" <=> running)
    BY <1>14, AfterStopPhase DEF TestRunning, GotoOrReturn, Goto
  <2>2. UNCHANGED <<running, startMet, engine>>
    BY <1>14 DEF TestRunning
  <2> QED
    BY <2>1, <2>2, <1>14, <1>a, <1>b
<1>15. ASSUME NEW s \in Processes, Within(s) PROVE (~startMet => AtRest)'
  <2>1. startMet' = startMet
    BY <1>15, InnerStep, TypeParts DEF Inner
  <2>2. ~startMet => Apart /\ AtRest
    BY <1>b
  <2>3. Apart /\ AtRest => AtRest'
    BY <1>15, TypeParts, RestWithin
  <2> QED
    BY <2>1, <2>2, <2>3
<1>16. ASSUME NEW s \in Processes, StopDone(s) PROVE (~startMet => AtRest)'
  <2>1. PICK to \in {"wpCleanStart", "unload", "idle"} :
          pc[s] = "wpCleanStop" /\ pc' = [pc EXCEPT ![s] = to]
    BY <1>16, AfterStopPhase DEF StopDone, GotoOrReturn, Goto
  <2>2. ~running' /\ UNCHANGED <<startMet, engine>>
    BY <1>16 DEF StopDone
  <2> QED
    BY <2>1, <2>2, <1>16, <1>a, <1>b
<1>17. ASSUME NEW s \in Processes, Started(s) PROVE (~startMet => AtRest)'
  BY <1>17, <1>a, <1>b, ListsAssumption DEF Started, Return, GotoOrReturn, Goto, Apart,
     WorkPhases
<1>18. CASE Exit
  <2>1. /\ loaded /\ pc[Rmmod] = "idle" /\ pc[Rmmod] = "idle"
        /\ pc' = [pc EXCEPT ![Rmmod] = "begin"] /\ doing' = [doing EXCEPT ![Rmmod] = "exit"]
    BY <1>18, Begun, <1>a DEF Exit, Processes
  <2> QED
    BY <2>1, <1>a, <1>b, ListsAssumption, <1>18 DEF Exit, Processes
<1>19. CASE Unload
  BY <1>19, <1>a, <1>b, ListsAssumption DEF Unload, Goto, Processes
<1>20. CASE Trap \/ EndWatch \/ Thread
  <2>1. startMet' = startMet
    BY <1>20, ThreadsOnly DEF outside
  <2>2. AtRest => AtRest'
    BY <1>20, TypeParts, RestThreads
  <2> QED
    BY <2>1, <2>2, <1>b
<1>21. CASE UNCHANGED vars
  BY <1>21, <1>a, <1>b, ListsAssumption DEF vars
<1> HIDE DEF shell, private, still, engine, table, threads, AtRest, Empty, Active, InitPhases,
    LoopPhases, AddPhases, Loops, MeetsStart
<1> QED
  BY <1>1, <1>2, <1>3, <1>4, <1>5, <1>6, <1>7, <1>8, <1>9, <1>10, <1>11, <1>12, <1>13, <1>14,
     <1>15, <1>16, <1>17, <1>18, <1>19, <1>20, <1>21 DEF Next, Serve, Body, WpClean, Within

-----------------------------------------------------------------------------
(* The word in mybuf, the files and the table *)

\* Steps that do not touch mybuf and do not begin to read it.
LEMMA WordedKept ==
  ASSUME Worded, NEW s \in Processes, mybuf' = mybuf,
         \A p \in Processes \ {s} :
           pc'[p] = pc[p] /\ doing'[p] = doing[p] /\ met[p] \subseteq met'[p],
         ~Reading(s)'
  PROVE  Worded'
<1> SUFFICES ASSUME NEW x \in Shells, Reading(x)', "word" \notin met'[x]
             PROVE  OwnWord(x)'
  BY DEF Worded, Word
<1>1. x \in Processes \ {s} /\ Reading(x) /\ "word" \notin met[x]
  BY DEF Reading, Processes
<1>2. OwnWord(x)
  BY <1>1 DEF Worded
<1>3. pc'[s] \notin {"terminate", "zero"}
  BY DEF Reading
<1> QED
  BY <1>1, <1>2, <1>3 DEF OwnWord

\* Each step keeps the word, or tells those who are about to read it.
LEMMA WordedNext ==
  TypeOK /\ FilesOK /\ PhaseOK /\ CallOK /\ Positions /\
  Places /\ Worded /\ [Next]_vars
    => Worded'
<1> SUFFICES ASSUME TypeOK, FilesOK, PhaseOK, CallOK, Positions, Places, Worded,
    [Next]_vars PROVE Worded'
  OBVIOUS
<1>b. /\ mybuf \in [middle : {"none", "ar", "op"}, fifth : {"end", "t"}]
      /\ met \in [Processes -> SUBSET {"load", "word"}]
  BY DEF TypeOK
<1> USE DEF shell
<1>1. ASSUME NEW s \in Shells, NEW l \in Lists, Load(s, l) PROVE Worded'
  <2>1. ~Reading(s)'
    BY <1>1, Begun DEF Load, PhaseOK, Processes, Reading
  <2>2. \A p \in Processes \ {s} :
          pc'[p] = pc[p] /\ doing'[p] = doing[p] /\ met[p] \subseteq met'[p]
    BY <1>1, Begun DEF Load, PhaseOK, Processes
  <2>3. mybuf' = mybuf
    BY <1>1 DEF Load, files
  <2> QED
    BY <2>1, <2>2, <2>3, <1>1, WordedKept DEF Processes
<1>2. ASSUME NEW s \in Shells, NEW x \in Params, Param(s, x) PROVE Worded'
  <2>1. UNCHANGED <<pc, doing, met, mybuf>>
    BY <1>2 DEF Param, shell, files, still, vars
  <2> QED
    BY <2>1 DEF Worded, OwnWord, Reading
<1>3. ASSUME NEW s \in Shells, NEW c \in {"start", "stop"}, Control(s, c) PROVE Worded'
  <2>1. /\ pc' = [pc EXCEPT ![s] = "terminate"] /\ doing' = [doing EXCEPT ![s] = c]
        /\ "word" \notin met'[s] => \A p \in Processes \ {s} : pc[p] \notin {"terminate", "zero"}
        /\ \A p \in Processes \ {s} :
             met[p] \subseteq met'[p] /\ (Reading(p) => "word" \in met'[p])
    BY <1>3, Begun DEF Control, Processes
  <2>2. /\ mybuf'.middle = Word(c).middle
        /\ c = "start" => mybuf'.fifth = Word(c).fifth
    BY <1>3, <1>b DEF Control, Word
  <2> QED
    BY <2>1, <2>2, <1>3 DEF Worded, OwnWord, Reading, PhaseOK, Processes
<1>4. ASSUME NEW s \in Shells, Monitor(s) PROVE Worded'
  <2>1. ~Reading(s)'
    BY <1>4, Begun DEF Monitor, PhaseOK, Processes, Reading
  <2>2. \A p \in Processes \ {s} :
          pc'[p] = pc[p] /\ doing'[p] = doing[p] /\ met[p] \subseteq met'[p]
    BY <1>4, Begun DEF Monitor, PhaseOK, Processes
  <2>3. mybuf' = mybuf
    BY <1>4 DEF Monitor, files
  <2> QED
    BY <2>1, <2>2, <2>3, <1>4, WordedKept DEF Processes
<1>5. ASSUME NEW s \in Shells, Crash(s) PROVE Worded'
  <2>1. ~Reading(s)'
    BY <1>5 DEF Crash, Goto, PhaseOK, CallOK, Processes, still, Reading
  <2>2. \A p \in Processes \ {s} :
          pc'[p] = pc[p] /\ doing'[p] = doing[p] /\ met[p] \subseteq met'[p]
    BY <1>5 DEF Crash, Goto, PhaseOK, CallOK, Processes, still
  <2>3. mybuf' = mybuf
    BY <1>5 DEF Crash, files
  <2> QED
    BY <2>1, <2>2, <2>3, <1>5, WordedKept DEF Processes
<1>6. ASSUME NEW s \in Shells, WriteAddress(s) PROVE Worded'
  <2>1. UNCHANGED <<pc, doing, met, mybuf>>
    BY <1>6 DEF WriteAddress, shell, files, still, vars
  <2> QED
    BY <2>1 DEF Worded, OwnWord, Reading
<1>7. ASSUME NEW s \in Shells, WriteCount(s) PROVE Worded'
  <2>1. ~Reading(s)'
    BY <1>7, GoesOnList DEF WriteCount, Return, PhaseOK, Processes, Reading
  <2>2. \A p \in Processes \ {s} :
          pc'[p] = pc[p] /\ doing'[p] = doing[p] /\ met[p] \subseteq met'[p]
    BY <1>7, GoesOn, GoesOnList DEF WriteCount, Return, PhaseOK, Processes
  <2>3. mybuf' = mybuf
    BY <1>7 DEF WriteCount, files
  <2> QED
    BY <2>1, <2>2, <2>3, <1>7, WordedKept DEF Processes
<1>8. ASSUME NEW s \in Shells, Terminate(s) PROVE Worded'
  <2>1. /\ pc[s] = "terminate" /\ UNCHANGED <<doing, met>>
        /\ pc'[s] = "sanitize" /\ \A p \in Processes \ {s} : pc'[p] = pc[p]
    BY <1>8 DEF Terminate, Goto, PhaseOK, Processes
  <2>2. /\ mybuf'.middle = mybuf.middle
        /\ doing[s] = "stop" => mybuf'.fifth = "end"
        /\ doing[s] # "stop" => mybuf' = mybuf
    BY <1>8, <1>b DEF Terminate
  <2>3. doing[s] \in {"start", "stop"}
    BY <2>1, <1>8 DEF Places, Reading
  <2> SUFFICES ASSUME NEW x \in Shells, Reading(x)', "word" \notin met'[x]
               PROVE  OwnWord(x)'
    BY DEF Worded
  <2>4. Reading(x) /\ "word" \notin met[x]
    BY <2>1 DEF Reading, Processes
  <2>5. /\ \A p \in Processes \ {x} :
             pc[p] # "terminate" /\ (doing[x] = "start" => pc[p] # "zero")
        /\ mybuf.middle = Word(doing[x]).middle
        /\ doing[x] = "start" \/ pc[x] # "terminate" => mybuf.fifth = Word(doing[x]).fifth
    BY <2>4 DEF Worded, OwnWord
  <2>6. x = s
    BY <2>1, <2>5, <1>8 DEF Processes
  <2>7. Word("stop").fifth = "end"
    BY DEF Word
  <2> QED
    BY <2>1, <2>2, <2>3, <2>5, <2>6, <2>7 DEF Processes, OwnWord
<1>9. ASSUME NEW s \in Shells, Sanitize(s) PROVE Worded'
  <2>1. /\ pc[s] = "sanitize" /\ UNCHANGED <<doing, met, mybuf>>
        /\ pc' = [pc EXCEPT ![s] = IF mybuf.fifth = "end" THEN "zero" ELSE "isStart"]
    BY <1>9 DEF Sanitize, Goto, files
  <2>2. doing[s] \in {"start", "stop"}
    BY <2>1, <1>9 DEF Places, Reading
  <2>3. Word("start").fifth = "t"
    BY DEF Word
  <2>4. pc'[s] \in {"zero", "isStart"} /\ \A p \in Processes \ {s} : pc'[p] = pc[p]
    BY <2>1, <1>9 DEF PhaseOK, Processes
  <2>5. pc'[s] = "zero" => mybuf.fifth = "end"
    BY <2>1, <1>9 DEF PhaseOK, Processes
  <2> SUFFICES ASSUME NEW x \in Shells, Reading(x)', "word" \notin met'[x]
               PROVE  OwnWord(x)'
    BY DEF Worded
  <2>6. Reading(x) /\ "word" \notin met[x] /\ (x = s => pc[x] # "terminate")
    BY <2>1, <2>4 DEF Reading, Processes
  <2>7. OwnWord(x)
    BY <2>6 DEF Worded
  <2> QED
    BY <2>1, <2>2, <2>3, <2>4, <2>5, <2>6, <2>7 DEF Processes, OwnWord
<1>10. ASSUME NEW s \in Shells, StoreZero(s) PROVE Worded'
  <2>1. /\ pc[s] = "zero" /\ UNCHANGED <<doing, met>>
        /\ pc'[s] = "isStart" /\ \A p \in Processes \ {s} : pc'[p] = pc[p]
    BY <1>10 DEF StoreZero, Goto, PhaseOK, Processes
  <2>2. mybuf'.middle = mybuf.middle /\ mybuf'.fifth = "end"
    BY <1>10, <1>b DEF StoreZero
  <2> SUFFICES ASSUME NEW x \in Shells, Reading(x)', "word" \notin met'[x]
               PROVE  OwnWord(x)'
    BY DEF Worded
  <2>3. Reading(x) /\ "word" \notin met[x]
    BY <2>1 DEF Reading, Processes
  <2>4. /\ \A p \in Processes \ {x} :
             pc[p] # "terminate" /\ (doing[x] = "start" => pc[p] # "zero")
        /\ mybuf.middle = Word(doing[x]).middle
        /\ pc[x] \in {"zero", "isStop"} => doing[x] = "stop"
    BY <2>3 DEF Worded, OwnWord
  <2>5. doing[x] = "stop"
    BY <2>1, <2>3, <2>4, <1>10 DEF Places, Processes
  <2>6. Word("stop").fifth = "end"
    BY DEF Word
  <2> QED
    BY <2>1, <2>2, <2>4, <2>5, <2>6 DEF Processes, OwnWord
<1>11. ASSUME NEW s \in Shells, IsStart(s) PROVE Worded'
  <2>1. CASE mybuf = Word("start")
    <3>1. pc'[s] = "begin" /\ \A p \in Processes \ {s} : pc'[p] = pc[p] /\ doing'[p] = doing[p]
      BY <2>1, <1>11 DEF IsStart, Goto, PhaseOK, Processes
    <3>2. mybuf' = mybuf /\ met' = met
      BY <2>1, <1>11 DEF IsStart, files
    <3> QED
      BY <3>1, <3>2, <1>11, WordedKept DEF Processes, Reading
  <2>2. CASE mybuf # Word("start")
    <3>1. /\ pc[s] = "isStart" /\ pc' = [pc EXCEPT ![s] = "isStop"]
          /\ UNCHANGED <<doing, met, mybuf>>
      BY <2>2, <1>11 DEF IsStart, Goto, files
    <3>2. doing[s] \in {"start", "stop"}
      BY <3>1, <1>11 DEF Places, Reading
    <3>3. mybuf.middle # "ar" \/ mybuf.fifth # "t"
      BY <2>2, <1>b DEF Word
    <3> QED
      BY <3>1, <3>2, <3>3, <1>11 DEF Worded, OwnWord, Reading, PhaseOK, Processes, Word
  <2> QED
    BY <2>1, <2>2
<1>12. ASSUME NEW s \in Shells, IsStop(s) PROVE Worded'
  <2>1. /\ pc'[s] \notin {"terminate", "sanitize", "zero", "isStart", "isStop"}
        /\ \A p \in Processes \ {s} : pc'[p] = pc[p] /\ doing'[p] = doing[p] /\ met'[p] = met[p]
    <3>1. CASE mybuf = Word("stop")
      BY <3>1, <1>12 DEF IsStop, Goto, PhaseOK, CallOK, Processes
    <3>2. CASE mybuf # Word("stop")
      BY <3>2, <1>12, GoesOn, GoesOnList DEF IsStop, Return, PhaseOK, Processes
    <3> QED
      BY <3>1, <3>2
  <2>2. mybuf' = mybuf
    BY <1>12 DEF IsStop, files
  <2> QED
    BY <2>1, <2>2, <1>12, WordedKept DEF Processes, Reading
<1>13. ASSUME NEW s \in Shells, Status(s) PROVE Worded'
  <2>1. ~Reading(s)'
    BY <1>13, GoesOnList DEF Status, Return, PhaseOK, Processes, Reading
  <2>2. \A p \in Processes \ {s} :
          pc'[p] = pc[p] /\ doing'[p] = doing[p] /\ met[p] \subseteq met'[p]
    BY <1>13, GoesOn, GoesOnList DEF Status, Return, PhaseOK, Processes
  <2>3. mybuf' = mybuf
    BY <1>13 DEF Status, files
  <2> QED
    BY <2>1, <2>2, <2>3, <1>13, WordedKept DEF Processes
<1>14. ASSUME NEW s \in Processes, TestRunning(s) PROVE Worded'
  <2>1. ~Reading(s)'
    <3>1. PICK to \in {"wpCleanStart", "unload", "idle", "clean"} : pc' = [pc EXCEPT ![s] = to]
      BY <1>14, AfterStopPhase DEF TestRunning, GotoOrReturn, Goto
    <3> QED
      BY <3>1, <1>14 DEF PhaseOK, Processes, Reading
  <2>2. \A p \in Processes \ {s} :
          pc'[p] = pc[p] /\ doing'[p] = doing[p] /\ met[p] \subseteq met'[p]
    BY <1>14, GoesOn, GoesOnList DEF TestRunning, Return, PhaseOK, Processes
  <2>3. mybuf' = mybuf
    BY <1>14 DEF TestRunning, files
  <2> QED
    BY <2>1, <2>2, <2>3, <1>14, WordedKept DEF Processes
<1>15. ASSUME NEW s \in Processes, Within(s) PROVE Worded'
  <2>1. Inner(s)
    BY <1>15, InnerStep
  <2>2. ~Reading(s)' /\ \A p \in Processes \ {s} : pc'[p] = pc[p]
    BY <2>1, InnerPhases DEF Reading, StopPhases, InitPhases, LoopPhases, AddPhases, Loops
  <2>3. UNCHANGED <<mybuf, doing, met>>
    BY <2>1 DEF Inner, still
  <2> QED
    BY <2>2, <2>3, <1>15, WordedKept
<1>16. ASSUME NEW s \in Processes, StopDone(s) PROVE Worded'
  <2>1. ~Reading(s)'
    <3>1. PICK to \in {"wpCleanStart", "unload", "idle"} : pc' = [pc EXCEPT ![s] = to]
      BY <1>16, AfterStopPhase DEF StopDone, GotoOrReturn, Goto
    <3> QED
      BY <3>1, <1>16 DEF PhaseOK, Processes, Reading
  <2>2. \A p \in Processes \ {s} :
          pc'[p] = pc[p] /\ doing'[p] = doing[p] /\ met[p] \subseteq met'[p]
    BY <1>16, GoesOn, GoesOnList DEF StopDone, Return, PhaseOK, Processes
  <2>3. mybuf' = mybuf
    BY <1>16 DEF StopDone, files
  <2> QED
    BY <2>1, <2>2, <2>3, <1>16, WordedKept DEF Processes
<1>17. ASSUME NEW s \in Processes, Started(s) PROVE Worded'
  <2>1. ~Reading(s)'
    BY <1>17, GoesOnList DEF Started, Return, PhaseOK, Processes, Reading
  <2>2. \A p \in Processes \ {s} :
          pc'[p] = pc[p] /\ doing'[p] = doing[p] /\ met[p] \subseteq met'[p]
    BY <1>17, GoesOn, GoesOnList DEF Started, Return, PhaseOK, Processes
  <2>3. mybuf' = mybuf
    BY <1>17 DEF Started, files
  <2> QED
    BY <2>1, <2>2, <2>3, <1>17, WordedKept DEF Processes
<1>18. CASE Exit
  <2>1. ~Reading(Rmmod)'
    BY <1>18, Begun DEF Exit, PhaseOK, Processes, Reading
  <2>2. \A p \in Processes \ {Rmmod} :
          pc'[p] = pc[p] /\ doing'[p] = doing[p] /\ met[p] \subseteq met'[p]
    BY <1>18, Begun DEF Exit, PhaseOK, Processes
  <2>3. mybuf' = mybuf
    BY <1>18 DEF Exit, files
  <2> QED
    BY <2>1, <2>2, <2>3, <1>18, WordedKept DEF Processes
<1>19. CASE Unload
  <2>1. ~Reading(Rmmod)'
    BY <1>19 DEF Unload, Goto, PhaseOK, CallOK, Processes, still, Reading
  <2>2. \A p \in Processes \ {Rmmod} :
          pc'[p] = pc[p] /\ doing'[p] = doing[p] /\ met[p] \subseteq met'[p]
    BY <1>19 DEF Unload, Goto, PhaseOK, CallOK, Processes, still
  <2>3. mybuf' = mybuf
    BY <1>19 DEF Unload, files
  <2> QED
    BY <2>1, <2>2, <2>3, <1>19, WordedKept DEF Processes
<1>20. CASE Trap \/ EndWatch \/ Thread
  <2>1. UNCHANGED <<pc, doing, met, mybuf>>
    BY <1>20, ThreadsOnly DEF outside, shell, files
  <2> QED
    BY <2>1 DEF Worded, OwnWord, Reading
<1>21. CASE UNCHANGED vars
  <2>1. UNCHANGED <<pc, doing, met, mybuf>>
    BY <1>21 DEF shell, files, vars
  <2> QED
    BY <2>1 DEF Worded, OwnWord, Reading
<1> HIDE DEF shell
<1> QED
  BY <1>1, <1>2, <1>3, <1>4, <1>5, <1>6, <1>7, <1>8, <1>9, <1>10, <1>11, <1>12, <1>13, <1>14,
     <1>15, <1>16, <1>17, <1>18, <1>19, <1>20, <1>21 DEF Next, Serve, Body, WpClean, Within

\* Steps that do not touch the files, nor begin or end a load.
LEMMA FiledKept ==
  ASSUME Filed, NEW s \in Processes, UNCHANGED <<address, u_addresscnt, oneList>>,
         \A p \in Processes \ {s} : pc'[p] = pc[p] /\ met[p] \subseteq met'[p],
         \A p \in Shells \ {s} : list'[p] = list[p] /\ pos'[p] = pos[p],
         pc'[s] # "copy",
         Inside(s)' /\ Undisturbed(s)' => \A x \in Shells \ {s} : pc[x] # "copy"
  PROVE  Filed'
<1>1. \A x \in Shells : pc'[x] = "copy" => x # s /\ pc[x] = "copy" /\ x \in Processes
  BY DEF Processes
<1>2. \A x \in Shells : pc'[x] = "copy" => ~oneList'
  BY <1>1 DEF Filed
<1>3. ASSUME NEW x \in Shells, NEW p \in Processes, Inside(p)', Undisturbed(p)', x # p
      PROVE  pc'[x] # "copy"
  BY <1>1, <1>3 DEF Filed, Inside, Undisturbed
<1>4. ASSUME NEW x \in Shells, pc'[x] = "copy", Undisturbed(x)'
      PROVE  \A i \in 1..pos'[x] : address'[i - 1] = list'[x][i]
  <2>1. x # s /\ pc[x] = "copy" /\ Undisturbed(x) /\ pos'[x] = pos[x] /\ list'[x] = list[x]
    BY <1>1, <1>4 DEF Undisturbed
  <2> QED
    BY <2>1 DEF Filed
<1>5. oneList' => (\E l \in Lists \cup {<<>>} : Whole(l))'
  BY DEF Filed, Whole
<1> QED
  BY <1>2, <1>3, <1>4, <1>5 DEF Filed

\* Each step keeps the files one list, or notes that they are not.
LEMMA FiledNext ==
  TypeOK /\ FilesOK /\ PhaseOK /\ CallOK /\ Positions /\
  Places /\ Filed /\ [Next]_vars
    => Filed'
<1> SUFFICES ASSUME TypeOK, FilesOK, PhaseOK, CallOK, Positions, Places, Filed,
    [Next]_vars PROVE Filed'
  OBVIOUS
<1>a. met \in [Processes -> SUBSET {"load", "word"}] /\ Processes = Shells \cup {Rmmod}
  BY DEF CallOK, Processes
<1> USE DEF shell
<1>1. ASSUME NEW s \in Shells, NEW l \in Lists, Load(s, l) PROVE Filed'
  <2>1. /\ pc' = [pc EXCEPT ![s] = "copy"]
        /\ "load" \notin met'[s] => \A p \in Processes \ {s} : Inside(p) => doing[p] # "load"
        /\ \A p \in Processes \ {s} :
             met[p] \subseteq met'[p] /\ (Inside(p) => "load" \in met'[p])
    BY <1>1, Begun DEF Load, Processes
  <2>2. /\ list' = [list EXCEPT ![s] = l] /\ pos' = [pos EXCEPT ![s] = 0]
        /\ ~oneList' /\ address' = address
    BY <1>1 DEF Load, files
  <2>3. \A p \in Processes \ {s} : pc'[p] = pc[p]
    BY <2>1, <1>1 DEF PhaseOK
  <2>4. ASSUME NEW x \in Shells, NEW p \in Processes, Inside(p)', Undisturbed(p)', x # p
        PROVE  pc'[x] # "copy"
    <3>1. CASE p = s
      BY <3>1, <2>1, <2>3, <2>4, <1>a DEF Undisturbed, Places, Inside
    <3>2. CASE p # s
      BY <3>2, <2>1, <2>3, <2>4, <1>a DEF Undisturbed, Filed, Inside
    <3> QED
      BY <3>1, <3>2
  <2>5. ASSUME NEW x \in Shells, pc'[x] = "copy", Undisturbed(x)'
        PROVE  \A i \in 1..pos'[x] : address'[i - 1] = list'[x][i]
    <3>1. CASE x = s
      BY <3>1, <2>2, <1>1, <1>a DEF CallOK
    <3>2. CASE x # s
      <4>1. pc[x] = "copy" /\ Undisturbed(x) /\ pos'[x] = pos[x] /\ list'[x] = list[x]
        BY <3>2, <2>1, <2>2, <2>3, <2>5, <1>a DEF Undisturbed, CallOK, Positions
      <4> QED
        BY <4>1, <2>2 DEF Filed
    <3> QED
      BY <3>1, <3>2
  <2> QED
    BY <2>2, <2>4, <2>5 DEF Filed
<1>2. ASSUME NEW s \in Shells, NEW x \in Params, Param(s, x) PROVE Filed'
  <2>1. UNCHANGED <<pc, met, address, u_addresscnt, oneList, list, pos>>
    BY <1>2 DEF Param, shell, files, still, vars
  <2> QED
    BY <2>1 DEF Filed, Inside, Undisturbed, Whole
<1>3. ASSUME NEW s \in Shells, NEW c \in {"start", "stop"}, Control(s, c) PROVE Filed'
  <2>0. pc'[s] # "copy"
    BY <1>3, <1>a, Begun DEF Control, PhaseOK, Processes
  <2>1. \A p \in Processes \ {s} : pc'[p] = pc[p] /\ met[p] \subseteq met'[p]
    BY <1>3, <1>a, Begun DEF Control, PhaseOK, Processes
  <2>2. UNCHANGED <<address, u_addresscnt, oneList>>
    BY <1>3 DEF Control, files, still, private
  <2>3. \A p \in Shells \ {s} : list'[p] = list[p] /\ pos'[p] = pos[p]
    BY <1>3 DEF Control, Processes
  <2>4. Inside(s)' /\ Undisturbed(s)' => \A x \in Shells \ {s} : pc[x] # "copy"
    BY <1>3, Begun DEF Control, Inside, Processes, Places, Undisturbed
  <2> QED
    BY <2>0, <2>1, <2>2, <2>3, <2>4, <1>3, FiledKept DEF Processes
<1>4. ASSUME NEW s \in Shells, Monitor(s) PROVE Filed'
  <2>0. pc'[s] # "copy"
    BY <1>4, <1>a, Begun DEF Monitor, PhaseOK, Processes
  <2>1. \A p \in Processes \ {s} : pc'[p] = pc[p] /\ met[p] \subseteq met'[p]
    BY <1>4, <1>a, Begun DEF Monitor, PhaseOK, Processes
  <2>2. UNCHANGED <<address, u_addresscnt, oneList>>
    BY <1>4 DEF Monitor, files, still, private
  <2>3. \A p \in Shells \ {s} : list'[p] = list[p] /\ pos'[p] = pos[p]
    BY <1>4 DEF Monitor, Processes
  <2>4. Inside(s)' /\ Undisturbed(s)' => \A x \in Shells \ {s} : pc[x] # "copy"
    BY <1>4, Begun DEF Monitor, Inside, Processes, Places, Undisturbed
  <2> QED
    BY <2>0, <2>1, <2>2, <2>3, <2>4, <1>4, FiledKept DEF Processes
<1>5. ASSUME NEW s \in Shells, Crash(s) PROVE Filed'
  <2>0. pc'[s] # "copy"
    BY <1>5, <1>a DEF Crash, Goto, PhaseOK, CallOK, Processes, still
  <2>1. \A p \in Processes \ {s} : pc'[p] = pc[p] /\ met[p] \subseteq met'[p]
    BY <1>5, <1>a DEF Crash, Goto, PhaseOK, CallOK, Processes, still
  <2>2. UNCHANGED <<address, u_addresscnt, oneList>>
    BY <1>5 DEF Crash, files, still, private
  <2>3. \A p \in Shells \ {s} : list'[p] = list[p] /\ pos'[p] = pos[p]
    BY <1>5 DEF Crash, still, private, CallOK, Processes
  <2>4. Inside(s)' /\ Undisturbed(s)' => \A x \in Shells \ {s} : pc[x] # "copy"
    BY <1>5, <1>a DEF Crash, Goto, Inside, Filed, Undisturbed, PhaseOK,
       CallOK, Processes, still
  <2> QED
    BY <2>0, <2>1, <2>2, <2>3, <2>4, <1>5, FiledKept DEF Processes
<1>6. ASSUME NEW s \in Shells, WriteAddress(s) PROVE Filed'
  <2>1. /\ pc[s] = "copy" /\ pos[s] < Len(list[s])
        /\ address' = [address EXCEPT ![pos[s]] = list[s][pos[s] + 1]]
        /\ pos' = [pos EXCEPT ![s] = @ + 1]
        /\ UNCHANGED <<pc, met, list, oneList>>
    BY <1>6 DEF WriteAddress
  <2>2. ~oneList
    BY <2>1, <1>6 DEF Filed
  <2>3. \A p \in Processes \ {s} : ~(Inside(p) /\ Undisturbed(p))
    BY <2>1, <1>6 DEF Filed
  <2>4. ASSUME NEW x \in Shells, pc'[x] = "copy", Undisturbed(x)'
        PROVE  \A i \in 1..pos'[x] : address'[i - 1] = list'[x][i]
    <3>1. x = s
      BY <2>1, <2>3, <2>4, <1>a DEF Inside, Undisturbed
    <3>2. pos[s] \in 0..(Len(list[s]) - 1) /\ Len(list[s]) \in 0..NAddress
      BY <2>1, <1>6, ListLength DEF Positions
    <3>3. pos[s] \in Indices
      BY <3>2, ListsAssumption DEF Indices
    <3>4. \A i \in 1..pos[s] : address[i - 1] = list[s][i]
      BY <2>1, <2>4, <3>1 DEF Filed, Undisturbed
    <3>5. pos'[s] = pos[s] + 1
      BY <2>1, <1>6, <1>a DEF CallOK
    <3>6. ASSUME NEW i \in 1..(pos[s] + 1)
          PROVE  address'[i - 1] = list[s][i]
      <4>1. CASE i = pos[s] + 1
        BY <4>1, <3>2, <3>3, <2>1 DEF FilesOK
      <4>2. CASE i \in 1..pos[s]
        <5>1. i - 1 # pos[s]
          BY <4>2, <3>2
        <5> QED
          BY <5>1, <4>2, <3>4, <2>1, <3>2, <3>3, ListsAssumption DEF FilesOK, Indices
      <4> QED
        BY <4>1, <4>2, <3>2, <3>6
    <3> QED
      BY <3>1, <3>5, <3>6, <2>1
  <2> QED
    BY <2>1, <2>2, <2>4 DEF Filed, Inside, Undisturbed
<1>7. ASSUME NEW s \in Shells, WriteCount(s) PROVE Filed'
  <2>1. /\ pc[s] = "copy" /\ pc' = [pc EXCEPT ![s] = "idle"]
        /\ \A p \in Shells \ {s} : list'[p] = list[p]
    BY <1>7, GoesOnList, <1>a DEF WriteCount, Return
  <2>2. \A p \in Processes \ {s} : pos'[p] = pos[p] /\ met'[p] = met[p] /\ pc'[p] = pc[p]
    BY <1>7, GoesOn, <1>a, <2>1 DEF WriteCount, Return, PhaseOK
  <2>3. /\ pos[s] = Len(list[s]) /\ u_addresscnt' = Len(list[s]) /\ address' = address
        /\ oneList' <=> Undisturbed(s)
    BY <1>7 DEF WriteCount, Undisturbed
  <2>4. pc'[s] = "idle"
    BY <2>1, <1>7, <1>a DEF PhaseOK
  <2>5. \A x \in Shells : pc'[x] = "copy" => ~oneList'
    BY <2>1, <2>2, <2>3, <2>4, <1>a, <1>7 DEF Filed, Inside
  <2>6. \A x \in Shells, p \in Processes :
          Inside(p)' /\ Undisturbed(p)' /\ x # p => pc'[x] # "copy"
    BY <2>2, <2>4, <1>a, <1>7 DEF Filed, Inside, Undisturbed
  <2>7. \A x \in Shells :
          pc'[x] = "copy" /\ Undisturbed(x)' => \A i \in 1..pos'[x] : address'[i - 1] = list'[x][i]
    BY <2>1, <2>2, <2>3, <2>4, <1>a, <1>7 DEF Filed, Undisturbed
  <2>8. oneList' => (\E l \in Lists \cup {<<>>} : Whole(l))'
    <3> SUFFICES ASSUME oneList' PROVE (\E l \in Lists \cup {<<>>} : Whole(l))'
      OBVIOUS
    <3>1. \A i \in 1..Len(list[s]) : address'[i - 1] = list[s][i]
      BY <2>1, <2>3, <1>7 DEF Filed
    <3>2. list[s] \in Lists \cup {<<>>}
      BY <1>7 DEF Positions
    <3> QED
      BY <3>1, <3>2, <2>3 DEF Whole
  <2> QED
    BY <2>5, <2>6, <2>7, <2>8 DEF Filed
<1>8. ASSUME NEW s \in Shells, Terminate(s) PROVE Filed'
  <2>0. pc'[s] # "copy"
    BY <1>8, <1>a DEF Terminate, Goto, PhaseOK, CallOK, Processes, still
  <2>1. \A p \in Processes \ {s} : pc'[p] = pc[p] /\ met[p] \subseteq met'[p]
    BY <1>8, <1>a DEF Terminate, Goto, PhaseOK, CallOK, Processes, still
  <2>2. UNCHANGED <<address, u_addresscnt, oneList>>
    BY <1>8 DEF Terminate, files, still, private
  <2>3. \A p \in Shells \ {s} : list'[p] = list[p] /\ pos'[p] = pos[p]
    BY <1>8 DEF Terminate, still, private, CallOK, Processes
  <2>4. Inside(s)' /\ Undisturbed(s)' => \A x \in Shells \ {s} : pc[x] # "copy"
    BY <1>8, <1>a DEF Terminate, Goto, Inside, Filed, Undisturbed, PhaseOK, CallOK,
       Processes, still
  <2> QED
    BY <2>0, <2>1, <2>2, <2>3, <2>4, <1>8, FiledKept DEF Processes
<1>9. ASSUME NEW s \in Shells, Sanitize(s) PROVE Filed'
  <2>0. pc'[s] # "copy"
    BY <1>9, <1>a DEF Sanitize, Goto, PhaseOK, CallOK, Processes, still
  <2>1. \A p \in Processes \ {s} : pc'[p] = pc[p] /\ met[p] \subseteq met'[p]
    BY <1>9, <1>a DEF Sanitize, Goto, PhaseOK, CallOK, Processes, still
  <2>2. UNCHANGED <<address, u_addresscnt, oneList>>
    BY <1>9 DEF Sanitize, files, still, private
  <2>3. \A p \in Shells \ {s} : list'[p] = list[p] /\ pos'[p] = pos[p]
    BY <1>9 DEF Sanitize, still, private, CallOK, Processes
  <2>4. Inside(s)' /\ Undisturbed(s)' => \A x \in Shells \ {s} : pc[x] # "copy"
    BY <1>9, <1>a DEF Sanitize, Goto, Inside, Filed, Undisturbed, PhaseOK,
       CallOK, Processes, still
  <2> QED
    BY <2>0, <2>1, <2>2, <2>3, <2>4, <1>9, FiledKept DEF Processes
<1>10. ASSUME NEW s \in Shells, StoreZero(s) PROVE Filed'
  <2>0. pc'[s] # "copy"
    BY <1>10, <1>a DEF StoreZero, Goto, PhaseOK, CallOK, Processes, still
  <2>1. \A p \in Processes \ {s} : pc'[p] = pc[p] /\ met[p] \subseteq met'[p]
    BY <1>10, <1>a DEF StoreZero, Goto, PhaseOK, CallOK, Processes, still
  <2>2. UNCHANGED <<address, u_addresscnt, oneList>>
    BY <1>10 DEF StoreZero, files, still, private
  <2>3. \A p \in Shells \ {s} : list'[p] = list[p] /\ pos'[p] = pos[p]
    BY <1>10 DEF StoreZero, still, private, CallOK, Processes
  <2>4. Inside(s)' /\ Undisturbed(s)' => \A x \in Shells \ {s} : pc[x] # "copy"
    BY <1>10, <1>a DEF StoreZero, Goto, Inside, Filed, Undisturbed, PhaseOK,
       CallOK, Processes, still
  <2> QED
    BY <2>0, <2>1, <2>2, <2>3, <2>4, <1>10, FiledKept DEF Processes
<1>11. ASSUME NEW s \in Shells, IsStart(s) PROVE Filed'
  <2>0. pc'[s] # "copy"
    BY <1>11, <1>a DEF IsStart, Goto, PhaseOK, CallOK, Processes, still
  <2>1. \A p \in Processes \ {s} : pc'[p] = pc[p] /\ met[p] \subseteq met'[p]
    BY <1>11, <1>a DEF IsStart, Goto, PhaseOK, CallOK, Processes, still
  <2>2. UNCHANGED <<address, u_addresscnt, oneList>>
    BY <1>11 DEF IsStart, files, still, private
  <2>3. \A p \in Shells \ {s} : list'[p] = list[p] /\ pos'[p] = pos[p]
    BY <1>11 DEF IsStart, still, private, CallOK, Processes
  <2>4. Inside(s)' /\ Undisturbed(s)' => \A x \in Shells \ {s} : pc[x] # "copy"
    BY <1>11, <1>a DEF IsStart, Goto, Inside, Filed, Undisturbed, PhaseOK, CallOK, Processes,
       still
  <2> QED
    BY <2>0, <2>1, <2>2, <2>3, <2>4, <1>11, FiledKept DEF Processes
<1>12. ASSUME NEW s \in Shells, IsStop(s) PROVE Filed'
  <2>1. CASE mybuf = Word("stop")
    <3>1. /\ pc[s] = "isStop" /\ pc' = [pc EXCEPT ![s] = "begin"]
          /\ UNCHANGED <<address, u_addresscnt, oneList, list, pos, met>>
      BY <2>1, <1>12 DEF IsStop, Goto, files
    <3> QED
      BY <3>1, <1>12 DEF Filed, Inside, Undisturbed, Whole, PhaseOK, Processes
  <2>2. CASE mybuf # Word("stop")
    <3>1. Return(s, "isStop") /\ UNCHANGED <<address, u_addresscnt, oneList>>
      BY <2>2, <1>12 DEF IsStop, files
    <3>2. pc'[s] = "idle" /\ \A p \in Processes \ {s} : pc'[p] = pc[p]
      BY <3>1, <1>12, GoesOnList DEF Return, PhaseOK, Processes
    <3>3. \A p \in Processes \ {s} : met[p] \subseteq met'[p] /\ pos'[p] = pos[p]
      BY <3>1, <1>12, GoesOn DEF Return, Processes
    <3>4. \A p \in Shells \ {s} : list'[p] = list[p]
      BY <3>1, <1>12, GoesOnList DEF Return, Processes
    <3> QED
      BY <3>1, <3>2, <3>3, <3>4, <1>12, FiledKept DEF Inside, Processes
  <2> QED
    BY <2>1, <2>2
<1>13. ASSUME NEW s \in Shells, Status(s) PROVE Filed'
  <2>0. pc'[s] # "copy"
    BY <1>13, GoesOn, GoesOnList, AfterStopPhase DEF Status, Return, PhaseOK, CallOK, Processes
  <2>1. \A p \in Processes \ {s} : pc'[p] = pc[p] /\ met[p] \subseteq met'[p]
    BY <1>13, GoesOn, GoesOnList, AfterStopPhase DEF Status, Return, PhaseOK, CallOK, Processes
  <2>2. UNCHANGED <<address, u_addresscnt, oneList>>
    BY <1>13 DEF Status, files, still, private
  <2>3. \A p \in Shells \ {s} : list'[p] = list[p] /\ pos'[p] = pos[p]
    BY <1>13, GoesOn, GoesOnList DEF Status, Return, Processes
  <2>4. Inside(s)' /\ Undisturbed(s)' => \A x \in Shells \ {s} : pc[x] # "copy"
    BY <1>13, GoesOnList DEF Status, Return, Inside, PhaseOK, Processes
  <2> QED
    BY <2>0, <2>1, <2>2, <2>3, <2>4, <1>13, FiledKept DEF Processes
<1>14. ASSUME NEW s \in Processes, TestRunning(s) PROVE Filed'
  <2>0. pc'[s] # "copy"
    <3>1. PICK to \in {"wpCleanStart", "unload", "idle", "clean"} : pc' = [pc EXCEPT ![s] = to]
      BY <1>14, AfterStopPhase DEF TestRunning, GotoOrReturn, Goto
    <3> QED
      BY <3>1, <1>14 DEF PhaseOK
  <2>1. \A p \in Processes \ {s} : pc'[p] = pc[p] /\ met[p] \subseteq met'[p]
    BY <1>14, GoesOn, GoesOnList, AfterStopPhase DEF TestRunning, Return, PhaseOK, CallOK,
       Processes
  <2>2. UNCHANGED <<address, u_addresscnt, oneList>>
    BY <1>14 DEF TestRunning, files, still, private
  <2>3. \A p \in Shells \ {s} : list'[p] = list[p] /\ pos'[p] = pos[p]
    BY <1>14, GoesOn, GoesOnList DEF TestRunning, Return, Processes
  <2>4. Inside(s)' /\ Undisturbed(s)' => \A x \in Shells \ {s} : pc[x] # "copy"
    BY <1>14, GoesOnList, AfterStopPhase DEF TestRunning, Return, GotoOrReturn, Inside,
       Filed, Undisturbed, PhaseOK
  <2> QED
    BY <2>0, <2>1, <2>2, <2>3, <2>4, <1>14, FiledKept DEF Processes
<1>15. ASSUME NEW s \in Processes, Within(s) PROVE Filed'
  <2>a. Inner(s) /\ UNCHANGED <<met, list, address, u_addresscnt, oneList>>
    BY <1>15, InnerStep DEF Inner, still
  <2>b. /\ {pc[s], pc'[s]} \subseteq StopPhases \cup InitPhases \cup LoopPhases
        /\ \A p \in Processes \ {s} : pc'[p] = pc[p] /\ pos'[p] = pos[p]
    BY <2>a, <1>15, InnerPhases
  <2>0. pc'[s] # "copy" /\ Inside(s)
    BY <2>b DEF Inside, StopPhases, InitPhases, LoopPhases, AddPhases, Loops
  <2>4. Undisturbed(s)' => \A x \in Shells \ {s} : pc[x] # "copy"
    BY <2>0, <2>a, <1>15, <1>a DEF Filed, Undisturbed
  <2> QED
    BY <2>0, <2>a, <2>b, <2>4, <1>15, FiledKept DEF Processes
<1>16. ASSUME NEW s \in Processes, StopDone(s) PROVE Filed'
  <2>0. pc'[s] # "copy"
    <3>1. PICK to \in {"wpCleanStart", "unload", "idle"} : pc' = [pc EXCEPT ![s] = to]
      BY <1>16, AfterStopPhase DEF StopDone, GotoOrReturn, Goto
    <3> QED
      BY <3>1, <1>16 DEF PhaseOK
  <2>1. \A p \in Processes \ {s} : pc'[p] = pc[p] /\ met[p] \subseteq met'[p]
    BY <1>16, GoesOn, GoesOnList, AfterStopPhase DEF StopDone, Return, PhaseOK, CallOK, Processes
  <2>2. UNCHANGED <<address, u_addresscnt, oneList>>
    BY <1>16 DEF StopDone, files, still, private
  <2>3. \A p \in Shells \ {s} : list'[p] = list[p] /\ pos'[p] = pos[p]
    BY <1>16, GoesOn, GoesOnList DEF StopDone, Return, Processes
  <2>4. Inside(s)' /\ Undisturbed(s)' => \A x \in Shells \ {s} : pc[x] # "copy"
    BY <1>16, GoesOnList, AfterStopPhase DEF StopDone, Return, GotoOrReturn, Inside, Filed,
       Undisturbed, PhaseOK
  <2> QED
    BY <2>0, <2>1, <2>2, <2>3, <2>4, <1>16, FiledKept DEF Processes
<1>17. ASSUME NEW s \in Processes, Started(s) PROVE Filed'
  <2>0. pc'[s] # "copy"
    <3>1. pc' = [pc EXCEPT ![s] = "idle"]
      BY <1>17 DEF Started, Return, GotoOrReturn, Goto
    <3> QED
      BY <3>1, <1>17 DEF PhaseOK
  <2>1. \A p \in Processes \ {s} : pc'[p] = pc[p] /\ met[p] \subseteq met'[p]
    BY <1>17, GoesOn, GoesOnList DEF Started, Return, PhaseOK, Processes
  <2>2. UNCHANGED <<address, u_addresscnt, oneList>>
    BY <1>17 DEF Started, files, still, private
  <2>3. \A p \in Shells \ {s} : list'[p] = list[p] /\ pos'[p] = pos[p]
    BY <1>17, GoesOn, GoesOnList DEF Started, Return, Processes
  <2>4. Inside(s)' /\ Undisturbed(s)' => \A x \in Shells \ {s} : pc[x] # "copy"
    BY <1>17, GoesOnList, AfterStopPhase DEF Started, Return, GotoOrReturn, Inside, Filed,
       Undisturbed, PhaseOK
  <2> QED
    BY <2>0, <2>1, <2>2, <2>3, <2>4, <1>17, FiledKept DEF Processes
<1>18. CASE Exit
  <2>0. pc'[Rmmod] # "copy"
    BY <1>18, <1>a, Begun DEF Exit, PhaseOK, Processes
  <2>1. \A p \in Processes \ {Rmmod} : pc'[p] = pc[p] /\ met[p] \subseteq met'[p]
    BY <1>18, <1>a, Begun DEF Exit, PhaseOK, Processes
  <2>2. UNCHANGED <<address, u_addresscnt, oneList>>
    BY <1>18 DEF Exit, files, still, private
  <2>3. \A p \in Shells \ {Rmmod} : list'[p] = list[p] /\ pos'[p] = pos[p]
    BY <1>18 DEF Exit, Processes
  <2>4. Inside(Rmmod)' /\ Undisturbed(Rmmod)' => \A x \in Shells \ {Rmmod} : pc[x] # "copy"
    BY <1>18, Begun DEF Exit, Inside, Processes, Places, Undisturbed
  <2> QED
    BY <2>0, <2>1, <2>2, <2>3, <2>4, <1>18, FiledKept DEF Processes
<1>19. CASE Unload
  <2>0. pc'[Rmmod] # "copy"
    BY <1>19, <1>a DEF Unload, Goto, PhaseOK, CallOK, Processes, still
  <2>1. \A p \in Processes \ {Rmmod} : pc'[p] = pc[p] /\ met[p] \subseteq met'[p]
    BY <1>19, <1>a DEF Unload, Goto, PhaseOK, CallOK, Processes, still
  <2>2. UNCHANGED <<address, u_addresscnt, oneList>>
    BY <1>19 DEF Unload, files, still, private
  <2>3. \A p \in Shells \ {Rmmod} : list'[p] = list[p] /\ pos'[p] = pos[p]
    BY <1>19 DEF Unload, still, private, CallOK, Processes
  <2>4. Inside(Rmmod)' /\ Undisturbed(Rmmod)' => \A x \in Shells \ {Rmmod} : pc[x] # "copy"
    BY <1>19, <1>a DEF Unload, Goto, Inside, Filed, Undisturbed, PhaseOK, CallOK, Processes,
       still
  <2> QED
    BY <2>0, <2>1, <2>2, <2>3, <2>4, <1>19, FiledKept DEF Processes
<1>20. CASE Trap \/ EndWatch \/ Thread
  <2>1. UNCHANGED <<pc, met, address, u_addresscnt, oneList, list, pos>>
    BY <1>20, ThreadsOnly DEF outside, shell, files
  <2> QED
    BY <2>1 DEF Filed, Inside, Undisturbed, Whole
<1>21. CASE UNCHANGED vars
  <2>1. UNCHANGED <<pc, met, address, u_addresscnt, oneList, list, pos>>
    BY <1>21 DEF shell, shell, files, still, vars
  <2> QED
    BY <2>1 DEF Filed, Inside, Undisturbed, Whole
<1> HIDE DEF shell
<1> QED
  BY <1>1, <1>2, <1>3, <1>4, <1>5, <1>6, <1>7, <1>8, <1>9, <1>10, <1>11, <1>12, <1>13, <1>14,
     <1>15, <1>16, <1>17, <1>18, <1>19, <1>20, <1>21 DEF Next, Serve, Body, WpClean, Within

\* How far bp_init has come.
SoFar(s) ==
  /\ bp_count = u_addresscnt /\ len[s] = u_addresscnt
  /\ pc[s] = "initFlag" => pos[s] = len[s]
  /\ pc[s] = "initState" => bp_addr[pos[s]] = address[pos[s]]
  /\ \A i \in 0..(pos[s] - 1) : bp_addr[i] = address[i]

\* Steps that touch neither the files nor the table.
LEMMA CopiedKept ==
  ASSUME Copied, NEW s \in Processes,
         UNCHANGED <<address, u_addresscnt, bp_addr, bp_count>>, startMet => startMet',
         \A p \in Shells \ {s} : pc'[p] = pc[p] /\ pos'[p] = pos[p] /\ len'[p] = len[p]
                                 /\ met[p] \subseteq met'[p],
         pc'[s] \notin Copying
  PROVE  Copied'
<1> SUFFICES ASSUME ~startMet', NEW x \in Shells, pc'[x] \in Copying, "load" \notin met'[x]
             PROVE  SoFar(x)'
  BY DEF Copied, Undisturbed, SoFar
<1>1. /\ x # s /\ pc'[x] = pc[x] /\ pos'[x] = pos[x] /\ len'[x] = len[x]
      /\ "load" \notin met[x] /\ ~startMet
  OBVIOUS
<1>2. SoFar(x)
  BY <1>1 DEF Copied, Undisturbed, SoFar
<1> QED
  BY <1>1, <1>2 DEF SoFar

\* bp_init itself.
LEMMA CopiedWithin ==
  ASSUME FilesOK, EngineOK, PhaseOK, CallOK, Positions, Copied, ~startMet => Apart,
         NEW s \in Processes, Within(s)
  PROVE  Copied'
<1>a. /\ Inner(s) /\ UNCHANGED <<address, u_addresscnt, met, startMet>>
      /\ Processes = Shells \cup {Rmmod}
  BY InnerStep DEF Inner, still, Processes
<1>b. \A p \in Processes \ {s} : pc'[p] = pc[p] /\ pos'[p] = pos[p] /\ len'[p] = len[p]
  BY <1>a, InnerPhases
<1>1. CASE Elsewhere(s)
  <2>1. pc'[s] \notin Copying
    BY <1>1, NotCopying
  <2>2. UNCHANGED <<bp_addr, bp_count>>
    <3>1. CASE \E loop \in Loops : PlantNext(s, loop)
      BY <3>1, AddOne DEF PlantNext
    <3>2. CASE ~\E loop \in Loops : PlantNext(s, loop)
      BY <1>1, <3>2 DEF Elsewhere, Clean, Drain, WpCleaned, InitFlag, PlantTest, PlantRefused,
         ResetParam, engine, table
    <3> QED
      BY <3>1, <3>2
  <2> QED
    BY <2>1, <2>2, <1>a, <1>b, CopiedKept
\* The others are not in bp_init.
<1>c. ASSUME ~startMet', pc[s] \in InitPhases, NEW x \in Shells, pc'[x] \in Copying
      PROVE  x = s
  BY <1>a, <1>b, <1>c DEF Apart, Copying, InitPhases, WorkPhases
<1>2. CASE InitCount(s)
  <2>1. /\ pc[s] = "initCount" /\ pc'[s] = "initAddr" /\ bp_count' = u_addresscnt
        /\ len'[s] = u_addresscnt /\ pos'[s] = 0
    BY <1>2 DEF InitCount, Goto, PhaseOK, CallOK
  <2> SUFFICES ASSUME ~startMet', NEW x \in Shells, pc'[x] \in Copying, "load" \notin met'[x]
               PROVE  SoFar(x)'
    BY DEF Copied, Undisturbed, SoFar
  <2>2. x = s
    BY <2>1, <1>c DEF InitPhases
  <2> QED
    BY <2>1, <2>2, <1>a DEF SoFar
\* As long as load stays away, the list is the one that bp_init was given.
<1>d. ASSUME ~startMet', pc[s] \in Copying, NEW x \in Shells, pc'[x] \in Copying,
             "load" \notin met'[x]
      PROVE  x = s /\ SoFar(s)
  <2>1. x = s
    BY <1>c, <1>d DEF Copying, InitPhases
  <2> QED
    BY <2>1, <1>a, <1>d DEF Copied, Undisturbed, SoFar
<1>3. CASE InitAddr(s)
  <2>1. /\ pc[s] = "initAddr" /\ pc'[s] = "initState" /\ pos[s] < len[s]
        /\ bp_addr' = [bp_addr EXCEPT ![pos[s]] = address[pos[s]]]
        /\ UNCHANGED <<bp_count, pos, len>>
    BY <1>3 DEF InitAddr, Goto, PhaseOK
  <2>2. pos[s] \in 0..(NAddress - 1)
    <3>1. len[s] \in 0..NAddress /\ pos[s] \in Int /\ pos[s] >= 0
      BY <2>1 DEF CallOK, Positions
    <3> QED
      BY <3>1, <2>1, ListsAssumption
  <2> SUFFICES ASSUME ~startMet', NEW x \in Shells, pc'[x] \in Copying, "load" \notin met'[x]
               PROVE  SoFar(x)'
    BY DEF Copied, Undisturbed, SoFar
  <2>3. x = s /\ SoFar(s)
    BY <2>1, <1>d DEF Copying
  <2>4. bp_addr'[pos[s]] = address[pos[s]]
    BY <2>1, <2>2 DEF EngineOK, Indices
  <2>5. ASSUME NEW i \in 0..(pos[s] - 1)
        PROVE  bp_addr'[i] = address[i]
    <3>1. i \in Indices /\ i # pos[s]
      BY <2>2, ListsAssumption DEF Indices
    <3> QED
      BY <3>1, <2>1, <2>3 DEF EngineOK, SoFar
  <2> QED
    BY <2>1, <2>3, <2>4, <2>5, <1>a DEF SoFar
<1>4. CASE InitState(s)
  <2>1. /\ pc[s] = "initState" /\ pc'[s] = "initAddr" /\ pos'[s] = pos[s] + 1
        /\ UNCHANGED <<bp_addr, bp_count, len>>
    BY <1>4 DEF InitState, Goto, PhaseOK, CallOK
  <2>2. pos[s] \in Int /\ pos[s] >= 0
    BY <2>1 DEF Positions, CallOK
  <2> SUFFICES ASSUME ~startMet', NEW x \in Shells, pc'[x] \in Copying, "load" \notin met'[x]
               PROVE  SoFar(x)'
    BY DEF Copied, Undisturbed, SoFar
  <2>3. x = s /\ SoFar(s)
    BY <2>1, <1>d DEF Copying
  <2>4. ASSUME NEW i \in 0..(pos'[s] - 1)
        PROVE  bp_addr'[i] = address[i]
    <3>1. i = pos[s] \/ i \in 0..(pos[s] - 1)
      BY <2>1, <2>2
    <3> QED
      BY <3>1, <2>1, <2>3 DEF SoFar
  <2> QED
    BY <2>1, <2>3, <2>4, <1>a DEF SoFar
<1>5. CASE InitTrap(s)
  <2>1. /\ pc[s] = "initAddr" /\ pos[s] = len[s] /\ pc'[s] = "initFlag"
        /\ UNCHANGED <<bp_addr, bp_count, pos, len>>
    BY <1>5 DEF InitTrap, Goto, PhaseOK, table
  <2> SUFFICES ASSUME ~startMet', NEW x \in Shells, pc'[x] \in Copying, "load" \notin met'[x]
               PROVE  SoFar(x)'
    BY DEF Copied, Undisturbed, SoFar
  <2>2. x = s /\ SoFar(s)
    BY <2>1, <1>d DEF Copying
  <2> QED
    BY <2>1, <2>2, <1>a DEF SoFar
<1> QED
  BY <1>1, <1>2, <1>3, <1>4, <1>5 DEF Within, Elsewhere

\* Each step keeps what bp_init has copied equal to the files.
LEMMA CopiedNext ==
  TypeOK /\ FilesOK /\ EngineOK /\ PhaseOK /\ CallOK /\
  Positions /\ Places /\ Alone /\ Filed /\ Copied /\ [Next]_vars
    => Copied'
<1> SUFFICES ASSUME TypeOK, FilesOK, EngineOK, PhaseOK, CallOK, Positions, Places, Alone,
    Filed, Copied, [Next]_vars PROVE Copied'
  OBVIOUS
<1>a. Processes = Shells \cup {Rmmod}
  BY DEF Processes
<1>b. ~startMet => Apart
  BY LonelyApart DEF Alone
<1> USE DEF shell
<1>1. ASSUME NEW s \in Shells, NEW l \in Lists, Load(s, l) PROVE Copied'
  <2> SUFFICES ASSUME ~startMet', NEW x \in Shells, pc'[x] \in Copying, "load" \notin met'[x]
               PROVE  SoFar(x)'
    BY DEF Copied, Undisturbed, SoFar
  <2>1. pc' = [pc EXCEPT ![s] = "copy"] /\ \A p \in Processes \ {s} : Inside(p) => "load" \in met'[p]
    BY <1>1, Begun DEF Load, Processes
  <2>2. x # s /\ pc[x] \in Copying
    BY <2>1, <1>1 DEF PhaseOK, Processes, Copying
  <2>3. Inside(x) /\ x \in Processes \ {s}
    BY <2>2, <1>1 DEF Inside, Processes, Copying
  <2> QED
    BY <2>1, <2>3
<1>2. ASSUME NEW s \in Shells, NEW x \in Params, Param(s, x) PROVE Copied'
  <2>1. UNCHANGED <<pc, pos, met, len, address, u_addresscnt, bp_addr, bp_count, startMet>>
    BY <1>2 DEF Param, files, shell, engine, table, still, vars
  <2> QED
    BY <2>1 DEF Copied, Undisturbed
<1>3. ASSUME NEW s \in Shells, NEW c \in {"start", "stop"}, Control(s, c) PROVE Copied'
  <2>1. pc'[s] \notin Copying /\ \A p \in Shells \ {s} : pc'[p] = pc[p]
    BY <1>3, Begun DEF Control, PhaseOK, Processes, Copying
  <2>2. \A p \in Shells \ {s} : pos'[p] = pos[p] /\ len'[p] = len[p] /\ met[p] \subseteq met'[p]
    BY <1>3, Begun DEF Control, CallOK, Processes
  <2>3. UNCHANGED <<address, u_addresscnt, bp_addr, bp_count>> /\ (startMet => startMet')
    BY <1>3 DEF Control, files, engine, table, still, MeetsStart
  <2> QED
    BY <2>1, <2>2, <2>3, <1>3, CopiedKept DEF Processes
<1>4. ASSUME NEW s \in Shells, Monitor(s) PROVE Copied'
  <2>1. pc'[s] \notin Copying /\ \A p \in Shells \ {s} : pc'[p] = pc[p]
    BY <1>4, Begun DEF Monitor, PhaseOK, Processes, Copying
  <2>2. \A p \in Shells \ {s} : pos'[p] = pos[p] /\ len'[p] = len[p] /\ met[p] \subseteq met'[p]
    BY <1>4, Begun DEF Monitor, CallOK, Processes
  <2>3. UNCHANGED <<address, u_addresscnt, bp_addr, bp_count>> /\ (startMet => startMet')
    BY <1>4 DEF Monitor, files, engine, table, still, MeetsStart
  <2> QED
    BY <2>1, <2>2, <2>3, <1>4, CopiedKept DEF Processes
<1>5. ASSUME NEW s \in Shells, Crash(s) PROVE Copied'
  <2>1. pc'[s] \notin Copying /\ \A p \in Shells \ {s} : pc'[p] = pc[p]
    BY <1>5 DEF Crash, Goto, PhaseOK, Processes, Copying
  <2>2. \A p \in Shells \ {s} : pos'[p] = pos[p] /\ len'[p] = len[p] /\ met[p] \subseteq met'[p]
    BY <1>5 DEF Crash, still, private, CallOK, Processes
  <2>3. UNCHANGED <<address, u_addresscnt, bp_addr, bp_count>> /\ (startMet => startMet')
    BY <1>5 DEF Crash, files, engine, table, still, MeetsStart
  <2> QED
    BY <2>1, <2>2, <2>3, <1>5, CopiedKept DEF Processes
<1>6. ASSUME NEW s \in Shells, WriteAddress(s) PROVE Copied'
  <2> SUFFICES ASSUME ~startMet', NEW x \in Shells, pc'[x] \in Copying, "load" \notin met'[x]
               PROVE  SoFar(x)'
    BY DEF Copied, Undisturbed, SoFar
  <2>1. pc[s] = "copy" /\ pc' = pc /\ met' = met
    BY <1>6 DEF WriteAddress
  <2>2. x # s /\ Inside(x) /\ Undisturbed(x) /\ x \in Processes
    BY <2>1, <1>a DEF Inside, Undisturbed, Copying
  <2> QED
    BY <2>1, <2>2, <1>6 DEF Filed
<1>7. ASSUME NEW s \in Shells, WriteCount(s) PROVE Copied'
  <2> SUFFICES ASSUME ~startMet', NEW x \in Shells, pc'[x] \in Copying, "load" \notin met'[x]
               PROVE  SoFar(x)'
    BY DEF Copied, Undisturbed, SoFar
  <2>1. pc[s] = "copy" /\ pc'[s] = "idle" /\ \A p \in Processes \ {s} : pc'[p] = pc[p]
    BY <1>7, GoesOnList DEF WriteCount, Return, PhaseOK, Processes, Copying
  <2>2. \A p \in Processes \ {s} : met'[p] = met[p]
    BY <1>7, GoesOn DEF WriteCount, Return, Processes
  <2>3. x # s /\ Inside(x) /\ Undisturbed(x) /\ x \in Processes
    BY <2>1, <2>2, <1>a DEF Inside, Undisturbed, Copying
  <2> QED
    BY <2>1, <2>3, <1>7 DEF Filed
<1>8. ASSUME NEW s \in Shells, Terminate(s) PROVE Copied'
  <2>1. pc'[s] \notin Copying /\ \A p \in Shells \ {s} : pc'[p] = pc[p]
    BY <1>8 DEF Terminate, Goto, PhaseOK, Processes, Copying
  <2>2. \A p \in Shells \ {s} : pos'[p] = pos[p] /\ len'[p] = len[p] /\ met[p] \subseteq met'[p]
    BY <1>8 DEF Terminate, still, private, CallOK, Processes
  <2>3. UNCHANGED <<address, u_addresscnt, bp_addr, bp_count>> /\ (startMet => startMet')
    BY <1>8 DEF Terminate, files, engine, table, still, MeetsStart
  <2> QED
    BY <2>1, <2>2, <2>3, <1>8, CopiedKept DEF Processes
<1>9. ASSUME NEW s \in Shells, Sanitize(s) PROVE Copied'
  <2>1. pc'[s] \notin Copying /\ \A p \in Shells \ {s} : pc'[p] = pc[p]
    BY <1>9 DEF Sanitize, Goto, PhaseOK, Processes, Copying
  <2>2. \A p \in Shells \ {s} : pos'[p] = pos[p] /\ len'[p] = len[p] /\ met[p] \subseteq met'[p]
    BY <1>9 DEF Sanitize, still, private, CallOK, Processes
  <2>3. UNCHANGED <<address, u_addresscnt, bp_addr, bp_count>> /\ (startMet => startMet')
    BY <1>9 DEF Sanitize, files, engine, table, still, MeetsStart
  <2> QED
    BY <2>1, <2>2, <2>3, <1>9, CopiedKept DEF Processes
<1>10. ASSUME NEW s \in Shells, StoreZero(s) PROVE Copied'
  <2>1. pc'[s] \notin Copying /\ \A p \in Shells \ {s} : pc'[p] = pc[p]
    BY <1>10 DEF StoreZero, Goto, PhaseOK, Processes, Copying
  <2>2. \A p \in Shells \ {s} : pos'[p] = pos[p] /\ len'[p] = len[p] /\ met[p] \subseteq met'[p]
    BY <1>10 DEF StoreZero, still, private, CallOK, Processes
  <2>3. UNCHANGED <<address, u_addresscnt, bp_addr, bp_count>> /\ (startMet => startMet')
    BY <1>10 DEF StoreZero, files, engine, table, still, MeetsStart
  <2> QED
    BY <2>1, <2>2, <2>3, <1>10, CopiedKept DEF Processes
<1>11. ASSUME NEW s \in Shells, IsStart(s) PROVE Copied'
  <2>1. \E to \in {"begin", "isStop"} : pc' = [pc EXCEPT ![s] = to]
    BY <1>11 DEF IsStart, Goto
  <2>2. UNCHANGED <<address, u_addresscnt, bp_addr, bp_count, pos, len,
      met>> /\ (startMet => startMet')
    BY <1>11 DEF IsStart, files, engine, table, private
  <2> QED
    BY <2>1, <2>2, <1>11, CopiedKept DEF PhaseOK, Processes, Copying
<1>12. ASSUME NEW s \in Shells, IsStop(s) PROVE Copied'
  <2>1. UNCHANGED <<address, u_addresscnt, bp_addr, bp_count>> /\ (startMet => startMet')
    BY <1>12 DEF IsStop, files, engine, table, MeetsStart
  <2>2. CASE mybuf = Word("stop")
    <3>1. pc' = [pc EXCEPT ![s] = "begin"] /\ UNCHANGED <<pos, len, met>>
      BY <2>2, <1>12 DEF IsStop, Goto
    <3> QED
      BY <2>1, <3>1, <1>12, CopiedKept DEF PhaseOK, Processes, Copying
  <2>3. CASE mybuf # Word("stop")
    <3>1. Return(s, "isStop")
      BY <2>3, <1>12 DEF IsStop
    <3>2. pc'[s] = "idle" /\ \A p \in Shells \ {s} : pc'[p] = pc[p]
      BY <3>1, <1>12, GoesOnList DEF Return, PhaseOK, Processes, Copying
    <3>3. \A p \in Shells \ {s} : pos'[p] = pos[p] /\ len'[p] = len[p] /\ met'[p] = met[p]
      BY <3>1, <1>12, GoesOn DEF Return, Processes
    <3> QED
      BY <2>1, <3>2, <3>3, <1>12, CopiedKept DEF Processes, Copying
  <2> QED
    BY <2>2, <2>3
<1>13. ASSUME NEW s \in Shells, Status(s) PROVE Copied'
  <2>1. pc'[s] \notin Copying /\ \A p \in Shells \ {s} : pc'[p] = pc[p]
    BY <1>13, GoesOnList, AfterStopPhase DEF Status, Return, PhaseOK, Processes, Copying
  <2>2. \A p \in Shells \ {s} : pos'[p] = pos[p] /\ len'[p] = len[p] /\ met[p] \subseteq met'[p]
    BY <1>13, GoesOn DEF Status, Return, Processes
  <2>3. UNCHANGED <<address, u_addresscnt, bp_addr, bp_count>> /\ (startMet => startMet')
    BY <1>13 DEF Status, files, engine, table, still, MeetsStart
  <2> QED
    BY <2>1, <2>2, <2>3, <1>13, CopiedKept DEF Processes
<1>14. ASSUME NEW s \in Processes, TestRunning(s) PROVE Copied'
  <2>1. pc'[s] \notin Copying /\ \A p \in Shells \ {s} : pc'[p] = pc[p]
    <3>1. PICK to \in {"wpCleanStart", "unload", "idle", "clean"} : pc' = [pc EXCEPT ![s] = to]
      BY <1>14, AfterStopPhase DEF TestRunning, GotoOrReturn, Goto
    <3> QED
      BY <3>1, <1>14 DEF PhaseOK, Processes, Copying
  <2>2. \A p \in Shells \ {s} : pos'[p] = pos[p] /\ len'[p] = len[p] /\ met[p] \subseteq met'[p]
    BY <1>14, GoesOn DEF TestRunning, Return, Processes
  <2>3. UNCHANGED <<address, u_addresscnt, bp_addr, bp_count>> /\ (startMet => startMet')
    BY <1>14 DEF TestRunning, files, engine, table, still, MeetsStart
  <2> QED
    BY <2>1, <2>2, <2>3, <1>14, CopiedKept DEF Processes
<1>15. ASSUME NEW s \in Processes, Within(s) PROVE Copied'
  BY <1>15, <1>b, CopiedWithin
<1>16. ASSUME NEW s \in Processes, StopDone(s) PROVE Copied'
  <2>1. pc'[s] \notin Copying /\ \A p \in Shells \ {s} : pc'[p] = pc[p]
    <3>1. PICK to \in {"wpCleanStart", "unload", "idle"} : pc' = [pc EXCEPT ![s] = to]
      BY <1>16, AfterStopPhase DEF StopDone, GotoOrReturn, Goto
    <3> QED
      BY <3>1, <1>16 DEF PhaseOK, Processes, Copying
  <2>2. \A p \in Shells \ {s} : pos'[p] = pos[p] /\ len'[p] = len[p] /\ met[p] \subseteq met'[p]
    BY <1>16, GoesOn DEF StopDone, Return, Processes
  <2>3. UNCHANGED <<address, u_addresscnt, bp_addr, bp_count>> /\ (startMet => startMet')
    BY <1>16 DEF StopDone, files, engine, table, still, MeetsStart
  <2> QED
    BY <2>1, <2>2, <2>3, <1>16, CopiedKept DEF Processes
<1>17. ASSUME NEW s \in Processes, Started(s) PROVE Copied'
  <2>1. pc'[s] \notin Copying /\ \A p \in Shells \ {s} : pc'[p] = pc[p]
    BY <1>17, GoesOnList, AfterStopPhase DEF Started, Return, PhaseOK, Processes, Copying
  <2>2. \A p \in Shells \ {s} : pos'[p] = pos[p] /\ len'[p] = len[p] /\ met[p] \subseteq met'[p]
    BY <1>17, GoesOn DEF Started, Return, Processes
  <2>3. UNCHANGED <<address, u_addresscnt, bp_addr, bp_count>> /\ (startMet => startMet')
    BY <1>17 DEF Started, files, engine, table, still, MeetsStart
  <2> QED
    BY <2>1, <2>2, <2>3, <1>17, CopiedKept DEF Processes
<1>18. CASE Exit
  <2>1. pc'[Rmmod] \notin Copying /\ \A p \in Shells \ {Rmmod} : pc'[p] = pc[p]
    BY <1>18, Begun DEF Exit, PhaseOK, Processes, Copying
  <2>2. \A p \in Shells \ {Rmmod} : pos'[p] = pos[p] /\ len'[p] = len[p] /\ met[p] \subseteq met'[p]
    BY <1>18, Begun DEF Exit, CallOK, Processes
  <2>3. UNCHANGED <<address, u_addresscnt, bp_addr, bp_count>> /\ (startMet => startMet')
    BY <1>18 DEF Exit, files, engine, table, still, MeetsStart
  <2> QED
    BY <2>1, <2>2, <2>3, <1>18, CopiedKept DEF Processes
<1>19. CASE Unload
  <2>1. pc'[Rmmod] \notin Copying /\ \A p \in Shells \ {Rmmod} : pc'[p] = pc[p]
    BY <1>19 DEF Unload, Goto, PhaseOK, Processes, Copying
  <2>2. \A p \in Shells \ {Rmmod} : pos'[p] = pos[p] /\ len'[p] = len[p] /\ met[p] \subseteq met'[p]
    BY <1>19 DEF Unload, still, private, CallOK, Processes
  <2>3. UNCHANGED <<address, u_addresscnt, bp_addr, bp_count>> /\ (startMet => startMet')
    BY <1>19 DEF Unload, files, engine, table, still, MeetsStart
  <2> QED
    BY <2>1, <2>2, <2>3, <1>19, CopiedKept DEF Processes
<1>20. CASE Trap \/ EndWatch \/ Thread
  <2>1. UNCHANGED <<pc, pos, met, len, address, u_addresscnt, bp_addr, bp_count, startMet>>
    BY <1>20, ThreadsOnly DEF outside, shell, files
  <2> QED
    BY <2>1 DEF Copied, Undisturbed
<1>21. CASE UNCHANGED vars
  <2>1. UNCHANGED <<pc, pos, met, len, address, u_addresscnt, bp_addr, bp_count, startMet>>
    BY <1>21 DEF shell, files, shell, engine, table, still, vars
  <2> QED
    BY <2>1 DEF Copied, Undisturbed
<1> HIDE DEF shell
<1> QED
  BY <1>1, <1>2, <1>3, <1>4, <1>5, <1>6, <1>7, <1>8, <1>9, <1>10, <1>11, <1>12, <1>13, <1>14,
     <1>15, <1>16, <1>17, <1>18, <1>19, <1>20, <1>21 DEF Next, Serve, Body, WpClean, Within

-----------------------------------------------------------------------------
(* The inductive invariant *)

Inv == TypeOK /\ Positions /\ Places /\ Alone /\ Worded /\ Filed /\ Copied

\* It holds when the module is loaded ...
LEMMA InitInv == Init => Inv
<1> SUFFICES ASSUME Init PROVE Inv
  OBVIOUS
<1>1. \A p \in Processes : pc[p] = "idle" /\ doing[p] = "none"
  BY DEF Init
<1>2. PICK l \in Lists \cup {<<>>} :
        /\ address = [i \in Indices |-> IF i < Len(l) THEN l[i + 1] ELSE NoAddr]
        /\ u_addresscnt = Len(l)
  BY DEF Init
<1>3. l \in Seq(Addr) /\ Len(l) \in 0..NAddress
  <2>1. CASE l \in Lists
    BY <2>1, ListsAssumption
  <2>2. CASE l = <<>>
    BY <2>2, ListsAssumption
  <2> QED
    BY <2>1, <2>2
<1>4. \A i \in 1..Len(l) : address[i - 1] = l[i]
  <2> SUFFICES ASSUME NEW i \in 1..Len(l) PROVE address[i - 1] = l[i]
    OBVIOUS
  <2>1. i - 1 \in Indices /\ i - 1 < Len(l) /\ (i - 1) + 1 = i
    BY <1>3, ListsAssumption DEF Indices
  <2> QED
    BY <2>1, <1>2
<1>5. FilesOK
  <2>1. address \in [Indices -> Addr \cup {NoAddr}]
    <3> SUFFICES ASSUME NEW i \in Indices
                 PROVE  (IF i < Len(l) THEN l[i + 1] ELSE NoAddr) \in Addr \cup {NoAddr}
      BY <1>2
    <3>1. ASSUME i < Len(l) PROVE l[i + 1] \in Addr
      <4>1. i + 1 \in 1..Len(l)
        BY <3>1, <1>3, ListsAssumption DEF Indices
      <4> QED
        BY <4>1, <1>3
    <3> QED
      BY <3>1
  <2>2. mybuf \in [middle : {"none", "ar", "op"}, fifth : {"end", "t"}]
    BY DEF Init
  <2>3. i_param \in Int /\ running \in BOOLEAN
    <3>1. i_param \in Int
      BY DEF Init
    <3>2. running \in BOOLEAN
      BY DEF Init
    <3> QED
      BY <3>1, <3>2
  <2> QED
    BY <2>1, <2>2, <2>3, <1>2, <1>3 DEF FilesOK
<1>6. EngineOK
  <2>1. /\ bp_addr = [i \in Indices |-> NoAddr] /\ used = {} /\ bp_count = 0
        /\ bp_trap_count = 0 /\ removed = 0 /\ held = 0 /\ adding = 0 /\ leaving = 0
    BY DEF Init
  <2>2. bp_count \in 0..NAddress /\ bp_trap_count \in Int /\ ThreadsOK
    BY <2>1, ListsAssumption DEF ThreadsOK
  <2>3. bp_addr \in [Indices -> Addr \cup {NoAddr}]
    BY <2>1
  <2>4. bp_stopping \in BOOLEAN /\ loaded \in BOOLEAN /\ latePlant \in BOOLEAN
    BY DEF Init
  <2> QED
    BY <2>1, <2>2, <2>3, <2>4 DEF EngineOK
<1>7. PhaseOK
  BY DEF Init, PhaseOK, Phases
<1>8. CallOK
  <2>1. /\ pos = [p \in Processes |-> 0] /\ len = [p \in Processes |-> 0] /\ commands = 0
        /\ met = [p \in Processes |-> {}]
    BY DEF Init
  <2>2. commands \in 0..MaxCommands /\ pos \in [Processes -> Int] /\ len \in [Processes -> 0..NAddress]
    BY <2>1, ListsAssumption
  <2>3. met \in [Processes -> SUBSET {"load", "word"}]
    BY <2>1
  <2>4. oneList \in BOOLEAN /\ startMet \in BOOLEAN
    BY DEF Init
  <2> QED
    BY <2>2, <2>3, <2>4 DEF CallOK
<1>9. Positions
  BY <1>1 DEF Init, Positions, Processes
<1>10. Places
  BY <1>1 DEF Init, Places, Inside, Reading, StopPhases, InitPhases, LoopPhases,
     AddPhases, Loops, Processes
<1>11. Lonely
  BY <1>1 DEF Lonely, Starting, Working, Inside
<1>12. AtRest
  BY <1>1 DEF Init, AtRest, Empty, InitPhases, LoopPhases, AddPhases, Loops
<1>13. Worded
  BY <1>1 DEF Worded, OwnWord, Reading, Processes
<1>14. Filed
  BY <1>1, <1>2, <1>4 DEF Filed, Inside, Whole, Processes
<1>15. Copied
  BY <1>1 DEF Copied, Copying, Processes
<1> QED
  BY <1>5, <1>6, <1>7, <1>8, <1>9, <1>10, <1>11, <1>12, <1>13, <1>14, <1>15,
     TypeParts DEF Inv, Alone

\* ... and every step preserves it.
LEMMA NextInv == Inv /\ [Next]_vars => Inv'
<1> SUFFICES ASSUME Inv, [Next]_vars PROVE Inv'
  OBVIOUS
<1>1. /\ TypeOK /\ FilesOK /\ EngineOK /\ PhaseOK /\ CallOK
      /\ Positions /\ Places /\ Alone /\ Worded /\ Filed /\ Copied
  BY TypeParts DEF Inv
<1>2. FilesOK' /\ EngineOK' /\ PhaseOK' /\ CallOK' /\ Positions' /\ Places'
  BY <1>1, FilesNext, EngineNext, PhaseNext, CallNext, PositionsNext, PlacesNext
<1>3. Alone'
  BY <1>1, LonelyNext, RestNext DEF Alone
<1>4. Worded' /\ Filed' /\ Copied'
  BY <1>1, WordedNext, FiledNext, CopiedNext
<1>5. TypeOK'
  BY <1>2 DEF TypeOK, FilesOK, EngineOK, ThreadsOK, PhaseOK, CallOK
<1> QED
  BY <1>2, <1>3, <1>4, <1>5 DEF Inv

\* The inductive invariant holds in every reachable state.
THEOREM ConsoleInvariant == Spec => []Inv
  BY InitInv, NextInv, PTL DEF Spec
-----------------------------------------------------------------------------
(* The properties *)

\* Types, for any number of shells and commands: no index leaves a table.
THEOREM ConsoleTypeCorrect == Spec => []TypeOK
<1>1. Inv => TypeOK
  BY DEF Inv
<1> QED
  BY <1>1, ConsoleInvariant, PTL

\* bp_init: the table is one list when nobody wrote to the files meanwhile, and empty
\* but for what bp_add has planted after bp_clean.
THEOREM ListCorrect == Spec => []ListWhole
<1>1. Inv => ListWhole
  <2> SUFFICES ASSUME Inv, NEW s \in Shells, pc[s] = "initFlag", oneList, "load" \notin met[s],
                      ~startMet
               PROVE  /\ Empty
                      /\ \E l \in Lists \cup {<<>>} :
                           bp_count = Len(l) /\ \A i \in 1..Len(l) : bp_addr[i - 1] = l[i]
    BY DEF ListWhole, Empty
  <2>1. Apart /\ AtRest /\ s \in Processes
    BY LonelyApart DEF Inv, Alone, Processes
  <2>2. Empty
    <3>1. ~running
      BY <2>1 DEF AtRest, InitPhases
    <3>2. \A p \in Processes : pc[p] \notin LoopPhases
      BY <2>1 DEF Apart, InitPhases, LoopPhases, AddPhases, Loops, WorkPhases
    <3> QED
      BY <2>1, <3>1, <3>2 DEF AtRest
  <2>3. PICK l \in Lists \cup {<<>>} : Whole(l)
    BY DEF Inv, Filed
  <2>4. /\ bp_count = u_addresscnt /\ pos[s] = u_addresscnt
        /\ \A i \in 0..(pos[s] - 1) : bp_addr[i] = address[i]
    BY DEF Inv, Copied, Copying, Undisturbed
  <2>5. Len(l) \in Nat /\ u_addresscnt = Len(l) /\ \A i \in 1..Len(l) : address[i - 1] = l[i]
    <3>1. u_addresscnt \in Nat
      BY ListsAssumption DEF Inv, TypeOK
    <3> QED
      BY <3>1, <2>3 DEF Whole
  <2>6. \A i \in 1..Len(l) : i - 1 \in 0..(pos[s] - 1)
    BY <2>4, <2>5
  <2> QED
    BY <2>2, <2>4, <2>5, <2>6
<1> QED
  BY <1>1, ConsoleInvariant, PTL

\* bp_trap_count counts the threads, while every start runs alone.
THEOREM CountCorrect == Spec => []CountExact
<1>1. Inv => CountExact
  BY DEF Inv, Alone, AtRest, CountExact
<1> QED
  BY <1>1, ConsoleInvariant, PTL

\* A process at rest: no start is in its loops while a stop or rmmod is at work.
LEMMA RestBy ==
  ASSUME Inv, ~startMet, ~running, NEW p \in Processes, pc[p] \in WorkPhases \ LoopPhases
  PROVE  Empty /\ held = 0
<1>1. Apart /\ AtRest
  BY LonelyApart DEF Inv, Alone
<1>2. \A q \in Processes : pc[q] \notin LoopPhases
  BY <1>1 DEF Apart
<1> QED
  BY <1>1, <1>2 DEF AtRest

\* exit_drddr leaves no thread behind, and no breakpoint but one planted after
\* bp_clean, unless a start was once not alone.
THEOREM UnloadCorrect == Spec => []UnloadedClean
<1>1. Inv => UnloadedClean
  <2> SUFFICES ASSUME Inv, ~loaded, ~startMet PROVE Empty /\ held = 0
    BY DEF UnloadedClean, Empty
  <2>1. pc[Rmmod] = "gone" /\ Rmmod \in Processes
    BY DEF Inv, Places, Processes
  <2>2. ~running
    BY <2>1 DEF Inv, Alone, AtRest
  <2> QED
    BY <2>1, <2>2, RestBy DEF WorkPhases, LoopPhases, AddPhases, Loops
<1> QED
  BY <1>1, ConsoleInvariant, PTL

\* bp_monitor and wp_monitor stay within mon_buf for a list of Fits entries.
THEOREM MonitorCorrect == Spec => []MonitorFits
<1>1. Inv => MonitorFits
  <2> SUFFICES ASSUME Inv, NEW s \in Shells, pc[s] = "read", len[s] <= Fits
               PROVE  pos[s] <= MonBufSize
    BY DEF MonitorFits
  <2>1. pos[s] <= Title + (UNUSED * len[s]) + Wp(4)
    BY DEF Inv, Positions
  <2>2. len[s] \in Int /\ pos[s] \in Int /\ MonBufSize \in Int
    BY ListsAssumption DEF Inv, TypeOK, Processes
  <2>3. Title + Wp(4) = 231 /\ UNUSED = 48
    BY DEF Title, Wp, UNUSED
  <2>4. len[s] <= (MonBufSize - 231) \div 48 => 48 * len[s] <= MonBufSize - 231
    BY <2>2
  <2> QED
    BY <2>1, <2>2, <2>3, <2>4 DEF Fits, Title, Wp, UNUSED
<1> QED
  BY <1>1, ConsoleInvariant, PTL

\* What a stop leaves when it returns to its shell.
OffAndEmpty == ~running' /\ held' = 0 /\ (used' = {} \/ latePlant')
StopStep ==
  \A s \in Shells :
    doing[s] = "stop" /\ ~Reading(s) /\ pc'[s] = "idle" /\ pc[s] # "idle" =>
      \/ OffAndEmpty
      \/ startMet

\* Every step.
LEMMA StopReturns ==
  Inv /\ [Next]_vars => [StopStep]_vars
<1> SUFFICES ASSUME Inv, [Next]_vars, NEW s \in Shells, doing[s] = "stop", ~Reading(s),
                    pc'[s] = "idle", pc[s] # "idle", ~startMet
             PROVE  OffAndEmpty
  BY DEF StopStep, OffAndEmpty
<1>a. /\ pc \in [Processes -> Phases] /\ doing \in [Processes -> Activities \cup {"none"}]
      /\ s \in Processes
  BY DEF Inv, TypeOK, Processes
<1>b. pc'[s] = "idle" /\ pc[s] # "idle" /\ doing[s] = "stop" /\ ~Reading(s) /\ ~startMet /\ Inv
  OBVIOUS
<1> USE DEF OffAndEmpty
<1>1. ASSUME NEW q \in Shells, NEW l \in Lists, Load(q, l) PROVE OffAndEmpty
  BY <1>1, <1>a, <1>b, Begun DEF Load, Inv, Processes
<1>2. ASSUME NEW q \in Shells, NEW x \in Params, Param(q, x) PROVE OffAndEmpty
  BY <1>2, <1>a, <1>b DEF Param, shell, private, still, Processes
<1>3. ASSUME NEW q \in Shells, NEW c \in {"start", "stop"}, Control(q, c) PROVE OffAndEmpty
  BY <1>3, <1>a, <1>b, Begun DEF Control, Inv, Processes
<1>4. ASSUME NEW q \in Shells, Monitor(q) PROVE OffAndEmpty
  BY <1>4, <1>a, <1>b, Begun DEF Monitor, Inv, Processes
<1>5. ASSUME NEW q \in Shells, Crash(q) PROVE OffAndEmpty
  BY <1>5, <1>a, <1>b DEF Crash, shell, private, still, Processes
<1>6. ASSUME NEW q \in Shells, WriteAddress(q) PROVE OffAndEmpty
  BY <1>6, <1>a, <1>b DEF WriteAddress, shell, private, still, Processes
<1>7. ASSUME NEW q \in Shells, WriteCount(q) PROVE OffAndEmpty
  BY <1>7, <1>a, <1>b DEF WriteCount, Return, GotoOrReturn, Goto, Inv, Places, Inside,
     Reading, LoopPhases
<1>8. ASSUME NEW q \in Shells, Terminate(q) PROVE OffAndEmpty
  BY <1>8, <1>a, <1>b DEF Terminate, Goto, shell, private, still, Processes
<1>9. ASSUME NEW q \in Shells, Sanitize(q) PROVE OffAndEmpty
  <2>1. pc[q] = "sanitize" /\ \E to \in {"zero", "isStart"} : pc' = [pc EXCEPT ![q] = to]
    BY <1>9 DEF Sanitize, Goto
  <2> QED
    BY <2>1, <1>9, <1>a, <1>b
<1>10. ASSUME NEW q \in Shells, StoreZero(q) PROVE OffAndEmpty
  BY <1>10, <1>a, <1>b DEF StoreZero, Goto
<1>11. ASSUME NEW q \in Shells, IsStart(q) PROVE OffAndEmpty
  BY <1>11, <1>a, <1>b DEF IsStart, Goto, shell, private, still, Processes
<1>12. ASSUME NEW q \in Shells, IsStop(q) PROVE OffAndEmpty
  <2>1. pc[q] = "isStop" /\ \E to \in Phases : pc' = [pc EXCEPT ![q] = to]
    BY <1>12 DEF IsStop, Return, GotoOrReturn, Goto, Phases
  <2> QED
    BY <2>1, <1>a, <1>b DEF Reading
<1>13. ASSUME NEW q \in Shells, Status(q) PROVE OffAndEmpty
  BY <1>13, <1>a, <1>b DEF Status, Return, GotoOrReturn, Goto, Inv, Places, Inside, Reading,
     LoopPhases, AddPhases, Loops
<1>14. ASSUME NEW q \in Processes, TestRunning(q) PROVE OffAndEmpty
  <2>1. CASE q = s
    <3>1. /\ pc[s] = "begin" /\ UNCHANGED <<used, latePlant, held, running>>
          /\ pc' = [pc EXCEPT ![s] = IF running THEN "clean" ELSE AfterStop(s)]
      BY <2>1, <1>14 DEF TestRunning, GotoOrReturn, Goto, engine, table, threads
    <3>2. ~running
      BY <3>1, <1>a, <1>b
    <3>3. Empty /\ held = 0
      BY <3>1, <3>2, <1>a, <1>b, RestBy DEF WorkPhases, StopPhases, LoopPhases, AddPhases, Loops
    <3> QED
      BY <3>1, <3>2, <3>3 DEF Empty
  <2>2. CASE q # s
    BY <2>2, <1>14, <1>a, <1>b DEF TestRunning, GotoOrReturn, Goto
  <2> QED
    BY <2>1, <2>2
<1>15. ASSUME NEW q \in Processes, Within(q) PROVE OffAndEmpty
  <2>1. Inner(q)
    BY <1>15, InnerStep, TypeParts DEF Inv
  <2>2. /\ {pc[q], pc'[q]} \subseteq StopPhases \cup InitPhases \cup LoopPhases
        /\ \A p \in Processes \ {q} : pc'[p] = pc[p]
    BY <2>1, <1>15, InnerPhases, TypeParts DEF Inv
  <2> QED
    BY <2>2, <1>a, <1>b DEF StopPhases, InitPhases, LoopPhases, AddPhases, Loops
<1>16. ASSUME NEW q \in Processes, StopDone(q) PROVE OffAndEmpty
  <2>1. CASE q = s
    <3>1. pc[s] = "wpCleanStop" /\ running' = FALSE /\ UNCHANGED <<used, latePlant, held>>
      BY <2>1, <1>16 DEF StopDone, GotoOrReturn, Goto, engine, table, threads
    <3>2. Empty /\ held = 0
      BY <3>1, <1>a, <1>b DEF Inv, Alone, AtRest
    <3> QED
      BY <3>1, <3>2 DEF Empty
  <2>2. CASE q # s
    BY <2>2, <1>16, <1>a, <1>b DEF StopDone, GotoOrReturn, Goto
  <2> QED
    BY <2>1, <2>2
<1>17. ASSUME NEW q \in Processes, Started(q) PROVE OffAndEmpty
  BY <1>17, <1>a, <1>b DEF Started, Return, GotoOrReturn, Goto, Inv, Places, Inside, Reading,
     LoopPhases, AddPhases, Loops
<1>18. CASE Exit
  BY <1>18, <1>a, <1>b, Begun DEF Exit, Inv, Processes
<1>19. CASE Unload
  BY <1>19, <1>a, <1>b DEF Unload, Goto, shell, private, still, Processes
<1>20. CASE Trap \/ EndWatch \/ Thread
  BY <1>20, <1>a, <1>b, ThreadsOnly DEF outside, shell
<1>21. CASE UNCHANGED vars
  BY <1>21, <1>a, <1>b DEF vars, shell, private, still, Processes
<1> QED
  BY <1>1, <1>2, <1>3, <1>4, <1>5, <1>6, <1>7, <1>8, <1>9, <1>10, <1>11, <1>12, <1>13, <1>14,
     <1>15, <1>16, <1>17, <1>18, <1>19, <1>20, <1>21 DEF Next, Serve, Body, WpClean, Within

\* stop leaves the detector off and no thread at work, nor a breakpoint planted unless
\* after bp_clean, while every start runs alone.
THEOREM StopCorrect == Spec => StopTakesEffect
  BY ConsoleInvariant, StopReturns, PTL DEF Spec, StopTakesEffect, StopStep, OffAndEmpty

\* What update_status runs.
RunOrMixed(s) ==
  \/ pc'[s] = "begin" /\ doing'[s] = doing[s]
  \/ "word" \in met[s] \/ pc'[s] = "crashed"
ServeStep == \A s \in Shells : Reading(s) /\ ~Reading(s)' => RunOrMixed(s)

\* Every step.
LEMMA CommandRuns ==
  Inv /\ [Next]_vars => [ServeStep]_vars
<1> SUFFICES ASSUME Inv, [Next]_vars, NEW s \in Shells, Reading(s), ~Reading(s)'
             PROVE  RunOrMixed(s)
  BY DEF ServeStep, RunOrMixed
<1>a. /\ pc \in [Processes -> Phases] /\ doing \in [Processes -> Activities \cup {"none"}]
      /\ s \in Processes
  BY DEF Inv, TypeOK, Processes
<1>b. Inv /\ Reading(s) /\ ~Reading(s)'
  OBVIOUS
<1> USE DEF RunOrMixed
<1>1. ASSUME NEW q \in Shells, NEW l \in Lists, Load(q, l) PROVE RunOrMixed(s)
  BY <1>1, <1>a, <1>b, Begun DEF Load, Inv, Processes, Reading
<1>2. ASSUME NEW q \in Shells, NEW x \in Params, Param(q, x) PROVE RunOrMixed(s)
  BY <1>2, <1>a, <1>b DEF Param, shell, private, still, Processes, Reading
<1>3. ASSUME NEW q \in Shells, NEW c \in {"start", "stop"}, Control(q, c) PROVE RunOrMixed(s)
  BY <1>3, <1>a, <1>b, Begun DEF Control, Inv, Processes, Reading
<1>4. ASSUME NEW q \in Shells, Monitor(q) PROVE RunOrMixed(s)
  BY <1>4, <1>a, <1>b, Begun DEF Monitor, Inv, Processes, Reading
<1>5. ASSUME NEW q \in Shells, Crash(q) PROVE RunOrMixed(s)
  BY <1>5, <1>a, <1>b DEF Crash, shell, private, still, Processes, Reading
<1>6. ASSUME NEW q \in Shells, WriteAddress(q) PROVE RunOrMixed(s)
  BY <1>6, <1>a, <1>b DEF WriteAddress, shell, private, still, Processes, Reading
<1>7. ASSUME NEW q \in Shells, WriteCount(q) PROVE RunOrMixed(s)
  BY <1>7, <1>a, <1>b DEF WriteCount, Return, GotoOrReturn, Goto, shell, private, still,
     Processes, Reading
<1>8. ASSUME NEW q \in Shells, Terminate(q) PROVE RunOrMixed(s)
  BY <1>8, <1>a, <1>b DEF Terminate, Goto, shell, private, still, Processes, Reading
<1>9. ASSUME NEW q \in Shells, Sanitize(q) PROVE RunOrMixed(s)
  <2>1. pc[q] = "sanitize" /\ \E to \in {"zero", "isStart"} : pc' = [pc EXCEPT ![q] = to]
    BY <1>9 DEF Sanitize, Goto
  <2> QED
    BY <2>1, <1>9, <1>a, <1>b DEF Reading
<1>10. ASSUME NEW q \in Shells, StoreZero(q) PROVE RunOrMixed(s)
  BY <1>10, <1>a, <1>b DEF StoreZero, Goto, Reading
<1>11. ASSUME NEW q \in Shells, IsStart(q) PROVE RunOrMixed(s)
  <2>1. CASE q = s
    <3>1. /\ pc[s] = "isStart" /\ mybuf' = mybuf
          /\ mybuf = Word("start") => pc' = [pc EXCEPT ![s] = "begin"] /\ doing' = [doing EXCEPT ![s] = "start"]
          /\ mybuf # Word("start") => pc' = [pc EXCEPT ![s] = "isStop"]
      BY <2>1, <1>11 DEF IsStart, Goto, files
    <3>2. mybuf = Word("start")
      BY <3>1, <1>a, <1>b DEF Reading
    <3>3. doing[s] \in {"start", "stop"}
      BY <1>b, <1>a DEF Inv, Places
    <3>4. "word" \notin met[s] => mybuf.middle = Word(doing[s]).middle
      BY <1>b DEF Inv, Worded, OwnWord
    <3>5. mybuf.middle = "ar" /\ Word("stop").middle = "op"
      BY <3>2 DEF Word
    <3>6. "word" \notin met[s] => doing[s] = "start"
      BY <3>3, <3>4, <3>5
    <3> QED
      BY <3>1, <3>2, <3>6, <1>a
  <2>2. CASE q # s
    BY <2>2, <1>11, <1>a, <1>b DEF IsStart, Goto, Reading
  <2> QED
    BY <2>1, <2>2
<1>12. ASSUME NEW q \in Shells, IsStop(q) PROVE RunOrMixed(s)
  <2>1. CASE q = s
    <3>1. /\ pc[s] = "isStop"
          /\ mybuf = Word("stop") => pc' = [pc EXCEPT ![s] = "begin"] /\ doing' = [doing EXCEPT ![s] = "stop"]
      BY <2>1, <1>12 DEF IsStop, Return, GotoOrReturn, Goto
    <3>2. "word" \notin met[s] =>
            doing[s] = "stop" /\ mybuf.middle = Word("stop").middle /\ mybuf.fifth = Word("stop").fifth
      BY <3>1, <1>b DEF Inv, Worded, OwnWord
    <3>3. "word" \notin met[s] => mybuf = Word("stop")
      BY <3>2 DEF Inv, TypeOK, Word
    <3> QED
      BY <3>1, <3>2, <3>3, <1>a
  <2>2. CASE q # s
    <3>1. \E to \in Phases : pc' = [pc EXCEPT ![q] = to]
      BY <1>12 DEF IsStop, Return, GotoOrReturn, Goto, Phases
    <3> QED
      BY <2>2, <3>1, <1>a, <1>b DEF Reading
  <2> QED
    BY <2>1, <2>2
<1>13. ASSUME NEW q \in Shells, Status(q) PROVE RunOrMixed(s)
  BY <1>13, <1>a, <1>b DEF Status, Return, GotoOrReturn, Goto, shell, private, still,
     Processes, Reading
<1>14. ASSUME NEW q \in Processes, TestRunning(q) PROVE RunOrMixed(s)
  BY <1>14, <1>a, <1>b DEF TestRunning, GotoOrReturn, Goto, shell, private, still, Processes,
     Reading
<1>15. ASSUME NEW q \in Processes, Within(q) PROVE RunOrMixed(s)
  <2>1. Inner(q)
    BY <1>15, InnerStep, TypeParts DEF Inv
  <2>2. /\ {pc[q], pc'[q]} \subseteq StopPhases \cup InitPhases \cup LoopPhases
        /\ \A p \in Processes \ {q} : pc'[p] = pc[p]
    BY <2>1, <1>15, InnerPhases, TypeParts DEF Inv
  <2> QED
    BY <2>2, <1>a, <1>b DEF Reading, StopPhases, InitPhases, LoopPhases, AddPhases, Loops
<1>16. ASSUME NEW q \in Processes, StopDone(q) PROVE RunOrMixed(s)
  BY <1>16, <1>a, <1>b DEF StopDone, GotoOrReturn, Goto, Processes, Reading
<1>17. ASSUME NEW q \in Processes, Started(q) PROVE RunOrMixed(s)
  BY <1>17, <1>a, <1>b DEF Started, Return, GotoOrReturn, Goto, shell, private, still,
     Processes, Reading
<1>18. CASE Exit
  BY <1>18, <1>a, <1>b, Begun DEF Exit, Inv, Processes, Reading
<1>19. CASE Unload
  BY <1>19, <1>a, <1>b DEF Unload, Goto, shell, private, still, Processes, Reading
<1>20. CASE Trap \/ EndWatch \/ Thread
  BY <1>20, <1>a, <1>b, ThreadsOnly DEF outside, shell, Reading
<1>21. CASE UNCHANGED vars
  BY <1>21, <1>a, <1>b DEF vars, shell, private, still, Processes, Reading
<1> QED
  BY <1>1, <1>2, <1>3, <1>4, <1>5, <1>6, <1>7, <1>8, <1>9, <1>10, <1>11, <1>12, <1>13, <1>14,
     <1>15, <1>16, <1>17, <1>18, <1>19, <1>20, <1>21 DEF Next, Serve, Body, WpClean, Within

\* update_status runs the command of the word, unless another's word was stored over
\* it, or another's zero.
THEOREM ServedCorrect == Spec => CommandServed
  BY ConsoleInvariant, CommandRuns, PTL DEF Spec, CommandServed, ServeStep, RunOrMixed
=============================================================================
