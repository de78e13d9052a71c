----------------------------- MODULE DrddrProofs -----------------------------
(***************************************************************************)
(* Theorems about module Drddr.  The module as a whole implements both of  *)
(* its parts, so that what is proved of them holds of it: what wp_clean    *)
(* relies on then follows from StopWaits of Breakpoints, and what stop     *)
(* leaves behind from the registers of Watchpoints.                        *)
(***************************************************************************)
EXTENDS Drddr, TLAPS

\* The parts with their theorems.
BpP == INSTANCE BreakpointsProofs WITH Threads <- Workers
WpP == INSTANCE WatchpointsProofs

-----------------------------------------------------------------------------
(* The assumptions of the parts *)

LEMMA BpAssumptions ==
  /\ BpP!ListsAssumption /\ BpP!ThreadsAssumption
  /\ BpP!ParamsAssumption /\ BpP!NoAddrAssumption
<1>1. BpP!ListsAssumption
  BY EngineAssumption, Zenon DEF Bp!ListsAssumption, BpP!ListsAssumption
<1>2. BpP!ThreadsAssumption
  BY EngineAssumption DEF Bp!ThreadsAssumption, BpP!ThreadsAssumption,
                          Bp!IsFiniteSet, BpP!IsFiniteSet
<1>3. BpP!ParamsAssumption /\ BpP!NoAddrAssumption
  BY EngineAssumption DEF Bp!ParamsAssumption, BpP!ParamsAssumption,
                          Bp!NoAddrAssumption, BpP!NoAddrAssumption
<1> QED
  BY <1>1, <1>2, <1>3

LEMMA WpAssumptions ==
  /\ WpP!CpusAssumption /\ WpP!SlotsAssumption
  /\ WpP!NumAssumption /\ WpP!DataAssumption
BY WatchAssumption
   DEF Wp!CpusAssumption, Wp!SlotsAssumption, Wp!NumAssumption, Wp!DataAssumption,
       WpP!CpusAssumption, WpP!SlotsAssumption, WpP!NumAssumption, WpP!DataAssumption

\* Both instances of a part say the same.
LEMMA BpSame == Bp!Spec => BpP!Spec
BY DEF Bp!table, BpP!table, Bp!control, BpP!control, Bp!vars, BpP!vars, Bp!Orig,
       BpP!Orig, Bp!INT3, BpP!INT3, Bp!Indices, BpP!Indices, Bp!Active, BpP!Active,
       Bp!Used, BpP!Used, Bp!Listed, BpP!Listed, Bp!Matching, BpP!Matching, Bp!Free,
       BpP!Free, Bp!Plant, BpP!Plant, Bp!NoPlant, BpP!NoPlant, Bp!Choices, BpP!Choices,
       Bp!Add, BpP!Add, Bp!RemoveAt, BpP!RemoveAt, Bp!RemoveAll, BpP!RemoveAll,
       Bp!Hooked, BpP!Hooked, Bp!Goto, BpP!Goto, Bp!Trap, BpP!Trap, Bp!BpCheck,
       BpP!BpCheck, Bp!BpRemove, BpP!BpRemove, Bp!BpIncTrapped, BpP!BpIncTrapped,
       Bp!FinishWork, BpP!FinishWork, Bp!BpAddTest, BpP!BpAddTest, Bp!BpAddLocked,
       BpP!BpAddLocked, Bp!BpDecTrapped, BpP!BpDecTrapped, Bp!Leave, BpP!Leave,
       Bp!Resume, BpP!Resume, Bp!ThreadStep, BpP!ThreadStep, Bp!engine, BpP!engine,
       Bp!Load, BpP!Load, Bp!SetParam, BpP!SetParam, Bp!Command, BpP!Command,
       Bp!StartCmd, BpP!StartCmd, Bp!StopCmd, BpP!StopCmd, Bp!ExitCmd, BpP!ExitCmd,
       Bp!BpClean, BpP!BpClean, Bp!Drain, BpP!Drain, Bp!AfterStop, BpP!AfterStop,
       Bp!WpCleanDone, BpP!WpCleanDone, Bp!InitCount, BpP!InitCount, Bp!InitAddr,
       BpP!InitAddr, Bp!InitState, BpP!InitState, Bp!InitTrap, BpP!InitTrap,
       Bp!InitFlag, BpP!InitFlag, Bp!Strided, BpP!Strided, Bp!MoreToPlant,
       BpP!MoreToPlant, Bp!PlantChoice, BpP!PlantChoice, Bp!PlantStride,
       BpP!PlantStride, Bp!PlantNext, BpP!PlantNext, Bp!StartDone, BpP!StartDone,
       Bp!Revert, BpP!Revert, Bp!CtlStep, BpP!CtlStep, Bp!Init, BpP!Init, Bp!Quiet,
       BpP!Quiet, Bp!Next, BpP!Next, Bp!Spec, BpP!Spec

LEMMA WpSame == Wp!Spec => WpP!Spec
BY DEF Wp!Cpus, WpP!Cpus, Wp!Slots, WpP!Slots, Wp!entries, WpP!entries, Wp!registers,
       WpP!registers, Wp!watch, WpP!watch, Wp!handler, WpP!handler, Wp!vars, WpP!vars,
       Wp!AllUsed, WpP!AllUsed, Wp!Mode, WpP!Mode, Wp!Ctrl, WpP!Ctrl, Wp!LoadRegisters,
       WpP!LoadRegisters, Wp!LockAndSend, WpP!LockAndSend, Wp!LoadAndUnlock,
       WpP!LoadAndUnlock, Wp!Ack, WpP!Ack, Wp!Goto, WpP!Goto, Wp!Entering, WpP!Entering,
       Wp!Begin, WpP!Begin, Wp!AddCheck, WpP!AddCheck, Wp!Enter, WpP!Enter, Wp!AddFull,
       WpP!AddFull, Wp!AddLocked, WpP!AddLocked, Wp!AddDone, WpP!AddDone, Wp!Trunc,
       WpP!Trunc, Wp!ReadNum, WpP!ReadNum, Wp!Matches, WpP!Matches, Wp!RemoveLocked,
       WpP!RemoveLocked, Wp!RemoveGone, WpP!RemoveGone, Wp!RemoveDone, WpP!RemoveDone,
       Wp!ThreadStep, WpP!ThreadStep, Wp!Hit, WpP!Hit, Wp!Lowest, WpP!Lowest, Wp!Query,
       WpP!Query, Wp!QueryNone, WpP!QueryNone, Wp!Masked, WpP!Masked, Wp!DbgRemoveLocked, WpP!DbgRemoveLocked, Wp!DbgRemoveDone,
       WpP!DbgRemoveDone, Wp!DbgStep, WpP!DbgStep, Wp!CleanBegin, WpP!CleanBegin,
       Wp!CleanLocked, WpP!CleanLocked, Wp!CleanDone, WpP!CleanDone, Wp!CtlStep,
       WpP!CtlStep, Wp!Init, WpP!Init, Wp!Next, WpP!Next, Wp!Spec, WpP!Spec,
       Wp!Cardinality, WpP!Cardinality, Wp!IsFiniteSet, WpP!IsFiniteSet
-----------------------------------------------------------------------------
(* The whole implements its parts *)

LEMMA BpStep == [Next]_vars => [Bp!Next]_Bp!vars
<1> SUFFICES ASSUME [Next]_vars PROVE Bp!Next \/ UNCHANGED bpVars
  BY DEF bpVars, Bp!vars, Bp!table, Bp!control
<1>1. ASSUME NEW t \in Workers, ThreadStep(t) PROVE Bp!Next \/ UNCHANGED bpVars
  BY <1>1 DEF ThreadStep, EngineStep, BeginWatch, NoOperand, WatchStep,
              Bp!Next, Bp!ThreadStep
<1>2. ASSUME NEW c \in Workers \cup {Ctl}, DebugStep(c) PROVE UNCHANGED bpVars
  BY <1>2 DEF DebugStep
<1>3. ASSUME NEW c \in Workers \cup {Ctl}, AckStep(c) PROVE UNCHANGED bpVars
  BY <1>3 DEF AckStep
<1>4. ControlStep \/ CommandStep => Bp!Next
  BY DEF ControlStep, CommandStep, Bp!Next, Bp!CtlStep
<1>5. CleanStep => Bp!Next \/ UNCHANGED bpVars
  BY DEF CleanStep, Bp!Next, Bp!CtlStep
<1> QED
  BY <1>1, <1>2, <1>3, <1>4, <1>5 DEF Next, vars, Wp!Cpus

\* The engine in the module is the engine of Breakpoints: putting the phases of a
\* watch in the place of one step adds no behaviour.
THEOREM EngineImplemented == Spec => Bp!Spec
<1>1. Init => Bp!Init
  BY DEF Init
<1> QED
  BY <1>1, BpStep, PTL DEF Spec, Bp!Spec

LEMMA WpStep == [Next]_vars => [Wp!Next]_Wp!vars
<1> SUFFICES ASSUME [Next]_vars PROVE Wp!Next \/ UNCHANGED wpVars
  BY DEF wpVars, Wp!vars, Wp!entries, Wp!registers, Wp!watch, Wp!handler
<1>1. ASSUME NEW t \in Workers, ThreadStep(t) PROVE Wp!Next \/ UNCHANGED wpVars
  BY <1>1 DEF ThreadStep, EngineStep, BeginWatch, NoOperand, WatchStep, Wp!Next
<1>2. ASSUME NEW c \in Workers \cup {Ctl}, DebugStep(c) PROVE Wp!Next
  BY <1>2 DEF DebugStep, Wp!Next, Wp!Cpus
<1>3. ASSUME NEW c \in Workers \cup {Ctl}, AckStep(c) PROVE Wp!Next
  BY <1>3 DEF AckStep, Wp!Next, Wp!Cpus
<1>4. ControlStep \/ CommandStep => UNCHANGED wpVars
  BY DEF ControlStep, CommandStep
<1>5. CleanStep => Wp!Next
  BY DEF CleanStep, Wp!Next, Wp!CtlStep
<1> QED
  BY <1>1, <1>2, <1>3, <1>4, <1>5 DEF Next, vars, Wp!Cpus

\* So are the watches those of Watchpoints: the guard of CleanBegin there, that no
\* thread has a watch, never keeps stop from calling wp_clean (see CleanAlone).
THEOREM WatchesImplemented == Spec => Wp!Spec
<1>1. Init => Wp!Init
  BY DEF Init
<1> QED
  BY <1>1, WpStep, PTL DEF Spec, Wp!Spec

\* What is used of the parts.
LEMMA PartsInvariant ==
  Spec => [](/\ BpP!TypeOK /\ Bp!StopWaits
             /\ WpP!TypeOK /\ WpP!RegistersFollowTable /\ WpP!Emptied)
<1>1. BpP!Spec => []BpP!TypeOK /\ []BpP!StopWaits
  BY BpP!TypeCorrect, BpP!StopWaitsCorrect, BpAssumptions, PTL
<1>2. WpP!Spec => []WpP!TypeOK /\ []WpP!RegistersFollowTable
                  /\ [](WpP!OneOwner /\ WpP!Emptied)
  BY WpP!WatchTypeCorrect, WpP!RegistersCorrect, WpP!OwnerCorrect, WpAssumptions, PTL
<1>3. BpP!StopWaits => Bp!StopWaits
  BY DEF Bp!StopWaits, BpP!StopWaits, Bp!Stopped, BpP!Stopped, Bp!Counted, BpP!Counted,
         Bp!InitPhases, BpP!InitPhases
<1> QED
  BY <1>1, <1>2, <1>3, EngineImplemented, WatchesImplemented, BpSame, WpSame, PTL
-----------------------------------------------------------------------------
(* wp_clean is alone *)

\* A thread has a watch only between bp_inc_trapped and bp_add, and wp_clean is at
\* work only when start or stop calls it.
WatchAtWork == \A t \in Workers : wpc[t] # "idle" => pc[t] = "work"
CtlCleaning == wpc[Ctl] # "idle" => Cleaning

Typed == /\ pc \in [Workers -> BpP!Phases]
         /\ wpc \in [WpP!Cpus -> WpP!WorkerPhases \cup WpP!CtlPhases]
         /\ Ctl \notin Workers

LEMMA TypedOK == BpP!TypeOK /\ WpP!TypeOK => Typed
BY WpAssumptions DEF BpP!TypeOK, WpP!TypeOK, Typed, WpP!CpusAssumption

\* What a step of a thread does to the phases: the engine's leave a watch alone.
LEMMA EnginePhases ==
  ASSUME Typed, NEW t \in Workers, EngineStep(t)
  PROVE  UNCHANGED wpc /\ pc[t] # "work" /\ \E p : pc' = [pc EXCEPT ![t] = p]
BY DEF EngineStep, wpVars, Bp!BpCheck, Bp!BpRemove, Bp!BpIncTrapped, Bp!BpAddTest,
       Bp!BpAddLocked, Bp!BpDecTrapped, Bp!Leave, Bp!Resume, Bp!Trap, Bp!Goto

LEMMA WatchPhases ==
  ASSUME NEW t \in Workers, Wp!ThreadStep(t)
  PROVE  wpc[t] # "idle" /\ \E p : wpc' = [wpc EXCEPT ![t] = p]
BY DEF Wp!ThreadStep, Wp!AddCheck, Wp!AddFull, Wp!AddLocked, Wp!AddDone, Wp!ReadNum,
       Wp!RemoveLocked, Wp!RemoveGone, Wp!RemoveDone, Wp!Goto

LEMMA PhasesNext ==
  Typed /\ WatchAtWork /\ CtlCleaning /\ [Next]_vars => WatchAtWork' /\ CtlCleaning'
<1> SUFFICES ASSUME Typed, WatchAtWork, CtlCleaning, [Next]_vars
             PROVE  WatchAtWork' /\ CtlCleaning'
  OBVIOUS
<1> USE DEF Typed, WpP!Cpus
<1>1. ASSUME NEW t \in Workers, EngineStep(t) PROVE WatchAtWork' /\ CtlCleaning'
  <2>1. UNCHANGED ctl
    BY <1>1 DEF EngineStep, Bp!BpCheck, Bp!BpRemove, Bp!BpIncTrapped, Bp!BpAddTest,
                Bp!BpAddLocked, Bp!BpDecTrapped, Bp!Leave, Bp!Resume, Bp!Trap, Bp!control
  <2>2. UNCHANGED wpc /\ pc[t] # "work"
    BY <1>1, EnginePhases
  <2>3. PICK p : pc' = [pc EXCEPT ![t] = p]
    BY <1>1, EnginePhases
  <2> QED
    BY <2>1, <2>2, <2>3 DEF WatchAtWork, CtlCleaning, Cleaning
<1>2. ASSUME NEW t \in Workers, BeginWatch(t) PROVE WatchAtWork' /\ CtlCleaning'
  <2>1. pc[t] = "work" /\ wpc' = [wpc EXCEPT ![t] = "check"] /\ UNCHANGED <<pc, ctl>>
    BY <1>2 DEF BeginWatch, Wp!Begin, Wp!Goto, bpVars
  <2> QED
    BY <2>1 DEF WatchAtWork, CtlCleaning, Cleaning
<1>3. ASSUME NEW t \in Workers, NoOperand(t) PROVE WatchAtWork' /\ CtlCleaning'
  <2>1. /\ wpc[t] = "idle" /\ pc' = [pc EXCEPT ![t] = "readd"]
        /\ UNCHANGED <<wpc, ctl>>
    BY <1>3 DEF NoOperand, Bp!FinishWork, Bp!Goto, Bp!control, wpVars
  <2> QED
    BY <2>1 DEF WatchAtWork, CtlCleaning, Cleaning
<1>4. ASSUME NEW t \in Workers, WatchStep(t) PROVE WatchAtWork' /\ CtlCleaning'
  <2>1. PICK p : wpc' = [wpc EXCEPT ![t] = p]
    BY <1>4, WatchPhases DEF WatchStep
  <2>2. wpc[t] # "idle"
    BY <1>4, WatchPhases DEF WatchStep
  <2>3. CASE wpc'[t] = "idle"
    <3>1. pc' = [pc EXCEPT ![t] = "readd"] /\ UNCHANGED ctl
      BY <1>4, <2>3 DEF WatchStep, Bp!FinishWork, Bp!Goto, Bp!control
    <3> QED
      BY <2>1, <2>3, <3>1 DEF WatchAtWork, CtlCleaning, Cleaning
  <2>4. CASE wpc'[t] # "idle"
    <3>1. UNCHANGED <<pc, ctl>>
      BY <1>4, <2>4 DEF WatchStep, bpVars
    <3> QED
      BY <2>1, <2>2, <3>1 DEF WatchAtWork, CtlCleaning, Cleaning
  <2> QED
    BY <2>3, <2>4
<1>5. ASSUME NEW c \in Workers \cup {Ctl}, DebugStep(c) PROVE UNCHANGED <<pc, ctl, wpc>>
  BY <1>5 DEF DebugStep, bpVars, Wp!Hit, Wp!DbgStep, Wp!Query, Wp!QueryNone, Wp!DbgRemoveLocked,
              Wp!DbgRemoveDone
<1>6. ASSUME NEW c \in Workers \cup {Ctl}, AckStep(c) PROVE UNCHANGED <<pc, ctl, wpc>>
  BY <1>6 DEF AckStep, bpVars, Wp!Ack
<1>7. ASSUME ControlStep \/ CommandStep PROVE WatchAtWork' /\ CtlCleaning'
  <2>1. UNCHANGED <<pc, wpc>>
    BY <1>7 DEF ControlStep, CommandStep, wpVars, Bp!engine,
         Bp!BpClean, Bp!Drain, Bp!InitCount, Bp!InitAddr, Bp!InitState, Bp!InitTrap,
         Bp!InitFlag, Bp!PlantNext, Bp!StartDone, Bp!Revert, Bp!Load, Bp!SetParam,
         Bp!StartCmd, Bp!StopCmd, Bp!ExitCmd, Bp!Command
  <2>2. ~Cleaning
    BY <1>7 DEF ControlStep, CommandStep, Cleaning,
         Bp!BpClean, Bp!Drain, Bp!InitCount, Bp!InitAddr, Bp!InitState, Bp!InitTrap,
         Bp!InitFlag, Bp!PlantNext, Bp!StartDone, Bp!Revert, Bp!Load, Bp!SetParam,
         Bp!StartCmd, Bp!StopCmd, Bp!ExitCmd, Bp!Command
  <2> QED
    BY <2>1, <2>2 DEF WatchAtWork, CtlCleaning
<1>8. ASSUME CleanStep PROVE WatchAtWork' /\ CtlCleaning'
  <2>1. PICK p : wpc' = [wpc EXCEPT ![Ctl] = p]
    BY <1>8 DEF CleanStep, Wp!CleanBegin, Wp!CleanLocked, Wp!CleanDone, Wp!Goto
  <2>2. UNCHANGED pc
    BY <1>8 DEF CleanStep, bpVars, Bp!WpCleanDone, Bp!engine
  <2>3. wpc'[Ctl] = "idle" \/ (Cleaning /\ UNCHANGED ctl)
    BY <1>8 DEF CleanStep, CtlCleaning, bpVars, Wp!CleanBegin, Wp!CleanLocked,
                Wp!CleanDone, Wp!Goto
  <2> QED
    BY <2>1, <2>2, <2>3 DEF WatchAtWork, CtlCleaning, Cleaning
<1>9. ASSUME UNCHANGED <<pc, ctl, wpc>> PROVE WatchAtWork' /\ CtlCleaning'
  BY <1>9 DEF WatchAtWork, CtlCleaning, Cleaning
<1> QED
  BY <1>1, <1>2, <1>3, <1>4, <1>5, <1>6, <1>7, <1>8, <1>9
     DEF Next, ThreadStep, vars, bpVars, wpVars, Wp!Cpus

LEMMA PhasesInvariant == Spec => [](WatchAtWork /\ CtlCleaning)
<1>1. Init => WatchAtWork /\ CtlCleaning
  BY DEF Init, Wp!Init, Wp!Cpus, WatchAtWork, CtlCleaning
<1> QED
  BY <1>1, PhasesNext, TypedOK, PartsInvariant, PTL DEF Spec

\* No lock keeps threads out while wp_clean runs; that bp_clean has waited does.
THEOREM CleanAloneCorrect == Spec => []CleanAlone
<1>1. Bp!StopWaits /\ WatchAtWork => CleanAlone
  BY DEF Bp!StopWaits, Bp!Stopped, Bp!Counted, WatchAtWork, CleanAlone, Cleaning
<1> QED
  BY <1>1, PartsInvariant, PhasesInvariant, PTL
-----------------------------------------------------------------------------
(* What stop leaves behind *)

Off == /\ \A s \in WpP!Slots : ~wp_usage[s]
       /\ \A c \in WpP!Cpus, s \in WpP!Slots : dr7[c][s] = "off"

QuietSince == Bp!Stopped /\ ~Cleaning => Off

\* wp_clean returns when every CPU has loaded an empty table.
LEMMA CleanDoneOff ==
  ASSUME WpP!TypeOK, WpP!RegistersFollowTable, WpP!Emptied, Wp!CleanDone
  PROVE  Off'
<1>1. \A s \in WpP!Slots : ~wp_usage[s] /\ wp_usage'[s] = wp_usage[s]
  BY DEF WpP!Emptied, Wp!CleanDone, Wp!Goto, Wp!entries
<1>2. pending = {Ctl} /\ Wp!LoadRegisters(Ctl)
  BY DEF Wp!CleanDone, Wp!LoadAndUnlock
<1>3. \A c \in WpP!Cpus \ {Ctl}, s \in WpP!Slots : dr7[c][s] = "off"
  BY <1>1, <1>2 DEF WpP!RegistersFollowTable, WpP!Follows
<1>4. \A c \in WpP!Cpus, s \in WpP!Slots : dr7'[c][s] = "off"
  BY <1>1, <1>2, <1>3 DEF WpP!TypeOK, WpP!Slots, Wp!LoadRegisters, Wp!Ctrl, Wp!Slots
<1> QED
  BY <1>1, <1>4 DEF Off

\* A step of the watches leaves an empty table empty unless it is wp_add.
LEMMA OffKept ==
  ASSUME WpP!TypeOK, Off, [Wp!Next]_Wp!vars, \A t \in Workers : wpc[t] # "add"
  PROVE  Off'
<1>1. ASSUME UNCHANGED dr7, \A s \in WpP!Slots : wp_usage'[s] => wp_usage[s] PROVE Off'
  BY <1>1 DEF Off
<1>2. ASSUME NEW c \in WpP!Cpus, Wp!LoadRegisters(c), UNCHANGED wp_usage PROVE Off'
  BY <1>2 DEF Off, WpP!TypeOK, WpP!Slots, Wp!LoadRegisters, Wp!Ctrl, Wp!Slots
<1> USE DEF Wp!entries, Wp!registers, Wp!watch, Wp!handler
<1>3. ASSUME NEW c \in Workers, Wp!ThreadStep(c) PROVE Off'
  <2>1. CASE Wp!AddDone(c) \/ Wp!RemoveDone(c)
    BY <1>2, <2>1 DEF Wp!AddDone, Wp!RemoveDone, Wp!LoadAndUnlock, WpP!Cpus
  <2>2. CASE Wp!RemoveLocked(c)
    <3>1. wp_usage' = [wp_usage EXCEPT ![id[c].dr] = FALSE] /\ UNCHANGED dr7
      BY <2>2 DEF Wp!RemoveLocked
    <3> QED
      BY <1>1, <3>1 DEF WpP!TypeOK
  <2>3. CASE Wp!AddCheck(c) \/ Wp!AddFull(c) \/ Wp!ReadNum(c) \/ Wp!RemoveGone(c)
    BY <1>1, <2>3 DEF Wp!AddCheck, Wp!AddFull, Wp!ReadNum, Wp!RemoveGone
  <2>4. ~Wp!AddLocked(c)
    BY DEF Wp!AddLocked, Wp!Goto
  <2> QED
    BY <1>3, <2>1, <2>2, <2>3, <2>4 DEF Wp!ThreadStep
<1>4. ASSUME NEW c \in WpP!Cpus, Wp!DbgStep(c) PROVE Off'
  <2>1. CASE Wp!DbgRemoveDone(c)
    BY <1>2, <2>1 DEF Wp!DbgRemoveDone, Wp!LoadAndUnlock, WpP!Cpus
  <2>2. CASE Wp!DbgRemoveLocked(c)
    <3>1. wp_usage' = [wp_usage EXCEPT ![slot[c]] = FALSE] /\ UNCHANGED dr7
      BY <2>2 DEF Wp!DbgRemoveLocked
    <3> QED
      BY <1>1, <3>1 DEF WpP!TypeOK
  <2>3. CASE Wp!Query(c) \/ Wp!QueryNone(c)
    BY <1>1, <2>3 DEF Wp!Query, Wp!QueryNone
  <2> QED
    BY <1>4, <2>1, <2>2, <2>3 DEF Wp!DbgStep
<1>5. ASSUME NEW c \in WpP!Cpus, Wp!Ack(c) PROVE Off'
  BY <1>2, <1>5 DEF Wp!Ack
<1>6. ASSUME NEW c \in WpP!Cpus, NEW x \in Accesses, Wp!Begin(c, x) \/ Wp!Hit(c, x)
      PROVE  Off'
  BY <1>1, <1>6 DEF Wp!Begin, Wp!Hit
<1>7. ASSUME Wp!CleanBegin \/ Wp!CtlStep PROVE Off'
  <2>1. CASE Wp!CleanDone
    BY <1>2, <2>1 DEF Wp!CleanDone, Wp!LoadAndUnlock, WpP!Cpus
  <2>2. CASE Wp!CleanBegin \/ Wp!CleanLocked
    BY <1>1, <2>2 DEF Wp!CleanBegin, Wp!CleanLocked, Wp!Slots, WpP!Slots
  <2> QED
    BY <1>7, <2>1, <2>2 DEF Wp!CtlStep
<1>8. ASSUME UNCHANGED Wp!vars PROVE Off'
  BY <1>1, <1>8 DEF Wp!vars
<1> QED
  BY <1>3, <1>4, <1>5, <1>6, <1>7, <1>8 DEF Wp!Next, Wp!Cpus, WpP!Cpus

\* The engine gets from running to stopped through wp_clean only.
LEMMA StopsByCleaning ==
  ASSUME [Next]_vars, Bp!Stopped', ~Cleaning', ~(Bp!Stopped /\ ~Cleaning)
  PROVE  Wp!CleanDone
<1> USE DEF Bp!Stopped, Bp!InitPhases, Cleaning
<1>1. ASSUME NEW t \in Workers, ThreadStep(t) PROVE FALSE
  <2>1. UNCHANGED <<ctl, running>>
    BY <1>1 DEF ThreadStep, EngineStep, BeginWatch, NoOperand, WatchStep, bpVars, Bp!control,
         Bp!BpCheck, Bp!BpRemove, Bp!BpIncTrapped, Bp!BpAddTest, Bp!BpAddLocked,
         Bp!BpDecTrapped, Bp!Leave, Bp!Resume, Bp!Trap, Bp!FinishWork
  <2> QED
    BY <2>1
<1>2. ASSUME NEW c \in Workers \cup {Ctl}, DebugStep(c) PROVE FALSE
  BY <1>2 DEF DebugStep, bpVars
<1>3. ASSUME NEW c \in Workers \cup {Ctl}, AckStep(c) PROVE FALSE
  BY <1>3 DEF AckStep, bpVars
<1>4. ASSUME ControlStep PROVE FALSE
  BY <1>4 DEF ControlStep, Bp!BpClean, Bp!Drain, Bp!InitCount, Bp!InitAddr, Bp!InitState,
       Bp!InitTrap, Bp!InitFlag, Bp!PlantNext, Bp!StartDone, Bp!Revert
<1>5. ASSUME CommandStep PROVE FALSE
  BY <1>5 DEF CommandStep, Bp!Load, Bp!SetParam, Bp!StartCmd, Bp!StopCmd, Bp!ExitCmd,
       Bp!Command
<1>6. ASSUME CleanStep, ~Wp!CleanDone PROVE FALSE
  BY <1>6 DEF CleanStep, bpVars
<1>7. ASSUME UNCHANGED vars PROVE FALSE
  BY <1>7 DEF vars, bpVars
<1> QED
  BY <1>1, <1>2, <1>3, <1>4, <1>5, <1>6, <1>7 DEF Next, Wp!Cpus

LEMMA QuietNext ==
  ASSUME Bp!StopWaits, WpP!TypeOK, WpP!RegistersFollowTable, WpP!Emptied,
         WatchAtWork, QuietSince, [Next]_vars
  PROVE  QuietSince'
<1> SUFFICES ASSUME Bp!Stopped', ~Cleaning' PROVE Off'
  BY DEF QuietSince
<1>1. CASE Bp!Stopped /\ ~Cleaning
  <2>1. \A t \in Workers : wpc[t] # "add"
    BY <1>1 DEF Bp!StopWaits, WatchAtWork, Bp!Counted
  <2>2. [Wp!Next]_Wp!vars
    BY WpStep
  <2> QED
    BY <1>1, <2>1, <2>2, OffKept DEF QuietSince
<1>2. CASE ~(Bp!Stopped /\ ~Cleaning)
  BY <1>2, StopsByCleaning, CleanDoneOff
<1> QED
  BY <1>1, <1>2

\* After stop no watch is in the table and no CPU has a debug register armed, until
\* a start plants again.
THEOREM StoppedQuietCorrect == Spec => []StoppedQuiet
<1>1. Init => QuietSince
  BY DEF Init, Wp!Init, QuietSince, Off, Wp!Slots, Wp!Cpus, WpP!Slots, WpP!Cpus
<1>2. Bp!StopWaits /\ WpP!TypeOK /\ WpP!RegistersFollowTable /\ WpP!Emptied
        /\ WatchAtWork /\ QuietSince /\ [Next]_vars => QuietSince'
  BY QuietNext
<1>3. QuietSince => StoppedQuiet
  BY DEF QuietSince, Off, StoppedQuiet, Wp!Slots, Wp!Cpus, WpP!Slots, WpP!Cpus
<1> QED
  BY <1>1, <1>2, <1>3, PartsInvariant, PhasesInvariant, PTL DEF Spec
=============================================================================
