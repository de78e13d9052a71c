---------------------------- MODULE SamplerProofs ----------------------------
(***************************************************************************)
(* Proof that Breakpoints implements Sampler, and that sampling does not   *)
(* run dry.                                                                *)
(***************************************************************************)
EXTENDS BreakpointsProofs

\* The engine is on between InitFlag and bp_clean, and only then may a thread
\* enter; bp_clean runs for a running detector.
PhaseInv ==
  /\ ctl = "bpClean" => running
  /\ On => ~bp_stopping
  /\ ctl = "wpCleanStop" => bp_stopping

LEMMA PhaseInit == Init => PhaseInv
  BY DEF Init, PhaseInv, On

LEMMA PhaseNext == CoreInv /\ PhaseInv /\ [Next]_vars => PhaseInv'
<1> SUFFICES ASSUME CoreInv, PhaseInv, [Next]_vars PROVE PhaseInv'
  OBVIOUS
<1>1. CASE \E t \in Threads : ThreadStep(t) \/ Resume(t) \/ \E a \in Addr : Trap(t, a)
  <2>1. UNCHANGED <<control, bp_stopping>>
    BY <1>1 DEF ThreadStep, BpCheck, BpRemove, BpIncTrapped, FinishWork, BpAddTest,
                BpAddLocked, BpDecTrapped, Leave, Resume, Trap
  <2> QED
    BY <2>1 DEF PhaseInv, On, control
<1>2. CASE (\E l \in Lists : Load(l)) \/ (\E p \in Params : SetParam(p))
             \/ StartCmd \/ StopCmd \/ ExitCmd
  BY <1>2 DEF Load, SetParam, StartCmd, StopCmd, ExitCmd, Command, engine, PhaseInv, On
<1>3. CASE BpClean \/ Drain \/ WpCleanDone
  BY <1>3 DEF BpClean, Drain, WpCleanDone, AfterStop, engine, PhaseInv, On, CoreInv, Closed
<1>4. CASE InitCount \/ InitAddr \/ InitState \/ InitTrap \/ InitFlag
  BY <1>4 DEF InitCount, InitAddr, InitState, InitTrap, InitFlag, engine, PhaseInv, On
<1>5. CASE PlantNext \/ StartDone \/ Revert
  BY <1>5 DEF PlantNext, StartDone, Revert, engine, PhaseInv, On
<1>6. CASE Quiet \/ UNCHANGED vars
  BY <1>6 DEF Quiet, vars, control, PhaseInv, On
<1> QED
  BY <1>1, <1>2, <1>3, <1>4, <1>5, <1>6 DEF Next, CtlStep
-----------------------------------------------------------------------------
(* The refinement *)

AllInv == CoreInv /\ TableInv /\ PhaseInv

Phase    == IF On THEN "on" ELSE IF ctl = "drain" THEN "stopping" ELSE "off"
Listing  == IF On \/ ctl = "drain" THEN {bp_addr[i] : i \in Active} ELSE {}
PlantedAt == {a \in Addr : text[a] = INT3}

\* The phases of the two specifications.
LEMMA PhaseOf ==
  ASSUME AllInv
  PROVE  /\ Phase = "on" <=> On
         /\ Phase = "stopping" <=> ctl = "drain"
         /\ Phase = "off" <=> Stopped
<1>1. ctl \in CtlPhases
  BY DEF AllInv, CoreInv, TypeOK
<1>2. On \/ ctl = "drain" \/ Stopped
  BY <1>1 DEF AllInv, PhaseInv, On, Stopped, CtlPhases
<1>3. ~(On /\ ctl = "drain") /\ ~(On /\ Stopped) /\ ~(ctl = "drain" /\ Stopped)
  BY DEF On, Stopped, InitPhases
<1> QED
  BY <1>2, <1>3 DEF Phase

\* A step that changes nothing the sampler has.
LEMMA Stutter ==
  ASSUME UNCHANGED <<Phase, Listing, text, bp_trap_count, latePlant>>
  PROVE  UNCHANGED S!vars
  BY DEF S!vars, Phase, Listing

LEMMA SameTable ==
  ASSUME UNCHANGED <<bp_addr, bp_count, ctl, running>>
  PROVE  UNCHANGED <<Phase, Listing>>
  BY DEF Phase, Listing, On, Active

\* A breakpoint planted in an engine that is on.
LEMMA SamplerPlant ==
  ASSUME AllInv, On, NEW i \in Free, Plant(i),
         UNCHANGED <<ctl, running, bp_trap_count, latePlant>>
  PROVE  S!Next
<1>1. UNCHANGED <<Phase, Listing>>
  BY SameTable DEF Plant
<1>2. CASE latePlant
  BY <1>1, <1>2 DEF S!Next, S!Drift, Phase, Listing
<1>3. CASE ~latePlant
  <2>1. i \in Indices /\ i \in Active /\ ~InUse(i) /\ bp_addr[i] \in Addr
    BY ListsAssumption
       DEF AllInv, CoreInv, TypeOK, Free, Active, Indices, Loaded, InUse, On
  <2>2. \A j \in Active : bp_addr[j] = bp_addr[i] => j = i
    BY <2>1 DEF AllInv, CoreInv, Loaded, On
  <2>3. text[bp_addr[i]] # INT3
    BY <1>3, <2>1, <2>2 DEF AllInv, TableInv
  <2>4. text' = [text EXCEPT ![bp_addr[i]] = INT3]
    BY DEF Plant
  <2>5. PlantedAt' = PlantedAt \cup {bp_addr[i]}
    BY <2>1, <2>4 DEF PlantedAt, AllInv, CoreInv, TypeOK
  <2>6. bp_addr[i] \in Listing \ PlantedAt
    BY <2>1, <2>3 DEF Listing, PlantedAt
  <2>7. Phase = "on"
    BY DEF Phase
  <2>8. S!Plant
    BY <1>1, <2>5, <2>6, <2>7 DEF S!Plant, S!Planted, Phase, Listing, PlantedAt
  <2> QED
    BY <2>8 DEF S!Next
<1> QED
  BY <1>2, <1>3

\* A thread that bp_inc_trapped does not refuse finds the engine on.
LEMMA OpenIsOn ==
  ASSUME AllInv, ~bp_stopping, ~Fresh
  PROVE  On
<1>1. ctl # "drain" /\ ~Stopped
  BY DEF AllInv, CoreInv, Closed
<1> QED
  BY <1>1, PhaseOf DEF Phase

\* Steps of threads.
LEMMA SamplerThread ==
  ASSUME AllInv, AllInv', NEW t \in Threads,
         ThreadStep(t) \/ Resume(t) \/ \E a \in Addr : Trap(t, a)
  PROVE  S!Next \/ UNCHANGED S!vars
<1> USE DEF AllInv
<1>1. CASE BpCheck(t) \/ FinishWork(t) \/ BpAddTest(t) \/ Leave(t) \/ Resume(t)
             \/ \E a \in Addr : Trap(t, a)
  <2>1. UNCHANGED <<table, control, text, bp_trap_count, latePlant>>
    BY <1>1 DEF BpCheck, FinishWork, BpAddTest, Leave, Resume, Trap
  <2> QED
    BY <2>1, SameTable, Stutter DEF table, control
<1>2. CASE BpRemove(t)
  <2>1. UNCHANGED <<control, bp_addr, bp_count, bp_trap_count, latePlant>>
    BY <1>2 DEF BpRemove, RemoveAt, table
  <2>2. UNCHANGED <<Phase, Listing>>
    BY <2>1, SameTable DEF control
  <2>3. CASE Matching(ip[t]) = {}
    BY <1>2, <2>1, <2>2, <2>3, Stutter DEF BpRemove
  <2>4. CASE Matching(ip[t]) # {} /\ latePlant
    BY <2>1, <2>2, <2>4 DEF S!Next, S!Drift, Phase, Listing
  <2>5. CASE Matching(ip[t]) # {} /\ ~latePlant
    <3>1. PICK i \in Matching(ip[t]) : text' = [text EXCEPT ![ip[t]] = bp_backup[i]]
      BY <1>2, <2>5 DEF BpRemove, RemoveAt
    <3>2. i \in Indices /\ InUse(i) /\ bp_addr[i] = ip[t] /\ i \in Active
      BY ListsAssumption, <3>1
         DEF Matching, Used, Active, Indices, InUse, CoreInv, TypeOK
    <3>3. ip[t] \in Addr
      <4>1. ctl \notin {"initAddr", "initState"}
        BY <2>5, <3>2 DEF TableInv, Disarmed, Stopped, InitPhases
      <4> QED
        BY <3>2, <4>1 DEF CoreInv, Loaded
    <3>4. ip[t] \in PlantedAt /\ bp_backup[i] = Orig
      BY <2>5, <3>2, <3>3 DEF TableInv, PlantedAt
    <3>5. PlantedAt' = PlantedAt \ {ip[t]}
      BY <3>1, <3>3, <3>4 DEF PlantedAt, CoreInv, TypeOK, INT3, Orig
    <3>6. S!TakeOut
      BY <2>1, <2>2, <3>4, <3>5 DEF S!TakeOut, S!Planted, Phase, Listing, PlantedAt
    <3> QED
      BY <3>6 DEF S!Next
  <2> QED
    BY <2>3, <2>4, <2>5
<1>3. CASE BpIncTrapped(t)
  <2>1. UNCHANGED <<table, control, text, latePlant>> /\ pc[t] = "removed"
    BY <1>3 DEF BpIncTrapped, Goto
  <2>2. UNCHANGED <<Phase, Listing>>
    BY <2>1, SameTable DEF table, control
  <2>3. CASE bp_stopping
    BY <1>3, <2>1, <2>2, <2>3, Stutter DEF BpIncTrapped
  <2>4. CASE ~bp_stopping
    <3>1. bp_trap_count' = bp_trap_count + 1
      BY <1>3, <2>4 DEF BpIncTrapped
    <3>2. On
      BY <2>1, <2>4, OpenIsOn DEF Fresh
    <3>3. S!Enter
      BY <2>1, <2>2, <3>1, <3>2 DEF S!Enter, Phase, Listing
    <3> QED
      BY <3>3 DEF S!Next
  <2> QED
    BY <2>3, <2>4
<1>4. CASE BpAddLocked(t)
  <2>1. /\ UNCHANGED <<control, bp_stopping, bp_trap_count>> /\ Add(-1)
        /\ latePlant' = (latePlant \/ (bp_stopping /\ Free # {}))
        /\ pc[t] = "adding"
    BY <1>4 DEF BpAddLocked, Goto
  <2>2. CASE Free = {}
    <3>1. UNCHANGED <<table, text>>
      BY <2>1, <2>2 DEF Add, Choices, NoPlant
    <3>2. latePlant' = latePlant
      BY <2>1, <2>2 DEF CoreInv, TypeOK
    <3> QED
      BY <2>1, <3>1, <3>2, SameTable, Stutter DEF table, control
  <2>3. CASE Free # {}
    <3>1. PICK i \in Free : Plant(i)
      BY <2>1, <2>3 DEF Add, Choices
    <3>2. CASE ~bp_stopping
      <4>1. On
        BY <2>1, <3>2, OpenIsOn DEF Fresh
      <4>2. latePlant' = latePlant
        BY <2>1, <3>2 DEF CoreInv, TypeOK
      <4> QED
        BY <2>1, <3>1, <4>1, <4>2, SamplerPlant DEF control
    <3>3. CASE bp_stopping
      <4>1. UNCHANGED <<Phase, Listing>>
        BY <2>1, <3>1, SameTable DEF Plant, control
      <4>2. t \in CountedThreads
        BY <2>1 DEF CountedThreads, Counted
      <4>3. IsFiniteSet(CountedThreads)
        BY ThreadsAssumption, FS_Subset DEF CountedThreads
      <4>4. bp_trap_count = Cardinality(CountedThreads)
        BY DEF CoreInv, TrapCountExact, CountedThreads
      <4>5. bp_trap_count > 0
        BY <4>2, <4>3, <4>4, FS_EmptySet, FS_CardinalityType
      <4>6. Phase = "stopping"
        BY <2>1, <3>3, PhaseOf DEF PhaseInv, CoreInv, StopWaits, Counted, Phase
      <4>7. S!Break
        BY <2>1, <2>3, <3>3, <4>1, <4>5, <4>6 DEF S!Break, Phase, Listing
      <4> QED
        BY <4>7 DEF S!Next
    <3> QED
      BY <3>2, <3>3
  <2> QED
    BY <2>2, <2>3
<1>5. CASE BpDecTrapped(t)
  <2>1. /\ UNCHANGED <<table, control, text, latePlant>> /\ pc[t] = "dec"
        /\ bp_trap_count' = bp_trap_count - 1
    BY <1>5 DEF BpDecTrapped, Goto
  <2>2. UNCHANGED <<Phase, Listing>>
    BY <2>1, SameTable DEF table, control
  <2>3. bp_trap_count > 0
    <3>1. t \in CountedThreads
      BY <2>1 DEF CountedThreads, Counted
    <3>2. IsFiniteSet(CountedThreads)
      BY ThreadsAssumption, FS_Subset DEF CountedThreads
    <3>3. bp_trap_count = Cardinality(CountedThreads)
      BY DEF CoreInv, TrapCountExact, CountedThreads
    <3> QED
      BY <3>1, <3>2, <3>3, FS_EmptySet, FS_CardinalityType
  <2>4. S!Leave
    BY <2>1, <2>2, <2>3 DEF S!Leave, Phase, Listing
  <2> QED
    BY <2>4 DEF S!Next
<1> QED
  BY <1>1, <1>2, <1>3, <1>4, <1>5 DEF ThreadStep
-----------------------------------------------------------------------------
LEMMA SamplerStop ==
  ASSUME AllInv, AllInv', BpClean \/ Drain \/ WpCleanDone \/ Revert
  PROVE  S!Next \/ UNCHANGED S!vars
<1> USE DEF AllInv
<1>1. CASE BpClean
  <2>1. /\ ctl = "bpClean" /\ ctl' = "drain" /\ RemoveAll
        /\ UNCHANGED <<running, bp_trap_count, latePlant>>
    BY <1>1 DEF BpClean
  <2>2. UNCHANGED <<bp_addr, bp_count>>
    BY <2>1 DEF RemoveAll
  <2>3. On /\ ~On' /\ Phase = "on" /\ Phase' = "stopping"
    BY <2>1 DEF PhaseInv, On, Phase
  <2>4. Listing' = Listing
    BY <2>1, <2>2, <2>3 DEF Listing, Active
  <2>5. ~latePlant' => PlantedAt' = {}
    BY <2>1 DEF TableInv, Disarmed, PlantedAt
  <2>6. S!Stop
    BY <2>1, <2>3, <2>4, <2>5 DEF S!Stop, S!Planted, Phase, Listing, PlantedAt, CoreInv, TypeOK
  <2> QED
    BY <2>6 DEF S!Next
<1>2. CASE Drain
  <2>1. /\ ctl = "drain" /\ ctl' = "wpCleanStop" /\ bp_trap_count = 0
        /\ UNCHANGED <<table, running, text, bp_trap_count, latePlant>>
    BY <1>2 DEF Drain, engine
  <2>2. Phase = "stopping" /\ Phase' = "off" /\ Listing' = {}
    BY <2>1 DEF Phase, Listing, On
  <2>3. S!Halt
    BY <2>1, <2>2 DEF S!Halt, Phase, Listing
  <2> QED
    BY <2>3 DEF S!Next
<1>3. CASE WpCleanDone \/ Revert
  <2>1. UNCHANGED <<table, text, bp_trap_count, latePlant>>
    BY <1>3 DEF WpCleanDone, Revert, engine
  <2>2. ~On /\ ctl # "drain" /\ ~On' /\ ctl' # "drain"
    <3>1. CASE ctl = "wpCleanStop"
      <4>1. running' = FALSE /\ ctl' \in {"wpCleanStart", "revert", "idle"}
        BY <1>3, <3>1 DEF WpCleanDone, Revert, AfterStop
      <4> QED
        BY <3>1, <4>1 DEF On
    <3>2. CASE ctl # "wpCleanStop"
      BY <1>3, <3>2 DEF WpCleanDone, Revert, On
    <3> QED
      BY <3>1, <3>2
  <2>3. UNCHANGED <<Phase, Listing>>
    BY <2>2 DEF Phase, Listing
  <2> QED
    BY <2>1, <2>3, Stutter
<1> QED
  BY <1>1, <1>2, <1>3

LEMMA SamplerStart ==
  ASSUME AllInv, AllInv',
         InitCount \/ InitAddr \/ InitState \/ InitTrap \/ InitFlag
           \/ PlantNext \/ StartDone
  PROVE  S!Next \/ UNCHANGED S!vars
<1> USE DEF AllInv
<1>1. CASE InitCount \/ InitAddr \/ InitState \/ InitTrap
  <2>1. /\ ctl \in InitPhases /\ ctl' \in InitPhases /\ ctl \in {"initCount", "initAddr", "initState"}
        /\ UNCHANGED <<running, text, latePlant>>
        /\ InitTrap \/ UNCHANGED bp_trap_count
    BY <1>1 DEF InitCount, InitAddr, InitState, InitTrap, InitPhases, engine
  <2>2. UNCHANGED <<Phase, Listing>>
    BY <2>1 DEF Phase, Listing, On, InitPhases
  <2>3. bp_trap_count' = bp_trap_count
    <3>1. CASE InitTrap
      <4>1. \A t \in Threads : pc[t] \notin Counted
        BY <2>1 DEF CoreInv, StopWaits, Stopped
      <4>2. bp_trap_count = 0
        BY <4>1, CountZero DEF CoreInv, TrapCountExact, CountedThreads
      <4> QED
        BY <3>1, <4>2 DEF InitTrap
    <3> QED
      BY <2>1, <3>1
  <2> QED
    BY <2>1, <2>2, <2>3, Stutter
<1>2. CASE InitFlag
  <2>1. /\ ctl = "initFlag" /\ ctl' = "plant"
        /\ UNCHANGED <<table, running, text, bp_trap_count, latePlant>>
    BY <1>2 DEF InitFlag
  <2>2. Phase = "off" /\ Phase' = "on" /\ Listing' = {bp_addr[i] : i \in Active}
    BY <2>1 DEF Phase, Listing, On, table, Active
  <2>3. Listing' \in SUBSET Addr
    BY <2>1, <2>2 DEF CoreInv, Loaded
  <2>4. bp_trap_count = 0
    <3>1. \A t \in Threads : pc[t] \notin Counted
      BY <2>1 DEF CoreInv, StopWaits, Stopped, InitPhases
    <3> QED
      BY <3>1, CountZero DEF CoreInv, TrapCountExact, CountedThreads
  <2>5. ~latePlant => PlantedAt = {}
    BY <2>1 DEF TableInv, Disarmed, Stopped, InitPhases, PlantedAt
  <2>6. ~latePlant' => PlantedAt' = {}
    BY <2>1, <2>5 DEF PlantedAt
  <2>7. S!Start
    BY <2>1, <2>2, <2>3, <2>4, <2>6
       DEF S!Start, S!Planted, Phase, Listing, PlantedAt, CoreInv, TypeOK
  <2> QED
    BY <2>7 DEF S!Next
<1>3. CASE PlantNext
  <2>1. /\ ctl = "plant" /\ Add(PlantChoice)
        /\ UNCHANGED <<ctl, running, bp_trap_count, latePlant>>
    BY <1>3 DEF PlantNext
  <2>2. CASE NoPlant
    BY <2>1, <2>2, SameTable, Stutter DEF NoPlant, table
  <2>3. CASE \E i \in Free : Plant(i)
    BY <2>1, <2>3, SamplerPlant DEF On
  <2> QED
    BY <2>1, <2>2, <2>3 DEF Add, Choices
<1>4. CASE StartDone
  <2>1. /\ ctl = "plant" /\ ctl' = "idle" /\ running'
        /\ UNCHANGED <<table, text, bp_trap_count, latePlant>>
    BY <1>4 DEF StartDone, engine
  <2>2. UNCHANGED <<Phase, Listing>>
    BY <2>1 DEF Phase, Listing, On, table, Active
  <2> QED
    BY <2>1, <2>2, Stutter
<1> QED
  BY <1>1, <1>2, <1>3, <1>4

LEMMA SamplerNext == AllInv /\ AllInv' /\ [Next]_vars => [S!Next]_(S!vars)
<1> SUFFICES ASSUME AllInv, AllInv', [Next]_vars PROVE S!Next \/ UNCHANGED S!vars
  OBVIOUS
<1>1. CASE \E t \in Threads : ThreadStep(t) \/ Resume(t) \/ \E a \in Addr : Trap(t, a)
  BY <1>1, SamplerThread
<1>2. CASE (\E l \in Lists : Load(l)) \/ (\E p \in Params : SetParam(p))
             \/ StartCmd \/ StopCmd \/ ExitCmd
  <2>1. /\ UNCHANGED <<table, running, text, bp_trap_count, latePlant>>
        /\ ctl = "idle" /\ ctl' \in {"idle", "bpClean", "wpCleanStart", "revert"}
        /\ ctl' # "idle" => (running <=> ctl' = "bpClean")
    BY <1>2 DEF Load, SetParam, StartCmd, StopCmd, ExitCmd, Command, engine
  <2>2. UNCHANGED <<Phase, Listing>>
    BY <2>1 DEF Phase, Listing, On, table, Active
  <2> QED
    BY <2>1, <2>2, Stutter
<1>3. CASE CtlStep
  BY <1>3, SamplerStop, SamplerStart DEF CtlStep
<1>4. CASE Quiet \/ UNCHANGED vars
  <2>1. UNCHANGED vars
    BY <1>4 DEF Quiet
  <2> QED
    BY <2>1, SameTable, Stutter DEF vars, table, control
<1> QED
  BY <1>1, <1>2, <1>3, <1>4 DEF Next

LEMMA SamplerInit == Init => S!Init
  BY DEF Init, S!Init, On, INT3, Orig

THEOREM AllInvariant == Spec => []AllInv
  BY TableInvariant, PhaseInit, PhaseNext, PTL DEF Spec, AllInv

\* The table, its lock and the order in which bp_init stores implement a sampler:
\* whatever the threads and the controller do, the int3s in the kernel text and
\* the number of threads at work change as Sampler allows.
THEOREM SamplerCorrect == Spec => ImplementsSampler
<1>1. AllInv /\ AllInv' /\ [Next]_vars => [S!Next]_(S!vars)
  BY SamplerNext
<1> QED
  BY <1>1, AllInvariant, SamplerInit, PTL DEF Spec, ImplementsSampler, S!Spec
-----------------------------------------------------------------------------
(***************************************************************************)
(* SamplesKept.  A breakpoint passes from the table to a thread and back;  *)
(* budget counts those that start has put into circulation.                *)
(***************************************************************************)

SamplesInv ==
  /\ ctl \in {"initAddr", "initState", "initFlag"} => budget = 0
  /\ SamplesKept

Kept == Cardinality(Used) + Cardinality(InFlight)

LEMMA KeptFinite ==
  ASSUME CoreInv
  PROVE  /\ IsFiniteSet(Used) /\ Used \subseteq Active
         /\ IsFiniteSet(InFlight)
         /\ Cardinality(Used) \in Nat /\ Cardinality(InFlight) \in Nat
         /\ IsFiniteSet(Active) /\ Cardinality(Active) = bp_count
<1>1. bp_count \in Nat
  BY ListsAssumption DEF CoreInv, TypeOK
<1>2. IsFiniteSet(Active) /\ Cardinality(Active) = bp_count
  BY <1>1, FS_Interval DEF Active
<1>3. IsFiniteSet(Used) /\ Used \subseteq Active
  BY <1>2, FS_Subset DEF Used
<1>4. IsFiniteSet(InFlight)
  BY ThreadsAssumption, FS_Subset DEF InFlight
<1> QED
  BY <1>2, <1>3, <1>4, FS_CardinalityType

LEMMA KeptNat == CoreInv => Kept \in Nat
  BY KeptFinite DEF Kept

LEMMA KeptNatNext == CoreInv' => (Kept \in Nat)'
  BY KeptNat, PTL

\* Where an engine that samples went on sampling, with as many breakpoints.
LEMMA SamplesFrame ==
  ASSUME CoreInv, CoreInv', SamplesInv, Sampling' => Sampling, UNCHANGED <<budget, bp_count>>,
         ctl' \in {"initAddr", "initState", "initFlag"} => ctl \in {"initAddr", "initState", "initFlag"},
         Sampling => Kept' >= Kept \/ Kept' >= bp_count
  PROVE  SamplesInv'
<1>1. Kept \in Nat /\ Kept' \in Nat
  BY KeptNat, KeptNatNext
<1>2. budget \in Nat /\ bp_count \in Int
  BY ListsAssumption DEF CoreInv, TypeOK
<1> QED
  BY <1>1, <1>2 DEF SamplesInv, SamplesKept, Kept

\* Plant(i) for a free entry.
LEMMA UsedUp ==
  ASSUME CoreInv, ctl \notin {"initAddr", "initState"}, NEW i \in Free, Plant(i)
  PROVE  Cardinality(Used') = Cardinality(Used) + 1
<1>1. i \in Indices /\ i \in Active /\ bp_state[i] # "USING"
  BY ListsAssumption DEF CoreInv, TypeOK, Free, Active, Indices
<1>2. Used' = Used \cup {i}
  BY <1>1 DEF Plant, Used, Active, CoreInv, TypeOK
<1>3. i \notin Used
  BY <1>1 DEF Used
<1> QED
  BY <1>2, <1>3, KeptFinite, FS_AddElement

LEMMA SamplesThread ==
  ASSUME AllInv, AllInv', SamplesInv, NEW t \in Threads,
         ThreadStep(t) \/ Resume(t) \/ \E a \in Addr : Trap(t, a)
  PROVE  SamplesInv'
<1>1. UNCHANGED <<control, bp_stopping, budget, bp_count>>
  BY DEF ThreadStep, BpCheck, BpRemove, BpIncTrapped, FinishWork, BpAddTest, BpAddLocked,
         BpDecTrapped, Leave, Resume, Trap, table, RemoveAt, Add, NoPlant, Plant
<1>2. SUFFICES ASSUME Sampling PROVE Kept' >= Kept \/ Kept' >= bp_count
  BY <1>1, SamplesFrame DEF Sampling, control, AllInv
<1>3. pc \in [Threads -> Phases] /\ IsFiniteSet(InFlight) /\ IsFiniteSet(Used)
      /\ Cardinality(Used) \in Nat /\ Cardinality(InFlight) \in Nat
  BY KeptFinite DEF AllInv, CoreInv, TypeOK
<1>4. ASSUME UNCHANGED <<bp_state, bp_count>>, InFlight' = InFlight
      PROVE  Kept' >= Kept
  <2>1. Used' = Used
    BY <1>4 DEF Used, Active
  <2> QED
    BY <1>3, <1>4, <2>1 DEF Kept
<1>5. CASE BpCheck(t) \/ FinishWork(t) \/ BpAddTest(t) \/ BpDecTrapped(t) \/ Leave(t)
             \/ Resume(t) \/ BpIncTrapped(t) \/ \E a \in Addr : Trap(t, a)
  <2>1. UNCHANGED <<bp_state, bp_count>>
    BY <1>5 DEF BpCheck, FinishWork, BpAddTest, BpDecTrapped, Leave, Resume, BpIncTrapped,
                Trap, table
  <2>2. \E p : pc' = [pc EXCEPT ![t] = p]
               /\ (p \in {"removed", "work", "readd", "adding"}
                    <=> pc[t] \in {"removed", "work", "readd", "adding"})
    BY <1>2, <1>5 DEF BpCheck, FinishWork, BpAddTest, BpDecTrapped, Leave, Resume,
                      BpIncTrapped, Trap, Goto, Sampling
  <2>3. InFlight' = InFlight
    BY <1>3, <2>2 DEF InFlight
  <2> QED
    BY <1>4, <2>1, <2>3
<1>6. CASE BpRemove(t)
  <2>1. CASE Matching(ip[t]) = {}
    <3>1. UNCHANGED <<bp_state, bp_count>> /\ pc[t] = "checked" /\ pc' = [pc EXCEPT ![t] = "resume"]
      BY <1>6, <2>1 DEF BpRemove, Goto, table
    <3>2. InFlight' = InFlight
      BY <1>3, <3>1 DEF InFlight
    <3> QED
      BY <1>4, <3>1, <3>2
  <2>2. CASE Matching(ip[t]) # {}
    <3>1. pc[t] = "checked" /\ pc' = [pc EXCEPT ![t] = "removed"] /\ RemoveAt(ip[t])
      BY <1>6, <2>2 DEF BpRemove, Goto
    <3>2. PICK i \in Used : bp_state' = [bp_state EXCEPT ![i] = "UNUSED"] /\ bp_count' = bp_count
      BY <3>1 DEF RemoveAt, Matching
    <3>3. Used' = Used \ {i}
      BY <3>2, ListsAssumption DEF Used, Active, Indices, AllInv, CoreInv, TypeOK
    <3>4. Cardinality(Used') = Cardinality(Used) - 1
      BY <1>3, <3>2, <3>3, FS_RemoveElement
    <3>5. InFlight' = InFlight \cup {t} /\ t \notin InFlight
      BY <1>3, <3>1 DEF InFlight
    <3>6. Cardinality(InFlight') = Cardinality(InFlight) + 1
      BY <1>3, <3>5, FS_AddElement
    <3> QED
      BY <1>3, <3>4, <3>6 DEF Kept
  <2> QED
    BY <2>1, <2>2
<1>7. CASE BpAddLocked(t)
  <2>1. pc[t] = "adding" /\ pc' = [pc EXCEPT ![t] = "dec"] /\ Add(-1)
    BY <1>7 DEF BpAddLocked, Goto
  <2>2. InFlight' = InFlight \ {t} /\ t \in InFlight
    BY <1>3, <2>1 DEF InFlight
  <2>3. Cardinality(InFlight') = Cardinality(InFlight) - 1 /\ Cardinality(InFlight') \in Nat
    BY <1>3, <2>2, FS_RemoveElement, FS_CardinalityType, FS_Subset
  <2>4. CASE Free = {}
    <3>1. Used' = Used
      BY <2>1, <2>4 DEF Add, Choices, NoPlant, Used, Active, table
    <3>2. Used = Active
      BY <2>4 DEF Free, Used
    <3>3. Cardinality(Used') = bp_count
      BY <3>1, <3>2, KeptFinite DEF AllInv
    <3> QED
      BY <2>3, <3>3, <1>3, <3>1 DEF Kept
  <2>5. CASE Free # {}
    <3>1. PICK i \in Free : Plant(i)
      BY <2>1, <2>5 DEF Add, Choices
    <3>2. Cardinality(Used') = Cardinality(Used) + 1
      BY <1>2, <3>1, UsedUp DEF AllInv, Sampling
    <3> QED
      BY <1>3, <2>3, <3>2 DEF Kept
  <2> QED
    BY <2>4, <2>5
<1> QED
  BY <1>5, <1>6, <1>7 DEF ThreadStep

LEMMA SamplesNext == AllInv /\ AllInv' /\ SamplesInv /\ [Next]_vars => SamplesInv'
<1> SUFFICES ASSUME AllInv, AllInv', SamplesInv, [Next]_vars PROVE SamplesInv'
  OBVIOUS
<1>1. ASSUME UNCHANGED <<bp_state, bp_count, pc>> PROVE Kept' = Kept
  <2>1. Used' = Used /\ InFlight' = InFlight
    BY <1>1 DEF Used, Active, InFlight
  <2> QED
    BY <2>1 DEF Kept
<1>2. Kept \in Nat
  BY KeptNat DEF AllInv
<1>3. CASE \E t \in Threads : ThreadStep(t) \/ Resume(t) \/ \E a \in Addr : Trap(t, a)
  BY <1>3, SamplesThread
<1>4. CASE (\E l \in Lists : Load(l)) \/ (\E p \in Params : SetParam(p))
             \/ StartCmd \/ StopCmd \/ ExitCmd \/ BpClean \/ Drain \/ WpCleanDone \/ Revert
             \/ StartDone \/ Quiet \/ UNCHANGED vars
  <2>1. UNCHANGED <<bp_count, budget, pc>>
    BY <1>4 DEF Load, SetParam, StartCmd, StopCmd, ExitCmd, Command, BpClean, Drain,
                WpCleanDone, Revert, StartDone, Quiet, vars, table, engine, RemoveAll
  <2>2. Sampling' => Sampling /\ UNCHANGED bp_state
    <3>1. CASE BpClean \/ Drain
      BY <3>1 DEF BpClean, Drain, Sampling
    <3>2. CASE WpCleanDone
      <4>1. Sampling' => ctl = "wpCleanStop" /\ bp_stopping' = bp_stopping
        BY <3>2 DEF WpCleanDone, Sampling, engine
      <4> QED
        BY <4>1 DEF Sampling, AllInv, PhaseInv
    <3>3. CASE Revert \/ StartDone \/ Quiet \/ UNCHANGED vars
      BY <3>3 DEF Revert, StartDone, Quiet, vars, control, table, engine, Sampling
    <3>4. CASE (\E l \in Lists : Load(l)) \/ (\E p \in Params : SetParam(p))
                 \/ StartCmd \/ StopCmd \/ ExitCmd
      BY <3>4 DEF Load, SetParam, StartCmd, StopCmd, ExitCmd, Command, table, engine, Sampling
    <3> QED
      BY <1>4, <3>1, <3>2, <3>3, <3>4
  <2>3. ctl' \in {"initAddr", "initState", "initFlag"} => ctl \in {"initAddr", "initState", "initFlag"}
    <3>1. AfterStop \notin {"initAddr", "initState", "initFlag"}
      BY DEF AfterStop
    <3> QED
      BY <1>4, <3>1 DEF Load, SetParam, StartCmd, StopCmd, ExitCmd, Command, BpClean, Drain,
                WpCleanDone, Revert, StartDone, Quiet, vars, control
  <2>4. SamplesKept'
    <3> SUFFICES ASSUME Sampling' PROVE Kept' >= budget' \/ Kept' >= bp_count'
      BY DEF SamplesKept, Kept
    <3>1. Kept' = Kept /\ Sampling
      BY <1>1, <2>1, <2>2
    <3> QED
      BY <2>1, <3>1 DEF SamplesInv, SamplesKept, Kept
  <2> QED
    BY <2>1, <2>3, <2>4 DEF SamplesInv
<1>5. CASE InitCount \/ InitAddr \/ InitState \/ InitTrap
  <2>1. budget' = 0 /\ ctl' \notin {"plant", "idle"}
    BY <1>5 DEF InitCount, InitAddr, InitState, InitTrap, SamplesInv
  <2> QED
    BY <2>1 DEF SamplesInv, SamplesKept, Sampling
<1>6. CASE InitFlag
  <2>1. budget' = 0 /\ ctl' = "plant"
    BY <1>6 DEF InitFlag, SamplesInv
  <2>2. Kept' \in Nat
    BY KeptNatNext DEF AllInv
  <2> QED
    BY <2>1, <2>2 DEF SamplesInv, SamplesKept, Kept
<1>7. CASE PlantNext
  <2>1. /\ ctl = "plant" /\ ctl' = "plant" /\ Add(PlantChoice)
        /\ budget' = IF Choices(PlantChoice) = {} THEN budget ELSE budget + 1
        /\ UNCHANGED <<bp_stopping, pc>>
    BY <1>7 DEF PlantNext
  <2>2. CASE Choices(PlantChoice) = {}
    <3>1. UNCHANGED <<bp_state, bp_count, budget>>
      BY <2>1, <2>2 DEF Add, NoPlant, table
    <3> QED
      BY <1>1, <2>1, <3>1 DEF SamplesInv, SamplesKept, Sampling, Kept
  <2>3. CASE Choices(PlantChoice) # {}
    <3>1. PICK i \in Free : Plant(i)
      BY <2>1, <2>3 DEF Add, Choices
    <3>2. Cardinality(Used') = Cardinality(Used) + 1 /\ bp_count' = bp_count
      BY <2>1, <3>1, UsedUp DEF AllInv, Plant
    <3>3. InFlight' = InFlight
      BY <2>1 DEF InFlight
    <3>4. Kept' = Kept + 1
      BY <3>2, <3>3, KeptFinite DEF Kept, AllInv
    <3>5. Sampling' => Kept' >= budget' \/ Kept' >= bp_count'
      BY <1>2, <2>1, <2>3, <3>2, <3>4, ListsAssumption
         DEF SamplesInv, SamplesKept, Sampling, Kept, AllInv, CoreInv, TypeOK
    <3> QED
      BY <2>1, <3>5 DEF SamplesInv, SamplesKept, Kept
  <2> QED
    BY <2>2, <2>3
<1> QED
  BY <1>3, <1>4, <1>5, <1>6, <1>7 DEF Next, CtlStep

LEMMA SamplesInit == Init => SamplesInv
<1> SUFFICES ASSUME Init PROVE SamplesInv
  OBVIOUS
<1>1. Kept \in Nat
  BY CoreInit, KeptFinite DEF Kept
<1> QED
  BY <1>1 DEF Init, SamplesInv, SamplesKept, Kept

\* While the detector samples, every breakpoint that start has planted is in the
\* text or with a thread that will plant another, up to the size of the table.
THEOREM SamplesCorrect == Spec => []SamplesKept
<1>1. SamplesInv => SamplesKept
  BY DEF SamplesInv
<1> QED
  BY <1>1, AllInvariant, SamplesInit, SamplesNext, PTL DEF Spec
=============================================================================
