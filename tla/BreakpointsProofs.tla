-------------------------- MODULE BreakpointsProofs --------------------------
(***************************************************************************)
(* Proofs of the safety properties of Breakpoints.                         *)
(*                                                                         *)
(* CoreInv is inductive.  Its parts need one another: the trap count is    *)
(* exact when bp_init resets it because nobody is in int3_real_work then   *)
(* (StopWaits); nobody is because bp_stopping closes the entry (Closed)    *)
(* from the moment the count was seen to be zero; and the types need that  *)
(* no entry is used while bp_init fills the table (Loading).               *)
(***************************************************************************)
EXTENDS Breakpoints, FiniteSetTheorems, TLAPS

\* While bp_init runs, the entries below pos hold the new list.
Loading ==
  ctl \in {"initAddr", "initState"} =>
    /\ bp_count = Len(address)
    /\ pos <= bp_count
    /\ ctl = "initState" => pos < bp_count /\ bp_addr[pos] = address[pos + 1]
    /\ \A i \in 0..(pos - 1) : bp_addr[i] = address[i + 1]

\* At all other times every entry is an address, and no two are the same.
Loaded ==
  ctl \notin {"initAddr", "initState"} =>
    \A i \in Active : /\ bp_addr[i] \in Addr
                      /\ \A j \in Active : bp_addr[i] = bp_addr[j] => i = j

\* A module that was never started: no thread has met it.
Fresh == (\A t \in Threads : pc[t] = "run") /\ (\A a \in Addr : text[a] = Orig)

\* Nobody can enter int3_real_work while the engine is stopped or drains.
Closed == /\ Stopped => bp_stopping \/ Fresh
          /\ ctl = "drain" => bp_stopping

CoreInv == TypeOK /\ TrapCountExact /\ StopWaits /\ Closed /\ Loading /\ Loaded

-----------------------------------------------------------------------------
(* The number of counted threads *)

CountedThreads == {t \in Threads : pc[t] \in Counted}

\* A thread that enters raises the number by one.
LEMMA CountUp ==
  ASSUME TypeOK, NEW t \in Threads, NEW p \in Counted,
         pc[t] \notin Counted, pc' = [pc EXCEPT ![t] = p]
  PROVE  Cardinality(CountedThreads') = Cardinality(CountedThreads) + 1
<1>1. CountedThreads' = CountedThreads \cup {t}
  BY DEF TypeOK, CountedThreads
<1>2. t \notin CountedThreads
  BY DEF CountedThreads
<1>3. IsFiniteSet(CountedThreads)
  BY ThreadsAssumption, FS_Subset DEF CountedThreads
<1> QED
  BY <1>1, <1>2, <1>3, FS_AddElement

\* A thread that leaves lowers it by one.
LEMMA CountDown ==
  ASSUME TypeOK, NEW t \in Threads, NEW p \in Phases \ Counted,
         pc[t] \in Counted, pc' = [pc EXCEPT ![t] = p]
  PROVE  Cardinality(CountedThreads') = Cardinality(CountedThreads) - 1
<1>1. CountedThreads' = CountedThreads \ {t}
  BY DEF TypeOK, CountedThreads
<1>2. t \in CountedThreads
  BY DEF CountedThreads
<1>3. IsFiniteSet(CountedThreads)
  BY ThreadsAssumption, FS_Subset DEF CountedThreads
<1> QED
  BY <1>1, <1>2, <1>3, FS_RemoveElement

\* Any other change of phase leaves it.
LEMMA CountSame ==
  ASSUME TypeOK, NEW t \in Threads, NEW p,
         pc[t] \in Counted <=> p \in Counted, pc' = [pc EXCEPT ![t] = p]
  PROVE  CountedThreads' = CountedThreads
  BY DEF TypeOK, CountedThreads

\* The number is zero exactly when there is none.
LEMMA CountZero ==
  Cardinality(CountedThreads) = 0 <=> \A t \in Threads : pc[t] \notin Counted
<1>1. IsFiniteSet(CountedThreads)
  BY ThreadsAssumption, FS_Subset DEF CountedThreads
<1>2. Cardinality(CountedThreads) = 0 <=> CountedThreads = {}
  BY <1>1, FS_EmptySet
<1> QED
  BY <1>2 DEF CountedThreads
-----------------------------------------------------------------------------
(* The initial states *)

LEMMA CoreInit == Init => CoreInv
<1> SUFFICES ASSUME Init PROVE CoreInv
  OBVIOUS
<1>1. TypeOK
  <2>1. bp_count \in 0..NAddress
    BY ListsAssumption DEF Init
  <2>2. /\ bp_addr \in [Indices -> Addr \cup {NoAddr}]
        /\ bp_state \in [Indices -> {"UNUSED", "USING"}]
        /\ bp_backup \in [Indices -> Bytes]
        /\ text \in [Addr -> Bytes]
    BY DEF Init, Bytes
  <2>3. /\ pc \in [Threads -> Phases]
        /\ ip \in [Threads -> Addr \cup {NoAddr}]
    BY DEF Init, Phases
  <2>4. /\ address \in Lists /\ i_param \in Int /\ bp_trap_count \in Int
        /\ pos \in Nat /\ starts \in Nat /\ budget \in Nat
    BY DEF Init
  <2>5. running \in BOOLEAN /\ bp_stopping \in BOOLEAN /\ latePlant \in BOOLEAN
    BY DEF Init
  <2>6. ctl \in CtlPhases /\ cmd \in Commands
    BY DEF Init, CtlPhases, Commands
  <2> QED
    BY <2>1, <2>2, <2>3, <2>4, <2>5, <2>6 DEF TypeOK
<1>2. \A t \in Threads : pc[t] \notin Counted
  BY DEF Init, Counted
<1>3. TrapCountExact
  BY <1>2, CountZero DEF Init, TrapCountExact, CountedThreads
<1>4. StopWaits
  BY <1>2 DEF StopWaits
<1>5. Closed
  BY DEF Init, Closed, Fresh
<1>6. Loading /\ Loaded
  BY DEF Init, Loading, Loaded, Active
<1> QED
  BY <1>1, <1>3, <1>4, <1>5, <1>6 DEF CoreInv
-----------------------------------------------------------------------------
(* Steps of threads *)

\* What a thread step leaves alone keeps all but the types and the count,
\* provided that the thread has met a breakpoint and enters int3_real_work only
\* in an engine that is not stopped.
LEMMA ThreadFrame ==
  ASSUME CoreInv, NEW t \in Threads, NEW p,
         pc' = [pc EXCEPT ![t] = p],
         ~Fresh, Stopped => p \notin Counted,
         UNCHANGED <<control, bp_addr, bp_count, bp_stopping>>
  PROVE  StopWaits' /\ Closed' /\ Loading' /\ Loaded'
<1> USE DEF CoreInv, control
<1>1. StopWaits'
  BY DEF TypeOK, StopWaits, Stopped
<1>2. Closed'
  BY DEF Closed, Stopped
<1>3. Loading'
  BY DEF Loading
<1>4. Loaded'
  BY DEF Loaded, Active
<1> QED
  BY <1>1, <1>2, <1>3, <1>4

LEMMA TrapCore ==
  ASSUME CoreInv, NEW t \in Threads, NEW a \in Addr, Trap(t, a)
  PROVE  CoreInv'
<1> DEFINE p == IF Hooked THEN "trapped" ELSE "oops"
<1>1. pc' = [pc EXCEPT ![t] = p] /\ p \in {"trapped", "oops"}
  BY DEF Trap
<1>2. p \in Phases /\ p \notin Counted /\ pc[t] \notin Counted
  BY <1>1 DEF Trap, Phases, InModule, InHandler, Counted
<1>3. TypeOK'
  BY <1>1, <1>2 DEF CoreInv, TypeOK, Trap, table, control
<1>4. TrapCountExact'
  <2>1. CountedThreads' = CountedThreads
    BY <1>1, <1>2, CountSame DEF CoreInv
  <2> QED
    BY <2>1 DEF CoreInv, Trap, TrapCountExact, CountedThreads
<1>5. ~Fresh
  BY DEF Trap, Fresh, INT3, Orig
<1>6. StopWaits' /\ Closed' /\ Loading' /\ Loaded'
  <2> HIDE DEF p
  <2> QED
    BY <1>1, <1>2, <1>5, ThreadFrame DEF Trap, table
<1> QED
  BY <1>3, <1>4, <1>6 DEF CoreInv

\* bp_add keeps the types of what it writes; bp_init is not running.
LEMMA AddTypes ==
  ASSUME CoreInv, ctl \notin {"initAddr", "initState"}, NEW n, Add(n)
  PROVE  /\ bp_state' \in [Indices -> {"UNUSED", "USING"}]
         /\ bp_backup' \in [Indices -> Bytes]
         /\ text' \in [Addr -> Bytes]
         /\ UNCHANGED <<bp_addr, bp_count>>
<1>1. CASE NoPlant
  BY <1>1 DEF NoPlant, table, CoreInv, TypeOK
<1>2. CASE \E i \in Free : Plant(i)
  <2>1. PICK i \in Free : Plant(i)
    BY <1>2
  <2>2. i \in Indices /\ bp_addr[i] \in Addr
    BY ListsAssumption DEF CoreInv, TypeOK, Free, Active, Indices, Loaded
  <2> QED
    BY <2>1, <2>2 DEF Plant, CoreInv, TypeOK, Bytes, INT3
<1> QED
  BY <1>1, <1>2 DEF Add, Choices

\* Steps outside int3_real_work, or inside, that only move the thread on.
LEMMA MoveCore ==
  ASSUME CoreInv, NEW t \in Threads, NEW p \in Phases,
         pc' = [pc EXCEPT ![t] = p], pc[t] # "run",
         pc[t] \in Counted <=> p \in Counted,
         UNCHANGED <<table, control, bp_trap_count, bp_stopping, text, ip,
                     budget, latePlant>>
  PROVE  CoreInv'
<1>1. TypeOK'
  BY DEF CoreInv, TypeOK, table, control
<1>2. TrapCountExact'
  <2>1. CountedThreads' = CountedThreads
    BY CountSame DEF CoreInv
  <2> QED
    BY <2>1 DEF CoreInv, TrapCountExact, CountedThreads
<1>3. Stopped => p \notin Counted
  BY DEF CoreInv, StopWaits
<1>4. ~Fresh
  BY DEF Fresh
<1>5. StopWaits' /\ Closed' /\ Loading' /\ Loaded'
  BY <1>3, <1>4, ThreadFrame DEF table
<1> QED
  BY <1>1, <1>2, <1>5 DEF CoreInv

LEMMA ThreadCore ==
  ASSUME CoreInv, NEW t \in Threads, ThreadStep(t) \/ Resume(t)
  PROVE  CoreInv'
<1> USE DEF CoreInv
<1>1. CASE BpCheck(t)
  <2> DEFINE p == IF Listed(ip[t]) THEN "checked" ELSE "oops"
  <2>1. /\ p \in Phases /\ p \notin Counted
        /\ pc[t] # "run" /\ pc[t] \notin Counted
    BY <1>1 DEF BpCheck, Goto, Phases, InModule, InHandler, Counted
  <2>2. pc' = [pc EXCEPT ![t] = p]
    BY <1>1 DEF BpCheck, Goto
  <2> HIDE DEF p
  <2> QED
    BY <1>1, <2>1, <2>2, MoveCore DEF BpCheck
<1>2. CASE BpRemove(t)
  <2>1. CASE Matching(ip[t]) = {}
    BY <1>2, <2>1, MoveCore DEF BpRemove, Goto, Phases, InModule, Counted, table
  <2>2. CASE Matching(ip[t]) # {}
    <3>1. pc' = [pc EXCEPT ![t] = "removed"] /\ pc[t] = "checked" /\ RemoveAt(ip[t])
      BY <1>2, <2>2 DEF BpRemove, Goto
    <3>2. UNCHANGED <<control, bp_addr, bp_count, bp_stopping, bp_trap_count, bp_backup,
                      ip, budget, latePlant>>
      BY <1>2, <3>1 DEF BpRemove, RemoveAt
    <3>3. "removed" \in Phases /\ "removed" \notin Counted /\ "checked" \notin Counted
      BY DEF Phases, InModule, InHandler, Counted
    <3>4. bp_state' \in [Indices -> {"UNUSED", "USING"}] /\ text' \in [Addr -> Bytes]
      <4>1. PICK i \in Matching(ip[t]) :
              /\ text'     = [text EXCEPT ![ip[t]] = bp_backup[i]]
              /\ bp_state' = [bp_state EXCEPT ![i] = "UNUSED"]
        BY <3>1 DEF RemoveAt
      <4>2. i \in Indices
        BY ListsAssumption DEF Matching, Used, Active, Indices, TypeOK
      <4> QED
        BY <4>1, <4>2 DEF TypeOK
    <3>5. TypeOK'
      BY <3>1, <3>2, <3>3, <3>4 DEF TypeOK, control
    <3>6. CountedThreads' = CountedThreads
      BY <3>1, <3>3, CountSame
    <3>7. TrapCountExact'
      BY <3>2, <3>6 DEF TrapCountExact, CountedThreads
    <3>8. ~Fresh
      BY <3>1 DEF Fresh
    <3> QED
      BY <3>1, <3>2, <3>3, <3>5, <3>7, <3>8, ThreadFrame
  <2> QED
    BY <2>1, <2>2
<1>3. CASE BpIncTrapped(t)
  <2>1. CASE bp_stopping
    BY <1>3, <2>1, MoveCore DEF BpIncTrapped, Goto, Phases, InModule, Counted
  <2>2. CASE ~bp_stopping
    <3>1. /\ pc[t] = "removed" /\ pc' = [pc EXCEPT ![t] = "work"]
          /\ bp_trap_count' = bp_trap_count + 1
          /\ UNCHANGED <<table, control, bp_stopping, text, ip, budget, latePlant>>
      BY <1>3, <2>2 DEF BpIncTrapped, Goto
    <3>2. "work" \in Phases /\ "work" \in Counted /\ "removed" \notin Counted
      BY DEF Phases, InModule, Counted
    <3>3. TypeOK'
      BY <3>1, <3>2 DEF TypeOK, table, control
    <3>4. TrapCountExact'
      BY <3>1, <3>2, CountUp DEF TrapCountExact, CountedThreads
    <3>5. ~Fresh
      BY <3>1 DEF Fresh
    <3>6. ~Stopped
      BY <2>2, <3>5 DEF Closed
    <3> QED
      BY <3>1, <3>3, <3>4, <3>5, <3>6, ThreadFrame DEF table
  <2> QED
    BY <2>1, <2>2
<1>4. CASE FinishWork(t)
  BY <1>4, MoveCore DEF FinishWork, Goto, Phases, InModule, Counted
<1>5. CASE BpAddTest(t)
  <2> DEFINE p == IF bp_stopping THEN "dec" ELSE "adding"
  <2>1. p \in Phases /\ p \in Counted /\ pc[t] # "run" /\ pc[t] \in Counted
    BY <1>5 DEF BpAddTest, Goto, Phases, InModule, Counted
  <2>2. pc' = [pc EXCEPT ![t] = p]
    BY <1>5 DEF BpAddTest, Goto
  <2> HIDE DEF p
  <2> QED
    BY <1>5, <2>1, <2>2, MoveCore DEF BpAddTest
<1>6. CASE BpAddLocked(t)
  <2>1. pc[t] = "adding" /\ pc' = [pc EXCEPT ![t] = "dec"] /\ Add(-1)
    BY <1>6 DEF BpAddLocked, Goto
  <2>2. "dec" \in Phases /\ "dec" \in Counted /\ "adding" \in Counted
    BY DEF Phases, InModule, Counted
  <2>3. ~Stopped
    BY <2>1, <2>2 DEF StopWaits
  <2>4. /\ bp_state' \in [Indices -> {"UNUSED", "USING"}]
        /\ bp_backup' \in [Indices -> Bytes]
        /\ text' \in [Addr -> Bytes]
        /\ UNCHANGED <<bp_addr, bp_count>>
    BY <2>1, <2>3, AddTypes DEF Stopped, InitPhases
  <2>5. TypeOK'
    BY <1>6, <2>1, <2>2, <2>4 DEF BpAddLocked, TypeOK, control
  <2>6. TrapCountExact'
    <3>1. CountedThreads' = CountedThreads
      BY <2>1, <2>2, CountSame
    <3> QED
      BY <1>6, <3>1 DEF BpAddLocked, TrapCountExact, CountedThreads
  <2>7. ~Fresh
    BY <2>1 DEF Fresh
  <2> QED
    BY <1>6, <2>1, <2>3, <2>4, <2>5, <2>6, <2>7, ThreadFrame DEF BpAddLocked
<1>7. CASE BpDecTrapped(t)
  <2>1. /\ pc[t] = "dec" /\ pc' = [pc EXCEPT ![t] = "leaving"]
        /\ bp_trap_count' = bp_trap_count - 1
        /\ UNCHANGED <<table, control, bp_stopping, text, ip, budget, latePlant>>
    BY <1>7 DEF BpDecTrapped, Goto
  <2>2. "leaving" \in Phases \ Counted /\ "dec" \in Counted
    BY DEF Phases, InModule, Counted
  <2>3. TypeOK'
    BY <2>1, <2>2 DEF TypeOK, table, control
  <2>4. TrapCountExact'
    BY <2>1, <2>2, CountDown DEF TrapCountExact, CountedThreads
  <2>5. ~Fresh
    BY <2>1 DEF Fresh
  <2> QED
    BY <2>1, <2>2, <2>3, <2>4, <2>5, ThreadFrame DEF table
<1>8. CASE Leave(t)
  BY <1>8, MoveCore DEF Leave, Goto, Phases, InModule, Counted
<1>9. CASE Resume(t)
  BY <1>9, MoveCore DEF Resume, Goto, Phases, InModule, Counted
<1> QED
  BY <1>1, <1>2, <1>3, <1>4, <1>5, <1>6, <1>7, <1>8, <1>9 DEF ThreadStep
-----------------------------------------------------------------------------
(* Steps of the controller *)

\* A controller step that neither moves a thread nor touches the count keeps the
\* count exact.
LEMMA CountKept ==
  ASSUME CoreInv, UNCHANGED <<pc, bp_trap_count>>
  PROVE  TrapCountExact'
  BY DEF CoreInv, TrapCountExact

LEMMA CommandCore ==
  ASSUME CoreInv,
         (\E l \in Lists : Load(l)) \/ (\E p \in Params : SetParam(p))
           \/ StartCmd \/ StopCmd \/ ExitCmd
  PROVE  CoreInv'
<1> USE DEF CoreInv
<1>1. CASE (\E l \in Lists : Load(l)) \/ (\E p \in Params : SetParam(p))
  <2>1. /\ ctl = "idle" /\ address' \in Lists /\ i_param' \in Int
        /\ UNCHANGED <<table, running, ctl, cmd, pos, starts, engine, budget, latePlant>>
    BY <1>1, ParamsAssumption DEF Load, SetParam, TypeOK
  <2>2. TypeOK'
    BY <2>1 DEF TypeOK, table, engine
  <2>3. TrapCountExact'
    BY <2>1, CountKept DEF engine
  <2>4. StopWaits' /\ Closed'
    BY <2>1 DEF StopWaits, Closed, Stopped, Fresh, engine
  <2>5. Loading' /\ Loaded'
    BY <2>1 DEF Loading, Loaded, Active, table
  <2> QED
    BY <2>2, <2>3, <2>4, <2>5
<1>2. CASE StartCmd \/ StopCmd \/ ExitCmd
  <2>1. /\ ctl = "idle" /\ starts' \in Nat /\ cmd' \in Commands
        /\ ctl' = IF running THEN "bpClean" ELSE ctl'
        /\ ctl' \in {"bpClean", "wpCleanStart", "revert"}
        /\ ctl' # "bpClean" => ~running
        /\ UNCHANGED <<table, address, i_param, running, pos, engine, budget, latePlant>>
    BY <1>2 DEF StartCmd, StopCmd, ExitCmd, Command, Commands, TypeOK
  <2>2. TypeOK'
    BY <2>1 DEF TypeOK, table, engine, CtlPhases
  <2>3. TrapCountExact'
    BY <2>1, CountKept DEF engine
  <2>4. Stopped' => Stopped
    BY <2>1 DEF Stopped, InitPhases
  <2>5. StopWaits' /\ Closed'
    BY <2>1, <2>4 DEF StopWaits, Closed, Fresh, engine
  <2>6. Loading' /\ Loaded'
    BY <2>1 DEF Loading, Loaded, Active, table
  <2> QED
    BY <2>2, <2>3, <2>5, <2>6
<1> QED
  BY <1>1, <1>2

\* stop, exit_drddr and wp_clean.
LEMMA StopCore ==
  ASSUME CoreInv, BpClean \/ Drain \/ WpCleanDone \/ StartDone \/ Revert
  PROVE  CoreInv'
<1> USE DEF CoreInv
<1>1. CASE BpClean
  <2>1. /\ ctl = "bpClean" /\ ctl' = "drain" /\ bp_stopping' = TRUE
        /\ UNCHANGED <<bp_addr, bp_backup, bp_count, address, i_param, running, cmd,
                       pos, starts, bp_trap_count, pc, ip, budget, latePlant>>
    BY <1>1 DEF BpClean, RemoveAll
  <2>2. bp_state' \in [Indices -> {"UNUSED", "USING"}] /\ text' \in [Addr -> Bytes]
    <3>1. \A a \in Addr : \A i \in Matching(a) : bp_backup[i] \in Bytes
      BY ListsAssumption DEF Matching, Used, Active, Indices, TypeOK
    <3>2. \A a \in Addr : Matching(a) # {} =>
            bp_backup[CHOOSE i \in Matching(a) : TRUE] \in Bytes
      BY <3>1
    <3>3. text' \in [Addr -> Bytes]
      BY <1>1, <3>2 DEF BpClean, RemoveAll, TypeOK
    <3>4. bp_state' \in [Indices -> {"UNUSED", "USING"}]
      BY <1>1 DEF BpClean, RemoveAll, TypeOK
    <3> QED
      BY <3>3, <3>4
  <2>3. TypeOK'
    BY <2>1, <2>2 DEF TypeOK, CtlPhases
  <2>4. TrapCountExact'
    BY <2>1, CountKept
  <2>5. StopWaits' /\ Closed'
    BY <2>1 DEF StopWaits, Closed, Stopped, InitPhases
  <2>6. Loading' /\ Loaded'
    BY <2>1 DEF Loading, Loaded, Active
  <2> QED
    BY <2>3, <2>4, <2>5, <2>6
<1>2. CASE Drain
  <2>1. /\ ctl = "drain" /\ ctl' = "wpCleanStop" /\ bp_trap_count = 0
        /\ UNCHANGED <<table, address, i_param, running, cmd, pos, starts, engine,
                       budget, latePlant>>
    BY <1>2 DEF Drain
  <2>2. TypeOK'
    BY <2>1 DEF TypeOK, CtlPhases, table, engine
  <2>3. TrapCountExact'
    BY <2>1, CountKept DEF engine
  <2>4. StopWaits'
    BY <2>1, CountZero DEF TrapCountExact, CountedThreads, StopWaits, engine
  <2>5. Closed'
    BY <2>1 DEF Closed, engine
  <2>6. Loading' /\ Loaded'
    BY <2>1 DEF Loading, Loaded, Active, table
  <2> QED
    BY <2>2, <2>3, <2>4, <2>5, <2>6
<1>3. CASE WpCleanDone
  <2>1. /\ ctl \in {"wpCleanStop", "wpCleanStart"}
        /\ ctl' \in {"wpCleanStart", "revert", "idle", "initCount"}
        /\ running' \in BOOLEAN
        /\ UNCHANGED <<table, address, i_param, cmd, pos, starts, engine, budget,
                       latePlant>>
    BY <1>3 DEF WpCleanDone, AfterStop, TypeOK
  <2>2. TypeOK'
    BY <2>1 DEF TypeOK, CtlPhases, InitPhases, table, engine
  <2>3. TrapCountExact'
    BY <2>1, CountKept DEF engine
  <2>4. Stopped /\ ctl' # "drain"
    BY <2>1 DEF Stopped
  <2>5. StopWaits' /\ Closed'
    BY <2>1, <2>4 DEF StopWaits, Closed, Fresh, engine
  <2>6. Loading' /\ Loaded'
    BY <2>1 DEF Loading, Loaded, Active, table
  <2> QED
    BY <2>2, <2>3, <2>5, <2>6
<1>4. CASE StartDone
  <2>1. /\ ctl = "plant" /\ ctl' = "idle" /\ i_param' = -1 /\ running' = TRUE
        /\ UNCHANGED <<table, address, cmd, pos, starts, engine, budget, latePlant>>
    BY <1>4 DEF StartDone
  <2>2. TypeOK'
    BY <2>1 DEF TypeOK, CtlPhases, table, engine
  <2>3. TrapCountExact'
    BY <2>1, CountKept DEF engine
  <2>4. StopWaits' /\ Closed'
    BY <2>1 DEF StopWaits, Closed, Stopped, InitPhases
  <2>5. Loading' /\ Loaded'
    BY <2>1 DEF Loading, Loaded, Active, table
  <2> QED
    BY <2>2, <2>3, <2>4, <2>5
<1>5. CASE Revert
  <2>1. /\ ctl = "revert" /\ ctl' = "gone"
        /\ UNCHANGED <<table, address, i_param, running, cmd, pos, starts, engine,
                       budget, latePlant>>
    BY <1>5 DEF Revert
  <2>2. TypeOK'
    BY <2>1 DEF TypeOK, CtlPhases, table, engine
  <2>3. TrapCountExact'
    BY <2>1, CountKept DEF engine
  <2>4. Stopped
    BY <2>1 DEF Stopped
  <2>5. StopWaits' /\ Closed'
    BY <2>1, <2>4 DEF StopWaits, Closed, Fresh, engine
  <2>6. Loading' /\ Loaded'
    BY <2>1 DEF Loading, Loaded, Active, table
  <2> QED
    BY <2>2, <2>3, <2>5, <2>6
<1> QED
  BY <1>1, <1>2, <1>3, <1>4, <1>5

\* bp_init, and the bp_add of start.
LEMMA InitPlantCore ==
  ASSUME CoreInv,
         InitCount \/ InitAddr \/ InitState \/ InitTrap \/ InitFlag \/ PlantNext
  PROVE  CoreInv'
<1> USE DEF CoreInv
<1>0. /\ address \in Seq(Addr) /\ Len(address) \in 0..NAddress
      /\ \A i, j \in 1..Len(address) : address[i] = address[j] => i = j
  BY ListsAssumption DEF TypeOK
<1>1. CASE InitCount
  <2>1. /\ ctl = "initCount" /\ ctl' = "initAddr"
        /\ bp_count' = Len(address) /\ pos' = 0 /\ budget' = 0
        /\ UNCHANGED <<bp_addr, bp_state, bp_backup, address, i_param, running, cmd,
                       starts, engine, latePlant>>
    BY <1>1 DEF InitCount
  <2>2. TypeOK'
    BY <1>0, <2>1 DEF TypeOK, CtlPhases, InitPhases, engine
  <2>3. TrapCountExact'
    BY <2>1, CountKept DEF engine
  <2>4. Stopped
    BY <2>1 DEF Stopped, InitPhases
  <2>5. StopWaits' /\ Closed'
    BY <2>1, <2>4 DEF StopWaits, Closed, Fresh, engine
  <2>6. Loading' /\ Loaded'
    BY <1>0, <2>1 DEF Loading, Loaded
  <2> QED
    BY <2>2, <2>3, <2>5, <2>6
<1>2. CASE InitAddr
  <2>1. /\ ctl = "initAddr" /\ pos < bp_count /\ ctl' = "initState"
        /\ bp_addr' = [bp_addr EXCEPT ![pos] = address[pos + 1]]
        /\ UNCHANGED <<bp_state, bp_backup, bp_count, address, i_param, running, cmd,
                       pos, starts, engine, budget, latePlant>>
    BY <1>2 DEF InitAddr
  <2>2. /\ pos \in Nat /\ bp_count \in 0..NAddress /\ bp_count = Len(address)
        /\ \A i \in 0..(pos - 1) : bp_addr[i] = address[i + 1]
    BY <2>1 DEF TypeOK, Loading
  <2>3. pos \in Indices /\ address[pos + 1] \in Addr
    BY <1>0, <2>1, <2>2, ListsAssumption DEF Indices
  <2>4. TypeOK'
    BY <2>1, <2>3 DEF TypeOK, CtlPhases, InitPhases, engine
  <2>5. TrapCountExact'
    BY <2>1, CountKept DEF engine
  <2>6. Stopped
    BY <2>1 DEF Stopped, InitPhases
  <2>7. StopWaits' /\ Closed'
    BY <2>1, <2>6 DEF StopWaits, Closed, Fresh, engine
  <2>8. bp_addr'[pos] = address[pos + 1] /\ \A i \in 0..(pos - 1) : bp_addr'[i] = bp_addr[i]
    BY <2>1, <2>2, <2>3 DEF TypeOK
  <2>9. Loading' /\ Loaded'
    BY <2>1, <2>2, <2>8 DEF Loading, Loaded
  <2> QED
    BY <2>4, <2>5, <2>7, <2>9
<1>3. CASE InitState
  <2>1. /\ ctl = "initState" /\ ctl' = "initAddr" /\ pos' = pos + 1
        /\ bp_state' = [bp_state EXCEPT ![pos] = "UNUSED"]
        /\ UNCHANGED <<bp_addr, bp_backup, bp_count, address, i_param, running, cmd,
                       starts, engine, budget, latePlant>>
    BY <1>3 DEF InitState
  <2>2. TypeOK'
    <3>1. pos \in Indices
      BY <2>1, ListsAssumption DEF TypeOK, Loading, Indices
    <3>2. bp_state' \in [Indices -> {"UNUSED", "USING"}] /\ pos' \in Nat
      BY <2>1, <3>1 DEF TypeOK
    <3> QED
      BY <2>1, <3>2 DEF TypeOK, CtlPhases, InitPhases, engine
  <2>3. TrapCountExact'
    BY <2>1, CountKept DEF engine
  <2>4. Stopped
    BY <2>1 DEF Stopped, InitPhases
  <2>5. StopWaits' /\ Closed'
    BY <2>1, <2>4 DEF StopWaits, Closed, Fresh, engine
  <2>6. Loading' /\ Loaded'
    BY <2>1 DEF Loading, Loaded, TypeOK
  <2> QED
    BY <2>2, <2>3, <2>5, <2>6
<1>4. CASE InitTrap
  <2>1. /\ ctl = "initAddr" /\ pos = bp_count /\ ctl' = "initFlag"
        /\ bp_trap_count' = 0
        /\ UNCHANGED <<table, address, i_param, running, cmd, pos, starts,
                       bp_stopping, text, pc, ip, budget, latePlant>>
    BY <1>4 DEF InitTrap
  <2>2. TypeOK'
    BY <2>1 DEF TypeOK, CtlPhases, InitPhases, table
  <2>3. Stopped
    BY <2>1 DEF Stopped, InitPhases
  <2>4. TrapCountExact'
    BY <2>1, <2>3, CountZero DEF StopWaits, TrapCountExact, CountedThreads
  <2>5. StopWaits' /\ Closed'
    BY <2>1, <2>3 DEF StopWaits, Closed, Fresh
  <2>6. Loaded'
    <3>1. bp_count \in Nat /\ bp_count = Len(address)
          /\ \A i \in Active : bp_addr[i] = address[i + 1] /\ i + 1 \in 1..Len(address)
      BY <1>0, <2>1 DEF Loading, Active, TypeOK
    <3>2. \A i \in Active : bp_addr[i] \in Addr
      BY <1>0, <3>1
    <3>3. \A i, j \in Active : bp_addr[i] = bp_addr[j] => i = j
      BY <1>0, <3>1 DEF Active
    <3> QED
      BY <2>1, <3>2, <3>3 DEF Loaded, Active, table
  <2>7. Loading'
    BY <2>1 DEF Loading
  <2> QED
    BY <2>2, <2>4, <2>5, <2>6, <2>7
<1>5. CASE InitFlag
  <2>1. /\ ctl = "initFlag" /\ ctl' = "plant" /\ bp_stopping' = FALSE /\ pos' = 0
        /\ UNCHANGED <<table, address, i_param, running, cmd, starts, bp_trap_count,
                       text, pc, ip, budget, latePlant>>
    BY <1>5 DEF InitFlag
  <2>2. TypeOK'
    BY <2>1 DEF TypeOK, CtlPhases, table
  <2>3. TrapCountExact'
    BY <2>1, CountKept
  <2>4. StopWaits' /\ Closed'
    BY <2>1 DEF StopWaits, Closed, Stopped, InitPhases
  <2>5. Loading' /\ Loaded'
    BY <2>1 DEF Loading, Loaded, Active, table
  <2> QED
    BY <2>2, <2>3, <2>4, <2>5
<1>6. CASE PlantNext
  <2>1. /\ ctl = "plant" /\ Add(PlantChoice)
        /\ budget' = IF Choices(PlantChoice) = {} THEN budget ELSE budget + 1
        /\ pos' = pos + PlantStride
        /\ UNCHANGED <<address, i_param, running, ctl, cmd, starts, bp_trap_count,
                       bp_stopping, pc, ip, latePlant>>
    BY <1>6 DEF PlantNext
  <2>2. PlantStride \in Nat
    BY DEF PlantStride, Strided, TypeOK
  <2>3. /\ bp_state' \in [Indices -> {"UNUSED", "USING"}]
        /\ bp_backup' \in [Indices -> Bytes]
        /\ text' \in [Addr -> Bytes]
        /\ UNCHANGED <<bp_addr, bp_count>>
    BY <2>1, AddTypes
  <2>4. pos' \in Nat /\ budget' \in Nat
    BY <2>1, <2>2 DEF TypeOK
  <2>5. TypeOK'
    BY <2>1, <2>3, <2>4 DEF TypeOK
  <2>6. TrapCountExact'
    BY <2>1, CountKept
  <2>7. StopWaits' /\ Closed'
    BY <2>1 DEF StopWaits, Closed, Stopped, InitPhases
  <2>8. Loading' /\ Loaded'
    BY <2>1, <2>3 DEF Loading, Loaded, Active
  <2> QED
    BY <2>5, <2>6, <2>7, <2>8
<1> QED
  BY <1>1, <1>2, <1>3, <1>4, <1>5, <1>6
-----------------------------------------------------------------------------
(* All steps *)

LEMMA CoreNext == CoreInv /\ [Next]_vars => CoreInv'
<1> SUFFICES ASSUME CoreInv, [Next]_vars PROVE CoreInv'
  OBVIOUS
<1>1. CASE \E t \in Threads : ThreadStep(t) \/ Resume(t)
  BY <1>1, ThreadCore
<1>2. CASE \E t \in Threads, a \in Addr : Trap(t, a)
  BY <1>2, TrapCore
<1>3. CASE (\E l \in Lists : Load(l)) \/ (\E p \in Params : SetParam(p))
             \/ StartCmd \/ StopCmd \/ ExitCmd
  BY <1>3, CommandCore
<1>4. CASE CtlStep
  BY <1>4, StopCore, InitPlantCore DEF CtlStep
<1>5. CASE Quiet \/ UNCHANGED vars
  <2>1. UNCHANGED vars
    BY <1>5 DEF Quiet
  <2> QED
    BY <2>1 DEF vars, table, control, CoreInv, TypeOK, TrapCountExact, StopWaits,
                Stopped, Closed, Fresh, Loading, Loaded, Active
<1> QED
  BY <1>1, <1>2, <1>3, <1>4, <1>5 DEF Next

THEOREM CoreInvariant == Spec => []CoreInv
  BY CoreInit, CoreNext, PTL DEF Spec

\* The variables of the table, the controller and the threads keep their shapes;
\* bp_state is never TRIGGERED.
THEOREM TypeCorrect == Spec => []TypeOK
  BY CoreInvariant, PTL DEF CoreInv

\* bp_trap_count is, at every moment, the number of threads between
\* bp_inc_trapped and bp_dec_trapped.
THEOREM TrapCountCorrect == Spec => []TrapCountExact
  BY CoreInvariant, PTL DEF CoreInv

\* When bp_clean has returned, and until the next start, no thread is in
\* int3_real_work.
THEOREM StopWaitsCorrect == Spec => []StopWaits
  BY CoreInvariant, PTL DEF CoreInv
-----------------------------------------------------------------------------
(***************************************************************************)
(* The table and the kernel text.                                          *)
(*                                                                         *)
(* TableInv is inductive relative to CoreInv.  That a planted byte was the *)
(* original one needs that the addresses of the table differ (Loaded);     *)
(* that bp_init may rewrite the table needs that nothing is in use then    *)
(* (Disarmed), which a bp_add that comes after bp_clean destroys.          *)
(***************************************************************************)

\* bp_clean has emptied the table and start has not begun to plant.
Disarmed == Stopped \/ ctl = "drain"

InUse(i) == bp_state[i] = "USING"

TableInv ==
  ~latePlant =>
    /\ \A i \in Indices : InUse(i) => i \in Active /\ bp_backup[i] = Orig
    /\ \A a \in Addr : text[a] = INT3 <=> \E i \in Indices : InUse(i) /\ bp_addr[i] = a
    /\ Disarmed => \A i \in Indices : ~InUse(i)

LEMMA TableInit == Init => TableInv
  BY DEF Init, TableInv, InUse, INT3, Orig

\* Steps that leave the table and the text alone.
LEMMA TableFrame ==
  ASSUME TableInv, UNCHANGED <<table, text>>, latePlant' = latePlant,
         Disarmed' => Disarmed
  PROVE  TableInv'
  BY DEF TableInv, InUse, Active, table

\* Steps of bp_init: nothing is in use.
LEMMA TableLoad ==
  ASSUME TableInv, Disarmed, UNCHANGED <<text, latePlant>>,
         \A i \in Indices : InUse(i)' => InUse(i)
  PROVE  TableInv'
<1> SUFFICES ASSUME ~latePlant PROVE TableInv'
  BY DEF TableInv
<1>1. \A i \in Indices : ~InUse(i) /\ ~InUse(i)'
  BY DEF TableInv
<1>2. \A a \in Addr : text'[a] # INT3
  BY <1>1 DEF TableInv
<1>3. (\A a \in Addr : text[a] = INT3 <=> \E i \in Indices : InUse(i) /\ bp_addr[i] = a)'
  BY <1>1, <1>2
<1> QED
  BY <1>1, <1>3 DEF TableInv

\* bp_add, in an engine that is armed.
LEMMA TableAdd ==
  ASSUME CoreInv, TableInv, NEW n, Add(n), latePlant' = latePlant,
         ~Disarmed, ~Disarmed'
  PROVE  TableInv'
<1>1. CASE NoPlant
  BY <1>1, TableFrame DEF NoPlant
<1>2. CASE \E i \in Free : Plant(i)
  <2> SUFFICES ASSUME ~latePlant PROVE TableInv'
    BY DEF TableInv
  <2>1. PICK i \in Free : Plant(i)
    BY <1>2
  <2>2. ctl \notin {"initAddr", "initState"}
    BY DEF Disarmed, Stopped, InitPhases
  <2>3. /\ i \in Indices /\ i \in Active /\ ~InUse(i) /\ bp_addr[i] \in Addr
        /\ \A j \in Active : bp_addr[j] = bp_addr[i] => j = i
    BY <2>2, ListsAssumption DEF CoreInv, TypeOK, Free, Active, Indices, Loaded, InUse
  <2>4. text[bp_addr[i]] = Orig
    <3>1. \A j \in Indices : InUse(j) => bp_addr[j] # bp_addr[i]
      BY <2>3 DEF TableInv
    <3>2. text[bp_addr[i]] # INT3
      BY <2>3, <3>1 DEF TableInv
    <3> QED
      BY <2>3, <3>2 DEF CoreInv, TypeOK, Bytes
  <2>5. /\ bp_state'  = [bp_state EXCEPT ![i] = "USING"]
        /\ bp_backup' = [bp_backup EXCEPT ![i] = Orig]
        /\ text'      = [text EXCEPT ![bp_addr[i]] = INT3]
        /\ UNCHANGED <<bp_addr, bp_count>>
    BY <2>1, <2>4 DEF Plant
  <2>6. InUse(i)' /\ bp_backup'[i] = Orig /\ Active' = Active
    BY <2>3, <2>5 DEF InUse, Active, CoreInv, TypeOK
  <2>7. \A j \in Indices \ {i} : (InUse(j)' <=> InUse(j)) /\ bp_backup'[j] = bp_backup[j]
    BY <2>5 DEF InUse, CoreInv, TypeOK
  <2>8. \A j \in Indices : InUse(j)' => j \in Active' /\ bp_backup'[j] = Orig
    BY <2>3, <2>6, <2>7 DEF TableInv
  <2>9. text'[bp_addr[i]] = INT3 /\ \A a \in Addr \ {bp_addr[i]} : text'[a] = text[a]
    BY <2>3, <2>5 DEF CoreInv, TypeOK
  <2>10. \A a \in Addr : text'[a] = INT3 <=> \E j \in Indices : InUse(j)' /\ bp_addr'[j] = a
    <3> SUFFICES ASSUME NEW a \in Addr
                 PROVE  text'[a] = INT3 <=> \E j \in Indices : InUse(j)' /\ bp_addr[j] = a
      BY <2>5
    <3>1. CASE a = bp_addr[i]
      BY <2>3, <2>6, <2>9, <3>1
    <3>2. CASE a # bp_addr[i]
      <4>1. text'[a] = text[a]
        BY <2>9, <3>2
      <4>2. \A j \in Indices : bp_addr[j] = a => (InUse(j)' <=> InUse(j))
        BY <2>7, <3>2
      <4> QED
        BY <4>1, <4>2 DEF TableInv
    <3> QED
      BY <3>1, <3>2
  <2> QED
    BY <2>8, <2>10 DEF TableInv
<1> QED
  BY <1>1, <1>2 DEF Add, Choices

\* _bp_remove.
LEMMA TableRemove ==
  ASSUME CoreInv, TableInv, NEW a \in Addr, RemoveAt(a), latePlant' = latePlant,
         UNCHANGED control
  PROVE  TableInv'
<1> SUFFICES ASSUME ~latePlant PROVE TableInv'
  BY DEF TableInv
<1>1. PICK i \in Matching(a) :
        /\ text'     = [text EXCEPT ![a] = bp_backup[i]]
        /\ bp_state' = [bp_state EXCEPT ![i] = "UNUSED"]
        /\ UNCHANGED <<bp_addr, bp_backup, bp_count>>
  BY DEF RemoveAt
<1>2. i \in Indices /\ i \in Active /\ InUse(i) /\ bp_addr[i] = a
  BY ListsAssumption DEF CoreInv, TypeOK, Matching, Used, Active, Indices, InUse
<1>3. ~Disarmed /\ ~Disarmed'
  BY <1>2 DEF TableInv, Disarmed, Stopped, control
<1>4. \A j \in Active : bp_addr[j] = a => j = i
  BY <1>2, <1>3 DEF CoreInv, Loaded, Disarmed, Stopped, InitPhases
<1>5. ~InUse(i)' /\ \A j \in Indices \ {i} : InUse(j)' <=> InUse(j)
  BY <1>1, <1>2 DEF InUse, CoreInv, TypeOK
<1>6. text'[a] = Orig /\ \A b \in Addr \ {a} : text'[b] = text[b]
  BY <1>1, <1>2 DEF TableInv, CoreInv, TypeOK
<1>7. \A j \in Indices : InUse(j)' => j \in Active' /\ bp_backup'[j] = Orig
  BY <1>1, <1>5 DEF TableInv, Active
<1>8. \A b \in Addr : text'[b] = INT3 <=> \E j \in Indices : InUse(j)' /\ bp_addr'[j] = b
  <2> SUFFICES ASSUME NEW b \in Addr
               PROVE  text'[b] = INT3 <=> \E j \in Indices : InUse(j)' /\ bp_addr[j] = b
    BY <1>1
  <2>1. CASE b = a
    <3>1. text'[b] # INT3
      BY <1>6, <2>1 DEF INT3, Orig
    <3>2. \A j \in Indices : InUse(j)' => bp_addr[j] # b
      BY <1>4, <1>5, <2>1 DEF TableInv
    <3> QED
      BY <3>1, <3>2
  <2>2. CASE b # a
    <3>1. \A j \in Indices : bp_addr[j] = b => (InUse(j)' <=> InUse(j))
      BY <1>2, <1>5, <2>2
    <3> QED
      BY <1>6, <2>2, <3>1 DEF TableInv
  <2> QED
    BY <2>1, <2>2
<1> QED
  BY <1>3, <1>7, <1>8 DEF TableInv

\* The loop of bp_clean.
LEMMA TableRemoveAll ==
  ASSUME CoreInv, TableInv, RemoveAll, latePlant' = latePlant
  PROVE  TableInv'
<1> SUFFICES ASSUME ~latePlant PROVE TableInv'
  BY DEF TableInv
<1>1. \A i \in Indices : ~InUse(i)'
  BY DEF RemoveAll, TableInv, InUse, Used, CoreInv, TypeOK
<1>2. \A a \in Addr : text'[a] # INT3
  <2> TAKE a \in Addr
  <2>1. text'[a] = IF Matching(a) = {} THEN text[a]
                   ELSE bp_backup[CHOOSE i \in Matching(a) : TRUE]
    BY DEF RemoveAll
  <2>2. \A i : i \in Matching(a) <=> i \in Indices /\ InUse(i) /\ bp_addr[i] = a
    BY ListsAssumption DEF Matching, Used, InUse, Active, Indices, TableInv, CoreInv, TypeOK
  <2>3. CASE Matching(a) = {}
    BY <2>1, <2>2, <2>3 DEF TableInv
  <2>4. CASE Matching(a) # {}
    <3>1. bp_backup[CHOOSE i \in Matching(a) : TRUE] = Orig
      BY <2>2, <2>4 DEF TableInv
    <3> QED
      BY <2>1, <2>4, <3>1 DEF INT3, Orig
  <2> QED
    BY <2>3, <2>4
<1> QED
  BY <1>1, <1>2 DEF TableInv

LEMMA TableNext == CoreInv /\ TableInv /\ [Next]_vars => TableInv'
<1> SUFFICES ASSUME CoreInv, TableInv, [Next]_vars PROVE TableInv'
  OBVIOUS
<1>1. ASSUME NEW t \in Threads, BpRemove(t) PROVE TableInv'
  <2>1. CASE Matching(ip[t]) = {}
    BY <1>1, <2>1, TableFrame DEF BpRemove, Disarmed, Stopped, control
  <2>2. CASE Matching(ip[t]) # {}
    <3>1. RemoveAt(ip[t]) /\ latePlant' = latePlant /\ UNCHANGED control
      BY <1>1, <2>2 DEF BpRemove
    <3>2. CASE ip[t] \in Addr
      BY <3>1, <3>2, TableRemove
    <3>3. CASE ip[t] \notin Addr
      <4>1. PICK i \in Matching(ip[t]) : bp_state[i] = "USING" /\ i \in Active /\ bp_addr[i] \notin Addr
        BY <2>2, <3>3 DEF Matching, Used
      <4>2. ctl \in {"initAddr", "initState"}
        BY <4>1 DEF CoreInv, Loaded
      <4>3. i \in Indices /\ InUse(i) /\ Disarmed
        BY <4>1, <4>2, ListsAssumption
           DEF CoreInv, TypeOK, Active, Indices, InUse, Disarmed, Stopped, InitPhases
      <4> QED
        BY <3>1, <4>3 DEF TableInv
    <3> QED
      BY <3>2, <3>3
  <2> QED
    BY <2>1, <2>2
<1>2. ASSUME NEW t \in Threads, BpAddLocked(t) PROVE TableInv'
  <2>1. pc[t] = "adding" /\ Add(-1) /\ UNCHANGED <<control, bp_stopping>>
        /\ latePlant' = (latePlant \/ (bp_stopping /\ Free # {}))
    BY <1>2 DEF BpAddLocked, Goto
  <2>2. ~Stopped
    BY <1>2, <2>1 DEF CoreInv, StopWaits, Counted
  <2>3. CASE latePlant'
    BY <2>3 DEF TableInv
  <2>4. CASE ~latePlant' /\ Free = {}
    <3>1. UNCHANGED <<table, text>> /\ latePlant' = latePlant
      BY <2>1, <2>4 DEF Add, Choices, NoPlant, CoreInv, TypeOK
    <3> QED
      BY <2>1, <3>1, TableFrame DEF Disarmed, Stopped, control
  <2>5. CASE ~latePlant' /\ Free # {}
    <3>1. ~bp_stopping /\ latePlant' = latePlant
      BY <2>1, <2>5 DEF CoreInv, TypeOK
    <3>2. ~Disarmed /\ ~Disarmed'
      BY <2>1, <2>2, <3>1 DEF Disarmed, Stopped, control, CoreInv, Closed
    <3> QED
      BY <2>1, <3>1, <3>2, TableAdd
  <2> QED
    BY <2>3, <2>4, <2>5
<1>3. CASE \E t \in Threads : ThreadStep(t) \/ Resume(t) \/ \E a \in Addr : Trap(t, a)
  <2>1. ASSUME NEW t \in Threads,
               BpCheck(t) \/ BpIncTrapped(t) \/ FinishWork(t) \/ BpAddTest(t)
                 \/ BpDecTrapped(t) \/ Leave(t) \/ Resume(t) \/ \E a \in Addr : Trap(t, a)
        PROVE  TableInv'
    <3>1. UNCHANGED <<table, text, control, latePlant>>
      BY <2>1 DEF BpCheck, BpIncTrapped, FinishWork, BpAddTest, BpDecTrapped, Leave,
                  Resume, Trap
    <3> QED
      BY <3>1, TableFrame DEF Disarmed, Stopped, control
  <2> QED
    BY <1>1, <1>2, <1>3, <2>1 DEF ThreadStep
<1>4. CASE (\E l \in Lists : Load(l)) \/ (\E p \in Params : SetParam(p))
             \/ StartCmd \/ StopCmd \/ ExitCmd
  BY <1>4, TableFrame
     DEF Load, SetParam, StartCmd, StopCmd, ExitCmd, Command, engine, Disarmed, Stopped,
         InitPhases
<1>5. CASE BpClean
  BY <1>5, TableRemoveAll DEF BpClean
<1>6. CASE Drain \/ WpCleanDone \/ StartDone \/ Revert \/ InitTrap \/ InitFlag
  BY <1>6, TableFrame
     DEF Drain, WpCleanDone, StartDone, Revert, InitTrap, InitFlag, engine, Disarmed,
         Stopped, InitPhases
<1>7. CASE InitCount \/ InitAddr \/ InitState
  <2>1. Disarmed /\ UNCHANGED <<text, latePlant>>
    BY <1>7 DEF InitCount, InitAddr, InitState, Disarmed, Stopped, InitPhases, engine
  <2>2. \A i \in Indices : InUse(i)' => InUse(i)
    BY <1>7 DEF InitCount, InitAddr, InitState, InUse, CoreInv, TypeOK
  <2> QED
    BY <2>1, <2>2, TableLoad
<1>8. CASE PlantNext
  BY <1>8, TableAdd DEF PlantNext, Disarmed, Stopped, InitPhases
<1>9. CASE Quiet \/ UNCHANGED vars
  BY <1>9, TableFrame DEF Quiet, vars, table, control, Disarmed, Stopped
<1> QED
  BY <1>3, <1>4, <1>5, <1>6, <1>7, <1>8, <1>9 DEF Next, CtlStep

LEMMA TableProperties ==
  ASSUME CoreInv, TableInv PROVE PlantedIsTracked /\ TextRestored
<1>1. \A i : i \in Used <=> i \in Indices /\ i \in Active /\ InUse(i)
  BY ListsAssumption DEF Used, Active, Indices, InUse, CoreInv, TypeOK
<1>2. PlantedIsTracked
  BY <1>1 DEF PlantedIsTracked, TableInv, Matching
<1>3. TextRestored
  BY DEF TextRestored, TableInv, Disarmed, CoreInv, TypeOK, Bytes
<1> QED
  BY <1>2, <1>3

THEOREM TableInvariant == Spec => [](CoreInv /\ TableInv)
  BY CoreInit, CoreNext, TableInit, TableNext, PTL DEF Spec

\* The table and the kernel text agree until bp_add plants after bp_clean: every
\* int3 has its entry, every entry in use its int3 and the original byte.
THEOREM PlantedCorrect == Spec => []PlantedIsTracked
  BY TableInvariant, TableProperties, PTL

\* A stop leaves the kernel text as it found it, unless bp_add plants after
\* bp_clean has refused it.
THEOREM TextRestoredCorrect == Spec => []TextRestored
  BY TableInvariant, TableProperties, PTL
-----------------------------------------------------------------------------
(* Disowned traps *)

\* What TrapsDisownedByInitOnly allows.
DisownedByInit(t) ==
  pc'[t] = "trapped" /\ ~Listed(ip[t])' =>
    \/ latePlant'
    \/ pc[t] = "trapped" /\ (~Listed(ip[t]) \/ ctl \in {"initCount", "initAddr"})

\* A step that leaves the addresses of the table alone, and does not make t trap,
\* disowns nothing that was not disowned before.
LEMMA DisownFrame ==
  ASSUME UNCHANGED <<bp_addr, bp_count>>, NEW t \in Threads,
         pc'[t] = "trapped" => pc[t] = "trapped" /\ ip'[t] = ip[t]
  PROVE  DisownedByInit(t)
  BY DEF DisownedByInit, Listed, Active

\* The instruction at which a thread traps has an entry.
LEMMA DisownTrap ==
  ASSUME CoreInv, PlantedIsTracked, NEW u \in Threads, NEW a \in Addr, Trap(u, a),
         NEW t \in Threads
  PROVE  DisownedByInit(t)
<1>1. UNCHANGED <<bp_addr, bp_count, latePlant>>
  BY DEF Trap, table
<1>2. CASE t # u
  BY <1>1, <1>2, DisownFrame DEF Trap, CoreInv, TypeOK
<1>3. CASE t = u /\ ~latePlant
  <2>1. ip'[t] = a /\ Matching(a) # {}
    BY <1>3 DEF Trap, CoreInv, TypeOK, PlantedIsTracked
  <2>2. Listed(a)
    BY <2>1 DEF Matching, Used, Listed
  <2> QED
    BY <1>1, <2>1, <2>2 DEF DisownedByInit, Listed, Active
<1> QED
  BY <1>1, <1>2, <1>3 DEF DisownedByInit, CoreInv, TypeOK

\* No step of a thread makes it trap or changes the addresses of the table.
LEMMA DisownThread ==
  ASSUME CoreInv, NEW u \in Threads, ThreadStep(u) \/ Resume(u), NEW t \in Threads
  PROVE  DisownedByInit(t)
<1>1. PICK p : pc' = [pc EXCEPT ![u] = p] /\ p # "trapped"
  BY DEF ThreadStep, BpCheck, BpRemove, BpIncTrapped, FinishWork, BpAddTest, BpAddLocked,
         BpDecTrapped, Leave, Resume, Goto
<1>2. UNCHANGED ip
  BY DEF ThreadStep, BpCheck, BpRemove, BpIncTrapped, FinishWork, BpAddTest, BpAddLocked,
         BpDecTrapped, Leave, Resume
<1>3. UNCHANGED <<bp_addr, bp_count>>
  <2>1. CASE BpRemove(u)
    BY <2>1 DEF BpRemove, RemoveAt, table
  <2>2. CASE BpAddLocked(u)
    BY <2>2 DEF BpAddLocked, Add, NoPlant, Plant, table
  <2> QED
    BY <2>1, <2>2 DEF ThreadStep, BpCheck, BpIncTrapped, FinishWork, BpAddTest,
                      BpDecTrapped, Leave, Resume, table
<1> QED
  BY <1>1, <1>2, <1>3, DisownFrame DEF CoreInv, TypeOK

LEMMA DisownNext ==
  ASSUME CoreInv, PlantedIsTracked, [Next]_vars, NEW t \in Threads
  PROVE  DisownedByInit(t)
<1>1. CASE \E u \in Threads : ThreadStep(u) \/ Resume(u) \/ \E a \in Addr : Trap(u, a)
  BY <1>1, DisownThread, DisownTrap
<1>2. CASE (\E l \in Lists : Load(l)) \/ (\E p \in Params : SetParam(p))
             \/ StartCmd \/ StopCmd \/ ExitCmd
  BY <1>2, DisownFrame
     DEF Load, SetParam, StartCmd, StopCmd, ExitCmd, Command, engine, table
<1>3. CASE InitCount \/ InitAddr
  <2>1. ctl \in {"initCount", "initAddr"} /\ UNCHANGED pc
    BY <1>3 DEF InitCount, InitAddr, engine
  <2> QED
    BY <2>1 DEF DisownedByInit
<1>4. CASE BpClean \/ PlantNext
  BY <1>4, DisownFrame
     DEF BpClean, RemoveAll, PlantNext, Add, NoPlant, Plant, engine, table
<1>5. CASE Drain \/ WpCleanDone \/ InitState \/ InitTrap \/ InitFlag \/ StartDone \/ Revert
             \/ Quiet \/ UNCHANGED vars
  BY <1>5, DisownFrame
     DEF Drain, WpCleanDone, InitState, InitTrap, InitFlag, StartDone, Revert, Quiet, vars,
         engine, table
<1> QED
  BY <1>1, <1>2, <1>3, <1>4, <1>5 DEF Next, CtlStep

\* A trap of the module goes to the kernel's handler only if bp_init has
\* overwritten the table since, or if it was planted after bp_clean.
THEOREM TrapsOwned == Spec => TrapsDisownedByInitOnly
<1>1. CoreInv /\ PlantedIsTracked /\ [Next]_vars =>
        [\A t \in Threads : DisownedByInit(t)]_vars
  BY DisownNext
<1>2. [\A t \in Threads : DisownedByInit(t)]_vars =>
        [\A t \in Threads : pc'[t] = "trapped" /\ ~Listed(ip[t])' =>
           \/ latePlant'
           \/ pc[t] = "trapped" /\ (~Listed(ip[t]) \/ ctl \in {"initCount", "initAddr"})]_vars
  BY DEF DisownedByInit
<1> QED
  BY <1>1, <1>2, TableInvariant, PlantedCorrect, PTL DEF Spec, TrapsDisownedByInitOnly
=============================================================================
