-------------------------------- MODULE Drddr --------------------------------
(***************************************************************************)
(* The kernel module as a whole: Breakpoints and Watchpoints together.     *)
(*                                                                         *)
(* Every CPU runs one thread.  int3_real_work, one step of Breakpoints,    *)
(* becomes the watch of that thread; the calls of wp_clean, one step of    *)
(* Breakpoints too, become the phases of wp_clean.  int3_drddr and         *)
(* debug_drddr run with interrupts off, and so does int3_real_work if the  *)
(* thread did: a CPU in them answers no interrupt, and a CPU in            *)
(* debug_drddr does not run its thread.                                    *)
(***************************************************************************)
EXTENDS Integers, FiniteSets, Sequences

CONSTANTS
  Workers, Addr, Lists, Params, NAddress, MaxStarts, NoAddr,
  Ctl, NSlots, Data, Zero, Accesses, OtherCauses, NumHalf, MaxCount, NoNum

VARIABLES
  address, i_param, running, bp_addr, bp_state, bp_backup, bp_count,
  bp_trap_count, bp_stopping, text, ctl, cmd, pos, starts, pc, ip, budget,
  latePlant,
  wp_usage, wp_addr, wp_iswrite, wp_num, wp_total_count, wp_lock, pending,
  dr, dr7, dr6, wpc, dbg, request, id, slot, mynum, armed, cause, misread

Bp == INSTANCE Breakpoints WITH Threads <- Workers
Wp == INSTANCE Watchpoints

ASSUME EngineAssumption ==
  /\ Bp!ListsAssumption /\ Bp!ThreadsAssumption
  /\ Bp!ParamsAssumption /\ Bp!NoAddrAssumption
ASSUME WatchAssumption ==
  /\ Wp!CpusAssumption /\ Wp!SlotsAssumption
  /\ Wp!NumAssumption /\ Wp!DataAssumption

bpVars == <<address, i_param, running, bp_addr, bp_state, bp_backup, bp_count,
            bp_trap_count, bp_stopping, text, ctl, cmd, pos, starts, pc, ip,
            budget, latePlant>>
wpVars == <<wp_usage, wp_addr, wp_iswrite, wp_num, wp_total_count, wp_lock,
            pending, dr, dr7, dr6, wpc, dbg, request, id, slot, mynum, armed,
            cause, misread>>
vars   == <<bpVars, wpVars>>

-----------------------------------------------------------------------------
\* Thread t in int3_drddr or in the parts of int3_real_work that do not concern
\* its watch, or running kernel code.
EngineStep(t) ==
  /\ dbg[t] = "off"
  /\ \/ Bp!BpCheck(t) \/ Bp!BpRemove(t) \/ Bp!BpIncTrapped(t)
     \/ Bp!BpAddTest(t) \/ Bp!BpAddLocked(t) \/ Bp!BpDecTrapped(t)
     \/ Bp!Leave(t) \/ Bp!Resume(t) \/ \E a \in Addr : Bp!Trap(t, a)
  /\ UNCHANGED wpVars

\* The instruction has a memory operand ...
BeginWatch(t) ==
  /\ pc[t] = "work"
  /\ \E x \in Accesses : Wp!Begin(t, x)
  /\ UNCHANGED bpVars

\* ... or none.
NoOperand(t) ==
  /\ wpc[t] = "idle" /\ dbg[t] = "off"
  /\ Bp!FinishWork(t)
  /\ UNCHANGED wpVars

\* wp_add, the wait and wp_remove; the step that returns from the last of them
\* goes on in int3_real_work.
WatchStep(t) ==
  /\ Wp!ThreadStep(t)
  /\ IF wpc'[t] = "idle" THEN Bp!FinishWork(t) ELSE UNCHANGED bpVars

\* Debug exceptions come to debug_drddr until exit_drddr, on every CPU and also
\* while it is in int3_drddr.
DebugStep(c) ==
  /\ \/ Bp!Hooked /\ \E x \in Accesses : Wp!Hit(c, x)
     \/ Wp!DbgStep(c)
  /\ UNCHANGED bpVars

AckStep(c) ==
  /\ c \in Workers => pc[c] \notin Bp!InHandler
  /\ Wp!Ack(c)
  /\ UNCHANGED bpVars

\* start, stop and exit_drddr outside wp_clean.
ControlStep ==
  /\ \/ Bp!BpClean \/ Bp!Drain \/ Bp!InitCount \/ Bp!InitAddr \/ Bp!InitState
     \/ Bp!InitTrap \/ Bp!InitFlag \/ Bp!PlantNext \/ Bp!StartDone \/ Bp!Revert
  /\ UNCHANGED wpVars

CommandStep ==
  /\ \/ \E l \in Lists : Bp!Load(l)
     \/ \E p \in Params : Bp!SetParam(p)
     \/ Bp!StartCmd \/ Bp!StopCmd \/ Bp!ExitCmd
  /\ UNCHANGED wpVars

Cleaning == ctl \in {"wpCleanStop", "wpCleanStart"}

\* wp_clean is called, takes the lock, and returns.
CleanStep ==
  \/ Cleaning /\ Wp!CleanBegin /\ UNCHANGED bpVars
  \/ Wp!CleanLocked /\ UNCHANGED bpVars
  \/ Wp!CleanDone /\ Bp!WpCleanDone
-----------------------------------------------------------------------------
Init == Bp!Init /\ Wp!Init

ThreadStep(t) == EngineStep(t) \/ BeginWatch(t) \/ NoOperand(t) \/ WatchStep(t)

Next ==
  \/ \E t \in Workers : ThreadStep(t)
  \/ \E c \in Wp!Cpus : DebugStep(c) \/ AckStep(c)
  \/ ControlStep \/ CommandStep \/ CleanStep

Spec == Init /\ [][Next]_vars

\* A pending interrupt is taken when the CPU enables interrupts, the spinlock is
\* a ticket lock, and a debug exception is raised after an instruction, so that
\* a thread advances between two of them: whoever can go on again and again
\* does.  Nothing is assumed of threads outside the module.
InModuleStep(t) == pc[t] \in Bp!InModule /\ ThreadStep(t)

FairSpec ==
  /\ Spec
  /\ \A t \in Workers : SF_vars(InModuleStep(t))
  /\ \A c \in Wp!Cpus : SF_vars(Wp!DbgStep(c) /\ UNCHANGED bpVars)
  /\ SF_vars(\E c \in Wp!Cpus : AckStep(c))
  /\ SF_vars(ControlStep \/ CleanStep)
-----------------------------------------------------------------------------
(* Properties *)

\* What wp_clean relies on and no lock ensures: from its call to its return no
\* thread is in wp_add, waits or is in wp_remove, nor can one come.
CleanAlone ==
  Cleaning => \A t \in Workers : wpc[t] = "idle" /\ pc[t] \notin Bp!Counted

\* After stop, and until start plants again, no watch is in the table and no
\* CPU has a debug register armed, whatever ids were misread and however late
\* a debug handler comes.
StoppedQuiet ==
  Bp!Stopped /\ ~Cleaning =>
    /\ \A s \in Wp!Slots : ~wp_usage[s]
    /\ \A c \in Wp!Cpus, s \in Wp!Slots : dr7[c][s] = "off"

\* drddr-main.c:505, "Stop the module from running": stop returns.
Stopping == ctl \in {"bpClean", "drain", "wpCleanStop"}
StopReturns == Stopping ~> ~Stopping
=============================================================================
