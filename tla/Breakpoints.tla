----------------------------- MODULE Breakpoints -----------------------------
(***************************************************************************)
(* The breakpoint engine of DRDDR: the table of drddr-bp.c, the int3       *)
(* handler and its worker in drddr-main.c, and the controller that starts, *)
(* stops and unloads the detector.                                         *)
(*                                                                         *)
(* Every region under bp_lock_drddr is one action.  What the code reads or *)
(* writes outside the lock is an action of its own: the test of            *)
(* bp_stopping in bp_add, the polling of bp_trap_count in bp_clean, and    *)
(* every store of bp_init.  Those stores are taken in program order.       *)
(*                                                                         *)
(* The watchpoint of a trapped thread lives between the phases "work" and  *)
(* "readd"; module Drddr replaces that step by the ones of Watchpoints.    *)
(***************************************************************************)
EXTENDS Integers, FiniteSets, Sequences

CONSTANTS
  Threads,      \* kernel threads that run instrumented code
  Addr,         \* instruction addresses
  Lists,        \* address lists that may be loaded
  Params,       \* values written to the param file
  NAddress,     \* N_ADDRESS, the capacity of the tables
  MaxStarts,    \* bound on the number of start commands
  NoAddr        \* the zero an unused bp_addr entry holds

\* A list names each instruction once (the analyser prints each line of a
\* disassembly once) and fits into the tables.
ASSUME ListsAssumption ==
  /\ NAddress \in Nat
  /\ Lists \subseteq Seq(Addr)
  /\ \A l \in Lists :
       /\ Len(l) <= NAddress
       /\ \A i, j \in 1..Len(l) : l[i] = l[j] => i = j
ASSUME ThreadsAssumption == IsFiniteSet(Threads)
ASSUME ParamsAssumption == Params \subseteq Int /\ MaxStarts \in Nat
ASSUME NoAddrAssumption == NoAddr \notin Addr

VARIABLES
  address,      \* address[0 .. u_addresscnt - 1]
  i_param, running,
  bp_addr, bp_state, bp_backup, bp_count, bp_trap_count, bp_stopping,
  text,         \* the first byte of each instruction in kernel text
  ctl,          \* where the controller is
  cmd,          \* the command the controller is serving
  pos,          \* the loop variable i of bp_init and of start
  starts,       \* start commands so far
  pc, ip,       \* per thread: phase, and regs->ip of its last trap
  budget,       \* history: breakpoints planted by the current start
  latePlant     \* history: bp_add has planted after bp_clean refused it

table   == <<bp_addr, bp_state, bp_backup, bp_count>>
control == <<address, i_param, running, ctl, cmd, pos, starts>>
vars    == <<table, control, bp_trap_count, bp_stopping, text, pc, ip,
             budget, latePlant>>

Orig    == "orig"
INT3    == "int3"
Bytes   == {Orig, INT3}
Indices == 0..(NAddress - 1)

\* Phases of a thread: executing, in int3_drddr, in int3_real_work, leaving.
InHandler == {"trapped", "checked", "removed"}
Counted   == {"work", "readd", "adding", "dec"}
InModule  == InHandler \cup Counted \cup {"leaving"}
Phases    == InModule \cup {"run", "resume", "oops"}

\* Phases of the controller: bp_init runs through InitPhases.
InitPhases == {"initCount", "initAddr", "initState", "initFlag"}
CtlPhases  == {"idle", "bpClean", "drain", "wpCleanStop", "wpCleanStart",
               "plant", "revert", "gone"} \cup InitPhases
Commands   == {"none", "start", "stop", "exit"}

-----------------------------------------------------------------------------
(* drddr-bp.c: the table *)

Active      == 0..(bp_count - 1)
Used        == {i \in Active : bp_state[i] = "USING"}

\* Mutation of Listed: only entries in use count.
ListedInUse(a) == \E i \in Used : bp_addr[i] = a
Listed(a)   == \E i \in Active : bp_addr[i] = a
Matching(a) == {i \in Used : bp_addr[i] = a}
Free        == {i \in Active : bp_state[i] # "USING"}

\* Mutation of Plant: the byte is saved after the int3 is written.
PlantThenSave(i) ==
  /\ bp_state'  = [bp_state EXCEPT ![i] = "USING"]
  /\ bp_backup' = [bp_backup EXCEPT ![i] = INT3]
  /\ text'      = [text EXCEPT ![bp_addr[i]] = INT3]
  /\ UNCHANGED <<bp_addr, bp_count>>

\* The body of bp_add once an index is chosen.
Plant(i) ==
  /\ bp_state'  = [bp_state EXCEPT ![i] = "USING"]
  /\ bp_backup' = [bp_backup EXCEPT ![i] = text[bp_addr[i]]]
  /\ text'      = [text EXCEPT ![bp_addr[i]] = INT3]
  /\ UNCHANGED <<bp_addr, bp_count>>

NoPlant == UNCHANGED <<table, text>>

\* What bp_add may choose: any free entry for -1, the given one otherwise.
Choices(choice) == IF choice = -1 THEN Free ELSE Free \cap {choice}

\* bp_add under the lock; it returns false when there is nothing to choose.
Add(choice) ==
  IF Choices(choice) = {} THEN NoPlant ELSE \E i \in Choices(choice) : Plant(i)

\* Mutations of RemoveAt: the entry keeps a state of its own, the byte is not
\* put back.
RemoveAtTriggered(a) ==
  \E i \in Matching(a) :
    /\ text'     = [text EXCEPT ![a] = bp_backup[i]]
    /\ bp_state' = [bp_state EXCEPT ![i] = "TRIGGERED"]
    /\ UNCHANGED <<bp_addr, bp_backup, bp_count>>

RemoveAtKeepsByte(a) ==
  \E i \in Matching(a) :
    /\ bp_state' = [bp_state EXCEPT ![i] = "UNUSED"]
    /\ UNCHANGED <<text, bp_addr, bp_backup, bp_count>>

\* _bp_remove: the first entry in use at a.
RemoveAt(a) ==
  \E i \in Matching(a) :
    /\ \A j \in Matching(a) : i <= j
    /\ text'     = [text EXCEPT ![a] = bp_backup[i]]
    /\ bp_state' = [bp_state EXCEPT ![i] = "UNUSED"]
    /\ UNCHANGED <<bp_addr, bp_backup, bp_count>>

\* Mutation of RemoveAll: the loop stops one entry early.
RemoveAllButLast ==
  LET seen(a) == {i \in Matching(a) : i < bp_count - 1} IN
  /\ text' = [a \in Addr |-> IF seen(a) = {} THEN text[a]
                             ELSE bp_backup[CHOOSE i \in seen(a) : TRUE]]
  /\ bp_state' = [i \in Indices |-> IF i \in Used /\ i < bp_count - 1
                                    THEN "UNUSED" ELSE bp_state[i]]
  /\ UNCHANGED <<bp_addr, bp_backup, bp_count>>

\* The loop of bp_clean; the addresses of a list differ, so Matching(a) has
\* at most one member.
RemoveAll ==
  /\ text' = [a \in Addr |-> IF Matching(a) = {} THEN text[a]
                             ELSE bp_backup[CHOOSE i \in Matching(a) : TRUE]]
  /\ bp_state' = [i \in Indices |-> IF i \in Used THEN "UNUSED" ELSE bp_state[i]]
  /\ UNCHANGED <<bp_addr, bp_backup, bp_count>>
-----------------------------------------------------------------------------
(* drddr-main.c: the int3 handler and its worker *)

\* The kernel calls int3_drddr until exit_drddr reverts the handler.
Hooked == ctl # "gone"

Goto(t, from, to) == pc[t] = from /\ pc' = [pc EXCEPT ![t] = to]

\* A thread executes the int3 at a, new or the one it is about to resume at.
Trap(t, a) ==
  /\ pc[t] = "run" \/ (pc[t] = "resume" /\ ip[t] = a)
  /\ text[a] = INT3
  /\ pc' = [pc EXCEPT ![t] = IF Hooked THEN "trapped" ELSE "oops"]
  /\ ip' = [ip EXCEPT ![t] = a]
  /\ UNCHANGED <<table, control, bp_trap_count, bp_stopping, text, budget, latePlant>>

\* bp_check; an address it does not know goes to the kernel's own handler.
BpCheck(t) ==
  /\ Goto(t, "trapped", IF Listed(ip[t]) THEN "checked" ELSE "oops")
  /\ UNCHANGED <<table, control, bp_trap_count, bp_stopping, text, ip, budget, latePlant>>

\* bp_remove; when another thread was first, the instruction is retried.
BpRemove(t) ==
  /\ IF Matching(ip[t]) = {}
     THEN Goto(t, "checked", "resume") /\ UNCHANGED <<table, text>>
     ELSE Goto(t, "checked", "removed") /\ RemoveAt(ip[t])
  /\ UNCHANGED <<control, bp_trap_count, bp_stopping, ip, budget, latePlant>>

\* Mutation of BpIncTrapped: the count is taken before bp_stopping is tested.
BpIncThenTest(t) ==
  /\ Goto(t, "removed", IF bp_stopping THEN "resume" ELSE "work")
  /\ bp_trap_count' = bp_trap_count + 1
  /\ UNCHANGED <<table, control, bp_stopping, text, ip, budget, latePlant>>

\* Mutation of BpIncTrapped: bp_stopping is not tested.
BpIncAlways(t) ==
  /\ Goto(t, "removed", "work")
  /\ bp_trap_count' = bp_trap_count + 1
  /\ UNCHANGED <<table, control, bp_stopping, text, ip, budget, latePlant>>

\* bp_inc_trapped; on success regs->ip is redirected to int3_actual_work.
BpIncTrapped(t) ==
  /\ IF bp_stopping
     THEN Goto(t, "removed", "resume") /\ UNCHANGED bp_trap_count
     ELSE Goto(t, "removed", "work") /\ bp_trap_count' = bp_trap_count + 1
  /\ UNCHANGED <<table, control, bp_stopping, text, ip, budget, latePlant>>

\* Mutation of FinishWork: an instruction without a memory operand returns
\* before bp_add.
FinishWorkEarly(t) ==
  /\ Goto(t, "work", "dec")
  /\ UNCHANGED <<table, control, bp_trap_count, bp_stopping, text, ip, budget, latePlant>>

\* The watchpoint part of int3_real_work.
FinishWork(t) ==
  /\ Goto(t, "work", "readd")
  /\ UNCHANGED <<table, control, bp_trap_count, bp_stopping, text, ip, budget, latePlant>>

\* bp_add(-1) tests bp_stopping before it takes the lock ...
BpAddTest(t) ==
  /\ Goto(t, "readd", IF bp_stopping THEN "dec" ELSE "adding")
  /\ UNCHANGED <<table, control, bp_trap_count, bp_stopping, text, ip, budget, latePlant>>

\* ... and never again.
BpAddLocked(t) ==
  /\ Goto(t, "adding", "dec")
  /\ Add(-1)
  /\ latePlant' = (latePlant \/ (bp_stopping /\ Free # {}))
  /\ UNCHANGED <<control, bp_trap_count, bp_stopping, ip, budget>>

\* Mutation of BpDecTrapped: a stopping engine is not told.
BpDecUnlessStopping(t) ==
  /\ Goto(t, "dec", "leaving")
  /\ bp_trap_count' = IF bp_stopping THEN bp_trap_count ELSE bp_trap_count - 1
  /\ UNCHANGED <<table, control, bp_stopping, text, ip, budget, latePlant>>

BpDecTrapped(t) ==
  /\ Goto(t, "dec", "leaving")
  /\ bp_trap_count' = bp_trap_count - 1
  /\ UNCHANGED <<table, control, bp_stopping, text, ip, budget, latePlant>>

\* The rest of int3_actual_work, module code still: registers and stack are
\* restored and retq goes back to the instruction.
Leave(t) ==
  /\ Goto(t, "leaving", "resume")
  /\ UNCHANGED <<table, control, bp_trap_count, bp_stopping, text, ip, budget, latePlant>>

\* The thread executes the instruction it was stopped at.
Resume(t) ==
  /\ Goto(t, "resume", "run")
  /\ text[ip[t]] = Orig
  /\ UNCHANGED <<table, control, bp_trap_count, bp_stopping, text, ip, budget, latePlant>>

ThreadStep(t) ==
  \/ BpCheck(t) \/ BpRemove(t) \/ BpIncTrapped(t) \/ FinishWork(t)
  \/ BpAddTest(t) \/ BpAddLocked(t) \/ BpDecTrapped(t) \/ Leave(t)
-----------------------------------------------------------------------------
(* drddr-main.c: the controller *)

engine == <<bp_trap_count, bp_stopping, text, pc, ip>>

\* The shell fills the address and addresscnt files one after the other,
\* the module reads them only in start.
Load(l) ==
  /\ ctl = "idle" /\ address' = l
  /\ UNCHANGED <<table, i_param, running, ctl, cmd, pos, starts, engine,
                 budget, latePlant>>

SetParam(p) ==
  /\ ctl = "idle" /\ i_param' = p
  /\ UNCHANGED <<table, address, running, ctl, cmd, pos, starts, engine,
                 budget, latePlant>>

\* Whatever the command, stop() runs first when the detector is running.
Command(c, next) ==
  /\ ctl = "idle"
  /\ cmd' = c
  /\ ctl' = IF running THEN "bpClean" ELSE next
  /\ UNCHANGED <<table, address, i_param, running, pos, engine, budget, latePlant>>

StartCmd == starts < MaxStarts /\ starts' = starts + 1 /\ Command("start", "wpCleanStart")
StopCmd  == running /\ Command("stop", "idle") /\ UNCHANGED starts
ExitCmd  == Command("exit", "revert") /\ UNCHANGED starts

\* bp_clean under the lock.
BpClean ==
  /\ ctl = "bpClean" /\ ctl' = "drain"
  /\ RemoveAll
  /\ bp_stopping' = TRUE
  /\ UNCHANGED <<address, i_param, running, cmd, pos, starts, bp_trap_count,
                 pc, ip, budget, latePlant>>

\* bp_clean polls bp_trap_count.
Drain ==
  /\ ctl = "drain" /\ ctl' = "wpCleanStop"
  /\ bp_trap_count = 0
  /\ UNCHANGED <<table, address, i_param, running, cmd, pos, starts, engine,
                 budget, latePlant>>

AfterStop == CASE cmd = "start" -> "wpCleanStart"
               [] cmd = "exit"  -> "revert"
               [] OTHER         -> "idle"

\* wp_clean returns, in stop or at the head of start.
WpCleanDone ==
  /\ \/ ctl = "wpCleanStop" /\ running' = FALSE /\ ctl' = AfterStop
     \/ ctl = "wpCleanStart" /\ running' = running /\ ctl' = "initCount"
  /\ UNCHANGED <<table, address, i_param, cmd, pos, starts, engine, budget, latePlant>>

\* bp_init, outside the lock.
InitCount ==
  /\ ctl = "initCount" /\ ctl' = "initAddr"
  /\ bp_count' = Len(address)
  /\ pos' = 0
  /\ budget' = 0
  /\ UNCHANGED <<bp_addr, bp_state, bp_backup, address, i_param, running, cmd,
                 starts, engine, latePlant>>

InitAddr ==
  /\ ctl = "initAddr" /\ pos < bp_count /\ ctl' = "initState"
  /\ bp_addr' = [bp_addr EXCEPT ![pos] = address[pos + 1]]
  /\ UNCHANGED <<bp_state, bp_backup, bp_count, address, i_param, running, cmd,
                 pos, starts, engine, budget, latePlant>>

InitState ==
  /\ ctl = "initState" /\ ctl' = "initAddr"
  /\ bp_state' = [bp_state EXCEPT ![pos] = "UNUSED"]
  /\ pos' = pos + 1
  /\ UNCHANGED <<bp_addr, bp_backup, bp_count, address, i_param, running, cmd,
                 starts, engine, budget, latePlant>>

InitTrap ==
  /\ ctl = "initAddr" /\ pos = bp_count /\ ctl' = "initFlag"
  /\ bp_trap_count' = 0
  /\ UNCHANGED <<table, address, i_param, running, cmd, pos, starts,
                 bp_stopping, text, pc, ip, budget, latePlant>>

InitFlag ==
  /\ ctl = "initFlag" /\ ctl' = "plant"
  /\ bp_stopping' = FALSE
  /\ pos' = 0
  /\ UNCHANGED <<table, address, i_param, running, cmd, starts, bp_trap_count,
                 text, pc, ip, budget, latePlant>>

\* The three loops of start: the first address, every -i_param-th address,
\* or i_param random addresses.
Strided == i_param <= -2 /\ i_param >= -65536
MoreToPlant ==
  CASE i_param = -1 -> pos = 0 /\ Len(address) > 0
    [] Strided      -> pos < Len(address)
    [] OTHER        -> pos < i_param
PlantChoice == IF i_param = -1 \/ Strided THEN pos ELSE -1
PlantStride == IF Strided THEN -i_param ELSE 1

\* One bp_add of start; bp_stopping is false here, only the controller sets it.
PlantNext ==
  /\ ctl = "plant" /\ MoreToPlant
  /\ Add(PlantChoice)
  /\ budget' = IF Choices(PlantChoice) = {} THEN budget ELSE budget + 1
  /\ pos' = pos + PlantStride
  /\ UNCHANGED <<address, i_param, running, ctl, cmd, starts, bp_trap_count,
                 bp_stopping, pc, ip, latePlant>>

StartDone ==
  /\ ctl = "plant" /\ ~MoreToPlant /\ ctl' = "idle"
  /\ i_param' = -1
  /\ running' = TRUE
  /\ UNCHANGED <<table, address, cmd, pos, starts, engine, budget, latePlant>>

\* exit_drddr puts the kernel's handlers back.  A thread that is still in the
\* module goes on there: whether the kernel frees its code first is not ours.
Revert ==
  /\ ctl = "revert" /\ ctl' = "gone"
  /\ UNCHANGED <<table, address, i_param, running, cmd, pos, starts, engine,
                 budget, latePlant>>

CtlStep ==
  \/ BpClean \/ Drain \/ WpCleanDone \/ InitCount \/ InitAddr \/ InitState
  \/ InitTrap \/ InitFlag \/ PlantNext \/ StartDone \/ Revert
-----------------------------------------------------------------------------
Init ==
  /\ address \in Lists
  /\ i_param = -1 /\ running = FALSE
  /\ bp_addr = [i \in Indices |-> NoAddr]
  /\ bp_state = [i \in Indices |-> "UNUSED"]
  /\ bp_backup = [i \in Indices |-> Orig]
  /\ bp_count = 0 /\ bp_trap_count = 0 /\ bp_stopping = FALSE
  /\ text = [a \in Addr |-> Orig]
  /\ ctl = "idle" /\ cmd = "none" /\ pos = 0 /\ starts = 0
  /\ pc = [t \in Threads |-> "run"]
  /\ ip = [t \in Threads |-> NoAddr]
  /\ budget = 0 /\ latePlant = FALSE

\* The module is unloaded and nobody is left in it, or nobody asks for more.
Quiet ==
  /\ ctl \in {"idle", "gone"}
  /\ \A t \in Threads : pc[t] \in {"run", "oops"}
  /\ UNCHANGED vars

Next ==
  \/ \E t \in Threads : ThreadStep(t) \/ Resume(t) \/ \E a \in Addr : Trap(t, a)
  \/ \E l \in Lists : Load(l)
  \/ \E p \in Params : SetParam(p)
  \/ StartCmd \/ StopCmd \/ ExitCmd \/ CtlStep
  \/ Quiet

Spec == Init /\ [][Next]_vars

\* The scheduler runs every thread and the controller again and again, a watch
\* ends (FinishWork; module Drddr shows when it does not), and a thread stopped
\* at an int3 executes it.  bp_add(-1) draws until it finds a free entry: one
\* other than that just removed, if there is any, is drawn infinitely often.
AddElsewhere(t) == BpAddLocked(t) /\ text'[ip[t]] = Orig

FairSpec ==
  /\ Spec
  /\ WF_vars(CtlStep)
  /\ \A t \in Threads :
       /\ WF_vars(ThreadStep(t))
       /\ WF_vars(pc[t] = "resume" /\ Trap(t, ip[t]))
       /\ SF_vars(Resume(t))
       /\ SF_vars(AddElsewhere(t))
-----------------------------------------------------------------------------
(* Properties *)

\* The shapes of the variables.  The state TRIGGERED of bp_state_t is never
\* assigned.
TypeOK ==
  /\ address \in Lists
  /\ i_param \in Int
  /\ running \in BOOLEAN
  /\ bp_addr \in [Indices -> Addr \cup {NoAddr}]
  /\ bp_state \in [Indices -> {"UNUSED", "USING"}]
  /\ bp_backup \in [Indices -> Bytes]
  /\ bp_count \in 0..NAddress
  /\ bp_trap_count \in Int
  /\ bp_stopping \in BOOLEAN
  /\ text \in [Addr -> Bytes]
  /\ ctl \in CtlPhases /\ cmd \in Commands
  /\ pos \in Nat /\ starts \in Nat
  /\ pc \in [Threads -> Phases]
  /\ ip \in [Threads -> Addr \cup {NoAddr}]
  /\ budget \in Nat /\ latePlant \in BOOLEAN

\* What bp_clean waits on is the number of threads between bp_inc_trapped and
\* bp_dec_trapped, across refused entries, stops and the reset of bp_init.
TrapCountExact == bp_trap_count = Cardinality({t \in Threads : pc[t] \in Counted})

\* From the end of bp_clean's wait to the next start, and in a module that was
\* never started, the engine is stopped.
Stopped ==
  \/ ctl \in InitPhases \cup {"wpCleanStop", "wpCleanStart", "revert", "gone"}
  \/ ctl = "idle" /\ ~running

\* wp_clean, bp_init and the unloading of the module rely on it: once stop has
\* waited, no thread is in int3_real_work, and none enters it before start.
StopWaits == Stopped => \A t \in Threads : pc[t] \notin Counted

\* The kernel text and the table agree, also when one instruction is removed
\* by one thread and planted by another while a third is trapped at it: an int3
\* is in the text exactly where an entry is in use, and that entry holds the
\* original byte.  (Until bp_add plants after bp_clean, see StopDisarms.)
PlantedIsTracked ==
  ~latePlant =>
    /\ \A a \in Addr : text[a] = INT3 <=> Matching(a) # {}
    /\ \A i \in Used : bp_backup[i] = Orig

\* As long as bp_add has not planted after bp_clean, a stopped engine has left
\* the kernel text as it found it.
TextRestored == Stopped /\ ~latePlant => \A a \in Addr : text[a] = Orig

\* drddr-main.c:505, "Stop the module from running": after stop no breakpoint is
\* left in the kernel text.
StopDisarms == Stopped => \A a \in Addr : text[a] = Orig

\* Sampling does not run dry: while the detector runs, every breakpoint that
\* start planted is in the text or in the hands of a thread that will plant
\* another, up to the size of the table.
InFlight == {t \in Threads : pc[t] \in {"removed", "work", "readd", "adding"}}
Sampling == ctl \in {"plant", "idle"} /\ ~bp_stopping
SamplesKept ==
  Sampling => LET kept == Cardinality(Used) + Cardinality(InFlight)
              IN kept >= budget \/ kept >= bp_count

\* drddr-bp.c:82, "Return true if the address is a potential breakpoint address",
\* and drddr-bp.c:72, where bp_init overwrites the table under threads that have
\* trapped: an int3 of this module goes to the kernel's
\* handler only if bp_init has overwritten the table since the thread trapped, or
\* if it was planted after bp_clean.  That another thread has removed the
\* breakpoint, or stop all of them, does not make it a foreign one.
TrapsDisownedByInitOnly ==
  [][\A t \in Threads : pc'[t] = "trapped" /\ ~Listed(ip[t])' =>
       \/ latePlant'
       \/ pc[t] = "trapped" /\ (~Listed(ip[t]) \/ ctl \in {"initCount", "initAddr"})]_vars

\* The table, its lock and the order of the stores make up a Sampler.
On == ctl = "plant" \/ (running /\ ctl \in {"idle", "bpClean"})
S == INSTANCE Sampler WITH
       phase   <- IF On THEN "on" ELSE IF ctl = "drain" THEN "stopping" ELSE "off",
       list    <- IF On \/ ctl = "drain" THEN {bp_addr[i] : i \in Active} ELSE {},
       planted <- {a \in Addr : text[a] = INT3},
       busy    <- bp_trap_count,
       broken  <- latePlant
ImplementsSampler == S!Spec

\* A thread that is trapped does execute its instruction in the end, although
\* its own bp_add may plant there again.  (Other threads may plant there too; if
\* they do so for ever it is a matter of probability, which TLA+ cannot state.)
OthersLeave(t) == <>[](\A u \in Threads \ {t} : pc[u] = "run")
ThreadProgress ==
  \A t \in Threads :
    OthersLeave(t) => (pc[t] = "trapped" ~> pc[t] = "run" \/ latePlant)
=============================================================================
