----------------------------- MODULE Watchpoints -----------------------------
(***************************************************************************)
(* The debug registers of DRDDR: drddr-wp.c, its callers in int3_real_work *)
(* and the debug handler of drddr-main.c.                                  *)
(*                                                                         *)
(* A CPU has two contexts: its thread (wpc), which adds, holds and removes *)
(* a watch with interrupts as they were at its instruction, and the debug  *)
(* handler (dbg), which runs on top of the thread with interrupts off and  *)
(* removes the watch that fired.  The controller clears all watches from a *)
(* CPU of its own.                                                         *)
(*                                                                         *)
(* wp_lock_drddr is held over on_each_cpu: every region under the lock is  *)
(* two actions, one that updates the table and sends the interrupts, one   *)
(* that has all answers, loads the CPU's own registers and unlocks.        *)
(***************************************************************************)
EXTENDS Integers, FiniteSets

CONSTANTS
  Workers,    \* CPUs that run instrumented code
  Ctl,        \* the CPU of the controller
  NSlots,     \* the number of debug registers, 4
  Data,       \* addresses of watched data
  Zero,       \* address 0, which the decoder returns for string instructions
  Accesses,   \* the accesses that occur: an address, whether it is a write, and
              \* whether the instruction runs with interrupts off
  OtherCauses,\* whether debug exceptions with another cause occur: single steps
  NumHalf,    \* watchpoint_id.num is an int of 30 bits: 2^29
  MaxCount,   \* bound on wp_total_count
  NoNum       \* the value of an id that is not set

ASSUME CpusAssumption == Ctl \notin Workers
ASSUME SlotsAssumption == NSlots \in Nat \ {0}
ASSUME NumAssumption == NumHalf \in Nat \ {0} /\ MaxCount \in Nat /\ NoNum \notin Int
ASSUME DataAssumption ==
  Zero \notin Data /\ Accesses \subseteq (Data \cup {Zero}) \X BOOLEAN \X BOOLEAN
  /\ OtherCauses \in BOOLEAN

VARIABLES
  wp_usage, wp_addr, wp_iswrite, wp_num, wp_total_count,
  wp_lock,    \* wp_lock_drddr is held
  pending,    \* CPUs that have not loaded what the last set_dr sent
  dr, dr7,    \* per CPU and slot: address register, enable and mode bits
  dr6,        \* per CPU: the slots whose status bit is set
  wpc, dbg,   \* per CPU: phase of the thread, of the debug handler
  request,    \* per CPU: the access its thread was trapped at
  id,         \* per CPU: the struct watchpoint_id of its watch
  slot,       \* per CPU: the slot that wp_query returned
  mynum,      \* history, per CPU: the number wp_add gave the watch
  armed,      \* history, per CPU and slot: number of the watch loaded in dr
  cause,      \* history, per CPU: slots and numbers that raised the exception
  misread     \* history: an id was returned with another watch's number

Cpus  == Workers \cup {Ctl}
Slots == 0..(NSlots - 1)

entries   == <<wp_usage, wp_addr, wp_iswrite, wp_num, wp_total_count>>
registers == <<dr, dr7, armed>>
watch     == <<request, id, mynum, misread>>
handler   == <<dbg, dr6, slot, cause>>
vars      == <<entries, wp_lock, pending, registers, wpc, watch, handler>>

WorkerPhases == {"idle", "check", "add", "addIpi", "num", "watch", "removeIpi"}
CtlPhases    == {"idle", "clean", "cleanIpi"}
DbgPhases    == {"off", "query", "remove", "removeIpi"}
-----------------------------------------------------------------------------
(* set_dr *)

AllUsed == \A s \in Slots : wp_usage[s]

\* Mutation of Mode: 2, which traps I/O.
ModeIo(s) == IF wp_iswrite[s] THEN "access" ELSE "io"

\* A read watch (mode 1) traps writes, a write watch (mode 3) every access.
Mode(s) == IF wp_iswrite[s] THEN "access" ELSE "write"

Ctrl    == [s \in Slots |-> IF wp_usage[s] THEN Mode(s) ELSE "off"]

\* wp_set_to_register on CPU c: an address register is written only when its
\* slot is used and the address is not zero, dr7 always.
LoadRegisters(c) ==
  /\ dr' = [dr EXCEPT ![c] = [s \in Slots |->
              IF wp_usage[s] /\ wp_addr[s] # Zero THEN wp_addr[s] ELSE dr[c][s]]]
  /\ dr7' = [dr7 EXCEPT ![c] = Ctrl]
  /\ armed' = [armed EXCEPT ![c] = [s \in Slots |->
                 IF wp_usage[s] THEN wp_num[s] ELSE NoNum]]

\* Taking the lock and sending the interrupts, under which the caller changes
\* the table.
LockAndSend == ~wp_lock /\ wp_lock' = TRUE /\ pending' = Cpus

\* Mutation of LoadAndUnlock: on_each_cpu is called without waiting.
LoadAndUnlockEarly(c) ==
  /\ c \in pending /\ pending' = pending \ {c}
  /\ LoadRegisters(c)
  /\ wp_lock' = FALSE

\* Every other CPU has answered: on_each_cpu ends on CPU c itself, then the
\* lock is released.
LoadAndUnlock(c) ==
  /\ pending = {c} /\ pending' = {}
  /\ LoadRegisters(c)
  /\ wp_lock' = FALSE

\* The thread of c is in int3_real_work with interrupts off: int3_drddr returns to
\* it with the flags of the instruction it was trapped at.
Masked(c) == wpc[c] # "idle" /\ request[c][3]

\* CPU c takes the interrupt; the debug handler runs with interrupts off.
Ack(c) ==
  /\ c \in pending
  /\ dbg[c] = "off" /\ ~Masked(c)
  /\ wpc[c] \notin {"addIpi", "removeIpi", "cleanIpi"}
  /\ pending' = pending \ {c}
  /\ LoadRegisters(c)
  /\ UNCHANGED <<entries, wp_lock, wpc, watch, handler>>
-----------------------------------------------------------------------------
(* wp_add and wp_remove, called by int3_real_work *)

\* The thread of c proceeds from one phase to the next unless the debug handler
\* has interrupted it.
Goto(c, from, to) == dbg[c] = "off" /\ wpc[c] = from /\ wpc' = [wpc EXCEPT ![c] = to]

\* int3_real_work calls wp_add for the operand it has decoded.  The engine lets
\* no thread in while wp_clean runs.  MaxCount bounds the watches begun.
Entering == {c \in Workers : wpc[c] \in {"check", "add"}}

Begin(c, access) ==
  /\ wp_total_count + Cardinality(Entering) < MaxCount
  /\ wpc[Ctl] = "idle"
  /\ Goto(c, "idle", "check")
  /\ request' = [request EXCEPT ![c] = access]
  /\ UNCHANGED <<entries, wp_lock, pending, registers, id, mynum, misread, handler>>

\* The test of wp_add outside the lock; the four flags are read at one instant.
AddCheck(c) ==
  /\ Goto(c, "check", IF AllUsed THEN "idle" ELSE "add")
  /\ UNCHANGED <<entries, wp_lock, pending, registers, watch, handler>>

\* The table entry of a new watch.
Enter(s, c) ==
  /\ wp_usage'   = [wp_usage EXCEPT ![s] = TRUE]
  /\ wp_addr'    = [wp_addr EXCEPT ![s] = request[c][1]]
  /\ wp_iswrite' = [wp_iswrite EXCEPT ![s] = request[c][2]]
  /\ wp_total_count' = wp_total_count + 1
  /\ wp_num'     = [wp_num EXCEPT ![s] = wp_total_count']
  /\ mynum'      = [mynum EXCEPT ![c] = wp_total_count']
  /\ id'         = [id EXCEPT ![c] = [dr |-> s, num |-> NoNum]]

AddFull(c) ==
  /\ ~wp_lock /\ AllUsed
  /\ Goto(c, "add", "idle")
  /\ UNCHANGED <<entries, wp_lock, pending, registers, watch, handler>>

AddLocked(c) ==
  /\ LockAndSend
  /\ \E s \in Slots :
       /\ ~wp_usage[s] /\ \A i \in 0..(s - 1) : wp_usage[i]
       /\ Enter(s, c)
  /\ Goto(c, "add", "addIpi")
  /\ UNCHANGED <<registers, request, misread, handler>>

AddDone(c) ==
  /\ Goto(c, "addIpi", "num")
  /\ LoadAndUnlock(c)
  /\ UNCHANGED <<entries, watch, handler>>

\* An int stored in the 30 bits of id.num and read back.
Trunc(n) == ((n + NumHalf) % (2 * NumHalf)) - NumHalf

\* After the unlock id.num is read from wp_total_count; a negative number makes
\* the id invalid.
ReadNum(c) ==
  /\ LET n == Trunc(wp_total_count) IN
     /\ Goto(c, "num", IF n >= 0 THEN "watch" ELSE "idle")
     /\ id' = [id EXCEPT ![c].num = n]
     /\ misread' = (misread \/ n # mynum[c])
  /\ UNCHANGED <<entries, wp_lock, pending, registers, request, mynum, handler>>

\* Mutations of Matches: the number is not compared, or compared with the count.
MatchesAny(i) == wp_usage[i.dr]
MatchesCount(i) == i.num = 0 \/ i.num = wp_total_count
\* The test of wp_remove.
Matches(i) == i.num = 0 \/ i.num = wp_num[i.dr]

\* The time is over: wp_remove.
RemoveLocked(c) ==
  /\ LockAndSend
  /\ Matches(id[c])
  /\ wp_usage' = [wp_usage EXCEPT ![id[c].dr] = FALSE]
  /\ Goto(c, "watch", "removeIpi")
  /\ UNCHANGED <<wp_addr, wp_iswrite, wp_num, wp_total_count, registers, watch, handler>>

\* Mutation of RemoveGone: the lock is released only if the slot was freed.
RemoveGoneLocked(c) ==
  /\ ~wp_lock /\ ~Matches(id[c])
  /\ wp_lock' = TRUE
  /\ Goto(c, "watch", "idle")
  /\ UNCHANGED <<entries, pending, registers, watch, handler>>

RemoveGone(c) ==
  /\ ~wp_lock /\ ~Matches(id[c])
  /\ Goto(c, "watch", "idle")
  /\ UNCHANGED <<entries, wp_lock, pending, registers, watch, handler>>

RemoveDone(c) ==
  /\ Goto(c, "removeIpi", "idle")
  /\ LoadAndUnlock(c)
  /\ UNCHANGED <<entries, watch, handler>>

ThreadStep(c) ==
  \/ AddCheck(c) \/ AddFull(c) \/ AddLocked(c) \/ AddDone(c) \/ ReadNum(c)
  \/ RemoveLocked(c) \/ RemoveGone(c) \/ RemoveDone(c)
-----------------------------------------------------------------------------
(* The debug exception and its handler *)

\* The thread of c, or an interrupt handler on top of it, accesses memory.  The
\* processor reports the slots that match, none if the exception has another cause, and
\* may or may not clear older bits of dr6, which the handler never clears.
Hit(c, access) ==
  LET hit == {s \in Slots : dr[c][s] = access[1]
                /\ (dr7[c][s] = "access" \/ (dr7[c][s] = "write" /\ access[2]))}
  IN /\ dbg[c] = "off" /\ (hit # {} \/ OtherCauses)
     /\ dbg' = [dbg EXCEPT ![c] = "query"]
     /\ \E old \in {{}, dr6[c]} : dr6' = [dr6 EXCEPT ![c] = old \cup hit]
     /\ cause' = [cause EXCEPT ![c] = {<<s, armed[c][s]>> : s \in hit}]
     /\ UNCHANGED <<entries, wp_lock, pending, registers, wpc, watch, slot>>

\* Mutation of Lowest: bits are counted from 1, as ffs does.
LowestFromOne(bits) == 1 + CHOOSE s \in bits : \A i \in bits : s <= i
Lowest(bits) == CHOOSE s \in bits : \A i \in bits : s <= i

\* wp_query takes the lowest bit; wp_report prints the entry of that slot
\* without the lock.
Query(c) ==
  /\ dbg[c] = "query" /\ dr6[c] # {}
  /\ dbg' = [dbg EXCEPT ![c] = "remove"]
  /\ slot' = [slot EXCEPT ![c] = Lowest(dr6[c])]
  /\ cause' = [cause EXCEPT ![c] = {}]
  /\ UNCHANGED <<entries, wp_lock, pending, registers, wpc, watch, dr6>>

\* No bit is set: the exception is not caused by a debug register.
QueryNone(c) ==
  /\ dbg[c] = "query" /\ dr6[c] = {}
  /\ dbg' = [dbg EXCEPT ![c] = "off"]
  /\ UNCHANGED <<entries, wp_lock, pending, registers, wpc, watch, dr6, slot, cause>>

\* wp_remove of an id with number 0: whatever is in the slot now.
DbgRemoveLocked(c) ==
  /\ dbg[c] = "remove"
  /\ dbg' = [dbg EXCEPT ![c] = "removeIpi"]
  /\ LockAndSend
  /\ wp_usage' = [wp_usage EXCEPT ![slot[c]] = FALSE]
  /\ UNCHANGED <<wp_addr, wp_iswrite, wp_num, wp_total_count, registers, wpc,
                 watch, dr6, slot, cause>>

DbgRemoveDone(c) ==
  /\ dbg[c] = "removeIpi"
  /\ dbg' = [dbg EXCEPT ![c] = "off"]
  /\ LoadAndUnlock(c)
  /\ slot' = [slot EXCEPT ![c] = 0]
  /\ UNCHANGED <<entries, wpc, watch, dr6, cause>>

DbgStep(c) == Query(c) \/ QueryNone(c) \/ DbgRemoveLocked(c) \/ DbgRemoveDone(c)
-----------------------------------------------------------------------------
(* wp_clean, called by start and stop *)

\* The callers have waited for every thread to leave int3_real_work: see
\* StopWaits of module Breakpoints; module Drddr checks that they have.
CleanBegin ==
  /\ \A c \in Workers : wpc[c] = "idle"
  /\ Goto(Ctl, "idle", "clean")
  /\ UNCHANGED <<entries, wp_lock, pending, registers, watch, handler>>

\* Mutation of CleanLocked: the loop over the table starts at slot 1.
CleanLockedFromOne ==
  /\ Goto(Ctl, "clean", "cleanIpi")
  /\ LockAndSend
  /\ wp_usage' = [s \in Slots |-> s = 0 /\ wp_usage[s]]
  /\ UNCHANGED <<wp_addr, wp_iswrite, wp_num, wp_total_count, registers, watch, handler>>

CleanLocked ==
  /\ Goto(Ctl, "clean", "cleanIpi")
  /\ LockAndSend
  /\ wp_usage' = [s \in Slots |-> FALSE]
  /\ UNCHANGED <<wp_addr, wp_iswrite, wp_num, wp_total_count, registers, watch, handler>>

CleanDone ==
  /\ Goto(Ctl, "cleanIpi", "idle")
  /\ LoadAndUnlock(Ctl)
  /\ UNCHANGED <<entries, watch, handler>>

CtlStep == CleanLocked \/ CleanDone
-----------------------------------------------------------------------------
\* wp_init: nothing is used, and every CPU has loaded that.
Init ==
  /\ wp_usage = [s \in Slots |-> FALSE]
  /\ wp_addr = [s \in Slots |-> Zero]
  /\ wp_iswrite = [s \in Slots |-> FALSE]
  /\ wp_num = [s \in Slots |-> 0] /\ wp_total_count = 0
  /\ wp_lock = FALSE /\ pending = {}
  /\ dr = [c \in Cpus |-> [s \in Slots |-> Zero]]
  /\ dr7 = [c \in Cpus |-> [s \in Slots |-> "off"]]
  /\ armed = [c \in Cpus |-> [s \in Slots |-> NoNum]]
  /\ dr6 = [c \in Cpus |-> {}]
  /\ wpc = [c \in Cpus |-> "idle"] /\ dbg = [c \in Cpus |-> "off"]
  /\ request = [c \in Cpus |-> <<Zero, FALSE, FALSE>>]
  /\ id = [c \in Cpus |-> [dr |-> 0, num |-> NoNum]]
  /\ slot = [c \in Cpus |-> 0]
  /\ mynum = [c \in Cpus |-> 0]
  /\ cause = [c \in Cpus |-> {}]
  /\ misread = FALSE

Next ==
  \/ \E c \in Workers : ThreadStep(c) \/ \E x \in Accesses : Begin(c, x)
  \/ \E c \in Cpus : DbgStep(c) \/ Ack(c) \/ \E x \in Accesses : Hit(c, x)
  \/ CleanBegin \/ CtlStep

Spec == Init /\ [][Next]_vars

\* The spinlock is a ticket lock, and a debug exception comes after an instruction, so
\* that a thread advances between two of them: whoever can go on again and again does.
\* A pending interrupt is taken when the CPU can.  Nothing is assumed of the debug
\* handlers, see EngineReturns.
FairSpec ==
  /\ Spec
  /\ \A c \in Workers : SF_vars(ThreadStep(c))
  /\ SF_vars(CtlStep)
  /\ SF_vars(\E c \in Cpus : Ack(c))
-----------------------------------------------------------------------------
(* Properties *)

Nums == Int \cup {NoNum}

\* The shapes of the variables.
TypeOK ==
  /\ wp_usage \in [Slots -> BOOLEAN] /\ wp_iswrite \in [Slots -> BOOLEAN]
  /\ wp_addr \in [Slots -> Data \cup {Zero}]
  /\ wp_num \in [Slots -> Nat] /\ wp_total_count \in Nat
  /\ wp_lock \in BOOLEAN /\ pending \in SUBSET Cpus
  /\ dr \in [Cpus -> [Slots -> Data \cup {Zero}]]
  /\ dr7 \in [Cpus -> [Slots -> {"off", "write", "access"}]]
  /\ armed \in [Cpus -> [Slots -> Nums]]
  /\ dr6 \in [Cpus -> SUBSET Slots]
  /\ wpc \in [Cpus -> WorkerPhases \cup CtlPhases] /\ dbg \in [Cpus -> DbgPhases]
  /\ request \in [Cpus -> (Data \cup {Zero}) \X BOOLEAN \X BOOLEAN]
  /\ id \in [Cpus -> [dr : Slots, num : Nums]]
  /\ slot \in [Cpus -> Slots]
  /\ mynum \in [Cpus -> Nat]
  /\ cause \in [Cpus -> SUBSET (Slots \X Nums)]
  /\ misread \in BOOLEAN

\* set_dr keeps every CPU in step with the table: a CPU that has answered the
\* last interrupt, and every CPU while the lock is free, has exactly the used
\* slots armed, in their mode, at their address (unless that is 0, which
\* wp_set_to_register does not load).
Follows(c) ==
  \A s \in Slots :
    /\ (dr7[c][s] # "off") <=> wp_usage[s]
    /\ wp_usage[s] =>
         /\ dr7[c][s] = "access" <=> wp_iswrite[s]
         /\ wp_addr[s] # Zero => dr[c][s] = wp_addr[s]
         /\ armed[c][s] = wp_num[s]
RegistersFollowTable == \A c \in Cpus : ~wp_lock \/ c \notin pending => Follows(c)

\* A slot in use belongs to a thread that will remove it: no debug register is
\* left armed for good, whatever the debug handler and wp_clean freed in
\* between (until an id was read wrongly, see NoLeakEver).
Owned(s) ==
  \E c \in Workers :
    id[c].dr = s /\ mynum[c] = wp_num[s] /\ wpc[c] \in {"addIpi", "num", "watch"}
NoLeak == ~misread => \A s \in Slots : wp_usage[s] => Owned(s)

\* drddr-main.c:165, "Wait for 0.01~0.15 sec." and then remove the watch: a
\* slot in use belongs to a thread that will remove it.
NoLeakEver == \A s \in Slots : wp_usage[s] => Owned(s)

\* The number in an id guards against reuse of its slot: at the end of its time
\* a thread frees its own watch or none, also when the debug handler has freed
\* it before and another thread has taken the slot (until an id was misread).
RemovesOwnWatch ==
  [][\A c \in Workers, s \in Slots :
       wpc[c] = "watch" /\ wpc'[c] = "removeIpi" /\ wp_usage[s] /\ ~wp_usage'[s]
         => misread \/ (s = id[c].dr /\ wp_num[s] = mynum[c])]_vars

\* drddr-wp.c:216, "Information of the watchpoint": wp_report prints a watch that
\* raised the exception, or one that has taken its slot in the meantime.  Only a
\* bit that an earlier exception left in dr6, which nothing clears, leads it to
\* another slot.
Stale(c) == \E s \in dr6[c] : \A x \in cause[c] : x[1] # s
ReportsTheCause ==
  [][\A c \in Cpus : dbg[c] = "query" /\ dbg'[c] = "remove" =>
       \/ Stale(c)
       \/ \E x \in cause[c] : x[1] = slot'[c] /\ wp_num[slot'[c]] >= x[2]]_vars

\* drddr-wp.c:134, 170 and 191 spin for a lock that is held until all CPUs have
\* answered.  If every debug handler comes to its end and no thread stays in
\* int3_real_work with interrupts off, then every wp_add, watch and wp_remove ends and
\* wp_clean returns, however threads, handlers and wp_clean meet at the lock.
HandlersReturn == \A c \in Cpus : []<>(dbg[c] = "off")
MaskedReturn   == \A c \in Workers : []<>~Masked(c)
EngineReturns  ==
  HandlersReturn /\ MaskedReturn =>
    \A c \in Cpus : wpc[c] # "idle" ~> wpc[c] = "idle"
=============================================================================
