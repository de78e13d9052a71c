------------------------------- MODULE Console -------------------------------
(***************************************************************************)
(* The files in debugfs and who uses them: shells (drddr-shell.c) that     *)
(* load a list, set the parameter, start, stop and ask for the status, and *)
(* rmmod.  Every write and read is served in the context of the process    *)
(* that makes it, and nothing keeps two of them apart: mybuf, address,     *)
(* i_param and running are shared, start and stop run side by side.        *)
(*                                                                         *)
(* Stores to what is shared are actions of their own, but for the word     *)
(* that copy_from_user puts into mybuf.  The breakpoint engine is reduced  *)
(* to the entries in use and the numbers of threads at each place of its   *)
(* way; a watch is not looked into (see Breakpoints and Watchpoints).      *)
(***************************************************************************)
EXTENDS Integers, FiniteSets, Sequences

CONSTANTS
  Shells,       \* processes that run the shell
  Addr,         \* instruction addresses
  Lists,        \* the contents of list files
  Params,       \* values given to the param command
  NAddress,     \* N_ADDRESS
  NoAddr,       \* the zero an unused entry holds
  NThreads,     \* the number of threads that may be in the engine at once
  MonBufSize,   \* MON_BUF_SIZE
  InUse,        \* the numbers of debug registers that status finds in use
  MaxCommands   \* bound on the commands given to all shells together

\* The shell reads one address per line into an array of N_ADDRESS entries.
ASSUME ListsAssumption ==
  /\ "rmmod" \notin Shells
  /\ NAddress \in Nat /\ MaxCommands \in Nat /\ MonBufSize \in Nat /\ NThreads \in Nat
  /\ NoAddr \notin Addr /\ InUse \subseteq 0..4
  /\ Params \subseteq Int
  /\ \A l \in Lists : l \in Seq(Addr) /\ Len(l) <= NAddress

VARIABLES
  address, u_addresscnt, i_param, running, mybuf,
  bp_addr, used, bp_count, bp_trap_count, bp_stopping,
  removed,      \* threads that have taken a breakpoint out, in int3_drddr
  held,         \* threads in int3_real_work
  adding,       \* those of them whose bp_add has passed its test of bp_stopping
  leaving,      \* those whose bp_add has returned
  loaded,       \* FALSE once the module is removed
  pc, doing,    \* per shell: where it is, and the command it gave
  list,         \* per shell: the list file it is loading
  pos,          \* per shell: the file position, the i of start and bp_init, the cur
                \* of mon_update
  len,          \* per shell: the argument addr_length of bp_init; the bp_count that
                \* mon_update saw (history)
  commands,     \* commands given so far
  met,          \* history, per shell: what others did while it served its command
  oneList,      \* history: address and addresscnt were written by one load, alone
  startMet,     \* history: start has run at once with another start or a stop
  latePlant     \* history: bp_add has planted after bp_clean refused it

files   == <<address, u_addresscnt, i_param, mybuf>>
threads == <<removed, held, adding, leaving>>
table   == <<bp_addr, used, bp_count, latePlant>>
engine  == <<table, bp_trap_count, bp_stopping, threads>>
shell   == <<pc, doing, list, pos, len, commands, met, oneList, startMet>>
vars    == <<files, running, engine, loaded, shell>>

\* rmmod is one more process that calls stop.
Rmmod     == "rmmod"
Processes == Shells \cup {Rmmod}
Indices   == 0..(NAddress - 1)
Active    == 0..(bp_count - 1)

Goto(s, from, to) == pc[s] = from /\ pc' = [pc EXCEPT ![s] = to]
Inside(s) == pc[s] \notin {"idle", "crashed"}

\* A process begins to serve a command.  It and the others note whether they load
\* at once, and whether one may write to mybuf before another has read it: a word,
\* or the zero that one of them is about to store (Cutting).
Reading(p) == pc[p] \in {"terminate", "sanitize", "zero", "isStart", "isStop"}
Cutting(p) == pc[p] \in {"terminate", "zero"}
Begin(s, c, at) ==
  /\ Goto(s, "idle", at)
  /\ loaded /\ pc[Rmmod] = "idle"
  /\ commands < MaxCommands /\ commands' = commands + 1
  /\ doing' = [doing EXCEPT ![s] = c]
  /\ LET others == {p \in Processes \ {s} : Inside(p)}
         found   == {x \in {"load", "word"} :
                       \E q \in others : IF x = "load" THEN doing[q] = x ELSE Cutting(q)}
         told(p) == IF c = "load" THEN {c}
                    ELSE IF c \in {"start", "stop"} /\ Reading(p) THEN {"word"} ELSE {}
     IN met' = [p \in Processes |-> IF p = s THEN found
                                    ELSE IF p \in others THEN met[p] \cup told(p) ELSE met[p]]

\* It is done; what it knew of the command is forgotten.
GotoOrReturn(s, from, to) ==
  /\ Goto(s, from, to)
  /\ IF to = "idle"
     THEN /\ doing' = [doing EXCEPT ![s] = "none"] /\ list' = [list EXCEPT ![s] = <<>>]
          /\ pos' = [pos EXCEPT ![s] = 0] /\ len' = [len EXCEPT ![s] = 0]
          /\ met' = [met EXCEPT ![s] = {}]
     ELSE UNCHANGED <<doing, list, pos, len, met>>
Return(s, from) == GotoOrReturn(s, from, "idle")
-----------------------------------------------------------------------------
(* drddr-shell.c: load and param; write_address *)

\* load: fwrite puts the addresses into the file, whole blocks at once and the
\* rest in fclose; the count follows when the file of addresses is closed.
Load(s, l) ==
  /\ Begin(s, "load", "copy")
  /\ list' = [list EXCEPT ![s] = l] /\ pos' = [pos EXCEPT ![s] = 0]
  /\ oneList' = FALSE
  /\ UNCHANGED <<files, running, engine, loaded, len, startMet>>

\* write_address copies them one after the other.
WriteAddress(s) ==
  /\ pc[s] = "copy" /\ pos[s] < Len(list[s])
  /\ address' = [address EXCEPT ![pos[s]] = list[s][pos[s] + 1]]
  /\ pos' = [pos EXCEPT ![s] = @ + 1]
  /\ UNCHANGED <<u_addresscnt, i_param, mybuf, running, engine, loaded, pc, doing,
                 list, len, commands, met, oneList, startMet>>

\* Mutations of WriteCount: the last block of addresses has not been flushed, the
\* size is written in bytes.
WriteCountFirst(s) ==
  /\ pos[s] + 1 >= Len(list[s])
  /\ Return(s, "copy")
  /\ u_addresscnt' = Len(list[s]) /\ oneList' = ("load" \notin met[s])
  /\ UNCHANGED <<address, i_param, mybuf, running, engine, loaded, commands, startMet>>

WriteCountBytes(s) ==
  /\ pos[s] = Len(list[s])
  /\ Return(s, "copy")
  /\ u_addresscnt' = 8 * Len(list[s]) /\ oneList' = ("load" \notin met[s])
  /\ UNCHANGED <<address, i_param, mybuf, running, engine, loaded, commands, startMet>>

WriteCount(s) ==
  /\ pos[s] = Len(list[s])
  /\ Return(s, "copy")
  /\ u_addresscnt' = Len(list[s]) /\ oneList' = ("load" \notin met[s])
  /\ UNCHANGED <<address, i_param, mybuf, running, engine, loaded, commands, startMet>>

\* param: one number, written at once.
Param(s, x) ==
  /\ loaded /\ pc[s] = "idle" /\ pc[Rmmod] = "idle"
  /\ commands < MaxCommands /\ commands' = commands + 1
  /\ i_param' = x
  /\ UNCHANGED <<address, u_addresscnt, mybuf, running, engine, loaded, pc, doing, list,
                 pos, len, met, oneList, startMet>>
-----------------------------------------------------------------------------
(* write_ctrl and update_status *)

\* mybuf by the bytes in which the commands differ: the third and fourth, the
\* fifth.
Word(c) == IF c = "start" THEN [middle |-> "ar", fifth |-> "t"]
           ELSE [middle |-> "op", fifth |-> "end"]

\* start, end: the shell writes the word.  copy_from_user leaves what is behind.
Control(s, c) ==
  /\ Begin(s, c, "terminate")
  /\ mybuf' = IF c = "start" THEN Word(c) ELSE [mybuf EXCEPT !.middle = Word(c).middle]
  /\ UNCHANGED <<address, u_addresscnt, i_param, running, engine, loaded, list, pos,
                 len, oneList, startMet>>

private == <<list, pos, len, commands, oneList>>

\* Mutation of Terminate: the end of the word is not marked.
TerminateNot(s) ==
  /\ Goto(s, "terminate", "sanitize")
  /\ UNCHANGED <<files, running, engine, loaded, doing, private, met, startMet>>

\* mybuf[count] = 0
Terminate(s) ==
  /\ Goto(s, "terminate", "sanitize")
  /\ mybuf' = IF doing[s] = "stop" THEN [mybuf EXCEPT !.fifth = "end"] ELSE mybuf
  /\ UNCHANGED <<address, u_addresscnt, i_param, running, engine, loaded, doing,
                 private, met, startMet>>

\* update_status reads the bytes of mybuf, and stores 0 where it has read one that
\* is not printable.  The 0 of the fifth byte is the one that may change.
Sanitize(s) ==
  /\ Goto(s, "sanitize", IF mybuf.fifth = "end" THEN "zero" ELSE "isStart")
  /\ UNCHANGED <<files, running, engine, loaded, doing, private, met, startMet>>

StoreZero(s) ==
  /\ Goto(s, "zero", "isStart")
  /\ mybuf' = [mybuf EXCEPT !.fifth = "end"]
  /\ UNCHANGED <<address, u_addresscnt, i_param, running, engine, loaded, doing,
                 private, met, startMet>>

\* In update_status, or in stop called by exit_drddr.
Working(p)  == Inside(p) /\ ~Reading(p) /\ doing[p] \in {"start", "stop", "exit"}
Starting(p) == Working(p) /\ doing[p] = "start"
MeetsStart(s) == startMet' = (startMet \/ \E p \in Processes \ {s} : Starting(p))

\* update_status compares mybuf with one word and then with the other.  From here
\* on doing[s] is the function that runs.
IsStart(s) ==
  /\ UNCHANGED <<files, running, engine, loaded, private>>
  /\ IF mybuf = Word("start")
     THEN /\ Goto(s, "isStart", "begin")
          /\ doing' = [doing EXCEPT ![s] = "start"]
          /\ UNCHANGED met
          /\ startMet' = (startMet \/ \E p \in Processes \ {s} : Working(p))
     ELSE Goto(s, "isStart", "isStop") /\ UNCHANGED <<doing, met, startMet>>

IsStop(s) ==
  /\ UNCHANGED <<files, running, engine, loaded, commands, oneList>>
  /\ IF mybuf = Word("stop")
     THEN /\ Goto(s, "isStop", "begin") /\ doing' = [doing EXCEPT ![s] = "stop"]
          /\ MeetsStart(s)
          /\ UNCHANGED <<list, pos, len, met>>
     ELSE Return(s, "isStop") /\ UNCHANGED startMet
-----------------------------------------------------------------------------
(* start and stop, by whoever calls them *)

still == <<doing, list, commands, met, oneList, startMet>>

\* What follows the part that is stop.
AfterStop(s) == CASE doing[s] = "start" -> "wpCleanStart"
                  [] doing[s] = "exit"  -> "unload"
                  [] OTHER              -> "idle"

\* if (running) stop();  if (!running) return;
TestRunning(s) ==
  /\ GotoOrReturn(s, "begin", IF running THEN "clean" ELSE AfterStop(s))
  /\ UNCHANGED <<files, running, engine, loaded, commands, oneList, startMet>>

\* bp_clean takes every breakpoint out ...
Clean(s) ==
  /\ Goto(s, "clean", "drain")
  /\ used' = used \ Active /\ bp_stopping' = TRUE
  /\ UNCHANGED <<files, running, bp_addr, bp_count, latePlant, bp_trap_count, threads,
                 loaded, pos, len, still>>

\* Mutation of Drain: the threads are not waited for.
DrainNot(s) ==
  /\ Goto(s, "drain", "wpCleanStop")
  /\ UNCHANGED <<files, running, engine, loaded, pos, len, still>>

\* ... and waits for the threads.
Drain(s) ==
  /\ bp_trap_count = 0
  /\ Goto(s, "drain", "wpCleanStop")
  /\ UNCHANGED <<files, running, engine, loaded, pos, len, still>>

\* Mutation of StopDone: running is not reset.
StopDoneRunning(s) ==
  /\ GotoOrReturn(s, "wpCleanStop", AfterStop(s)) /\ running' = running
  /\ UNCHANGED <<files, engine, loaded, commands, oneList, startMet>>

\* wp_clean returns; running = false.
StopDone(s) ==
  /\ GotoOrReturn(s, "wpCleanStop", AfterStop(s)) /\ running' = FALSE
  /\ UNCHANGED <<files, engine, loaded, commands, oneList, startMet>>

\* The wp_clean of start returns.
WpCleaned(s) ==
  /\ Goto(s, "wpCleanStart", "initCount")
  /\ UNCHANGED <<files, running, engine, loaded, pos, len, still>>

WpClean(s) == StopDone(s) \/ WpCleaned(s)

\* bp_init, outside the lock.
InitCount(s) ==
  /\ Goto(s, "initCount", "initAddr")
  /\ bp_count' = u_addresscnt
  /\ len' = [len EXCEPT ![s] = u_addresscnt] /\ pos' = [pos EXCEPT ![s] = 0]
  /\ UNCHANGED <<files, running, bp_addr, used, latePlant, bp_trap_count, bp_stopping,
                 threads, loaded, still>>

InitAddr(s) ==
  /\ pos[s] < len[s] /\ Goto(s, "initAddr", "initState")
  /\ bp_addr' = [bp_addr EXCEPT ![pos[s]] = address[pos[s]]]
  /\ UNCHANGED <<files, running, used, bp_count, latePlant, bp_trap_count, bp_stopping,
                 threads, loaded, pos, len, still>>

InitState(s) ==
  /\ Goto(s, "initState", "initAddr")
  /\ used' = used \ {pos[s]}
  /\ pos' = [pos EXCEPT ![s] = @ + 1]
  /\ UNCHANGED <<files, running, bp_addr, bp_count, latePlant, bp_trap_count, bp_stopping,
                 threads, loaded, len, still>>

InitTrap(s) ==
  /\ pos[s] = len[s] /\ Goto(s, "initAddr", "initFlag")
  /\ bp_trap_count' = 0
  /\ UNCHANGED <<files, running, table, bp_stopping, threads, loaded, pos, len, still>>

\* The end of bp_init; start chooses its loop by i_param, and tests its
\* condition: with -1 there is one breakpoint to plant, if the list has any.
Strided == i_param <= -2 /\ i_param >= -65536
Loop    == IF i_param = -1 THEN "first" ELSE IF Strided THEN "stride" ELSE "random"
Loops   == {"first", "stride", "random"}

InitFlag(s) ==
  /\ Goto(s, "initFlag", Loop)
  /\ bp_stopping' = FALSE
  /\ pos' = [pos EXCEPT ![s] = 0]
  /\ UNCHANGED <<files, running, table, bp_trap_count, threads, loaded, len, still>>

\* The conditions and the steps of the loops read u_addresscnt and i_param anew.
\* A negative i is a large unsigned number.
More(s) ==
  CASE pc[s] = "first"  -> pos[s] = 0 /\ u_addresscnt > 0
    [] pc[s] = "stride" -> pos[s] \in 0..(u_addresscnt - 1)
    [] pc[s] = "random" -> pos[s] < i_param
    [] OTHER            -> FALSE

\* bp_add tests bp_stopping first ...
InAdd == [loop \in Loops |-> CASE loop = "first"  -> "addFirst"
                               [] loop = "stride" -> "addStride"
                               [] loop = "random" -> "addRandom"]
PlantTest(s) ==
  /\ More(s) /\ ~bp_stopping
  /\ pc' = [pc EXCEPT ![s] = InAdd[@]]
  /\ UNCHANGED <<files, running, engine, loaded, pos, len, still>>

Advance(s, loop) == pos' = [pos EXCEPT ![s] = IF loop = "stride" THEN @ - i_param ELSE @ + 1]

PlantRefused(s) ==
  /\ More(s) /\ bp_stopping
  /\ Advance(s, pc[s])
  /\ UNCHANGED <<files, running, engine, loaded, pc, len, still>>

\* ... and then takes the lock and plants, if it finds a free entry.
Free == Active \ used
Choices(choice) == IF choice = -1 THEN Free ELSE Free \cap {choice}
Add(choice) ==
  /\ IF Choices(choice) = {} THEN used' = used
     ELSE \E i \in Choices(choice) : used' = used \cup {i}
  /\ latePlant' = (latePlant \/ (bp_stopping /\ Choices(choice) # {}))
  /\ UNCHANGED <<bp_addr, bp_count>>


PlantNext(s, loop) ==
  /\ Goto(s, InAdd[loop], loop)
  /\ Add(IF loop = "random" THEN -1 ELSE pos[s])
  /\ Advance(s, loop)
  /\ UNCHANGED <<files, running, bp_trap_count, bp_stopping, threads, loaded, len, still>>

\* i_param = -1;  running = true;
ResetParam(s) ==
  /\ pc[s] \in Loops /\ ~More(s) /\ Goto(s, pc[s], "setRunning")
  /\ i_param' = -1
  /\ UNCHANGED <<address, u_addresscnt, mybuf, running, engine, loaded, pos, len, still>>

Started(s) ==
  /\ Return(s, "setRunning")
  /\ running' = TRUE
  /\ UNCHANGED <<files, engine, loaded, commands, oneList, startMet>>

Body(s) ==
  \/ TestRunning(s) \/ Clean(s) \/ Drain(s) \/ InitCount(s) \/ InitAddr(s)
  \/ InitState(s) \/ InitTrap(s) \/ InitFlag(s) \/ PlantTest(s) \/ PlantRefused(s)
  \/ (\E loop \in Loops : PlantNext(s, loop)) \/ ResetParam(s) \/ Started(s)
-----------------------------------------------------------------------------
(* The threads, as far as start and stop notice them *)

outside == <<files, running, loaded, shell>>

\* int3_drddr: bp_remove takes the breakpoint out ...
Trap ==
  /\ removed + held < NThreads /\ removed' = removed + 1
  /\ \E i \in used \cap Active : used' = used \ {i}
  /\ UNCHANGED <<outside, bp_addr, bp_count, latePlant, bp_trap_count, bp_stopping,
                 held, adding, leaving>>

\* ... and bp_inc_trapped counts the thread unless the engine is stopping.
IncTrapped ==
  /\ removed > 0 /\ removed' = removed - 1
  /\ IF bp_stopping THEN UNCHANGED <<bp_trap_count, held>>
     ELSE bp_trap_count' = bp_trap_count + 1 /\ held' = held + 1
  /\ UNCHANGED <<outside, table, bp_stopping, adding, leaving>>

\* The watch is over, and bp_add tests bp_stopping.
EndWatch ==
  /\ adding + leaving < held
  /\ IF bp_stopping THEN leaving' = leaving + 1 /\ adding' = adding
     ELSE adding' = adding + 1 /\ leaving' = leaving
  /\ UNCHANGED <<outside, table, bp_trap_count, bp_stopping, removed, held>>

\* bp_add under the lock.
AddLocked ==
  /\ adding > 0 /\ adding' = adding - 1 /\ leaving' = leaving + 1
  /\ Add(-1)
  /\ UNCHANGED <<outside, bp_trap_count, bp_stopping, removed, held>>

\* Mutation of DecTrapped: a stopping engine is not told.
DecUnlessStopping ==
  /\ leaving > 0 /\ leaving' = leaving - 1 /\ held' = held - 1
  /\ bp_trap_count' = IF bp_stopping THEN bp_trap_count ELSE bp_trap_count - 1
  /\ UNCHANGED <<outside, table, bp_stopping, removed, adding>>

\* The end of int3_real_work.
DecTrapped ==
  /\ leaving > 0 /\ leaving' = leaving - 1 /\ held' = held - 1
  /\ bp_trap_count' = bp_trap_count - 1
  /\ UNCHANGED <<outside, table, bp_stopping, removed, adding>>
-----------------------------------------------------------------------------
(* status and mon_update *)

\* Bytes of what bp_monitor and wp_monitor print: a title and a line per entry, by
\* its state; a title, a line per debug register, by its use, and the end of the
\* text.  The length of what is watched has two digits at most.
Title  == 19
UNUSED == 48
USING  == 47
Wp(n)  == Title + (48 * n) + (15 * (4 - n)) + 1

\* Mutation of BpMonitor: one line too many.
BpMonitorOneMore == Title + (UNUSED * (bp_count + 1))
BpMonitor        == Title + (UNUSED * Cardinality(Free)) + (USING * Cardinality(used \cap Active))

\* status reads the file from its beginning: mon_update calls bp_monitor, under
\* bp_lock_drddr, and wp_monitor.
Monitor(s) ==
  /\ Begin(s, "status", "read")
  /\ \E n \in InUse : pos' = [pos EXCEPT ![s] = BpMonitor + Wp(n)]
  /\ len' = [len EXCEPT ![s] = bp_count]
  /\ UNCHANGED <<files, running, engine, loaded, list, oneList, startMet>>

\* The shell has read and printed the file.
Status(s) ==
  /\ Return(s, "read")
  /\ UNCHANGED <<files, running, engine, loaded, commands, oneList, startMet>>
-----------------------------------------------------------------------------
(* rmmod *)

\* exit_drddr removes the files and calls stop.  The files do not hold the module
\* (file_operations.owner is not set): a call that is under way goes on.
Exit ==
  /\ Begin(Rmmod, "exit", "begin")
  /\ MeetsStart(Rmmod)
  /\ UNCHANGED <<files, running, engine, loaded, list, pos, len, oneList>>

\* The handlers are put back and the kernel frees the module.
Unload ==
  /\ Goto(Rmmod, "unload", "gone")
  /\ loaded' = FALSE
  /\ UNCHANGED <<files, running, engine, pos, len, still>>

\* A call that is in freed code.
Crash(s) ==
  /\ ~loaded /\ Inside(s) /\ pc[s] # "gone"
  /\ pc' = [pc EXCEPT ![s] = "crashed"]
  /\ UNCHANGED <<files, running, engine, loaded, pos, len, still>>
-----------------------------------------------------------------------------
\* The list may be given as a parameter of the module.
Init ==
  /\ \E l \in Lists \cup {<<>>} :
       /\ address = [i \in Indices |-> IF i < Len(l) THEN l[i + 1] ELSE NoAddr]
       /\ u_addresscnt = Len(l)
  /\ i_param = -1 /\ running = FALSE /\ mybuf = [middle |-> "none", fifth |-> "end"]
  /\ bp_addr = [i \in Indices |-> NoAddr] /\ used = {} /\ bp_count = 0
  /\ bp_trap_count = 0 /\ bp_stopping = FALSE
  /\ removed = 0 /\ held = 0 /\ adding = 0 /\ leaving = 0 /\ loaded = TRUE
  /\ pc = [p \in Processes |-> "idle"] /\ doing = [p \in Processes |-> "none"]
  /\ list = [s \in Shells |-> <<>>]
  /\ pos = [p \in Processes |-> 0] /\ len = [p \in Processes |-> 0]
  /\ commands = 0 /\ met = [p \in Processes |-> {}]
  /\ oneList = TRUE /\ startMet = FALSE /\ latePlant = FALSE

Serve(s) ==
  \/ WriteAddress(s) \/ WriteCount(s) \/ Terminate(s) \/ Sanitize(s) \/ StoreZero(s)
  \/ IsStart(s) \/ IsStop(s) \/ Status(s)

Thread == IncTrapped \/ AddLocked \/ DecTrapped

Next ==
  \/ \E s \in Shells :
       \/ \E l \in Lists : Load(s, l)
       \/ \E x \in Params : Param(s, x)
       \/ \E c \in {"start", "stop"} : Control(s, c)
       \/ Monitor(s) \/ Crash(s)
       \/ loaded /\ Serve(s)
  \/ \E p \in Processes : loaded /\ (Body(p) \/ WpClean(p))
  \/ Exit \/ Unload
  \/ loaded /\ (Trap \/ EndWatch \/ Thread)

Spec == Init /\ [][Next]_vars

\* The kernel serves every call and runs every thread.  Nothing is assumed of the
\* watchpoint engine: whether a watch ends and wp_clean returns is in WatchesReturn.
FairSpec ==
  /\ Spec
  /\ \A s \in Shells : WF_vars(loaded /\ (Serve(s) \/ Body(s)))
  /\ WF_vars(loaded /\ Body(Rmmod)) /\ WF_vars(Unload)
  /\ WF_vars(loaded /\ Thread)
-----------------------------------------------------------------------------
(* Properties *)

Phases == Loops \cup
  {"idle", "copy", "terminate", "sanitize", "zero", "isStart", "isStop", "begin", "clean",
   "drain", "wpCleanStop", "wpCleanStart", "initCount", "initAddr", "initState", "initFlag",
   "addFirst", "addStride", "addRandom", "setRunning", "read", "unload", "gone", "crashed"}
Activities == {"load", "start", "stop", "status", "exit"}

\* The shapes of the variables.  No index leaves the tables, also when start and
\* load run side by side.
TypeOK ==
  /\ address \in [Indices -> Addr \cup {NoAddr}] /\ u_addresscnt \in 0..NAddress
  /\ i_param \in Int /\ running \in BOOLEAN
  /\ mybuf \in [middle : {"none", "ar", "op"}, fifth : {"end", "t"}]
  /\ bp_addr \in [Indices -> Addr \cup {NoAddr}] /\ used \subseteq Indices
  /\ bp_count \in 0..NAddress /\ bp_trap_count \in Int /\ bp_stopping \in BOOLEAN
  /\ removed \in Nat /\ held \in Nat /\ adding \in Nat /\ leaving \in Nat
  /\ adding + leaving <= held
  /\ loaded \in BOOLEAN /\ latePlant \in BOOLEAN
  /\ pc \in [Processes -> Phases] /\ doing \in [Processes -> Activities \cup {"none"}]
  /\ pos \in [Processes -> Int] /\ len \in [Processes -> 0..NAddress]
  /\ commands \in 0..MaxCommands
  /\ met \in [Processes -> SUBSET {"load", "word"}]
  /\ oneList \in BOOLEAN /\ startMet \in BOOLEAN

\* bp_init reads the list entry by entry while load may write it.  If the files
\* were written by one load that no other disturbed, no load came in between, and
\* every start has run alone, the table is one list, whole, and what bp_init has
\* not planted is not in use, unless bp_add ever planted after bp_clean.
\* (Otherwise it may hold an address twice, which Breakpoints excludes.)
ListWhole ==
  \A s \in Shells :
    pc[s] = "initFlag" /\ oneList /\ "load" \notin met[s] /\ ~startMet =>
      /\ used = {} \/ latePlant
      /\ \E l \in Lists \cup {<<>>} :
           bp_count = Len(l) /\ \A i \in 1..Len(l) : bp_addr[i - 1] = l[i]

\* stop polls a count that only a start which runs alone keeps right.  Two starts
\* at once reset it under a counted thread; so does the start that follows one a
\* stop ran along with, which left running false and breakpoints planted.  Any
\* number of stops, loads and readers at once do no harm.
CountExact == ~startMet => bp_trap_count = held

\* The user's view of stop: when it returns the detector is off, no thread is at
\* work, and no breakpoint planted unless bp_add has planted after bp_clean, also if
\* other shells stop, load or ask for the status at the same time.  Only a start at
\* the same time, now or before, may undo the first two, or make stop return without
\* any effect, since running is set at the end.
StopTakesEffect ==
  [][\A s \in Shells :
       doing[s] = "stop" /\ ~Reading(s) /\ pc'[s] = "idle" /\ pc[s] # "idle" =>
         \/ ~running' /\ held' = 0 /\ (used' = {} \/ latePlant')
         \/ startMet]_vars

\* drddr-main.c:430: mybuf belongs to all who write to the file.  What a shell has
\* written is what is run, unless somebody else's word may have been stored in
\* between, or the zero with which he ends or cleans his own; then it may be taken
\* for another one or for none.
CommandServed ==
  [][\A s \in Shells :
       Reading(s) /\ ~Reading(s)' =>
         \/ pc'[s] = "begin" /\ doing'[s] = doing[s]
         \/ "word" \in met[s] \/ pc'[s] = "crashed"]_vars

\* rmmod leaves no thread behind, and no breakpoint but one planted after bp_clean,
\* unless a start was once at work along with a start or a stop: running is false
\* until its end, and then the stop of exit_drddr does nothing.
UnloadedClean ==
  ~loaded => (held = 0 /\ (used = {} \/ latePlant)) \/ startMet

\* mon_update does not know the size of mon_buf; it keeps within it as long as the
\* list has no more entries than Fits, which is 1360 for 65536 bytes.
Fits == (MonBufSize - (Title + Wp(4))) \div UNUSED
MonitorFits ==
  \A s \in Shells : pc[s] = "read" /\ len[s] <= Fits => pos[s] <= MonBufSize

\* If watches end and wp_clean returns (EngineReturns of Watchpoints says when they
\* do), every call returns, rmmod's too: the commands are bounded in number, and the
\* console comes to rest.  Unless the module is removed under a call, or a start at
\* the same time as a start or a stop has spoilt the count of threads.
WatchesReturn ==
  /\ WF_vars(loaded /\ EndWatch)
  /\ \A p \in Processes : WF_vars(loaded /\ WpClean(p))
=============================================================================
