-------------------------------- MODULE Entry --------------------------------
(***************************************************************************)
(* The way of an exception through the module: swap_handler, which patches *)
(* the calls in the kernel's entry code, and the frame that int3_drddr     *)
(* builds for int3_actual_work and that int3_actual_work takes down.       *)
(*                                                                         *)
(* There are two processes: the one that loads and unloads the module, and *)
(* a CPU that takes exceptions while it does.  A thread's registers and    *)
(* stack are its own, so that one CPU stands for all.                      *)
(*                                                                         *)
(* Registers and words of the stack hold symbolic values; the only ones    *)
(* the code computes with are pointers into the stack.  The stack is       *)
(* numbered in words of 8 bytes and grows downwards.  Addresses of code    *)
(* are their low 32 bits, which is what swap_handler computes with.        *)
(***************************************************************************)
EXTENDS Integers, Sequences

CONSTANTS
  Text,       \* addresses of the kernel's entry code
  Original,   \* its bytes
  Gate,       \* per vector: the handler in the IDT, see drddr_get_handler
  Call,       \* per vector: where the handler calls do_int3, do_debug
  Kernel,     \* per vector: do_int3, do_debug
  Ours,       \* per vector: int3_drddr, debug_drddr
  ByteBase,   \* 256: an offset of a call has four bytes
  CallOp,     \* 0xe8
  PageSize,
  Words,      \* the words of the thread's stack
  TrapSps     \* where the stack pointer may be at a trap

Vectors == {"int3", "debug"}
Space   == ByteBase * ByteBase * ByteBase * ByteBase

\* Where the call at p goes: its offset is in the four bytes after it.
Offset(bytes, p) ==
  bytes[p + 1] + (ByteBase * (bytes[p + 2] + (ByteBase * (bytes[p + 3] + (ByteBase * bytes[p + 4])))))
Target(bytes, p) == (Offset(bytes, p) + p + 5) % Space

ASSUME CodeAssumption ==
  /\ ByteBase \in Nat \ {0, 1} /\ CallOp \in 0..(ByteBase - 1) /\ PageSize \in Nat \ {0}
  /\ Text \subseteq Int /\ Original \in [Text -> 0..(ByteBase - 1)]
  /\ Gate \in [Vectors -> Text] /\ Call \in [Vectors -> Text]
  /\ Kernel \in [Vectors -> 0..(Space - 1)] /\ Ours \in [Vectors -> 0..(Space - 1)]
\* From a handler to its call of do_int3 or do_debug there is one other byte 0xe8,
\* that of the call of save_paranoid; the two handlers are apart.
Span(v) == Gate[v]..(Call[v] + 4)
ASSUME LayoutAssumption ==
  /\ PageSize >= 4
  /\ Span("int3") \cap Span("debug") = {}
  /\ \A v \in Vectors :
       /\ Original[Call[v]] = CallOp /\ (Call[v] + 1)..(Call[v] + 4) \subseteq Text
       /\ \E first \in Text : \A a \in Text :
            Gate[v] <= a /\ a < Call[v] /\ Original[a] = CallOp <=> a = first
       /\ Target(Original, Call[v]) = Kernel[v] /\ Ours[v] # Kernel[v]
\* There is room for the frame, the return address and the saved %rbp.
ASSUME StackAssumption ==
  /\ Words \subseteq Int /\ TrapSps \subseteq Int
  /\ \A s \in TrapSps : (s - 23)..s \subseteq Words

VARIABLES
  code,       \* the bytes of the entry code
  old,        \* old_do_int3, old_do_debug
  mod,        \* where init_drddr and exit_drddr are
  k,          \* swap_handler: 0 not running, 1..4 the byte to write, 5 written
  site,       \* swap_handler: p, the address of the call
  orig,       \* swap_handler: the target it found
  offset,     \* swap_handler: the offset it writes
  rw,         \* the pages that set_memory_rw has made writable
  at,         \* where the CPU is
  left,       \* int3_actual_work: registers that have been loaded
  reg, flags, rsp, stack,
  trapSp,     \* history: the stack pointer at the trap
  seen,       \* history: the pt_regs that int3_real_work was given
  hit         \* history: an interrupt came while the frame was exposed

loader  == <<code, old, mod, k, site, orig, offset, rw>>
machine == <<reg, flags, rsp, stack>>
history == <<trapSp, seen, hit>>
vars    == <<loader, at, left, machine, history>>

Unset   == -1
NotSeen == <<>>
-----------------------------------------------------------------------------
(* swap_handler *)

FirstOf(S) == CHOOSE a \in S : \A b \in S : a <= b

\* Mutation of CallSite: the search does not step over the first call.
CallSiteFirst(v) == FirstOf({a \in Text : a >= Gate[v] /\ code[a] = CallOp})

\* The second byte 0xe8 from the handler on, taken for the call of do_int3 or
\* do_debug; the first one is the call of save_paranoid.
CallSite(v) ==
  LET calls == {a \in Text : a >= Gate[v] /\ code[a] = CallOp}
  IN FirstOf(calls \ {FirstOf(calls)})

CallTarget(p) == Target(code, p)

Power(i)    == IF i = 0 THEN 1 ELSE IF i = 1 THEN ByteBase
               ELSE IF i = 2 THEN ByteBase * ByteBase ELSE ByteBase * ByteBase * ByteBase

\* Mutation of ByteOf: the byte is not masked.
ByteOfUnmasked(n, i) == n \div Power(i)
ByteOf(n, i) == (n \div Power(i)) % ByteBase

Page(a) == a - (a % PageSize)

Hooking   == mod \in {"hookInt3", "hookDebug"}
Unhooking == mod \in {"unhookDebug", "unhookInt3"}
Vector    == IF mod \in {"hookInt3", "unhookInt3"} THEN "int3" ELSE "debug"

\* The second argument of swap_handler.
Wanted == IF Hooking THEN Ours[Vector] ELSE old[Vector]

\* init_drddr patches int3 first, exit_drddr debug first.
NextMod == CASE mod = "hookInt3"    -> "hookDebug"
             [] mod = "hookDebug"   -> "in"
             [] mod = "unhookDebug" -> "unhookInt3"
             [] mod = "unhookInt3"  -> "gone"

\* swap_handler finds the call, computes both offsets and opens the pages of
\* the first and the last byte.
SwapBegin ==
  /\ Hooking \/ Unhooking
  /\ k = 0 /\ k' = 1
  /\ site' = CallSite(Vector)
  /\ orig' = CallTarget(site')
  /\ offset' = (Wanted - site' - 5) % Space
  /\ rw' = rw \cup {Page(site' + 1), Page(site' + 4)}
  /\ UNCHANGED <<code, old, mod, at, left, machine, history>>

\* Mutation of SwapByte: the bytes are stored with the highest first.
SwapByteHighFirst ==
  /\ k \in 1..4 /\ k' = k + 1
  /\ code' = [code EXCEPT ![site + k] = ByteOf(offset, 4 - k)]
  /\ UNCHANGED <<old, mod, site, orig, offset, rw, at, left, machine, history>>

\* The bytes are written one by one.
SwapByte ==
  /\ k \in 1..4 /\ k' = k + 1
  /\ code' = [code EXCEPT ![site + k] = ByteOf(offset, k - 1)]
  /\ UNCHANGED <<old, mod, site, orig, offset, rw, at, left, machine, history>>

\* Mutations of SwapEnd: only the page of the last byte is closed, the old
\* handler is stored on the way out too.
SwapEndLastPage ==
  /\ k = 5 /\ k' = 0
  /\ rw' = rw \ {Page(site + 4)}
  /\ old' = IF Hooking THEN [old EXCEPT ![Vector] = orig] ELSE old
  /\ mod' = NextMod
  /\ UNCHANGED <<code, site, orig, offset, at, left, machine, history>>

SwapEndAlwaysStores ==
  /\ k = 5 /\ k' = 0
  /\ rw' = rw \ {Page(site + 1), Page(site + 4)}
  /\ old' = [old EXCEPT ![Vector] = orig]
  /\ mod' = NextMod
  /\ UNCHANGED <<code, site, orig, offset, at, left, machine, history>>

\* swap_handler closes the pages and returns; init_drddr stores the result.
SwapEnd ==
  /\ k = 5 /\ k' = 0
  /\ rw' = rw \ {Page(site + 1), Page(site + 4)}
  /\ old' = IF Hooking THEN [old EXCEPT ![Vector] = orig] ELSE old
  /\ mod' = NextMod
  /\ UNCHANGED <<code, site, orig, offset, at, left, machine, history>>
-----------------------------------------------------------------------------
(* Loading and unloading *)

Proceed(from, to) ==
  /\ mod = from /\ mod' = to
  /\ UNCHANGED <<code, old, k, site, orig, offset, rw, at, left, machine, history>>

\* The thread is counted by bp_trap_count.
Counted == {"push", "mov", "call"}

InitModule == Proceed("out", "hookInt3")

\* Mutation of ExitModule: the count is not waited for.
ExitModuleAtOnce == Proceed("in", "unhookDebug")

\* exit_drddr; its call of stop returns when nobody is counted.
ExitModule == at \notin Counted /\ Proceed("in", "unhookDebug")

InHandler    == {"int3_drddr", "foreign", "debug_drddr"}
InActualWork == Counted \cup
  {"load", "leaRsp", "popfq", "loadRbp", "storeRbp", "loadRip", "storeRip", "loadRax",
   "leaRbp", "leaveq", "retq"}

\* The interrupt flag of the thread.
InterruptsOn == flags[2] = "on"

\* The kernel frees the code of the module after every CPU has run a thread of
\* the kernel's, which one with interrupts off does not.
Free ==
  /\ at \notin InHandler /\ (at \in InActualWork => InterruptsOn)
  /\ Proceed("gone", "freed")
-----------------------------------------------------------------------------
(* The CPU: exceptions, and int3_drddr *)

Val(r) == <<"val", r>>
Ptr(n) == <<"ptr", n>>
Lost   == <<"lost", "lost">>

Registers == {"rax", "rbx", "rcx", "rdx", "rsi", "rdi", "rbp", "r8", "r9", "r10",
              "r11", "r12", "r13", "r14", "r15"}
CalleeSaved == {"rbx", "rbp", "r12", "r13", "r14", "r15"}

\* The thread meets an exception and executes the call in the entry code, as
\* its bytes are now.
Exception(v, here) ==
  /\ at = "kernel"
  /\ LET target == CallTarget(Call[v])
     IN at' = CASE target = Ours[v]   -> here
                [] target = Kernel[v] -> "kernel"
                [] OTHER              -> "wild"
  /\ UNCHANGED <<loader, left, machine, history>>

\* A breakpoint of the module, which start may plant once init_drddr is done;
\* somebody else's int3; a debug exception.
OwnInt3     == mod = "in" /\ Exception("int3", "int3_drddr")
ForeignInt3 == Exception("int3", "foreign")
Debug       == Exception("debug", "debug_drddr")

\* int3_drddr passes an int3 it does not know to old_do_int3 ...
PassOn ==
  /\ at = "foreign"
  /\ at' = IF old["int3"] = Kernel["int3"] THEN "kernel" ELSE "wild"
  /\ UNCHANGED <<loader, left, machine, history>>

\* ... and debug_drddr returns without passing on anything.
DebugReturn ==
  /\ at = "debug_drddr" /\ at' = "kernel"
  /\ UNCHANGED <<loader, left, machine, history>>

\* struct pt_regs in its order; the saved sp has already been lowered.
pt_regs(ip, sp) ==
  <<reg["r15"], reg["r14"], reg["r13"], reg["r12"], reg["rbp"], reg["rbx"], reg["r11"],
    reg["r10"], reg["r9"], reg["r8"], reg["rax"], reg["rcx"], reg["rdx"], reg["rsi"],
    reg["rdi"], Val("orig_ax"), ip, Val("cs"), flags, sp, Val("ss")>>

\* A frame of 21 words and a return address below the stack pointer.
Push(frame, ret) ==
  /\ rsp' = rsp - 22
  /\ stack' = [w \in Words |-> IF w \in (rsp - 21)..(rsp - 1) THEN frame[w - rsp + 22]
                               ELSE IF w = rsp - 22 THEN ret ELSE stack[w]]

\* Mutation of PushFrame: regs->ip is redirected before the copy is made.
PushFrameLate ==
  /\ at = "int3_drddr" /\ mod = "in" /\ at' = "push"
  /\ Push(pt_regs(Val("int3_actual_work"), Ptr(rsp - 21)), Val("rip"))
  /\ trapSp' = rsp
  /\ UNCHANGED <<loader, left, reg, flags, seen, hit>>

\* bp_inc_trapped refuses a thread once stop has begun.
Refuse ==
  /\ at = "int3_drddr" /\ mod # "in" /\ at' = "kernel"
  /\ UNCHANGED <<loader, left, machine, history>>

\* int3_drddr copies the registers to the thread's stack, pushes the address of
\* the instruction and returns to int3_actual_work.
PushFrame ==
  /\ at = "int3_drddr" /\ mod = "in" /\ at' = "push"
  /\ Push(pt_regs(Val("rip"), Ptr(rsp - 21)), Val("rip"))
  /\ trapSp' = rsp
  /\ UNCHANGED <<loader, left, reg, flags, seen, hit>>
-----------------------------------------------------------------------------
(* int3_actual_work, instruction by instruction *)

Go(from, to) == mod # "freed" /\ at = from /\ at' = to /\ UNCHANGED <<loader, trapSp, hit>>

\* The word at n(%rbp).
Base    == reg["rbp"][2]
Word(n) == stack[Base + n]

\* The prologue that the compiler gives the function: push %rbp, mov %rsp, %rbp.
PushRbp ==
  /\ Go("push", "mov")
  /\ rsp' = rsp - 1 /\ stack' = [stack EXCEPT ![rsp - 1] = reg["rbp"]]
  /\ UNCHANGED <<left, reg, flags, seen>>

MovRbp ==
  /\ Go("mov", "call")
  /\ reg' = [reg EXCEPT !["rbp"] = Ptr(rsp)]
  /\ UNCHANGED <<left, flags, rsp, stack, seen>>

Below(n) == [w \in Words |-> IF w < n THEN Lost ELSE stack[w]]

\* int3_real_work gets the address of the frame in %rdi.  A C function keeps the
\* callee-saved registers; it uses the stack below %rsp.
CallRealWork ==
  /\ Go("call", "load")
  /\ seen' = [i \in 1..21 |-> Word(i + 1)]
  /\ reg' = [r \in Registers |-> IF r \in CalleeSaved THEN reg[r] ELSE Lost]
  /\ flags' = [flags EXCEPT ![3] = "lost"]
  /\ stack' = Below(rsp)
  /\ left' = 1
  /\ UNCHANGED rsp

\* Mutation of Saved: the register of the scratch list that a system call does
\* not keep either is forgotten.
SavedButR11 ==
  <<<<"rbx", 7>>, <<"r10", 9>>, <<"r9", 10>>, <<"r8", 11>>,
    <<"rcx", 13>>, <<"rdx", 14>>, <<"rsi", 15>>, <<"rdi", 16>>>>

\* The nine movq that load a register from the frame.
Saved ==
  <<<<"rbx", 7>>, <<"r11", 8>>, <<"r10", 9>>, <<"r9", 10>>, <<"r8", 11>>,
    <<"rcx", 13>>, <<"rdx", 14>>, <<"rsi", 15>>, <<"rdi", 16>>>>

LoadSaved ==
  /\ Go("load", IF left = Len(Saved) THEN "leaRsp" ELSE "load")
  /\ reg' = [reg EXCEPT ![Saved[left][1]] = Word(Saved[left][2])]
  /\ left' = left + 1
  /\ UNCHANGED <<flags, rsp, stack, seen>>

\* leaq 0xa0(%rbp),%rsp: from here on the frame is below the stack pointer.
LeaRsp ==
  /\ Go("leaRsp", "popfq")
  /\ rsp' = Base + 20
  /\ UNCHANGED <<left, reg, flags, stack, seen>>

Popfq ==
  /\ Go("popfq", "loadRbp")
  /\ flags' = stack[rsp] /\ rsp' = rsp + 1
  /\ UNCHANGED <<left, reg, stack, seen>>

Load(from, to, n) ==
  /\ Go(from, to)
  /\ reg' = [reg EXCEPT !["rax"] = Word(n)]
  /\ UNCHANGED <<left, flags, rsp, stack, seen>>

Store(from, to, n) ==
  /\ Go(from, to)
  /\ stack' = [stack EXCEPT ![Base + n] = reg["rax"]]
  /\ UNCHANGED <<left, reg, flags, rsp, seen>>

\* The saved %rbp and the return address are moved up to the end of the frame,
\* over the saved sp and ss; then %rax is loaded.
LoadRbp  == Load("loadRbp", "storeRbp", 0)
StoreRbp == Store("storeRbp", "loadRip", 21)
LoadRip  == Load("loadRip", "storeRip", 1)
StoreRip == Store("storeRip", "loadRax", 22)
LoadRax  == Load("loadRax", "leaRbp", 12)

LeaRbp ==
  /\ Go("leaRbp", "leaveq")
  /\ reg' = [reg EXCEPT !["rbp"] = Ptr(Base + 21)]
  /\ UNCHANGED <<left, flags, rsp, stack, seen>>

Leaveq ==
  /\ Go("leaveq", "retq")
  /\ rsp' = Base + 1
  /\ reg' = [reg EXCEPT !["rbp"] = Word(0)]
  /\ UNCHANGED <<left, flags, stack, seen>>

Retq ==
  /\ Go("retq", IF stack[rsp] = Val("rip") THEN "back" ELSE "wild")
  /\ rsp' = rsp + 1
  /\ UNCHANGED <<left, reg, flags, stack, seen>>

ActualWork ==
  \/ PushRbp \/ MovRbp \/ CallRealWork \/ LoadSaved \/ LeaRsp \/ Popfq
  \/ LoadRbp \/ StoreRbp \/ LoadRip \/ StoreRip \/ LoadRax \/ LeaRbp \/ Leaveq \/ Retq

\* Where the code still needs a word below the stack pointer.
Exposed == {"popfq", "loadRbp", "storeRbp", "loadRip", "storeRip", "loadRax"}

\* An interrupt uses the thread's stack, below the stack pointer rounded down to
\* 16 bytes.
Interrupt ==
  /\ at \in InActualWork /\ InterruptsOn
  /\ stack' = Below(rsp - (rsp % 2))
  /\ hit' = (hit \/ at \in Exposed)
  /\ UNCHANGED <<loader, at, left, reg, flags, rsp, trapSp, seen>>

\* The code has been freed under the thread.
FreedCode ==
  /\ mod = "freed" /\ at \in InActualWork
  /\ at' = "freed"
  /\ UNCHANGED <<loader, left, machine, history>>

\* The instruction is executed and the thread goes on.
Resume ==
  /\ at = "back" /\ at' = "kernel"
  /\ seen' = NotSeen
  /\ UNCHANGED <<loader, left, machine, trapSp, hit>>
-----------------------------------------------------------------------------
Init ==
  /\ code = Original /\ old = [v \in Vectors |-> Unset] /\ mod = "out"
  /\ k = 0 /\ site = 0 /\ orig = 0 /\ offset = 0 /\ rw = {}
  /\ at = "kernel" /\ left = 0
  /\ reg = [r \in Registers |-> Val(r)]
  /\ flags \in {"flags"} \X {"on", "off"} \X {"kept"}
  /\ rsp \in TrapSps
  /\ stack = [w \in Words |-> <<"word", w>>]
  /\ trapSp = rsp /\ seen = NotSeen /\ hit = FALSE

Next ==
  \/ InitModule \/ ExitModule \/ Free \/ SwapBegin \/ SwapByte \/ SwapEnd
  \/ OwnInt3 \/ ForeignInt3 \/ Debug \/ PassOn \/ DebugReturn \/ Refuse
  \/ PushFrame \/ ActualWork \/ Interrupt \/ FreedCode \/ Resume

Spec == Init /\ [][Next]_vars
-----------------------------------------------------------------------------
(* Properties *)

Mods == {"out", "hookInt3", "hookDebug", "in", "unhookDebug", "unhookInt3", "gone", "freed"}
Places == {"kernel", "back", "wild", "freed"} \cup InHandler \cup InActualWork

\* The shapes of the variables.
TypeOK ==
  /\ code \in [Text -> 0..(ByteBase - 1)]
  /\ old \in [Vectors -> (0..(Space - 1)) \cup {Unset}]
  /\ mod \in Mods /\ k \in 0..5
  /\ at \in Places /\ left \in 0..(Len(Saved) + 1)
  /\ DOMAIN reg = Registers /\ DOMAIN stack = Words
  /\ rsp \in Int /\ trapSp \in TrapSps /\ hit \in BOOLEAN

\* What int3_actual_work is for: the thread comes back to its instruction with
\* the registers, the flags, the stack pointer and the stack that it had, unless
\* an interrupt came while the frame lay below the stack pointer.  Interrupts at
\* any other point do no harm.
Restored ==
  at \in {"retq", "back"} /\ ~hit =>
    /\ \A r \in Registers : reg[r] = Val(r)
    /\ flags[1] = "flags" /\ flags[3] = "kept"
    /\ IF at = "back" THEN rsp = trapSp ELSE rsp = trapSp - 1 /\ stack[rsp] = Val("rip")
    /\ \A w \in Words : w >= trapSp => stack[w] = <<"word", w>>

\* The registers that the decoder computes an address from, and that a report
\* prints, are those of the trap, except that sp is too low by the size of the
\* frame: an operand relative to rsp is watched 0xa8 bytes below its place.
WorkSeesTrap ==
  seen # NotSeen /\ ~hit =>
    seen = <<Val("r15"), Val("r14"), Val("r13"), Val("r12"), Val("rbp"), Val("rbx"),
             Val("r11"), Val("r10"), Val("r9"), Val("r8"), Val("rax"), Val("rcx"),
             Val("rdx"), Val("rsi"), Val("rdi"), Val("orig_ax"), Val("rip"), Val("cs"),
             <<"flags", flags[2], "kept">>, Ptr(trapSp - 21), Val("ss")>>

\* init_drddr and exit_drddr leave the entry code as they should: while the
\* module can be started both calls go to its handlers, and those of the kernel
\* are known; before and afterwards the code is the kernel's.
HandlersInPlace ==
  /\ mod = "in" => \A v \in Vectors : CallTarget(Call[v]) = Ours[v] /\ old[v] = Kernel[v]
  /\ mod \in {"out", "gone", "freed"} => code = Original

\* set_memory_rw and set_memory_ro: every byte is written to a page that is
\* writable, and no page of the kernel's code is left so.
PagesSealed ==
  /\ k \in 1..4 => Page(site + k) \in rw
  /\ k = 0 => rw = {}

\* An exception reaches the kernel's handler or the module's, except between the
\* first and the last of the four bytes that are written.
CallsLand == [][at = "kernel" /\ at' = "wild" => k \in 2..4]_vars

\* An int3 that is not the module's reaches the kernel's handler, except before
\* init_drddr has stored its address: then int3_drddr calls address 0.
ForeignPassedOn == [][at = "foreign" /\ at' = "wild" => mod = "hookInt3"]_vars

\* drddr-main.c:506: exit_drddr has waited for the threads in int3_real_work, so
\* that freed code is executed by one that is on its way out at most.
FreedOnlyInTail == [][at' = "freed" => at \notin Counted]_vars
=============================================================================
