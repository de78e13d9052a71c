---------------------------- MODULE EntryProofs ----------------------------
(***************************************************************************)
(* For any stack: int3_real_work is given the registers of the trap, the   *)
(* thread comes back to its instruction as it left it, and no thread that  *)
(* the module still counts runs freed code.                                *)
(*                                                                         *)
(* For any entry code that swap_handler's search understands, and any      *)
(* addresses: the calls are redirected and put back byte for byte, and an  *)
(* exception goes astray between the first and the last byte only.         *)
(***************************************************************************)
EXTENDS Entry, TLAPS

\* The pt_regs of a trap at stack pointer sp, with the interrupt flag b.
Frame(sp, b) ==
  <<Val("r15"), Val("r14"), Val("r13"), Val("r12"), Val("rbp"), Val("rbx"),
    Val("r11"), Val("r10"), Val("r9"), Val("r8"), Val("rax"), Val("rcx"),
    Val("rdx"), Val("rsi"), Val("rdi"), Val("orig_ax"), Val("rip"), Val("cs"),
    <<"flags", b, "kept">>, Ptr(sp - 21), Val("ss")>>

\* Where the thread is not in int3_actual_work.
Outside == {"kernel", "back"} \cup InHandler
Dead    == {"wild", "freed"}

\* int3_actual_work: before the call, up to the loading of %rsp, up to that of
\* %rbp, and all instructions.
Early == {"push", "mov", "call"}
Middle == {"load", "leaRsp"}
Late == {"popfq", "loadRbp", "storeRbp", "loadRip", "storeRip", "loadRax", "leaRbp"}

\* The registers and the stack are functions, and the pointers point into the frame.
Shape ==
  /\ reg = [r \in Registers |-> reg[r]]
  /\ stack = [w \in Words |-> stack[w]]
  /\ trapSp \in TrapSps

Pointers ==
  /\ at \in Outside \cup Dead \cup InActualWork
  /\ at \in Outside => rsp = trapSp
  /\ at = "push" => rsp = trapSp - 22
  /\ at \in {"mov", "call"} \cup Middle => rsp = trapSp - 23
  /\ at = "popfq" => rsp = trapSp - 3
  /\ at \in (Late \ {"popfq"}) \cup {"leaveq"} => rsp = trapSp - 2
  /\ at = "retq" => rsp = trapSp - 1
  /\ at \in {"call"} \cup Middle \cup Late => reg["rbp"] = Ptr(trapSp - 23)
  /\ at = "leaveq" => reg["rbp"] = Ptr(trapSp - 2)
  /\ at = "load" => left \in 1..9

\* What the registers hold.
Registered ==
  /\ at \notin Dead =>
       flags = <<"flags", flags[2], IF at \in Middle \cup {"popfq"} THEN "lost" ELSE "kept">>
  /\ at \in Outside \cup {"push", "mov", "retq"} => \A r \in Registers : reg[r] = Val(r)
  /\ at = "call" => \A r \in Registers \ {"rbp"} : reg[r] = Val(r)
  /\ at = "load" =>
       /\ \A r \in CalleeSaved \ {"rbp"} : reg[r] = Val(r)
       /\ \A i \in 1..9 : i < left => reg[Saved[i][1]] = Val(Saved[i][1])
  /\ at \in {"leaRsp", "leaveq"} \cup Late => \A r \in Registers \ {"rax", "rbp"} : reg[r] = Val(r)
  /\ at = "storeRbp" => reg["rax"] = Val("rbp")
  /\ at = "storeRip" => reg["rax"] = Val("rip")
  /\ at \in {"leaRbp", "leaveq"} => reg["rax"] = Val("rax")

\* What the stack holds: the frame, of which the last two words are overwritten, the
\* return address and %rbp below it, and later on top of it.
Framed ==
  /\ \A w \in Words : w >= trapSp => stack[w] = <<"word", w>>
  /\ at \in Early => \A i \in 1..21 : stack[trapSp - 22 + i] = Frame(trapSp, flags[2])[i]
  /\ at \in Middle \cup (Late \ {"leaRbp"}) =>
       \A i \in 1..19 : stack[trapSp - 22 + i] = Frame(trapSp, flags[2])[i]
  /\ at \in Early \cup Middle \cup {"popfq", "loadRbp", "storeRbp", "loadRip"} =>
       stack[trapSp - 22] = Val("rip")
  /\ at \in {"mov", "call", "popfq", "loadRbp"} \cup Middle => stack[trapSp - 23] = Val("rbp")
  /\ at \in {"loadRip", "storeRip", "loadRax", "leaRbp", "leaveq"} =>
       stack[trapSp - 2] = Val("rbp")
  /\ at \in {"loadRax", "leaRbp", "leaveq", "retq"} => stack[trapSp - 1] = Val("rip")

SeenFrame == seen # NotSeen => seen = Frame(trapSp, flags[2])

\* An interrupt while the frame is exposed may spoil the contents, not the pointers.
Inv == Shape /\ Pointers /\ (~hit => Registered /\ Framed /\ SeenFrame)

\* Who is counted is so before exit_drddr begins to unhook.
CountedIn == at \in Counted => mod = "in"
-----------------------------------------------------------------------------
(* Operators *)

\* The frame is a function on 21 places.
LEMMA FrameFunction ==
  ASSUME NEW sp, NEW b
  PROVE  Frame(sp, b) = [i \in 1..21 |-> Frame(sp, b)[i]]
BY DEF Frame

\* A pointer points where it says.
LEMMA Pointed == ASSUME NEW n PROVE Ptr(n)[2] = n
BY DEF Ptr

\* There is room for the frame, %rbp and the return address.
LEMMA Room ==
  ASSUME Shape
  PROVE  /\ trapSp \in Int /\ Words \subseteq Int
         /\ \A n \in Int : trapSp - 23 <= n /\ n <= trapSp => n \in Words
<1>1. trapSp \in TrapSps /\ (trapSp - 23)..trapSp \subseteq Words /\ Words \subseteq Int
  BY StackAssumption DEF Shape
<1> QED
  BY <1>1, StackAssumption

\* What the frame holds where int3_actual_work looks.
LEMMA FrameHolds ==
  ASSUME NEW sp, NEW b
  PROVE  /\ Frame(sp, b)[5] = Val("rbp") /\ Frame(sp, b)[11] = Val("rax")
         /\ Frame(sp, b)[17] = Val("rip") /\ Frame(sp, b)[19] = <<"flags", b, "kept">>
BY DEF Frame

\* Saved names each scratch register but %rax, and %rbx, with the place of its value.
LEMMA SavedHolds ==
  /\ Len(Saved) = 9
  /\ \A i \in 1..9 :
       /\ Saved[i][1] \in Registers \ {"rax", "rbp"}
       /\ Saved[i][2] \in 2..20
       /\ \A sp, b : Frame(sp, b)[Saved[i][2] - 1] = Val(Saved[i][1])
  /\ \A r \in Registers \ {"rax", "rbp"} : r \in CalleeSaved \/ \E i \in 1..9 : Saved[i][1] = r
<1>1. Len(Saved) = 9
  BY DEF Saved
<1>2. ASSUME NEW i \in 1..9
      PROVE  /\ Saved[i][1] \in Registers \ {"rax", "rbp"}
             /\ Saved[i][2] \in 2..20
             /\ \A sp, b : Frame(sp, b)[Saved[i][2] - 1] = Val(Saved[i][1])
  <2>1. \A sp, b : /\ Frame(sp, b)[6] = Val("rbx") /\ Frame(sp, b)[7] = Val("r11")
                   /\ Frame(sp, b)[8] = Val("r10") /\ Frame(sp, b)[9] = Val("r9")
                   /\ Frame(sp, b)[10] = Val("r8") /\ Frame(sp, b)[12] = Val("rcx")
                   /\ Frame(sp, b)[13] = Val("rdx") /\ Frame(sp, b)[14] = Val("rsi")
                   /\ Frame(sp, b)[15] = Val("rdi")
    BY DEF Frame
  <2>2. i \in {1, 2, 3, 4, 5, 6, 7, 8, 9}
    OBVIOUS
  <2> QED
    BY <2>1, <2>2 DEF Saved, Registers
<1>3. ASSUME NEW r \in Registers \ {"rax", "rbp"}
      PROVE  r \in CalleeSaved \/ \E i \in 1..9 : Saved[i][1] = r
  <2>1. /\ Saved[1][1] = "rbx" /\ Saved[2][1] = "r11" /\ Saved[3][1] = "r10"
        /\ Saved[4][1] = "r9" /\ Saved[5][1] = "r8" /\ Saved[6][1] = "rcx"
        /\ Saved[7][1] = "rdx" /\ Saved[8][1] = "rsi" /\ Saved[9][1] = "rdi"
    BY DEF Saved
  <2> QED
    BY <2>1 DEF Registers, CalleeSaved
<1> QED
  BY <1>1, <1>2, <1>3

\* The pt_regs of a thread with the registers of the trap.
LEMMA RegsAreFrame ==
  ASSUME \A r \in Registers : reg[r] = Val(r), flags = <<"flags", flags[2], "kept">>
  PROVE  pt_regs(Val("rip"), Ptr(rsp - 21)) = Frame(rsp, flags[2])
BY DEF pt_regs, Frame, Registers
-----------------------------------------------------------------------------
(* The steps that leave the thread's registers and stack alone *)

LEMMA OutsideStep ==
  ASSUME Inv, at \in Outside, at' \in Outside \cup Dead,
         UNCHANGED <<machine, trapSp, hit>>, seen' = seen \/ seen' = NotSeen
  PROVE  Inv'
<1>1. UNCHANGED <<reg, flags, rsp, stack, trapSp, hit>>
  BY DEF machine
<1>2. Shape' /\ Pointers'
  BY <1>1 DEF Inv, Shape, Pointers, Outside, Dead, InHandler, InActualWork, Counted, Middle,
     Late
<1>3. ASSUME ~hit PROVE Registered' /\ Framed' /\ SeenFrame'
  <2>1. Registered'
    BY <1>1, <1>3 DEF Inv, Registered, Outside, Dead, InHandler, Middle, Late
  <2>2. Framed'
    BY <1>1, <1>3 DEF Inv, Framed, Outside, Dead, InHandler, Early, Middle, Late
  <2>3. SeenFrame'
    BY <1>1, <1>3 DEF Inv, SeenFrame
  <2> QED
    BY <2>1, <2>2, <2>3
<1> QED
  BY <1>1, <1>2, <1>3 DEF Inv

LEMMA FrozenStep ==
  ASSUME Inv, UNCHANGED <<at, left, machine, history>>
  PROVE  Inv'
BY DEF Inv, Shape, Pointers, Registered, Framed, SeenFrame, machine, history

LEMMA LoaderInv ==
  ASSUME Inv, InitModule \/ ExitModule \/ Free \/ SwapBegin \/ SwapByte \/ SwapEnd
  PROVE  Inv'
<1>1. UNCHANGED <<at, left, machine, history>>
  BY DEF InitModule, ExitModule, Free, SwapBegin, SwapByte, SwapEnd, Proceed
<1> QED
  BY <1>1, FrozenStep

LEMMA KernelInv ==
  ASSUME Inv, OwnInt3 \/ ForeignInt3 \/ Debug \/ PassOn \/ DebugReturn \/ Refuse \/ Resume
  PROVE  Inv'
<1>1. /\ UNCHANGED <<machine, trapSp, hit>> /\ (seen' = seen \/ seen' = NotSeen)
  BY DEF OwnInt3, ForeignInt3, Debug, Exception, PassOn, DebugReturn, Refuse, Resume, history
<1>2. at \in Outside /\ at' \in Outside \cup Dead
  BY DEF OwnInt3, ForeignInt3, Debug, Exception, PassOn, DebugReturn, Refuse, Resume, Outside,
         Dead, InHandler
<1> QED
  BY <1>1, <1>2, OutsideStep

LEMMA FreedCodeInv == ASSUME Inv, FreedCode PROVE Inv'
<1>1. at' = "freed" /\ at \in InActualWork /\ UNCHANGED <<reg, flags, rsp, stack, trapSp, seen, hit>>
  BY DEF FreedCode, machine, history
<1>2. Shape' /\ Pointers'
  BY <1>1 DEF Inv, Shape, Pointers, Outside, Dead, InHandler, InActualWork, Counted, Middle,
     Late
<1>3. ASSUME ~hit PROVE Registered' /\ Framed' /\ SeenFrame'
  BY <1>1, <1>3 DEF Inv, Registered, Framed, SeenFrame, Outside, Dead, InHandler, Early,
     Middle, Late
<1> QED
  BY <1>1, <1>2, <1>3 DEF Inv
-----------------------------------------------------------------------------
(* int3_drddr and int3_actual_work *)

\* int3_drddr: the frame is that of the registers.
LEMMA PushFrameInv == ASSUME Inv, PushFrame PROVE Inv'
<1>1. /\ at = "int3_drddr" /\ at' = "push" /\ rsp' = rsp - 22 /\ trapSp' = rsp
      /\ LET frame == pt_regs(Val("rip"), Ptr(rsp - 21)) IN
         stack' = [w \in Words |-> IF w \in (rsp - 21)..(rsp - 1) THEN frame[w - rsp + 22]
                                   ELSE IF w = rsp - 22 THEN Val("rip") ELSE stack[w]]
      /\ UNCHANGED <<left, reg, flags, seen, hit>>
  BY DEF PushFrame, Push
<1>2. /\ trapSp \in Int /\ Words \subseteq Int
      /\ \A n \in Int : trapSp - 23 <= n /\ n <= trapSp => n \in Words
  BY Room DEF Inv
<1>3. Shape /\ Pointers
  BY DEF Inv
<1>10. rsp = trapSp
  BY <1>1, <1>3 DEF Pointers, Outside, InHandler
<1>4. Shape'
  BY <1>1, <1>3, <1>10 DEF Shape
<1>5. Pointers'
  BY <1>1, <1>10, <1>2, <1>3, Pointed DEF Shape, Pointers, Outside, Dead, InHandler, Early,
     Middle, Late, Registers, InActualWork, Counted
<1>6. ASSUME ~hit PROVE Registered' /\ Framed' /\ SeenFrame'
  <2>1. Registered /\ Framed /\ SeenFrame
    BY <1>6 DEF Inv
  <2>2. pt_regs(Val("rip"), Ptr(rsp - 21)) = Frame(trapSp, flags[2]) /\ rsp = trapSp
    BY <1>1, <1>3, <2>1, RegsAreFrame DEF Registered, Pointers, Outside, Dead, InHandler,
       Middle
  <2>7. Registered'
    BY <1>1, <1>2, <1>3, <2>1, Pointed DEF Shape, Pointers, Registered, Outside, Dead,
       InHandler, Early, Middle, Late, Registers
  <2>8. Framed'
    BY <1>1, <1>2, <1>3, <2>1, Pointed, <2>2 DEF Shape, Pointers, Framed, Outside, Dead,
       InHandler, Early, Middle, Late, Registers
  <2>9. SeenFrame'
    BY <1>1, <1>10, <2>1 DEF SeenFrame
  <2> QED
    BY <2>7, <2>8, <2>9
<1> QED
  BY <1>1, <1>4, <1>5, <1>6 DEF Inv

\* The prologue keeps %rbp below the return address.
LEMMA PushRbpInv == ASSUME Inv, PushRbp PROVE Inv'
<1>1. /\ at = "push" /\ at' = "mov" /\ UNCHANGED <<trapSp, hit, left, reg, flags, seen>>
      /\ rsp' = rsp - 1 /\ stack' = [stack EXCEPT ![rsp - 1] = reg["rbp"]]
  BY DEF PushRbp, Go, loader
<1>2. /\ trapSp \in Int /\ Words \subseteq Int
      /\ \A n \in Int : trapSp - 23 <= n /\ n <= trapSp => n \in Words
  BY Room DEF Inv
<1>3. Shape /\ Pointers
  BY DEF Inv
<1>4. Shape'
  BY <1>1, <1>3 DEF Shape
<1>5. Pointers'
  BY <1>1, <1>2, <1>3, Pointed DEF Shape, Pointers, Outside, Dead, InHandler, Early, Middle,
     Late, Registers, InActualWork, Counted
<1>6. ASSUME ~hit PROVE Registered' /\ Framed' /\ SeenFrame'
  <2>1. Registered /\ Framed /\ SeenFrame
    BY <1>6 DEF Inv
  <2>7. Registered'
    BY <1>1, <1>2, <1>3, <2>1, Pointed DEF Shape, Pointers, Registered, Outside, Dead,
       InHandler, Early, Middle, Late, Registers
  <2>2. trapSp - 23 \in Words /\ rsp - 1 = trapSp - 23
    BY <1>1, <1>2, <1>3 DEF Pointers
  <2>3. \A w \in Words : stack'[w] = IF w = trapSp - 23 THEN Val("rbp") ELSE stack[w]
    <3>1. reg["rbp"] = Val("rbp")
      BY <1>1, <2>1 DEF Registered, Registers
    <3> QED
      BY <1>1, <1>3, <2>2, <3>1 DEF Shape
  <2>4. \A w \in Int : trapSp - 22 <= w /\ w <= trapSp => stack'[w] = stack[w]
    BY <1>2, <2>3
  <2>5. \A i \in 1..21 : stack'[trapSp - 22 + i] = stack[trapSp - 22 + i]
    BY <1>2, <2>4
  <2>6. \A w \in Words : w >= trapSp => stack'[w] = stack[w]
    BY <1>2, <2>3
  <2>8. Framed'
    BY <1>1, <1>2, <2>1, <2>2, <2>3, <2>4, <2>5, <2>6 DEF Framed, Outside, Dead, InHandler,
       Early, Middle, Late
  <2>9. SeenFrame'
    BY <1>1, <1>2, <1>3, <2>1 DEF SeenFrame
  <2> QED
    BY <2>7, <2>8, <2>9
<1> QED
  BY <1>1, <1>4, <1>5, <1>6 DEF Inv

\* %rbp points to where it was kept.
LEMMA MovRbpInv == ASSUME Inv, MovRbp PROVE Inv'
<1>1. /\ at = "mov" /\ at' = "call" /\ UNCHANGED <<trapSp, hit, left, rsp, stack, flags, seen>>
      /\ reg' = [reg EXCEPT !["rbp"] = Ptr(rsp)]
  BY DEF MovRbp, Go, loader
<1>2. /\ trapSp \in Int /\ Words \subseteq Int
      /\ \A n \in Int : trapSp - 23 <= n /\ n <= trapSp => n \in Words
  BY Room DEF Inv
<1>3. Shape /\ Pointers
  BY DEF Inv
<1>4. Shape'
  BY <1>1, <1>3 DEF Shape
<1>5. Pointers'
  BY <1>1, <1>2, <1>3, Pointed DEF Shape, Pointers, Outside, Dead, InHandler, Early, Middle,
     Late, Registers, InActualWork, Counted
<1>6. ASSUME ~hit PROVE Registered' /\ Framed' /\ SeenFrame'
  <2>1. Registered /\ Framed /\ SeenFrame
    BY <1>6 DEF Inv
  <2>7. Registered'
    BY <1>1, <1>2, <1>3, <2>1, Pointed DEF Shape, Pointers, Registered, Outside, Dead,
       InHandler, Early, Middle, Late, Registers
  <2>8. Framed'
    BY <1>1, <1>2, <1>3, <2>1, Pointed DEF Shape, Pointers, Framed, Outside, Dead,
       InHandler, Early, Middle, Late, Registers
  <2>9. SeenFrame'
    BY <1>1, <1>2, <1>3, <2>1 DEF SeenFrame
  <2> QED
    BY <2>7, <2>8, <2>9
<1> QED
  BY <1>1, <1>4, <1>5, <1>6 DEF Inv

\* The call of int3_real_work: it is given the frame.
LEMMA CallRealWorkInv == ASSUME Inv, CallRealWork PROVE Inv'
<1>1. /\ at = "call" /\ at' = "load" /\ UNCHANGED <<trapSp, hit, rsp>> /\ left' = 1
      /\ seen' = [i \in 1..21 |-> stack[reg["rbp"][2] + (i + 1)]]
      /\ reg' = [r \in Registers |-> IF r \in CalleeSaved THEN reg[r] ELSE Lost]
      /\ flags' = [flags EXCEPT ![3] = "lost"]
      /\ stack' = [w \in Words |-> IF w < rsp THEN Lost ELSE stack[w]]
  BY DEF CallRealWork, Word, Base, Below, Go, loader
<1>2. /\ trapSp \in Int /\ Words \subseteq Int
      /\ \A n \in Int : trapSp - 23 <= n /\ n <= trapSp => n \in Words
  BY Room DEF Inv
<1>3. Shape /\ Pointers
  BY DEF Inv
<1>4. Shape'
  BY <1>1, <1>3 DEF Shape
<1>5. Pointers'
  BY <1>1, <1>2, <1>3, Pointed DEF Shape, Pointers, Outside, Dead, InHandler, Early, Middle,
     Late, Registers, CalleeSaved, InActualWork, Counted
<1>6. ASSUME ~hit PROVE Registered' /\ Framed' /\ SeenFrame'
  <2>1. Registered /\ Framed /\ SeenFrame
    BY <1>6 DEF Inv
  <2>2. flags = <<"flags", flags[2], "kept">>
    BY <1>1, <2>1 DEF Registered, Dead, Middle
  <2>3. flags' = <<"flags", flags[2], "lost">> /\ flags'[2] = flags[2]
    BY <1>1, <2>2
  <2>4. reg["rbp"][2] = trapSp - 23 /\ rsp = trapSp - 23
    BY <1>1, <1>3, Pointed DEF Pointers
  <2>5. \A i \in 1..21 : stack[reg["rbp"][2] + (i + 1)] = Frame(trapSp, flags[2])[i]
    <3> SUFFICES ASSUME NEW i \in 1..21
                 PROVE  stack[reg["rbp"][2] + (i + 1)] = Frame(trapSp, flags[2])[i]
      OBVIOUS
    <3>1. trapSp - 23 + (i + 1) = trapSp - 22 + i
      BY <1>2
    <3> QED
      BY <1>1, <2>1, <2>4, <3>1 DEF Framed, Early
  <2>6. seen' = Frame(trapSp, flags[2])
    BY <1>1, <2>5, FrameFunction
  <2>7. Registered'
    BY <1>1, <2>1, <2>3 DEF CalleeSaved, Registered, Outside, Dead, InHandler, Early,
       Middle, Late, Registers
  <2>10. \A w \in Words : w >= trapSp - 23 => stack'[w] = stack[w]
    <3>1. \A w \in Words : stack'[w] = IF w < trapSp - 23 THEN Lost ELSE stack[w]
      BY <1>1, <2>4
    <3>2. ASSUME NEW w \in Words, w >= trapSp - 23 PROVE ~(w < trapSp - 23)
      <4>1. w \in Int /\ trapSp \in Int
        BY <1>2
      <4> QED
        BY <3>2, <4>1
    <3> QED
      BY <3>1, <3>2
  <2>11. \A i \in 1..19 : stack'[trapSp - 22 + i] = stack[trapSp - 22 + i]
    BY <1>2, <2>10
  <2>12. stack'[trapSp - 22] = stack[trapSp - 22] /\ stack'[trapSp - 23] = stack[trapSp - 23]
    BY <1>2, <2>10
  <2>13. ASSUME NEW w \in Words, w >= trapSp PROVE stack'[w] = stack[w]
    <3>1. w >= trapSp - 23
      BY <1>2, <2>13
    <3> QED
      BY <2>10, <3>1
  <2>8. Framed'
    BY <1>1, <2>1, <2>3, <2>11, <2>12, <2>13 DEF Framed, Outside, Dead, InHandler, Early,
       Middle, Late
  <2>9. SeenFrame'
    BY <1>1, <1>2, <1>3, <2>1, <2>3, <2>6 DEF SeenFrame
  <2> QED
    BY <2>7, <2>8, <2>9
<1> QED
  BY <1>1, <1>4, <1>5, <1>6 DEF Inv

\* A register is loaded from its place in the frame.
LEMMA LoadSavedInv == ASSUME Inv, LoadSaved PROVE Inv'
<1>1. /\ at = "load" /\ at' = (IF left = 9 THEN "leaRsp" ELSE "load")
      /\ UNCHANGED <<trapSp, hit, flags, rsp, stack, seen>> /\ left' = left + 1
      /\ reg' = [reg EXCEPT ![Saved[left][1]] = stack[reg["rbp"][2] + Saved[left][2]]]
  BY SavedHolds DEF LoadSaved, Word, Base, Go, loader
<1>2. /\ trapSp \in Int /\ Words \subseteq Int
      /\ \A n \in Int : trapSp - 23 <= n /\ n <= trapSp => n \in Words
  BY Room DEF Inv
<1>3. Shape /\ Pointers
  BY DEF Inv
<1>10. left \in 1..9 /\ Saved[left][1] \in Registers \ {"rax", "rbp"} /\ Saved[left][2] \in 2..20
  BY <1>1, <1>3, SavedHolds DEF Pointers
<1>4. Shape'
  BY <1>1, <1>3 DEF Shape
<1>5. Pointers'
  BY <1>1, <1>2, <1>3, Pointed, <1>10 DEF Shape, Pointers, Outside, Dead, InHandler, Early,
     Middle, Late, Registers, InActualWork, Counted
<1>6. ASSUME ~hit PROVE Registered' /\ Framed' /\ SeenFrame'
  <2>1. Registered /\ Framed /\ SeenFrame
    BY <1>6 DEF Inv
  <2>2. reg["rbp"][2] = trapSp - 23
    BY <1>1, <1>3, Pointed DEF Pointers, Middle
  <2>3. stack[reg["rbp"][2] + Saved[left][2]] = Val(Saved[left][1])
    <3>1. Frame(trapSp, flags[2])[Saved[left][2] - 1] = Val(Saved[left][1])
      BY <1>10, SavedHolds
    <3>2. trapSp - 23 + Saved[left][2] = trapSp - 22 + (Saved[left][2] - 1)
          /\ Saved[left][2] - 1 \in 1..19
      BY <1>2, <1>10
    <3> QED
      BY <1>1, <2>1, <2>2, <3>1, <3>2 DEF Framed, Middle
  <2>4. \A r \in Registers :
          reg'[r] = IF r = Saved[left][1] THEN Val(r) ELSE reg[r]
    BY <1>1, <1>3, <1>10, <2>3 DEF Shape
  <2>5. \A i \in 1..9 : i <= left => reg'[Saved[i][1]] = Val(Saved[i][1])
    <3> SUFFICES ASSUME NEW i \in 1..9, i <= left
                 PROVE  reg'[Saved[i][1]] = Val(Saved[i][1])
      OBVIOUS
    <3>1. Saved[i][1] \in Registers
      BY SavedHolds
    <3>2. i = left \/ i < left
      BY <1>10
    <3> QED
      BY <1>1, <2>1, <2>4, <3>1, <3>2 DEF Registered
  <2>6. \A r \in CalleeSaved \ {"rbp"} : reg'[r] = Val(r)
    BY <1>1, <2>1, <2>4 DEF Registered, CalleeSaved, Registers
  <2>7. Registered'
    BY <1>1, <1>2, <1>3, <2>1, Pointed, <1>10, <2>5, <2>6, SavedHolds DEF Shape, Pointers,
       Registered, Outside, Dead, InHandler, Early, Middle, Late, Registers
  <2>8. Framed'
    BY <1>1, <1>2, <1>3, <2>1, Pointed DEF Shape, Pointers, Framed, Outside, Dead,
       InHandler, Early, Middle, Late, Registers
  <2>9. SeenFrame'
    BY <1>1, <1>2, <1>3, <2>1 DEF SeenFrame
  <2> QED
    BY <2>7, <2>8, <2>9
<1> QED
  BY <1>1, <1>4, <1>5, <1>6 DEF Inv

\* %rsp points to the saved flags.
LEMMA LeaRspInv == ASSUME Inv, LeaRsp PROVE Inv'
<1>1. /\ at = "leaRsp" /\ at' = "popfq" /\ UNCHANGED <<trapSp, hit, left, reg, flags, stack, seen>>
      /\ rsp' = reg["rbp"][2] + 20
  BY DEF LeaRsp, Base, Go, loader
<1>2. /\ trapSp \in Int /\ Words \subseteq Int
      /\ \A n \in Int : trapSp - 23 <= n /\ n <= trapSp => n \in Words
  BY Room DEF Inv
<1>3. Shape /\ Pointers
  BY DEF Inv
<1>4. Shape'
  BY <1>1, <1>3 DEF Shape
<1>5. Pointers'
  BY <1>1, <1>2, <1>3, Pointed DEF Shape, Pointers, Outside, Dead, InHandler, Early, Middle,
     Late, Registers, InActualWork, Counted
<1>6. ASSUME ~hit PROVE Registered' /\ Framed' /\ SeenFrame'
  <2>1. Registered /\ Framed /\ SeenFrame
    BY <1>6 DEF Inv
  <2>7. Registered'
    BY <1>1, <1>2, <1>3, <2>1, Pointed DEF Shape, Pointers, Registered, Outside, Dead,
       InHandler, Early, Middle, Late, Registers
  <2>8. Framed'
    BY <1>1, <1>2, <1>3, <2>1, Pointed DEF Shape, Pointers, Framed, Outside, Dead,
       InHandler, Early, Middle, Late, Registers
  <2>9. SeenFrame'
    BY <1>1, <1>2, <1>3, <2>1 DEF SeenFrame
  <2> QED
    BY <2>7, <2>8, <2>9
<1> QED
  BY <1>1, <1>4, <1>5, <1>6 DEF Inv

\* The flags are the frame's.
LEMMA PopfqInv == ASSUME Inv, Popfq PROVE Inv'
<1>1. /\ at = "popfq" /\ at' = "loadRbp" /\ UNCHANGED <<trapSp, hit, left, reg, stack, seen>>
      /\ flags' = stack[rsp] /\ rsp' = rsp + 1
  BY DEF Popfq, Go, loader
<1>2. /\ trapSp \in Int /\ Words \subseteq Int
      /\ \A n \in Int : trapSp - 23 <= n /\ n <= trapSp => n \in Words
  BY Room DEF Inv
<1>3. Shape /\ Pointers
  BY DEF Inv
<1>4. Shape'
  BY <1>1, <1>3 DEF Shape
<1>5. Pointers'
  BY <1>1, <1>2, <1>3, Pointed DEF Shape, Pointers, Outside, Dead, InHandler, Early, Middle,
     Late, Registers, InActualWork, Counted
<1>6. ASSUME ~hit PROVE Registered' /\ Framed' /\ SeenFrame'
  <2>1. Registered /\ Framed /\ SeenFrame
    BY <1>6 DEF Inv
  <2>2. flags' = <<"flags", flags[2], "kept">>
    <3>1. rsp = trapSp - 22 + 19
      BY <1>1, <1>2, <1>3 DEF Pointers
    <3>2. stack[trapSp - 22 + 19] = Frame(trapSp, flags[2])[19]
      BY <1>1, <2>1 DEF Framed, Late
    <3> QED
      BY <1>1, <3>1, <3>2, FrameHolds
  <2>3. flags'[2] = flags[2]
    BY <2>2
  <2>7. Registered'
    BY <1>1, <1>2, <1>3, <2>1, Pointed, <2>2, <2>3 DEF Shape, Pointers, Registered, Outside,
       Dead, InHandler, Early, Middle, Late, Registers
  <2>8. Framed'
    BY <1>1, <1>2, <1>3, <2>1, Pointed, <2>3 DEF Shape, Pointers, Framed, Outside, Dead,
       InHandler, Early, Middle, Late, Registers
  <2>9. SeenFrame'
    BY <1>1, <1>2, <1>3, <2>1, <2>3 DEF SeenFrame
  <2> QED
    BY <2>7, <2>8, <2>9
<1> QED
  BY <1>1, <1>4, <1>5, <1>6 DEF Inv

\* The saved %rbp ...
LEMMA LoadRbpInv == ASSUME Inv, LoadRbp PROVE Inv'
<1>1. /\ at = "loadRbp" /\ at' = "storeRbp" /\ UNCHANGED <<trapSp, hit, left, flags, rsp, stack, seen>>
      /\ reg' = [reg EXCEPT !["rax"] = stack[reg["rbp"][2] + 0]]
  BY DEF LoadRbp, Load, Word, Base, Go, loader
<1>2. /\ trapSp \in Int /\ Words \subseteq Int
      /\ \A n \in Int : trapSp - 23 <= n /\ n <= trapSp => n \in Words
  BY Room DEF Inv
<1>3. Shape /\ Pointers
  BY DEF Inv
<1>4. Shape'
  BY <1>1, <1>3 DEF Shape
<1>5. Pointers'
  BY <1>1, <1>2, <1>3, Pointed DEF Shape, Pointers, Outside, Dead, InHandler, Early, Middle,
     Late, Registers, InActualWork, Counted
<1>6. ASSUME ~hit PROVE Registered' /\ Framed' /\ SeenFrame'
  <2>1. Registered /\ Framed /\ SeenFrame
    BY <1>6 DEF Inv
  <2>2. reg["rbp"][2] = trapSp - 23
    BY <1>1, <1>3, Pointed DEF Pointers, Late
  <2>3. stack[reg["rbp"][2] + 0] = Val("rbp")
    BY <1>1, <1>2, <2>1, <2>2 DEF Framed
  <2>7. Registered'
    BY <1>1, <1>2, <1>3, <2>1, Pointed, <2>2, <2>3 DEF Shape, Pointers, Registered, Outside,
       Dead, InHandler, Early, Middle, Late, Registers
  <2>8. Framed'
    BY <1>1, <1>2, <1>3, <2>1, Pointed DEF Shape, Pointers, Framed, Outside, Dead,
       InHandler, Early, Middle, Late, Registers
  <2>9. SeenFrame'
    BY <1>1, <1>2, <1>3, <2>1 DEF SeenFrame
  <2> QED
    BY <2>7, <2>8, <2>9
<1> QED
  BY <1>1, <1>4, <1>5, <1>6 DEF Inv

\* ... is moved up to the end of the frame;
LEMMA StoreRbpInv == ASSUME Inv, StoreRbp PROVE Inv'
<1>1. /\ at = "storeRbp" /\ at' = "loadRip" /\ UNCHANGED <<trapSp, hit, left, flags, rsp, reg, seen>>
      /\ stack' = [stack EXCEPT ![reg["rbp"][2] + 21] = reg["rax"]]
  BY DEF StoreRbp, Store, Word, Base, Go, loader
<1>2. /\ trapSp \in Int /\ Words \subseteq Int
      /\ \A n \in Int : trapSp - 23 <= n /\ n <= trapSp => n \in Words
  BY Room DEF Inv
<1>3. Shape /\ Pointers
  BY DEF Inv
<1>4. Shape'
  BY <1>1, <1>3 DEF Shape
<1>5. Pointers'
  BY <1>1, <1>2, <1>3, Pointed DEF Shape, Pointers, Outside, Dead, InHandler, Early, Middle,
     Late, Registers, InActualWork, Counted
<1>6. ASSUME ~hit PROVE Registered' /\ Framed' /\ SeenFrame'
  <2>1. Registered /\ Framed /\ SeenFrame
    BY <1>6 DEF Inv
  <2>2. reg["rbp"][2] = trapSp - 23
    BY <1>1, <1>3, Pointed DEF Pointers, Late
  <2>7. Registered'
    BY <1>1, <1>2, <1>3, <2>1, Pointed DEF Shape, Pointers, Registered, Outside, Dead,
       InHandler, Early, Middle, Late, Registers
  <2>3. trapSp - 2 \in Words /\ reg["rbp"][2] + 21 = trapSp - 2 /\ reg["rax"] = Val("rbp")
    BY <1>1, <1>2, <2>1, <2>2 DEF Registered
  <2>4. \A w \in Words : stack'[w] = IF w = trapSp - 2 THEN Val("rbp") ELSE stack[w]
    BY <1>1, <1>3, <2>3 DEF Shape
  <2>5. \A i \in 1..19 : stack'[trapSp - 22 + i] = stack[trapSp - 22 + i]
    BY <1>2, <2>4
  <2>6. \A w \in Words : w >= trapSp \/ w \in {trapSp - 22, trapSp - 1} => stack'[w] = stack[w]
    BY <1>2, <2>4
  <2>10. trapSp - 22 \in Words /\ trapSp - 2 \in Words /\ trapSp - 1 \in Words
    BY <1>2
  <2>8. Framed'
    BY <1>1, <2>1, <2>3, <2>4, <2>5, <2>6, <2>10 DEF Framed, Outside, Dead, InHandler,
       Early, Middle, Late
  <2>9. SeenFrame'
    BY <1>1, <1>2, <1>3, <2>1 DEF SeenFrame
  <2> QED
    BY <2>7, <2>8, <2>9
<1> QED
  BY <1>1, <1>4, <1>5, <1>6 DEF Inv

\* the return address ...
LEMMA LoadRipInv == ASSUME Inv, LoadRip PROVE Inv'
<1>1. /\ at = "loadRip" /\ at' = "storeRip" /\ UNCHANGED <<trapSp, hit, left, flags, rsp, stack, seen>>
      /\ reg' = [reg EXCEPT !["rax"] = stack[reg["rbp"][2] + 1]]
  BY DEF LoadRip, Load, Word, Base, Go, loader
<1>2. /\ trapSp \in Int /\ Words \subseteq Int
      /\ \A n \in Int : trapSp - 23 <= n /\ n <= trapSp => n \in Words
  BY Room DEF Inv
<1>3. Shape /\ Pointers
  BY DEF Inv
<1>4. Shape'
  BY <1>1, <1>3 DEF Shape
<1>5. Pointers'
  BY <1>1, <1>2, <1>3, Pointed DEF Shape, Pointers, Outside, Dead, InHandler, Early, Middle,
     Late, Registers, InActualWork, Counted
<1>6. ASSUME ~hit PROVE Registered' /\ Framed' /\ SeenFrame'
  <2>1. Registered /\ Framed /\ SeenFrame
    BY <1>6 DEF Inv
  <2>2. reg["rbp"][2] = trapSp - 23
    BY <1>1, <1>3, Pointed DEF Pointers, Late
  <2>3. stack[reg["rbp"][2] + 1] = Val("rip")
    <3>1. trapSp - 23 + 1 = trapSp - 22
      BY <1>2
    <3> QED
      BY <1>1, <2>1, <2>2, <3>1 DEF Framed
  <2>7. Registered'
    BY <1>1, <1>2, <1>3, <2>1, Pointed, <2>2, <2>3 DEF Shape, Pointers, Registered, Outside,
       Dead, InHandler, Early, Middle, Late, Registers
  <2>8. Framed'
    BY <1>1, <1>2, <1>3, <2>1, Pointed DEF Shape, Pointers, Framed, Outside, Dead,
       InHandler, Early, Middle, Late, Registers
  <2>9. SeenFrame'
    BY <1>1, <1>2, <1>3, <2>1 DEF SeenFrame
  <2> QED
    BY <2>7, <2>8, <2>9
<1> QED
  BY <1>1, <1>4, <1>5, <1>6 DEF Inv

\* ... too;
LEMMA StoreRipInv == ASSUME Inv, StoreRip PROVE Inv'
<1>1. /\ at = "storeRip" /\ at' = "loadRax" /\ UNCHANGED <<trapSp, hit, left, flags, rsp, reg, seen>>
      /\ stack' = [stack EXCEPT ![reg["rbp"][2] + 22] = reg["rax"]]
  BY DEF StoreRip, Store, Word, Base, Go, loader
<1>2. /\ trapSp \in Int /\ Words \subseteq Int
      /\ \A n \in Int : trapSp - 23 <= n /\ n <= trapSp => n \in Words
  BY Room DEF Inv
<1>3. Shape /\ Pointers
  BY DEF Inv
<1>4. Shape'
  BY <1>1, <1>3 DEF Shape
<1>5. Pointers'
  BY <1>1, <1>2, <1>3, Pointed DEF Shape, Pointers, Outside, Dead, InHandler, Early, Middle,
     Late, Registers, InActualWork, Counted
<1>6. ASSUME ~hit PROVE Registered' /\ Framed' /\ SeenFrame'
  <2>1. Registered /\ Framed /\ SeenFrame
    BY <1>6 DEF Inv
  <2>2. reg["rbp"][2] = trapSp - 23
    BY <1>1, <1>3, Pointed DEF Pointers, Late
  <2>7. Registered'
    BY <1>1, <1>2, <1>3, <2>1, Pointed DEF Shape, Pointers, Registered, Outside, Dead,
       InHandler, Early, Middle, Late, Registers
  <2>3. trapSp - 1 \in Words /\ reg["rbp"][2] + 22 = trapSp - 1 /\ reg["rax"] = Val("rip")
    BY <1>1, <1>2, <2>1, <2>2 DEF Registered
  <2>4. \A w \in Words : stack'[w] = IF w = trapSp - 1 THEN Val("rip") ELSE stack[w]
    BY <1>1, <1>3, <2>3 DEF Shape
  <2>5. \A i \in 1..19 : stack'[trapSp - 22 + i] = stack[trapSp - 22 + i]
    BY <1>2, <2>4
  <2>6. \A w \in Words : w >= trapSp \/ w \in {trapSp - 22, trapSp - 2} => stack'[w] = stack[w]
    BY <1>2, <2>4
  <2>10. trapSp - 22 \in Words /\ trapSp - 2 \in Words /\ trapSp - 1 \in Words
    BY <1>2
  <2>8. Framed'
    BY <1>1, <2>1, <2>3, <2>4, <2>5, <2>6, <2>10 DEF Framed, Outside, Dead, InHandler,
       Early, Middle, Late
  <2>9. SeenFrame'
    BY <1>1, <1>2, <1>3, <2>1 DEF SeenFrame
  <2> QED
    BY <2>7, <2>8, <2>9
<1> QED
  BY <1>1, <1>4, <1>5, <1>6 DEF Inv

\* %rax is the last to be loaded.
LEMMA LoadRaxInv == ASSUME Inv, LoadRax PROVE Inv'
<1>1. /\ at = "loadRax" /\ at' = "leaRbp" /\ UNCHANGED <<trapSp, hit, left, flags, rsp, stack, seen>>
      /\ reg' = [reg EXCEPT !["rax"] = stack[reg["rbp"][2] + 12]]
  BY DEF LoadRax, Load, Word, Base, Go, loader
<1>2. /\ trapSp \in Int /\ Words \subseteq Int
      /\ \A n \in Int : trapSp - 23 <= n /\ n <= trapSp => n \in Words
  BY Room DEF Inv
<1>3. Shape /\ Pointers
  BY DEF Inv
<1>4. Shape'
  BY <1>1, <1>3 DEF Shape
<1>5. Pointers'
  BY <1>1, <1>2, <1>3, Pointed DEF Shape, Pointers, Outside, Dead, InHandler, Early, Middle,
     Late, Registers, InActualWork, Counted
<1>6. ASSUME ~hit PROVE Registered' /\ Framed' /\ SeenFrame'
  <2>1. Registered /\ Framed /\ SeenFrame
    BY <1>6 DEF Inv
  <2>2. reg["rbp"][2] = trapSp - 23
    BY <1>1, <1>3, Pointed DEF Pointers, Late
  <2>3. stack[reg["rbp"][2] + 12] = Val("rax")
    <3>1. trapSp - 23 + 12 = trapSp - 22 + 11 /\ 11 \in 1..19
      BY <1>2
    <3>2. stack[trapSp - 22 + 11] = Frame(trapSp, flags[2])[11]
      BY <1>1, <2>1, <3>1 DEF Framed, Late
    <3> QED
      BY <2>2, <3>1, <3>2, FrameHolds
  <2>7. Registered'
    BY <1>1, <1>2, <1>3, <2>1, Pointed, <2>2, <2>3 DEF Shape, Pointers, Registered, Outside,
       Dead, InHandler, Early, Middle, Late, Registers
  <2>8. Framed'
    BY <1>1, <1>2, <1>3, <2>1, Pointed DEF Shape, Pointers, Framed, Outside, Dead,
       InHandler, Early, Middle, Late, Registers
  <2>9. SeenFrame'
    BY <1>1, <1>2, <1>3, <2>1 DEF SeenFrame
  <2> QED
    BY <2>7, <2>8, <2>9
<1> QED
  BY <1>1, <1>4, <1>5, <1>6 DEF Inv

\* %rbp points to where its own value is now.
LEMMA LeaRbpInv == ASSUME Inv, LeaRbp PROVE Inv'
<1>1. /\ at = "leaRbp" /\ at' = "leaveq" /\ UNCHANGED <<trapSp, hit, left, rsp, stack, flags, seen>>
      /\ reg' = [reg EXCEPT !["rbp"] = Ptr(reg["rbp"][2] + 21)]
  BY DEF LeaRbp, Base, Go, loader
<1>2. /\ trapSp \in Int /\ Words \subseteq Int
      /\ \A n \in Int : trapSp - 23 <= n /\ n <= trapSp => n \in Words
  BY Room DEF Inv
<1>3. Shape /\ Pointers
  BY DEF Inv
<1>4. Shape'
  BY <1>1, <1>3 DEF Shape
<1>5. Pointers'
  BY <1>1, <1>2, <1>3, Pointed DEF Shape, Pointers, Outside, Dead, InHandler, Early, Middle,
     Late, Registers, InActualWork, Counted
<1>6. ASSUME ~hit PROVE Registered' /\ Framed' /\ SeenFrame'
  <2>1. Registered /\ Framed /\ SeenFrame
    BY <1>6 DEF Inv
  <2>7. Registered'
    BY <1>1, <1>2, <1>3, <2>1, Pointed DEF Shape, Pointers, Registered, Outside, Dead,
       InHandler, Early, Middle, Late, Registers
  <2>8. Framed'
    BY <1>1, <1>2, <1>3, <2>1, Pointed DEF Shape, Pointers, Framed, Outside, Dead,
       InHandler, Early, Middle, Late, Registers
  <2>9. SeenFrame'
    BY <1>1, <1>2, <1>3, <2>1 DEF SeenFrame
  <2> QED
    BY <2>7, <2>8, <2>9
<1> QED
  BY <1>1, <1>4, <1>5, <1>6 DEF Inv

\* %rbp is loaded.
LEMMA LeaveqInv == ASSUME Inv, Leaveq PROVE Inv'
<1>1. /\ at = "leaveq" /\ at' = "retq" /\ UNCHANGED <<trapSp, hit, left, stack, flags, seen>>
      /\ rsp' = reg["rbp"][2] + 1
      /\ reg' = [reg EXCEPT !["rbp"] = stack[reg["rbp"][2] + 0]]
  BY DEF Leaveq, Word, Base, Go, loader
<1>2. /\ trapSp \in Int /\ Words \subseteq Int
      /\ \A n \in Int : trapSp - 23 <= n /\ n <= trapSp => n \in Words
  BY Room DEF Inv
<1>3. Shape /\ Pointers
  BY DEF Inv
<1>4. Shape'
  BY <1>1, <1>3 DEF Shape
<1>5. Pointers'
  BY <1>1, <1>2, <1>3, Pointed DEF Shape, Pointers, Outside, Dead, InHandler, Early, Middle,
     Late, Registers, InActualWork, Counted
<1>6. ASSUME ~hit PROVE Registered' /\ Framed' /\ SeenFrame'
  <2>1. Registered /\ Framed /\ SeenFrame
    BY <1>6 DEF Inv
  <2>2. reg["rbp"][2] = trapSp - 2
    BY <1>1, <1>3, Pointed DEF Pointers
  <2>3. stack[reg["rbp"][2] + 0] = Val("rbp")
    BY <1>1, <1>2, <2>1, <2>2 DEF Framed
  <2>7. Registered'
    BY <1>1, <1>2, <1>3, <2>1, Pointed, <2>3 DEF Shape, Pointers, Registered, Outside, Dead,
       InHandler, Early, Middle, Late, Registers
  <2>8. Framed'
    BY <1>1, <1>2, <1>3, <2>1, Pointed DEF Shape, Pointers, Framed, Outside, Dead,
       InHandler, Early, Middle, Late, Registers
  <2>9. SeenFrame'
    BY <1>1, <1>2, <1>3, <2>1 DEF SeenFrame
  <2> QED
    BY <2>7, <2>8, <2>9
<1> QED
  BY <1>1, <1>4, <1>5, <1>6 DEF Inv

\* The thread is back at its instruction, or nowhere.
LEMMA RetqInv == ASSUME Inv, Retq PROVE Inv'
<1>1. /\ at = "retq" /\ at' = (IF stack[rsp] = Val("rip") THEN "back" ELSE "wild")
      /\ UNCHANGED <<trapSp, hit, left, stack, reg, flags, seen>> /\ rsp' = rsp + 1
  BY DEF Retq, Go, loader
<1>2. /\ trapSp \in Int /\ Words \subseteq Int
      /\ \A n \in Int : trapSp - 23 <= n /\ n <= trapSp => n \in Words
  BY Room DEF Inv
<1>3. Shape /\ Pointers
  BY DEF Inv
<1>4. Shape'
  BY <1>1, <1>3 DEF Shape
<1>5. Pointers'
  BY <1>1, <1>2, <1>3, Pointed DEF Shape, Pointers, Outside, Dead, InHandler, Early, Middle,
     Late, Registers, InActualWork, Counted
<1>6. ASSUME ~hit PROVE Registered' /\ Framed' /\ SeenFrame'
  <2>1. Registered /\ Framed /\ SeenFrame
    BY <1>6 DEF Inv
  <2>7. Registered'
    BY <1>1, <1>2, <1>3, <2>1, Pointed DEF Shape, Pointers, Registered, Outside, Dead,
       InHandler, Early, Middle, Late, Registers
  <2>8. Framed'
    BY <1>1, <1>2, <1>3, <2>1, Pointed DEF Shape, Pointers, Framed, Outside, Dead,
       InHandler, Early, Middle, Late, Registers
  <2>9. SeenFrame'
    BY <1>1, <1>2, <1>3, <2>1 DEF SeenFrame
  <2> QED
    BY <2>7, <2>8, <2>9
<1> QED
  BY <1>1, <1>4, <1>5, <1>6 DEF Inv

\* An interrupt at a point where the code needs nothing below the stack pointer
\* does no harm; at another it is noted in hit.
LEMMA InterruptInv == ASSUME Inv, Interrupt PROVE Inv'
<1>1. /\ at \in InActualWork /\ hit' = (hit \/ at \in Exposed)
      /\ stack' = [w \in Words |-> IF w < rsp - (rsp % 2) THEN Lost ELSE stack[w]]
      /\ UNCHANGED <<at, left, reg, flags, rsp, trapSp, seen>>
  BY DEF Interrupt, Below
<1>2. /\ trapSp \in Int /\ Words \subseteq Int
      /\ \A n \in Int : trapSp - 23 <= n /\ n <= trapSp => n \in Words
  BY Room DEF Inv
<1>3. Shape /\ Pointers
  BY DEF Inv
<1>4. Shape' /\ Pointers'
  BY <1>1, <1>3 DEF Shape, Pointers
<1>5. ASSUME ~hit' PROVE Registered' /\ Framed' /\ SeenFrame'
  <2>1. ~hit /\ at \notin Exposed
    BY <1>1, <1>5, Zenon
  <2>2. Registered /\ Framed /\ SeenFrame
    BY <2>1 DEF Inv
  <2>3. Registered' /\ SeenFrame'
    BY <1>1, <2>2 DEF Registered, SeenFrame
  <2>4. rsp \in Int /\ rsp <= trapSp
    BY <1>1, <1>2, <1>3 DEF Pointers, Outside, Dead, InHandler, InActualWork, Counted,
       Middle, Late
  <2>5. \A w \in Words : w >= rsp => stack'[w] = stack[w]
    <3>1. rsp - (rsp % 2) <= rsp
      BY <2>4
    <3>2. ASSUME NEW w \in Words, w >= rsp PROVE ~(w < rsp - (rsp % 2))
      <4>1. w \in Int /\ rsp % 2 \in Int
        BY <1>2, <2>4
      <4> QED
        BY <2>4, <3>1, <3>2, <4>1
    <3> QED
      BY <1>1, <3>2
  <2>6. \A w \in Words : w >= trapSp => stack'[w] = <<"word", w>>
    <3>1. ASSUME NEW w \in Words, w >= trapSp PROVE w >= rsp
      BY <1>2, <2>4, <3>1
    <3> QED
      BY <2>2, <2>5, <3>1 DEF Framed
  <2>7. CASE at \in Early
    <3>1. rsp <= trapSp - 22 /\ (at # "push" => rsp = trapSp - 23)
      BY <1>2, <1>3, <2>7 DEF Pointers, Early
    <3>2. \A n \in Int : trapSp - 22 <= n /\ n <= trapSp - 1 => stack'[n] = stack[n]
      BY <1>2, <2>4, <2>5, <3>1
    <3>3. \A i \in 1..21 : stack'[trapSp - 22 + i] = stack[trapSp - 22 + i]
      BY <1>2, <3>2
    <3>4. at # "push" => stack'[trapSp - 23] = stack[trapSp - 23]
      BY <1>2, <2>5, <3>1
    <3>5. stack'[trapSp - 22] = stack[trapSp - 22]
      BY <1>2, <3>2
    <3> QED
      BY <1>1, <2>2, <2>3, <2>6, <2>7, <3>3, <3>4, <3>5 DEF Framed, Early, Middle, Late
  <2>8. CASE at \in Middle
    <3>1. rsp = trapSp - 23
      BY <1>3, <2>8 DEF Pointers
    <3>2. \A n \in Int : trapSp - 23 <= n /\ n <= trapSp - 1 => stack'[n] = stack[n]
      BY <1>2, <2>5, <3>1
    <3>3. \A i \in 1..19 : stack'[trapSp - 22 + i] = stack[trapSp - 22 + i]
      BY <1>2, <3>2
    <3>4. stack'[trapSp - 23] = stack[trapSp - 23] /\ stack'[trapSp - 22] = stack[trapSp - 22]
      BY <1>2, <3>2
    <3> QED
      BY <1>1, <2>2, <2>3, <2>6, <2>8, <3>3, <3>4 DEF Framed, Early, Middle, Late
  <2>9. CASE at \in {"leaRbp", "leaveq", "retq"}
    <3>1. rsp = trapSp - 1 \/ (rsp = trapSp - 2 /\ at # "retq")
      BY <1>3, <2>9 DEF Pointers, Late
    <3>2. stack'[trapSp - 1] = stack[trapSp - 1]
      BY <1>2, <2>5, <3>1
    <3>3. at # "retq" => stack'[trapSp - 2] = stack[trapSp - 2]
      <4>1. at # "retq" => rsp = trapSp - 2
        BY <1>3, <2>9 DEF Pointers, Late
      <4> QED
        BY <1>2, <2>5, <4>1
    <3> QED
      BY <1>1, <2>2, <2>3, <2>6, <2>9, <3>2, <3>3 DEF Framed, Early, Middle, Late
  <2> QED
    BY <1>1, <2>1, <2>7, <2>8, <2>9 DEF InActualWork, Counted, Exposed, Early, Middle
<1> QED
  BY <1>4, <1>5 DEF Inv
-----------------------------------------------------------------------------
(* The theorems *)

LEMMA InitInv == Init => Inv
<1> SUFFICES ASSUME Init PROVE Inv
  OBVIOUS
<1>1. Shape /\ Pointers
  BY DEF Init, Shape, Pointers, Outside, Dead, InHandler, InActualWork, Counted, Middle, Late
<1>2. Registered
  <2>1. flags = <<"flags", flags[2], "kept">>
    BY DEF Init
  <2> QED
    BY <2>1 DEF Init, Registered, Outside, Dead, InHandler, Middle, Late
<1>3. Framed /\ SeenFrame
  BY DEF Init, Framed, SeenFrame, Early, Middle, Late
<1> QED
  BY <1>1, <1>2, <1>3 DEF Inv

LEMMA InvHolds == Spec => []Inv
<1>1. ASSUME Inv, ActualWork PROVE Inv'
  BY <1>1, PushRbpInv, MovRbpInv, CallRealWorkInv, LoadSavedInv, LeaRspInv, PopfqInv,
     LoadRbpInv, StoreRbpInv, LoadRipInv, StoreRipInv, LoadRaxInv, LeaRbpInv, LeaveqInv,
     RetqInv, Zenon
  DEF ActualWork
<1>2. ASSUME Inv, UNCHANGED vars PROVE Inv'
  BY <1>2, FrozenStep DEF vars
<1>3. Inv /\ [Next]_vars => Inv'
  BY <1>1, <1>2, LoaderInv, KernelInv, PushFrameInv, InterruptInv, FreedCodeInv DEF Next
<1> QED
  BY <1>3, InitInv, PTL DEF Spec

\* int3_actual_work gives the thread back its registers, its flags, its stack pointer
\* and its stack, wherever interrupts come but where the frame is exposed.
THEOREM RestoredCorrect == Spec => []Restored
<1>1. Inv => Restored
  <2> SUFFICES ASSUME Inv, at \in {"retq", "back"}, ~hit
               PROVE  /\ \A r \in Registers : reg[r] = Val(r)
                      /\ flags[1] = "flags" /\ flags[3] = "kept"
                      /\ IF at = "back" THEN rsp = trapSp
                         ELSE rsp = trapSp - 1 /\ stack[rsp] = Val("rip")
                      /\ \A w \in Words : w >= trapSp => stack[w] = <<"word", w>>
    BY DEF Restored
  <2>1. Pointers /\ Registered /\ Framed
    BY DEF Inv
  <2>2. \A r \in Registers : reg[r] = Val(r)
    BY <2>1 DEF Registered, Outside
  <2>3. flags[1] = "flags" /\ flags[3] = "kept"
    <3>1. flags = <<"flags", flags[2], "kept">>
      BY <2>1 DEF Registered, Dead, Middle
    <3> QED
      BY <3>1
  <2>4. at = "back" => rsp = trapSp
    BY <2>1 DEF Pointers, Outside
  <2>5. at = "retq" => rsp = trapSp - 1 /\ stack[rsp] = Val("rip")
    BY <2>1 DEF Pointers, Framed
  <2> QED
    BY <2>1, <2>2, <2>3, <2>4, <2>5 DEF Framed
<1> QED
  BY <1>1, InvHolds, PTL

\* int3_real_work is given the registers of the trap, and a stack pointer that is too
\* low by the frame.
THEOREM SeesCorrect == Spec => []WorkSeesTrap
<1>1. Inv => WorkSeesTrap
  BY DEF Inv, SeenFrame, Frame, WorkSeesTrap
<1> QED
  BY <1>1, InvHolds, PTL

\* A call of swap_handler is part of init_drddr or exit_drddr.
Swapping == k # 0 => Hooking \/ Unhooking

LEMMA CountedHolds == Spec => [](CountedIn /\ Swapping)
<1>1. Init => CountedIn /\ Swapping
  BY DEF Init, CountedIn, Counted, Swapping
<1>2. CountedIn /\ Swapping /\ [Next]_vars => (CountedIn /\ Swapping)'
  <2> SUFFICES ASSUME CountedIn, Swapping, [Next]_vars PROVE (CountedIn /\ Swapping)'
    OBVIOUS
  <2>1. CASE InitModule \/ ExitModule \/ Free
    <3>1. mod \in {"out", "in", "gone"} /\ k' = k /\ at' = at
      BY <2>1 DEF InitModule, ExitModule, Free, Proceed
    <3>2. k = 0
      BY <3>1 DEF Swapping, Hooking, Unhooking
    <3>3. CountedIn'
      BY <2>1 DEF CountedIn, Counted, InitModule, ExitModule, Free, Proceed
    <3> QED
      BY <3>1, <3>2, <3>3 DEF Swapping
  <2>2. CASE SwapBegin \/ SwapByte
    BY <2>2 DEF CountedIn, Swapping, Hooking, Unhooking, SwapBegin, SwapByte
  <2>3. CASE SwapEnd
    <3>1. at \notin Counted
      BY <2>3 DEF SwapEnd, Swapping, Hooking, Unhooking, CountedIn
    <3> QED
      BY <2>3, <3>1 DEF SwapEnd, CountedIn, Swapping
  <2>4. CASE \/ OwnInt3 \/ ForeignInt3 \/ Debug \/ PassOn \/ DebugReturn \/ Refuse
             \/ PushFrame \/ ActualWork \/ Interrupt \/ FreedCode \/ Resume
    <3>1. UNCHANGED <<mod, k>>
      BY <2>4 DEF OwnInt3, ForeignInt3, Debug, Exception, PassOn, DebugReturn, Refuse,
         PushFrame, ActualWork, Interrupt, FreedCode, Resume, Go, loader, PushRbp, MovRbp,
         CallRealWork, LoadSaved, LeaRsp, Popfq, LoadRbp, StoreRbp, LoadRip, StoreRip,
         LoadRax, LeaRbp, Leaveq, Retq, Load, Store
    <3>2. at' \in Counted => at \in Counted \/ mod = "in"
      <4>1. CASE OwnInt3 \/ ForeignInt3 \/ Debug \/ PassOn \/ DebugReturn \/ Refuse \/ Resume
        BY <4>1 DEF OwnInt3, ForeignInt3, Debug, Exception, PassOn, DebugReturn, Refuse,
           Resume, Counted
      <4>2. CASE PushFrame \/ Interrupt \/ FreedCode
        BY <4>2 DEF PushFrame, Interrupt, FreedCode, Counted
      <4>3. CASE ActualWork
        BY <4>3 DEF ActualWork, Go, Counted, PushRbp, MovRbp, CallRealWork, LoadSaved,
           LeaRsp, Popfq, LoadRbp, StoreRbp, LoadRip, StoreRip, LoadRax, LeaRbp, Leaveq,
           Retq, Load, Store
      <4> QED
        BY <2>4, <4>1, <4>2, <4>3
    <3> QED
      BY <3>1, <3>2 DEF CountedIn, Swapping, Hooking, Unhooking
  <2>5. CASE UNCHANGED vars
    BY <2>5 DEF vars, loader, CountedIn, Swapping, Hooking, Unhooking
  <2> QED
    BY <2>1, <2>2, <2>3, <2>4, <2>5 DEF Next
<1> QED
  BY <1>1, <1>2, PTL DEF Spec

\* exit_drddr waits for the counted threads before it unhooks: none of them runs
\* freed code.
THEOREM FreedCorrect == Spec => FreedOnlyInTail
<1>1. CountedIn /\ [Next]_vars => [at' = "freed" => at \notin Counted]_vars
  <2> SUFFICES ASSUME CountedIn, Next, at' = "freed" PROVE at \notin Counted
    OBVIOUS
  <2>1. CASE at' = at
    BY <2>1 DEF Counted
  <2>2. CASE FreedCode
    BY <2>2 DEF FreedCode, CountedIn
  <2>3. CASE InitModule \/ ExitModule \/ Free \/ SwapBegin \/ SwapByte \/ SwapEnd \/ Interrupt
    BY <2>1, <2>3 DEF InitModule, ExitModule, Free, SwapBegin, SwapByte, SwapEnd, Interrupt,
       Proceed
  <2>4. CASE OwnInt3 \/ ForeignInt3 \/ Debug \/ PassOn \/ DebugReturn \/ Refuse \/ Resume
             \/ PushFrame
    BY <2>4 DEF OwnInt3, ForeignInt3, Debug, Exception, PassOn, DebugReturn, Refuse, Resume,
       PushFrame
  <2>5. CASE ActualWork
    BY <2>5 DEF ActualWork, Go, PushRbp, MovRbp, CallRealWork, LoadSaved, LeaRsp, Popfq,
       LoadRbp, StoreRbp, LoadRip, StoreRip, LoadRax, LeaRbp, Leaveq, Retq, Load, Store
  <2> QED
    BY <2>2, <2>3, <2>4, <2>5 DEF Next
<1> QED
  BY <1>1, CountedHolds, PTL DEF Spec, FreedOnlyInTail
-----------------------------------------------------------------------------
(* Numbers and their bytes *)

\* A number is its quotient and its remainder.
LEMMA Divide ==
  ASSUME NEW b \in Nat, b > 1, NEW n \in Nat
  PROVE  /\ n \div b \in Nat /\ n % b \in 0..(b - 1)
         /\ n = (n % b) + (b * (n \div b))
OBVIOUS

LEMMA DivideTwice ==
  ASSUME NEW b \in Nat, b > 0, NEW c \in Nat, c > 0, NEW n \in Nat
  PROVE  (n \div b) \div c = n \div (b * c)
OBVIOUS

LEMMA DivideBack ==
  ASSUME NEW b \in Nat, b > 0, NEW q \in Int, NEW r \in 0..(b - 1)
  PROVE  (r + (b * q)) \div b = q /\ (r + (b * q)) % b = r
OBVIOUS

LEMMA ModShift ==
  ASSUME NEW S \in Nat, S > 0, NEW x \in Int, NEW d \in Int
  PROVE  (x + (S * d)) % S = x % S
<1> DEFINE r == x % S
           q == x \div S
<1>1. r \in 0..(S - 1) /\ q \in Int /\ x = r + (S * q)
  OBVIOUS
<1> HIDE DEF r, q
<1>2. x + (S * d) = r + (S * (q + d)) /\ q + d \in Int
  BY <1>1
<1>3. (r + (S * (q + d))) % S = r
  BY <1>1, <1>2, DivideBack
<1> QED
  BY <1>2, <1>3 DEF r

LEMMA ModSmall ==
  ASSUME NEW S \in Nat, S > 0, NEW w \in 0..(S - 1)
  PROVE  w % S = w
OBVIOUS

\* Remainders may be taken before or after an addition.
LEMMA ModAdd ==
  ASSUME NEW S \in Nat, S > 0, NEW x \in Int, NEW y \in Int
  PROVE  ((x % S) + y) % S = (x + y) % S
<1>1. x % S \in Int /\ x \div S \in Int /\ x = (x % S) + (S * (x \div S))
  OBVIOUS
<1> DEFINE r == x % S
           q == x \div S
<1>2. r \in Int /\ q \in Int /\ x + y = (r + y) + (S * q)
  BY <1>1
<1> HIDE DEF r, q
<1> DEFINE z == r + y
<1>3. z \in Int
  BY <1>2
<1> HIDE DEF z
<1>4. (z + (S * q)) % S = z % S
  BY <1>2, <1>3, ModShift
<1> QED
  BY <1>2, <1>4 DEF r, z

LEMMA SpaceNat == Space \in Nat /\ Space > 0 /\ ByteBase \in Nat /\ ByteBase > 1
<1>1. ByteBase \in Nat /\ ByteBase > 1
  BY CodeAssumption
<1>2. ByteBase * ByteBase \in Nat /\ ByteBase * ByteBase > 0
  BY <1>1
<1>3. ByteBase * ByteBase * ByteBase \in Nat /\ ByteBase * ByteBase * ByteBase > 0
  BY <1>1, <1>2
<1> QED
  BY <1>1, <1>2, <1>3 DEF Space

\* The four bytes of a number make the number.
LEMMA BytesMake ==
  ASSUME NEW n \in 0..(Space - 1)
  PROVE  /\ \A i \in 0..3 : ByteOf(n, i) \in 0..(ByteBase - 1)
         /\ ByteOf(n, 0) + (ByteBase * (ByteOf(n, 1) + (ByteBase * (ByteOf(n, 2)
              + (ByteBase * ByteOf(n, 3)))))) = n
<1> DEFINE B == ByteBase
           q1 == n \div B
           q2 == q1 \div B
           q3 == q2 \div B
<1>1. B \in Nat /\ B > 1 /\ n \in Nat /\ Space = B * B * B * B /\ n < Space
  BY SpaceNat DEF Space
<1> HIDE DEF B
<1>2. q1 \in Nat /\ n % B \in 0..(B - 1) /\ n = (n % B) + (B * q1)
  BY <1>1, Divide
<1> HIDE DEF q1
<1>3. q2 \in Nat /\ q1 % B \in 0..(B - 1) /\ q1 = (q1 % B) + (B * q2)
  BY <1>1, <1>2, Divide
<1> HIDE DEF q2
<1>4. q3 \in Nat /\ q2 % B \in 0..(B - 1) /\ q2 = (q2 % B) + (B * q3)
  BY <1>1, <1>3, Divide
<1>5. B * B \in Nat /\ B * B > 0 /\ B * B * B \in Nat
  BY <1>1
<1>6. q2 = n \div (B * B)
  BY <1>1, <1>2, DivideTwice DEF q1, q2
<1>7. q3 = n \div (B * B * B)
  BY <1>1, <1>5, <1>6, DivideTwice DEF q3
<1> HIDE DEF q3
<1>8. q3 < B
  <2>1. q1 < B * B * B
    <3>1. B * q1 < B * (B * B * B)
      BY <1>1, <1>2, <1>5
    <3> QED
      BY <1>1, <1>2, <1>5, <3>1
  <2>2. q2 < B * B
    <3>1. B * q2 < B * (B * B)
      BY <1>1, <1>3, <1>5, <2>1
    <3> QED
      BY <1>1, <1>3, <1>5, <3>1
  <2>3. B * q3 < B * B
    BY <1>1, <1>4, <1>5, <2>2
  <2> QED
    BY <1>1, <1>4, <2>3
<1>9. q3 % B = q3
  BY <1>1, <1>4, <1>8
<1>10. /\ ByteOf(n, 0) = n % B /\ ByteOf(n, 1) = q1 % B
       /\ ByteOf(n, 2) = q2 % B /\ ByteOf(n, 3) = q3
  <2>1. n \div 1 = n
    BY <1>1
  <2> QED
    BY <2>1, <1>6, <1>7, <1>9 DEF ByteOf, Power, q1, B
<1>11. \A i \in 0..3 : ByteOf(n, i) \in 0..(B - 1)
  <2> SUFFICES ASSUME NEW i \in 0..3 PROVE ByteOf(n, i) \in 0..(B - 1)
    OBVIOUS
  <2>1. i = 0 \/ i = 1 \/ i = 2 \/ i = 3
    OBVIOUS
  <2> QED
    BY <1>1, <1>2, <1>3, <1>4, <1>8, <1>10, <2>1
<1> QED
  BY <1>2, <1>3, <1>4, <1>10, <1>11 DEF B

\* Four bytes are those of the number that they make.
LEMMA BytesFound ==
  ASSUME NEW bytes, NEW p \in Int, \A i \in 1..4 : bytes[p + i] \in 0..(ByteBase - 1)
  PROVE  /\ Offset(bytes, p) \in 0..(Space - 1)
         /\ \A i \in 1..4 : bytes[p + i] = ByteOf(Offset(bytes, p), i - 1)
<1> DEFINE B == ByteBase
           b0 == bytes[p + 1]
           b1 == bytes[p + 2]
           b2 == bytes[p + 3]
           b3 == bytes[p + 4]
           q2 == b2 + (B * b3)
           q1 == b1 + (B * q2)
           n == b0 + (B * q1)
<1>1. B \in Nat /\ B > 1 /\ Space = B * B * B * B
      /\ b0 \in 0..(B - 1) /\ b1 \in 0..(B - 1) /\ b2 \in 0..(B - 1) /\ b3 \in 0..(B - 1)
  BY SpaceNat DEF Space
<1>13. n = Offset(bytes, p)
  BY DEF Offset
<1> HIDE DEF B, b0, b1, b2, b3
<1>2. B * B \in Nat /\ B * B > 0 /\ B * B * B \in Nat
  BY <1>1
<1>3. q2 \in Nat /\ q2 \div B = b3 /\ q2 % B = b2
  BY <1>1, DivideBack
<1>4. q2 < B * B
  <2>1. B * b3 <= B * (B - 1)
    BY <1>1
  <2> QED
    BY <1>1, <1>2, <2>1
<1> HIDE DEF q2
<1>5. q1 \in Nat /\ q1 \div B = q2 /\ q1 % B = b1
  BY <1>1, <1>3, DivideBack
<1>6. q1 < B * B * B
  <2>1. B * q2 <= B * (B * B - 1)
    BY <1>1, <1>2, <1>3, <1>4
  <2> QED
    BY <1>1, <1>2, <1>3, <2>1
<1> HIDE DEF q1
<1>7. n \in Nat /\ n \div B = q1 /\ n % B = b0
  BY <1>1, <1>5, DivideBack
<1>8. n < B * B * B * B
  <2>1. B * q1 <= B * (B * B * B - 1)
    BY <1>1, <1>2, <1>5, <1>6
  <2> QED
    BY <1>1, <1>2, <1>5, <2>1
<1> HIDE DEF n
<1>9. n \div (B * B) = q2
  <2>1. (n \div B) \div B = n \div (B * B)
    BY <1>1, <1>7, DivideTwice
  <2> QED
    BY <1>5, <1>7, <2>1
<1>10. n \div (B * B * B) = b3
  BY <1>1, <1>2, <1>3, <1>7, <1>9, DivideTwice
<1>11. b3 % B = b3 /\ n \div 1 = n
  BY <1>1, <1>7
<1>12. ByteOf(n, 0) = b0 /\ ByteOf(n, 1) = b1 /\ ByteOf(n, 2) = b2 /\ ByteOf(n, 3) = b3
  BY <1>3, <1>5, <1>7, <1>9, <1>10, <1>11 DEF ByteOf, Power, B
<1>14. \A i \in 1..4 : bytes[p + i] = ByteOf(n, i - 1)
  <2> SUFFICES ASSUME NEW i \in 1..4 PROVE bytes[p + i] = ByteOf(n, i - 1)
    OBVIOUS
  <2>1. i = 1 \/ i = 2 \/ i = 3 \/ i = 4
    OBVIOUS
  <2> QED
    BY <1>12, <2>1 DEF b0, b1, b2, b3
<1>15. n \in 0..(Space - 1)
  BY <1>1, <1>7, <1>8
<1> QED
  BY <1>13, <1>14, <1>15

\* The offset that makes the call of v go to w, and back.
OffsetTo(v, w) == (w - Call[v] - 5) % Space

LEMMA CallInt == \A v \in Vectors : Call[v] \in Int /\ Gate[v] \in Int
BY CodeAssumption

LEMMA OffsetGoesTo ==
  ASSUME NEW v \in Vectors, NEW w \in 0..(Space - 1)
  PROVE  OffsetTo(v, w) \in 0..(Space - 1) /\ (OffsetTo(v, w) + Call[v] + 5) % Space = w
<1>1. Call[v] \in Int /\ Space \in Nat /\ Space > 0 /\ w \in Int
  BY CallInt, SpaceNat
<1> DEFINE x == w - Call[v] - 5
           y == Call[v] + 5
<1>2. x \in Int /\ y \in Int /\ x + y = w
  BY <1>1
<1>3. x % Space \in 0..(Space - 1)
  BY <1>1, <1>2
<1> HIDE DEF x, y
<1>4. ((x % Space) + y) % Space = (x + y) % Space
  BY <1>1, <1>2, ModAdd
<1>5. w % Space = w
  BY <1>1, ModSmall
<1>6. (x % Space) + y = (x % Space) + Call[v] + 5
  BY <1>1, <1>3 DEF y
<1> QED
  BY <1>2, <1>3, <1>4, <1>5, <1>6 DEF OffsetTo, x

LEMMA OffsetComesBack ==
  ASSUME NEW v \in Vectors, NEW o \in 0..(Space - 1)
  PROVE  OffsetTo(v, (o + Call[v] + 5) % Space) = o
<1>1. Call[v] \in Int /\ Space \in Nat /\ Space > 0 /\ o \in Int
  BY CallInt, SpaceNat
<1> DEFINE x == o + Call[v] + 5
           y == -(Call[v] + 5)
<1>2. x \in Int /\ y \in Int /\ x + y = o
  BY <1>1
<1>3. x % Space \in Int
  BY <1>1, <1>2
<1> HIDE DEF x, y
<1>4. ((x % Space) + y) % Space = (x + y) % Space
  BY <1>1, <1>2, ModAdd
<1>5. o % Space = o
  BY <1>1, ModSmall
<1>6. (x % Space) + y = (x % Space) - Call[v] - 5
  BY <1>1, <1>3 DEF y
<1> QED
  BY <1>2, <1>4, <1>5, <1>6 DEF OffsetTo, x

\* The kernel's bytes are those of the offset to the kernel's handler.
LEMMA OriginalBytes ==
  ASSUME NEW v \in Vectors
  PROVE  \A i \in 1..4 : Original[Call[v] + i] = ByteOf(OffsetTo(v, Kernel[v]), i - 1)
<1> DEFINE p == Call[v]
<1>1. \A i \in 1..4 : p + i \in Text /\ Original[p + i] \in 0..(ByteBase - 1)
  <2>1. (p + 1)..(p + 4) \subseteq Text
    BY LayoutAssumption
  <2>2. \A i \in 1..4 : p + i \in (p + 1)..(p + 4)
    BY CallInt
  <2> QED
    BY <2>1, <2>2, CodeAssumption
<1>2. p \in Int
  BY CallInt
<1>3. /\ Offset(Original, p) \in 0..(Space - 1)
      /\ \A i \in 1..4 : Original[p + i] = ByteOf(Offset(Original, p), i - 1)
  BY <1>1, <1>2, BytesFound
<1>4. Kernel[v] = (Offset(Original, p) + p + 5) % Space
  BY LayoutAssumption DEF Target
<1>5. OffsetTo(v, Kernel[v]) = Offset(Original, p)
  BY <1>3, <1>4, OffsetComesBack
<1> QED
  BY <1>3, <1>5

\* A call with the bytes of the offset to w goes to w.
LEMMA BytesGoTo ==
  ASSUME NEW v \in Vectors, NEW w \in 0..(Space - 1), NEW bytes,
         \A i \in 1..4 : bytes[Call[v] + i] = ByteOf(OffsetTo(v, w), i - 1)
  PROVE  Target(bytes, Call[v]) = w
<1> DEFINE p == Call[v]
           n == OffsetTo(v, w)
<1>1. n \in 0..(Space - 1) /\ (n + p + 5) % Space = w
  BY OffsetGoesTo
<1>2. /\ bytes[p + 1] = ByteOf(n, 0) /\ bytes[p + 2] = ByteOf(n, 1)
      /\ bytes[p + 3] = ByteOf(n, 2) /\ bytes[p + 4] = ByteOf(n, 3)
  <2>1. \A i \in 1..4 : bytes[p + i] = ByteOf(n, i - 1)
    OBVIOUS
  <2> QED
    BY <2>1
<1> HIDE DEF n
<1>3. ByteOf(n, 0) + (ByteBase * (ByteOf(n, 1) + (ByteBase * (ByteOf(n, 2)
              + (ByteBase * ByteOf(n, 3)))))) = n
  BY <1>1, BytesMake
<1>4. Offset(bytes, p) = n
  BY <1>2, <1>3 DEF Offset
<1> QED
  BY <1>1, <1>4 DEF Target
-----------------------------------------------------------------------------
(* swap_handler *)

\* Whether the i-th byte after the call of v is the module's.
HookOf(v)   == IF v = "int3" THEN "hookInt3" ELSE "hookDebug"
UnhookOf(v) == IF v = "int3" THEN "unhookInt3" ELSE "unhookDebug"
Before(v)   == IF v = "int3" THEN {"out", "hookInt3"} ELSE {"out", "hookInt3", "hookDebug"}
Between(v)  == IF v = "int3" THEN {"hookDebug", "in", "unhookDebug"} ELSE {"in"}
Redirected(v, i) ==
  \/ mod = HookOf(v) /\ i < k
  \/ mod = UnhookOf(v) /\ i >= k
  \/ mod \in Between(v)

\* The bytes of the two calls go to the module or to the kernel, all others are
\* the kernel's.
Patched ==
  /\ code \in [Text -> 0..(ByteBase - 1)]
  /\ \A v \in Vectors, i \in 1..4 :
       code[Call[v] + i] = ByteOf(OffsetTo(v, IF Redirected(v, i) THEN Ours[v] ELSE Kernel[v]), i - 1)
  /\ \A a \in Text : (\A v \in Vectors, i \in 1..4 : a # Call[v] + i) => code[a] = Original[a]

\* The old handlers are known as soon as they are replaced.
Known == /\ old \in [Vectors -> (0..(Space - 1)) \cup {Unset}]
         /\ \A v \in Vectors : mod \notin Before(v) => old[v] = Kernel[v]

\* What swap_handler has computed.
Computed ==
  /\ mod \in Mods /\ k \in 0..5
  /\ k = 0 => rw = {}
  /\ k # 0 => /\ Hooking \/ Unhooking
              /\ site = Call[Vector] /\ offset = OffsetTo(Vector, Wanted)
              /\ rw = {Page(site + 1), Page(site + 4)}
              /\ Hooking => orig = Kernel[Vector]

SwapInv == Patched /\ Known /\ Computed

\* An int3 gets to int3_drddr only when its handler has been patched.
ForeignIn == at = "foreign" => mod # "out"

\* The place of a byte says whose it is and which.
LEMMA PlacesApart ==
  ASSUME NEW v \in Vectors, NEW i \in 1..4, NEW w \in Vectors, NEW j \in 1..4,
         Call[v] + i = Call[w] + j
  PROVE  v = w /\ i = j
<1>1. ASSUME v # w PROVE FALSE
  <2>1. Span(v) \cap Span(w) = {}
    BY <1>1, LayoutAssumption DEF Vectors
  <2>2. \A u \in Vectors : Gate[u] <= Call[u]
    <3> SUFFICES ASSUME NEW u \in Vectors PROVE Gate[u] <= Call[u]
      OBVIOUS
    <3>1. PICK first \in Text : \A a \in Text :
            Gate[u] <= a /\ a < Call[u] /\ Original[a] = CallOp <=> a = first
      BY LayoutAssumption
    <3> QED
      BY <3>1, CallInt, CodeAssumption
  <2>3. Call[v] + i \in Span(v) /\ Call[w] + j \in Span(w)
    BY <2>2, CallInt DEF Span
  <2> QED
    BY <2>1, <2>3
<1> QED
  BY <1>1, CallInt

\* The search finds the call that it is meant to find, whatever bytes it has
\* written before.
LEMMA CallSiteFound ==
  ASSUME Patched, NEW v \in Vectors
  PROVE  CallSite(v) = Call[v]
<1>1. PICK first \in Text : \A a \in Text :
        Gate[v] <= a /\ a < Call[v] /\ Original[a] = CallOp <=> a = first
  BY LayoutAssumption
<1>2. /\ \A a \in Text : a \in Int
      /\ Call[v] \in Text /\ Gate[v] \in Text /\ Call[v] \in Int /\ Gate[v] \in Int
      /\ Original[Call[v]] = CallOp
  BY CodeAssumption, LayoutAssumption
<1>3. Gate[v] <= first /\ first < Call[v]
  BY <1>1
<1>4. \A a \in Text : Gate[v] <= a /\ a <= Call[v] => code[a] = Original[a]
  <2> SUFFICES ASSUME NEW a \in Text, Gate[v] <= a, a <= Call[v],
                      NEW w \in Vectors, NEW i \in 1..4, a = Call[w] + i
               PROVE  FALSE
    BY DEF Patched
  <2>1. v # w
    BY <1>2
  <2>2. Span(v) \cap Span(w) = {}
    BY <2>1, LayoutAssumption DEF Vectors
  <2>3. a \in Span(v)
    BY <1>2 DEF Span
  <2>4. Gate[w] <= Call[w]
    <3>1. PICK one \in Text : \A b \in Text :
            Gate[w] <= b /\ b < Call[w] /\ Original[b] = CallOp <=> b = one
      BY LayoutAssumption
    <3> QED
      BY <3>1, CallInt, CodeAssumption
  <2>5. a \in Span(w)
    BY <2>4, CallInt DEF Span
  <2> QED
    BY <2>2, <2>3, <2>5
<1> DEFINE calls == {a \in Text : a >= Gate[v] /\ code[a] = CallOp}
<1>5. first \in calls /\ Call[v] \in calls
  BY <1>1, <1>2, <1>3, <1>4
<1>6. \A a \in calls : a = first \/ Call[v] <= a
  <2> SUFFICES ASSUME NEW a \in Text, Gate[v] <= a, code[a] = CallOp, ~(Call[v] <= a)
               PROVE  a = first
    BY <1>2
  <2>1. Original[a] = CallOp /\ a < Call[v]
    BY <1>2, <1>4
  <2> QED
    BY <1>1, <2>1
<1>7. \A a \in calls : first <= a
  <2> SUFFICES ASSUME NEW a \in calls PROVE first <= a
    OBVIOUS
  <2>1. first \in Int /\ a \in Int
    BY <1>2
  <2>2. CASE a = first
    BY <2>1, <2>2
  <2>3. CASE Call[v] <= a
    BY <1>2, <1>3, <2>1, <2>3
  <2> QED
    BY <1>6, <2>2, <2>3
<1>8. FirstOf(calls) = first
  <2>1. FirstOf(calls) \in calls /\ \A b \in calls : FirstOf(calls) <= b
    BY <1>5, <1>7 DEF FirstOf
  <2> QED
    <3>1. FirstOf(calls) \in Int /\ first \in Int
      BY <1>2, <2>1
    <3>2. FirstOf(calls) <= first /\ first <= FirstOf(calls)
      BY <1>5, <1>7, <2>1
    <3> QED
      BY <3>1, <3>2
<1>9. Call[v] \in calls \ {first} /\ \A a \in calls \ {first} : Call[v] <= a
  BY <1>2, <1>3, <1>5, <1>6
<1>10. FirstOf(calls \ {first}) = Call[v]
  <2>1. /\ FirstOf(calls \ {first}) \in calls \ {first}
        /\ \A b \in calls \ {first} : FirstOf(calls \ {first}) <= b
    BY <1>9 DEF FirstOf
  <2> QED
    <3>1. FirstOf(calls \ {first}) \in Int
      BY <1>2, <2>1
    <3>2. FirstOf(calls \ {first}) <= Call[v] /\ Call[v] <= FirstOf(calls \ {first})
      BY <1>9, <2>1
    <3> QED
      BY <1>2, <3>1, <3>2
<1> QED
  BY <1>8, <1>10 DEF CallSite

LEMMA Handlers == \A v \in Vectors : Kernel[v] \in 0..(Space - 1) /\ Ours[v] \in 0..(Space - 1)
BY CodeAssumption

\* Where a call goes.
LEMMA CallGoes ==
  ASSUME Patched, NEW v \in Vectors
  PROVE  /\ (\A i \in 1..4 : Redirected(v, i)) => CallTarget(Call[v]) = Ours[v]
         /\ (\A i \in 1..4 : ~Redirected(v, i)) => CallTarget(Call[v]) = Kernel[v]
<1>1. ASSUME \A i \in 1..4 : Redirected(v, i) PROVE CallTarget(Call[v]) = Ours[v]
  <2>1. \A i \in 1..4 : code[Call[v] + i] = ByteOf(OffsetTo(v, Ours[v]), i - 1)
    BY <1>1 DEF Patched
  <2> QED
    BY <2>1, BytesGoTo, Handlers DEF CallTarget
<1>2. ASSUME \A i \in 1..4 : ~Redirected(v, i) PROVE CallTarget(Call[v]) = Kernel[v]
  <2>1. \A i \in 1..4 : code[Call[v] + i] = ByteOf(OffsetTo(v, Kernel[v]), i - 1)
    BY <1>2 DEF Patched
  <2> QED
    BY <2>1, BytesGoTo, Handlers DEF CallTarget
<1> QED
  BY <1>1, <1>2

LEMMA SwapInit == Init => SwapInv /\ ForeignIn
<1> SUFFICES ASSUME Init PROVE SwapInv /\ ForeignIn
  OBVIOUS
<1>1. \A v \in Vectors, i \in 1..4 : ~Redirected(v, i)
  BY DEF Init, Redirected, HookOf, UnhookOf, Between
<1>2. Patched
  BY <1>1, CodeAssumption, OriginalBytes DEF Init, Patched
<1>3. Known
  BY DEF Init, Known, Before
<1>4. Computed
  BY DEF Init, Computed, Mods
<1>5. ForeignIn
  BY DEF Init, ForeignIn
<1> QED
  BY <1>2, <1>3, <1>4, <1>5 DEF SwapInv

\* What keeps the code and does not change whose bytes are where.
LEMMA PatchedFrame ==
  ASSUME Patched, code' = code, \A v \in Vectors, i \in 1..4 : Redirected(v, i)' <=> Redirected(v, i)
  PROVE  Patched'
BY DEF Patched

\* swap_handler is called by init_drddr and exit_drddr only.
LEMMA ProceedSwap ==
  ASSUME SwapInv, InitModule \/ ExitModule \/ Free
  PROVE  SwapInv'
<1>1. /\ \/ mod = "out" /\ mod' = "hookInt3"
         \/ mod = "in" /\ mod' = "unhookDebug"
         \/ mod = "gone" /\ mod' = "freed"
      /\ UNCHANGED <<code, old, k, site, orig, offset, rw>>
  <2>1. CASE InitModule
    BY <2>1 DEF InitModule, Proceed
  <2>2. CASE ExitModule
    BY <2>2 DEF ExitModule, Proceed
  <2>3. CASE Free
    BY <2>3 DEF Free, Proceed
  <2> QED
    BY <2>1, <2>2, <2>3
<1>2. k = 0
  BY <1>1 DEF SwapInv, Computed, Hooking, Unhooking
<1>3. \A v \in Vectors, i \in 1..4 : Redirected(v, i)' <=> Redirected(v, i)
  BY <1>1, <1>2 DEF Redirected, HookOf, UnhookOf, Between, Vectors
<1>4. Patched'
  BY <1>1, <1>3, PatchedFrame DEF SwapInv
<1>5. Known'
  BY <1>1 DEF SwapInv, Known, Before
<1>6. Computed'
  BY <1>1, <1>2 DEF SwapInv, Computed, Mods
<1> QED
  BY <1>4, <1>5, <1>6 DEF SwapInv

LEMMA VectorIn == Vector \in Vectors
BY DEF Vector, Vectors

\* The call is found, and where it goes to is the kernel's handler on the way in.
LEMMA SwapBeginSwap == ASSUME SwapInv, SwapBegin PROVE SwapInv'
<1>1. /\ Hooking \/ Unhooking
      /\ k = 0 /\ k' = 1 /\ site' = CallSite(Vector) /\ orig' = CallTarget(site')
      /\ offset' = (Wanted - site' - 5) % Space
      /\ rw' = rw \cup {Page(site' + 1), Page(site' + 4)}
      /\ UNCHANGED <<code, old, mod>>
  BY DEF SwapBegin
<1>2. site' = Call[Vector]
  BY <1>1, VectorIn, CallSiteFound DEF SwapInv
<1>3. \A v \in Vectors, i \in 1..4 : Redirected(v, i)' <=> Redirected(v, i)
  BY <1>1 DEF Redirected
<1>4. Patched'
  BY <1>1, <1>3, PatchedFrame DEF SwapInv
<1>5. Known'
  BY <1>1 DEF SwapInv, Known
<1>6. Hooking => orig' = Kernel[Vector]
  <2>1. Hooking => \A i \in 1..4 : ~Redirected(Vector, i)
    BY <1>1 DEF Hooking, Vector, Redirected, HookOf, UnhookOf, Between
  <2> QED
    BY <1>1, <1>2, <2>1, VectorIn, CallGoes DEF SwapInv
<1>7. rw' = {Page(site' + 1), Page(site' + 4)}
  BY <1>1 DEF SwapInv, Computed
<1>8. Hooking' = Hooking /\ Unhooking' = Unhooking /\ Vector' = Vector /\ Wanted' = Wanted
  BY <1>1 DEF Hooking, Unhooking, Vector, Wanted
<1>9. offset' = OffsetTo(Vector, Wanted)
  BY <1>1, <1>2 DEF OffsetTo
<1>10. Computed'
  BY <1>1, <1>2, <1>6, <1>7, <1>8, <1>9 DEF SwapInv, Computed, OffsetTo, Page
<1> QED
  BY <1>4, <1>5, <1>10 DEF SwapInv

\* What is wanted: the module's handler, or the kernel's, which is known by then.
LEMMA WantedIs ==
  ASSUME SwapInv, Hooking \/ Unhooking
  PROVE  Wanted = IF Hooking THEN Ours[Vector] ELSE Kernel[Vector]
<1>1. Unhooking => mod \notin Before(Vector)
  BY DEF Unhooking, Vector, Before
<1> QED
  BY <1>1, VectorIn DEF Wanted, SwapInv, Known

\* One byte is exchanged.
LEMMA SwapByteSwap == ASSUME SwapInv, SwapByte PROVE SwapInv'
<1>1. /\ k \in 1..4 /\ k' = k + 1 /\ code' = [code EXCEPT ![site + k] = ByteOf(offset, k - 1)]
      /\ UNCHANGED <<old, mod, site, orig, offset, rw>>
  BY DEF SwapByte
<1>2. /\ Hooking \/ Unhooking
      /\ site = Call[Vector] /\ offset = OffsetTo(Vector, Wanted)
  BY <1>1 DEF SwapInv, Computed
<1>3. Vector \in Vectors
  BY VectorIn
<1> DEFINE w == IF Hooking THEN Ours[Vector] ELSE Kernel[Vector]
<1>4. Wanted = w /\ w \in 0..(Space - 1)
  BY <1>2, <1>3, WantedIs, Handlers
<1>5. \A v \in Vectors, i \in 1..4 :
        Redirected(v, i)' <=> IF v = Vector /\ i = k THEN Hooking ELSE Redirected(v, i)
  <2> SUFFICES ASSUME NEW v \in Vectors, NEW i \in 1..4
               PROVE  Redirected(v, i)' <=> IF v = Vector /\ i = k THEN Hooking ELSE Redirected(v, i)
    OBVIOUS
  <2>1. CASE v = Vector
    <3>1. mod = HookOf(v) <=> Hooking
      BY <1>2, <2>1 DEF Hooking, Unhooking, Vector, HookOf
    <3>2. mod = UnhookOf(v) <=> Unhooking
      BY <1>2, <2>1 DEF Hooking, Unhooking, Vector, UnhookOf
    <3>3. ~(Hooking /\ Unhooking) /\ mod \notin Between(v)
      BY <1>2, <2>1 DEF Hooking, Unhooking, Vector, Between
    <3>4. Redirected(v, i) <=> (Hooking /\ i < k) \/ (Unhooking /\ i >= k)
      BY <3>1, <3>2, <3>3 DEF Redirected
    <3>5. Redirected(v, i)' <=> (Hooking /\ i < k + 1) \/ (Unhooking /\ i >= k + 1)
      BY <1>1, <3>1, <3>2, <3>3 DEF Redirected
    <3>6. i = k \/ (i # k /\ (i < k + 1 <=> i < k) /\ (i >= k + 1 <=> i >= k))
      BY <1>1
    <3> QED
      BY <1>1, <1>2, <2>1, <3>3, <3>4, <3>5, <3>6
  <2>2. CASE v # Vector
    <3>1. mod # HookOf(v) /\ mod # UnhookOf(v)
      BY <1>2, <2>2 DEF Hooking, Unhooking, Vector, Vectors, HookOf, UnhookOf
    <3> QED
      BY <1>1, <2>2, <3>1 DEF Redirected
  <2> QED
    BY <2>1, <2>2
<1>6. OffsetTo(Vector, w) \in 0..(Space - 1)
  BY <1>3, <1>4, OffsetGoesTo
<1>7. ByteOf(offset, k - 1) \in 0..(ByteBase - 1)
  <2>1. k - 1 \in 0..3
    BY <1>1
  <2> QED
    BY <1>2, <1>4, <1>6, <2>1, BytesMake
<1>8. \A a \in Text : code'[a] = IF a = Call[Vector] + k THEN ByteOf(offset, k - 1) ELSE code[a]
  BY <1>1, <1>2 DEF SwapInv, Patched
<1>9. code' \in [Text -> 0..(ByteBase - 1)]
  BY <1>1, <1>7 DEF SwapInv, Patched
<1>10. \A v \in Vectors, i \in 1..4 : Call[v] + i \in Text
  <2> SUFFICES ASSUME NEW v \in Vectors, NEW i \in 1..4 PROVE Call[v] + i \in Text
    OBVIOUS
  <2>1. Call[v] + i \in (Call[v] + 1)..(Call[v] + 4)
    BY CallInt
  <2> QED
    BY <2>1, LayoutAssumption
<1>11. \A v \in Vectors, i \in 1..4 :
        code'[Call[v] + i] =
          ByteOf(OffsetTo(v, IF Redirected(v, i)' THEN Ours[v] ELSE Kernel[v]), i - 1)
  <2> SUFFICES ASSUME NEW v \in Vectors, NEW i \in 1..4
               PROVE  code'[Call[v] + i] =
                        ByteOf(OffsetTo(v, IF Redirected(v, i)' THEN Ours[v] ELSE Kernel[v]), i - 1)
    OBVIOUS
  <2>1. CASE v = Vector /\ i = k
    <3>1. code'[Call[v] + i] = ByteOf(OffsetTo(v, w), i - 1)
      BY <1>2, <1>4, <1>8, <1>10, <2>1
    <3>2. Redirected(v, i)' <=> Hooking
      BY <1>5, <2>1
    <3> QED
      BY <2>1, <3>1, <3>2
  <2>2. CASE ~(v = Vector /\ i = k)
    <3>1. Call[v] + i # Call[Vector] + k
      BY <1>1, <1>3, <2>2, PlacesApart
    <3>2. code'[Call[v] + i] = code[Call[v] + i]
      BY <1>8, <1>10, <3>1
    <3>3. Redirected(v, i)' <=> Redirected(v, i)
      BY <1>5, <2>2
    <3> QED
      BY <3>2, <3>3 DEF SwapInv, Patched
  <2> QED
    BY <2>1, <2>2
<1>12. \A a \in Text : (\A v \in Vectors, i \in 1..4 : a # Call[v] + i) => code'[a] = Original[a]
  BY <1>1, <1>3, <1>8 DEF SwapInv, Patched
<1>13. Patched'
  BY <1>9, <1>11, <1>12 DEF Patched
<1>14. Known'
  BY <1>1 DEF SwapInv, Known
<1>15. Computed'
  <2>1. Hooking' = Hooking /\ Unhooking' = Unhooking /\ Vector' = Vector /\ Wanted' = Wanted
    BY <1>1 DEF Hooking, Unhooking, Vector, Wanted
  <2>2. k' \in 0..5 /\ k' # 0 /\ k # 0
    BY <1>1
  <2> QED
    BY <1>1, <2>1, <2>2 DEF SwapInv, Computed, OffsetTo, Page
<1> QED
  BY <1>13, <1>14, <1>15 DEF SwapInv

\* The pages are closed, and init_drddr has the old handler.
LEMMA SwapEndSwap == ASSUME SwapInv, SwapEnd PROVE SwapInv'
<1>1. /\ k = 5 /\ k' = 0 /\ rw' = rw \ {Page(site + 1), Page(site + 4)}
      /\ old' = IF Hooking THEN [old EXCEPT ![Vector] = orig] ELSE old
      /\ mod' = NextMod /\ UNCHANGED <<code, site, orig, offset>>
  BY DEF SwapEnd
<1>2. /\ Hooking \/ Unhooking
      /\ rw = {Page(site + 1), Page(site + 4)}
      /\ Hooking => orig = Kernel[Vector]
  BY <1>1 DEF SwapInv, Computed
<1>3. \/ mod = "hookInt3" /\ mod' = "hookDebug"
      \/ mod = "hookDebug" /\ mod' = "in"
      \/ mod = "unhookDebug" /\ mod' = "unhookInt3"
      \/ mod = "unhookInt3" /\ mod' = "gone"
  <2>1. /\ mod = "hookInt3" => NextMod = "hookDebug"
        /\ mod = "hookDebug" => NextMod = "in"
        /\ mod = "unhookDebug" => NextMod = "unhookInt3"
        /\ mod = "unhookInt3" => NextMod = "gone"
    BY DEF NextMod
  <2> QED
    BY <1>1, <1>2, <2>1 DEF Hooking, Unhooking
<1>4. \A v \in Vectors, i \in 1..4 : Redirected(v, i)' <=> Redirected(v, i)
  <2>1. \A i \in 1..4 : i < 5 /\ ~(i >= 5) /\ ~(i < 0) /\ i >= 0
    OBVIOUS
  <2> QED
    BY <1>1, <1>3, <2>1 DEF Redirected, HookOf, UnhookOf, Between, Vectors
<1>5. Patched'
  BY <1>1, <1>4, PatchedFrame DEF SwapInv
<1>6. Known'
  <2>1. CASE Hooking
    <3>1. old' = [old EXCEPT ![Vector] = Kernel[Vector]]
      BY <1>1, <1>2, <2>1
    <3>2. old' \in [Vectors -> (0..(Space - 1)) \cup {Unset}]
      BY <3>1, VectorIn, Handlers DEF SwapInv, Known
    <3>3. \A v \in Vectors : mod' \notin Before(v) => v = Vector \/ mod \notin Before(v)
      BY <1>3, <2>1 DEF Hooking, Before, Vector, Vectors
    <3> QED
      BY <3>1, <3>2, <3>3 DEF SwapInv, Known, Before
  <2>2. CASE ~Hooking
    <3>1. old' = old /\ \A v \in Vectors : mod \notin Before(v)
      BY <1>1, <1>3, <2>2 DEF Hooking, Before
    <3> QED
      BY <3>1 DEF SwapInv, Known, Before
  <2> QED
    BY <2>1, <2>2
<1>7. Computed'
  BY <1>1, <1>2, <1>3 DEF SwapInv, Computed, Mods
<1> QED
  BY <1>5, <1>6, <1>7 DEF SwapInv

\* The CPU does not touch what the loader works on.
LEMMA CpuFrame ==
  ASSUME \/ OwnInt3 \/ ForeignInt3 \/ Debug \/ PassOn \/ DebugReturn \/ Refuse
         \/ PushFrame \/ ActualWork \/ Interrupt \/ FreedCode \/ Resume
  PROVE  UNCHANGED loader
<1>1. CASE OwnInt3 \/ ForeignInt3 \/ Debug \/ PassOn \/ DebugReturn \/ Refuse \/ PushFrame
             \/ Interrupt \/ FreedCode \/ Resume
  BY <1>1 DEF OwnInt3, ForeignInt3, Debug, Exception, PassOn, DebugReturn, Refuse, PushFrame,
     Interrupt, FreedCode, Resume
<1>2. CASE ActualWork
  BY <1>2 DEF ActualWork, Go, PushRbp, MovRbp, CallRealWork, LoadSaved, LeaRsp, Popfq,
     LoadRbp, StoreRbp, LoadRip, StoreRip, LoadRax, LeaRbp, Leaveq, Retq, Load, Store
<1> QED
  BY <1>1, <1>2

LEMMA LoaderFrame ==
  ASSUME UNCHANGED loader, SwapInv
  PROVE  SwapInv'
<1>1. UNCHANGED <<code, old, mod, k, site, orig, offset, rw>>
  BY DEF loader
<1>2. Patched'
  BY <1>1, PatchedFrame DEF SwapInv, Redirected
<1>3. Known' /\ Computed'
  BY <1>1 DEF SwapInv, Known, Computed, Hooking, Unhooking, Vector, Wanted, OffsetTo, Page
<1> QED
  BY <1>2, <1>3 DEF SwapInv

LEMMA SwapNext == ASSUME SwapInv, [Next]_vars PROVE SwapInv'
<1>1. CASE UNCHANGED loader
  BY <1>1, LoaderFrame
<1>2. CASE InitModule \/ ExitModule \/ Free
  BY <1>2, ProceedSwap
<1> QED
  BY <1>1, <1>2, SwapBeginSwap, SwapByteSwap, SwapEndSwap, CpuFrame DEF Next, vars

\* While the module is out the call of do_int3 is the kernel's.
LEMMA ForeignNext == ASSUME SwapInv, ForeignIn, [Next]_vars PROVE ForeignIn'
<1>1. CASE UNCHANGED loader
  <2>1. mod' = mod
    BY <1>1 DEF loader
  <2>2. CASE ForeignInt3 \/ OwnInt3 \/ Debug
    <3>1. ASSUME mod = "out" PROVE CallTarget(Call["int3"]) = Kernel["int3"]
      <4>1. \A i \in 1..4 : ~Redirected("int3", i)
        BY <3>1 DEF Redirected, HookOf, UnhookOf, Between
      <4> QED
        BY <4>1, CallGoes DEF SwapInv, Vectors
    <3>2. Ours["int3"] # Kernel["int3"]
      BY LayoutAssumption DEF Vectors
    <3> QED
      BY <2>1, <2>2, <3>1, <3>2 DEF ForeignIn, ForeignInt3, OwnInt3, Debug, Exception
  <2>3. CASE at' = at \/ at' # "foreign"
    BY <2>1, <2>3 DEF ForeignIn
  <2>4. PassOn \/ DebugReturn \/ Refuse \/ PushFrame \/ Interrupt \/ FreedCode \/ Resume
          => at' = at \/ at' # "foreign"
    BY DEF PassOn, DebugReturn, Refuse, PushFrame, Interrupt, FreedCode, Resume
  <2>5. ActualWork => at' # "foreign"
    BY DEF ActualWork, Go, PushRbp, MovRbp, CallRealWork, LoadSaved, LeaRsp, Popfq,
       LoadRbp, StoreRbp, LoadRip, StoreRip, LoadRax, LeaRbp, Leaveq, Retq, Load, Store
  <2>6. InitModule \/ ExitModule \/ Free \/ SwapBegin \/ SwapByte \/ SwapEnd => at' = at
    BY DEF InitModule, ExitModule, Free, Proceed, SwapBegin, SwapByte, SwapEnd
  <2>7. UNCHANGED vars => at' = at
    BY DEF vars
  <2> QED
    BY <2>2, <2>3, <2>4, <2>5, <2>6, <2>7 DEF Next
<1>2. CASE InitModule \/ ExitModule \/ Free \/ SwapBegin \/ SwapByte
  BY <1>2 DEF InitModule, ExitModule, Free, Proceed, SwapBegin, SwapByte, ForeignIn
<1>3. CASE SwapEnd
  <2>1. Hooking \/ Unhooking
    BY <1>3 DEF SwapEnd, SwapInv, Computed
  <2> QED
    BY <1>3, <2>1 DEF SwapEnd, NextMod, Hooking, Unhooking, ForeignIn
<1> QED
  BY <1>1, <1>2, <1>3, CpuFrame DEF Next, vars

LEMMA SwapHolds == Spec => [](SwapInv /\ ForeignIn)
  BY SwapInit, SwapNext, ForeignNext, PTL DEF Spec

\* While the module can be started both calls go to its handlers, and before and
\* afterwards the code is the kernel's, byte for byte.
THEOREM HandlersCorrect == Spec => []HandlersInPlace
<1>1. SwapInv => HandlersInPlace
  <2> SUFFICES ASSUME SwapInv PROVE HandlersInPlace
    OBVIOUS
  <2>1. ASSUME mod = "in", NEW v \in Vectors
        PROVE  CallTarget(Call[v]) = Ours[v] /\ old[v] = Kernel[v]
    <3>1. \A i \in 1..4 : Redirected(v, i)
      BY <2>1 DEF Redirected, Between
    <3> QED
      BY <2>1, <3>1, CallGoes DEF SwapInv, Known, Before
  <2>2. ASSUME mod \in {"out", "gone", "freed"} PROVE code = Original
    <3>1. \A v \in Vectors, i \in 1..4 : ~Redirected(v, i)
      BY <2>2 DEF Redirected, HookOf, UnhookOf, Between
    <3>2. \A v \in Vectors, i \in 1..4 : code[Call[v] + i] = Original[Call[v] + i]
      BY <3>1, OriginalBytes DEF SwapInv, Patched
    <3>3. \A a \in Text : code[a] = Original[a]
      BY <3>2 DEF SwapInv, Patched
    <3>4. code = [a \in Text |-> code[a]] /\ Original = [a \in Text |-> Original[a]]
      BY CodeAssumption DEF SwapInv, Patched
    <3> QED
      BY <3>3, <3>4
  <2> QED
    BY <2>1, <2>2 DEF HandlersInPlace
<1> QED
  BY <1>1, SwapHolds, PTL

\* Four bytes in a row lie in the pages of the first and the last.
LEMMA PageOfFour ==
  ASSUME NEW p \in Int, NEW i \in 1..4, PageSize \in Nat, PageSize >= 4
  PROVE  Page(p + i) = Page(p + 1) \/ Page(p + i) = Page(p + 4)
<1> DEFINE P == PageSize
           q == (p + 1) \div P
           r == (p + 1) % P
<1>1. P \in Nat /\ P >= 4 /\ q \in Int /\ r \in 0..(P - 1) /\ p + 1 = r + (P * q)
  OBVIOUS
<1>2. ASSUME NEW a \in Int, NEW m \in Int, NEW s \in 0..(P - 1), a = s + (P * m)
      PROVE  Page(a) = P * m
  <2>1. a % P = s
    BY <1>1, <1>2, DivideBack
  <2> QED
    BY <1>1, <1>2, <2>1 DEF Page
<1> HIDE DEF q, r, P
<1>3. CASE r + (i - 1) < P
  <2>1. p + i = (r + (i - 1)) + (P * q) /\ r + (i - 1) \in 0..(P - 1) /\ p + i \in Int
    BY <1>1, <1>3
  <2>2. Page(p + i) = P * q
    BY <1>1, <1>2, <2>1
  <2>3. Page(p + 1) = P * q
    <3>1. p + 1 \in Int
      OBVIOUS
    <3> QED
      BY <1>1, <1>2, <3>1
  <2> QED
    BY <2>2, <2>3
<1>4. CASE ~(r + (i - 1) < P)
  <2>1. \A j \in {i, 4} : Page(p + j) = P * (q + 1)
    <3> SUFFICES ASSUME NEW j \in {i, 4} PROVE Page(p + j) = P * (q + 1)
      OBVIOUS
    <3>1. /\ p + j = (r + (j - 1) - P) + (P * (q + 1)) /\ p + j \in Int /\ q + 1 \in Int
          /\ r + (j - 1) - P \in 0..(P - 1)
      BY <1>1, <1>4
    <3> QED
      BY <1>2, <3>1
  <2> QED
    BY <2>1
<1> QED
  BY <1>3, <1>4

\* Every byte is written to a page that is writable, and none is left so.
THEOREM SealedCorrect == Spec => []PagesSealed
<1>1. SwapInv => PagesSealed
  <2> SUFFICES ASSUME SwapInv PROVE PagesSealed
    OBVIOUS
  <2>1. ASSUME k \in 1..4 PROVE Page(site + k) \in rw
    <3>1. site = Call[Vector] /\ rw = {Page(site + 1), Page(site + 4)}
      BY <2>1 DEF SwapInv, Computed
    <3>2. site \in Int /\ PageSize \in Nat /\ PageSize >= 4
      BY <3>1, VectorIn, CallInt, CodeAssumption, LayoutAssumption
    <3>3. Page(site + k) = Page(site + 1) \/ Page(site + k) = Page(site + 4)
      BY <2>1, <3>2, PageOfFour
    <3> QED
      BY <3>1, <3>3
  <2> QED
    BY <2>1 DEF PagesSealed, SwapInv, Computed
<1> QED
  BY <1>1, SwapHolds, PTL

\* An exception reaches the kernel or the module, except between the first and
\* the last byte of a swap.
THEOREM CallsLandCorrect == Spec => CallsLand
<1>1. SwapInv /\ [Next]_vars => [at = "kernel" /\ at' = "wild" => k \in 2..4]_vars
  <2> SUFFICES ASSUME SwapInv, Next, at = "kernel", at' = "wild", k \notin 2..4 PROVE FALSE
    OBVIOUS
  <2>1. \A v \in Vectors : CallTarget(Call[v]) = Ours[v] \/ CallTarget(Call[v]) = Kernel[v]
    <3> SUFFICES ASSUME NEW v \in Vectors
                 PROVE  \/ \A i \in 1..4 : Redirected(v, i)
                        \/ \A i \in 1..4 : ~Redirected(v, i)
      BY CallGoes DEF SwapInv
    <3>1. k = 0 \/ k = 1 \/ k = 5
      BY DEF SwapInv, Computed
    <3>2. \A i \in 1..4 : i < 5 /\ ~(i >= 5) /\ ~(i < 0) /\ i >= 0 /\ ~(i < 1) /\ i >= 1
      OBVIOUS
    <3> QED
      BY <3>1, <3>2 DEF Redirected, HookOf, UnhookOf, Between
  <2>2. ASSUME NEW v \in Vectors, NEW here, here # "wild", Exception(v, here) PROVE FALSE
    BY <2>1, <2>2 DEF Exception
  <2>3. ~(OwnInt3 \/ ForeignInt3 \/ Debug)
    BY <2>2 DEF OwnInt3, ForeignInt3, Debug, Vectors
  <2>4. ~(PassOn \/ DebugReturn \/ Refuse \/ PushFrame \/ Interrupt \/ FreedCode \/ Resume)
    BY DEF PassOn, DebugReturn, Refuse, PushFrame, Interrupt, FreedCode, Resume
  <2>5. ~ActualWork
    BY DEF ActualWork, Go, PushRbp, MovRbp, CallRealWork, LoadSaved, LeaRsp, Popfq,
       LoadRbp, StoreRbp, LoadRip, StoreRip, LoadRax, LeaRbp, Leaveq, Retq, Load, Store
  <2>6. ~(InitModule \/ ExitModule \/ Free \/ SwapBegin \/ SwapByte \/ SwapEnd)
    BY DEF InitModule, ExitModule, Free, Proceed, SwapBegin, SwapByte, SwapEnd
  <2> QED
    BY <2>3, <2>4, <2>5, <2>6 DEF Next
<1> QED
  BY <1>1, SwapHolds, PTL DEF Spec, CallsLand

\* An int3 of somebody else reaches the kernel, except before init_drddr has
\* stored where do_int3 is.
THEOREM ForeignCorrect == Spec => ForeignPassedOn
<1>1. SwapInv /\ ForeignIn /\ [Next]_vars => [at = "foreign" /\ at' = "wild" => mod = "hookInt3"]_vars
  <2> SUFFICES ASSUME SwapInv, ForeignIn, Next, at = "foreign", at' = "wild" PROVE mod = "hookInt3"
    OBVIOUS
  <2>1. CASE PassOn
    <3>1. old["int3"] # Kernel["int3"] /\ mod # "out"
      BY <2>1 DEF PassOn, ForeignIn
    <3>2. mod \in Before("int3")
      BY <3>1 DEF SwapInv, Known, Vectors
    <3> QED
      BY <3>1, <3>2 DEF Before
  <2>2. ~(OwnInt3 \/ ForeignInt3 \/ Debug)
    BY DEF OwnInt3, ForeignInt3, Debug, Exception
  <2>3. ~(DebugReturn \/ Refuse \/ PushFrame \/ FreedCode \/ Resume)
    BY DEF DebugReturn, Refuse, PushFrame, FreedCode, Resume, InActualWork, Counted
  <2>4. ~ActualWork
    BY DEF ActualWork, Go, PushRbp, MovRbp, CallRealWork, LoadSaved, LeaRsp, Popfq,
       LoadRbp, StoreRbp, LoadRip, StoreRip, LoadRax, LeaRbp, Leaveq, Retq, Load, Store
  <2>5. ~(InitModule \/ ExitModule \/ Free \/ SwapBegin \/ SwapByte \/ SwapEnd \/ Interrupt)
    BY DEF InitModule, ExitModule, Free, Proceed, SwapBegin, SwapByte, SwapEnd, Interrupt
  <2> QED
    BY <2>1, <2>2, <2>3, <2>4, <2>5 DEF Next
<1> QED
  BY <1>1, SwapHolds, PTL DEF Spec, ForeignPassedOn
-----------------------------------------------------------------------------
(* Types *)

\* What Inv does not say of the stack pointer, which a thread has wherever it is.
Placed == rsp \in Int /\ left \in 0..10 /\ hit \in BOOLEAN

LEMMA PlacedNext == ASSUME Inv, Placed, [Next]_vars PROVE Placed'
<1>1. trapSp \in Int /\ Pointers
  BY Room DEF Inv
<1>2. CASE UNCHANGED <<rsp, left, hit>>
  BY <1>2 DEF Placed
<1>3. CASE InitModule \/ ExitModule \/ Free \/ SwapBegin \/ SwapByte \/ SwapEnd \/ OwnInt3
             \/ ForeignInt3 \/ Debug \/ PassOn \/ DebugReturn \/ Refuse \/ FreedCode \/ Resume
             \/ UNCHANGED vars
  <2>1. UNCHANGED <<rsp, left, hit>>
    BY <1>3 DEF InitModule, ExitModule, Free, Proceed, SwapBegin, SwapByte, SwapEnd, OwnInt3,
       ForeignInt3, Debug, Exception, PassOn, DebugReturn, Refuse, FreedCode, Resume, vars,
       machine, history
  <2> QED
    BY <1>2, <2>1
<1>4. CASE PushFrame
  BY <1>4 DEF PushFrame, Push, Placed
<1>5. CASE Interrupt
  BY <1>5 DEF Interrupt, Placed
<1>6. CASE PushRbp \/ MovRbp \/ CallRealWork \/ Popfq \/ LoadRbp \/ StoreRbp \/ LoadRip
             \/ StoreRip \/ LoadRax \/ LeaRbp \/ Retq
  BY <1>6 DEF PushRbp, MovRbp, CallRealWork, Popfq, LoadRbp, StoreRbp, LoadRip, StoreRip,
     LoadRax, LeaRbp, Retq, Load, Store, Go, Placed
<1>7. CASE LoadSaved
  <2>1. left \in 1..9 /\ left' = left + 1 /\ UNCHANGED <<rsp, hit>>
    BY <1>1, <1>7 DEF LoadSaved, Go, Pointers
  <2> QED
    BY <2>1 DEF Placed
<1>8. CASE LeaRsp \/ Leaveq
  <2>1. Base \in Int
    BY <1>1, <1>8, Pointed DEF LeaRsp, Leaveq, Go, Pointers, Base, Middle
  <2> QED
    BY <1>8, <2>1 DEF LeaRsp, Leaveq, Go, Placed
<1> QED
  BY <1>3, <1>4, <1>5, <1>6, <1>7, <1>8 DEF Next, ActualWork

\* The variables keep their shapes, and no byte of code is ever out of range.
THEOREM TypeCorrect == Spec => []TypeOK
<1>1. Init => Placed
  <2> SUFFICES ASSUME Init PROVE Placed
    OBVIOUS
  <2>1. rsp \in Int /\ left = 0
    BY StackAssumption DEF Init
  <2>2. hit \in BOOLEAN
    BY DEF Init
  <2> QED
    BY <2>1, <2>2 DEF Placed
<1>2. Spec => []Placed
  BY <1>1, PlacedNext, InvHolds, PTL DEF Spec
<1>3. Inv /\ Placed /\ SwapInv => TypeOK
  <2> SUFFICES ASSUME Inv, Placed, SwapInv PROVE TypeOK
    OBVIOUS
  <2>1. /\ code \in [Text -> 0..(ByteBase - 1)]
        /\ old \in [Vectors -> (0..(Space - 1)) \cup {Unset}]
        /\ mod \in Mods /\ k \in 0..5
    BY DEF SwapInv, Patched, Known, Computed
  <2>2. at \in Places
    BY DEF Inv, Pointers, Places, Outside, Dead
  <2>3. DOMAIN reg = Registers /\ DOMAIN stack = Words /\ trapSp \in TrapSps
    BY DEF Inv, Shape
  <2>4. left \in 0..(Len(Saved) + 1) /\ rsp \in Int /\ hit \in BOOLEAN
    BY SavedHolds DEF Placed
  <2> QED
    BY <2>1, <2>2, <2>3, <2>4 DEF TypeOK
<1> QED
  BY <1>2, <1>3, InvHolds, SwapHolds, PTL
=============================================================================
