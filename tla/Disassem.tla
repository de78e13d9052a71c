------------------------------- MODULE Disassem -------------------------------
(***************************************************************************)
(* The instruction decoder, src/drddr/disassem.c: yy_get_memory_access     *)
(* reads an instruction byte by byte, as the tables direct, and reports    *)
(* one memory access of it, or none.  int3_real_work watches what it       *)
(* reports.                                                                *)
(*                                                                         *)
(* code is the bytes at regs->ip, c the decode_cache, out the first entry  *)
(* of data_addr, data_length and is_write (no other is written), and stage *)
(* the place in the function.  inst, which only the properties look at, is *)
(* the instruction.  Values of registers and operands are left out, but    *)
(* for the address; addresses are those of X86.                            *)
(***************************************************************************)
EXTENDS X86

CONSTANT Instructions   \* what may be at the breakpoint

ASSUME InstructionsAssumption ==
    \A i \in Instructions :
        /\ i \in [pre : Seq(PrefixBytes), two : BOOLEAN, op : 0..255, modrm : 0..255, sib : 0..255,
                  disp : [1..4 -> 0..255]]
        /\ Covered(i)

VARIABLES inst, code, c, stage, out

vars == <<inst, code, c, stage, out>>

(***************************************************************************)
(* The tables.  An entry is the set of its flags; Lock, Mov, String, Priv  *)
(* and No64 are left out, because nothing tests them, and SrcNone,         *)
(* SrcImplicit and Src2None are 0.  Src2Imm16 and Src2Mem16 are negative   *)
(* ints: their sign extension sets ReadOnly, Push and Pop too.             *)
(***************************************************************************)
Width(b) == IF b % 2 = 0 THEN {"ByteOp"} ELSE {}
ToMem(b) == Width(b) \cup {"DstMem", "SrcReg", "ModRM"}
ToReg(b) == Width(b) \cup {"DstReg", "SrcMem", "ModRM"}
SignBits == {"ReadOnly", "Push", "Pop"}

arithmetic_rows(b) ==   \* opcode_table, 0x00 to 0x3f
    CASE b % 8 \in {0, 1}   -> ToMem(b) \cup (IF b >= \h38 THEN {"ReadOnly"} ELSE {})
      [] b % 8 \in {2, 3}   -> ToReg(b)
      [] b = \h24           -> {"DstAcc", "SrcImmByte"}
      [] b % 8 \in {4, 5} /\ b # \h24 /\ b \notin \h28..\h37
                            -> Width(b) \cup {"DstAcc", "SrcImm"}
      [] b \in {\h06, \h0e, \h16, \h1e} -> {"ImplicitOps", "Stack", "Push"}
      [] b \in {\h07, \h17, \h1f}       -> {"ImplicitOps", "Stack", "Pop"}
      [] OTHER              -> {}

opcode_table(b) ==
    CASE b < \h40                         -> arithmetic_rows(b)
      [] b \in \h40..\h4f \cup \h90..\h97 -> {"DstReg"}
      [] b \in \h50..\h57                 -> {"SrcReg", "Stack", "Push"}
      [] b \in \h58..\h5f                 -> {"DstReg", "Stack", "Pop"}
      [] b \in {\h60, \h61, \h9c, \h9d, \hc3, \hcb} -> {"ImplicitOps", "Stack"}
      [] b = \h63                         -> {"DstReg", "SrcMem32", "ModRM"}
      [] b = \h68                         -> {"SrcImm", "Stack", "Push"}
      [] b = \h6a                         -> {"SrcImmByte", "Stack", "Push"}
      [] b \in {\h6c, \h6d, \haa, \hab, \hae, \haf} -> Width(b) \cup {"DstDI"}
      [] b \in {\h6e, \h6f}               -> Width(b) \cup {"SrcSI", "ImplicitOps"}
      [] b \in \h70..\h7f \cup {\hcd}     -> {"SrcImmByte"}
      [] b = \h80                         -> {"Group", "Group1_80"}
      [] b = \h81                         -> {"Group", "Group1_81"}
      [] b = \h82                         -> {"Group", "Group1_82"}
      [] b = \h83                         -> {"Group", "Group1_83"}
      [] b \in {\h84, \h85}               -> ToMem(b) \cup {"ReadOnly"}
      [] b \in \h86..\h89                 -> ToMem(b)
      [] b \in {\h8a, \h8b}               -> ToReg(b)
      [] b = \h8c                         -> {"DstMem", "SrcReg", "ModRM"}
      [] b = \h8d                         -> {"ModRM", "DstReg"}
      [] b = \h8e                         -> {"DstReg", "SrcMem", "ModRM"}
      [] b = \h8f                         -> {"Group", "Group1A"}
      [] b \in {\h98, \h99}               -> {"Known"}
      [] b = \h9a                         -> {"SrcImm", "Src2Imm16", "Known"} \cup SignBits
      [] b \in {\ha0, \ha1}               -> Width(b) \cup {"DstReg", "SrcMem", "MemAbs"}
      [] b \in {\ha2, \ha3}               -> Width(b) \cup {"DstMem", "SrcReg", "MemAbs"}
      [] b \in \ha4..\ha7                 -> Width(b) \cup {"SrcSI", "DstDI"}
      [] b \in {\hac, \had}               -> Width(b) \cup {"SrcSI", "DstAcc"}
      [] b \in \hb0..\hb7                 -> {"ByteOp", "DstReg", "SrcImm"}
      [] b \in \hb8..\hbf                 -> {"DstReg", "SrcImm"}
      [] b \in {\hc0, \hc6, \hc7}         -> Width(b) \cup {"DstMem", "SrcImm", "ModRM"}
      [] b = \hc1                         -> {"DstMem", "SrcImmByte", "ModRM"}
      [] b \in \hd0..\hd3                 -> Width(b) \cup {"DstMem", "ModRM"}
      [] b \in \he4..\he7                 -> Width(b) \cup {"SrcImmUByte", "DstAcc"}
      [] b = \he8                         -> {"SrcImm", "Stack"}
      [] b = \he9                         -> {"SrcImm", "ImplicitOps"}
      [] b = \hea                         -> {"SrcImmU", "Src2Imm16", "Known"} \cup SignBits
      [] b = \heb                         -> {"SrcImmByte", "ImplicitOps"}
      [] b \in \hec..\hef                 -> Width(b) \cup {"DstAcc"}
      [] b = \hf6                         -> {"Group", "Group3_Byte"}
      [] b = \hf7                         -> {"Group", "Group3"}
      [] b = \hfe                         -> {"Group", "Group4"}
      [] b = \hff                         -> {"Group", "Group5"}
      [] b \in {\hcc, \hce, \hcf, \hf4, \hf5, \hf8} \cup \hfa..\hfd -> {"ImplicitOps"}
      [] OTHER                            -> {}

twobyte_table(b) ==
    CASE b = \h01                         -> {"Group", "GroupDual", "Group7"}
      [] b \in {\h05, \h06, \h08, \h09, \h30, \h32, \h34, \h35} -> {"ImplicitOps"}
      [] b \in {\h0d, \h18, \h20, \h22}   -> {"ImplicitOps", "ModRM"}
      [] b \in {\h21, \h23, \hae}         -> {"ModRM"}
      [] b \in \h40..\h4f                 -> {"DstReg", "SrcMem", "ModRM"}
      [] b \in \h80..\h8f                 -> {"SrcImm"}
      [] b \in {\ha0, \ha8}               -> {"ImplicitOps", "Stack", "Push"}
      [] b \in {\ha1, \ha9}               -> {"ImplicitOps", "Stack", "Pop"}
      [] b \in {\ha3, \hab, \hb3, \hbb}   -> {"DstMem", "SrcReg", "ModRM", "BitOp"}
      [] b \in {\ha4, \hac}               -> {"DstMem", "SrcReg", "Src2ImmByte", "ModRM"}
      [] b \in {\ha5, \had}               -> {"DstMem", "SrcReg", "Src2CL", "ModRM"}
      [] b \in {\hb0, \hb1}               -> ToMem(b)
      [] b \in {\hb6, \hbe}               -> ToReg(b)
      [] b \in {\hb7, \hbf}               -> {"DstReg", "SrcMem16", "ModRM"}
      [] b = \hba                         -> {"Group", "Group8"}
      [] b = \hc3                         -> {"DstMem", "SrcReg", "ModRM"}
      [] b = \hc7                         -> {"Group", "GroupDual", "Group9"}
      [] OTHER                            -> {}

Immediate(src, k) == {"DstMem", "ModRM", src} \cup (IF k = 7 THEN {"ReadOnly"} ELSE {})

\* group_table; k is the middle field of the ModRM byte.
group_table(d, k) ==
    CASE "Group1_80" \in d \/ "Group1_82" \in d -> Immediate("SrcImm", k) \cup {"ByteOp"}
      [] "Group1_81" \in d                -> Immediate("SrcImm", k)
      [] "Group1_83" \in d                -> Immediate("SrcImmByte", k)
      [] "Group1A" \in d /\ k = 0         -> {"DstMem", "ModRM", "Stack"}
      [] "Group3_Byte" \in d /\ k = 0     -> {"ByteOp", "SrcImm", "DstMem", "ModRM", "ReadOnly"}
      [] "Group3" \in d /\ k = 0          -> {"SrcImm", "DstMem", "ModRM", "ReadOnly"}
      [] "Group3_Byte" \in d /\ k \in {2, 3} -> {"ByteOp", "DstMem", "ModRM"}
      [] "Group3" \in d /\ k \in {2, 3}   -> {"DstMem", "ModRM"}
      [] "Group4" \in d /\ k \in {0, 1}   -> {"ByteOp", "DstMem", "ModRM"}
      [] "Group5" \in d /\ k \in {0, 1}   -> {"DstMem", "ModRM"}
      [] "Group5" \in d /\ k \in {2, 4}   -> {"SrcMem", "ModRM", "Stack"}
      [] "Group5" \in d /\ k = 5          -> {"SrcMem", "ModRM", "Src2Mem16", "ImplicitOps", "Known"}
                                             \cup SignBits
      [] "Group5" \in d /\ k = 6          -> {"SrcMem", "ModRM", "Stack", "Push"}
      [] "Group7" \in d /\ k \in {2, 3}   -> {"SrcMem", "ModRM"}
      [] "Group7" \in d /\ k = 4          -> {"DstMem", "ModRM"}
      [] "Group7" \in d /\ k = 6          -> {"SrcMem16", "ModRM"}
      [] "Group7" \in d /\ k = 7          -> {"SrcMem", "ModRM", "ByteOp"}
      [] "Group8" \in d /\ k >= 4         -> {"DstMem", "SrcImmByte", "ModRM"}
      [] "Group9" \in d /\ k = 1          -> {"DstMem64", "ModRM"}
      [] OTHER                            -> {}

group2_table(d, k) ==
    CASE "Group7" \in d /\ k \in {0, 3}   -> {"ModRM"}
      [] "Group7" \in d /\ k = 4          -> {"DstMem", "ModRM"}
      [] "Group7" \in d /\ k = 6          -> {"SrcMem16", "ModRM"}
      [] OTHER                            -> {}

(***************************************************************************)
(* Reading the instruction.  c.eip counts from regs->ip.                   *)
(***************************************************************************)
Peek(k) == code[c.eip + k + 1]
\* What an immediate that the instruction does not have reads is not looked at.
yy_insn_fetch(eip, n) == SubSeq(code, eip + 1, eip + n)

None == [type |-> "OP_REG", ptr |-> NullAddr, bytes |-> 0]
NoAccess == Access(NullAddr, 0, FALSE)

Init ==
    /\ inst \in Instructions
    /\ code = Encode(inst)
    /\ c = [eip |-> 0, twobyte |-> FALSE, b |-> 0, op_bytes |-> 4, ad_bytes |-> 8,
            rex_prefix |-> 0, seg_override |-> "none", d |-> {},
            modrm_mod |-> 0, modrm_reg |-> 0, modrm_ea |-> NullAddr,
            src |-> None, src2 |-> None, dst |-> None]
    /\ stage = "prefixes"
    /\ out = NoAccess

Step(from, to) == stage = from /\ stage' = to /\ UNCHANGED <<inst, code>>

\* Mutation of RexAfter: a legacy prefix leaves an earlier REX prefix in force.
RexKept(b) == IF b \in RexBytes THEN b ELSE c.rex_prefix

\* A REX prefix holds until another prefix follows.
RexAfter(b) == IF b \in RexBytes THEN b ELSE 0

\* One turn of the prefix loop.  0x66 and 0x67 replace the default size.
LegacyPrefix ==
    /\ Step("prefixes", "prefixes")
    /\ Peek(0) \in PrefixBytes
    /\ c' = [c EXCEPT !.eip = @ + 1,
                      !.op_bytes = IF Peek(0) = \h66 THEN 2 ELSE @,
                      !.ad_bytes = IF Peek(0) = \h67 THEN 4 ELSE @,
                      !.seg_override = CASE Peek(0) = \h64 -> "fs"
                                         [] Peek(0) = \h65 -> "gs"
                                         [] Peek(0) \in {\h26, \h2e, \h36, \h3e} -> "flat"
                                         [] OTHER -> @,
                      !.rex_prefix = RexAfter(Peek(0))]
    /\ UNCHANGED out

\* From done_prefixes to the test for an unrecognised opcode.  The ModRM byte of
\* a group is read and put back.
Opcode ==
    /\ stage = "prefixes"
    /\ Peek(0) \notin PrefixBytes
    /\ LET two == opcode_table(Peek(0)) = {} /\ Peek(0) = \h0f
           n == IF two THEN 2 ELSE 1
           b == Peek(n - 1)
           d0 == IF two THEN twobyte_table(b) ELSE opcode_table(b)
           d == CASE "Group" \notin d0 -> d0
                  [] {"Group", "GroupDual"} \subseteq d0 /\ Mod(Peek(n)) = 3 -> group2_table(d0, Reg(Peek(n)))
                  [] OTHER -> group_table(d0, Reg(Peek(n)))
           W == Bit(c.rex_prefix, 3) = 1
       IN  /\ c' = [c EXCEPT !.eip = @ + n, !.twobyte = two, !.b = b, !.d = d,
                             !.op_bytes = IF "Stack" \in d \/ W THEN 8 ELSE @]
           /\ stage' = CASE d = {} -> "unknown"
                         [] d = {"Known"} -> "done"
                         [] OTHER -> "address"
    /\ UNCHANGED <<inst, code, out>>

\* yy_seg_base ignores the segment.
yy_seg_base(seg) == "none"

\* An address whose terms are ea, cut to ad_bytes before rip is added.
Masked(ea, rip) ==
    [ea EXCEPT !.seg = yy_seg_base(c.seg_override),
               !.disp = IF c.ad_bytes # 8 THEN Low32(@) ELSE @,
               !.cut = IF c.ad_bytes = 8 THEN "none" ELSE IF rip > 0 THEN "terms" ELSE "sum",
               !.rip = rip]

\* Mutation of FetchedDisp: the displacement of a SIB byte without base is forgotten.
FetchedDispOfModRM(mod, rm, noBase) ==
    CASE mod = 1 -> 1 [] mod = 2 -> 4 [] mod = 0 /\ rm = 5 -> 4 [] OTHER -> 0

\* The length of the displacement; rm includes REX.B.
FetchedDisp(mod, rm, noBase) ==
    CASE mod = 1                         -> 1
      [] mod = 2                         -> 4
      [] mod = 0 /\ (rm = 5 \/ noBase)   -> 4
      [] OTHER                           -> 0

\* The ModRM and SIB bytes and the displacement.
ModRMBytes ==
    /\ Step("address", "source")
    /\ "ModRM" \in c.d
    /\ LET m == Peek(0)
           mod == Mod(m)
           rm == 8 * Bit(c.rex_prefix, 0) + Rm(m)
           sib == mod # 3 /\ Rm(m) = 4
           base == 8 * Bit(c.rex_prefix, 0) + Rm(Peek(1))
           index == 8 * Bit(c.rex_prefix, 1) + Reg(Peek(1))
           rip == mod = 0 /\ Rm(m) = 5
           noBase == sib /\ mod = 0 /\ Rm(Peek(1)) = 5
           n == FetchedDisp(mod, rm, noBase)
           field == c.eip + (IF sib THEN 2 ELSE 1)
           eip == field + n
           ea == [NullAddr EXCEPT
                    !.base = IF mod = 3 \/ rip \/ noBase THEN NoReg
                             ELSE IF sib THEN base ELSE rm,
                    !.index = IF sib /\ index # 4 THEN index ELSE NoReg,
                    !.scale = IF sib /\ index # 4 THEN Mod(Peek(1)) ELSE 0,
                    !.disp = Unsigned(yy_insn_fetch(field, n))]
       IN  c' = [c EXCEPT !.eip = eip, !.modrm_mod = mod,
                          !.modrm_reg = 8 * Bit(c.rex_prefix, 2) + Reg(m),
                          !.modrm_ea = Masked(ea, IF rip THEN eip ELSE 0)]
    /\ UNCHANGED out

\* The absolute address of MemAbs, or no address.
OtherAddress ==
    /\ Step("address", "source")
    /\ "ModRM" \notin c.d
    /\ LET n == IF "MemAbs" \in c.d THEN c.ad_bytes ELSE 0
           ea == [NullAddr EXCEPT !.disp = Unsigned(yy_insn_fetch(c.eip, n))]
       IN  c' = [c EXCEPT !.eip = @ + n, !.modrm_ea = Masked(ea, 0)]
    /\ UNCHANGED out

(***************************************************************************)
(* Operands.                                                               *)
(***************************************************************************)
OperandSize == IF "ByteOp" \in c.d THEN 1 ELSE c.op_bytes

\* Mutation of InRegister: one bit of the mod field is tested.
InRegisterByBit == "ModRM" \in c.d /\ Bit(c.modrm_mod, 1) = 1
InRegister == "ModRM" \in c.d /\ c.modrm_mod = 3

MemoryOperand(ptr, n) == [type |-> "OP_MEM", ptr |-> ptr, bytes |-> n]
RegOperand(n) == [None EXCEPT !.bytes = n]
ImmOperand(n) == [None EXCEPT !.type = "OP_IMM", !.bytes = n]

SrcMemBytes ==
    CASE "SrcMem16" \in c.d -> 2 [] "SrcMem32" \in c.d -> 4 [] OTHER -> OperandSize

\* A string operand sets addr.mem and leaves ptr 0.
Source ==
    /\ Step("source", "source2")
    /\ LET imm == IF OperandSize = 8 THEN 4 ELSE OperandSize
           op == CASE "SrcReg" \in c.d -> RegOperand(OperandSize)
                   [] c.d \cap {"SrcMem", "SrcMem16", "SrcMem32"} # {} ->
                        IF InRegister \/ (c.twobyte /\ c.b = 1 /\ c.modrm_reg = 7)
                        THEN RegOperand(SrcMemBytes)
                        ELSE MemoryOperand(c.modrm_ea, SrcMemBytes)
                   [] c.d \cap {"SrcImm", "SrcImmU"} # {} -> ImmOperand(imm)
                   [] c.d \cap {"SrcImmByte", "SrcImmUByte"} # {} -> ImmOperand(1)
                   [] "SrcSI" \in c.d -> MemoryOperand(NullAddr, OperandSize)
                   [] OTHER -> None
       IN  c' = [c EXCEPT !.src = op, !.eip = @ + (IF op.type = "OP_IMM" THEN op.bytes ELSE 0)]
    /\ UNCHANGED out

\* Src2Mem16 occurs with ImplicitOps only, which reports nothing.
Source2 ==
    /\ Step("source2", "destination")
    /\ LET op == CASE "Src2CL" \in c.d -> RegOperand(1)
                   [] "Src2ImmByte" \in c.d -> ImmOperand(1)
                   [] "Src2Imm16" \in c.d -> ImmOperand(2)
                   [] "Src2Mem16" \in c.d -> MemoryOperand(c.modrm_ea, 2)
                   [] OTHER -> None
       IN  c' = [c EXCEPT !.src2 = op, !.eip = @ + (IF op.type = "OP_IMM" THEN op.bytes ELSE 0)]
    /\ UNCHANGED out

\* The offset of a bit in a register is rounded as an unsigned number.
BitAddress ==
    IF "BitOp" \in c.d
    THEN [c.modrm_ea EXCEPT !.bit = <<"unsigned", c.modrm_reg, c.src.bytes>>]
    ELSE c.modrm_ea

Destination ==
    /\ stage = "destination"
    /\ stage' = IF "ImplicitOps" \in c.d THEN "done" ELSE "report"
    /\ c' = [c EXCEPT !.dst =
                CASE c.d \cap {"DstReg", "DstAcc"} # {} -> RegOperand(OperandSize)
                  [] c.d \cap {"DstMem", "DstMem64"} # {} ->
                       IF InRegister THEN RegOperand(OperandSize)
                       ELSE MemoryOperand(BitAddress,
                                          IF "DstMem64" \in c.d THEN 8 ELSE OperandSize)
                  [] "DstDI" \in c.d -> MemoryOperand(NullAddr, OperandSize)
                  [] OTHER -> @]
    /\ UNCHANGED <<inst, code, out>>

\* The first operand in memory, unless the instruction pushes or pops.
Chosen ==
    LET top == [NullAddr EXCEPT !.base = RSP]
        n == c.src.bytes
    IN  IF {"Stack", "Push"} \subseteq c.d
        THEN Access(IF n = 0 THEN top ELSE [top EXCEPT !.disp = Minus(n)], n, TRUE)
        ELSE IF {"Stack", "Pop"} \subseteq c.d THEN Access(top, n, FALSE)
        ELSE IF c.src.type = "OP_MEM" THEN Access(c.src.ptr, n, FALSE)
        ELSE IF c.src2.type = "OP_MEM" THEN Access(c.src2.ptr, c.src2.bytes, FALSE)
        ELSE IF c.dst.type = "OP_MEM" THEN Access(c.dst.ptr, c.dst.bytes, TRUE)
        ELSE NoAccess

Report ==
    /\ Step("report", "done")
    /\ out' = [Chosen EXCEPT !.write = @ /\ "ReadOnly" \notin c.d]
    /\ UNCHANGED c

Stopped == stage \in {"done", "unknown"} /\ UNCHANGED vars

Next ==
    \/ LegacyPrefix
    \/ Opcode
    \/ ModRMBytes
    \/ OtherAddress
    \/ Source
    \/ Source2
    \/ Destination
    \/ Report
    \/ Stopped

Spec == Init /\ [][Next]_vars

(***************************************************************************)
(* What the decoder gets wrong, by the cause.                              *)
(***************************************************************************)
\* An explicit operand is reported, unless the instruction pushes.
ReportsOperand(i) == Operand(i) /\ ~PushOperand(i)

\* A negative displacement is extended with zeros (from 8 to 32 bits too).
NegativeDisplacement(i) ==
    LET f == DispField(i)
    IN  ~Moffs(i) /\ Sized(i, [NullAddr EXCEPT !.disp = Signed(f)])
                      # Sized(i, [NullAddr EXCEPT !.disp = Unsigned(f)])

\* The address relative to rip is taken before the immediate is read; with REX.B
\* the displacement is not read; with 0x67 rip is added after the cut.
RipMiscounted(i) ==
    RipRelative(i) /\ (ImmBytes(i) > 0 \/ Bit(Rex(i), 0) = 1 \/ AdBytes(i) = 4)

\* The base of FS or GS is taken for 0, the offset of a bit in a register for
\* unsigned, rsp for what it was before the pop.
AddressWrong(i) ==
    \/ NegativeDisplacement(i)
    \/ RipMiscounted(i)
    \/ Segment(i) # "none"
    \/ Two(i, BitTests)
    \/ One(i, {\h8f}) /\ BaseReg(i) = RSP

\* A segment register is two bytes in memory, cmpxchg16b sixteen; a push is of
\* eight bytes whatever it pushes, or of two after 0x66.
SizeWrong(i) ==
    \/ One(i, {\h8c, \h8e}) /\ InMemory(i) /\ OpBytes(i) # 2
    \/ Two(i, {\hc7}) /\ InMemory(i) /\ RexW(i)
    \/ One(i, {\h68, \h6a})
    \/ One(i, \h50..\h57 \cup {\h8f}) /\ StackBytes(i) = 2
    \/ PushOperand(i) /\ StackBytes(i) = 2

\* bt only reads.
DirectionWrong(i) == InMemory(i) /\ (Two(i, {\ha3}) \/ (Two(i, {\hba}) /\ Reg(i.modrm) = 4))

\* The operands of a string instruction are reported at address 0.
Misreported(i) ==
    \/ ReportsOperand(i) /\ AddressWrong(i)
    \/ SizeWrong(i)
    \/ DirectionWrong(i)
    \/ One(i, Strings)

\* Pops, calls, returns and pushf are decoded without their access to the stack.
DropsStack(i) ==
    \/ One(i, \h58..\h5f \cup {\h9c, \h9d, \hc3, \he8})
    \/ ~InMemory(i) /\ (One(i, {\h8f}) \/ Group(i, \hff, {2}))

(***************************************************************************)
(* Properties.                                                             *)
(***************************************************************************)
Reported == stage = "done" /\ out.bytes > 0

\* What int3_real_work watches (drddr-main.c:154-164) is an access that the
\* instruction performs: the same address for every content of the registers,
\* the same number of bytes, the same direction.  This fails in the cases of
\* Misreported, and only in them.
ReportsRealAccess == Reported => ((out \in Accesses(inst)) <=> ~Misreported(inst))

\* An instruction that the decoder takes for one without an access performs
\* none, but for those of DropsStack: no sample is lost unnoticed.
NothingMissed ==
    stage = "done" /\ out.bytes = 0 => ((Accesses(inst) = {}) <=> ~DropsStack(inst))

\* When an access is reported, yy_insn_fetch has read the instruction to its end
\* and no further, so that no operand is made of other bytes than its own.  The
\* two exceptions are a displacement that REX.B hides and push imm16.
FetchesWhole ==
    Reported => ((c.eip = Len(code)) <=>
                   ~ (RipRelative(inst) /\ Bit(Rex(inst), 0) = 1)
                     /\ ~ (One(inst, {\h68}) /\ OpBytes(inst) = 2))
==============================================================================
