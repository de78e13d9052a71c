--------------------------------- MODULE X86 ---------------------------------
(***************************************************************************)
(* What the processor does with an instruction in 64-bit mode: how the     *)
(* instruction is laid out in bytes, and which memory it reads and writes. *)
(* It is the reference against which Disassem is checked, for the          *)
(* instructions that the kernel's own code is made of; nothing here is     *)
(* taken from src/drddr/disassem.c.                                        *)
(*                                                                         *)
(* An instruction is a record: pre (its prefix bytes), two (the opcode     *)
(* comes after 0F), op, modrm, sib and disp (four bytes, lowest first, of  *)
(* which an 8-bit displacement is the first).                              *)
(*                                                                         *)
(* An address is symbolic: the numbers of its base and index register, the *)
(* scale, the displacement as eight bytes, the distance of rip from the    *)
(* start of the instruction (0 unless it is relative to rip), the segment  *)
(* whose base is added, the register whose bit offset is added, and what   *)
(* of the sum is cut to 32 bits.  Two addresses are the same if they are   *)
(* for every content of the registers.                                     *)
(***************************************************************************)
EXTENDS Integers, SequencesExt

NoReg == 16         \* no base or index
RSP == 4
RSI == 6
RDI == 7
PoppedRSP == 17     \* rsp as a pop leaves it

Legacy == {\h26, \h2e, \h36, \h3e, \h64, \h65, \h66, \h67, \hf0, \hf2, \hf3}
RexBytes == \h40..\h4f
PrefixBytes == Legacy \cup RexBytes

(* An instruction's prefixes, and what they say. *)
Has(i, b) == \E k \in DOMAIN i.pre : i.pre[k] = b
Rex(i) == IF i.pre # <<>> /\ Last(i.pre) \in RexBytes THEN Last(i.pre) ELSE 0
Bit(rex, k) == (rex \div 2^k) % 2
RexW(i) == Bit(Rex(i), 3) = 1
OpBytes(i) == IF RexW(i) THEN 8 ELSE IF Has(i, \h66) THEN 2 ELSE 4
AdBytes(i) == IF Has(i, \h67) THEN 4 ELSE 8
Segment(i) == IF Has(i, \h64) THEN "fs" ELSE IF Has(i, \h65) THEN "gs" ELSE "none"

\* The three fields of a ModRM byte; those of a SIB byte are scale, index and base.
Mod(modrm) == modrm \div 64
Reg(modrm) == (modrm \div 8) % 8
Rm(modrm) == modrm % 8

One(i, ops) == ~i.two /\ i.op \in ops
Two(i, ops) == i.two /\ i.op \in ops

Arithmetic == {b \in 0..\h3b : b % 8 < 4}
Shifts == {\hc0, \hc1} \cup \hd0..\hd3
BitTests == {\ha3, \hab, \hb3, \hbb}
Strings == \ha4..\ha7 \cup \haa..\haf

WithModRM ==
    Arithmetic \cup Shifts \cup \h80..\h8f
    \cup {\h63, \h69, \h6b, \hc6, \hc7, \hf6, \hf7, \hfe, \hff}
WithModRM2 ==
    BitTests \cup \h40..\h4f
    \cup {\h0d, \h18, \h1f, \ha4, \ha5, \hac, \had, \haf, \hb0, \hb1, \hb6, \hb7, \hba, \hbe, \hbf,
          \hc3, \hc7}
HasModRM(i) == One(i, WithModRM) \/ Two(i, WithModRM2)
Moffs(i) == One(i, \ha0..\ha3)
Group(i, op, regs) == One(i, {op}) /\ Reg(i.modrm) \in regs

\* The instructions whose layout and accesses are described here.
Covered(i) ==
    /\ \/ One(i, (WithModRM \ {\h82}) \cup \h50..\h5f \cup {\h68, \h6a, \h90, \h98, \h99, \h9c, \h9d}
               \cup \ha0..\ha7 \cup \haa..\haf \cup {\hc3, \he8})
       \/ Two(i, WithModRM2)
    /\ One(i, {\h8f, \hc6, \hc7}) => Reg(i.modrm) = 0
    /\ One(i, {\hf6, \hf7}) => Reg(i.modrm) # 1
    /\ One(i, {\hfe}) => Reg(i.modrm) \in {0, 1}
    /\ One(i, {\hff}) => Reg(i.modrm) \in {0, 1, 2, 4, 6}
    /\ Two(i, {\hba}) => Reg(i.modrm) >= 4
    /\ Two(i, {\hc7}) => Reg(i.modrm) = 1

(***************************************************************************)
(* Layout.                                                                 *)
(***************************************************************************)
InMemory(i) == HasModRM(i) /\ Mod(i.modrm) # 3
HasSib(i) == InMemory(i) /\ Rm(i.modrm) = 4
RipRelative(i) == InMemory(i) /\ Mod(i.modrm) = 0 /\ Rm(i.modrm) = 5
NoBase(i) == HasSib(i) /\ Mod(i.modrm) = 0 /\ Rm(i.sib) = 5

DispBytes(i) ==
    CASE Moffs(i)                                 -> AdBytes(i)
      [] InMemory(i) /\ Mod(i.modrm) = 1          -> 1
      [] InMemory(i) /\ Mod(i.modrm) = 2          -> 4
      [] RipRelative(i) \/ NoBase(i)              -> 4
      [] OTHER                                    -> 0

ImmBytes(i) ==
    CASE One(i, {\h6a, \h6b, \h80, \h83, \hc0, \hc1, \hc6}) -> 1
      [] Group(i, \hf6, {0})                                -> 1
      [] Two(i, {\ha4, \hac, \hba})                         -> 1
      [] One(i, {\h69, \h81, \hc7}) \/ Group(i, \hf7, {0})  -> IF OpBytes(i) = 2 THEN 2 ELSE 4
      [] One(i, {\h68})                                     -> IF OpBytes(i) = 2 THEN 2 ELSE 4
      [] One(i, {\he8})                                     -> 4
      [] OTHER                                              -> 0

Bytes(n, b) == [k \in 1..n |-> b]
Unsigned(s) == s \o Bytes(8 - Len(s), 0)
Signed(s) == s \o Bytes(8 - Len(s), IF s # <<>> /\ Last(s) >= 128 THEN 255 ELSE 0)
Minus(n) == <<256 - n>> \o Bytes(7, 255)
Low32(s) == Unsigned(SubSeq(s, 1, 4))

DispField(i) == SubSeq(Unsigned(i.disp), 1, DispBytes(i))

\* The bytes of the instruction.  The value of an immediate does not matter.
Encode(i) ==
    i.pre \o (IF i.two THEN <<\h0f>> ELSE <<>>) \o <<i.op>>
    \o (IF HasModRM(i) THEN <<i.modrm>> ELSE <<>>)
    \o (IF HasSib(i) THEN <<i.sib>> ELSE <<>>)
    \o DispField(i) \o Bytes(ImmBytes(i), 1)

(***************************************************************************)
(* Effective addresses.                                                    *)
(***************************************************************************)
NullAddr == [base |-> NoReg, index |-> NoReg, scale |-> 0, disp |-> Bytes(8, 0), rip |-> 0,
             seg |-> "none", bit |-> <<>>, cut |-> "none"]

\* An address computed with 32-bit registers and a 32-bit sum.
Sized(i, a) ==
    IF AdBytes(i) = 4 THEN [a EXCEPT !.cut = "sum", !.disp = Low32(@)] ELSE a

BaseReg(i) ==
    CASE Moffs(i) \/ RipRelative(i) \/ NoBase(i) -> NoReg
      [] OTHER -> 8 * Bit(Rex(i), 0) + (IF HasSib(i) THEN Rm(i.sib) ELSE Rm(i.modrm))

IndexReg(i) ==
    LET x == 8 * Bit(Rex(i), 1) + Reg(i.sib)
    IN  IF HasSib(i) /\ x # RSP THEN x ELSE NoReg

\* A pop whose operand is relative to rsp uses rsp as it is after the pop; the
\* bit tests add the signed bit offset in a register to the address.
EffectiveAddr(i) ==
    Sized(i, [base  |-> IF One(i, {\h8f}) /\ BaseReg(i) = RSP THEN PoppedRSP ELSE BaseReg(i),
              index |-> IndexReg(i),
              scale |-> IF IndexReg(i) = NoReg THEN 0 ELSE Mod(i.sib),
              disp  |-> IF Moffs(i) THEN DispField(i) \o Bytes(8 - AdBytes(i), 0)
                                    ELSE Signed(DispField(i)),
              rip   |-> IF RipRelative(i) THEN Len(Encode(i)) ELSE 0,
              seg   |-> Segment(i),
              bit   |-> IF Two(i, BitTests)
                        THEN <<"signed", 8 * Bit(Rex(i), 2) + Reg(i.modrm), OpBytes(i)>>
                        ELSE <<>>,
              cut   |-> "none"])

(***************************************************************************)
(* The accesses of an instruction: its explicit operand, the stack, the    *)
(* operands of a string instruction.  An explicit operand may be loaded    *)
(* and stored.                                                             *)
(***************************************************************************)
Operand(i) ==
    \/ InMemory(i) /\ ~One(i, {\h8d}) /\ ~Two(i, {\h0d, \h18, \h1f})
    \/ Moffs(i)

Near(i) == Group(i, \hff, {2, 4})
PushOperand(i) == Group(i, \hff, {6})
StackBytes(i) == IF Has(i, \h66) /\ ~RexW(i) THEN 2 ELSE 8

OperandBytes(i) ==
    CASE One(i, {\h63})                          -> 4
      [] One(i, {\h8c, \h8e})                    -> 2
      [] Near(i)                                 -> 8
      [] PushOperand(i) \/ One(i, {\h8f})        -> StackBytes(i)
      [] One(i, 0..255 \ {\h63, \h8c, \h8e, \h8f, \hff}) \/ Group(i, \hff, {0, 1}) ->
            IF i.op % 2 = 0 THEN 1 ELSE OpBytes(i)
      [] Two(i, {\hb0, \hb6, \hbe})              -> 1
      [] Two(i, {\hb7, \hbf})                    -> 2
      [] Two(i, {\hc7})                          -> IF RexW(i) THEN 16 ELSE 8
      [] OTHER                                   -> OpBytes(i)

LoadOnly ==
    {b \in Arithmetic : b >= \h38 \/ b % 8 \in {2, 3}}
    \cup {\h63, \h69, \h6b, \h84, \h85, \h8a, \h8b, \h8e, \ha0, \ha1}
LoadOnly2 == \h40..\h4f \cup {\ha3, \haf, \hb6, \hb7, \hbe, \hbf}

Stores(i) ==
    /\ ~One(i, LoadOnly) /\ ~Two(i, LoadOnly2)
    /\ One(i, \h80..\h83) => Reg(i.modrm) # 7
    /\ One(i, {\hf6, \hf7}) => Reg(i.modrm) \in {2, 3}
    /\ Two(i, {\hba}) => Reg(i.modrm) # 4
    /\ ~Near(i) /\ ~PushOperand(i)

Loads(i) == ~One(i, {\h88, \h89, \h8c, \h8f, \ha2, \ha3, \hc6, \hc7}) /\ ~Two(i, {\hc3})

Access(a, n, w) == [addr |-> a, bytes |-> n, write |-> w]

OperandAccesses(i) ==
    {Access(EffectiveAddr(i), OperandBytes(i), w) :
        w \in {v \in BOOLEAN : Operand(i) /\ IF v THEN Stores(i) ELSE Loads(i)}}

Pushes(i) == One(i, \h50..\h57 \cup {\h68, \h6a, \h9c, \he8}) \/ Group(i, \hff, {2, 6})
Pops(i) == One(i, \h58..\h5f \cup {\h8f, \h9d, \hc3})
AtStack(i) == IF One(i, {\he8, \hc3}) \/ Near(i) THEN 8 ELSE StackBytes(i)

StackAccesses(i) ==
    LET n == AtStack(i)
        top == [NullAddr EXCEPT !.base = RSP]
    IN  (IF Pushes(i) THEN {Access([top EXCEPT !.disp = Minus(n)], n, TRUE)} ELSE {})
        \cup (IF Pops(i) THEN {Access(top, n, FALSE)} ELSE {})

\* movs, cmps, stos, lods and scas.
StringAccesses(i) ==
    LET n == IF i.op % 2 = 0 THEN 1 ELSE OpBytes(i)
        at(r, s) == Sized(i, [NullAddr EXCEPT !.base = r, !.seg = s])
        ops(s) == \E b \in s : One(i, {b, b + 1})
    IN  (IF ops({\ha4, \ha6, \hac}) THEN {Access(at(RSI, Segment(i)), n, FALSE)} ELSE {})
        \cup (IF ops({\ha6, \hae}) THEN {Access(at(RDI, "none"), n, FALSE)} ELSE {})
        \cup (IF ops({\ha4, \haa}) THEN {Access(at(RDI, "none"), n, TRUE)} ELSE {})

Accesses(i) == OperandAccesses(i) \cup StackAccesses(i) \cup StringAccesses(i)
==============================================================================
