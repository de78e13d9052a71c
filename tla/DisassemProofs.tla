---------------------------- MODULE DisassemProofs ----------------------------
(***************************************************************************)
(* Proofs about the instruction decoder, for any set of instructions that  *)
(* X86 describes, with any prefixes, operand bytes and displacement.       *)
(*                                                                         *)
(* First the bytes of an instruction (Layout) and the flags that the       *)
(* tables give it, by kind of instruction.  Then what the decoder makes of *)
(* an instruction, as functions of it, and how that compares with what the *)
(* processor does (AddressRight, Outcome).  Last the stages of the         *)
(* decoder: the cache is those functions of the instruction (DecodeInv),   *)
(* from which the properties of Disassem follow.                           *)
(***************************************************************************)
EXTENDS Disassem, SequenceTheorems, TLAPS

(***************************************************************************)
(* Sequences of bytes.                                                     *)
(***************************************************************************)
LEMMA Cat ==
    ASSUME NEW s \in Seq(Int), NEW t \in Seq(Int)
    PROVE  /\ s \o t \in Seq(Int)
           /\ Len(s \o t) = Len(s) + Len(t)
           /\ \A k \in 1..Len(s) : (s \o t)[k] = s[k]
           /\ \A k \in 1..Len(t) : (s \o t)[Len(s) + k] = t[k]
BY ConcatProperties

LEMMA BytesSeq ==
    ASSUME NEW n \in Nat, NEW b \in Int
    PROVE  /\ Bytes(n, b) \in Seq(Int)
           /\ Len(Bytes(n, b)) = n
           /\ \A k \in 1..n : Bytes(n, b)[k] = b
BY DEF Bytes

LEMMA UnsignedSeq ==
    ASSUME NEW s \in Seq(Int), Len(s) <= 8
    PROVE  /\ Unsigned(s) \in Seq(Int)
           /\ Len(Unsigned(s)) = 8
           /\ \A k \in 1..Len(s) : Unsigned(s)[k] = s[k]
           /\ \A k \in Len(s) + 1..8 : Unsigned(s)[k] = 0
<1> DEFINE n == 8 - Len(s)
           z == Bytes(n, 0)
<1>1. n \in Nat
    OBVIOUS
<1> HIDE DEF n
<1>2. Len(z) = n
    BY <1>1, BytesSeq
<1>3. z \in Seq(Int)
    BY <1>1, BytesSeq
<1>5. \A k \in 1..n : z[k] = 0
    BY <1>1, BytesSeq
<1>6. Unsigned(s) = s \o z
    BY DEF Unsigned, n
<1> HIDE DEF z
<1>4. ASSUME NEW k \in Len(s) + 1..8
      PROVE  Unsigned(s)[k] = 0
  <2>1. k - Len(s) \in 1..Len(z) /\ k = Len(s) + (k - Len(s)) /\ k - Len(s) \in 1..n
      BY <1>2 DEF n
  <2>2. Unsigned(s)[Len(s) + (k - Len(s))] = z[k - Len(s)]
      BY <2>1, <1>2, <1>3, <1>6, Cat
  <2> QED
      BY <2>1, <2>2, <1>5, <1>6
<1> QED
    BY <1>2, <1>3, <1>4, <1>6, Cat DEF n

LEMMA FourSeq ==
    ASSUME NEW d \in [1..4 -> 0..255]
    PROVE  d \in Seq(Int) /\ Len(d) = 4
<1> d \in [1..4 -> Int]
    OBVIOUS
<1>1. d \in UNION {[1..n -> Int] : n \in Nat}
    OBVIOUS
<1>2. d \in Seq(Int)
    BY <1>1, SeqDef
<1>3. DOMAIN d = 1..Len(d) /\ Len(d) \in Nat
    BY <1>2, LenProperties
<1>4. DOMAIN d = 1..4
    OBVIOUS
<1> QED
    BY <1>2, <1>3, <1>4

\* A part in the middle of a sequence.
LEMMA Middle ==
    ASSUME NEW s \in Seq(Int), NEW t \in Seq(Int), NEW u \in Seq(Int)
    PROVE  SubSeq((s \o t) \o u, Len(s) + 1, Len(s) + Len(t)) = t
<1> DEFINE w == (s \o t) \o u
           v == SubSeq(w, Len(s) + 1, Len(s) + Len(t))
<1>1. /\ s \o t \in Seq(Int)
      /\ Len(s \o t) = Len(s) + Len(t)
      /\ \A k \in 1..Len(t) : (s \o t)[Len(s) + k] = t[k]
    BY Cat
<1>2. \A k \in 1..Len(s) + Len(t) : w[k] = (s \o t)[k]
    BY <1>1, Cat
<1>3. \A k \in 1..Len(t) : w[Len(s) + k] = t[k]
    BY <1>1, <1>2
<1> HIDE DEF w
<1>4. ASSUME NEW k \in Len(s) + 1..Len(s) + Len(t)
      PROVE  w[k] \in Int
  <2>1. k - Len(s) \in 1..Len(t) /\ k = Len(s) + (k - Len(s))
      OBVIOUS
  <2>2. w[Len(s) + (k - Len(s))] = t[k - Len(s)]
      BY <2>1, <1>3
  <2>3. t[k - Len(s)] \in Int
      BY <2>1, ElementOfSeq
  <2> QED
      BY <2>1, <2>2, <2>3
<1>5. /\ v \in Seq(Int)
      /\ Len(v) = IF Len(s) + 1 <= Len(s) + Len(t) THEN Len(s) + Len(t) - (Len(s) + 1) + 1 ELSE 0
      /\ \A k \in 1..Len(s) + Len(t) - (Len(s) + 1) + 1 : v[k] = w[Len(s) + 1 + k - 1]
    BY <1>4, SubSeqProperties
<1> HIDE DEF v
<1>6. Len(v) = Len(t)
    BY <1>5
<1>7. ASSUME NEW k \in 1..Len(v)
      PROVE  v[k] = t[k]
  <2>1. k \in 1..Len(s) + Len(t) - (Len(s) + 1) + 1 /\ Len(s) + 1 + k - 1 = Len(s) + k
      BY <1>6
  <2>2. v[k] = w[Len(s) + k]
      BY <2>1, <1>5
  <2> QED
      BY <2>2, <1>3, <1>6
<1>8. v = t
    BY <1>5, <1>6, <1>7, SeqEqual
<1> QED
    BY <1>8 DEF v, w

(***************************************************************************)
(* Instructions and their layout.                                          *)
(***************************************************************************)
LEMMA FieldRanges ==
    ASSUME NEW m \in 0..255
    PROVE  Mod(m) \in 0..3 /\ Reg(m) \in 0..7 /\ Rm(m) \in 0..7
BY DEF Mod, Reg, Rm

LEMMA InstructionType ==
    ASSUME NEW i \in Instructions
    PROVE  /\ i.pre \in Seq(PrefixBytes) /\ i.pre \in Seq(Int)
           /\ Len(i.pre) \in Nat /\ DOMAIN i.pre = 1..Len(i.pre)
           /\ \A k \in 1..Len(i.pre) : i.pre[k] \in PrefixBytes
           /\ i.two \in BOOLEAN /\ i.op \in 0..255 /\ i.modrm \in 0..255 /\ i.sib \in 0..255
           /\ i.disp \in [1..4 -> 0..255]
           /\ Covered(i)
<1> DEFINE R == [pre : Seq(PrefixBytes), two : BOOLEAN, op : 0..255, modrm : 0..255, sib : 0..255,
                 disp : [1..4 -> 0..255]]
<1>1. i \in R /\ Covered(i)
    BY InstructionsAssumption
<1>2. /\ i.pre \in Seq(PrefixBytes)
      /\ i.two \in BOOLEAN /\ i.op \in 0..255 /\ i.modrm \in 0..255 /\ i.sib \in 0..255
      /\ i.disp \in [1..4 -> 0..255]
    BY <1>1
<1>3. PrefixBytes \subseteq Int
    BY DEF PrefixBytes, Legacy, RexBytes
<1>4. i.pre \in Seq(Int)
    BY <1>2, <1>3, SeqMonotonic
<1>5. Len(i.pre) \in Nat /\ DOMAIN i.pre = 1..Len(i.pre)
    BY <1>2, LenProperties
<1>6. \A k \in 1..Len(i.pre) : i.pre[k] \in PrefixBytes
    BY <1>2, ElementOfSeq
<1> QED
    BY <1>1, <1>2, <1>4, <1>5, <1>6

LEMMA Sizes ==
    ASSUME NEW i \in Instructions
    PROVE  /\ AdBytes(i) \in {4, 8} /\ OpBytes(i) \in {2, 4, 8}
           /\ DispBytes(i) \in {0, 1, 4, 8} /\ ImmBytes(i) \in {0, 1, 2, 4}
<1>1. AdBytes(i) \in {4, 8} /\ OpBytes(i) \in {2, 4, 8}
    BY DEF AdBytes, OpBytes
<1>2. DispBytes(i) \in {0, 1, 4, 8}
    BY <1>1 DEF DispBytes
<1>3. ImmBytes(i) \in {0, 1, 2, 4}
    BY DEF ImmBytes
<1> QED
    BY <1>1, <1>2, <1>3

LEMMA DispFieldSeq ==
    ASSUME NEW i \in Instructions
    PROVE  /\ DispField(i) \in Seq(Int)
           /\ Len(DispField(i)) = DispBytes(i)
<1>1. i.disp \in Seq(Int) /\ Len(i.disp) = 4
    BY InstructionType, FourSeq
<1>2. Unsigned(i.disp) \in Seq(Int) /\ Len(Unsigned(i.disp)) = 8
  <2>1. Len(i.disp) <= 8
      BY <1>1
  <2>2. Unsigned(i.disp) \in Seq(Int)
      BY <1>1, <2>1, UnsignedSeq
  <2>3. Len(Unsigned(i.disp)) = 8
      BY <1>1, <2>1, UnsignedSeq
  <2> QED
      BY <2>2, <2>3
<1>3. DispBytes(i) \in Nat /\ DispBytes(i) <= 8
    BY Sizes
<1>4. \A k \in 1..DispBytes(i) : Unsigned(i.disp)[k] \in Int
    BY <1>2, <1>3, ElementOfSeq
<1> DEFINE f == SubSeq(Unsigned(i.disp), 1, DispBytes(i))
<1>5. /\ f \in Seq(Int)
      /\ Len(f) = IF 1 <= DispBytes(i) THEN DispBytes(i) - 1 + 1 ELSE 0
    BY <1>3, <1>4, SubSeqProperties
<1> QED
    BY <1>3, <1>5 DEF DispField

\* The bytes of the opcode, and where the displacement begins.
OpcodeBytes(i) == IF i.two THEN 2 ELSE 1
AfterModRM(i) ==
    Len(i.pre) + OpcodeBytes(i) + (IF HasModRM(i) THEN 1 ELSE 0) + (IF HasSib(i) THEN 1 ELSE 0)

\* Where the parts of an instruction are.
LEMMA Layout ==
    ASSUME NEW i \in Instructions
    PROVE  /\ Encode(i) \in Seq(Int)
           /\ Len(Encode(i)) = AfterModRM(i) + DispBytes(i) + ImmBytes(i)
           /\ \A k \in 1..Len(i.pre) : Encode(i)[k] = i.pre[k]
           /\ i.two => Encode(i)[Len(i.pre) + 1] = 15
           /\ Encode(i)[Len(i.pre) + OpcodeBytes(i)] = i.op
           /\ HasModRM(i) => Encode(i)[Len(i.pre) + OpcodeBytes(i) + 1] = i.modrm
           /\ HasSib(i) => Encode(i)[Len(i.pre) + OpcodeBytes(i) + 2] = i.sib
           /\ SubSeq(Encode(i), AfterModRM(i) + 1, AfterModRM(i) + DispBytes(i)) = DispField(i)
<1> DEFINE pre == i.pre
           esc == IF i.two THEN <<15>> ELSE <<>>
           op == <<i.op>>
           modrm == IF HasModRM(i) THEN <<i.modrm>> ELSE <<>>
           sib == IF HasSib(i) THEN <<i.sib>> ELSE <<>>
           disp == DispField(i)
           imm == Bytes(ImmBytes(i), 1)
           s1 == pre \o esc
           s2 == s1 \o op
           s3 == s2 \o modrm
           s4 == s3 \o sib
           s5 == s4 \o disp
           s6 == s5 \o imm
<1>1. Encode(i) = s6
    BY DEF Encode
<1>2. /\ pre \in Seq(Int) /\ Len(pre) = Len(i.pre) /\ Len(i.pre) \in Nat
      /\ i.two \in BOOLEAN /\ i.op \in Int /\ i.modrm \in Int /\ i.sib \in Int
  <2>1. pre \in Seq(Int) /\ Len(pre) = Len(i.pre) /\ Len(i.pre) \in Nat
      BY InstructionType
  <2>2. i.two \in BOOLEAN /\ i.op \in 0..255 /\ i.modrm \in 0..255 /\ i.sib \in 0..255
      BY InstructionType
  <2>3. i.op \in Int /\ i.modrm \in Int /\ i.sib \in Int
      BY <2>2
  <2> QED
      BY <2>1, <2>2, <2>3
<1>3. esc \in Seq(Int) /\ op \in Seq(Int) /\ modrm \in Seq(Int) /\ sib \in Seq(Int)
    BY <1>2
<1>4. /\ Len(esc) = OpcodeBytes(i) - 1
      /\ Len(op) = 1
      /\ Len(modrm) = IF HasModRM(i) THEN 1 ELSE 0
      /\ Len(sib) = IF HasSib(i) THEN 1 ELSE 0
    BY <1>2 DEF OpcodeBytes
<1>5. disp \in Seq(Int) /\ Len(disp) = DispBytes(i)
    BY DispFieldSeq
<1>6. imm \in Seq(Int) /\ Len(imm) = ImmBytes(i)
  <2>1. ImmBytes(i) \in Nat
      BY Sizes
  <2>2. imm \in Seq(Int)
      BY <2>1, BytesSeq
  <2>3. Len(imm) = ImmBytes(i)
      BY <2>1, BytesSeq
  <2> QED
      BY <2>2, <2>3
<1>7. /\ i.two => esc[1] = 15
      /\ op[1] = i.op
      /\ HasModRM(i) => modrm[1] = i.modrm
      /\ HasSib(i) => sib[1] = i.sib
    OBVIOUS
<1>8. pre = i.pre
    OBVIOUS
<1> HIDE DEF pre, esc, op, modrm, sib, disp, imm
<1>a. OpcodeBytes(i) \in {1, 2} /\ (i.two <=> OpcodeBytes(i) = 2)
    BY <1>2 DEF OpcodeBytes
<1>11. /\ s1 \in Seq(Int) /\ Len(s1) = Len(i.pre) + OpcodeBytes(i) - 1
       /\ \A k \in 1..Len(i.pre) : s1[k] = i.pre[k]
       /\ i.two => s1[Len(i.pre) + 1] = 15
  <2>1. s1 \in Seq(Int) /\ Len(s1) = Len(i.pre) + OpcodeBytes(i) - 1
    <3>1. s1 \in Seq(Int)
        BY <1>2, <1>3, Cat
    <3>2. Len(s1) = Len(pre) + Len(esc)
        BY <1>2, <1>3, Cat
    <3> QED
        BY <3>1, <3>2, <1>2, <1>4, <1>a
  <2>2. \A k \in 1..Len(i.pre) : s1[k] = i.pre[k]
      BY <1>2, <1>3, <1>8, Cat
  <2>3. ASSUME i.two PROVE s1[Len(i.pre) + 1] = 15
    <3>1. 1 \in 1..Len(esc)
        BY <2>3, <1>4, <1>a
    <3>2. s1[Len(pre) + 1] = esc[1]
        BY <3>1, <1>2, <1>3, Cat
    <3> QED
        BY <3>2, <2>3, <1>2, <1>7
  <2> QED
      BY <2>1, <2>2, <2>3
<1> HIDE DEF s1
<1>12. /\ s2 \in Seq(Int) /\ Len(s2) = Len(i.pre) + OpcodeBytes(i)
       /\ \A k \in 1..Len(i.pre) : s2[k] = i.pre[k]
       /\ i.two => s2[Len(i.pre) + 1] = 15
       /\ s2[Len(i.pre) + OpcodeBytes(i)] = i.op
  <2>1. s2 \in Seq(Int) /\ Len(s2) = Len(i.pre) + OpcodeBytes(i)
    <3>1. s2 \in Seq(Int)
        BY <1>3, <1>11, Cat
    <3>2. Len(s2) = Len(s1) + Len(op)
        BY <1>3, <1>11, Cat
    <3> QED
        BY <3>1, <3>2, <1>2, <1>4, <1>11, <1>a
  <2>2. \A k \in 1..Len(s1) : s2[k] = s1[k]
      BY <1>3, <1>11, Cat
  <2>3. s2[Len(s1) + 1] = i.op
      BY <1>3, <1>4, <1>7, <1>11, Cat
  <2> QED
    <3>1. \A k \in 1..Len(i.pre) : s2[k] = i.pre[k]
        BY <2>2, <1>2, <1>11, <1>a
    <3>2. i.two => s2[Len(i.pre) + 1] = 15
        BY <2>2, <1>2, <1>11, <1>a
    <3>3. s2[Len(i.pre) + OpcodeBytes(i)] = i.op
      <4>1. Len(s1) + 1 = Len(i.pre) + OpcodeBytes(i)
          BY <1>2, <1>11, <1>a
      <4> QED
          BY <4>1, <2>3
    <3> QED
        BY <3>1, <3>2, <3>3, <2>1
<1> HIDE DEF s2
<1>13. /\ s3 \in Seq(Int)
       /\ Len(s3) = Len(i.pre) + OpcodeBytes(i) + (IF HasModRM(i) THEN 1 ELSE 0)
       /\ \A k \in 1..Len(i.pre) + OpcodeBytes(i) : s3[k] = s2[k]
       /\ HasModRM(i) => s3[Len(i.pre) + OpcodeBytes(i) + 1] = i.modrm
  <2>1. s3 \in Seq(Int) /\ Len(s3) = Len(i.pre) + OpcodeBytes(i) + (IF HasModRM(i) THEN 1 ELSE 0)
    <3>1. s3 \in Seq(Int)
        BY <1>3, <1>12, Cat
    <3>2. Len(s3) = Len(s2) + Len(modrm)
        BY <1>3, <1>12, Cat
    <3> QED
        BY <3>1, <3>2, <1>4, <1>12
  <2>2. \A k \in 1..Len(i.pre) + OpcodeBytes(i) : s3[k] = s2[k]
      BY <1>3, <1>12, Cat
  <2>3. ASSUME HasModRM(i) PROVE s3[Len(i.pre) + OpcodeBytes(i) + 1] = i.modrm
    <3>1. 1 \in 1..Len(modrm)
        BY <2>3, <1>4
    <3>2. s3[Len(s2) + 1] = modrm[1]
      <4>1. s2 \in Seq(Int) /\ modrm \in Seq(Int)
          BY <1>3, <1>12
      <4>2. \A k \in 1..Len(modrm) : s3[Len(s2) + k] = modrm[k]
          BY <4>1, Cat
      <4> QED
          BY <3>1, <4>2
    <3> QED
        BY <3>2, <2>3, <1>7, <1>12
  <2> QED
      BY <2>1, <2>2, <2>3
<1> HIDE DEF s3
<1>b. HasSib(i) => HasModRM(i)
    BY DEF HasSib, InMemory
<1>14. /\ s4 \in Seq(Int) /\ Len(s4) = AfterModRM(i)
       /\ \A k \in 1..Len(s3) : s4[k] = s3[k]
       /\ HasSib(i) => s4[Len(i.pre) + OpcodeBytes(i) + 2] = i.sib
  <2>1. s4 \in Seq(Int) /\ Len(s4) = Len(s3) + Len(sib)
      BY <1>3, <1>13, Cat
  <2>2. Len(s4) = AfterModRM(i)
      BY <2>1, <1>2, <1>4, <1>13, <1>a DEF AfterModRM
  <2>3. \A k \in 1..Len(s3) : s4[k] = s3[k]
      BY <1>3, <1>13, Cat
  <2>4. ASSUME HasSib(i) PROVE s4[Len(i.pre) + OpcodeBytes(i) + 2] = i.sib
    <3>1. 1 \in 1..Len(sib)
        BY <2>4, <1>4
    <3>2. Len(s3) + 1 = Len(i.pre) + OpcodeBytes(i) + 2
        BY <2>4, <1>2, <1>13, <1>a, <1>b
    <3>3. s4[Len(s3) + 1] = sib[1]
        BY <3>1, <1>3, <1>13, Cat
    <3> QED
        BY <3>2, <3>3, <2>4, <1>7
  <2> QED
      BY <2>1, <2>2, <2>3, <2>4
<1> HIDE DEF s4
<1>15. /\ s5 \in Seq(Int) /\ Len(s5) = AfterModRM(i) + DispBytes(i)
       /\ \A k \in 1..Len(s4) : s5[k] = s4[k]
    BY <1>5, <1>14, Cat
<1>16. /\ s6 \in Seq(Int) /\ Len(s6) = AfterModRM(i) + DispBytes(i) + ImmBytes(i)
       /\ \A k \in 1..Len(s5) : s6[k] = s5[k]
    BY <1>6, <1>15, Cat
<1>17. SubSeq(s6, AfterModRM(i) + 1, AfterModRM(i) + DispBytes(i)) = DispField(i)
  <2>1. SubSeq(s6, Len(s4) + 1, Len(s4) + Len(disp)) = disp
      BY <1>5, <1>6, <1>14, Middle
  <2> QED
      BY <2>1, <1>5, <1>14 DEF disp
<1> HIDE DEF s5, s6
<1>c. /\ Len(s3) \in Nat /\ Len(s4) \in Nat /\ Len(s5) \in Nat /\ Len(s2) <= Len(s3)
      /\ Len(s3) <= Len(s4) /\ Len(s4) <= Len(s5) /\ Len(i.pre) <= Len(s2)
      /\ HasModRM(i) => Len(i.pre) + OpcodeBytes(i) + 1 <= Len(s3)
      /\ HasSib(i) => Len(i.pre) + OpcodeBytes(i) + 2 <= Len(s4)
  <2>1. DispBytes(i) \in Nat
      BY Sizes
  <2>2. AfterModRM(i) \in Nat
      BY <1>2, <1>a DEF AfterModRM
  <2>3. Len(s2) \in Nat /\ Len(s3) \in Nat /\ Len(s4) \in Nat /\ Len(s5) \in Nat
      BY <2>1, <2>2, <1>2, <1>12, <1>13, <1>14, <1>15, <1>a
  <2>a. Len(i.pre) <= Len(s2)
      BY <1>2, <1>12, <1>a
  <2>b. Len(s2) <= Len(s3)
      BY <1>2, <1>12, <1>13, <1>a
  <2>c. Len(s3) <= Len(s4)
      BY <1>2, <1>13, <1>14, <1>a DEF AfterModRM
  <2>d. Len(s4) <= Len(s5)
      BY <2>1, <2>2, <1>14, <1>15
  <2>6. HasModRM(i) => Len(i.pre) + OpcodeBytes(i) + 1 <= Len(s3)
      BY <1>2, <1>13, <1>a
  <2>7. HasSib(i) => Len(i.pre) + OpcodeBytes(i) + 2 <= Len(s4)
      BY <1>2, <1>14, <1>a, <1>b DEF AfterModRM
  <2> QED
      BY <2>3, <2>a, <2>b, <2>c, <2>d, <2>6, <2>7
<1>18. \A k \in 1..Len(s4) : s6[k] = s4[k]
    BY <1>15, <1>16, <1>c
<1>19. \A k \in 1..Len(s3) : s6[k] = s3[k]
    BY <1>14, <1>18, <1>c
<1>20. \A k \in 1..Len(s2) : s6[k] = s2[k]
    BY <1>12, <1>13, <1>19, <1>c
<1>21. \A k \in 1..Len(i.pre) : s6[k] = i.pre[k]
    BY <1>12, <1>20, <1>c
<1>22. i.two => s6[Len(i.pre) + 1] = 15
  <2>1. i.two => Len(i.pre) + 1 \in 1..Len(s2)
      BY <1>2, <1>12, <1>a, <1>c
  <2> QED
      BY <2>1, <1>12, <1>20
<1>23. s6[Len(i.pre) + OpcodeBytes(i)] = i.op
  <2>1. Len(s2) \in Nat /\ Len(s2) >= 1
      BY <1>2, <1>12, <1>a
  <2>2. s6[Len(s2)] = s2[Len(s2)]
      BY <2>1, <1>20
  <2> QED
      BY <2>2, <1>12
<1>24. HasModRM(i) => s6[Len(i.pre) + OpcodeBytes(i) + 1] = i.modrm
    BY <1>2, <1>13, <1>19, <1>a, <1>c
<1>25. HasSib(i) => s6[Len(i.pre) + OpcodeBytes(i) + 2] = i.sib
  <2>1. HasSib(i) => Len(i.pre) + OpcodeBytes(i) + 2 \in 1..Len(s4)
      BY <1>2, <1>a, <1>c
  <2> QED
      BY <2>1, <1>14, <1>18
<1> QED
    BY <1>1, <1>16, <1>17, <1>21, <1>22, <1>23, <1>24, <1>25

(***************************************************************************)
(* The flags that the tables give an instruction.                          *)
(***************************************************************************)
\* What Opcode puts in c.d.
Flags(i) ==
    LET d0 == IF i.two THEN twobyte_table(i.op) ELSE opcode_table(i.op)
    IN  CASE "Group" \notin d0 -> d0
          [] {"Group", "GroupDual"} \subseteq d0 /\ Mod(i.modrm) = 3 -> group2_table(d0, Reg(i.modrm))
          [] OTHER -> group_table(d0, Reg(i.modrm))

LEMMA ArithmeticRows ==
    /\ \A b \in Arithmetic : b % 8 \in {0, 1} =>
          opcode_table(b) = ToMem(b) \cup (IF b >= \h38 THEN {"ReadOnly"} ELSE {})
    /\ \A b \in Arithmetic : b % 8 \in {2, 3} => opcode_table(b) = ToReg(b)
<1>1. \A b \in Arithmetic : opcode_table(b) = arithmetic_rows(b)
    BY DEF Arithmetic, opcode_table
<1> QED
    BY <1>1 DEF arithmetic_rows, Arithmetic

LEMMA OneByteRows ==
    /\ \A b \in \h50..\h57 : opcode_table(b) = {"SrcReg", "Stack", "Push"}
    /\ \A b \in \h58..\h5f : opcode_table(b) = {"DstReg", "Stack", "Pop"}
    /\ opcode_table(\h63) = {"DstReg", "SrcMem32", "ModRM"}
    /\ opcode_table(\h68) = {"SrcImm", "Stack", "Push"}
    /\ \A b \in {\h69, \h6b} : opcode_table(b) = {}
    /\ opcode_table(\h6a) = {"SrcImmByte", "Stack", "Push"}
    /\ \A b \in \h84..\h85 : opcode_table(b) = ToMem(b) \cup {"ReadOnly"}
    /\ \A b \in \h86..\h89 : opcode_table(b) = ToMem(b)
    /\ \A b \in \h8a..\h8b : opcode_table(b) = ToReg(b)
    /\ opcode_table(\h8c) = {"DstMem", "SrcReg", "ModRM"}
    /\ opcode_table(\h8d) = {"ModRM", "DstReg"}
    /\ opcode_table(\h8e) = {"DstReg", "SrcMem", "ModRM"}
    /\ opcode_table(\h90) = {"DstReg"}
    /\ \A b \in {\h98, \h99} : opcode_table(b) = {"Known"}
    /\ \A b \in {\h9c, \h9d, \hc3} : opcode_table(b) = {"ImplicitOps", "Stack"}
    /\ \A b \in \ha0..\ha1 : opcode_table(b) = Width(b) \cup {"DstReg", "SrcMem", "MemAbs"}
    /\ \A b \in \ha2..\ha3 : opcode_table(b) = Width(b) \cup {"DstMem", "SrcReg", "MemAbs"}
    /\ \A b \in \ha4..\ha7 : opcode_table(b) = Width(b) \cup {"SrcSI", "DstDI"}
    /\ \A b \in {\haa, \hab, \hae, \haf} : opcode_table(b) = Width(b) \cup {"DstDI"}
    /\ \A b \in \hac..\had : opcode_table(b) = Width(b) \cup {"SrcSI", "DstAcc"}
    /\ \A b \in {\hc0, \hc6, \hc7} : opcode_table(b) = Width(b) \cup {"DstMem", "SrcImm", "ModRM"}
    /\ opcode_table(\hc1) = {"DstMem", "SrcImmByte", "ModRM"}
    /\ \A b \in \hd0..\hd3 : opcode_table(b) = Width(b) \cup {"DstMem", "ModRM"}
    /\ opcode_table(\he8) = {"SrcImm", "Stack"}
BY DEF opcode_table

LEMMA GroupRows ==
    /\ opcode_table(\h80) = {"Group", "Group1_80"}
    /\ opcode_table(\h81) = {"Group", "Group1_81"}
    /\ opcode_table(\h83) = {"Group", "Group1_83"}
    /\ opcode_table(\h8f) = {"Group", "Group1A"}
    /\ opcode_table(\hf6) = {"Group", "Group3_Byte"}
    /\ opcode_table(\hf7) = {"Group", "Group3"}
    /\ opcode_table(\hfe) = {"Group", "Group4"}
    /\ opcode_table(\hff) = {"Group", "Group5"}
    /\ twobyte_table(\hba) = {"Group", "Group8"}
    /\ twobyte_table(\hc7) = {"Group", "GroupDual", "Group9"}
BY DEF opcode_table, twobyte_table

LEMMA TwoByteRows ==
    /\ \A b \in {\h0d, \h18} : twobyte_table(b) = {"ImplicitOps", "ModRM"}
    /\ \A b \in {\h1f, \haf} : twobyte_table(b) = {}
    /\ \A b \in \h40..\h4f : twobyte_table(b) = {"DstReg", "SrcMem", "ModRM"}
    /\ \A b \in BitTests : twobyte_table(b) = {"DstMem", "SrcReg", "ModRM", "BitOp"}
    /\ \A b \in {\ha4, \hac} : twobyte_table(b) = {"DstMem", "SrcReg", "Src2ImmByte", "ModRM"}
    /\ \A b \in {\ha5, \had} : twobyte_table(b) = {"DstMem", "SrcReg", "Src2CL", "ModRM"}
    /\ \A b \in \hb0..\hb1 : twobyte_table(b) = ToMem(b)
    /\ \A b \in {\hb6, \hbe} : twobyte_table(b) = ToReg(b)
    /\ \A b \in {\hb7, \hbf} : twobyte_table(b) = {"DstReg", "SrcMem16", "ModRM"}
    /\ twobyte_table(\hc3) = {"DstMem", "SrcReg", "ModRM"}
BY DEF twobyte_table, BitTests

LEMMA Ungrouped ==
    ASSUME NEW i \in Instructions, NEW row,
           row = IF i.two THEN twobyte_table(i.op) ELSE opcode_table(i.op),
           "Group" \notin row
    PROVE  Flags(i) = row
BY DEF Flags

\* Those of a group depend on the ModRM byte.
LEMMA OneByteFlags ==
    ASSUME NEW i \in Instructions, ~i.two
    PROVE  /\ i.op \in Arithmetic /\ i.op % 8 \in {0, 1} =>
                Flags(i) = ToMem(i.op) \cup (IF i.op >= \h38 THEN {"ReadOnly"} ELSE {})
           /\ i.op \in Arithmetic /\ i.op % 8 \in {2, 3} => Flags(i) = ToReg(i.op)
           /\ i.op \in \h50..\h57 => Flags(i) = {"SrcReg", "Stack", "Push"}
           /\ i.op \in \h58..\h5f => Flags(i) = {"DstReg", "Stack", "Pop"}
           /\ i.op = \h63 => Flags(i) = {"DstReg", "SrcMem32", "ModRM"}
           /\ i.op = \h68 => Flags(i) = {"SrcImm", "Stack", "Push"}
           /\ i.op \in {\h69, \h6b} => Flags(i) = {}
           /\ i.op = \h6a => Flags(i) = {"SrcImmByte", "Stack", "Push"}
           /\ i.op \in \h84..\h85 => Flags(i) = ToMem(i.op) \cup {"ReadOnly"}
           /\ i.op \in \h86..\h89 => Flags(i) = ToMem(i.op)
           /\ i.op \in \h8a..\h8b => Flags(i) = ToReg(i.op)
           /\ i.op = \h8c => Flags(i) = {"DstMem", "SrcReg", "ModRM"}
           /\ i.op = \h8d => Flags(i) = {"ModRM", "DstReg"}
           /\ i.op = \h8e => Flags(i) = {"DstReg", "SrcMem", "ModRM"}
           /\ i.op = \h90 => Flags(i) = {"DstReg"}
           /\ i.op \in {\h98, \h99} => Flags(i) = {"Known"}
           /\ i.op \in {\h9c, \h9d, \hc3} => Flags(i) = {"ImplicitOps", "Stack"}
           /\ i.op \in \ha0..\ha1 => Flags(i) = Width(i.op) \cup {"DstReg", "SrcMem", "MemAbs"}
           /\ i.op \in \ha2..\ha3 => Flags(i) = Width(i.op) \cup {"DstMem", "SrcReg", "MemAbs"}
           /\ i.op \in \ha4..\ha7 => Flags(i) = Width(i.op) \cup {"SrcSI", "DstDI"}
           /\ i.op \in {\haa, \hab, \hae, \haf} => Flags(i) = Width(i.op) \cup {"DstDI"}
           /\ i.op \in \hac..\had => Flags(i) = Width(i.op) \cup {"SrcSI", "DstAcc"}
           /\ i.op \in {\hc0, \hc6, \hc7} => Flags(i) = Width(i.op) \cup {"DstMem", "SrcImm", "ModRM"}
           /\ i.op = \hc1 => Flags(i) = {"DstMem", "SrcImmByte", "ModRM"}
           /\ i.op \in \hd0..\hd3 => Flags(i) = Width(i.op) \cup {"DstMem", "ModRM"}
           /\ i.op = \he8 => Flags(i) = {"SrcImm", "Stack"}
<1> DEFINE row == opcode_table(i.op)
<1>1. "Group" \notin row => Flags(i) = row
    BY Ungrouped
<1> HIDE DEF row
<1>2. "Group" \notin Width(i.op) /\ "Group" \notin ToMem(i.op) /\ "Group" \notin ToReg(i.op)
    BY DEF Width, ToMem, ToReg
<1>3. i.op \in Arithmetic /\ i.op % 8 \in {0, 1} =>
         Flags(i) = ToMem(i.op) \cup (IF i.op >= \h38 THEN {"ReadOnly"} ELSE {})
    BY <1>1, <1>2, ArithmeticRows DEF row
<1>4. i.op \in Arithmetic /\ i.op % 8 \in {2, 3} => Flags(i) = ToReg(i.op)
    BY <1>1, <1>2, ArithmeticRows DEF row
<1> QED
    BY <1>1, <1>2, <1>3, <1>4, OneByteRows DEF row

LEMMA GroupFlags ==
    ASSUME NEW i \in Instructions
    PROVE  LET k == Reg(i.modrm)
           IN  /\ One(i, {\h80}) => Flags(i) = Immediate("SrcImm", k) \cup {"ByteOp"}
               /\ One(i, {\h81}) => Flags(i) = Immediate("SrcImm", k)
               /\ One(i, {\h83}) => Flags(i) = Immediate("SrcImmByte", k)
               /\ Group(i, \h8f, {0}) => Flags(i) = {"DstMem", "ModRM", "Stack"}
               /\ Group(i, \hf6, {0}) =>
                    Flags(i) = {"ByteOp", "SrcImm", "DstMem", "ModRM", "ReadOnly"}
               /\ Group(i, \hf7, {0}) => Flags(i) = {"SrcImm", "DstMem", "ModRM", "ReadOnly"}
               /\ Group(i, \hf6, {2, 3}) => Flags(i) = {"ByteOp", "DstMem", "ModRM"}
               /\ Group(i, \hf7, {2, 3}) => Flags(i) = {"DstMem", "ModRM"}
               /\ Group(i, \hf6, 4..7) \/ Group(i, \hf7, 4..7) => Flags(i) = {}
               /\ Group(i, \hfe, {0, 1}) => Flags(i) = {"ByteOp", "DstMem", "ModRM"}
               /\ Group(i, \hff, {0, 1}) => Flags(i) = {"DstMem", "ModRM"}
               /\ Group(i, \hff, {2, 4}) => Flags(i) = {"SrcMem", "ModRM", "Stack"}
               /\ Group(i, \hff, {6}) => Flags(i) = {"SrcMem", "ModRM", "Stack", "Push"}
               /\ Two(i, {\hba}) /\ k >= 4 => Flags(i) = {"DstMem", "SrcImmByte", "ModRM"}
               /\ Two(i, {\hc7}) /\ k = 1 =>
                    Flags(i) = IF Mod(i.modrm) = 3 THEN {} ELSE {"DstMem64", "ModRM"}
<1> DEFINE k == Reg(i.modrm)
           row == IF i.two THEN twobyte_table(i.op) ELSE opcode_table(i.op)
<1>1. "Group" \in row /\ "GroupDual" \notin row => Flags(i) = group_table(row, k)
    BY DEF Flags
<1>2. "Group" \in row /\ "GroupDual" \in row =>
         Flags(i) = IF Mod(i.modrm) = 3 THEN group2_table(row, k) ELSE group_table(row, k)
    BY DEF Flags
<1> HIDE DEF row
<1>3. i.modrm \in 0..255
    BY InstructionType
<1>4. k \in 0..7
    BY <1>3, FieldRanges
<1> HIDE DEF k
<1>5. One(i, {\h80}) => Flags(i) = Immediate("SrcImm", k) \cup {"ByteOp"}
    BY <1>1, GroupRows DEF row, One, group_table
<1>6. One(i, {\h81}) => Flags(i) = Immediate("SrcImm", k)
    BY <1>1, GroupRows DEF row, One, group_table
<1>7. One(i, {\h83}) => Flags(i) = Immediate("SrcImmByte", k)
    BY <1>1, GroupRows DEF row, One, group_table
<1>8. One(i, {\h8f}) /\ k = 0 => Flags(i) = {"DstMem", "ModRM", "Stack"}
    BY <1>1, GroupRows DEF row, One, group_table
<1>9. One(i, {\hf6}) => Flags(i) = IF k = 0 THEN {"ByteOp", "SrcImm", "DstMem", "ModRM", "ReadOnly"}
                                   ELSE IF k \in {2, 3} THEN {"ByteOp", "DstMem", "ModRM"} ELSE {}
    BY <1>1, GroupRows DEF row, One, group_table
<1>10. One(i, {\hf7}) => Flags(i) = IF k = 0 THEN {"SrcImm", "DstMem", "ModRM", "ReadOnly"}
                                    ELSE IF k \in {2, 3} THEN {"DstMem", "ModRM"} ELSE {}
    BY <1>1, GroupRows DEF row, One, group_table
<1>11. One(i, {\hfe}) /\ k \in {0, 1} => Flags(i) = {"ByteOp", "DstMem", "ModRM"}
    BY <1>1, GroupRows DEF row, One, group_table
<1>12. One(i, {\hff}) /\ k \in {0, 1} => Flags(i) = {"DstMem", "ModRM"}
    BY <1>1, GroupRows DEF row, One, group_table
<1>13. One(i, {\hff}) /\ k \in {2, 4} => Flags(i) = {"SrcMem", "ModRM", "Stack"}
    BY <1>1, GroupRows DEF row, One, group_table
<1>14. One(i, {\hff}) /\ k = 6 => Flags(i) = {"SrcMem", "ModRM", "Stack", "Push"}
    BY <1>1, GroupRows DEF row, One, group_table
<1>15. Two(i, {\hba}) /\ k >= 4 => Flags(i) = {"DstMem", "SrcImmByte", "ModRM"}
    BY <1>1, <1>4, GroupRows DEF row, Two, group_table
<1>16. Two(i, {\hc7}) /\ k = 1 =>
          Flags(i) = IF Mod(i.modrm) = 3 THEN {} ELSE {"DstMem64", "ModRM"}
    BY <1>2, GroupRows DEF row, Two, group_table, group2_table
<1> QED
    BY <1>5, <1>6, <1>7, <1>8, <1>9, <1>10, <1>11, <1>12, <1>13, <1>14, <1>15, <1>16 DEF Group, k, One

LEMMA TwoByteFlags ==
    ASSUME NEW i \in Instructions, i.two
    PROVE  /\ i.op \in {\h0d, \h18} => Flags(i) = {"ImplicitOps", "ModRM"}
           /\ i.op \in {\h1f, \haf} => Flags(i) = {}
           /\ i.op \in \h40..\h4f => Flags(i) = {"DstReg", "SrcMem", "ModRM"}
           /\ i.op \in BitTests => Flags(i) = {"DstMem", "SrcReg", "ModRM", "BitOp"}
           /\ i.op \in {\ha4, \hac} => Flags(i) = {"DstMem", "SrcReg", "Src2ImmByte", "ModRM"}
           /\ i.op \in {\ha5, \had} => Flags(i) = {"DstMem", "SrcReg", "Src2CL", "ModRM"}
           /\ i.op \in \hb0..\hb1 => Flags(i) = ToMem(i.op)
           /\ i.op \in {\hb6, \hbe} => Flags(i) = ToReg(i.op)
           /\ i.op \in {\hb7, \hbf} => Flags(i) = {"DstReg", "SrcMem16", "ModRM"}
           /\ i.op = \hc3 => Flags(i) = {"DstMem", "SrcReg", "ModRM"}
<1> DEFINE row == twobyte_table(i.op)
<1>1. "Group" \notin row => Flags(i) = row
    BY Ungrouped
<1> HIDE DEF row
<1>2. "Group" \notin ToMem(i.op) /\ "Group" \notin ToReg(i.op)
    BY DEF Width, ToMem, ToReg
<1> QED
    BY <1>1, <1>2, TwoByteRows DEF row

(***************************************************************************)
(* What the decoder makes of an instruction, as functions of it.           *)
(***************************************************************************)
OpSize(i) == IF "Stack" \in Flags(i) THEN 8 ELSE OpBytes(i)
Size(i) == IF "ByteOp" \in Flags(i) THEN 1 ELSE OpSize(i)
InReg(i) == "ModRM" \in Flags(i) /\ Mod(i.modrm) = 3
SrcMemSize(i) ==
    CASE "SrcMem16" \in Flags(i) -> 2 [] "SrcMem32" \in Flags(i) -> 4 [] OTHER -> Size(i)
DstMemSize(i) == IF "DstMem64" \in Flags(i) THEN 8 ELSE Size(i)

\* The displacement: with REX.B that of an address relative to rip is not seen.
Hidden(i) == RipRelative(i) /\ Bit(Rex(i), 0) = 1
DispRead(i) == IF Hidden(i) THEN 0 ELSE DispBytes(i)
FieldRead(i) == IF Hidden(i) THEN <<>> ELSE DispField(i)

\* c.modrm_ea, and with the bit of BitOp.
AddressRead(i) ==
    LET rip == IF RipRelative(i) THEN AfterModRM(i) + DispRead(i) ELSE 0
    IN  [base  |-> IF InMemory(i) THEN BaseReg(i) ELSE NoReg,
         index |-> IndexReg(i),
         scale |-> IF IndexReg(i) = NoReg THEN 0 ELSE Mod(i.sib),
         disp  |-> IF AdBytes(i) = 4 THEN Low32(Unsigned(FieldRead(i))) ELSE Unsigned(FieldRead(i)),
         rip   |-> rip,
         seg   |-> "none",
         bit   |-> <<>>,
         cut   |-> IF AdBytes(i) = 8 THEN "none" ELSE IF rip > 0 THEN "terms" ELSE "sum"]

BitRead(i) ==
    IF "BitOp" \in Flags(i)
    THEN [AddressRead(i) EXCEPT
             !.bit = <<"unsigned", 8 * Bit(Rex(i), 2) + Reg(i.modrm), Size(i)>>]
    ELSE AddressRead(i)

\* The operands.
SrcOf(i) ==
    CASE "SrcReg" \in Flags(i) -> RegOperand(Size(i))
      [] Flags(i) \cap {"SrcMem", "SrcMem16", "SrcMem32"} # {} ->
           IF InReg(i) THEN RegOperand(SrcMemSize(i)) ELSE MemoryOperand(AddressRead(i), SrcMemSize(i))
      [] Flags(i) \cap {"SrcImm", "SrcImmU"} # {} -> ImmOperand(IF Size(i) = 8 THEN 4 ELSE Size(i))
      [] Flags(i) \cap {"SrcImmByte", "SrcImmUByte"} # {} -> ImmOperand(1)
      [] "SrcSI" \in Flags(i) -> MemoryOperand(NullAddr, Size(i))
      [] OTHER -> None

Src2Of(i) ==
    CASE "Src2CL" \in Flags(i) -> RegOperand(1)
      [] "Src2ImmByte" \in Flags(i) -> ImmOperand(1)
      [] OTHER -> None

DstOf(i) ==
    CASE Flags(i) \cap {"DstReg", "DstAcc"} # {} -> RegOperand(Size(i))
      [] Flags(i) \cap {"DstMem", "DstMem64"} # {} ->
           IF InReg(i) THEN RegOperand(Size(i)) ELSE MemoryOperand(BitRead(i), DstMemSize(i))
      [] "DstDI" \in Flags(i) -> MemoryOperand(NullAddr, Size(i))
      [] OTHER -> None

ImmOf(op) == IF op.type = "OP_IMM" THEN op.bytes ELSE 0
ImmRead(i) == ImmOf(SrcOf(i)) + ImmOf(Src2Of(i))

(***************************************************************************)
(* The instructions by what is reported of them.                           *)
(***************************************************************************)
Arith(k) == {b \in Arithmetic : b % 8 \in k}

Loader(i) ==
    \/ One(i, Arith({2, 3}) \cup {\h63, \h8e} \cup \h8a..\h8b \cup \ha0..\ha1)
    \/ Group(i, \hff, {2, 4})
    \/ Two(i, \h40..\h4f \cup {\hb6, \hbe} \cup {\hb7, \hbf})
Storer(i) ==
    \/ One(i, Arith({0, 1}) \cup {\h80, \h81, \h83, \h8c, \hc0, \hc1, \hc6, \hc7} \cup \h84..\h89
              \cup \ha2..\ha3 \cup \hd0..\hd3)
    \/ Group(i, \h8f, {0}) \/ Group(i, \hf6, {0, 2, 3}) \/ Group(i, \hf7, {0, 2, 3})
    \/ Group(i, \hfe, {0, 1}) \/ Group(i, \hff, {0, 1})
    \/ Two(i, BitTests \cup {\ha4, \hac, \ha5, \had, \hc3} \cup \hb0..\hb1)
    \/ Two(i, {\hba}) /\ Reg(i.modrm) >= 4
    \/ Two(i, {\hc7}) /\ Reg(i.modrm) = 1 /\ Mod(i.modrm) # 3
Pusher(i) == One(i, \h50..\h57 \cup {\h68, \h6a}) \/ PushOperand(i)
StringOp(i) == One(i, \ha4..\ha7 \cup {\haa, \hab, \hae, \haf} \cup \hac..\had)
Silent(i) == One(i, \h58..\h5f \cup {\h8d, \h90, \he8})
Implicit(i) == One(i, {\h9c, \h9d, \hc3}) \/ Two(i, {\h0d, \h18})
Unread(i) == One(i, {\h98, \h99})
Undecoded(i) ==
    \/ One(i, {\h69, \h6b}) \/ Group(i, \hf6, 4..7) \/ Group(i, \hf7, 4..7)
    \/ Two(i, {\h1f, \haf})
    \/ Two(i, {\hc7}) /\ Reg(i.modrm) = 1 /\ Mod(i.modrm) = 3

LEMMA Kinds ==
    ASSUME NEW i \in Instructions
    PROVE  \/ Loader(i) \/ Storer(i) \/ Pusher(i) \/ StringOp(i)
           \/ Silent(i) \/ Implicit(i) \/ Unread(i) \/ Undecoded(i)
<1>1. Covered(i) /\ i.op \in 0..255 /\ i.modrm \in 0..255
    BY InstructionType
<1>2. Reg(i.modrm) \in 0..7 /\ Mod(i.modrm) \in 0..3
    BY <1>1, FieldRanges
<1>3. ASSUME i.two PROVE Loader(i) \/ Storer(i) \/ Implicit(i) \/ Undecoded(i)
    BY <1>1, <1>2, <1>3
       DEF Covered, One, Two, WithModRM2, BitTests, Loader, Storer, Implicit, Undecoded
<1>4. ASSUME ~i.two
      PROVE  \/ Loader(i) \/ Storer(i) \/ Pusher(i) \/ StringOp(i)
             \/ Silent(i) \/ Implicit(i) \/ Unread(i) \/ Undecoded(i)
    BY <1>1, <1>2, <1>4
       DEF Covered, One, Two, Group, WithModRM, Arithmetic, Arith, Shifts, PushOperand,
           Loader, Storer, Pusher, StringOp, Silent, Implicit, Unread, Undecoded
<1> QED
    BY <1>3, <1>4

LEMMA LoaderFlags ==
    ASSUME NEW i \in Instructions, Loader(i)
    PROVE  /\ {"ImplicitOps", "Push", "Pop", "SrcReg", "SrcImm", "SrcImmU", "SrcImmByte", "SrcImmUByte",
               "SrcSI", "Src2CL", "Src2ImmByte", "DstMem", "DstMem64", "DstDI"} \cap Flags(i) = {}
           /\ Flags(i) \cap {"SrcMem", "SrcMem16", "SrcMem32"} # {}
           /\ "ModRM" \in Flags(i) <=> HasModRM(i)
           /\ "MemAbs" \in Flags(i) <=> Moffs(i)
           /\ SrcMemSize(i) = IF One(i, {\h8e}) THEN OpBytes(i) ELSE OperandBytes(i)
           /\ ImmBytes(i) = 0
<1> USE DEF OpSize, Size, SrcMemSize, HasModRM, Moffs, One, Two, Group, Near, PushOperand, ToReg, Width
<1>1. CASE One(i, Arith({2, 3}))
  <2>1. Flags(i) = ToReg(i.op)
      BY <1>1, OneByteFlags DEF Arith
  <2> QED
      BY <1>1, <2>1 DEF OperandBytes, ImmBytes, Arith, Arithmetic, WithModRM
<1>2. CASE One(i, {\h63, \h8e})
  <2>1. Flags(i) = {"DstReg", "ModRM"} \cup (IF i.op = \h63 THEN {"SrcMem32"} ELSE {"SrcMem"})
      BY <1>2, OneByteFlags
  <2> QED
      BY <1>2, <2>1 DEF OperandBytes, ImmBytes, WithModRM
<1>3. CASE One(i, \h8a..\h8b)
  <2>1. Flags(i) = ToReg(i.op)
      BY <1>3, OneByteFlags
  <2> QED
      BY <1>3, <2>1 DEF OperandBytes, ImmBytes, WithModRM
<1>4. CASE One(i, \ha0..\ha1)
  <2>1. Flags(i) = Width(i.op) \cup {"DstReg", "SrcMem", "MemAbs"}
      BY <1>4, OneByteFlags
  <2> QED
      BY <1>4, <2>1 DEF OperandBytes, ImmBytes, WithModRM, Arithmetic, Shifts
<1>5. CASE Group(i, \hff, {2, 4})
  <2>1. Flags(i) = {"SrcMem", "ModRM", "Stack"}
      BY <1>5, GroupFlags
  <2> QED
      BY <1>5, <2>1 DEF OperandBytes, ImmBytes, WithModRM
<1>6. CASE Two(i, \h40..\h4f)
  <2>1. Flags(i) = {"DstReg", "SrcMem", "ModRM"}
      BY <1>6, TwoByteFlags
  <2> QED
      BY <1>6, <2>1 DEF OperandBytes, ImmBytes, WithModRM2
<1>7. CASE Two(i, {\hb6, \hbe})
  <2>1. Flags(i) = ToReg(i.op)
      BY <1>7, TwoByteFlags
  <2> QED
      BY <1>7, <2>1 DEF OperandBytes, ImmBytes, WithModRM2
<1>8. CASE Two(i, {\hb7, \hbf})
  <2>1. Flags(i) = {"DstReg", "SrcMem16", "ModRM"}
      BY <1>8, TwoByteFlags
  <2> QED
      BY <1>8, <2>1 DEF OperandBytes, ImmBytes, WithModRM2
<1> QED
    BY <1>1, <1>2, <1>3, <1>4, <1>5, <1>6, <1>7, <1>8 DEF Loader

LEMMA ImmediateSource ==
    ASSUME NEW i \in Instructions, "SrcReg" \notin Flags(i), "SrcMem" \notin Flags(i),
           "SrcMem16" \notin Flags(i), "SrcMem32" \notin Flags(i), "SrcSI" \notin Flags(i),
           "SrcImmU" \notin Flags(i), "SrcImmUByte" \notin Flags(i)
    PROVE  /\ "SrcImm" \in Flags(i) /\ "SrcImmByte" \notin Flags(i) =>
                SrcOf(i) = ImmOperand(IF Size(i) = 8 THEN 4 ELSE Size(i))
           /\ "SrcImmByte" \in Flags(i) /\ "SrcImm" \notin Flags(i) => SrcOf(i) = ImmOperand(1)
           /\ "SrcImmByte" \notin Flags(i) /\ "SrcImm" \notin Flags(i) => SrcOf(i) = None
BY DEF SrcOf

LEMMA StorerFlags ==
    ASSUME NEW i \in Instructions, Storer(i)
    PROVE  /\ {"ImplicitOps", "Push", "Pop", "SrcMem", "SrcMem16", "SrcMem32", "SrcSI",
               "DstReg", "DstAcc", "DstDI"} \cap Flags(i) = {}
           /\ Flags(i) \cap {"DstMem", "DstMem64"} # {}
           /\ "ModRM" \in Flags(i) <=> HasModRM(i)
           /\ "MemAbs" \in Flags(i) <=> Moffs(i)
           /\ "BitOp" \in Flags(i) <=> Two(i, BitTests)
           /\ DstMemSize(i) = IF One(i, {\h8c}) THEN OpBytes(i)
                              ELSE IF One(i, {\h8f}) \/ Two(i, {\hc7}) THEN 8 ELSE OperandBytes(i)
           /\ "ReadOnly" \in Flags(i) => Loads(i) /\ ~Two(i, {\ha3, \hba})
           /\ "ReadOnly" \notin Flags(i) =>
                (Stores(i) <=> ~ (Two(i, {\ha3}) \/ (Two(i, {\hba}) /\ Reg(i.modrm) = 4)))
           /\ ImmRead(i) = ImmBytes(i)
<1> USE Sizes DEF OpSize, Size, DstMemSize, HasModRM, Moffs, One, Two, Group, Near, PushOperand, ToMem, Width,
       ImmRead, ImmOf, SrcOf, Src2Of, RegOperand, ImmOperand, None,
       OperandBytes, ImmBytes, Loads, Stores, LoadOnly, LoadOnly2, WithModRM, WithModRM2, Arithmetic,
       Shifts, BitTests
<1>1. CASE One(i, Arith({0, 1}))
  <2>1. Flags(i) = ToMem(i.op) \cup (IF i.op >= \h38 THEN {"ReadOnly"} ELSE {})
      BY <1>1, OneByteFlags DEF Arith
  <2> QED
      BY <1>1, <2>1 DEF Arith, Arithmetic
<1>2. CASE One(i, {\h80})
  <2>1. Flags(i) = Immediate("SrcImm", Reg(i.modrm)) \cup {"ByteOp"}
      BY <1>2, GroupFlags
  <2>2. ImmRead(i) = ImmBytes(i)
    <3>1. SrcOf(i).type = "OP_IMM" /\ SrcOf(i).bytes = 1
        BY <2>1 DEF Immediate
    <3>2. Src2Of(i).type = "OP_REG"
        BY <2>1 DEF Immediate
    <3>3. ImmBytes(i) = 1
        BY <1>2
    <3> HIDE DEF SrcOf, Src2Of, ImmBytes
    <3> QED
        BY <3>1, <3>2, <3>3
  <2>3. DstMemSize(i) = IF One(i, {\h8c}) THEN OpBytes(i)
                       ELSE IF One(i, {\h8f}) \/ Two(i, {\hc7}) THEN 8 ELSE OperandBytes(i)
      BY <1>2, <2>1 DEF Immediate
  <2>4. /\ "ReadOnly" \in Flags(i) => Loads(i) /\ ~Two(i, {\ha3, \hba})
        /\ "ReadOnly" \notin Flags(i) =>
             (Stores(i) <=> ~ (Two(i, {\ha3}) \/ (Two(i, {\hba}) /\ Reg(i.modrm) = 4)))
      BY <1>2, <2>1 DEF Immediate
  <2> HIDE DEF ImmRead, ImmBytes, DstMemSize, OperandBytes, Stores, Loads
  <2> QED
      BY <1>2, <2>1, <2>2, <2>3, <2>4 DEF Immediate
<1>3. CASE One(i, {\h81})
  <2>1. Flags(i) = Immediate("SrcImm", Reg(i.modrm))
      BY <1>3, GroupFlags
  <2>2. ImmRead(i) = ImmBytes(i)
    <3>1. SrcOf(i).type = "OP_IMM" /\ SrcOf(i).bytes = IF OpBytes(i) = 2 THEN 2 ELSE 4
        BY <2>1 DEF Immediate
    <3>2. Src2Of(i).type = "OP_REG"
        BY <2>1 DEF Immediate
    <3>3. ImmBytes(i) = IF OpBytes(i) = 2 THEN 2 ELSE 4
        BY <1>3
    <3> HIDE DEF SrcOf, Src2Of, ImmBytes
    <3> QED
        BY <3>1, <3>2, <3>3
  <2>3. DstMemSize(i) = IF One(i, {\h8c}) THEN OpBytes(i)
                       ELSE IF One(i, {\h8f}) \/ Two(i, {\hc7}) THEN 8 ELSE OperandBytes(i)
      BY <1>3, <2>1 DEF Immediate
  <2>4. /\ "ReadOnly" \in Flags(i) => Loads(i) /\ ~Two(i, {\ha3, \hba})
        /\ "ReadOnly" \notin Flags(i) =>
             (Stores(i) <=> ~ (Two(i, {\ha3}) \/ (Two(i, {\hba}) /\ Reg(i.modrm) = 4)))
      BY <1>3, <2>1 DEF Immediate
  <2> HIDE DEF ImmRead, ImmBytes, DstMemSize, OperandBytes, Stores, Loads
  <2> QED
      BY <1>3, <2>1, <2>2, <2>3, <2>4 DEF Immediate
<1>4. CASE One(i, {\h83})
  <2>1. Flags(i) = Immediate("SrcImmByte", Reg(i.modrm))
      BY <1>4, GroupFlags
  <2> QED
      BY <1>4, <2>1 DEF Immediate
<1>5. CASE One(i, \h84..\h85)
  <2>1. Flags(i) = ToMem(i.op) \cup {"ReadOnly"}
      BY <1>5, OneByteFlags
  <2> QED
      BY <1>5, <2>1
<1>6. CASE One(i, \h86..\h89)
  <2>1. Flags(i) = ToMem(i.op)
      BY <1>6, OneByteFlags
  <2> QED
      BY <1>6, <2>1
<1>7. CASE One(i, {\h8c})
  <2>1. Flags(i) = {"DstMem", "SrcReg", "ModRM"}
      BY <1>7, OneByteFlags
  <2> QED
      BY <1>7, <2>1
<1>8. CASE One(i, \ha2..\ha3)
  <2>1. Flags(i) = Width(i.op) \cup {"DstMem", "SrcReg", "MemAbs"}
      BY <1>8, OneByteFlags
  <2> QED
      BY <1>8, <2>1
<1>9. CASE One(i, {\hc0, \hc6, \hc7})
  <2>1. Flags(i) = Width(i.op) \cup {"DstMem", "SrcImm", "ModRM"}
      BY <1>9, OneByteFlags
  <2> QED
      BY <1>9, <2>1
<1>10. CASE One(i, {\hc1})
  <2>1. Flags(i) = {"DstMem", "SrcImmByte", "ModRM"}
      BY <1>10, OneByteFlags
  <2>2. ImmRead(i) = ImmBytes(i)
    <3> HIDE DEF SrcOf
    <3>4. SrcOf(i) = ImmOperand(1)
        BY <2>1, ImmediateSource
    <3>1. SrcOf(i).type = "OP_IMM" /\ SrcOf(i).bytes = 1
        BY <2>1, <3>4
    <3>2. Src2Of(i).type = "OP_REG"
        BY <2>1
    <3>3. ImmBytes(i) = 1
        BY <1>10
    <3> HIDE DEF SrcOf, Src2Of, ImmBytes
    <3> QED
        BY <3>1, <3>2, <3>3
  <2>3. DstMemSize(i) = IF One(i, {\h8c}) THEN OpBytes(i)
                       ELSE IF One(i, {\h8f}) \/ Two(i, {\hc7}) THEN 8 ELSE OperandBytes(i)
      BY <1>10, <2>1
  <2>4. /\ "ReadOnly" \in Flags(i) => Loads(i) /\ ~Two(i, {\ha3, \hba})
        /\ "ReadOnly" \notin Flags(i) =>
             (Stores(i) <=> ~ (Two(i, {\ha3}) \/ (Two(i, {\hba}) /\ Reg(i.modrm) = 4)))
      BY <1>10, <2>1
  <2> HIDE DEF ImmRead, ImmBytes, DstMemSize, OperandBytes, Stores, Loads
  <2> QED
      BY <1>10, <2>1, <2>2, <2>3, <2>4
<1>11. CASE One(i, \hd0..\hd3)
  <2>1. Flags(i) = Width(i.op) \cup {"DstMem", "ModRM"}
      BY <1>11, OneByteFlags
  <2> QED
      BY <1>11, <2>1
<1>12. CASE Group(i, \h8f, {0})
  <2>1. Flags(i) = {"DstMem", "ModRM", "Stack"}
      BY <1>12, GroupFlags
  <2> QED
      BY <1>12, <2>1
<1>13. CASE Group(i, \hf6, {0})
  <2>1. Flags(i) = {"ByteOp", "SrcImm", "DstMem", "ModRM", "ReadOnly"}
      BY <1>13, GroupFlags
  <2>2. ImmRead(i) = ImmBytes(i)
    <3> HIDE DEF SrcOf
    <3>5. Size(i) = 1
        BY <2>1
    <3>4. SrcOf(i) = ImmOperand(IF Size(i) = 8 THEN 4 ELSE Size(i))
        BY <2>1, ImmediateSource
    <3>1. SrcOf(i).type = "OP_IMM" /\ SrcOf(i).bytes = 1
        BY <3>4, <3>5
    <3>2. Src2Of(i).type = "OP_REG"
        BY <2>1
    <3>3. ImmBytes(i) = 1
        BY <1>13
    <3> HIDE DEF SrcOf, Src2Of, ImmBytes
    <3> QED
        BY <3>1, <3>2, <3>3
  <2>3. DstMemSize(i) = IF One(i, {\h8c}) THEN OpBytes(i)
                       ELSE IF One(i, {\h8f}) \/ Two(i, {\hc7}) THEN 8 ELSE OperandBytes(i)
      BY <1>13, <2>1
  <2>4. /\ "ReadOnly" \in Flags(i) => Loads(i) /\ ~Two(i, {\ha3, \hba})
        /\ "ReadOnly" \notin Flags(i) =>
             (Stores(i) <=> ~ (Two(i, {\ha3}) \/ (Two(i, {\hba}) /\ Reg(i.modrm) = 4)))
      BY <1>13, <2>1
  <2> HIDE DEF ImmRead, ImmBytes, DstMemSize, OperandBytes, Stores, Loads
  <2> QED
      BY <1>13, <2>1, <2>2, <2>3, <2>4
<1>14. CASE Group(i, \hf7, {0})
  <2>1. Flags(i) = {"SrcImm", "DstMem", "ModRM", "ReadOnly"}
      BY <1>14, GroupFlags
  <2>2. ImmRead(i) = ImmBytes(i)
    <3> HIDE DEF SrcOf
    <3>4. SrcOf(i) = ImmOperand(IF Size(i) = 8 THEN 4 ELSE Size(i))
        BY <2>1, ImmediateSource
    <3>1. SrcOf(i).type = "OP_IMM" /\ SrcOf(i).bytes = IF OpBytes(i) = 2 THEN 2 ELSE 4
        BY <2>1, <3>4
    <3>2. Src2Of(i).type = "OP_REG"
        BY <2>1
    <3>3. ImmBytes(i) = IF OpBytes(i) = 2 THEN 2 ELSE 4
        BY <1>14
    <3> HIDE DEF SrcOf, Src2Of, ImmBytes
    <3> QED
        BY <3>1, <3>2, <3>3
  <2>3. DstMemSize(i) = IF One(i, {\h8c}) THEN OpBytes(i)
                       ELSE IF One(i, {\h8f}) \/ Two(i, {\hc7}) THEN 8 ELSE OperandBytes(i)
      BY <1>14, <2>1
  <2>4. /\ "ReadOnly" \in Flags(i) => Loads(i) /\ ~Two(i, {\ha3, \hba})
        /\ "ReadOnly" \notin Flags(i) =>
             (Stores(i) <=> ~ (Two(i, {\ha3}) \/ (Two(i, {\hba}) /\ Reg(i.modrm) = 4)))
      BY <1>14, <2>1
  <2> HIDE DEF ImmRead, ImmBytes, DstMemSize, OperandBytes, Stores, Loads
  <2> QED
      BY <1>14, <2>1, <2>2, <2>3, <2>4
<1>15. CASE Group(i, \hf6, {2, 3})
  <2>1. Flags(i) = {"ByteOp", "DstMem", "ModRM"}
      BY <1>15, GroupFlags
  <2> QED
      BY <1>15, <2>1
<1>16. CASE Group(i, \hf7, {2, 3})
  <2>1. Flags(i) = {"DstMem", "ModRM"}
      BY <1>16, GroupFlags
  <2> QED
      BY <1>16, <2>1
<1>17. CASE Group(i, \hfe, {0, 1})
  <2>1. Flags(i) = {"ByteOp", "DstMem", "ModRM"}
      BY <1>17, GroupFlags
  <2> QED
      BY <1>17, <2>1
<1>18. CASE Group(i, \hff, {0, 1})
  <2>1. Flags(i) = {"DstMem", "ModRM"}
      BY <1>18, GroupFlags
  <2> QED
      BY <1>18, <2>1
<1>19. CASE Two(i, BitTests)
  <2>1. Flags(i) = {"DstMem", "SrcReg", "ModRM", "BitOp"}
      BY <1>19, TwoByteFlags
  <2>2. ImmRead(i) = ImmBytes(i)
      BY <1>19, <2>1
  <2>3. DstMemSize(i) = IF One(i, {\h8c}) THEN OpBytes(i)
                       ELSE IF One(i, {\h8f}) \/ Two(i, {\hc7}) THEN 8 ELSE OperandBytes(i)
      BY <1>19, <2>1
  <2>4. /\ "ReadOnly" \in Flags(i) => Loads(i) /\ ~Two(i, {\ha3, \hba})
        /\ "ReadOnly" \notin Flags(i) =>
             (Stores(i) <=> ~ (Two(i, {\ha3}) \/ (Two(i, {\hba}) /\ Reg(i.modrm) = 4)))
      BY <1>19, <2>1
  <2> HIDE DEF ImmRead, ImmBytes, DstMemSize, OperandBytes, Stores, Loads
  <2> QED
      BY <1>19, <2>1, <2>2, <2>3, <2>4
<1>20. CASE Two(i, {\ha4, \hac})
  <2>1. Flags(i) = {"DstMem", "SrcReg", "Src2ImmByte", "ModRM"}
      BY <1>20, TwoByteFlags
  <2>2. ImmRead(i) = ImmBytes(i)
    <3>1. Src2Of(i).type = "OP_IMM" /\ Src2Of(i).bytes = 1
        BY <2>1
    <3>2. SrcOf(i).type = "OP_REG"
        BY <2>1
    <3>3. ImmBytes(i) = 1
        BY <1>20
    <3> HIDE DEF SrcOf, Src2Of, ImmBytes
    <3> QED
        BY <3>1, <3>2, <3>3
  <2>3. DstMemSize(i) = IF One(i, {\h8c}) THEN OpBytes(i)
                       ELSE IF One(i, {\h8f}) \/ Two(i, {\hc7}) THEN 8 ELSE OperandBytes(i)
      BY <1>20, <2>1
  <2>4. /\ "ReadOnly" \in Flags(i) => Loads(i) /\ ~Two(i, {\ha3, \hba})
        /\ "ReadOnly" \notin Flags(i) =>
             (Stores(i) <=> ~ (Two(i, {\ha3}) \/ (Two(i, {\hba}) /\ Reg(i.modrm) = 4)))
      BY <1>20, <2>1
  <2> HIDE DEF ImmRead, ImmBytes, DstMemSize, OperandBytes, Stores, Loads
  <2> QED
      BY <1>20, <2>1, <2>2, <2>3, <2>4
<1>21. CASE Two(i, {\ha5, \had})
  <2>1. Flags(i) = {"DstMem", "SrcReg", "Src2CL", "ModRM"}
      BY <1>21, TwoByteFlags
  <2> QED
      BY <1>21, <2>1
<1>22. CASE Two(i, \hb0..\hb1)
  <2>1. Flags(i) = ToMem(i.op)
      BY <1>22, TwoByteFlags
  <2> QED
      BY <1>22, <2>1
<1>23. CASE Two(i, {\hc3})
  <2>1. Flags(i) = {"DstMem", "SrcReg", "ModRM"}
      BY <1>23, TwoByteFlags
  <2> QED
      BY <1>23, <2>1
<1>24. CASE Two(i, {\hba}) /\ Reg(i.modrm) >= 4
  <2>1. Flags(i) = {"DstMem", "SrcImmByte", "ModRM"}
      BY <1>24, GroupFlags
  <2>2. ImmRead(i) = ImmBytes(i)
    <3> HIDE DEF SrcOf
    <3>4. SrcOf(i) = ImmOperand(1)
        BY <2>1, ImmediateSource
    <3>1. SrcOf(i).type = "OP_IMM" /\ SrcOf(i).bytes = 1
        BY <2>1, <3>4
    <3>2. Src2Of(i).type = "OP_REG"
        BY <2>1
    <3>3. ImmBytes(i) = 1
        BY <1>24
    <3> HIDE DEF SrcOf, Src2Of, ImmBytes
    <3> QED
        BY <3>1, <3>2, <3>3
  <2>3. DstMemSize(i) = IF One(i, {\h8c}) THEN OpBytes(i)
                       ELSE IF One(i, {\h8f}) \/ Two(i, {\hc7}) THEN 8 ELSE OperandBytes(i)
      BY <1>24, <2>1
  <2>4. /\ "ReadOnly" \in Flags(i) => Loads(i) /\ ~Two(i, {\ha3, \hba})
        /\ "ReadOnly" \notin Flags(i) =>
             (Stores(i) <=> ~ (Two(i, {\ha3}) \/ (Two(i, {\hba}) /\ Reg(i.modrm) = 4)))
      BY <1>24, <2>1
  <2> HIDE DEF ImmRead, ImmBytes, DstMemSize, OperandBytes, Stores, Loads
  <2> QED
      BY <1>24, <2>1, <2>2, <2>3, <2>4
<1>25. CASE Two(i, {\hc7}) /\ Reg(i.modrm) = 1 /\ Mod(i.modrm) # 3
  <2>1. Flags(i) = {"DstMem64", "ModRM"}
      BY <1>25, GroupFlags
  <2> QED
      BY <1>25, <2>1
<1> HIDE DEF OpSize, Size, DstMemSize, HasModRM, Moffs, ImmRead, OperandBytes, ImmBytes, Loads, Stores
<1> QED
    BY <1>1, <1>2, <1>3, <1>4, <1>5, <1>6, <1>7, <1>8, <1>9, <1>10, <1>11, <1>12, <1>13, <1>14,
       <1>15, <1>16, <1>17, <1>18, <1>19, <1>20, <1>21, <1>22, <1>23, <1>24, <1>25 DEF Storer

LEMMA LoaderOperands ==
    ASSUME NEW i \in Instructions, Loader(i)
    PROVE  /\ SrcOf(i) = IF InReg(i) THEN RegOperand(SrcMemSize(i))
                         ELSE MemoryOperand(AddressRead(i), SrcMemSize(i))
           /\ Src2Of(i) = None
           /\ DstOf(i).type = "OP_REG"
           /\ ImmRead(i) = 0
<1>1. SrcOf(i) = IF InReg(i) THEN RegOperand(SrcMemSize(i))
                 ELSE MemoryOperand(AddressRead(i), SrcMemSize(i))
  <2>1. "SrcReg" \notin Flags(i) /\ Flags(i) \cap {"SrcMem", "SrcMem16", "SrcMem32"} # {}
      BY LoaderFlags
  <2>2. Flags(i) \cap {"SrcImm", "SrcImmU", "SrcImmByte", "SrcImmUByte", "SrcSI"} = {}
      BY LoaderFlags
  <2>3. /\ Flags(i) \cap {"SrcImm", "SrcImmU"} = {} /\ Flags(i) \cap {"SrcImmByte", "SrcImmUByte"} = {}
        /\ "SrcSI" \notin Flags(i)
      BY <2>2
  <2> QED
      BY <2>1, <2>3 DEF SrcOf
<1>2. Src2Of(i) = None
    BY LoaderFlags DEF Src2Of
<1>3. DstOf(i).type = "OP_REG"
    BY LoaderFlags DEF DstOf, RegOperand, None
<1>4. SrcOf(i).type # "OP_IMM" /\ Src2Of(i).type # "OP_IMM"
    BY <1>1, <1>2 DEF RegOperand, MemoryOperand, None
<1> QED
    BY <1>1, <1>2, <1>3, <1>4 DEF ImmRead, ImmOf

LEMMA PusherFlags ==
    ASSUME NEW i \in Instructions, Pusher(i)
    PROVE  /\ {"Stack", "Push"} \subseteq Flags(i) /\ "ImplicitOps" \notin Flags(i)
           /\ "ReadOnly" \notin Flags(i)
           /\ "ModRM" \in Flags(i) <=> HasModRM(i)
           /\ "MemAbs" \in Flags(i) <=> Moffs(i)
           /\ SrcOf(i).bytes = IF One(i, {\h68}) THEN 4 ELSE IF One(i, {\h6a}) THEN 1 ELSE 8
           /\ ImmRead(i) = IF One(i, {\h68}) THEN 4 ELSE ImmBytes(i)
<1> USE DEF OpSize, Size, SrcMemSize, HasModRM, Moffs, One, Two, Group, WithModRM, Arithmetic, Shifts,
       ImmRead, ImmOf, SrcOf, Src2Of, RegOperand, ImmOperand, MemoryOperand, None, ImmBytes
<1>1. CASE One(i, \h50..\h57)
  <2>1. Flags(i) = {"SrcReg", "Stack", "Push"}
      BY <1>1, OneByteFlags
  <2> QED
      BY <1>1, <2>1
<1>2. CASE One(i, {\h68})
  <2>1. Flags(i) = {"SrcImm", "Stack", "Push"}
      BY <1>2, OneByteFlags
  <2>2. Size(i) = 8
      BY <2>1
  <2> HIDE DEF SrcOf, Size
  <2>3. SrcOf(i) = ImmOperand(IF Size(i) = 8 THEN 4 ELSE Size(i))
      BY <2>1, ImmediateSource
  <2>4. SrcOf(i).type = "OP_IMM" /\ SrcOf(i).bytes = 4
      BY <2>2, <2>3
  <2>5. Src2Of(i).type = "OP_REG"
      BY <2>1
  <2> HIDE DEF Src2Of
  <2>6. ImmRead(i) = 4
      BY <2>4, <2>5
  <2> HIDE DEF ImmRead
  <2> QED
      BY <1>2, <2>1, <2>4, <2>5, <2>6
<1>3. CASE One(i, {\h6a})
  <2>1. Flags(i) = {"SrcImmByte", "Stack", "Push"}
      BY <1>3, OneByteFlags
  <2>2. Size(i) = 8
      BY <2>1
  <2> HIDE DEF SrcOf, Size
  <2>3. SrcOf(i) = ImmOperand(1)
      BY <2>1, ImmediateSource
  <2>4. SrcOf(i).type = "OP_IMM" /\ SrcOf(i).bytes = 1
      BY <2>2, <2>3
  <2>5. Src2Of(i).type = "OP_REG"
      BY <2>1
  <2> HIDE DEF Src2Of
  <2>6. ImmRead(i) = 1
      BY <2>4, <2>5
  <2> HIDE DEF ImmRead
  <2> QED
      BY <1>3, <2>1, <2>4, <2>5, <2>6
<1>4. CASE PushOperand(i)
  <2>1. Flags(i) = {"SrcMem", "ModRM", "Stack", "Push"}
      BY <1>4, GroupFlags DEF PushOperand
  <2> QED
      BY <1>4, <2>1 DEF PushOperand
<1> QED
    BY <1>1, <1>2, <1>3, <1>4 DEF Pusher

LEMMA StringOpFlags ==
    ASSUME NEW i \in Instructions, StringOp(i)
    PROVE  /\ {"ImplicitOps", "Push", "Pop", "ModRM", "MemAbs"} \cap Flags(i) = {}
           /\ ~HasModRM(i) /\ ~Moffs(i)
           /\ \/ SrcOf(i) = MemoryOperand(NullAddr, Size(i))
              \/ SrcOf(i) = None /\ DstOf(i) = MemoryOperand(NullAddr, Size(i))
           /\ Src2Of(i) = None
           /\ ImmRead(i) = ImmBytes(i)
<1> USE DEF HasModRM, Moffs, One, Two, WithModRM, Arithmetic, Shifts, Width,
       ImmRead, ImmOf, SrcOf, Src2Of, MemoryOperand, None, ImmBytes, Group
<1>1. CASE One(i, \ha4..\ha7)
  <2>1. Flags(i) = Width(i.op) \cup {"SrcSI", "DstDI"}
      BY <1>1, OneByteFlags
  <2> QED
      BY <1>1, <2>1
<1>2. CASE One(i, {\haa, \hab, \hae, \haf})
  <2>1. Flags(i) = Width(i.op) \cup {"DstDI"}
      BY <1>2, OneByteFlags
  <2>2. DstOf(i) = MemoryOperand(NullAddr, Size(i))
      BY <2>1 DEF DstOf
  <2> QED
      BY <1>2, <2>1, <2>2
<1>3. CASE One(i, \hac..\had)
  <2>1. Flags(i) = Width(i.op) \cup {"SrcSI", "DstAcc"}
      BY <1>3, OneByteFlags
  <2> QED
      BY <1>3, <2>1
<1> QED
    BY <1>1, <1>2, <1>3 DEF StringOp

LEMMA SilentFlags ==
    ASSUME NEW i \in Instructions, Silent(i)
    PROVE  /\ "ImplicitOps" \notin Flags(i) /\ "Push" \notin Flags(i)
           /\ "ModRM" \in Flags(i) <=> HasModRM(i)
           /\ "MemAbs" \in Flags(i) <=> Moffs(i)
           /\ "Pop" \in Flags(i) => SrcOf(i).bytes = 0
           /\ SrcOf(i).type # "OP_MEM" /\ Src2Of(i).type # "OP_MEM" /\ DstOf(i).type # "OP_MEM"
           /\ ImmRead(i) = ImmBytes(i)
<1> USE DEF OpSize, Size, HasModRM, Moffs, One, Two, Group, WithModRM, Arithmetic, Shifts,
       ImmRead, ImmOf, SrcOf, Src2Of, DstOf, RegOperand, ImmOperand, None, ImmBytes
<1>1. CASE One(i, \h58..\h5f)
  <2>1. Flags(i) = {"DstReg", "Stack", "Pop"}
      BY <1>1, OneByteFlags
  <2> QED
      BY <1>1, <2>1
<1>2. CASE One(i, {\h8d})
  <2>1. Flags(i) = {"ModRM", "DstReg"}
      BY <1>2, OneByteFlags
  <2> QED
      BY <1>2, <2>1
<1>3. CASE One(i, {\h90})
  <2>1. Flags(i) = {"DstReg"}
      BY <1>3, OneByteFlags
  <2> QED
      BY <1>3, <2>1
<1>4. CASE One(i, {\he8})
  <2>1. Flags(i) = {"SrcImm", "Stack"}
      BY <1>4, OneByteFlags
  <2>2. Size(i) = 8
      BY <2>1
  <2> HIDE DEF SrcOf, Size
  <2>3. SrcOf(i) = ImmOperand(IF Size(i) = 8 THEN 4 ELSE Size(i))
      BY <2>1, ImmediateSource
  <2>4. SrcOf(i).type = "OP_IMM" /\ SrcOf(i).bytes = 4
      BY <2>2, <2>3
  <2>5. Src2Of(i).type = "OP_REG"
      BY <2>1
  <2> HIDE DEF Src2Of
  <2>6. ImmRead(i) = 4
      BY <2>4, <2>5
  <2> HIDE DEF ImmRead
  <2> QED
      BY <1>4, <2>1, <2>4, <2>5, <2>6
<1> QED
    BY <1>1, <1>2, <1>3, <1>4 DEF Silent

LEMMA ImplicitFlags ==
    ASSUME NEW i \in Instructions, Implicit(i)
    PROVE  /\ "ImplicitOps" \in Flags(i) /\ "Push" \notin Flags(i)
           /\ "ModRM" \in Flags(i) <=> HasModRM(i)
           /\ "MemAbs" \in Flags(i) <=> Moffs(i)
           /\ ImmRead(i) = ImmBytes(i)
<1> USE DEF HasModRM, Moffs, One, Two, Group, WithModRM, WithModRM2, Arithmetic, Shifts, BitTests,
       ImmRead, ImmOf, SrcOf, Src2Of, None, ImmBytes
<1>1. CASE One(i, {\h9c, \h9d, \hc3})
  <2>1. Flags(i) = {"ImplicitOps", "Stack"}
      BY <1>1, OneByteFlags
  <2> QED
      BY <1>1, <2>1
<1>2. CASE Two(i, {\h0d, \h18})
  <2>1. Flags(i) = {"ImplicitOps", "ModRM"}
      BY <1>2, TwoByteFlags
  <2> QED
      BY <1>2, <2>1
<1> QED
    BY <1>1, <1>2 DEF Implicit

LEMMA OtherFlags ==
    ASSUME NEW i \in Instructions
    PROVE  /\ Unread(i) => Flags(i) = {"Known"}
           /\ Undecoded(i) => Flags(i) = {}
<1>1. Unread(i) => Flags(i) = {"Known"}
    BY OneByteFlags DEF Unread, One
<1>2. One(i, {\h69, \h6b}) => Flags(i) = {}
    BY OneByteFlags DEF One
<1>3. Two(i, {\h1f, \haf}) => Flags(i) = {}
    BY TwoByteFlags DEF Two
<1>4. Group(i, \hf6, 4..7) \/ Group(i, \hf7, 4..7) => Flags(i) = {}
    BY GroupFlags
<1>5. Two(i, {\hc7}) /\ Reg(i.modrm) = 1 /\ Mod(i.modrm) = 3 => Flags(i) = {}
    BY GroupFlags
<1> QED
    BY <1>1, <1>2, <1>3, <1>4, <1>5 DEF Undecoded

\* An instruction that the decoder goes through.
Decoded(i) == Flags(i) # {} /\ Flags(i) # {"Known"}

LEMMA DecodedLayout ==
    ASSUME NEW i \in Instructions, Decoded(i)
    PROVE  /\ \/ Loader(i) \/ Storer(i) \/ Pusher(i) \/ StringOp(i) \/ Silent(i) \/ Implicit(i)
           /\ "ModRM" \in Flags(i) <=> HasModRM(i)
           /\ "MemAbs" \in Flags(i) <=> Moffs(i)
           /\ ImmRead(i) = IF One(i, {\h68}) THEN 4 ELSE ImmBytes(i)
<1>1. Loader(i) \/ Storer(i) \/ Pusher(i) \/ StringOp(i) \/ Silent(i) \/ Implicit(i)
    BY Kinds, OtherFlags DEF Decoded
<1>2. CASE Loader(i)
  <2>1. ~One(i, {\h68})
      BY <1>2 DEF Loader, One, Two, Group, Arith, Arithmetic
  <2> QED
      BY <1>2, <2>1, LoaderFlags, LoaderOperands
<1>3. CASE Storer(i)
  <2>1. ~One(i, {\h68})
      BY <1>3 DEF Storer, One, Two, Group, Arith, Arithmetic
  <2> QED
      BY <1>3, <2>1, StorerFlags
<1>4. CASE Pusher(i)
    BY <1>4, PusherFlags
<1>5. CASE StringOp(i)
  <2>1. ~One(i, {\h68})
      BY <1>5 DEF StringOp, One
  <2> QED
      BY <1>5, <2>1, StringOpFlags
<1>6. CASE Silent(i)
  <2>1. ~One(i, {\h68})
      BY <1>6 DEF Silent, One
  <2> QED
      BY <1>6, <2>1, SilentFlags
<1>7. CASE Implicit(i)
  <2>1. ~One(i, {\h68})
      BY <1>7 DEF Implicit, One, Two
  <2> QED
      BY <1>7, <2>1, ImplicitFlags
<1> QED
    BY <1>1, <1>2, <1>3, <1>4, <1>5, <1>6, <1>7

(***************************************************************************)
(* Addresses.                                                              *)
(***************************************************************************)
\* What address arithmetic does to a displacement.
Cut(i, s) == IF AdBytes(i) = 4 THEN Low32(s) ELSE s

LEMMA EffectiveRecord ==
    ASSUME NEW i \in Instructions
    PROVE  EffectiveAddr(i) =
             [base  |-> IF One(i, {\h8f}) /\ BaseReg(i) = RSP THEN PoppedRSP ELSE BaseReg(i),
              index |-> IndexReg(i),
              scale |-> IF IndexReg(i) = NoReg THEN 0 ELSE Mod(i.sib),
              disp  |-> Cut(i, IF Moffs(i) THEN DispField(i) \o Bytes(8 - AdBytes(i), 0)
                               ELSE Signed(DispField(i))),
              rip   |-> IF RipRelative(i) THEN Len(Encode(i)) ELSE 0,
              seg   |-> Segment(i),
              bit   |-> IF Two(i, BitTests)
                        THEN <<"signed", 8 * Bit(Rex(i), 2) + Reg(i.modrm), OpBytes(i)>>
                        ELSE <<>>,
              cut   |-> IF AdBytes(i) = 4 THEN "sum" ELSE "none"]
BY DEF EffectiveAddr, Sized, Cut

LEMMA NegativeCut ==
    ASSUME NEW i \in Instructions
    PROVE  NegativeDisplacement(i) <=>
             ~Moffs(i) /\ Cut(i, Signed(DispField(i))) # Cut(i, Unsigned(DispField(i)))
<1> DEFINE s == Signed(DispField(i))
           u == Unsigned(DispField(i))
           S(x) == Sized(i, [NullAddr EXCEPT !.disp = x])
<1>1. S(s) = S(u) <=> Cut(i, s) = Cut(i, u)
  <2> HIDE DEF s, u
  <2>1. S(s) = [base |-> NoReg, index |-> NoReg, scale |-> 0, disp |-> Cut(i, s), rip |-> 0,
                seg |-> "none", bit |-> <<>>, cut |-> IF AdBytes(i) = 4 THEN "sum" ELSE "none"]
      BY DEF Sized, NullAddr, Cut
  <2>2. S(u) = [base |-> NoReg, index |-> NoReg, scale |-> 0, disp |-> Cut(i, u), rip |-> 0,
                seg |-> "none", bit |-> <<>>, cut |-> IF AdBytes(i) = 4 THEN "sum" ELSE "none"]
      BY DEF Sized, NullAddr, Cut
  <2> HIDE DEF S
  <2> QED
      BY <2>1, <2>2
<1> QED
    BY <1>1 DEF NegativeDisplacement

LEMMA SameRecord ==
    ASSUME NEW a1, NEW a2, NEW a3, NEW a4, NEW a5, NEW a6, NEW a7, NEW a8,
           NEW b1, NEW b2, NEW b3, NEW b4, NEW b5, NEW b6, NEW b7, NEW b8
    PROVE  [base |-> a1, index |-> a2, scale |-> a3, disp |-> a4, rip |-> a5, seg |-> a6,
            bit |-> a7, cut |-> a8]
           = [base |-> b1, index |-> b2, scale |-> b3, disp |-> b4, rip |-> b5, seg |-> b6,
              bit |-> b7, cut |-> b8]
           <=> /\ a1 = b1 /\ a2 = b2 /\ a3 = b3 /\ a4 = b4
               /\ a5 = b5 /\ a6 = b6 /\ a7 = b7 /\ a8 = b8
OBVIOUS

LEMMA MoffsNoModRM ==
    ASSUME NEW i \in Instructions, Moffs(i)
    PROVE  ~HasModRM(i) /\ ~InMemory(i) /\ ~RipRelative(i)
<1>1. ~HasModRM(i)
    BY DEF Moffs, HasModRM, One, Two, WithModRM, Arithmetic, Shifts
<1> QED
    BY <1>1 DEF InMemory, RipRelative

LEMMA MoffsDisp ==
    ASSUME NEW i \in Instructions, Moffs(i)
    PROVE  DispField(i) \o Bytes(8 - AdBytes(i), 0) = Unsigned(DispField(i))
<1>1. DispBytes(i) = AdBytes(i)
  <2>1. ~InMemory(i)
      BY MoffsNoModRM
  <2> QED
      BY <2>1 DEF DispBytes, RipRelative, NoBase, HasSib
<1> QED
    BY <1>1, DispFieldSeq DEF Unsigned

\* The address of the operand is right but for the causes of AddressWrong.
LEMMA AddressRight ==
    ASSUME NEW i \in Instructions, InMemory(i) \/ Moffs(i), NEW b,
           b = <<>> \/ (Two(i, BitTests) /\ \E r, n : b = <<"unsigned", r, n>>),
           b = <<>> => ~Two(i, BitTests)
    PROVE  [AddressRead(i) EXCEPT !.bit = b] = EffectiveAddr(i) <=> ~AddressWrong(i)
<1> DEFINE rip == IF RipRelative(i) THEN AfterModRM(i) + DispRead(i) ELSE 0
           A == [AddressRead(i) EXCEPT !.bit = b]
           E == EffectiveAddr(i)
           base == IF InMemory(i) THEN BaseReg(i) ELSE NoReg
           base2 == IF One(i, {\h8f}) /\ BaseReg(i) = RSP THEN PoppedRSP ELSE BaseReg(i)
           disp == Cut(i, Unsigned(FieldRead(i)))
           disp2 == Cut(i, IF Moffs(i) THEN DispField(i) \o Bytes(8 - AdBytes(i), 0)
                           ELSE Signed(DispField(i)))
           rip2 == IF RipRelative(i) THEN Len(Encode(i)) ELSE 0
           bit2 == IF Two(i, BitTests)
                   THEN <<"signed", 8 * Bit(Rex(i), 2) + Reg(i.modrm), OpBytes(i)>>
                   ELSE <<>>
           cut == IF AdBytes(i) = 8 THEN "none" ELSE IF rip > 0 THEN "terms" ELSE "sum"
           cut2 == IF AdBytes(i) = 4 THEN "sum" ELSE "none"
           scale == IF IndexReg(i) = NoReg THEN 0 ELSE Mod(i.sib)
<1>1. A = [base |-> base, index |-> IndexReg(i), scale |-> scale, disp |-> disp, rip |-> rip,
           seg |-> "none", bit |-> b, cut |-> cut]
  <2> HIDE DEF scale
  <2> QED
      BY DEF AddressRead, Cut, scale
<1>2. E = [base |-> base2, index |-> IndexReg(i), scale |-> scale, disp |-> disp2, rip |-> rip2,
           seg |-> Segment(i), bit |-> bit2, cut |-> cut2]
    BY EffectiveRecord
<1>3. A = E <=> /\ base = base2 /\ disp = disp2 /\ rip = rip2 /\ Segment(i) = "none"
                /\ b = bit2 /\ cut = cut2
  <2> HIDE DEF A, E, base, base2, disp, disp2, rip, rip2, bit2, cut, cut2, scale
  <2> QED
      BY <1>1, <1>2, SameRecord
<1>4. ~Moffs(i) \/ ~InMemory(i)
    BY MoffsNoModRM
<1>5. base = base2 <=> ~(One(i, {\h8f}) /\ BaseReg(i) = RSP)
  <2>1. CASE InMemory(i)
      BY <2>1 DEF RSP, PoppedRSP
  <2>2. CASE Moffs(i)
    <3>1. BaseReg(i) = NoReg
        BY <2>2 DEF BaseReg
    <3> QED
        BY <2>2, <3>1, <1>4 DEF RSP, NoReg, PoppedRSP
  <2> QED
      BY <2>1, <2>2
<1>6. b = bit2 <=> ~Two(i, BitTests)
  <2>1. CASE Two(i, BitTests)
    <3>1. PICK r, n : b = <<"unsigned", r, n>>
        BY <2>1
    <3>2. bit2 = <<"signed", 8 * Bit(Rex(i), 2) + Reg(i.modrm), OpBytes(i)>>
        BY <2>1
    <3>3. b[1] = "unsigned" /\ bit2[1] = "signed"
        BY <3>1, <3>2
    <3> QED
        BY <2>1, <3>3
  <2>2. CASE ~Two(i, BitTests)
      BY <2>2
  <2> QED
      BY <2>1, <2>2
<1>7. Len(Encode(i)) = AfterModRM(i) + DispBytes(i) + ImmBytes(i)
    BY Layout
<1>8. /\ AfterModRM(i) \in Nat /\ AfterModRM(i) > 0 /\ DispBytes(i) \in Nat /\ ImmBytes(i) \in Nat
      /\ AdBytes(i) \in {4, 8}
  <2>1. DispBytes(i) \in Nat /\ ImmBytes(i) \in Nat /\ AdBytes(i) \in {4, 8}
      BY Sizes
  <2>2. Len(i.pre) \in Nat
      BY InstructionType
  <2>3. OpcodeBytes(i) \in {1, 2}
      BY DEF OpcodeBytes
  <2>4. AfterModRM(i) \in Nat
      BY <2>2, <2>3 DEF AfterModRM
  <2>5. AfterModRM(i) > 0
      BY <2>2, <2>3 DEF AfterModRM
  <2> QED
      BY <2>1, <2>4, <2>5
<1>9. RipRelative(i) => DispBytes(i) = 4 /\ InMemory(i)
    BY <1>4 DEF RipRelative, DispBytes
<1>10. CASE RipRelative(i)
  <2>1. ~Moffs(i)
      BY <1>4, <1>9, <1>10
  <2>2. rip = rip2 <=> ~Hidden(i) /\ ImmBytes(i) = 0
      BY <1>7, <1>8, <1>9, <1>10 DEF DispRead
  <2>3. rip > 0
      BY <1>8, <1>9, <1>10 DEF DispRead
  <2>4. cut = cut2 <=> AdBytes(i) = 8
      BY <1>8, <2>3
  <2>5. ~Hidden(i) => (disp = disp2 <=> ~NegativeDisplacement(i))
      BY <2>1, NegativeCut DEF FieldRead
  <2>6. RipMiscounted(i) <=> ImmBytes(i) > 0 \/ Hidden(i) \/ AdBytes(i) = 4
      BY <1>10 DEF RipMiscounted, Hidden
  <2> HIDE DEF base, base2, disp, disp2, rip, rip2, bit2, cut, cut2, scale
  <2> QED
      BY <1>3, <1>5, <1>6, <1>8, <2>2, <2>4, <2>5, <2>6 DEF AddressWrong
<1>11. CASE ~RipRelative(i)
  <2>1. rip = rip2 /\ cut = cut2
      BY <1>8, <1>11
  <2>2. ~Hidden(i) /\ ~RipMiscounted(i)
      BY <1>11 DEF Hidden, RipMiscounted
  <2>3. disp = disp2 <=> ~NegativeDisplacement(i)
    <3>1. CASE Moffs(i)
        BY <3>1, <2>2, NegativeCut, MoffsDisp DEF FieldRead
    <3>2. CASE ~Moffs(i)
        BY <3>2, <2>2, NegativeCut DEF FieldRead
    <3> QED
        BY <3>1, <3>2
  <2> HIDE DEF base, base2, disp, disp2, rip, rip2, bit2, cut, cut2, scale
  <2> QED
      BY <1>3, <1>5, <1>6, <2>1, <2>2, <2>3 DEF AddressWrong
<1> QED
    BY <1>10, <1>11

(***************************************************************************)
(* What is reported, and what it should be.                                *)
(***************************************************************************)
Top == [NullAddr EXCEPT !.base = RSP]
Below(n) == [Top EXCEPT !.disp = Minus(n)]

\* out when the decoder is done.
ChosenOf(i) ==
    LET n == SrcOf(i).bytes
    IN  IF {"Stack", "Push"} \subseteq Flags(i)
        THEN Access(IF n = 0 THEN Top ELSE Below(n), n, TRUE)
        ELSE IF {"Stack", "Pop"} \subseteq Flags(i) THEN Access(Top, n, FALSE)
        ELSE IF SrcOf(i).type = "OP_MEM" THEN Access(SrcOf(i).ptr, n, FALSE)
        ELSE IF Src2Of(i).type = "OP_MEM" THEN Access(Src2Of(i).ptr, Src2Of(i).bytes, FALSE)
        ELSE IF DstOf(i).type = "OP_MEM" THEN Access(DstOf(i).ptr, DstOf(i).bytes, TRUE)
        ELSE NoAccess
OutOf(i) ==
    IF "ImplicitOps" \in Flags(i) THEN NoAccess
    ELSE Access(ChosenOf(i).addr, ChosenOf(i).bytes, ChosenOf(i).write /\ "ReadOnly" \notin Flags(i))

LEMMA SameAccess ==
    ASSUME NEW a, NEW n, NEW v, NEW b, NEW m, NEW w
    PROVE  Access(a, n, v) = Access(b, m, w) <=> a = b /\ n = m /\ v = w
BY DEF Access

LEMMA OperandAccess ==
    ASSUME NEW i \in Instructions, Operand(i), NEW a, NEW n, NEW w \in BOOLEAN
    PROVE  Access(a, n, w) \in OperandAccesses(i) <=>
             /\ a = EffectiveAddr(i)
             /\ n = OperandBytes(i)
             /\ IF w THEN Stores(i) ELSE Loads(i)
<1> DEFINE ok(v) == IF v THEN Stores(i) ELSE Loads(i)
<1>1. Access(a, n, w) \in OperandAccesses(i) <=>
        \E v \in BOOLEAN : ok(v) /\ Access(a, n, w) = Access(EffectiveAddr(i), OperandBytes(i), v)
    BY DEF OperandAccesses
<1>2. \A v \in BOOLEAN : Access(a, n, w) = Access(EffectiveAddr(i), OperandBytes(i), v) <=>
        a = EffectiveAddr(i) /\ n = OperandBytes(i) /\ w = v
    BY SameAccess
<1> HIDE DEF ok
<1>3. (\E v \in BOOLEAN : ok(v) /\ Access(a, n, w) = Access(EffectiveAddr(i), OperandBytes(i), v))
      <=> a = EffectiveAddr(i) /\ n = OperandBytes(i) /\ ok(w)
    BY <1>2, Zenon
<1> QED
    BY <1>1, <1>3 DEF ok

LEMMA NoStringAccess ==
    ASSUME NEW i \in Instructions, ~One(i, Strings)
    PROVE  StringAccesses(i) = {}
<1>1. \A b \in {\ha4, \ha6, \hac, \hae, \haa} : ~One(i, {b, b + 1})
    BY DEF One, Strings
<1>2. /\ ~ \E b \in {\ha4, \ha6, \hac} : One(i, {b, b + 1})
      /\ ~ \E b \in {\ha6, \hae} : One(i, {b, b + 1})
      /\ ~ \E b \in {\ha4, \haa} : One(i, {b, b + 1})
    BY <1>1
<1> QED
    BY <1>2 DEF StringAccesses

LEMMA LoaderFacts ==
    ASSUME NEW i \in Instructions, Loader(i)
    PROVE  /\ HasModRM(i) \/ Moffs(i)
           /\ InMemory(i) \/ Moffs(i) => Operand(i)
           /\ Loads(i) /\ ~Pops(i) /\ ~PushOperand(i) /\ StringAccesses(i) = {}
           /\ Pushes(i) <=> Group(i, \hff, {2})
           /\ SizeWrong(i) <=> One(i, {\h8e}) /\ InMemory(i) /\ OpBytes(i) # 2
           /\ One(i, {\h8e}) => OperandBytes(i) = 2 /\ ~Moffs(i)
           /\ ~DirectionWrong(i) /\ ~One(i, Strings)
           /\ DropsStack(i) <=> ~InMemory(i) /\ Group(i, \hff, {2})
           /\ ~Two(i, BitTests)
<1> USE DEF Loader, One, Two, Group, Arith, Arithmetic
<1>1. HasModRM(i) \/ Moffs(i)
    BY DEF HasModRM, WithModRM, WithModRM2, Moffs
<1>2. InMemory(i) \/ Moffs(i) => Operand(i)
    BY DEF Operand
<1>3. Loads(i) /\ ~Pops(i) /\ ~PushOperand(i)
    BY DEF Loads, Pops, PushOperand
<1>4. StringAccesses(i) = {}
  <2>1. ~One(i, Strings)
      BY DEF Strings
  <2> HIDE DEF One
  <2> QED
      BY <2>1, NoStringAccess
<1>5. Pushes(i) <=> Group(i, \hff, {2})
    BY DEF Pushes
<1>6. SizeWrong(i) <=> One(i, {\h8e}) /\ InMemory(i) /\ OpBytes(i) # 2
    BY DEF SizeWrong, PushOperand
<1>7. One(i, {\h8e}) => OperandBytes(i) = 2 /\ ~Moffs(i)
    BY DEF OperandBytes, Near, PushOperand, Moffs
<1>8. ~DirectionWrong(i) /\ ~One(i, Strings)
    BY DEF DirectionWrong, Strings
<1>9. DropsStack(i) <=> ~InMemory(i) /\ Group(i, \hff, {2})
    BY DEF DropsStack
<1>10. ~Two(i, BitTests)
    BY DEF BitTests
<1> HIDE DEF Loader, One, Two, Group, Arith, Arithmetic
<1> QED
    BY <1>1, <1>2, <1>3, <1>4, <1>5, <1>6, <1>7, <1>8, <1>9, <1>10

LEMMA StorerFacts ==
    ASSUME NEW i \in Instructions, Storer(i)
    PROVE  /\ HasModRM(i) \/ Moffs(i)
           /\ InMemory(i) \/ Moffs(i) => Operand(i)
           /\ ~Pushes(i) /\ ~PushOperand(i) /\ StringAccesses(i) = {}
           /\ Pops(i) <=> One(i, {\h8f})
           /\ One(i, {\h8f}) => ~Loads(i) /\ OperandBytes(i) = StackBytes(i)
           /\ SizeWrong(i) <=> \/ One(i, {\h8c}) /\ InMemory(i) /\ OpBytes(i) # 2
                               \/ Two(i, {\hc7}) /\ InMemory(i) /\ RexW(i)
                               \/ One(i, {\h8f}) /\ StackBytes(i) = 2
           /\ One(i, {\h8c}) => OperandBytes(i) = 2 /\ ~Moffs(i)
           /\ Two(i, {\hc7}) => OperandBytes(i) = (IF RexW(i) THEN 16 ELSE 8) /\ ~Moffs(i)
           /\ ~One(i, Strings)
           /\ DropsStack(i) <=> ~InMemory(i) /\ One(i, {\h8f})
           /\ ~Moffs(i) \/ ~Two(i, {\ha3, \hba})
<1> USE DEF Storer, One, Two, Group, Arith, Arithmetic
<1>1. HasModRM(i) \/ Moffs(i)
    BY DEF HasModRM, WithModRM, WithModRM2, Moffs, Shifts
<1>2. InMemory(i) \/ Moffs(i) => Operand(i)
    BY DEF Operand, BitTests
<1>3. ~Pushes(i) /\ ~PushOperand(i)
    BY DEF Pushes, PushOperand
<1>4. StringAccesses(i) = {}
  <2>1. ~One(i, Strings)
      BY DEF Strings
  <2> HIDE DEF One
  <2> QED
      BY <2>1, NoStringAccess
<1>5. Pops(i) <=> One(i, {\h8f})
    BY DEF Pops
<1>6. One(i, {\h8f}) => ~Loads(i) /\ OperandBytes(i) = StackBytes(i)
    BY DEF Loads, OperandBytes, Near, PushOperand
<1>7. SizeWrong(i) <=> \/ One(i, {\h8c}) /\ InMemory(i) /\ OpBytes(i) # 2
                       \/ Two(i, {\hc7}) /\ InMemory(i) /\ RexW(i)
                       \/ One(i, {\h8f}) /\ StackBytes(i) = 2
    BY DEF SizeWrong, PushOperand
<1>8. One(i, {\h8c}) => OperandBytes(i) = 2 /\ ~Moffs(i)
    BY DEF OperandBytes, Near, PushOperand, Moffs
<1>9. Two(i, {\hc7}) => OperandBytes(i) = (IF RexW(i) THEN 16 ELSE 8) /\ ~Moffs(i)
    BY DEF OperandBytes, Near, PushOperand, Moffs
<1>10. ~One(i, Strings)
    BY DEF Strings
<1>11. DropsStack(i) <=> ~InMemory(i) /\ One(i, {\h8f})
    BY DEF DropsStack
<1>12. ~Moffs(i) \/ ~Two(i, {\ha3, \hba})
    BY DEF Moffs
<1> HIDE DEF Storer, One, Two, Group, Arith, Arithmetic
<1> QED
    BY <1>1, <1>2, <1>3, <1>4, <1>5, <1>6, <1>7, <1>8, <1>9, <1>10, <1>11, <1>12

LEMMA StackWrites ==
    ASSUME NEW i \in Instructions
    PROVE  /\ \A x \in StackAccesses(i) : x.write \in BOOLEAN
           /\ \A x \in StackAccesses(i) : x.write => Pushes(i)
           /\ \A x \in StackAccesses(i) : ~x.write => Pops(i)
           /\ StackAccesses(i) = {} <=> ~Pushes(i) /\ ~Pops(i)
<1> DEFINE n == AtStack(i)
           up == Access([[NullAddr EXCEPT !.base = RSP] EXCEPT !.disp = Minus(n)], n, TRUE)
           down == Access([NullAddr EXCEPT !.base = RSP], n, FALSE)
<1>1. StackAccesses(i) = (IF Pushes(i) THEN {up} ELSE {}) \cup (IF Pops(i) THEN {down} ELSE {})
    BY DEF StackAccesses
<1>2. up.write = TRUE /\ down.write = FALSE
    BY DEF Access
<1> HIDE DEF up, down
<1> QED
    BY <1>1, <1>2

LEMMA OperandSizes ==
    ASSUME NEW i \in Instructions
    PROVE  StackBytes(i) \in {2, 8} /\ OperandBytes(i) \in {1, 2, 4, 8, 16}
<1>1. StackBytes(i) \in {2, 8}
    BY DEF StackBytes
<1>2. OpBytes(i) \in {2, 4, 8}
    BY Sizes
<1> QED
    BY <1>1, <1>2 DEF OperandBytes

LEMMA BitOfAddress ==
    ASSUME NEW i \in Instructions
    PROVE  [AddressRead(i) EXCEPT !.bit = <<>>] = AddressRead(i)
BY DEF AddressRead

\* The two properties of what is reported, for an instruction.
Real(i) == OutOf(i).bytes > 0 => (OutOf(i) \in Accesses(i) <=> ~Misreported(i))
Nothing(i) == OutOf(i).bytes = 0 => (Accesses(i) = {} <=> ~DropsStack(i))

LEMMA OfAccess ==
    ASSUME NEW a, NEW n, NEW w
    PROVE  /\ Access(a, n, w).addr = a
           /\ Access(a, n, w).bytes = n
           /\ Access(a, n, w).write = w
BY DEF Access

LEMMA LoaderOutcome ==
    ASSUME NEW i \in Instructions, Loader(i)
    PROVE  Real(i) /\ Nothing(i)
<1>1. /\ "ImplicitOps" \notin Flags(i) /\ "Push" \notin Flags(i) /\ "Pop" \notin Flags(i)
      /\ "ModRM" \in Flags(i) <=> HasModRM(i)
      /\ SrcMemSize(i) = IF One(i, {\h8e}) THEN OpBytes(i) ELSE OperandBytes(i)
    BY LoaderFlags
<1>2. /\ SrcOf(i) = IF InReg(i) THEN RegOperand(SrcMemSize(i))
                    ELSE MemoryOperand(AddressRead(i), SrcMemSize(i))
      /\ Src2Of(i) = None
      /\ DstOf(i).type = "OP_REG"
    BY LoaderOperands
<1>3. CASE InReg(i)
  <2>1. HasModRM(i) /\ ~InMemory(i) /\ ~Moffs(i)
      BY <1>1, <1>3, MoffsNoModRM DEF InReg, InMemory
  <2>2. OutOf(i).bytes = 0
    <3>1. SrcOf(i).type = "OP_REG" /\ Src2Of(i).type = "OP_REG"
        BY <1>2, <1>3 DEF RegOperand, None
    <3>2. ChosenOf(i) = NoAccess
        BY <1>1, <1>2, <3>1 DEF ChosenOf
    <3> QED
        BY <1>1, <3>2 DEF OutOf, NoAccess, Access
  <2>3. OperandAccesses(i) = {}
      BY <2>1 DEF OperandAccesses, Operand
  <2>4. Accesses(i) = StackAccesses(i)
      BY <2>3, LoaderFacts DEF Accesses
  <2> QED
      BY <2>1, <2>2, <2>4, LoaderFacts, StackWrites DEF Real, Nothing
<1>4. CASE ~InReg(i)
  <2> DEFINE n == SrcMemSize(i)
  <2>1. InMemory(i) \/ Moffs(i)
      BY <1>1, <1>4, LoaderFacts DEF InReg, InMemory
  <2>2. OutOf(i) = Access(AddressRead(i), n, FALSE)
    <3>1. /\ SrcOf(i).type = "OP_MEM" /\ SrcOf(i).ptr = AddressRead(i)
          /\ SrcOf(i).bytes = n
        BY <1>2, <1>4 DEF MemoryOperand
    <3>2. ChosenOf(i) = Access(AddressRead(i), n, FALSE)
        BY <1>1, <3>1 DEF ChosenOf
    <3> QED
      <4>1. ChosenOf(i).addr = AddressRead(i) /\ ChosenOf(i).bytes = n
          BY <3>2 DEF Access
      <4>2. ChosenOf(i).write = FALSE
          BY <3>2 DEF Access
      <4>3. (ChosenOf(i).write /\ "ReadOnly" \notin Flags(i)) = FALSE
          BY <4>2
      <4> QED
          BY <1>1, <4>1, <4>3 DEF OutOf
  <2>3. n > 0
      BY <1>1, OperandSizes, Sizes
  <2>4. OutOf(i).bytes > 0
    <3> HIDE DEF n
    <3>1. OutOf(i).bytes = n
        BY <2>2 DEF Access
    <3> QED
        BY <2>3, <3>1
  <2>5. OutOf(i) \notin StackAccesses(i)
    <3>1. OutOf(i).write = FALSE
        BY <2>2 DEF Access
    <3> QED
        BY <3>1, StackWrites, LoaderFacts
  <2>6. OutOf(i) \in Accesses(i) <=> OutOf(i) \in OperandAccesses(i)
      BY <2>5, LoaderFacts DEF Accesses
  <2>7. OutOf(i) \in OperandAccesses(i) <=> AddressRead(i) = EffectiveAddr(i) /\ n = OperandBytes(i)
      BY <2>1, <2>2, LoaderFacts, OperandAccess
  <2>8. AddressRead(i) = EffectiveAddr(i) <=> ~AddressWrong(i)
      BY <2>1, LoaderFacts, AddressRight, BitOfAddress
  <2>9. n = OperandBytes(i) <=> ~SizeWrong(i)
      BY <1>1, <2>1, LoaderFacts
  <2>10. Misreported(i) <=> AddressWrong(i) \/ SizeWrong(i)
      BY <2>1, LoaderFacts DEF Misreported, ReportsOperand
  <2> QED
      BY <2>4, <2>6, <2>7, <2>8, <2>9, <2>10 DEF Real, Nothing
<1> QED
    BY <1>3, <1>4

LEMMA StorerOutcome ==
    ASSUME NEW i \in Instructions, Storer(i)
    PROVE  Real(i) /\ Nothing(i)
<1>1. /\ "ImplicitOps" \notin Flags(i) /\ "Push" \notin Flags(i) /\ "Pop" \notin Flags(i)
      /\ "ModRM" \in Flags(i) <=> HasModRM(i)
      /\ "BitOp" \in Flags(i) <=> Two(i, BitTests)
      /\ DstMemSize(i) = IF One(i, {\h8c}) THEN OpBytes(i)
                         ELSE IF One(i, {\h8f}) \/ Two(i, {\hc7}) THEN 8 ELSE OperandBytes(i)
      /\ "ReadOnly" \in Flags(i) => Loads(i) /\ ~Two(i, {\ha3, \hba})
      /\ "ReadOnly" \notin Flags(i) =>
           (Stores(i) <=> ~ (Two(i, {\ha3}) \/ (Two(i, {\hba}) /\ Reg(i.modrm) = 4)))
    BY StorerFlags
<1>2. /\ SrcOf(i).type # "OP_MEM" /\ Src2Of(i).type # "OP_MEM"
      /\ DstOf(i) = IF InReg(i) THEN RegOperand(Size(i)) ELSE MemoryOperand(BitRead(i), DstMemSize(i))
  <2>1. /\ "SrcMem" \notin Flags(i) /\ "SrcMem16" \notin Flags(i) /\ "SrcMem32" \notin Flags(i)
        /\ "SrcSI" \notin Flags(i) /\ "DstReg" \notin Flags(i) /\ "DstAcc" \notin Flags(i)
        /\ Flags(i) \cap {"DstMem", "DstMem64"} # {}
      BY StorerFlags
  <2>2. SrcOf(i).type # "OP_MEM"
    <3>1. Flags(i) \cap {"SrcMem", "SrcMem16", "SrcMem32"} = {}
        BY <2>1
    <3> QED
        BY <3>1, <2>1 DEF SrcOf, RegOperand, ImmOperand, None
  <2>3. Src2Of(i).type # "OP_MEM"
      BY DEF Src2Of, RegOperand, ImmOperand, None
  <2>4. DstOf(i) = IF InReg(i) THEN RegOperand(Size(i)) ELSE MemoryOperand(BitRead(i), DstMemSize(i))
    <3>1. Flags(i) \cap {"DstReg", "DstAcc"} = {}
        BY <2>1
    <3>2. CASE "DstDI" \notin Flags(i)
        BY <3>1, <3>2, <2>1 DEF DstOf
    <3>3. "DstDI" \notin Flags(i)
        BY StorerFlags
    <3> QED
        BY <3>2, <3>3
  <2> QED
      BY <2>2, <2>3, <2>4
<1>3. CASE InReg(i)
  <2>1. HasModRM(i) /\ ~InMemory(i) /\ ~Moffs(i)
      BY <1>1, <1>3, MoffsNoModRM DEF InReg, InMemory
  <2>2. OutOf(i).bytes = 0
    <3>1. DstOf(i).type = "OP_REG"
        BY <1>2, <1>3 DEF RegOperand, None
    <3>2. ChosenOf(i) = NoAccess
        BY <1>1, <1>2, <3>1 DEF ChosenOf
    <3> QED
        BY <1>1, <3>2 DEF OutOf, NoAccess, Access
  <2>3. OperandAccesses(i) = {}
      BY <2>1 DEF OperandAccesses, Operand
  <2>4. Accesses(i) = StackAccesses(i)
      BY <2>3, StorerFacts DEF Accesses
  <2> QED
      BY <2>1, <2>2, <2>4, StorerFacts, StackWrites DEF Real, Nothing
<1>4. CASE ~InReg(i)
  <2> DEFINE n == DstMemSize(i)
             w == "ReadOnly" \notin Flags(i)
  <2>1. InMemory(i) \/ Moffs(i)
      BY <1>1, <1>4, StorerFacts DEF InReg, InMemory
  <2>2. OutOf(i) = Access(BitRead(i), n, w)
    <3>1. DstOf(i).type = "OP_MEM" /\ DstOf(i).ptr = BitRead(i) /\ DstOf(i).bytes = n
        BY <1>2, <1>4 DEF MemoryOperand
    <3>2. ChosenOf(i) = Access(BitRead(i), n, TRUE)
        BY <1>1, <1>2, <3>1 DEF ChosenOf
    <3>3. /\ ChosenOf(i).addr = BitRead(i) /\ ChosenOf(i).bytes = n
          /\ (ChosenOf(i).write /\ "ReadOnly" \notin Flags(i)) = w
      <4> HIDE DEF n
      <4>1. ChosenOf(i).addr = BitRead(i) /\ ChosenOf(i).bytes = n
          BY <3>2 DEF Access
      <4>2. ChosenOf(i).write = TRUE
          BY <3>2 DEF Access
      <4> QED
          BY <4>1, <4>2
    <3> QED
        BY <1>1, <3>3 DEF OutOf
  <2>3. n > 0
      BY <1>1, OperandSizes, Sizes
  <2>4. OutOf(i).bytes > 0
      BY <2>2, <2>3, OfAccess
  <2>5. OutOf(i) \notin StackAccesses(i)
    <3>1. OutOf(i).write = w
        BY <2>2, OfAccess
    <3>2. CASE One(i, {\h8f})
        BY <3>1, <3>2, <1>1, StorerFacts, StackWrites
    <3>3. CASE ~One(i, {\h8f})
        BY <3>3, StorerFacts, StackWrites
    <3> QED
        BY <3>2, <3>3
  <2>6. OutOf(i) \in Accesses(i) <=> OutOf(i) \in OperandAccesses(i)
      BY <2>5, StorerFacts DEF Accesses
  <2>7. OutOf(i) \in OperandAccesses(i) <=>
          /\ BitRead(i) = EffectiveAddr(i)
          /\ n = OperandBytes(i)
          /\ IF w THEN Stores(i) ELSE Loads(i)
    <3>1. Operand(i) /\ w \in BOOLEAN
        BY <2>1, StorerFacts
    <3> HIDE DEF n, w
    <3> QED
        BY <2>2, <3>1, OperandAccess
  <2>8. BitRead(i) = EffectiveAddr(i) <=> ~AddressWrong(i)
    <3>1. CASE Two(i, BitTests)
      <4> DEFINE b == <<"unsigned", 8 * Bit(Rex(i), 2) + Reg(i.modrm), Size(i)>>
      <4>1. BitRead(i) = [AddressRead(i) EXCEPT !.bit = b]
          BY <1>1, <3>1 DEF BitRead
      <4>2. \E r, k : b = <<"unsigned", r, k>>
          OBVIOUS
      <4>3. b # <<>>
          OBVIOUS
      <4> HIDE DEF b
      <4> QED
          BY <2>1, <3>1, <4>1, <4>2, <4>3, AddressRight
    <3>2. CASE ~Two(i, BitTests)
      <4>1. BitRead(i) = [AddressRead(i) EXCEPT !.bit = <<>>]
          BY <1>1, <3>2, BitOfAddress DEF BitRead
      <4> QED
          BY <2>1, <3>2, <4>1, AddressRight
    <3> QED
        BY <3>1, <3>2
  <2>9. n = OperandBytes(i) <=> ~SizeWrong(i)
    <3>1. ~ (One(i, {\h8c}) /\ One(i, {\h8f})) /\ ~ (One(i, {\h8c}) /\ Two(i, {\hc7}))
          /\ ~ (One(i, {\h8f}) /\ Two(i, {\hc7}))
        BY DEF One, Two
    <3> QED
        BY <3>1, <1>1, <2>1, StorerFacts, OperandSizes
  <2>10. (IF w THEN Stores(i) ELSE Loads(i)) <=> ~DirectionWrong(i)
    <3>1. DirectionWrong(i) <=> Two(i, {\ha3}) \/ (Two(i, {\hba}) /\ Reg(i.modrm) = 4)
      <4>1. Two(i, {\ha3}) \/ Two(i, {\hba}) => Two(i, {\ha3, \hba})
          BY DEF Two
      <4> QED
          BY <4>1, <2>1, StorerFacts DEF DirectionWrong
    <3>2. Two(i, {\ha3}) \/ Two(i, {\hba}) => Two(i, {\ha3, \hba})
        BY DEF Two
    <3> QED
        BY <1>1, <3>1, <3>2
  <2>11. Misreported(i) <=> AddressWrong(i) \/ SizeWrong(i) \/ DirectionWrong(i)
      BY <2>1, StorerFacts DEF Misreported, ReportsOperand
  <2> QED
      BY <2>4, <2>6, <2>7, <2>8, <2>9, <2>10, <2>11 DEF Real, Nothing
<1> QED
    BY <1>3, <1>4

LEMMA PusherOutcome ==
    ASSUME NEW i \in Instructions, Pusher(i)
    PROVE  Real(i) /\ Nothing(i)
<1> DEFINE n == SrcOf(i).bytes
<1>1. /\ {"Stack", "Push"} \subseteq Flags(i) /\ "ImplicitOps" \notin Flags(i)
      /\ "ReadOnly" \notin Flags(i)
      /\ n = IF One(i, {\h68}) THEN 4 ELSE IF One(i, {\h6a}) THEN 1 ELSE 8
    BY PusherFlags
<1> HIDE DEF n
<1>2. OutOf(i) = Access(Below(n), n, TRUE)
  <2>1. ChosenOf(i) = Access(Below(n), n, TRUE)
      BY <1>1 DEF ChosenOf, n
  <2>2. ChosenOf(i).addr = Below(n) /\ ChosenOf(i).bytes = n
      BY <2>1 DEF Access
  <2>3. ChosenOf(i).write = TRUE
      BY <2>1 DEF Access
  <2>4. (ChosenOf(i).write /\ "ReadOnly" \notin Flags(i)) = TRUE
      BY <2>3, <1>1
  <2> QED
      BY <1>1, <2>2, <2>4 DEF OutOf
<1>3. OutOf(i).bytes = n /\ OutOf(i).write = TRUE
    BY <1>2 DEF Access
<1>4. /\ ~Stores(i) \/ ~Operand(i)
      /\ ~ReportsOperand(i)
  <2>1. CASE PushOperand(i)
      BY <2>1 DEF PushOperand, Group, One, Moffs, Stores, ReportsOperand
  <2>2. CASE One(i, \h50..\h57 \cup {\h68, \h6a})
      BY <2>2 DEF One, Two, Operand, Moffs, InMemory, HasModRM, WithModRM, Arithmetic, Shifts,
                  ReportsOperand
  <2> QED
      BY <2>1, <2>2 DEF Pusher
<1>5. OutOf(i) \notin OperandAccesses(i)
  <2>1. ASSUME NEW x \in OperandAccesses(i) PROVE x.write = FALSE
      BY <1>4 DEF OperandAccesses, Access
  <2> QED
      BY <1>3, <2>1
<1>6. /\ ~One(i, Strings) /\ ~DirectionWrong(i) /\ Pushes(i) /\ ~Pops(i)
      /\ AtStack(i) = StackBytes(i)
    BY DEF Pusher, PushOperand, Group, One, Two, Strings, DirectionWrong, Pushes, Pops, AtStack, Near
<1>7. SizeWrong(i) <=> \/ One(i, {\h68, \h6a})
                       \/ StackBytes(i) = 2
  <2>1. CASE PushOperand(i)
      BY <2>1 DEF PushOperand, Group, One, Two, SizeWrong
  <2>2. CASE One(i, \h50..\h57 \cup {\h68, \h6a})
      BY <2>2 DEF PushOperand, Group, One, Two, SizeWrong
  <2> QED
      BY <2>1, <2>2 DEF Pusher
<1>8. StringAccesses(i) = {}
    BY <1>6, NoStringAccess
<1>9. StackAccesses(i) = {Access(Below(StackBytes(i)), StackBytes(i), TRUE)}
    BY <1>6 DEF StackAccesses, Below, Top
<1>10. OutOf(i) \in Accesses(i) <=> n = StackBytes(i)
  <2>1. OutOf(i) \in Accesses(i) <=> OutOf(i) = Access(Below(StackBytes(i)), StackBytes(i), TRUE)
      BY <1>5, <1>8, <1>9 DEF Accesses
  <2>2. OutOf(i) = Access(Below(StackBytes(i)), StackBytes(i), TRUE) => n = StackBytes(i)
      BY <1>3 DEF Access
  <2>3. n = StackBytes(i) => OutOf(i) = Access(Below(StackBytes(i)), StackBytes(i), TRUE)
      BY <1>2
  <2> QED
      BY <2>1, <2>2, <2>3
<1>11. n = StackBytes(i) <=> ~SizeWrong(i)
  <2>1. One(i, {\h68, \h6a}) <=> One(i, {\h68}) \/ One(i, {\h6a})
      BY DEF One
  <2> QED
      BY <2>1, <1>1, <1>7, OperandSizes
<1> QED
    BY <1>1, <1>3, <1>4, <1>6, <1>10, <1>11 DEF Real, Nothing, Misreported

LEMMA StringBase ==
    ASSUME NEW i \in Instructions
    PROVE  \A x \in StringAccesses(i) : x.addr.base # NoReg
<1> DEFINE n == IF i.op % 2 = 0 THEN 1 ELSE OpBytes(i)
           at(r, s) == Sized(i, [NullAddr EXCEPT !.base = r, !.seg = s])
           a == Access(at(RSI, Segment(i)), n, FALSE)
           b == Access(at(RDI, "none"), n, FALSE)
           w == Access(at(RDI, "none"), n, TRUE)
           loads == \E x \in {\ha4, \ha6, \hac} : One(i, {x, x + 1})
           scans == \E x \in {\ha6, \hae} : One(i, {x, x + 1})
           stores == \E x \in {\ha4, \haa} : One(i, {x, x + 1})
<1>0. StringAccesses(i) = (IF loads THEN {a} ELSE {}) \cup (IF scans THEN {b} ELSE {})
                          \cup (IF stores THEN {w} ELSE {})
    BY DEF StringAccesses
<1> HIDE DEF loads, scans, stores
<1>1. StringAccesses(i) \subseteq {a, b, w}
  <2> HIDE DEF a, b, w
  <2> QED
      BY <1>0
<1>2. at(RSI, Segment(i)).base = RSI /\ at(RDI, "none").base = RDI
    BY DEF Sized, NullAddr
<1>3. a.addr.base = RSI /\ b.addr.base = RDI /\ w.addr.base = RDI
  <2> HIDE DEF at, n
  <2> QED
      BY <1>2 DEF Access
<1> HIDE DEF a, b, w
<1> QED
    BY <1>1, <1>3 DEF RSI, RDI, NoReg

LEMMA StringOutcome ==
    ASSUME NEW i \in Instructions, StringOp(i)
    PROVE  Real(i) /\ Nothing(i)
<1>1. /\ "ImplicitOps" \notin Flags(i) /\ "Push" \notin Flags(i) /\ "Pop" \notin Flags(i)
      /\ ~HasModRM(i) /\ ~Moffs(i) /\ Src2Of(i) = None
      /\ \/ SrcOf(i) = MemoryOperand(NullAddr, Size(i))
         \/ SrcOf(i) = None /\ DstOf(i) = MemoryOperand(NullAddr, Size(i))
    BY StringOpFlags
<1>2. ChosenOf(i).addr = NullAddr /\ ChosenOf(i).bytes = Size(i)
  <2>1. Src2Of(i).type = "OP_REG"
      BY <1>1 DEF None
  <2>2. CASE SrcOf(i) = MemoryOperand(NullAddr, Size(i))
    <3>1. SrcOf(i).type = "OP_MEM" /\ SrcOf(i).ptr = NullAddr /\ SrcOf(i).bytes = Size(i)
        BY <2>2 DEF MemoryOperand
    <3>2. ChosenOf(i) = Access(NullAddr, Size(i), FALSE)
        BY <1>1, <3>1 DEF ChosenOf
    <3> QED
        BY <3>2 DEF Access
  <2>3. CASE SrcOf(i) = None /\ DstOf(i) = MemoryOperand(NullAddr, Size(i))
    <3>1. /\ SrcOf(i).type = "OP_REG"
          /\ DstOf(i).type = "OP_MEM" /\ DstOf(i).ptr = NullAddr /\ DstOf(i).bytes = Size(i)
        BY <2>3 DEF MemoryOperand, None
    <3>2. ChosenOf(i) = Access(NullAddr, Size(i), TRUE)
        BY <1>1, <2>1, <3>1 DEF ChosenOf
    <3> QED
        BY <3>2 DEF Access
  <2> QED
      BY <1>1, <2>2, <2>3
<1>3. OutOf(i).addr = NullAddr /\ OutOf(i).bytes = Size(i)
    BY <1>1, <1>2 DEF OutOf, Access
<1>4. Size(i) > 0
    BY Sizes DEF Size, OpSize
<1>5. OperandAccesses(i) = {} /\ StackAccesses(i) = {}
  <2>1. ~Operand(i)
      BY <1>1 DEF Operand, InMemory
  <2>2. ~Pushes(i) /\ ~Pops(i)
      BY DEF StringOp, Pushes, Pops, One, Group
  <2> QED
      BY <2>1, <2>2 DEF OperandAccesses, StackAccesses
<1>6. OutOf(i) \notin Accesses(i)
  <2>1. NullAddr.base = NoReg
      BY DEF NullAddr
  <2> QED
      BY <2>1, <1>3, <1>5, StringBase DEF Accesses
<1>7. Misreported(i)
    BY DEF StringOp, Misreported, One, Strings
<1> QED
    BY <1>3, <1>4, <1>6, <1>7 DEF Real, Nothing

LEMMA SilentFacts ==
    ASSUME NEW i \in Instructions, Silent(i) \/ Implicit(i) \/ Unread(i)
    PROVE  Accesses(i) = {} <=> ~DropsStack(i)
<1> USE DEF Silent, Implicit, Unread, One, Two
<1>1. ~Operand(i)
    BY DEF Operand, InMemory, HasModRM, WithModRM, Arithmetic, Shifts, Moffs
<1>2. ~One(i, Strings)
    BY DEF Strings
<1>3. Pushes(i) \/ Pops(i) <=> DropsStack(i)
    BY DEF Pushes, Pops, DropsStack, Group
<1> HIDE DEF Silent, Implicit, Unread, One, Two
<1>4. OperandAccesses(i) = {}
    BY <1>1 DEF OperandAccesses
<1>5. StringAccesses(i) = {}
    BY <1>2, NoStringAccess
<1> QED
    BY <1>3, <1>4, <1>5, StackWrites DEF Accesses

LEMMA SilentOutcome ==
    ASSUME NEW i \in Instructions, Silent(i) \/ Implicit(i)
    PROVE  Real(i) /\ Nothing(i)
<1>1. OutOf(i).bytes = 0
  <2>1. CASE "ImplicitOps" \in Flags(i)
      BY <2>1 DEF OutOf, NoAccess, Access
  <2>2. CASE "ImplicitOps" \notin Flags(i)
    <3>1. /\ "Push" \notin Flags(i) /\ ("Pop" \in Flags(i) => SrcOf(i).bytes = 0)
          /\ SrcOf(i).type # "OP_MEM" /\ Src2Of(i).type # "OP_MEM" /\ DstOf(i).type # "OP_MEM"
        BY <2>2, SilentFlags, ImplicitFlags
    <3>2. \/ ChosenOf(i) = NoAccess
          \/ ChosenOf(i) = Access(Top, SrcOf(i).bytes, FALSE) /\ SrcOf(i).bytes = 0
        BY <3>1 DEF ChosenOf
    <3>3. ChosenOf(i).bytes = 0
        BY <3>2 DEF NoAccess, Access
    <3> QED
        BY <2>2, <3>3 DEF OutOf, Access
  <2> QED
      BY <2>1, <2>2
<1> QED
    BY <1>1, SilentFacts DEF Real, Nothing

LEMMA Outcome ==
    ASSUME NEW i \in Instructions, Decoded(i)
    PROVE  Real(i) /\ Nothing(i)
BY DecodedLayout, LoaderOutcome, StorerOutcome, PusherOutcome, StringOutcome, SilentOutcome

(***************************************************************************)
(* The opcode.                                                             *)
(***************************************************************************)
\* A byte that is no prefix ends the prefixes, and 0F says how long the opcode is.
LEMMA FirstByte ==
    ASSUME NEW i \in Instructions
    PROVE  /\ 15 \notin PrefixBytes /\ opcode_table(15) = {}
           /\ ~i.two => i.op \notin PrefixBytes /\ i.op # 15
<1>1. 15 \notin PrefixBytes /\ opcode_table(15) = {}
    BY DEF PrefixBytes, Legacy, RexBytes, opcode_table, arithmetic_rows
<1>2. Covered(i) /\ i.op \in 0..255
    BY InstructionType
<1>3. ~i.two => i.op \notin PrefixBytes /\ i.op # 15
    BY <1>2 DEF Covered, One, Two, WithModRM, Arithmetic, Shifts, PrefixBytes, Legacy, RexBytes
<1> QED
    BY <1>1, <1>3

\* Opcode looks at a ModRM byte only where there is one.
LEMMA GroupHasModRM ==
    ASSUME NEW i \in Instructions,
           "Group" \in (IF i.two THEN twobyte_table(i.op) ELSE opcode_table(i.op))
    PROVE  HasModRM(i)
<1>1. Covered(i) /\ i.op \in 0..255
    BY InstructionType
<1>2. CASE i.two
    BY <1>1, <1>2 DEF Covered, One, Two, HasModRM
<1>3. CASE ~i.two
  <2>1. ASSUME ~HasModRM(i)
        PROVE  i.op \in \h50..\h5f \cup {\h68, \h6a, \h90, \h98, \h99, \h9c, \h9d} \cup \ha0..\ha7
                        \cup \haa..\haf \cup {\hc3, \he8}
      BY <1>1, <1>3, <2>1 DEF Covered, One, Two, HasModRM
  <2>2. ASSUME ~HasModRM(i) PROVE "Group" \notin opcode_table(i.op)
      BY <2>1, <2>2, OneByteRows DEF Width
  <2> QED
      BY <1>3, <2>2
<1> QED
    BY <1>2, <1>3

\* Flags that occur only in rows of no instruction here.
LEMMA OtherRows ==
    ASSUME NEW i \in Instructions,
           Loader(i) \/ Storer(i) \/ Pusher(i) \/ StringOp(i) \/ Silent(i) \/ Implicit(i)
    PROVE  /\ "Src2Imm16" \notin Flags(i) /\ "Src2Mem16" \notin Flags(i) /\ "Known" \notin Flags(i)
           /\ "BitOp" \in Flags(i) => Flags(i) = {"DstMem", "SrcReg", "ModRM", "BitOp"}
<1> USE DEF One, Two, Group, ToReg, ToMem, Width, Immediate
<1>1. CASE Loader(i)
    BY <1>1, OneByteFlags, GroupFlags, TwoByteFlags DEF Loader, Arith
<1>2. CASE Storer(i)
    BY <1>2, OneByteFlags, GroupFlags, TwoByteFlags DEF Storer, Arith
<1>3. CASE Pusher(i)
    BY <1>3, OneByteFlags, GroupFlags DEF Pusher, PushOperand
<1>4. CASE StringOp(i)
    BY <1>4, OneByteFlags DEF StringOp
<1>5. CASE Silent(i)
    BY <1>5, OneByteFlags DEF Silent
<1>6. CASE Implicit(i)
    BY <1>6, OneByteFlags, TwoByteFlags DEF Implicit
<1> QED
    BY <1>1, <1>2, <1>3, <1>4, <1>5, <1>6

(***************************************************************************)
(* The inductive invariant: at every stage c is a function of the          *)
(* instruction.                                                            *)
(***************************************************************************)
Fields == {"eip", "twobyte", "b", "op_bytes", "ad_bytes", "rex_prefix", "seg_override", "d",
           "modrm_mod", "modrm_reg", "modrm_ea", "src", "src2", "dst"}

\* What the first n prefixes say.
Among(i, n, b) == \E k \in 1..n : i.pre[k] = b
RexUpTo(i, n) == IF n > 0 /\ i.pre[n] \in RexBytes THEN i.pre[n] ELSE 0

Prefixed(i) ==
    /\ c.eip \in Nat /\ c.eip <= Len(i.pre)
    /\ c.op_bytes = (IF Among(i, c.eip, \h66) THEN 2 ELSE 4)
    /\ c.ad_bytes = (IF Among(i, c.eip, \h67) THEN 4 ELSE 8)
    /\ c.rex_prefix = RexUpTo(i, c.eip)

PastOpcode == {"address", "source", "source2", "destination", "report"}
Opened(i) ==
    /\ Decoded(i)
    /\ c.twobyte = i.two /\ c.b = i.op /\ c.d = Flags(i)
    /\ c.op_bytes = OpSize(i) /\ c.ad_bytes = AdBytes(i) /\ c.rex_prefix = Rex(i)

Addressed(i) ==
    /\ c.modrm_ea = AddressRead(i)
    /\ "ModRM" \in Flags(i) => c.modrm_mod = Mod(i.modrm)
    /\ "ModRM" \in Flags(i) => c.modrm_reg = 8 * Bit(Rex(i), 2) + Reg(i.modrm)

EndRead(i) == AfterModRM(i) + DispRead(i)

DecodeInv ==
    /\ inst \in Instructions /\ code = Encode(inst) /\ DOMAIN c = Fields
    /\ stage \in {"prefixes", "done", "unknown"} \cup PastOpcode
    /\ stage # "done" => out = NoAccess
    /\ stage = "prefixes" => Prefixed(inst)
    /\ stage \in {"prefixes"} \cup (PastOpcode \ {"report"}) => c.dst = None
    /\ stage \in PastOpcode => Opened(inst)
    /\ stage \in PastOpcode \ {"address"} => Addressed(inst)
    /\ stage = "address" => c.eip = Len(inst.pre) + OpcodeBytes(inst)
    /\ stage = "source" => c.eip = EndRead(inst)
    /\ stage = "source2" => c.eip = EndRead(inst) + ImmOf(SrcOf(inst))
    /\ stage \in {"destination", "report"} => c.eip = EndRead(inst) + ImmRead(inst)
    /\ stage \in {"source2", "destination", "report"} => c.src = SrcOf(inst)
    /\ stage \in {"destination", "report"} => c.src2 = Src2Of(inst)
    /\ stage = "report" => c.dst = DstOf(inst) /\ "ImplicitOps" \notin Flags(inst)
    /\ stage = "done" =>
         \/ Flags(inst) = {"Known"} /\ out = NoAccess
         \/ /\ Decoded(inst)
            /\ c.eip = EndRead(inst) + ImmRead(inst)
            /\ out = OutOf(inst)

LEMMA DecodeInit ==
    ASSUME Init
    PROVE  DecodeInv
<1>1. inst \in Instructions
    BY DEF Init
<1>2. Len(inst.pre) \in Nat
    BY <1>1, InstructionType
<1>3. ~Among(inst, 0, \h66) /\ ~Among(inst, 0, \h67)
    BY DEF Among
<1>4. Prefixed(inst)
    BY <1>2, <1>3 DEF Init, Prefixed, RexUpTo
<1>5. DOMAIN c = Fields /\ c.dst = None
    BY DEF Init, Fields
<1> QED
    BY <1>1, <1>4, <1>5 DEF Init, DecodeInv, PastOpcode

LEMMA PrefixStep ==
    ASSUME DecodeInv, LegacyPrefix
    PROVE  DecodeInv'
<1> DEFINE i == inst
           p == Peek(0)
<1>1. /\ i \in Instructions /\ code = Encode(i) /\ DOMAIN c = Fields /\ stage = "prefixes"
      /\ Prefixed(i) /\ c.dst = None /\ out = NoAccess
    BY DEF DecodeInv, LegacyPrefix, Step, PastOpcode
<1>2. inst' = inst /\ code' = code /\ stage' = "prefixes" /\ out' = out
    BY DEF LegacyPrefix, Step
<1>3. /\ Len(i.pre) \in Nat /\ \A k \in 1..Len(i.pre) : i.pre[k] \in PrefixBytes
      /\ \A k \in 1..Len(i.pre) : code[k] = i.pre[k]
    BY <1>1, InstructionType, Layout
<1>4. c.eip \in Nat /\ c.eip <= Len(i.pre) /\ p = code[c.eip + 1] /\ p \in PrefixBytes
    BY <1>1 DEF Prefixed, Peek, LegacyPrefix
<1>5. c.eip < Len(i.pre)
  <2>1. SUFFICES ASSUME c.eip = Len(i.pre) PROVE FALSE
      BY <1>3, <1>4
  <2>2. CASE i.two
      BY <2>1, <2>2, <1>1, <1>4, Layout, FirstByte
  <2>3. CASE ~i.two
    <3>1. OpcodeBytes(i) = 1
        BY <2>3 DEF OpcodeBytes
    <3>2. code[Len(i.pre) + OpcodeBytes(i)] = i.op
        BY <1>1, Layout
    <3> QED
        BY <2>1, <2>3, <3>1, <3>2, <1>1, <1>4, FirstByte
  <2> QED
      BY <2>2, <2>3
<1>6. p = i.pre[c.eip + 1]
    BY <1>3, <1>4, <1>5
<1>7. /\ c'.eip = c.eip + 1
      /\ c'.op_bytes = (IF p = \h66 THEN 2 ELSE c.op_bytes)
      /\ c'.ad_bytes = (IF p = \h67 THEN 4 ELSE c.ad_bytes)
      /\ c'.rex_prefix = RexAfter(p)
      /\ c'.dst = c.dst
      /\ DOMAIN c' = Fields
    BY <1>1 DEF LegacyPrefix, Fields
<1> HIDE DEF p
<1>8. \A b : Among(i, c.eip + 1, b) <=> Among(i, c.eip, b) \/ p = b
    BY <1>4, <1>6 DEF Among
<1>9. RexUpTo(i, c.eip + 1) = RexAfter(p)
    BY <1>4, <1>6 DEF RexUpTo, RexAfter
<1>10. Prefixed(i)'
    BY <1>1, <1>2, <1>4, <1>5, <1>7, <1>8, <1>9, <1>3 DEF Prefixed
<1> QED
    BY <1>1, <1>2, <1>7, <1>10 DEF DecodeInv, PastOpcode

\* The prefixes together.
LEMMA AllPrefixes ==
    ASSUME NEW i \in Instructions
    PROVE  /\ \A b : Among(i, Len(i.pre), b) <=> Has(i, b)
           /\ RexUpTo(i, Len(i.pre)) = Rex(i)
<1>1. Len(i.pre) \in Nat /\ DOMAIN i.pre = 1..Len(i.pre) /\ i.pre \in Seq(Int)
    BY InstructionType
<1>2. \A b : Among(i, Len(i.pre), b) <=> Has(i, b)
    BY <1>1 DEF Among, Has
<1>3. Len(i.pre) > 0 <=> i.pre # <<>>
    BY <1>1
<1>4. RexUpTo(i, Len(i.pre)) = Rex(i)
    BY <1>1, <1>3 DEF RexUpTo, Rex, Last
<1> QED
    BY <1>2, <1>4

LEMMA OpcodeStep ==
    ASSUME DecodeInv, Opcode
    PROVE  DecodeInv'
<1> DEFINE i == inst
           two == opcode_table(Peek(0)) = {} /\ Peek(0) = \h0f
           n == IF two THEN 2 ELSE 1
           b == Peek(n - 1)
           d0 == IF two THEN twobyte_table(b) ELSE opcode_table(b)
           d == CASE "Group" \notin d0 -> d0
                  [] {"Group", "GroupDual"} \subseteq d0 /\ Mod(Peek(n)) = 3 ->
                        group2_table(d0, Reg(Peek(n)))
                  [] OTHER -> group_table(d0, Reg(Peek(n)))
           W == Bit(c.rex_prefix, 3) = 1
<1>1. /\ i \in Instructions /\ code = Encode(i) /\ DOMAIN c = Fields /\ stage = "prefixes"
      /\ Prefixed(i) /\ c.dst = None /\ out = NoAccess
    BY DEF DecodeInv, Opcode, PastOpcode
<1>2. inst' = inst /\ code' = code /\ out' = out
    BY DEF Opcode
<1>3. Peek(0) \notin PrefixBytes
    BY DEF Opcode
<1>4. /\ c' = [c EXCEPT !.eip = @ + n, !.twobyte = two, !.b = b, !.d = d,
                        !.op_bytes = IF "Stack" \in d \/ W THEN 8 ELSE @]
      /\ stage' = CASE d = {} -> "unknown" [] d = {"Known"} -> "done" [] OTHER -> "address"
    BY DEF Opcode
<1>5. /\ Len(i.pre) \in Nat /\ \A k \in 1..Len(i.pre) : i.pre[k] \in PrefixBytes
      /\ \A k \in 1..Len(i.pre) : code[k] = i.pre[k]
    BY <1>1, InstructionType, Layout
<1>6. c.eip = Len(i.pre)
  <2>1. c.eip \in Nat /\ c.eip <= Len(i.pre)
      BY <1>1 DEF Prefixed
  <2>2. Peek(0) = code[c.eip + 1]
      BY <2>1 DEF Peek
  <2> QED
      BY <2>1, <2>2, <1>3, <1>5
<1>7. two = i.two /\ n = OpcodeBytes(i)
  <2>1. Peek(0) = code[Len(i.pre) + 1]
      BY <1>5, <1>6 DEF Peek
  <2>2. i.two \in BOOLEAN
      BY <1>1, InstructionType
  <2>3. CASE i.two
      BY <2>1, <2>3, <1>1, Layout, FirstByte DEF OpcodeBytes
  <2>4. CASE ~i.two
    <3>1. OpcodeBytes(i) = 1
        BY <2>4 DEF OpcodeBytes
    <3>2. code[Len(i.pre) + OpcodeBytes(i)] = i.op
        BY <1>1, Layout
    <3>3. Peek(0) # 15
        BY <2>1, <2>4, <3>1, <3>2, <1>1, FirstByte
    <3> QED
        BY <2>2, <2>4, <3>1, <3>3
  <2> QED
      BY <2>3, <2>4
<1> HIDE DEF two, n
<1>8. b = i.op
  <2>1. OpcodeBytes(i) \in {1, 2}
      BY DEF OpcodeBytes
  <2>2. b = code[Len(i.pre) + OpcodeBytes(i)]
      BY <2>1, <1>5, <1>6, <1>7 DEF Peek
  <2> QED
      BY <2>2, <1>1, Layout
<1> HIDE DEF b
<1>9. "Group" \in d0 => Peek(n) = i.modrm
  <2>1. SUFFICES ASSUME "Group" \in d0 PROVE Peek(n) = i.modrm
      OBVIOUS
  <2>2. HasModRM(i)
      BY <2>1, <1>1, <1>7, <1>8, GroupHasModRM
  <2>3. Peek(n) = code[Len(i.pre) + OpcodeBytes(i) + 1]
      BY <1>6, <1>7 DEF Peek
  <2> QED
      BY <2>2, <2>3, <1>1, Layout
<1>10. d = Flags(i)
    BY <1>7, <1>8, <1>9 DEF Flags
<1> HIDE DEF d0, d
<1>11. /\ c.op_bytes = (IF Has(i, \h66) THEN 2 ELSE 4)
       /\ c.ad_bytes = AdBytes(i)
       /\ c.rex_prefix = Rex(i)
    BY <1>1, <1>6, AllPrefixes DEF Prefixed, AdBytes
<1>12. W <=> RexW(i)
    BY <1>11 DEF RexW
<1> HIDE DEF W
<1>13. /\ c'.eip = c.eip + n /\ c'.twobyte = two /\ c'.b = b /\ c'.d = d
       /\ c'.op_bytes = (IF "Stack" \in d \/ W THEN 8 ELSE c.op_bytes)
       /\ c'.ad_bytes = c.ad_bytes /\ c'.rex_prefix = c.rex_prefix /\ c'.dst = c.dst
       /\ DOMAIN c' = Fields
    BY <1>1, <1>4 DEF Fields
<1>14. c'.op_bytes = OpSize(i)
    BY <1>10, <1>11, <1>12, <1>13 DEF OpSize, OpBytes
<1>15. CASE d = {}
  <2>1. stage' = "unknown"
      BY <1>4, <1>15
  <2> QED
      BY <2>1, <1>1, <1>2, <1>13 DEF DecodeInv, PastOpcode
<1>16. CASE d = {"Known"}
  <2>1. stage' = "done"
      BY <1>4, <1>16
  <2> QED
      BY <2>1, <1>1, <1>2, <1>10, <1>13, <1>16 DEF DecodeInv, PastOpcode
<1>17. CASE d # {} /\ d # {"Known"}
  <2>1. stage' = "address"
      BY <1>4, <1>17
  <2>2. Opened(i)'
      BY <1>2, <1>7, <1>8, <1>10, <1>11, <1>13, <1>14, <1>17 DEF Opened, Decoded
  <2>3. c'.eip = Len(i.pre) + OpcodeBytes(i)
      BY <1>6, <1>7, <1>13
  <2> QED
      BY <2>1, <2>2, <2>3, <1>1, <1>2, <1>13 DEF DecodeInv, PastOpcode
<1> QED
    BY <1>15, <1>16, <1>17

\* What is read of nothing.
LEMMA NothingRead ==
    ASSUME NEW s \in Seq(Int), NEW k \in Nat
    PROVE  SubSeq(s, k + 1, k) = <<>>
<1> DEFINE v == SubSeq(s, k + 1, k)
<1>1. v \in Seq(Int) /\ Len(v) = 0
    BY SubSeqProperties
<1> HIDE DEF v
<1>2. v = <<>>
    BY <1>1
<1> QED
    BY <1>2 DEF v

LEMMA DisplacementRead ==
    ASSUME NEW i \in Instructions
    PROVE  /\ SubSeq(Encode(i), AfterModRM(i) + 1, AfterModRM(i) + DispRead(i)) = FieldRead(i)
           /\ AfterModRM(i) \in Nat /\ DispRead(i) \in Nat
<1>1. AfterModRM(i) \in Nat
  <2>1. Len(i.pre) \in Nat /\ OpcodeBytes(i) \in Nat
      BY InstructionType DEF OpcodeBytes
  <2>2. (IF HasModRM(i) THEN 1 ELSE 0) \in Nat /\ (IF HasSib(i) THEN 1 ELSE 0) \in Nat
      OBVIOUS
  <2> QED
      BY <2>1, <2>2 DEF AfterModRM
<1>2. DispRead(i) \in Nat
    BY Sizes DEF DispRead
<1>3. CASE Hidden(i)
  <2>1. DispRead(i) = 0 /\ FieldRead(i) = <<>>
      BY <1>3 DEF DispRead, FieldRead
  <2>2. Encode(i) \in Seq(Int)
      BY Layout
  <2>3. SubSeq(Encode(i), AfterModRM(i) + 1, AfterModRM(i)) = <<>>
      BY <2>2, <1>1, NothingRead
  <2>4. AfterModRM(i) + DispRead(i) = AfterModRM(i)
      BY <2>1, <1>1
  <2> QED
      BY <2>1, <2>3, <2>4, <1>1, <1>2
<1>4. CASE ~Hidden(i)
  <2>1. DispRead(i) = DispBytes(i) /\ FieldRead(i) = DispField(i)
      BY <1>4 DEF DispRead, FieldRead
  <2> QED
      BY <2>1, <1>1, <1>2, Layout
<1> QED
    BY <1>3, <1>4

LEMMA PowersOfTwo ==
    ASSUME NEW k \in 0..3
    PROVE  2^k \in {1, 2, 4, 8}
<1>1. 2^0 = 1 /\ 2^1 = 2 /\ 2^2 = 4 /\ 2^3 = 8
    OBVIOUS
<1>2. k = 0 \/ k = 1 \/ k = 2 \/ k = 3
    OBVIOUS
<1> QED
    BY <1>1, <1>2

LEMMA RexBits ==
    ASSUME NEW i \in Instructions
    PROVE  \A k \in 0..3 : Bit(Rex(i), k) \in {0, 1}
<1>1. Rex(i) \in 0..255
  <2>1. Len(i.pre) \in Nat /\ \A k \in 1..Len(i.pre) : i.pre[k] \in PrefixBytes
      BY InstructionType
  <2>2. RexUpTo(i, Len(i.pre)) \in 0..255
      BY <2>1 DEF RexUpTo, RexBytes
  <2> QED
      BY <2>2, AllPrefixes
<1>2. ASSUME NEW k \in 0..3
      PROVE  Bit(Rex(i), k) \in {0, 1}
  <2> DEFINE p == 2^k
             q == Rex(i) \div p
  <2>1. p \in {1, 2, 4, 8}
      BY PowersOfTwo
  <2> HIDE DEF p
  <2>2. q \in Int
      BY <1>1, <2>1
  <2> HIDE DEF q
  <2>3. q % 2 \in {0, 1}
      BY <2>2
  <2> QED
      BY <2>3 DEF Bit, q, p
<1> QED
    BY <1>2

\* What the processor's terms are for the decoder.
LEMMA ReadSib ==
    ASSUME NEW i \in Instructions, HasModRM(i)
    PROVE  /\ HasSib(i) <=> Mod(i.modrm) # 3 /\ Rm(i.modrm) = 4
           /\ RipRelative(i) <=> Mod(i.modrm) = 0 /\ Rm(i.modrm) = 5
           /\ NoBase(i) <=> HasSib(i) /\ Mod(i.modrm) = 0 /\ Rm(i.sib) = 5
           /\ FetchedDisp(Mod(i.modrm), 8 * Bit(Rex(i), 0) + Rm(i.modrm), NoBase(i)) = DispRead(i)
<1>1. i.modrm \in 0..255
    BY InstructionType
<1>2. Mod(i.modrm) \in 0..3 /\ Rm(i.modrm) \in 0..7
    BY <1>1, FieldRanges
<1>3. Bit(Rex(i), 0) \in {0, 1}
    BY RexBits
<1>4. ~Moffs(i)
    BY MoffsNoModRM
<1> DEFINE m == Mod(i.modrm)
           r == Rm(i.modrm)
           x == Bit(Rex(i), 0)
<1>5. InMemory(i) <=> m # 3
    BY DEF InMemory
<1>6. RipRelative(i) <=> m = 0 /\ r = 5
    BY <1>5 DEF RipRelative
<1>7. HasSib(i) <=> m # 3 /\ r = 4
    BY <1>5 DEF HasSib
<1>8. NoBase(i) <=> HasSib(i) /\ m = 0 /\ Rm(i.sib) = 5
    BY DEF NoBase
<1>9. DispBytes(i) = IF m = 1 THEN 1 ELSE IF m = 2 THEN 4
                     ELSE IF RipRelative(i) \/ NoBase(i) THEN 4 ELSE 0
    BY <1>2, <1>4, <1>5, <1>6, <1>7, <1>8 DEF DispBytes
<1>10. Hidden(i) <=> m = 0 /\ r = 5 /\ x = 1
    BY <1>6 DEF Hidden
<1> HIDE DEF m, r, x
<1>11. m \in 0..3 /\ r \in 0..7 /\ x \in {0, 1}
    BY <1>2, <1>3 DEF m, r, x
<1>12. 8 * x + r = 5 <=> x = 0 /\ r = 5
    BY <1>11
<1>13. FetchedDisp(m, 8 * x + r, NoBase(i)) = DispRead(i)
    BY <1>6, <1>7, <1>8, <1>9, <1>10, <1>11, <1>12 DEF FetchedDisp, DispRead
<1> QED
    BY <1>6, <1>7, <1>8, <1>13 DEF m, r, x

LEMMA ModRMStep ==
    ASSUME DecodeInv, ModRMBytes
    PROVE  DecodeInv'
<1> DEFINE i == inst
           m == Peek(0)
           mod == Mod(m)
           rm == 8 * Bit(c.rex_prefix, 0) + Rm(m)
           sib == mod # 3 /\ Rm(m) = 4
           base == 8 * Bit(c.rex_prefix, 0) + Rm(Peek(1))
           index == 8 * Bit(c.rex_prefix, 1) + Reg(Peek(1))
           rip == mod = 0 /\ Rm(m) = 5
           noBase == sib /\ mod = 0 /\ Rm(Peek(1)) = 5
           n == FetchedDisp(mod, rm, noBase)
           field == c.eip + (IF sib THEN 2 ELSE 1)
           eip == field + n
           ea == [NullAddr EXCEPT
                    !.base = IF mod = 3 \/ rip \/ noBase THEN NoReg
                             ELSE IF sib THEN base ELSE rm,
                    !.index = IF sib /\ index # 4 THEN index ELSE NoReg,
                    !.scale = IF sib /\ index # 4 THEN Mod(Peek(1)) ELSE 0,
                    !.disp = Unsigned(yy_insn_fetch(field, n))]
           masked == Masked(ea, IF rip THEN eip ELSE 0)
<1>1. /\ i \in Instructions /\ code = Encode(i) /\ DOMAIN c = Fields /\ stage = "address"
      /\ Opened(i) /\ c.dst = None /\ out = NoAccess
      /\ c.eip = Len(i.pre) + OpcodeBytes(i)
    BY DEF DecodeInv, ModRMBytes, Step, PastOpcode
<1>2. inst' = inst /\ code' = code /\ out' = out /\ stage' = "source"
    BY DEF ModRMBytes, Step
<1>3. c' = [c EXCEPT !.eip = eip, !.modrm_mod = mod,
                     !.modrm_reg = 8 * Bit(c.rex_prefix, 2) + Reg(m),
                     !.modrm_ea = masked]
    BY DEF ModRMBytes
<1>4. "ModRM" \in Flags(i) /\ HasModRM(i) /\ Decoded(i)
    BY <1>1, DecodedLayout DEF ModRMBytes, Opened
<1>5. c.rex_prefix = Rex(i) /\ c.ad_bytes = AdBytes(i)
    BY <1>1 DEF Opened
<1>6. Len(i.pre) \in Nat /\ OpcodeBytes(i) \in Nat /\ i.modrm \in 0..255 /\ i.sib \in 0..255
    BY <1>1, InstructionType DEF OpcodeBytes
<1>7. m = i.modrm
    BY <1>1, <1>4, <1>6, Layout DEF Peek
<1>8. HasSib(i) => Peek(1) = i.sib
  <2>1. Peek(1) = code[Len(i.pre) + OpcodeBytes(i) + 2]
      BY <1>1, <1>6 DEF Peek
  <2> QED
      BY <2>1, <1>1, Layout
<1>9. (sib <=> HasSib(i)) /\ (rip <=> RipRelative(i))
    BY <1>1, <1>4, <1>7, ReadSib
<1> HIDE DEF m
<1>10. mod = Mod(i.modrm)
    BY <1>7
<1>11. rm = 8 * Bit(Rex(i), 0) + Rm(i.modrm)
    BY <1>5, <1>7
<1> HIDE DEF rip, sib
<1>12. noBase <=> NoBase(i)
    BY <1>1, <1>4, <1>8, <1>9, <1>10, ReadSib
<1> HIDE DEF noBase
<1>13. n = DispRead(i)
    BY <1>1, <1>4, <1>10, <1>11, <1>12, ReadSib DEF FetchedDisp
<1> HIDE DEF n
<1>14. field = AfterModRM(i)
    BY <1>1, <1>4, <1>6, <1>9 DEF AfterModRM
<1>15. yy_insn_fetch(field, n) = FieldRead(i)
    BY <1>1, <1>13, <1>14, DisplacementRead DEF yy_insn_fetch
<1>16. eip = EndRead(i)
    BY <1>13, <1>14 DEF EndRead
<1> HIDE DEF field, eip
<1>17. base = 8 * Bit(Rex(i), 0) + Rm(Peek(1)) /\ index = 8 * Bit(Rex(i), 1) + Reg(Peek(1))
    BY <1>5
<1>18. (IF mod = 3 \/ rip \/ noBase THEN NoReg ELSE IF sib THEN base ELSE rm)
         = IF InMemory(i) THEN BaseReg(i) ELSE NoReg
  <2>1. InMemory(i) <=> mod # 3
      BY <1>4, <1>10 DEF InMemory
  <2>2. ~Moffs(i)
      BY <1>1, <1>4, MoffsNoModRM
  <2>3. BaseReg(i) = IF rip \/ noBase THEN NoReg
                     ELSE 8 * Bit(Rex(i), 0) + (IF sib THEN Rm(i.sib) ELSE Rm(i.modrm))
      BY <2>2, <1>9, <1>12 DEF BaseReg
  <2>4. sib => base = 8 * Bit(Rex(i), 0) + Rm(i.sib)
      BY <1>8, <1>9, <1>17
  <2> HIDE DEF mod, rm, base
  <2> QED
      BY <2>1, <2>3, <2>4, <1>11
<1>19. /\ (IF sib /\ index # 4 THEN index ELSE NoReg) = IndexReg(i)
       /\ (IF sib /\ index # 4 THEN Mod(Peek(1)) ELSE 0)
            = IF IndexReg(i) = NoReg THEN 0 ELSE Mod(i.sib)
  <2>1. sib => index = 8 * Bit(Rex(i), 1) + Reg(i.sib) /\ Mod(Peek(1)) = Mod(i.sib)
      BY <1>8, <1>9, <1>17
  <2> DEFINE x == 8 * Bit(Rex(i), 1) + Reg(i.sib)
  <2>2. x # NoReg
    <3>1. Bit(Rex(i), 1) \in {0, 1}
        BY <1>1, RexBits
    <3>2. Reg(i.sib) \in 0..7
        BY <1>6, FieldRanges
    <3> QED
        BY <3>1, <3>2 DEF NoReg
  <2>3. IndexReg(i) = IF sib /\ x # 4 THEN x ELSE NoReg
      BY <1>9 DEF IndexReg, RSP
  <2> HIDE DEF index, x
  <2> QED
      BY <2>1, <2>2, <2>3 DEF x
<1> HIDE DEF base, index, mod, rm
<1>20. masked = AddressRead(i)
  <2> DEFINE b == IF InMemory(i) THEN BaseReg(i) ELSE NoReg
             x == IndexReg(i)
             k == IF IndexReg(i) = NoReg THEN 0 ELSE Mod(i.sib)
             u == Unsigned(FieldRead(i))
             r == IF RipRelative(i) THEN AfterModRM(i) + DispRead(i) ELSE 0
  <2>1. ea = [NullAddr EXCEPT !.base = b, !.index = x, !.scale = k, !.disp = u]
      BY <1>15, <1>18, <1>19
  <2>2. masked = Masked(ea, r)
      BY <1>9, <1>16 DEF EndRead
  <2> HIDE DEF ea, b, x, k, u, r
  <2>3. ea = [base |-> b, index |-> x, scale |-> k, disp |-> u, rip |-> 0, seg |-> "none",
              bit |-> <<>>, cut |-> "none"]
      BY <2>1 DEF NullAddr
  <2>4. AdBytes(i) \in {4, 8}
      BY <1>1, Sizes
  <2>5. Masked(ea, r)
          = [base |-> b, index |-> x, scale |-> k,
             disp |-> IF AdBytes(i) = 4 THEN Low32(u) ELSE u, rip |-> r, seg |-> "none",
             bit |-> <<>>,
             cut |-> IF AdBytes(i) = 8 THEN "none" ELSE IF r > 0 THEN "terms" ELSE "sum"]
    <3> DEFINE dd == IF AdBytes(i) = 4 THEN Low32(u) ELSE u
               cc == IF AdBytes(i) = 8 THEN "none" ELSE IF r > 0 THEN "terms" ELSE "sum"
    <3>1. ea.disp = u
        BY <2>3
    <3>2. (IF c.ad_bytes # 8 THEN Low32(ea.disp) ELSE ea.disp) = dd
        BY <3>1, <2>4, <1>5
    <3>3. (IF c.ad_bytes = 8 THEN "none" ELSE IF r > 0 THEN "terms" ELSE "sum") = cc
        BY <1>5
    <3>4. Masked(ea, r) = [ea EXCEPT !.seg = "none", !.disp = dd, !.cut = cc, !.rip = r]
        BY <3>2, <3>3 DEF Masked, yy_seg_base
    <3> HIDE DEF dd, cc
    <3>5. Masked(ea, r) = [base |-> b, index |-> x, scale |-> k, disp |-> dd, rip |-> r, seg |-> "none",
                           bit |-> <<>>, cut |-> cc]
        BY <3>4, <2>3
    <3> QED
        BY <3>5 DEF dd, cc
  <2> QED
      BY <2>2, <2>5 DEF AddressRead, b, x, k, u, r
<1> HIDE DEF masked
<1>21. /\ c'.eip = EndRead(i) /\ c'.modrm_ea = AddressRead(i)
       /\ c'.modrm_mod = Mod(i.modrm) /\ c'.modrm_reg = 8 * Bit(Rex(i), 2) + Reg(i.modrm)
       /\ c'.twobyte = c.twobyte /\ c'.b = c.b /\ c'.d = c.d /\ c'.op_bytes = c.op_bytes
       /\ c'.ad_bytes = c.ad_bytes /\ c'.rex_prefix = c.rex_prefix /\ c'.dst = c.dst
       /\ DOMAIN c' = Fields
    BY <1>1, <1>3, <1>5, <1>7, <1>10, <1>16, <1>20 DEF Fields
<1>22. Opened(i)' /\ Addressed(i)'
    BY <1>1, <1>2, <1>21 DEF Opened, Addressed
<1> QED
    BY <1>1, <1>2, <1>21, <1>22 DEF DecodeInv, PastOpcode

LEMMA OtherAddressStep ==
    ASSUME DecodeInv, OtherAddress
    PROVE  DecodeInv'
<1> DEFINE i == inst
           n == IF "MemAbs" \in c.d THEN c.ad_bytes ELSE 0
           ea == [NullAddr EXCEPT !.disp = Unsigned(yy_insn_fetch(c.eip, n))]
<1>1. /\ i \in Instructions /\ code = Encode(i) /\ DOMAIN c = Fields /\ stage = "address"
      /\ Opened(i) /\ c.dst = None /\ out = NoAccess
      /\ c.eip = Len(i.pre) + OpcodeBytes(i)
    BY DEF DecodeInv, OtherAddress, Step, PastOpcode
<1>2. inst' = inst /\ code' = code /\ out' = out /\ stage' = "source"
    BY DEF OtherAddress, Step
<1>3. c' = [c EXCEPT !.eip = @ + n, !.modrm_ea = Masked(ea, 0)]
    BY DEF OtherAddress
<1>4. "ModRM" \notin Flags(i) /\ ~HasModRM(i) /\ ("MemAbs" \in c.d <=> Moffs(i))
    BY <1>1, DecodedLayout DEF OtherAddress, Opened
<1>5. c.rex_prefix = Rex(i) /\ c.ad_bytes = AdBytes(i)
    BY <1>1 DEF Opened
<1>6. ~InMemory(i) /\ ~HasSib(i) /\ ~RipRelative(i) /\ ~NoBase(i) /\ ~Hidden(i)
    BY <1>4 DEF InMemory, HasSib, RipRelative, NoBase, Hidden
<1>7. n = DispRead(i)
    BY <1>4, <1>5, <1>6 DEF DispRead, DispBytes
<1>8. c.eip = AfterModRM(i)
  <2>1. Len(i.pre) + OpcodeBytes(i) \in Int
      BY <1>1, InstructionType DEF OpcodeBytes
  <2> QED
      BY <2>1, <1>1, <1>4, <1>6 DEF AfterModRM
<1> HIDE DEF n
<1>9. Unsigned(yy_insn_fetch(c.eip, n)) = Unsigned(FieldRead(i))
    BY <1>1, <1>7, <1>8, DisplacementRead DEF yy_insn_fetch
<1>10. Masked(ea, 0) = AddressRead(i)
  <2> DEFINE u == Unsigned(FieldRead(i))
  <2>1. ea = [NullAddr EXCEPT !.disp = u]
      BY <1>9
  <2> HIDE DEF ea, u
  <2>2. ea = [base |-> NoReg, index |-> NoReg, scale |-> 0, disp |-> u, rip |-> 0, seg |-> "none",
              bit |-> <<>>, cut |-> "none"]
      BY <2>1 DEF NullAddr
  <2> DEFINE dd == IF AdBytes(i) = 4 THEN Low32(u) ELSE u
             cc == IF AdBytes(i) = 8 THEN "none" ELSE "sum"
  <2>3. AdBytes(i) \in {4, 8}
      BY <1>1, Sizes
  <2>4. (IF c.ad_bytes # 8 THEN Low32(ea.disp) ELSE ea.disp) = dd
      BY <2>2, <2>3, <1>5
  <2>5. (IF c.ad_bytes = 8 THEN "none" ELSE IF 0 > 0 THEN "terms" ELSE "sum") = cc
      BY <1>5
  <2>6. Masked(ea, 0) = [ea EXCEPT !.seg = "none", !.disp = dd, !.cut = cc, !.rip = 0]
      BY <2>4, <2>5 DEF Masked, yy_seg_base
  <2>7. IndexReg(i) = NoReg
      BY <1>6 DEF IndexReg
  <2>8. AddressRead(i) = [base |-> NoReg, index |-> NoReg, scale |-> 0, disp |-> dd, rip |-> 0,
                          seg |-> "none", bit |-> <<>>, cut |-> cc]
      BY <2>7, <1>6 DEF AddressRead, u
  <2> HIDE DEF dd, cc
  <2> QED
      BY <2>2, <2>6, <2>8
<1> HIDE DEF ea
<1>11. /\ c'.eip = EndRead(i) /\ c'.modrm_ea = AddressRead(i)
       /\ c'.twobyte = c.twobyte /\ c'.b = c.b /\ c'.d = c.d /\ c'.op_bytes = c.op_bytes
       /\ c'.ad_bytes = c.ad_bytes /\ c'.rex_prefix = c.rex_prefix /\ c'.dst = c.dst
       /\ DOMAIN c' = Fields
    BY <1>1, <1>3, <1>7, <1>8, <1>10 DEF Fields, EndRead
<1>12. Opened(i)' /\ Addressed(i)'
    BY <1>1, <1>2, <1>4, <1>11 DEF Opened, Addressed
<1> QED
    BY <1>1, <1>2, <1>11, <1>12 DEF DecodeInv, PastOpcode

(***************************************************************************)
(* The operands.                                                           *)
(***************************************************************************)
LEMMA ReadSizes ==
    ASSUME NEW i \in Instructions, Opened(i)
    PROVE  OperandSize = Size(i) /\ SrcMemBytes = SrcMemSize(i)
<1>1. c.d = Flags(i) /\ c.op_bytes = OpSize(i)
    BY DEF Opened
<1>2. OperandSize = Size(i)
    BY <1>1 DEF OperandSize, Size
<1> QED
    BY <1>1, <1>2 DEF SrcMemBytes, SrcMemSize

LEMMA ReadRegister ==
    ASSUME NEW i \in Instructions, Opened(i), Addressed(i)
    PROVE  InRegister <=> InReg(i)
BY DEF Opened, Addressed, InRegister, InReg

\* No instruction here is one of group 7.
LEMMA NotGroup7 ==
    ASSUME NEW i \in Instructions
    PROVE  ~(i.two /\ i.op = 1)
<1>1. Covered(i)
    BY InstructionType
<1> QED
    BY <1>1 DEF Covered, One, Two, WithModRM2, BitTests

LEMMA SourceStep ==
    ASSUME DecodeInv, Source
    PROVE  DecodeInv'
<1> DEFINE i == inst
           imm == IF OperandSize = 8 THEN 4 ELSE OperandSize
           op == CASE "SrcReg" \in c.d -> RegOperand(OperandSize)
                   [] c.d \cap {"SrcMem", "SrcMem16", "SrcMem32"} # {} ->
                        IF InRegister \/ (c.twobyte /\ c.b = 1 /\ c.modrm_reg = 7)
                        THEN RegOperand(SrcMemBytes)
                        ELSE MemoryOperand(c.modrm_ea, SrcMemBytes)
                   [] c.d \cap {"SrcImm", "SrcImmU"} # {} -> ImmOperand(imm)
                   [] c.d \cap {"SrcImmByte", "SrcImmUByte"} # {} -> ImmOperand(1)
                   [] "SrcSI" \in c.d -> MemoryOperand(NullAddr, OperandSize)
                   [] OTHER -> None
<1>1. /\ i \in Instructions /\ code = Encode(i) /\ DOMAIN c = Fields /\ stage = "source"
      /\ Opened(i) /\ Addressed(i) /\ c.dst = None /\ out = NoAccess /\ c.eip = EndRead(i)
    BY DEF DecodeInv, Source, Step, PastOpcode
<1>2. inst' = inst /\ code' = code /\ out' = out /\ stage' = "source2"
    BY DEF Source, Step
<1>3. c' = [c EXCEPT !.src = op, !.eip = @ + (IF op.type = "OP_IMM" THEN op.bytes ELSE 0)]
    BY DEF Source
<1>4. /\ c.d = Flags(i) /\ c.twobyte = i.two /\ c.b = i.op /\ c.modrm_ea = AddressRead(i)
      /\ OperandSize = Size(i) /\ SrcMemBytes = SrcMemSize(i)
      /\ InRegister <=> InReg(i)
    BY <1>1, ReadSizes, ReadRegister DEF Opened, Addressed
<1>5. ~(c.twobyte /\ c.b = 1 /\ c.modrm_reg = 7)
    BY <1>1, <1>4, NotGroup7
<1>6. op = SrcOf(i)
    BY <1>4, <1>5 DEF SrcOf
<1> HIDE DEF op
<1>7. /\ c'.src = SrcOf(i) /\ c'.eip = EndRead(i) + ImmOf(SrcOf(i))
      /\ c'.twobyte = c.twobyte /\ c'.b = c.b /\ c'.d = c.d /\ c'.op_bytes = c.op_bytes
      /\ c'.ad_bytes = c.ad_bytes /\ c'.rex_prefix = c.rex_prefix /\ c'.dst = c.dst
      /\ c'.modrm_mod = c.modrm_mod /\ c'.modrm_reg = c.modrm_reg /\ c'.modrm_ea = c.modrm_ea
      /\ DOMAIN c' = Fields
    BY <1>1, <1>3, <1>6 DEF Fields, ImmOf
<1>8. Opened(i)' /\ Addressed(i)'
    BY <1>1, <1>2, <1>7 DEF Opened, Addressed
<1> QED
    BY <1>1, <1>2, <1>7, <1>8 DEF DecodeInv, PastOpcode

\* The lengths of the immediates are numbers.
LEMMA ImmediateLengths ==
    ASSUME NEW i \in Instructions
    PROVE  ImmOf(SrcOf(i)) \in Nat /\ ImmOf(Src2Of(i)) \in Nat
<1>1. Size(i) \in {1, 2, 4, 8}
    BY Sizes DEF Size, OpSize
<1>2. \A n \in Nat : ImmOf(ImmOperand(n)) \in Nat
    BY DEF ImmOf, ImmOperand
<1>3. /\ \A n : ImmOf(RegOperand(n)) = 0
      /\ \A p, n : ImmOf(MemoryOperand(p, n)) = 0
      /\ ImmOf(None) = 0
    BY DEF ImmOf, RegOperand, MemoryOperand, None
<1>4. ImmOf(SrcOf(i)) \in Nat
  <2> DEFINE k == IF Size(i) = 8 THEN 4 ELSE Size(i)
  <2>1. k \in Nat
      BY <1>1
  <2> HIDE DEF k
  <2>2. \/ \E n : SrcOf(i) = RegOperand(n)
        \/ \E p, n : SrcOf(i) = MemoryOperand(p, n)
        \/ SrcOf(i) = ImmOperand(k)
        \/ SrcOf(i) = ImmOperand(1)
        \/ SrcOf(i) = None
      BY DEF SrcOf, k
  <2> QED
      BY <2>1, <2>2, <1>2, <1>3
<1>5. ImmOf(Src2Of(i)) \in Nat
    BY <1>2, <1>3 DEF Src2Of
<1> QED
    BY <1>4, <1>5

LEMMA Source2Step ==
    ASSUME DecodeInv, Source2
    PROVE  DecodeInv'
<1> DEFINE i == inst
           op == CASE "Src2CL" \in c.d -> RegOperand(1)
                   [] "Src2ImmByte" \in c.d -> ImmOperand(1)
                   [] "Src2Imm16" \in c.d -> ImmOperand(2)
                   [] "Src2Mem16" \in c.d -> MemoryOperand(c.modrm_ea, 2)
                   [] OTHER -> None
<1>1. /\ i \in Instructions /\ code = Encode(i) /\ DOMAIN c = Fields /\ stage = "source2"
      /\ Opened(i) /\ Addressed(i) /\ c.dst = None /\ out = NoAccess
      /\ c.src = SrcOf(i) /\ c.eip = EndRead(i) + ImmOf(SrcOf(i))
    BY DEF DecodeInv, Source2, Step, PastOpcode
<1>2. inst' = inst /\ code' = code /\ out' = out /\ stage' = "destination"
    BY DEF Source2, Step
<1>3. c' = [c EXCEPT !.src2 = op, !.eip = @ + (IF op.type = "OP_IMM" THEN op.bytes ELSE 0)]
    BY DEF Source2
<1>4. c.d = Flags(i) /\ Decoded(i)
    BY <1>1 DEF Opened
<1>5. op = Src2Of(i)
    BY <1>1, <1>4, OtherRows, DecodedLayout DEF Src2Of
<1> HIDE DEF op
<1>6. c.eip + ImmOf(Src2Of(i)) = EndRead(i) + ImmRead(i)
  <2>1. EndRead(i) \in Nat
      BY <1>1, DisplacementRead DEF EndRead
  <2> QED
      BY <2>1, <1>1, ImmediateLengths DEF ImmRead
<1>7. /\ c'.src2 = Src2Of(i) /\ c'.src = c.src /\ c'.eip = EndRead(i) + ImmRead(i)
      /\ c'.twobyte = c.twobyte /\ c'.b = c.b /\ c'.d = c.d /\ c'.op_bytes = c.op_bytes
      /\ c'.ad_bytes = c.ad_bytes /\ c'.rex_prefix = c.rex_prefix /\ c'.dst = c.dst
      /\ c'.modrm_mod = c.modrm_mod /\ c'.modrm_reg = c.modrm_reg /\ c'.modrm_ea = c.modrm_ea
      /\ DOMAIN c' = Fields
  <2>1. c'.eip = c.eip + ImmOf(Src2Of(i))
      BY <1>1, <1>3, <1>5 DEF Fields, ImmOf
  <2> QED
      BY <2>1, <1>1, <1>3, <1>5, <1>6 DEF Fields
<1>8. Opened(i)' /\ Addressed(i)'
    BY <1>1, <1>2, <1>7 DEF Opened, Addressed
<1> QED
    BY <1>1, <1>2, <1>7, <1>8 DEF DecodeInv, PastOpcode

LEMMA DestinationStep ==
    ASSUME DecodeInv, Destination
    PROVE  DecodeInv'
<1> DEFINE i == inst
           op == CASE c.d \cap {"DstReg", "DstAcc"} # {} -> RegOperand(OperandSize)
                   [] c.d \cap {"DstMem", "DstMem64"} # {} ->
                        IF InRegister THEN RegOperand(OperandSize)
                        ELSE MemoryOperand(BitAddress,
                                           IF "DstMem64" \in c.d THEN 8 ELSE OperandSize)
                   [] "DstDI" \in c.d -> MemoryOperand(NullAddr, OperandSize)
                   [] OTHER -> c.dst
<1>1. /\ i \in Instructions /\ code = Encode(i) /\ DOMAIN c = Fields /\ stage = "destination"
      /\ Opened(i) /\ Addressed(i) /\ c.dst = None /\ out = NoAccess
      /\ c.src = SrcOf(i) /\ c.src2 = Src2Of(i) /\ c.eip = EndRead(i) + ImmRead(i)
    BY DEF DecodeInv, Destination, PastOpcode
<1>2. /\ inst' = inst /\ code' = code /\ out' = out
      /\ stage' = IF "ImplicitOps" \in c.d THEN "done" ELSE "report"
    BY DEF Destination
<1>3. c' = [c EXCEPT !.dst = op]
    BY <1>1 DEF Destination, Fields
<1>4. /\ c.d = Flags(i) /\ Decoded(i) /\ OperandSize = Size(i) /\ c.modrm_ea = AddressRead(i)
      /\ InRegister <=> InReg(i)
    BY <1>1, ReadSizes, ReadRegister DEF Opened, Addressed
<1>5. BitAddress = BitRead(i)
  <2>1. CASE "BitOp" \in Flags(i)
    <3>1. Flags(i) = {"DstMem", "SrcReg", "ModRM", "BitOp"}
        BY <2>1, <1>1, <1>4, OtherRows, DecodedLayout
    <3>2. c.src.bytes = Size(i)
        BY <3>1, <1>1 DEF SrcOf, RegOperand, None
    <3>3. c.modrm_reg = 8 * Bit(Rex(i), 2) + Reg(i.modrm)
        BY <3>1, <1>1 DEF Addressed
    <3> QED
        BY <2>1, <3>2, <3>3, <1>4 DEF BitAddress, BitRead
  <2>2. CASE "BitOp" \notin Flags(i)
      BY <2>2, <1>4 DEF BitAddress, BitRead
  <2> QED
      BY <2>1, <2>2
<1>6. op = DstOf(i)
    BY <1>1, <1>4, <1>5 DEF DstOf, DstMemSize
<1> HIDE DEF op
<1>7. /\ c'.dst = DstOf(i) /\ c'.src2 = c.src2 /\ c'.src = c.src /\ c'.eip = c.eip
      /\ c'.twobyte = c.twobyte /\ c'.b = c.b /\ c'.d = c.d /\ c'.op_bytes = c.op_bytes
      /\ c'.ad_bytes = c.ad_bytes /\ c'.rex_prefix = c.rex_prefix
      /\ c'.modrm_mod = c.modrm_mod /\ c'.modrm_reg = c.modrm_reg /\ c'.modrm_ea = c.modrm_ea
      /\ DOMAIN c' = Fields
    BY <1>1, <1>3, <1>6 DEF Fields
<1>8. Opened(i)' /\ Addressed(i)'
    BY <1>1, <1>2, <1>7 DEF Opened, Addressed
<1>9. CASE "ImplicitOps" \in Flags(i)
  <2>1. stage' = "done" /\ OutOf(i) = NoAccess
      BY <1>2, <1>4, <1>9 DEF OutOf
  <2> QED
      BY <2>1, <1>1, <1>2, <1>4, <1>7 DEF DecodeInv, PastOpcode
<1>10. CASE "ImplicitOps" \notin Flags(i)
  <2>1. stage' = "report"
      BY <1>2, <1>4, <1>10
  <2> QED
      BY <2>1, <1>1, <1>2, <1>7, <1>8, <1>10 DEF DecodeInv, PastOpcode
<1> QED
    BY <1>9, <1>10

LEMMA ReportStep ==
    ASSUME DecodeInv, Report
    PROVE  DecodeInv'
<1> DEFINE i == inst
<1>1. /\ i \in Instructions /\ code = Encode(i) /\ DOMAIN c = Fields /\ stage = "report"
      /\ Opened(i) /\ "ImplicitOps" \notin Flags(i)
      /\ c.src = SrcOf(i) /\ c.src2 = Src2Of(i) /\ c.dst = DstOf(i)
      /\ c.eip = EndRead(i) + ImmRead(i)
    BY DEF DecodeInv, Report, Step, PastOpcode
<1>2. /\ inst' = inst /\ code' = code /\ c' = c /\ stage' = "done"
      /\ out' = [Chosen EXCEPT !.write = @ /\ "ReadOnly" \notin c.d]
    BY DEF Report, Step
<1>3. c.d = Flags(i) /\ Decoded(i)
    BY <1>1 DEF Opened
<1>4. Chosen = ChosenOf(i)
    BY <1>1, <1>3 DEF Chosen, ChosenOf, Top, Below
<1>5. out' = OutOf(i)
  <2> DEFINE a == ChosenOf(i)
  <2>1. \E p, n, w : a = Access(p, n, w)
      BY DEF ChosenOf, NoAccess
  <2> HIDE DEF a
  <2>2. PICK p, n, w : a = Access(p, n, w)
      BY <2>1
  <2>3. a.addr = p /\ a.bytes = n /\ a.write = w
      BY <2>2 DEF Access
  <2> DEFINE v == w /\ "ReadOnly" \notin Flags(i)
  <2>4. out' = [a EXCEPT !.write = v]
      BY <2>3, <1>2, <1>3, <1>4 DEF a
  <2>5. OutOf(i) = Access(p, n, v)
      BY <2>3, <1>1 DEF OutOf, a
  <2> HIDE DEF v
  <2> QED
      BY <2>2, <2>4, <2>5 DEF Access
<1> QED
    BY <1>1, <1>2, <1>3, <1>5 DEF DecodeInv, PastOpcode

LEMMA DecodeNext ==
    ASSUME DecodeInv, [Next]_vars
    PROVE  DecodeInv'
<1>1. CASE Stopped \/ UNCHANGED vars
    BY <1>1 DEF Stopped, vars, DecodeInv, Prefixed, Opened, Addressed
<1> QED
    BY <1>1, PrefixStep, OpcodeStep, ModRMStep, OtherAddressStep, SourceStep, Source2Step,
       DestinationStep, ReportStep DEF Next

(***************************************************************************)
(* The theorems.                                                           *)
(***************************************************************************)
\* Whatever the prefixes, operand bytes and displacement of an instruction, the
\* decoder's cache is the function of it that DecodeInv describes, at each stage
\* of yy_get_memory_access.
THEOREM Stages == Spec => []DecodeInv
<1>1. Init => DecodeInv
    BY DecodeInit
<1>2. DecodeInv /\ [Next]_vars => DecodeInv'
    BY DecodeNext
<1> QED
    BY <1>1, <1>2, PTL DEF Spec

\* An access that the decoder reports is one that the processor performs, but for
\* the causes of Misreported, for every covered instruction.
THEOREM RealCorrect == Spec => []ReportsRealAccess
<1>1. ASSUME DecodeInv PROVE ReportsRealAccess
  <2>1. SUFFICES ASSUME stage = "done", out.bytes > 0
                 PROVE  (out \in Accesses(inst)) <=> ~Misreported(inst)
      BY DEF ReportsRealAccess, Reported
  <2>2. NoAccess.bytes = 0
      BY DEF NoAccess, Access
  <2>3. inst \in Instructions /\ Decoded(inst) /\ out = OutOf(inst)
      BY <1>1, <2>1, <2>2 DEF DecodeInv
  <2>4. Real(inst)
      BY <2>3, Outcome
  <2> QED
      BY <2>1, <2>3, <2>4 DEF Real
<1> QED
    BY <1>1, Stages, PTL

\* Where the decoder reports nothing there is nothing to report, but for the
\* stack accesses of DropsStack, for every covered instruction.
THEOREM NothingMissedCorrect == Spec => []NothingMissed
<1>1. ASSUME DecodeInv PROVE NothingMissed
  <2>1. SUFFICES ASSUME stage = "done", out.bytes = 0
                 PROVE  (Accesses(inst) = {}) <=> ~DropsStack(inst)
      BY DEF NothingMissed
  <2>2. inst \in Instructions
      BY <1>1 DEF DecodeInv
  <2>3. CASE Flags(inst) = {"Known"}
    <3>1. ~Decoded(inst) /\ Flags(inst) # {}
        BY <2>3 DEF Decoded
    <3>2. Unread(inst)
      <4>1. "Known" \in Flags(inst) /\ ~Undecoded(inst)
          BY <2>2, <2>3, <3>1, OtherFlags
      <4> QED
          BY <4>1, <2>2, Kinds, OtherRows
    <3> QED
        BY <2>2, <3>2, SilentFacts
  <2>4. CASE Decoded(inst) /\ out = OutOf(inst)
      BY <2>1, <2>2, <2>4, Outcome DEF Nothing
  <2> QED
      BY <1>1, <2>1, <2>3, <2>4 DEF DecodeInv
<1> QED
    BY <1>1, Stages, PTL

\* When an access is reported the instruction has been read to its end, but for a
\* displacement hidden by REX.B and push imm16, for every covered instruction.
THEOREM FetchesWholeCorrect == Spec => []FetchesWhole
<1>1. ASSUME DecodeInv PROVE FetchesWhole
  <2> DEFINE i == inst
  <2>1. SUFFICES ASSUME stage = "done", out.bytes > 0
                 PROVE  c.eip = Len(code) <=> ~Hidden(i) /\ ~(One(i, {\h68}) /\ OpBytes(i) = 2)
      BY DEF FetchesWhole, Reported, Hidden
  <2>2. NoAccess.bytes = 0
      BY DEF NoAccess, Access
  <2>3. /\ i \in Instructions /\ Decoded(i) /\ code = Encode(i)
        /\ c.eip = EndRead(i) + ImmRead(i)
      BY <1>1, <2>1, <2>2 DEF DecodeInv
  <2>4. Len(code) = AfterModRM(i) + DispBytes(i) + ImmBytes(i) /\ AfterModRM(i) \in Nat
      BY <2>3, Layout, DisplacementRead
  <2>5. DispBytes(i) \in Nat /\ ImmBytes(i) \in Nat
      BY <2>3, Sizes
  <2>6. CASE One(i, {\h68})
    <3>1. ~HasModRM(i) /\ ~Moffs(i)
        BY <2>6 DEF One, Two, HasModRM, WithModRM, Arithmetic, Shifts, Moffs
    <3>2. ~Hidden(i) /\ DispBytes(i) = 0 /\ DispRead(i) = 0
        BY <3>1 DEF Hidden, DispRead, DispBytes, InMemory, RipRelative, NoBase, HasSib
    <3>3. ImmRead(i) = 4
        BY <2>3, <2>6, DecodedLayout
    <3>4. ImmBytes(i) = IF OpBytes(i) = 2 THEN 2 ELSE 4
        BY <2>6 DEF ImmBytes, One, Two, Group
    <3> QED
        BY <2>3, <2>4, <2>6, <3>2, <3>3, <3>4 DEF EndRead
  <2>7. CASE ~One(i, {\h68})
    <3>1. ImmRead(i) = ImmBytes(i)
        BY <2>3, <2>7, DecodedLayout
    <3>2. CASE Hidden(i)
      <4>1. DispRead(i) = 0
          BY <3>2 DEF DispRead
      <4>2. DispBytes(i) = 4
        <5>1. RipRelative(i) /\ HasModRM(i) /\ ~Moffs(i) /\ InMemory(i) /\ Mod(i.modrm) = 0
            BY <2>3, <3>2, MoffsNoModRM DEF Hidden, RipRelative, InMemory
        <5> QED
            BY <5>1 DEF DispBytes
      <4> QED
          BY <2>3, <2>4, <2>5, <3>1, <3>2, <4>1, <4>2 DEF EndRead
    <3>3. CASE ~Hidden(i)
      <4>1. DispRead(i) = DispBytes(i)
          BY <3>3 DEF DispRead
      <4> QED
          BY <2>3, <2>4, <2>5, <2>7, <3>1, <3>3, <4>1 DEF EndRead
    <3> QED
        BY <3>2, <3>3
  <2> QED
      BY <2>6, <2>7
<1> QED
    BY <1>1, Stages, PTL
==============================================================================
