------------------------------ MODULE MCDisassem ------------------------------
(* Instructions for TLC. *)
EXTENDS Disassem

Insn(pre, two, op, modrm, sib, disp) ==
    [pre |-> pre, two |-> two, op |-> op, modrm |-> modrm, sib |-> sib, disp |-> disp]

\* One representative of the instructions with the same bytes.
Canonical(i) ==
    [i EXCEPT !.modrm = IF HasModRM(i) THEN @ ELSE 0,
              !.sib = IF HasSib(i) THEN @ ELSE 0,
              !.disp = IF DispBytes(i) > 0 THEN @ ELSE Bytes(4, 0)]

(* Every form of addressing. *)
Displacements == {<<5, 0, 0, 0>>, <<251, 0, 0, 0>>, <<251, 255, 255, 255>>}
Sibs == {64 * s + 8 * x + b : s \in {0, 2}, x \in {0, 4, 5}, b \in {0, 4, 5}}
Forms ==    \* ModRM and SIB bytes
    {<<64 * m + n, 0>> : m \in 0..3, n \in 0..7 \ {4}} \cup {<<64 * m + 4, s>> : m \in 0..3, s \in Sibs}
AddressPrefixes ==
    {p \o r : p \in {<<>>, <<\h67>>}, r \in {<<>>, <<\h41>>, <<\h42>>, <<\h47>>, <<\h48>>, <<\h4b>>}}
Addressing ==
    {Canonical(Insn(p, FALSE, op, f[1], f[2], d)) :
        p \in AddressPrefixes, op \in {\h8b, \h89, \hc7}, f \in Forms, d \in Displacements}

(* Every opcode with every prefix, and each extension of the groups. *)
OpcodePrefixes ==
    {<<>>, <<\h66>>, <<\h48>>, <<\h66, \h48>>, <<\h48, \h66>>, <<\h67>>, <<\h65>>, <<\h2e>>, <<\hf0>>,
     <<\hf3, \h44>>, <<\h41>>}
Groups ==
    {<<FALSE, op, k>> : op \in \h80..\h83 \ {\h82}, k \in 0..7}
    \cup {<<FALSE, op, k>> : op \in {\hf6, \hf7}, k \in {0, 2, 3, 4, 5, 6, 7}}
    \cup {<<FALSE, \hff, k>> : k \in {0, 1, 2, 4, 6}}
    \cup {<<TRUE, \hba, k>> : k \in 4..7}
    \cup {<<FALSE, op, k>> : op \in Shifts, k \in {0, 4, 5, 7}}
    \cup {<<FALSE, \hfe, 0>>, <<FALSE, \hfe, 1>>, <<FALSE, \h8f, 0>>, <<FALSE, \hc6, 0>>,
          <<FALSE, \hc7, 0>>, <<TRUE, \hc7, 1>>}
Others ==
    {<<FALSE, op, k>> : op \in Arithmetic \cup {\h63, \h69, \h6b} \cup \h84..\h8e, k \in {0, 3}}
    \cup {<<TRUE, op, k>> : k \in {0, 3},
            op \in BitTests \cup {\h0d, \h18, \h1f, \h40, \h4f, \ha4, \ha5, \hac, \had, \haf, \hb0, \hb1,
                                  \hb6, \hb7, \hbe, \hbf, \hc3}}
    \cup {<<FALSE, op, 0>> :
            op \in {\h50, \h57, \h58, \h5f, \h68, \h6a, \h90, \h98, \h99, \h9c, \h9d, \hc3, \he8}
                   \cup \ha0..\ha7 \cup \haa..\haf}
Opcodes ==
    {Canonical(Insn(p, o[1], o[2], 8 * o[3] + m, 0, <<7, 0, 0, 0>>)) :
        p \in OpcodePrefixes, o \in Groups \cup Others, m \in {\h00, \h05, \h45, \hc5}}

(* The instructions of disassem-test.c. *)
TestInstructions ==
    LET one(pre, op, modrm, sib, disp) == Insn(pre, FALSE, op, modrm, sib, disp)
        z == Bytes(4, 0)
    IN  {one(<<>>, \hff, \h47, 0, <<\h5c, 0, 0, 0>>),           \* incl 0x5c(%rdi)
         one(<<>>, \h98, 0, 0, z), one(<<>>, \h99, 0, 0, z),    \* cwde, cdq
         one(<<>>, \h55, 0, 0, z), one(<<>>, \h53, 0, 0, z),    \* push %rbp, %rbx
         one(<<>>, \h89, \h7d, 0, <<\hdc, 0, 0, 0>>),           \* mov %edi, -0x24(%rbp)
         one(<<\h48>>, \h89, \h75, 0, <<\hd0, 0, 0, 0>>),       \* mov %rsi, -0x30(%rbp)
         one(<<>>, \h83, \h7d, 0, <<\hdc, 0, 0, 0>>),           \* cmpl $0x2, -0x24(%rbp)
         one(<<\h48>>, \h8b, \h45, 0, <<\hd0, 0, 0, 0>>),       \* mov -0x30(%rbp), %rax
         one(<<\h48>>, \h8b, 0, 0, z),                          \* mov (%rax), %rax
         one(<<\h48>>, \h8d, \h55, 0, <<\he0, 0, 0, 0>>),       \* lea -0x20(%rbp), %rdx
         one(<<>>, \hc7, \h45, 0, <<\he0, 0, 0, 0>>),           \* movl $0x1000, -0x20(%rbp)
         one(<<>>, \hc7, \h04, \h85, <<\h60, \h10, \h60, 0>>)}  \* movl $0x1, 0x601060(, %rax, 4)

MCInstructions == UNION {Addressing, Opcodes, TestInstructions}
==============================================================================
