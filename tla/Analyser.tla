------------------------------ MODULE Analyser ------------------------------
(***************************************************************************)
(* The static analyser (simple.cpp) as work.sh uses it: a first pass over  *)
(* the disassembly of one part of the kernel collects the names of its     *)
(* functions into a regular expression, a second one over the whole kernel *)
(* prints the memory accesses of the functions that match.  What it prints *)
(* is the list of addresses that the shell loads.                          *)
(*                                                                         *)
(* A line of a disassembly is a tuple: <<"function", name, whether it is   *)
(* one of that part>>, <<"instruction", text>>, <<"rest">> (the bytes of a *)
(* long instruction that did not fit into the line before) or <<"other">>. *)
(* The address of a line in the second pass is its number.  The text of an *)
(* instruction is its mnemonic and its operands, by what the analyser and  *)
(* the properties tell apart.                                              *)
(***************************************************************************)
EXTENDS Naturals, Sequences

CONSTANTS
  Names,        \* names of functions
  Dangerous,    \* those that contain a DangerousFunction, might_fault for one
  Frequent,     \* those that are a FrequentFunction
  Alike,        \* pairs: the first, read as a regular expression, is the second
  Texts,        \* texts of instructions
  PartListings, \* disassemblies of the part
  Listings      \* disassemblies of the kernel

Lines == {<<"function", n, ours>> : n \in Names, ours \in BOOLEAN}
         \cup {<<"instruction", x>> : x \in Texts} \cup {<<"rest">>, <<"other">>}

\* A name matches itself; a dot in it (foo.isra.0) matches anything.
ASSUME NamesAssumption ==
  /\ Dangerous \subseteq Names /\ Frequent \subseteq Names
  /\ Alike \subseteq Names \X Names /\ \A n \in Names : <<n, n>> \in Alike
ASSUME TextsAssumption == Texts \subseteq [op : STRING, operands : Seq(STRING)]
ASSUME ListingsAssumption == PartListings \subseteq Seq(Lines) /\ Listings \subseteq Seq(Lines)

VARIABLES
  part, kernel,   \* the files fs.objd and vmlinux.objd
  work,           \* option.work: FUNC, then INSTR, then done
  regex,          \* the names in the expression; none for the empty one
  line,           \* the next line of stdin
  relevant,
  text,           \* state.instr.text
  names, out      \* what the two passes print

files == <<part, kernel>>
vars  == <<files, work, regex, line, relevant, text, names, out>>

None  == {}
NoText == [op |-> "none", operands |-> <<>>]
Input == IF work = "FUNC" THEN part ELSE kernel
Read(t) == line <= Len(Input) /\ Input[line][1] = t /\ line' = line + 1
-----------------------------------------------------------------------------
(* Which functions *)

\* regexec: the empty expression matches everything; that of the first pass is
\* anchored on both sides.
Matches(n) == work = "FUNC" \/ \E m \in regex : <<m, n>> \in Alike

Relevant(n) == Matches(n) /\ n \notin Dangerous /\ n \notin Frequent

\* Mutations of FunctionLine: only a match changes relevant, only the last name is
\* kept.
FunctionLineKeeps ==
  /\ Read("function")
  /\ LET n == Input[line][2] IN
     /\ relevant' = (relevant \/ Relevant(n))
     /\ names' = IF relevant' /\ work = "FUNC" THEN names \cup {n} ELSE names
  /\ UNCHANGED <<files, work, regex, text, out>>

FunctionLineLast ==
  /\ Read("function")
  /\ LET n == Input[line][2] IN
     /\ relevant' = Relevant(n)
     /\ names' = IF relevant' /\ work = "FUNC" THEN {n} ELSE names
  /\ UNCHANGED <<files, work, regex, text, out>>

FunctionLine ==
  /\ Read("function")
  /\ LET n == Input[line][2] IN
     /\ relevant' = Relevant(n)
     /\ names' = IF relevant' /\ work = "FUNC" THEN names \cup {n} ELSE names
  /\ UNCHANGED <<files, work, regex, text, out>>
-----------------------------------------------------------------------------
(* Which instructions *)

\* The mnemonics of Texts that begin with a MemoryAccess; lock and rep are part
\* of the text and come first.
MemoryAccess == {"mov", "movs", "add", "cmp", "cmpxchg"}

\* Operands: a register or a constant, and memory: written with a base or index
\* register in parentheses, one of which may be the stack or frame pointer, or as
\* a bare address.
Parenthesised == {"heap", "stack", "frameIndex"}
Memory        == Parenthesised \cup {"bare"}

\* The text from the first parenthesis to the one that closes it.
First(x) == x.operands[CHOOSE i \in 1..Len(x.operands) :
                         /\ x.operands[i] \in Parenthesised
                         /\ \A j \in 1..(i - 1) : x.operands[j] \notin Parenthesised]
HasParenthesis(x) == \E i \in 1..Len(x.operands) : x.operands[i] \in Parenthesised

\* Neither sp nor bp is in it.
Wanted(x) == x.op \in MemoryAccess /\ HasParenthesis(x) /\ First(x) = "heap"

\* Mutations of Printed: once for every operand, without its address.
PrintedPerOperand(x) ==
  IF ~Wanted(x) THEN <<>>
  ELSE IF \A i \in 1..Len(x.operands) : x.operands[i] = "heap" THEN <<line, line>> ELSE <<line>>
PrintedAtZero(x) == IF Wanted(x) THEN <<0>> ELSE <<>>

\* The address of an instruction that is wanted.
Printed(x) == IF Wanted(x) THEN <<line>> ELSE <<>>

\* Mutation of TextOf: a short line leaves the text of the last one.
TextOfKept(l) == IF l[1] = "instruction" THEN l[2] ELSE text
TextOf(l)     == IF l[1] = "instruction" THEN l[2] ELSE NoText

\* A line with an address, which the second pass looks at in relevant functions.
InstructionLine ==
  /\ Read("instruction") \/ Read("rest")
  /\ IF relevant
     THEN /\ text' = TextOf(Input[line])
          /\ out' = IF work = "INSTR" THEN out \o Printed(text') ELSE out
     ELSE UNCHANGED <<text, out>>
  /\ UNCHANGED <<files, work, regex, relevant, names>>

OtherLine ==
  /\ Read("other")
  /\ UNCHANGED <<files, work, regex, relevant, text, names, out>>
-----------------------------------------------------------------------------
(* The passes *)

\* Mutation of SecondPass: relevant is not initialised.
SecondPassGoesOn ==
  /\ work = "FUNC" /\ line > Len(Input)
  /\ work' = "INSTR" /\ regex' = names /\ line' = 1
  /\ UNCHANGED <<files, relevant, text, names, out>>

\* work.sh: the names, with one that never matches behind them, are the
\* expression of the next run.
SecondPass ==
  /\ work = "FUNC" /\ line > Len(Input)
  /\ work' = "INSTR" /\ regex' = names /\ line' = 1
  /\ relevant' = FALSE /\ text' = NoText
  /\ UNCHANGED <<files, names, out>>

Done ==
  /\ work = "INSTR" /\ line > Len(Input) /\ work' = "done"
  /\ UNCHANGED <<files, regex, line, relevant, text, names, out>>

\* The first pass is given no expression and reads one from stdin, which -i has
\* turned to the disassembly: its first line, which is empty.
Init ==
  /\ part \in PartListings /\ kernel \in Listings
  /\ \A i \in 1..Len(kernel) : kernel[i][1] = "function" /\ kernel[i][3] =>
       \E j \in 1..Len(part) : part[j][1] = "function" /\ part[j][2] = kernel[i][2]
  /\ work = "FUNC" /\ regex = None /\ line = 1 /\ relevant = FALSE /\ text = NoText
  /\ names = {} /\ out = <<>>

Next == FunctionLine \/ InstructionLine \/ OtherLine \/ SecondPass \/ Done

Spec == Init /\ [][Next]_vars
-----------------------------------------------------------------------------
(* Properties *)

\* The shapes of the variables.
TypeOK ==
  /\ work \in {"FUNC", "INSTR", "done"} /\ regex \subseteq Names
  /\ line \in Nat \ {0} /\ relevant \in BOOLEAN /\ text \in Texts \cup {NoText}
  /\ names \subseteq Names /\ \A i \in 1..Len(out) : out[i] \in 1..Len(kernel)

\* The function that line i of the kernel belongs to.
FunctionOf(i) ==
  LET heads == {j \in 1..i : kernel[j][1] = "function"}
  IN IF heads = {} THEN <<"none", "none", FALSE>>
     ELSE kernel[CHOOSE j \in heads : \A k \in heads : k <= j]

PartNames == {part[i][2] : i \in {i \in 1..Len(part) : part[i][1] = "function"}}

\* What the module relies on (ListsAssumption of Breakpoints): no address is
\* printed twice.
PrintedOnce == \A i, j \in 1..Len(out) : i < j => out[i] < out[j]

\* drddr-bp.c:43: a breakpoint is an int3 over the first byte of an instruction,
\* and must not lie in code that the handler itself runs.  What is printed is the
\* first line of an instruction with a memory operand off the stack, in a function
\* of the part, or one that has its name or a name its name matches; none of those
\* that are called dangerous or frequent.
PrintedIsRight ==
  \A i \in 1..Len(out) :
    LET f == FunctionOf(out[i]) IN
    /\ kernel[out[i]][1] = "instruction"
    /\ \E j \in 1..Len(kernel[out[i]][2].operands) : kernel[out[i]][2].operands[j] = "heap"
    /\ f[2] \notin Dangerous \cup Frequent
    /\ f[3] \/ \E n \in PartNames : <<n, f[2]>> \in Alike

\* README of the analyser, "find all potential global memory accesses in matching
\* functions": in the part's functions all are found but those whose mnemonic is
\* not on the list (a lock prefix is enough), that have an operand on the stack
\* before, whose index register is the frame pointer, or that are written without
\* a parenthesis.
Accesses(x) == x.op # "lea" /\ \E i \in 1..Len(x.operands) : x.operands[i] \in Memory \ {"stack"}
AllFound ==
  work = "done" =>
    \A i \in 1..Len(kernel) :
      kernel[i][1] = "instruction" /\ FunctionOf(i)[3] /\ Accesses(kernel[i][2]) =>
        LET x == kernel[i][2] IN
        \/ \E j \in 1..Len(out) : out[j] = i
        \/ FunctionOf(i)[2] \in Dangerous \cup Frequent
        \/ x.op \notin MemoryAccess
        \/ ~HasParenthesis(x) \/ First(x) # "heap"
=============================================================================
