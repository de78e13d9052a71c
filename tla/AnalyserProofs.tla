--------------------------- MODULE AnalyserProofs ---------------------------
(***************************************************************************)
(* For any disassemblies, names and texts: the analyser prints every       *)
(* address once and in order, prints nothing but the accesses it looks     *)
(* for, and finds all of them but those of the forms it does not know.     *)
(***************************************************************************)
EXTENDS Analyser, WellFoundedInduction, TLAPS

\* What a line may be.
IsFunction(l) == l[1] = "function" /\ l[2] \in Names /\ l[3] \in BOOLEAN
IsLine(l) ==
  \/ IsFunction(l)
  \/ l[1] = "instruction" /\ l[2] \in Texts
  \/ l[1] = "rest"
  \/ l[1] = "other"

IsListing(s) == Len(s) \in Nat /\ \A i \in 1..Len(s) : IsLine(s[i])

NoFunction == <<"none", "none", FALSE>>

InPart(n) == \E i \in 1..Len(part) : part[i][1] = "function" /\ part[i][2] = n
NotAvoided(n) == n \notin Dangerous /\ n \notin Frequent

\* The files do not change, and the functions of the part are in the part's file.
Files ==
  /\ IsListing(part) /\ IsListing(kernel)
  /\ \A i \in 1..Len(kernel) : kernel[i][1] = "function" /\ kernel[i][3] => InPart(kernel[i][2])

\* Both passes print numbers of lines, the first one none.
Output == out \in Seq(Nat) /\ (work = "FUNC" => out = <<>>)

\* The names are those of the part's functions; of the functions read so far, all
\* that are not avoided.
Collected ==
  /\ \A n \in names : InPart(n)
  /\ work = "FUNC" =>
       \A i \in 1..Len(part) : i < line /\ part[i][1] = "function" /\ NotAvoided(part[i][2])
                                 => part[i][2] \in names
  /\ work # "FUNC" =>
       /\ regex = names
       /\ \A n \in Names : InPart(n) /\ NotAvoided(n) => n \in names

\* Up to the line read last, the function of a line is one of the file's.
Heads ==
  work # "FUNC" =>
    \A i \in 0..(line - 1) :
      \/ FunctionOf(i) = NoFunction
      \/ \E j \in 1..Len(kernel) : kernel[j][1] = "function" /\ FunctionOf(i) = kernel[j]

\* A function that the second pass looks into.
Chosen(f) ==
  f[1] = "function" /\ NotAvoided(f[2]) /\ \E m \in names : <<m, f[2]>> \in Alike

\* relevant is about the function of the line read last.
Follows ==
  work = "INSTR" => line <= Len(kernel) + 1 /\ (relevant <=> Chosen(FunctionOf(line - 1)))

\* A line that is to be printed.
IsWanted(i) ==
  kernel[i][1] = "instruction" /\ Wanted(kernel[i][2]) /\ Chosen(FunctionOf(i))

\* The lines to be printed are printed, no others, and in order.
Ordered  == PrintedOnce
Sound    == \A i \in 1..Len(out) : out[i] \in 1..Len(kernel) /\ IsWanted(out[i])
BelowLine == work = "INSTR" => \A i \in 1..Len(out) : out[i] < line
Complete ==
  work # "FUNC" =>
    \A i \in 1..Len(kernel) : i < line /\ IsWanted(i) => \E j \in 1..Len(out) : out[j] = i
AtEnd == work = "done" => line > Len(kernel)

Inv ==
  /\ TypeOK /\ Files /\ Output /\ Collected /\ Heads /\ Follows
  /\ Ordered /\ Sound /\ BelowLine /\ Complete /\ AtEnd
-----------------------------------------------------------------------------
(* Operators *)

\* A set of natural numbers has a least element.
LEMMA LeastExists ==
  ASSUME NEW S \in SUBSET Nat, S # {}
  PROVE  \E s \in S : \A i \in S : s <= i
<1> DEFINE R == OpToRel(<, Nat)
<1>1. IsWellFoundedOn(R, Nat)
  BY NatLessThanWellFounded
<1>2. PICK s \in S : \A i \in S : ~ (<<i, s>> \in R)
  <2> HIDE DEF R
  <2> QED
    BY <1>1, WFMin, Zenon
<1>3. \A i \in S : ~ (i < s)
  BY <1>2 DEF OpToRel
<1> QED
  BY <1>3

\* The parenthesis that the analyser looks at is one of the operands'.
LEMMA FirstIsOperand ==
  ASSUME NEW x \in Texts, HasParenthesis(x)
  PROVE  \E i \in 1..Len(x.operands) : First(x) = x.operands[i]
<1> DEFINE S == {i \in 1..Len(x.operands) : x.operands[i] \in Parenthesised}
<1>1. S \in SUBSET Nat /\ S # {}
  BY DEF HasParenthesis
<1>2. PICK i \in S : \A j \in S : i <= j
  <2> HIDE DEF S
  <2> QED BY <1>1, LeastExists
<1>3. Len(x.operands) \in Nat
  BY TextsAssumption
<1>4. /\ i \in 1..Len(x.operands) /\ x.operands[i] \in Parenthesised
      /\ \A j \in 1..(i - 1) : x.operands[j] \notin Parenthesised
  <2>1. i \in Nat /\ i <= Len(x.operands)
    BY <1>2, <1>3
  <2>2. ASSUME NEW j \in 1..(i - 1), x.operands[j] \in Parenthesised PROVE FALSE
    <3>1. j \in S
      BY <2>1, <2>2, <1>3
    <3> QED
      BY <1>2, <2>1, <3>1
  <2> QED
    BY <1>2, <2>2
<1> HIDE DEF S
<1> QED
  BY <1>4, Zenon DEF First

\* The kinds of lines.
LEMMA LineKinds == ASSUME NEW l \in Lines PROVE IsLine(l)
BY DEF Lines, IsLine, IsFunction

LEMMA ListingKinds == ASSUME NEW s \in Seq(Lines) PROVE IsListing(s)
<1>1. \A i \in 1..Len(s) : s[i] \in Lines
  OBVIOUS
<1> QED
  BY <1>1, LineKinds DEF IsListing

\* Before the first line there is no function.
LEMMA FunctionOfNone == FunctionOf(0) = NoFunction
<1>1. {j \in 1..0 : kernel[j][1] = "function"} = {}
  OBVIOUS
<1> QED
  BY <1>1, Zenon DEF FunctionOf, NoFunction

\* The line that begins a function belongs to it.
LEMMA FunctionOfHead ==
  ASSUME NEW i \in Nat \ {0}, kernel[i][1] = "function"
  PROVE  FunctionOf(i) = kernel[i]
<1> DEFINE S == {j \in 1..i : kernel[j][1] = "function"}
<1>1. i \in S /\ \A j \in S : j <= i
  OBVIOUS
<1>2. \A j \in S : (\A m \in S : m <= j) => j = i
  BY <1>1
<1>3. (CHOOSE j \in S : \A m \in S : m <= j) = i
  <2> HIDE DEF S
  <2> QED BY <1>1, <1>2
<1>4. S # {}
  BY <1>1
<1>5. FunctionOf(i) = IF S = {} THEN NoFunction ELSE kernel[CHOOSE j \in S : \A m \in S : m <= j]
  BY DEF FunctionOf, NoFunction
<1> HIDE DEF S
<1> QED
  BY <1>3, <1>4, <1>5

\* Any other line belongs to the function of the line before it.
LEMMA FunctionOfOther ==
  ASSUME NEW i \in Nat \ {0}, kernel[i][1] # "function"
  PROVE  FunctionOf(i) = FunctionOf(i - 1)
<1> DEFINE S == {j \in 1..i : kernel[j][1] = "function"}
           T == {j \in 1..(i - 1) : kernel[j][1] = "function"}
<1>1. S = T
  OBVIOUS
<1>2. FunctionOf(i) = IF S = {} THEN NoFunction ELSE kernel[CHOOSE j \in S : \A m \in S : m <= j]
  BY DEF FunctionOf, NoFunction
<1>3. FunctionOf(i - 1) =
        IF T = {} THEN NoFunction ELSE kernel[CHOOSE j \in T : \A m \in T : m <= j]
  BY DEF FunctionOf, NoFunction
<1> HIDE DEF S, T
<1> QED
  BY <1>1, <1>2, <1>3

\* As long as the files are the same, so is the function of a line.
LEMMA FunctionOfSame ==
  ASSUME UNCHANGED files, NEW i
  PROVE  FunctionOf(i)' = FunctionOf(i)
BY DEF FunctionOf, files

LEMMA ChosenSame ==
  ASSUME UNCHANGED <<files, names>>
  PROVE  /\ \A f : Chosen(f)' = Chosen(f)
         /\ \A i : IsWanted(i)' = IsWanted(i)
<1>1. \A f : Chosen(f)' = Chosen(f)
  BY DEF Chosen, NotAvoided
<1>2. \A i : FunctionOf(i)' = FunctionOf(i)
  BY FunctionOfSame DEF files
<1>3. \A x : Wanted(x)' = Wanted(x)
  BY DEF Wanted, HasParenthesis, First
<1> QED
  BY <1>1, <1>2, <1>3 DEF IsWanted, Chosen, NotAvoided, files

LEMMA FilesSame ==
  ASSUME Files, UNCHANGED files
  PROVE  Files' /\ \A n : InPart(n)' = InPart(n)
BY DEF Files, files, IsListing, IsLine, IsFunction, InPart
-----------------------------------------------------------------------------
(* The steps *)

LEMMA InitInv == Init => Inv
<1> SUFFICES ASSUME Init PROVE Inv
  OBVIOUS
<1>1. TypeOK
  <2>1. regex \subseteq Names /\ names \subseteq Names
    BY DEF Init, None
  <2>2. /\ line \in Nat \ {0} /\ work \in {"FUNC", "INSTR", "done"}
        /\ relevant \in BOOLEAN
    <3>1. line = 1 /\ work = "FUNC" /\ relevant = FALSE
      BY Zenon DEF Init
    <3>2. line \in Nat \ {0} /\ work \in {"FUNC", "INSTR", "done"}
      BY <3>1
    <3> QED
      BY <3>1, <3>2, Zenon
  <2>3. text \in Texts \cup {NoText}
    BY DEF Init
  <2>4. \A i \in 1..Len(out) : out[i] \in 1..Len(kernel)
    BY DEF Init
  <2> QED
    BY <2>1, <2>2, <2>3, <2>4, Zenon DEF TypeOK
<1>2. Files
  <2>1. IsListing(part) /\ IsListing(kernel)
    BY ListingsAssumption, ListingKinds DEF Init
  <2> QED
    BY <2>1 DEF Init, Files, InPart
<1>3. Output /\ Ordered /\ Sound /\ BelowLine
  BY DEF Init, Output, Ordered, PrintedOnce, Sound, BelowLine
<1>4. Collected
  BY <1>2 DEF Init, Collected, Files, IsListing
<1>5. Heads /\ Follows /\ Complete /\ AtEnd
  BY DEF Init, Heads, Follows, Complete, AtEnd
<1> QED
  BY <1>1, <1>2, <1>3, <1>4, <1>5 DEF Inv

\* The line that is read.
LEMMA LineRead ==
  ASSUME Inv, NEW t, Read(t)
  PROVE  /\ line \in 1..Len(Input) /\ line' = line + 1 /\ Input[line][1] = t
         /\ IsLine(Input[line])
         /\ work = "FUNC" => Input = part
         /\ work # "FUNC" => Input = kernel /\ work = "INSTR"
<1>1. work # "done"
  BY DEF Inv, AtEnd, TypeOK, Read, Input, Files, IsListing
<1>2. Len(Input) \in Nat /\ \A i \in 1..Len(Input) : IsLine(Input[i])
  BY DEF Inv, Files, IsListing, Input
<1>3. line \in 1..Len(Input)
  BY <1>2 DEF Inv, TypeOK, Read
<1> QED
  BY <1>1, <1>2, <1>3 DEF Inv, TypeOK, Read, Input

\* After a line of the second pass, the function of the line read is one of the
\* file's.
LEMMA HeadsStep ==
  ASSUME Inv, NEW t, Read(t), UNCHANGED <<files, work>>
  PROVE  Heads'
<1> SUFFICES ASSUME work # "FUNC", NEW i \in 0..line
             PROVE  \/ FunctionOf(i) = NoFunction
                    \/ \E j \in 1..Len(kernel) :
                         kernel[j][1] = "function" /\ FunctionOf(i) = kernel[j]
  <2>1. line' = line + 1 /\ line \in Nat
    BY LineRead
  <2>2. 0..(line' - 1) = 0..line
    BY <2>1
  <2>3. \A i : FunctionOf(i)' = FunctionOf(i)
    BY FunctionOfSame DEF files
  <2> QED
    BY <2>2, <2>3 DEF Heads, files
<1>1. line \in 1..Len(kernel) /\ line \in Nat \ {0}
  BY LineRead
<1>2. CASE i < line
  BY <1>1, <1>2 DEF Inv, Heads
<1>3. CASE i = line /\ kernel[line][1] = "function"
  BY <1>1, <1>3, FunctionOfHead
<1>4. CASE i = line /\ kernel[line][1] # "function"
  <2>1. FunctionOf(i) = FunctionOf(line - 1) /\ line - 1 \in 0..(line - 1)
    BY <1>1, <1>4, FunctionOfOther
  <2> QED
    BY <2>1 DEF Inv, Heads
<1> QED
  BY <1>1, <1>2, <1>3, <1>4

\* A line that prints nothing, in the first pass or because it is not wanted.
LEMMA NothingPrinted ==
  ASSUME Inv, NEW t, Read(t), UNCHANGED <<files, work, out>>,
         \A n \in names : n \in names',
         work = "INSTR" => names' = names /\ ~IsWanted(line)
  PROVE  Output' /\ Ordered' /\ Sound' /\ BelowLine' /\ Complete' /\ AtEnd'
<1>1. line' = line + 1 /\ line \in Nat \ {0} /\ work # "done"
  <2>1. work # "FUNC" => work = "INSTR"
    BY LineRead
  <2> QED
    BY <2>1, LineRead
<1>2. Output' /\ Ordered'
  BY DEF Inv, Output, Ordered, PrintedOnce
<1>3. AtEnd'
  BY <1>1 DEF AtEnd
<1>4. CASE work = "FUNC"
  <2>1. out' = <<>>
    BY <1>4 DEF Inv, Output
  <2> QED
    BY <1>2, <1>3, <1>4, <2>1 DEF Sound, BelowLine, Complete
<1>5. CASE work = "INSTR"
  <2>1. \A i : IsWanted(i)' = IsWanted(i)
    BY <1>5, ChosenSame
  <2>2. Sound'
    BY <2>1 DEF Inv, Sound, files
  <2>3. BelowLine'
    <3>1. ASSUME NEW i \in 1..Len(out) PROVE out[i] < line + 1
      <4>1. out[i] < line /\ out[i] \in Nat
        BY <1>5, <3>1 DEF Inv, BelowLine, Output
      <4> QED
        BY <4>1, <1>1
    <3> QED
      BY <1>1, <3>1 DEF BelowLine
  <2>4. Complete'
    <3> SUFFICES ASSUME NEW i \in 1..Len(kernel), i < line + 1, IsWanted(i)
                 PROVE  \E j \in 1..Len(out) : out[j] = i
      BY <1>1, <2>1 DEF Complete, files
    <3>1. i # line /\ i \in Nat
      BY <1>5
    <3>2. i < line
      BY <3>1, <1>1
    <3> QED
      BY <3>2, <1>5 DEF Inv, Complete
  <2> QED
    BY <1>2, <1>3, <2>2, <2>3, <2>4
<1> QED
  BY <1>1, <1>4, <1>5, LineRead

LEMMA FunctionLineInv == ASSUME Inv, FunctionLine PROVE Inv'
<1> DEFINE n == Input[line][2]
<1>1. /\ Read("function")
      /\ relevant' = Relevant(n)
      /\ names' = IF relevant' /\ work = "FUNC" THEN names \cup {n} ELSE names
      /\ UNCHANGED <<files, work, regex, text, out>>
  BY DEF FunctionLine
<1>2. /\ line \in 1..Len(Input) /\ line' = line + 1
      /\ Input[line][1] = "function" /\ IsFunction(Input[line]) /\ n \in Names
      /\ work = "FUNC" => Input = part
      /\ work # "FUNC" => Input = kernel /\ work = "INSTR"
  BY <1>1, LineRead DEF IsLine, IsFunction
<1> HIDE DEF n
<1>3. line \in Nat \ {0} /\ line' \in Nat \ {0}
  BY <1>2 DEF Inv, TypeOK
<1>4. TypeOK'
  <2>1. relevant' \in BOOLEAN
    BY <1>1 DEF Relevant
  <2>2. names' \subseteq Names
    BY <1>1, <1>2 DEF Inv, TypeOK
  <2> QED
    BY <1>1, <1>3, <2>1, <2>2 DEF Inv, TypeOK, files
<1>5. Files' /\ \A m : InPart(m)' = InPart(m)
  BY <1>1, FilesSame DEF Inv
<1>6. Collected'
  <2>1. CASE work = "FUNC"
    <3>1. InPart(n)
      BY <1>2, <2>1 DEF InPart, n
    <3>2. \A m \in names' : InPart(m)'
      BY <1>1, <1>5, <3>1 DEF Inv, Collected
    <3>3. ASSUME NEW i \in 1..Len(part), i < line + 1, part[i][1] = "function",
                 NotAvoided(part[i][2])
          PROVE  part[i][2] \in names'
      <4>1. CASE i < line
        BY <1>1, <2>1, <3>3, <4>1 DEF Inv, Collected
      <4>2. CASE i = line
        <5>1. part[i][2] = n
          BY <1>2, <2>1, <4>2 DEF n
        <5>2. relevant'
          BY <1>1, <2>1, <3>3, <5>1 DEF Relevant, Matches, NotAvoided
        <5> QED
          BY <1>1, <2>1, <5>1, <5>2
      <4> QED
        BY <1>3, <4>1, <4>2, <3>3
    <3> QED
      BY <1>1, <1>2, <2>1, <3>2, <3>3 DEF Collected, files, NotAvoided
  <2>2. CASE work = "INSTR"
    BY <1>1, <1>5, <2>2 DEF Inv, Collected, NotAvoided
  <2> QED
    BY <1>2, <2>1, <2>2
<1>7. Heads'
  BY <1>1, HeadsStep
<1>8. Follows'
  <2> SUFFICES ASSUME work = "INSTR"
               PROVE  line' <= Len(kernel) + 1 /\ (relevant' <=> Chosen(FunctionOf(line - 1))')
    BY <1>1 DEF Follows, files
  <2>1. names' = names /\ regex = names /\ Input = kernel
    BY <1>1, <1>2 DEF Inv, Collected
  <2>2. FunctionOf(line) = kernel[line] /\ line' - 1 = line
    BY <1>2, <1>3, <2>1, FunctionOfHead
  <2>5. Chosen(kernel[line]) = Relevant(n)
    BY <1>2, <2>1 DEF Chosen, Relevant, Matches, NotAvoided, n
  <2>6. FunctionOf(line - 1)' = FunctionOf(line)
    <3>1. FunctionOf(line - 1)' = FunctionOf(line' - 1)
      BY <1>1 DEF FunctionOf, files
    <3> QED
      BY <2>2, <3>1
  <2>7. line' <= Len(kernel) + 1
    BY <1>2, <2>1 DEF Inv, Files, IsListing
  <2>8. Chosen(FunctionOf(line - 1))' = Chosen(kernel[line])
    BY <2>1, <2>2, <2>6 DEF Chosen, NotAvoided
  <2> QED
    BY <1>1, <2>5, <2>7, <2>8
<1>9. Output' /\ Ordered' /\ Sound' /\ BelowLine' /\ Complete' /\ AtEnd'
  <2>1. work = "INSTR" => names' = names /\ ~IsWanted(line)
    BY <1>1, <1>2 DEF IsWanted
  <2> QED
    BY <1>1, <2>1, NothingPrinted
<1> QED
  BY <1>4, <1>5, <1>6, <1>7, <1>8, <1>9 DEF Inv

\* What holds after any line that is not a function's, whatever is printed.
LEMMA SameFunction ==
  ASSUME Inv, NEW t, Read(t), t # "function",
         UNCHANGED <<files, work, regex, relevant, names>>
  PROVE  Files' /\ Collected' /\ Heads' /\ Follows'
<1>1. /\ line \in 1..Len(Input) /\ line' = line + 1 /\ Input[line][1] = t
      /\ work = "FUNC" => Input = part
      /\ work # "FUNC" => Input = kernel /\ work = "INSTR"
  BY LineRead
<1>2. line \in Nat \ {0}
  BY DEF Inv, TypeOK
<1>3. Files' /\ \A m : InPart(m)' = InPart(m)
  BY FilesSame DEF Inv
<1>4. Collected'
  <2>1. CASE work = "FUNC"
    <3>1. \A m \in names' : InPart(m)'
      BY <1>3 DEF Inv, Collected
    <3>2. ASSUME NEW i \in 1..Len(part), i < line + 1, part[i][1] = "function",
                 NotAvoided(part[i][2])
          PROVE  part[i][2] \in names
      <4>1. i # line
        BY <1>1, <2>1, <3>2
      <4>2. i < line
        BY <1>2, <3>2, <4>1
      <4> QED
        BY <2>1, <3>2, <4>2 DEF Inv, Collected
    <3> QED
      BY <1>1, <2>1, <3>1, <3>2 DEF Collected, files, NotAvoided
  <2>2. CASE work = "INSTR"
    BY <1>3, <2>2 DEF Inv, Collected, NotAvoided
  <2> QED
    BY <1>1, <2>1, <2>2
<1>5. Heads'
  BY HeadsStep
<1>6. Follows'
  <2> SUFFICES ASSUME work = "INSTR"
               PROVE  line' <= Len(kernel) + 1 /\ (relevant <=> Chosen(FunctionOf(line - 1))')
    BY DEF Follows, files
  <2>1. FunctionOf(line) = FunctionOf(line - 1) /\ line' - 1 = line
    BY <1>1, <1>2, FunctionOfOther
  <2>2. FunctionOf(line - 1)' = FunctionOf(line - 1)
    <3>1. FunctionOf(line - 1)' = FunctionOf(line' - 1)
      BY DEF FunctionOf, files
    <3> QED
      BY <2>1, <3>1
  <2>3. Chosen(FunctionOf(line - 1))' = Chosen(FunctionOf(line - 1))
    BY <2>2 DEF Chosen, NotAvoided
  <2>4. (relevant <=> Chosen(FunctionOf(line - 1)))
    BY DEF Inv, Follows
  <2>5. line' <= Len(kernel) + 1
    BY <1>1, <1>2 DEF Inv, Files, IsListing
  <2> QED
    BY <2>3, <2>4, <2>5
<1> QED
  BY <1>3, <1>4, <1>5, <1>6

\* One more number at the end of the output, which is the line's.
LEMMA LinePrinted ==
  ASSUME Inv, NEW t, Read(t), work = "INSTR", UNCHANGED <<files, work, names>>,
         IsWanted(line), out' = out \o <<line>>
  PROVE  /\ \A i \in 1..Len(out)' : out'[i] \in 1..Len(kernel)
         /\ Output' /\ Ordered' /\ Sound' /\ BelowLine' /\ Complete' /\ AtEnd'
<1>1. line \in 1..Len(kernel) /\ line' = line + 1 /\ line \in Nat
  <2>1. line \in 1..Len(Input) /\ Input = kernel /\ line' = line + 1
    BY LineRead
  <2> QED
    BY <2>1
<1>2. out \in Seq(Nat) /\ Len(out) \in Nat
  BY DEF Inv, Output
<1>3. /\ Len(out') = Len(out) + 1 /\ out'[Len(out) + 1] = line /\ out' \in Seq(Nat)
      /\ \A i \in 1..Len(out) : out'[i] = out[i]
  BY <1>1, <1>2
<1>4. \A i \in 1..Len(out') : i \in 1..Len(out) \/ i = Len(out) + 1
  BY <1>2, <1>3
<1>5. \A i \in 1..Len(out) : out[i] < line /\ out[i] \in Nat
  BY <1>2 DEF Inv, BelowLine
<1>6. \A i : IsWanted(i)' = IsWanted(i)
  BY ChosenSame
<1>7. \A i \in 1..Len(out') : out'[i] \in 1..Len(kernel) /\ IsWanted(out'[i])
  BY <1>1, <1>3, <1>4 DEF Inv, Sound
<1>8. Sound'
  BY <1>6, <1>7 DEF Sound, files
<1>9. Ordered'
  <2> SUFFICES ASSUME NEW i \in 1..Len(out'), NEW j \in 1..Len(out'), i < j
               PROVE  out'[i] < out'[j]
    BY DEF Ordered, PrintedOnce
  <2>1. i \in 1..Len(out)
    BY <1>2, <1>3
  <2>2. CASE j \in 1..Len(out)
    BY <1>3, <2>1, <2>2 DEF Inv, Ordered, PrintedOnce
  <2>3. CASE j = Len(out) + 1
    BY <1>3, <1>5, <2>1, <2>3
  <2> QED
    BY <1>4, <2>2, <2>3
<1>10. BelowLine'
  <2>1. \A i \in 1..Len(out') : out'[i] < line + 1
    BY <1>1, <1>3, <1>4, <1>5
  <2> QED
    BY <1>1, <2>1 DEF BelowLine
<1>11. Complete'
  <2> SUFFICES ASSUME NEW i \in 1..Len(kernel), i < line + 1, IsWanted(i)
               PROVE  \E j \in 1..Len(out') : out'[j] = i
    BY <1>1, <1>6 DEF Complete, files
  <2>1. CASE i < line
    <3>1. PICK j \in 1..Len(out) : out[j] = i
      BY <2>1 DEF Inv, Complete
    <3>2. j \in 1..Len(out')
      BY <1>2, <1>3
    <3> QED
      BY <1>3, <3>1, <3>2
  <2>2. CASE i = line
    BY <1>2, <1>3, <2>2
  <2> QED
    BY <1>1, <2>1, <2>2
<1>12. Output' /\ AtEnd'
  BY <1>3 DEF Output, AtEnd
<1> QED
  BY <1>7, <1>8, <1>9, <1>10, <1>11, <1>12

LEMMA InstructionLineInv == ASSUME Inv, InstructionLine PROVE Inv'
<1>1. PICK t \in {"instruction", "rest"} : Read(t)
  BY DEF InstructionLine
<1>2. UNCHANGED <<files, work, regex, relevant, names>>
  BY DEF InstructionLine
<1>3. /\ line \in 1..Len(Input) /\ line' = line + 1 /\ Input[line][1] = t
      /\ IsLine(Input[line])
      /\ work = "FUNC" => Input = part
      /\ work # "FUNC" => Input = kernel /\ work = "INSTR"
  BY <1>1, LineRead
<1>4. Files' /\ Collected' /\ Heads' /\ Follows'
  BY <1>1, <1>2, SameFunction
<1>5. text' \in Texts \cup {NoText}
  <2>1. TextOf(Input[line]) \in Texts \cup {NoText}
    BY <1>3 DEF TextOf, IsLine, IsFunction
  <2> QED
    BY <2>1 DEF InstructionLine, Inv, TypeOK
<1>6. line' \in Nat \ {0}
  BY <1>3 DEF Inv, TypeOK
<1>7. CASE relevant /\ work = "INSTR" /\ Wanted(TextOf(Input[line]))
  <2>1. out' = out \o <<line>>
    BY <1>7 DEF InstructionLine, Printed
  <2>2. t = "instruction" /\ kernel[line][1] = "instruction" /\ Wanted(kernel[line][2])
    <3>1. ~Wanted(NoText)
      BY DEF Wanted, NoText, MemoryAccess
    <3> QED
      BY <1>3, <1>7, <3>1 DEF TextOf
  <2>3. Chosen(FunctionOf(line))
    <3>1. FunctionOf(line) = FunctionOf(line - 1)
      BY <2>2, FunctionOfOther DEF Inv, TypeOK
    <3> QED
      BY <1>7, <3>1 DEF Inv, Follows
  <2>4. IsWanted(line)
    BY <2>2, <2>3 DEF IsWanted
  <2>5. /\ \A i \in 1..Len(out)' : out'[i] \in 1..Len(kernel)
        /\ Output' /\ Ordered' /\ Sound' /\ BelowLine' /\ Complete' /\ AtEnd'
    BY <1>1, <1>2, <1>7, <2>1, <2>4, LinePrinted
  <2>6. TypeOK'
    BY <1>2, <1>5, <1>6, <2>5 DEF Inv, TypeOK, files
  <2> QED
    BY <1>4, <2>5, <2>6 DEF Inv
<1>8. CASE ~(relevant /\ work = "INSTR" /\ Wanted(TextOf(Input[line])))
  <2>1. out' = out
    <3>1. out \o <<>> = out
      BY DEF Inv, Output
    <3> QED
      BY <1>8, <3>1 DEF InstructionLine, Printed
  <2>2. work = "INSTR" => names' = names /\ ~IsWanted(line)
    <3> SUFFICES ASSUME work = "INSTR", IsWanted(line) PROVE FALSE
      BY <1>2
    <3>1. kernel[line][1] = "instruction" /\ Wanted(kernel[line][2])
      BY DEF IsWanted
    <3>2. FunctionOf(line) = FunctionOf(line - 1)
      BY <3>1, FunctionOfOther DEF Inv, TypeOK
    <3>3. relevant
      BY <3>2 DEF Inv, Follows, IsWanted
    <3>4. TextOf(Input[line]) = kernel[line][2]
      BY <1>3, <3>1 DEF TextOf
    <3> QED
      BY <1>8, <3>1, <3>3, <3>4
  <2>3. Output' /\ Ordered' /\ Sound' /\ BelowLine' /\ Complete' /\ AtEnd'
    BY <1>1, <1>2, <2>1, <2>2, NothingPrinted
  <2>4. TypeOK'
    BY <1>2, <1>5, <1>6, <2>1 DEF Inv, TypeOK, files
  <2> QED
    BY <1>4, <2>3, <2>4 DEF Inv
<1> QED
  BY <1>7, <1>8

LEMMA OtherLineInv == ASSUME Inv, OtherLine PROVE Inv'
<1>1. Read("other") /\ UNCHANGED <<files, work, regex, relevant, text, names, out>>
  BY DEF OtherLine
<1>2. Files' /\ Collected' /\ Heads' /\ Follows'
  BY <1>1, SameFunction
<1>3. work = "INSTR" => names' = names /\ ~IsWanted(line)
  <2>1. work = "INSTR" => kernel[line][1] = "other"
    BY <1>1, LineRead
  <2> QED
    BY <1>1, <2>1 DEF IsWanted
<1>4. Output' /\ Ordered' /\ Sound' /\ BelowLine' /\ Complete' /\ AtEnd'
  BY <1>1, <1>3, NothingPrinted
<1>5. TypeOK'
  <2>1. line' \in Nat \ {0}
    BY <1>1 DEF Inv, TypeOK, Read
  <2> QED
    BY <1>1, <2>1 DEF Inv, TypeOK, files
<1> QED
  BY <1>2, <1>4, <1>5 DEF Inv

LEMMA SecondPassInv == ASSUME Inv, SecondPass PROVE Inv'
<1>1. /\ work = "FUNC" /\ line > Len(part) /\ work' = "INSTR" /\ regex' = names /\ line' = 1
      /\ relevant' = FALSE /\ text' = NoText /\ UNCHANGED <<files, names, out>>
  BY DEF SecondPass, Input
<1>2. out = <<>>
  BY <1>1 DEF Inv, Output
<1>3. TypeOK'
  <2>1. regex' \subseteq Names /\ names' \subseteq Names
    BY <1>1 DEF Inv, TypeOK
  <2>2. \A i \in 1..Len(out') : out'[i] \in 1..Len(kernel')
    BY <1>1, <1>2
  <2>3. line' \in Nat \ {0} /\ work' \in {"FUNC", "INSTR", "done"}
    BY <1>1
  <2>4. relevant' \in BOOLEAN /\ text' \in Texts \cup {NoText}
    BY <1>1, Zenon
  <2> QED
    BY <2>1, <2>2, <2>3, <2>4, Zenon DEF TypeOK
<1>4. Files' /\ \A m : InPart(m)' = InPart(m)
  BY <1>1, FilesSame DEF Inv
<1>5. Collected'
  <2>1. \A m \in names' : InPart(m)'
    BY <1>1, <1>4 DEF Inv, Collected
  <2>2. ASSUME NEW m \in Names, InPart(m), NotAvoided(m) PROVE m \in names
    <3>1. PICK i \in 1..Len(part) : part[i][1] = "function" /\ part[i][2] = m
      BY <2>2 DEF InPart
    <3>2. i < line
      BY <1>1 DEF Inv, Files, IsListing, TypeOK
    <3> QED
      BY <1>1, <2>2, <3>1, <3>2 DEF Inv, Collected
  <2> QED
    BY <1>1, <1>4, <2>1, <2>2 DEF Collected, NotAvoided
<1>6. FunctionOf(0)' = NoFunction /\ FunctionOf(line - 1)' = NoFunction
  <2>1. FunctionOf(0)' = FunctionOf(0)
    BY <1>1, FunctionOfSame DEF files
  <2>2. FunctionOf(line - 1)' = FunctionOf(1 - 1)
    BY <1>1 DEF FunctionOf, files
  <2> QED
    BY <2>1, <2>2, FunctionOfNone
<1>7. Heads'
  <2>1. 0..(line' - 1) = {0}
    BY <1>1
  <2> QED
    BY <1>6, <2>1 DEF Heads
<1>8. Follows'
  <2>1. ~Chosen(FunctionOf(line - 1))'
    BY <1>6 DEF Chosen, NoFunction
  <2>2. line' <= Len(kernel') + 1
    BY <1>1, <1>4 DEF Files, IsListing
  <2> QED
    <3>1. work' = "INSTR" /\ relevant' = FALSE
      BY <1>1, Zenon
    <3> QED
      BY <3>1, <2>1, <2>2, Zenon DEF Follows
<1>9. Output' /\ Ordered' /\ Sound' /\ BelowLine'
  BY <1>1, <1>2 DEF Inv, Output, Ordered, PrintedOnce, Sound, BelowLine
<1>10. Complete' /\ AtEnd'
  BY <1>1 DEF Complete, AtEnd
<1> QED
  BY <1>3, <1>4, <1>5, <1>7, <1>8, <1>9, <1>10 DEF Inv

LEMMA DoneInv == ASSUME Inv, Done PROVE Inv'
<1>1. /\ work = "INSTR" /\ line > Len(kernel) /\ work' = "done"
      /\ UNCHANGED <<files, regex, line, relevant, text, names, out>>
  BY DEF Done, Input
<1>2. \A i : IsWanted(i)' = IsWanted(i) /\ FunctionOf(i)' = FunctionOf(i)
  BY <1>1, ChosenSame, FunctionOfSame DEF files
<1>3. TypeOK' /\ Output' /\ Ordered' /\ BelowLine' /\ AtEnd'
  BY <1>1 DEF Inv, TypeOK, Output, Ordered, PrintedOnce, BelowLine, AtEnd, files
<1>4. Files' /\ \A m : InPart(m)' = InPart(m)
  BY <1>1, FilesSame DEF Inv
<1>5. Collected' /\ Follows'
  BY <1>1, <1>4 DEF Inv, Collected, Follows, NotAvoided
<1>6. Heads' /\ Sound' /\ Complete'
  BY <1>1, <1>2 DEF Inv, Heads, Sound, Complete, files
<1> QED
  BY <1>3, <1>4, <1>5, <1>6 DEF Inv

LEMMA StutterInv == ASSUME Inv, UNCHANGED vars PROVE Inv'
<1>1. UNCHANGED <<files, work, regex, line, relevant, text, names, out>>
  BY DEF vars
<1>2. \A i : IsWanted(i)' = IsWanted(i) /\ FunctionOf(i)' = FunctionOf(i)
  BY <1>1, ChosenSame, FunctionOfSame DEF files
<1>3. TypeOK' /\ Output' /\ Ordered' /\ BelowLine' /\ AtEnd'
  BY <1>1 DEF Inv, TypeOK, Output, Ordered, PrintedOnce, BelowLine, AtEnd, files
<1>4. Files' /\ \A m : InPart(m)' = InPart(m)
  BY <1>1, FilesSame DEF Inv
<1>5. Collected'
  BY <1>1, <1>4 DEF Inv, Collected, NotAvoided, files
<1>6. Follows'
  <2>1. FunctionOf(line - 1)' = FunctionOf(line - 1)
    BY <1>1 DEF FunctionOf, files
  <2> QED
    BY <1>1, <2>1 DEF Inv, Follows, Chosen, NotAvoided, files
<1>7. Heads' /\ Sound' /\ Complete'
  BY <1>1, <1>2 DEF Inv, Heads, Sound, Complete, files
<1> QED
  BY <1>3, <1>4, <1>5, <1>6, <1>7 DEF Inv
-----------------------------------------------------------------------------
(* The theorems *)

LEMMA InvHolds == Spec => []Inv
<1>1. Inv /\ [Next]_vars => Inv'
  BY FunctionLineInv, InstructionLineInv, OtherLineInv, SecondPassInv, DoneInv, StutterInv
  DEF Next
<1> QED
  BY <1>1, InitInv, PTL DEF Spec

\* What the analyser keeps has its shape.
THEOREM TypeCorrect == Spec => []TypeOK
<1>1. Inv => TypeOK
  BY DEF Inv
<1> QED
  BY <1>1, InvHolds, PTL

\* INSTR of work prints an address as it reads its line: none twice.  The lists of
\* Breakpoints, which are what is printed, are assumed to be of this kind.
THEOREM OnceCorrect == Spec => []PrintedOnce
<1>1. Inv => PrintedOnce
  BY DEF Inv, Ordered
<1> QED
  BY <1>1, InvHolds, PTL

\* get_function_name, match and the tests of INSTR: what is printed is an access off
\* the stack in a function that is wanted.
THEOREM RightCorrect == Spec => []PrintedIsRight
<1>1. Inv => PrintedIsRight
  <2> SUFFICES ASSUME Inv, NEW i \in 1..Len(out)
               PROVE  LET f == FunctionOf(out[i]) IN
                      /\ kernel[out[i]][1] = "instruction"
                      /\ \E j \in 1..Len(kernel[out[i]][2].operands) :
                           kernel[out[i]][2].operands[j] = "heap"
                      /\ f[2] \notin Dangerous \cup Frequent
                      /\ f[3] \/ \E n \in PartNames : <<n, f[2]>> \in Alike
    BY DEF PrintedIsRight
  <2>1. out[i] \in 1..Len(kernel) /\ IsWanted(out[i])
    BY DEF Inv, Sound
  <2>2. kernel[out[i]][2] \in Texts
    BY <2>1 DEF Inv, Files, IsListing, IsLine, IsFunction, IsWanted
  <2>3. \E j \in 1..Len(kernel[out[i]][2].operands) : kernel[out[i]][2].operands[j] = "heap"
    BY <2>1, <2>2, FirstIsOperand DEF IsWanted, Wanted
  <2>4. PICK n \in names : <<n, FunctionOf(out[i])[2]>> \in Alike
    BY <2>1 DEF IsWanted, Chosen
  <2>5. n \in PartNames
    BY <2>4 DEF Inv, Collected, InPart, PartNames
  <2> QED
    BY <2>1, <2>3, <2>4, <2>5 DEF IsWanted, Chosen, NotAvoided
<1> QED
  BY <1>1, InvHolds, PTL

\* FUNC and INSTR of work together: in the functions of the part, an access is
\* missed only if it is of one of the forms that the analyser does not know.
THEOREM AllFoundCorrect == Spec => []AllFound
<1>1. Inv => AllFound
  <2> SUFFICES ASSUME Inv, work = "done", NEW i \in 1..Len(kernel),
                      kernel[i][1] = "instruction", FunctionOf(i)[3],
                      FunctionOf(i)[2] \notin Dangerous \cup Frequent,
                      Wanted(kernel[i][2])
               PROVE  \E j \in 1..Len(out) : out[j] = i
    BY DEF AllFound, Wanted
  <2>1. i < line /\ i \in 0..(line - 1)
    BY DEF Inv, AtEnd, TypeOK, Files, IsListing
  <2>2. FunctionOf(i) # NoFunction
    <3>1. NoFunction[3] = FALSE
      BY DEF NoFunction
    <3> QED
      BY <3>1, Zenon
  <2>3. PICK j \in 1..Len(kernel) : kernel[j][1] = "function" /\ FunctionOf(i) = kernel[j]
    BY <2>1, <2>2 DEF Inv, Heads
  <2>4. InPart(kernel[j][2]) /\ kernel[j][2] \in Names
    BY <2>3 DEF Inv, Files, IsListing, IsLine, IsFunction
  <2>5. kernel[j][2] \in names
    BY <2>3, <2>4 DEF Inv, Collected, NotAvoided
  <2>6. Chosen(FunctionOf(i))
    BY <2>3, <2>4, <2>5, NamesAssumption DEF Chosen, NotAvoided
  <2> QED
    BY <2>1, <2>6 DEF Inv, Complete, IsWanted
<1> QED
  BY <1>1, InvHolds, PTL
=============================================================================
