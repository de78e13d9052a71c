------------------------------ MODULE MCAnalyser ------------------------------
(***************************************************************************)
(* An instance of Analyser for TLC: one function with two lines of every   *)
(* kind, or two with one each, and a line before the first.                *)
(***************************************************************************)
EXTENDS Analyser

Text(op, operands) == [op |-> op, operands |-> operands]

MCNames     == {"foo", "foo.part", "foo_part", "cond_resched", "get_page"}
MCDangerous == {"cond_resched"}
MCFrequent  == {"get_page"}
MCAlike     == {<<n, n>> : n \in MCNames} \cup {<<"foo.part", "foo_part">>}
MCTexts ==
  {Text("mov", <<"reg", "heap">>), Text("movs", <<"heap", "heap">>), Text("cmp", <<"stack", "reg">>),
   Text("add", <<"frameIndex", "reg">>), Text("mov", <<"bare", "reg">>),
   Text("lock cmpxchg", <<"reg", "heap">>), Text("lea", <<"heap", "reg">>)}

Listing(S) == {<<<<"other">>, <<"function", s[1], TRUE>>, <<"instruction", Text("mov", <<"reg", "heap">>)>>,
                 <<"function", s[2], TRUE>>>> : s \in S}
MCPartListings ==
  Listing({<<"foo", "foo">>, <<"foo", "get_page">>, <<"foo.part", "cond_resched">>, <<"foo_part", "foo">>})

Heads == {l \in Lines : l[1] = "function"}
Rest  == Lines \ Heads
MCListings == {<<f, x, y>> : f \in Heads, x, y \in Rest} \cup {<<x, f, y, g, z>> :
                 x \in {<<"other">>, <<"instruction", Text("mov", <<"reg", "heap">>)>>},
                 f, g \in Heads, y \in Rest, z \in {<<"rest">>, <<"instruction", Text("movs", <<"heap", "heap">>)>>}}
=============================================================================
