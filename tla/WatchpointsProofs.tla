-------------------------- MODULE WatchpointsProofs --------------------------
(***************************************************************************)
(* Theorems about module Watchpoints, for every set of CPUs, any number of *)
(* debug registers and of watches, and any width of id.num.                *)
(***************************************************************************)
EXTENDS Watchpoints, WellFoundedInduction, TLAPS

USE CpusAssumption, SlotsAssumption, NumAssumption, DataAssumption DEF Cpus, Slots
-----------------------------------------------------------------------------
(* Operators *)

\* A set of natural numbers has a least element.
LEMMA LeastExists ==
  ASSUME NEW S \in SUBSET Nat, S # {}
  PROVE  \E s \in S : \A i \in S : s <= i
<1> DEFINE R == OpToRel(<, Nat)
<1>1. IsWellFoundedOn(R, Nat)
  BY NatLessThanWellFounded
<1>2. PICK s \in S : \A i \in S : ~ (<<i, s>> \in R)
  <2> HIDE DEF R
  <2> QED
    BY <1>1, WFMin, Zenon
<1>3. \A i \in S : ~ (i < s)
  BY <1>2 DEF OpToRel
<1> QED
  BY <1>3

\* wp_query takes a bit of dr6.
LEMMA LowestIn ==
  ASSUME NEW bits \in SUBSET Slots, bits # {}
  PROVE  Lowest(bits) \in bits
<1>1. bits \in SUBSET Nat
  OBVIOUS
<1>2. \E s \in bits : \A i \in bits : s <= i
  BY <1>1, LeastExists, Zenon
<1> QED
  BY <1>2 DEF Lowest

\* What id.num holds is a number.
LEMMA TruncType == ASSUME NEW n \in Nat PROVE Trunc(n) \in Int
<1>1. \A a \in Int, b \in Nat \ {0} : a % b \in Int
  OBVIOUS
<1>2. n + NumHalf \in Int /\ 2 * NumHalf \in Nat \ {0}
  OBVIOUS
<1>3. (n + NumHalf) % (2 * NumHalf) \in Int
  BY <1>1, <1>2
<1> QED
  BY <1>3 DEF Trunc

\* A CPU that loads its registers has what the table says, and no other CPU
\* changes.
LEMMA LoadFollows ==
  ASSUME TypeOK, NEW c \in Cpus, LoadRegisters(c), UNCHANGED entries
  PROVE  /\ dr' \in [Cpus -> [Slots -> Data \cup {Zero}]]
         /\ dr7' \in [Cpus -> [Slots -> {"off", "write", "access"}]]
         /\ armed' \in [Cpus -> [Slots -> Nums]]
         /\ Follows(c)'
         /\ \A s \in Slots : (armed[c][s])' \in {wp_num[s], NoNum}
         /\ \A s \in Slots : (dr7[c][s])' # "off" => (armed[c][s])' = wp_num[s]
         /\ \A d \in Cpus \ {c} :
              dr'[d] = dr[d] /\ dr7'[d] = dr7[d] /\ armed'[d] = armed[d]
<1>1. dr' \in [Cpus -> [Slots -> Data \cup {Zero}]]
  BY DEF TypeOK, LoadRegisters
<1>2. Ctrl \in [Slots -> {"off", "write", "access"}]
  BY DEF TypeOK, Ctrl, Mode
<1>3. dr7' \in [Cpus -> [Slots -> {"off", "write", "access"}]]
  BY <1>2 DEF TypeOK, LoadRegisters
<1>4. armed' \in [Cpus -> [Slots -> Nums]]
  BY DEF TypeOK, LoadRegisters, Nums
<1>5. \A s \in Slots :
        /\ dr'[c][s] = IF wp_usage[s] /\ wp_addr[s] # Zero THEN wp_addr[s] ELSE dr[c][s]
        /\ dr7'[c][s] = IF wp_usage[s] THEN Mode(s) ELSE "off"
        /\ armed'[c][s] = IF wp_usage[s] THEN wp_num[s] ELSE NoNum
  BY DEF TypeOK, LoadRegisters, Ctrl
<1>6. Follows(c)'
  BY <1>5 DEF TypeOK, entries, Follows, Mode
<1>7. \A d \in Cpus \ {c} :
        dr'[d] = dr[d] /\ dr7'[d] = dr7[d] /\ armed'[d] = armed[d]
  BY DEF TypeOK, LoadRegisters
<1> QED
  BY <1>1, <1>3, <1>4, <1>5, <1>6, <1>7
-----------------------------------------------------------------------------
(* Types *)

LEMMA TypeInit == Init => TypeOK
<1> SUFFICES ASSUME Init PROVE TypeOK
  OBVIOUS
<1>1. 0 \in Slots
  OBVIOUS
<1> QED
  BY <1>1 DEF Init, TypeOK, WorkerPhases, CtlPhases, DbgPhases, Nums

LEMMA TypeNext == TypeOK /\ [Next]_vars => TypeOK'
<1> SUFFICES ASSUME TypeOK, [Next]_vars PROVE TypeOK'
  OBVIOUS
<1> USE DEF entries, registers, watch, handler, WorkerPhases, CtlPhases, DbgPhases
<1>1. ASSUME NEW c \in Workers, AddCheck(c) PROVE TypeOK'
  BY <1>1 DEF TypeOK, AddCheck, Goto
<1>2. ASSUME NEW c \in Workers, AddFull(c) PROVE TypeOK'
  BY <1>2 DEF TypeOK, AddFull, Goto
<1>3. ASSUME NEW c \in Workers, AddLocked(c) PROVE TypeOK'
  <2>1. PICK s \in Slots : ~wp_usage[s] /\ Enter(s, c)
    BY <1>3 DEF AddLocked
  <2>2. /\ wp_usage' \in [Slots -> BOOLEAN] /\ wp_iswrite' \in [Slots -> BOOLEAN]
        /\ wp_addr' \in [Slots -> Data \cup {Zero}]
        /\ wp_num' \in [Slots -> Nat] /\ wp_total_count' \in Nat
        /\ mynum' \in [Cpus -> Nat]
    <3>1. /\ request[c][1] \in Data \cup {Zero} /\ request[c][2] \in BOOLEAN
          /\ wp_total_count + 1 \in Nat
      BY DEF TypeOK
    <3> QED
      BY <2>1, <3>1 DEF TypeOK, Enter
  <2>3. id' \in [Cpus -> [dr : Slots, num : Nums]]
    BY <2>1 DEF TypeOK, Enter, Nums
  <2> QED
    BY <1>3, <2>2, <2>3 DEF TypeOK, AddLocked, LockAndSend, Goto
<1>4. ASSUME NEW c \in Workers, AddDone(c) PROVE TypeOK'
  BY <1>4, LoadFollows DEF TypeOK, AddDone, LoadAndUnlock, Goto
<1>5. ASSUME NEW c \in Workers, ReadNum(c) PROVE TypeOK'
  <2>1. Trunc(wp_total_count) \in Int
    BY TruncType DEF TypeOK
  <2>2. id' \in [Cpus -> [dr : Slots, num : Nums]]
    <3>1. id' = [id EXCEPT ![c].num = Trunc(wp_total_count)]
      BY <1>5 DEF ReadNum
    <3>2. Trunc(wp_total_count) \in Nums
      BY <2>1 DEF Nums
    <3>3. id \in [Cpus -> [dr : Slots, num : Nums]]
      BY DEF TypeOK
    <3> QED
      BY <3>1, <3>2, <3>3
  <2>3. misread' \in BOOLEAN
    BY <1>5 DEF TypeOK, ReadNum
  <2> QED
    BY <1>5, <2>2, <2>3 DEF TypeOK, ReadNum, Goto
<1>6. ASSUME NEW c \in Workers, RemoveLocked(c) PROVE TypeOK'
  BY <1>6 DEF TypeOK, RemoveLocked, LockAndSend, Goto
<1>7. ASSUME NEW c \in Workers, RemoveGone(c) PROVE TypeOK'
  BY <1>7 DEF TypeOK, RemoveGone, Goto
<1>8. ASSUME NEW c \in Workers, RemoveDone(c) PROVE TypeOK'
  BY <1>8, LoadFollows DEF TypeOK, RemoveDone, LoadAndUnlock, Goto
<1>9. ASSUME NEW c \in Cpus, Query(c) \/ QueryNone(c) PROVE TypeOK'
  <2>1. CASE Query(c)
    <3>1. Lowest(dr6[c]) \in Slots
      BY <2>1, LowestIn DEF TypeOK, Query
    <3>2. slot' \in [Cpus -> Slots] /\ cause' \in [Cpus -> SUBSET (Slots \X Nums)]
      BY <2>1, <3>1 DEF TypeOK, Query
    <3> QED
      BY <2>1, <3>2 DEF TypeOK, Query
  <2>2. CASE QueryNone(c)
    BY <2>2 DEF TypeOK, QueryNone
  <2> QED
    BY <1>9, <2>1, <2>2
<1>10. ASSUME NEW c \in Cpus, DbgRemoveLocked(c) PROVE TypeOK'
  BY <1>10 DEF TypeOK, DbgRemoveLocked, LockAndSend
<1>11. ASSUME NEW c \in Cpus, DbgRemoveDone(c) PROVE TypeOK'
  <2>1. 0 \in Slots
    OBVIOUS
  <2>2. slot' \in [Cpus -> Slots]
    BY <1>11, <2>1 DEF TypeOK, DbgRemoveDone
  <2> QED
    BY <1>11, <2>2, LoadFollows DEF TypeOK, DbgRemoveDone, LoadAndUnlock
<1>12. ASSUME NEW c \in Cpus, Ack(c) PROVE TypeOK'
  BY <1>12, LoadFollows DEF TypeOK, Ack
<1>13. ASSUME NEW c \in Workers, NEW x \in Accesses, Begin(c, x) PROVE TypeOK'
  BY <1>13 DEF TypeOK, Begin, Goto
<1>14. ASSUME NEW c \in Cpus, NEW x \in Accesses, Hit(c, x) PROVE TypeOK'
  <2> DEFINE hit == {s \in Slots : dr[c][s] = x[1]
                       /\ (dr7[c][s] = "access" \/ (dr7[c][s] = "write" /\ x[2]))}
  <2>1. hit \subseteq Slots
    OBVIOUS
  <2>2. PICK old \in {{}, dr6[c]} : dr6' = [dr6 EXCEPT ![c] = old \cup hit]
    BY <1>14 DEF Hit
  <2>3. dr6' \in [Cpus -> SUBSET Slots]
    <3>1. dr6 \in [Cpus -> SUBSET Slots]
      BY DEF TypeOK
    <3>2. old \cup hit \in SUBSET Slots
      BY <2>1, <3>1
    <3> HIDE DEF hit
    <3> QED
      BY <2>2, <3>1, <3>2
  <2>4. {<<s, armed[c][s]>> : s \in hit} \subseteq Slots \X Nums
    <3>1. \A s \in hit : s \in Slots /\ armed[c][s] \in Nums
      BY <2>1 DEF TypeOK
    <3> HIDE DEF hit
    <3> QED
      BY <3>1
  <2>5. cause' \in [Cpus -> SUBSET (Slots \X Nums)]
    BY <1>14, <2>4 DEF TypeOK, Hit
  <2> HIDE DEF hit
  <2> QED
    BY <1>14, <2>2, <2>3, <2>5 DEF TypeOK, Hit
<1>15. ASSUME CleanBegin PROVE TypeOK'
  BY <1>15 DEF TypeOK, CleanBegin, Goto
<1>16. ASSUME CleanLocked PROVE TypeOK'
  BY <1>16 DEF TypeOK, CleanLocked, LockAndSend, Goto
<1>17. ASSUME CleanDone PROVE TypeOK'
  BY <1>17, LoadFollows DEF TypeOK, CleanDone, LoadAndUnlock, Goto
<1>18. ASSUME UNCHANGED vars PROVE TypeOK'
  BY <1>18 DEF TypeOK, vars
<1> QED
  BY <1>1, <1>2, <1>3, <1>4, <1>5, <1>6, <1>7, <1>8, <1>9, <1>10, <1>11, <1>12,
     <1>13, <1>14, <1>15, <1>16, <1>17, <1>18
     DEF Next, ThreadStep, DbgStep, CtlStep

\* The variables keep their shapes: wp_query returns a slot, id.num an int.
THEOREM WatchTypeCorrect == Spec => []TypeOK
BY TypeInit, TypeNext, PTL DEF Spec
-----------------------------------------------------------------------------
(* The registers follow the table *)

\* What a step does to the table and the registers.
TableStep ==
  /\ wp_lock' /\ pending' = Cpus
  /\ UNCHANGED <<registers, cause>>
  /\ wp_total_count' >= wp_total_count
  /\ \A s \in Slots : wp_num'[s] = wp_num[s] \/ wp_num'[s] = wp_total_count'

LoadStep ==
  /\ \E c \in pending : LoadRegisters(c) /\ pending' = pending \ {c}
  /\ wp_lock' = wp_lock \/ pending' = {}
  /\ UNCHANGED <<entries, cause>>

QuietStep == UNCHANGED <<entries, wp_lock, pending, registers>>

\* A step either changes the table and leaves no CPU answered, or loads the
\* registers of one CPU, or does neither.
LEMMA Kinds == TypeOK /\ [Next]_vars => TableStep \/ LoadStep \/ QuietStep
<1> SUFFICES ASSUME TypeOK, [Next]_vars PROVE TableStep \/ LoadStep \/ QuietStep
  OBVIOUS
<1> USE DEF entries, registers, watch, handler
<1>1. ASSUME NEW c \in Workers,
             AddCheck(c) \/ AddFull(c) \/ ReadNum(c) \/ RemoveGone(c)
               \/ \E x \in Accesses : Begin(c, x)
      PROVE  QuietStep
  BY <1>1 DEF AddCheck, AddFull, ReadNum, RemoveGone, Begin, QuietStep
<1>2. ASSUME NEW c \in Cpus, Query(c) \/ QueryNone(c) \/ \E x \in Accesses : Hit(c, x)
      PROVE  QuietStep
  BY <1>2 DEF Query, QueryNone, Hit, QuietStep
<1>3. CleanBegin \/ UNCHANGED vars => QuietStep
  BY DEF CleanBegin, vars, QuietStep
<1>4. ASSUME NEW c \in Workers, AddLocked(c) PROVE TableStep
  <2>1. PICK s \in Slots : ~wp_usage[s] /\ Enter(s, c)
    BY <1>4 DEF AddLocked
  <2>2. \A t \in Slots : wp_num'[t] = wp_num[t] \/ wp_num'[t] = wp_total_count'
    BY <2>1 DEF TypeOK, Enter
  <2>3. wp_total_count' >= wp_total_count
    BY <2>1 DEF TypeOK, Enter
  <2> QED
    BY <1>4, <2>2, <2>3 DEF AddLocked, LockAndSend, TableStep
<1>5. ASSUME NEW c \in Cpus, RemoveLocked(c) \/ DbgRemoveLocked(c) PROVE TableStep
  BY <1>5 DEF TypeOK, RemoveLocked, DbgRemoveLocked, LockAndSend, TableStep
<1>6. CleanLocked => TableStep
  BY DEF TypeOK, CleanLocked, LockAndSend, TableStep
<1>7. ASSUME NEW c \in Cpus, AddDone(c) \/ RemoveDone(c) \/ DbgRemoveDone(c)
      PROVE  LoadStep
  BY <1>7 DEF AddDone, RemoveDone, DbgRemoveDone, LoadAndUnlock, LoadStep
<1>8. ASSUME NEW c \in Cpus, Ack(c) PROVE LoadStep
  BY <1>8 DEF Ack, LoadStep
<1>9. CleanDone => LoadStep
  BY DEF CleanDone, LoadAndUnlock, LoadStep
<1> QED
  BY <1>1, <1>2, <1>3, <1>4, <1>5, <1>6, <1>7, <1>8, <1>9
     DEF Next, ThreadStep, DbgStep, CtlStep

LEMMA FollowsNext ==
  TypeOK /\ RegistersFollowTable /\ [Next]_vars => RegistersFollowTable'
<1> SUFFICES ASSUME TypeOK, RegistersFollowTable, [Next]_vars
             PROVE  RegistersFollowTable'
  OBVIOUS
<1>1. CASE TableStep
  BY <1>1 DEF TableStep, RegistersFollowTable
<1>2. CASE LoadStep
  <2>1. PICK c \in pending : LoadRegisters(c) /\ pending' = pending \ {c}
    BY <1>2 DEF LoadStep
  <2>2. c \in Cpus /\ UNCHANGED entries
    BY <1>2 DEF TypeOK, LoadStep
  <2>3. Follows(c)'
    BY <2>1, <2>2, LoadFollows
  <2>4. ASSUME NEW d \in Cpus \ {c}, Follows(d) PROVE Follows(d)'
    <3>1. dr'[d] = dr[d] /\ dr7'[d] = dr7[d] /\ armed'[d] = armed[d]
      BY <2>1, <2>2, LoadFollows
    <3> QED
      BY <2>2, <2>4, <3>1 DEF Follows, entries
  <2> QED
    BY <1>2, <2>1, <2>3, <2>4 DEF RegistersFollowTable, LoadStep
<1>3. CASE QuietStep
  BY <1>3 DEF QuietStep, RegistersFollowTable, Follows, entries, registers
<1> QED
  BY <1>1, <1>2, <1>3, Kinds

\* A CPU that has answered, and every CPU while wp_lock_drddr is free, has the
\* used slots armed as the table says, for every interleaving of set_dr with
\* debug handlers and wp_clean.
THEOREM RegistersCorrect == Spec => []RegistersFollowTable
<1>1. Init => RegistersFollowTable
  BY DEF Init, RegistersFollowTable, Follows
<1> QED
  BY <1>1, WatchTypeCorrect, FollowsNext, PTL DEF Spec
-----------------------------------------------------------------------------
(* Owners *)

\* The number of a watch is positive, and the id of a thread that holds a watch
\* has it, unless an id was read wrongly.
Numbered ==
  \A c \in Workers :
    /\ wpc[c] \in {"addIpi", "num", "watch"} => mynum[c] >= 1
    /\ wpc[c] = "watch" /\ ~misread => id[c].num = mynum[c]

LEMMA OwnersNext ==
  TypeOK /\ Numbered /\ NoLeak /\ [Next]_vars => Numbered' /\ NoLeak'
<1> SUFFICES ASSUME TypeOK, Numbered, NoLeak, [Next]_vars
             PROVE  Numbered' /\ NoLeak'
  OBVIOUS
<1> USE DEF entries, registers, watch, handler
<1>1. ASSUME NEW c \in Workers, AddCheck(c) PROVE Numbered' /\ NoLeak'
  BY <1>1 DEF TypeOK, Numbered, NoLeak, Owned, AddCheck, Goto
<1>2. ASSUME NEW c \in Workers, AddFull(c) PROVE Numbered' /\ NoLeak'
  BY <1>2 DEF TypeOK, Numbered, NoLeak, Owned, AddFull, Goto
<1>3. ASSUME NEW c \in Workers, AddLocked(c) PROVE Numbered' /\ NoLeak'
  <2>1. PICK s \in Slots : ~wp_usage[s] /\ Enter(s, c)
    BY <1>3 DEF AddLocked
  <2>2. /\ wpc[c] = "add" /\ wpc' = [wpc EXCEPT ![c] = "addIpi"]
        /\ misread' = misread
    BY <1>3 DEF AddLocked, Goto
  <2>3. Numbered'
    <3>1. mynum'[c] = wp_total_count + 1 /\ wp_total_count \in Nat
      BY <2>1 DEF TypeOK, Enter
    <3>2. ASSUME NEW d \in Workers \ {c}
          PROVE  wpc'[d] = wpc[d] /\ mynum'[d] = mynum[d] /\ id'[d] = id[d]
      BY <2>1, <2>2 DEF TypeOK, Enter
    <3>3. wpc'[c] = "addIpi"
      BY <2>2 DEF TypeOK
    <3> QED
      BY <2>2, <3>1, <3>2, <3>3 DEF Numbered
  <2>4. Owned(s)'
    BY <2>1, <2>2 DEF TypeOK, Owned, Enter
  <2>5. ASSUME NEW t \in Slots \ {s}, Owned(t) PROVE Owned(t)'
    BY <2>1, <2>2, <2>5 DEF TypeOK, Owned, Enter
  <2>6. \A t \in Slots \ {s} : wp_usage'[t] = wp_usage[t]
    BY <2>1 DEF TypeOK, Enter
  <2> QED
    BY <2>2, <2>3, <2>4, <2>5, <2>6 DEF NoLeak
<1>4. ASSUME NEW c \in Workers, AddDone(c) PROVE Numbered' /\ NoLeak'
  BY <1>4 DEF TypeOK, Numbered, NoLeak, Owned, AddDone, Goto
<1>5. ASSUME NEW c \in Workers, ReadNum(c) PROVE Numbered' /\ NoLeak'
  <2> DEFINE n == Trunc(wp_total_count)
  <2>1. n \in Int
    BY TruncType DEF TypeOK
  <2>2. /\ wpc[c] = "num" /\ wpc' = [wpc EXCEPT ![c] = IF n >= 0 THEN "watch" ELSE "idle"]
        /\ id' = [id EXCEPT ![c].num = n]
        /\ misread' = (misread \/ n # mynum[c])
        /\ UNCHANGED <<entries, mynum>>
    BY <1>5 DEF ReadNum, Goto
  <2> HIDE DEF n
  <2>3. /\ wpc'[c] \in {"watch", "idle"} /\ id'[c].num = n /\ id'[c].dr = id[c].dr
        /\ mynum' = mynum /\ mynum[c] >= 1
    BY <2>2 DEF TypeOK, Numbered
  <2>4. \A d \in Workers \ {c} : wpc'[d] = wpc[d] /\ id'[d] = id[d]
    BY <2>2 DEF TypeOK
  <2>5. ~misread' => ~misread /\ n = mynum[c]
    BY <2>2, Zenon
  <2>6. Numbered'
    <3>1. ASSUME NEW d \in Workers
          PROVE  /\ wpc'[d] \in {"addIpi", "num", "watch"} => mynum[d] >= 1
                 /\ wpc'[d] = "watch" /\ ~misread' => id'[d].num = mynum[d]
      <4>1. CASE d = c
        BY <2>3, <2>5, <4>1
      <4>2. CASE d # c
        BY <2>4, <2>5, <4>2 DEF Numbered
      <4> QED
        BY <4>1, <4>2
    <3> QED
      BY <2>3, <3>1 DEF Numbered
  <2>7. NoLeak'
    <3> SUFFICES ASSUME ~misread', NEW s \in Slots, wp_usage[s]
                 PROVE  Owned(s)'
      BY <2>2 DEF NoLeak, entries
    <3>1. PICK d \in Workers :
            id[d].dr = s /\ mynum[d] = wp_num[s] /\ wpc[d] \in {"addIpi", "num", "watch"}
      BY <2>5 DEF NoLeak, Owned
    <3>2. CASE d # c
      BY <2>2, <2>3, <2>4, <3>1, <3>2 DEF Owned, entries
    <3>3. CASE d = c
      <4>1. n = mynum[c] /\ mynum[c] >= 1
        BY <2>3, <2>5
      <4>2. wpc'[c] = "watch"
        <5>1. n >= 0
          BY <2>1, <4>1
        <5> QED
          BY <2>2, <5>1 DEF TypeOK
      <4> QED
        BY <2>2, <2>3, <3>1, <3>3, <4>2 DEF Owned, entries
    <3> QED
      BY <3>2, <3>3
  <2> QED
    BY <2>6, <2>7
<1>6. ASSUME NEW c \in Workers, RemoveLocked(c) PROVE Numbered' /\ NoLeak'
  <2>1. /\ wpc[c] = "watch" /\ wpc' = [wpc EXCEPT ![c] = "removeIpi"]
        /\ wp_usage' = [wp_usage EXCEPT ![id[c].dr] = FALSE]
        /\ UNCHANGED <<wp_num, id, mynum, misread>>
    BY <1>6 DEF RemoveLocked, Goto
  <2>2. Numbered'
    BY <2>1 DEF TypeOK, Numbered
  <2>3. NoLeak'
    BY <2>1 DEF TypeOK, NoLeak, Owned
  <2> QED
    BY <2>2, <2>3
<1>7. ASSUME NEW c \in Workers, RemoveGone(c) PROVE Numbered' /\ NoLeak'
  <2>1. /\ wpc[c] = "watch" /\ wpc' = [wpc EXCEPT ![c] = "idle"]
        /\ UNCHANGED <<wp_usage, wp_num, id, mynum, misread>>
        /\ id[c].num # wp_num[id[c].dr]
    BY <1>7 DEF RemoveGone, Goto, Matches
  <2>2. Numbered'
    BY <2>1 DEF TypeOK, Numbered
  <2>3. NoLeak'
    BY <2>1 DEF TypeOK, Numbered, NoLeak, Owned
  <2> QED
    BY <2>2, <2>3
<1>8. ASSUME NEW c \in Workers, RemoveDone(c) PROVE Numbered' /\ NoLeak'
  BY <1>8 DEF TypeOK, Numbered, NoLeak, Owned, RemoveDone, Goto
<1>9. ASSUME NEW c \in Cpus, Query(c) \/ QueryNone(c) \/ DbgRemoveDone(c)
      PROVE  Numbered' /\ NoLeak'
  BY <1>9 DEF Numbered, NoLeak, Owned, Query, QueryNone, DbgRemoveDone
<1>10. ASSUME NEW c \in Cpus, DbgRemoveLocked(c) PROVE Numbered' /\ NoLeak'
  BY <1>10 DEF TypeOK, Numbered, NoLeak, Owned, DbgRemoveLocked
<1>11. ASSUME NEW c \in Cpus, Ack(c) PROVE Numbered' /\ NoLeak'
  BY <1>11 DEF Numbered, NoLeak, Owned, Ack
<1>12. ASSUME NEW c \in Workers, NEW x \in Accesses, Begin(c, x)
       PROVE  Numbered' /\ NoLeak'
  BY <1>12 DEF TypeOK, Numbered, NoLeak, Owned, Begin, Goto
<1>13. ASSUME NEW c \in Cpus, NEW x \in Accesses, Hit(c, x)
       PROVE  Numbered' /\ NoLeak'
  BY <1>13 DEF Numbered, NoLeak, Owned, Hit
<1>14. ASSUME CleanBegin \/ CleanDone PROVE Numbered' /\ NoLeak'
  <2>1. PICK phase : wpc' = [wpc EXCEPT ![Ctl] = phase]
    BY <1>14 DEF CleanBegin, CleanDone, Goto
  <2>2. \A d \in Workers : wpc'[d] = wpc[d]
    BY <2>1 DEF TypeOK
  <2>3. UNCHANGED <<wp_usage, wp_num, id, mynum, misread>>
    BY <1>14 DEF CleanBegin, CleanDone
  <2> QED
    BY <2>2, <2>3 DEF Numbered, NoLeak, Owned
<1>15. ASSUME CleanLocked PROVE Numbered' /\ NoLeak'
  BY <1>15 DEF TypeOK, Numbered, NoLeak, Owned, CleanLocked, Goto
<1>16. ASSUME UNCHANGED vars PROVE Numbered' /\ NoLeak'
  BY <1>16 DEF Numbered, NoLeak, Owned, vars
<1> QED
  BY <1>1, <1>2, <1>3, <1>4, <1>5, <1>6, <1>7, <1>8, <1>9, <1>10, <1>11, <1>12,
     <1>13, <1>14, <1>15, <1>16
     DEF Next, ThreadStep, DbgStep, CtlStep

LEMMA OwnersInvariant == Spec => [](TypeOK /\ Numbered /\ NoLeak)
<1>1. Init => Numbered /\ NoLeak
  BY DEF Init, Numbered, NoLeak
<1> QED
  BY <1>1, WatchTypeCorrect, OwnersNext, PTL DEF Spec

\* Until an id is read wrongly, every slot in use belongs to a thread that will
\* remove its watch.
THEOREM NoLeakCorrect == Spec => []NoLeak
BY OwnersInvariant, PTL

\* The action of RemovesOwnWatch.
OwnRemoval ==
  \A c \in Workers, s \in Slots :
    wpc[c] = "watch" /\ wpc'[c] = "removeIpi" /\ wp_usage[s] /\ ~wp_usage'[s]
      => misread \/ (s = id[c].dr /\ wp_num[s] = mynum[c])

LEMMA RemovalStep == TypeOK /\ Numbered /\ [Next]_vars => OwnRemoval
<1> SUFFICES ASSUME TypeOK, Numbered, [Next]_vars,
                    NEW c \in Workers, NEW s \in Slots,
                    wpc[c] = "watch", wpc'[c] = "removeIpi",
                    wp_usage[s], ~wp_usage'[s], ~misread
             PROVE  s = id[c].dr /\ wp_num[s] = mynum[c]
  BY DEF OwnRemoval
<1> USE DEF entries, registers, watch, handler
<1>1. ASSUME RemoveLocked(c) PROVE s = id[c].dr /\ wp_num[s] = mynum[c]
  <2>1. wp_usage' = [wp_usage EXCEPT ![id[c].dr] = FALSE] /\ Matches(id[c])
    BY <1>1 DEF RemoveLocked
  <2>2. s = id[c].dr
    BY <2>1 DEF TypeOK
  <2>3. id[c].num = mynum[c] /\ id[c].num # 0
    BY DEF Numbered
  <2> QED
    BY <2>1, <2>2, <2>3 DEF Matches
<1>2. ASSUME NEW d \in Workers \ {c}, ThreadStep(d) PROVE FALSE
  <2>1. PICK phase : wpc' = [wpc EXCEPT ![d] = phase]
    BY <1>2 DEF ThreadStep, AddCheck, AddFull, AddLocked, AddDone, ReadNum,
                RemoveLocked, RemoveGone, RemoveDone, Goto
  <2> QED
    BY <2>1 DEF TypeOK
<1>3. ASSUME ThreadStep(c), ~RemoveLocked(c) PROVE FALSE
  BY <1>3 DEF TypeOK, ThreadStep, AddCheck, AddFull, AddLocked, AddDone, ReadNum,
              RemoveGone, RemoveDone, Goto
<1>4. ASSUME NEW d \in Cpus, DbgStep(d) PROVE FALSE
  BY <1>4 DEF DbgStep, Query, QueryNone, DbgRemoveLocked, DbgRemoveDone
<1>5. ASSUME NEW d \in Cpus, Ack(d) PROVE FALSE
  BY <1>5 DEF Ack
<1>6. ASSUME NEW d \in Cpus, NEW x \in Accesses, (d \in Workers /\ Begin(d, x)) \/ Hit(d, x)
      PROVE  FALSE
  BY <1>6 DEF TypeOK, Begin, Hit, Goto
<1>7. ASSUME CleanBegin \/ CtlStep PROVE FALSE
  <2>1. PICK phase : wpc' = [wpc EXCEPT ![Ctl] = phase]
    BY <1>7 DEF CleanBegin, CtlStep, CleanLocked, CleanDone, Goto
  <2> QED
    BY <2>1 DEF TypeOK
<1>8. ASSUME UNCHANGED vars PROVE FALSE
  BY <1>8 DEF vars
<1> QED
  BY <1>1, <1>2, <1>3, <1>4, <1>5, <1>6, <1>7, <1>8 DEF Next

\* A thread whose time is over frees its own watch or none, however often the
\* slot has been freed and taken in between (until an id is read wrongly).
THEOREM RemovalCorrect == Spec => RemovesOwnWatch
<1>1. TypeOK /\ Numbered /\ [Next]_vars => [OwnRemoval]_vars
  BY RemovalStep
<1> QED
  BY <1>1, OwnersInvariant, PTL DEF Spec, RemovesOwnWatch, OwnRemoval
-----------------------------------------------------------------------------
(* Reports *)

\* A register and an exception that it raised bear the number of a watch that
\* is, or was, in the slot.
Caused ==
  /\ \A s \in Slots : wp_num[s] <= wp_total_count
  /\ \A c \in Cpus, s \in Slots :
       /\ armed[c][s] = NoNum \/ (armed[c][s] \in Nat /\ armed[c][s] <= wp_num[s])
       /\ dr7[c][s] # "off" => armed[c][s] # NoNum
  /\ \A c \in Cpus : \A x \in cause[c] :
       x[1] \in Slots /\ x[2] \in Nat /\ x[2] <= wp_num[x[1]]

\* A slot's number only grows.
LEMMA NumGrows ==
  ASSUME TypeOK, Caused, TypeOK', TableStep
  PROVE  /\ \A s \in Slots : wp_num[s] <= wp_num'[s] /\ wp_num'[s] <= wp_total_count'
         /\ \A s \in Slots : wp_num[s] \in Nat /\ wp_num'[s] \in Nat
<1>1. \A s \in Slots : wp_num[s] \in Nat /\ wp_num'[s] \in Nat
  BY DEF TypeOK
<1>2. wp_total_count \in Nat /\ wp_total_count' \in Nat
  BY DEF TypeOK
<1> QED
  BY <1>1, <1>2 DEF TableStep, Caused

\* Only the processor adds to cause.
LEMMA CauseAdded ==
  ASSUME TypeOK, [Next]_vars, NEW c \in Cpus, NEW y \in cause'[c], y \notin cause[c]
  PROVE  \E d \in Cpus, x \in Accesses : Hit(d, x)
<1> USE DEF entries, registers, watch, handler
<1>1. ASSUME NEW d \in Workers, ThreadStep(d) PROVE FALSE
  BY <1>1 DEF ThreadStep, AddCheck, AddFull, AddLocked, AddDone, ReadNum,
              RemoveLocked, RemoveGone, RemoveDone
<1>2. ASSUME NEW d \in Cpus, DbgStep(d) PROVE FALSE
  BY <1>2 DEF TypeOK, DbgStep, Query, QueryNone, DbgRemoveLocked, DbgRemoveDone
<1>3. ASSUME NEW d \in Cpus, Ack(d) PROVE FALSE
  BY <1>3 DEF Ack
<1>4. ASSUME NEW d \in Workers, NEW x \in Accesses, Begin(d, x) PROVE FALSE
  BY <1>4 DEF Begin
<1>5. ASSUME CleanBegin \/ CtlStep PROVE FALSE
  BY <1>5 DEF CleanBegin, CtlStep, CleanLocked, CleanDone
<1>6. ASSUME UNCHANGED vars PROVE FALSE
  BY <1>6 DEF vars
<1> QED
  BY <1>1, <1>2, <1>3, <1>4, <1>5, <1>6 DEF Next

LEMMA CausedNext == TypeOK /\ TypeOK' /\ Caused /\ [Next]_vars => Caused'
<1> SUFFICES ASSUME TypeOK, TypeOK', Caused, [Next]_vars PROVE Caused'
  OBVIOUS
<1>1. CASE TableStep
  BY <1>1, NumGrows DEF TableStep, Caused, registers
<1>2. CASE LoadStep
  <2>1. PICK c \in pending : LoadRegisters(c)
    BY <1>2 DEF LoadStep
  <2>2. c \in Cpus /\ UNCHANGED <<entries, cause>>
    BY <1>2 DEF TypeOK, LoadStep
  <2>3. \A s \in Slots : wp_num[s] \in Nat
    BY DEF TypeOK
  <2>4. \A s \in Slots :
          /\ armed'[c][s] \in {wp_num[s], NoNum}
          /\ dr7'[c][s] # "off" => armed'[c][s] = wp_num[s]
    BY <2>1, <2>2, LoadFollows
  <2>5. \A d \in Cpus \ {c} : dr7'[d] = dr7[d] /\ armed'[d] = armed[d]
    BY <2>1, <2>2, LoadFollows
  <2>6. ASSUME NEW d \in Cpus, NEW s \in Slots
        PROVE  /\ armed'[d][s] = NoNum \/ (armed'[d][s] \in Nat /\ armed'[d][s] <= wp_num[s])
               /\ dr7'[d][s] # "off" => armed'[d][s] # NoNum
    <3>1. CASE d = c
      BY <2>3, <2>4, <3>1
    <3>2. CASE d # c
      BY <2>5, <3>2 DEF Caused
    <3> QED
      BY <3>1, <3>2
  <2> QED
    BY <2>2, <2>6 DEF Caused, entries
<1>3. CASE QuietStep
  <2>1. UNCHANGED <<wp_num, wp_total_count, armed, dr7>>
    BY <1>3 DEF QuietStep, entries, registers
  <2>2. ASSUME NEW c \in Cpus, NEW x \in cause'[c]
        PROVE  x[1] \in Slots /\ x[2] \in Nat /\ x[2] <= wp_num[x[1]]
    <3>1. CASE x \in cause[c]
      BY <3>1 DEF Caused
    <3>2. CASE x \notin cause[c]
      <4>1. PICK d \in Cpus, a \in Accesses : Hit(d, a)
        BY <3>2, CauseAdded
      <4>2. /\ cause' = [cause EXCEPT ![d] = cause'[d]]
            /\ \A y \in cause'[d] :
                 \E s \in Slots : y = <<s, armed[d][s]>> /\ dr7[d][s] # "off"
        <5> DEFINE hit == {s \in Slots : dr[d][s] = a[1]
                             /\ (dr7[d][s] = "access" \/ (dr7[d][s] = "write" /\ a[2]))}
        <5>1. cause' = [cause EXCEPT ![d] = {<<s, armed[d][s]>> : s \in hit}]
          BY <4>1 DEF Hit
        <5>2. \A s \in hit : s \in Slots /\ dr7[d][s] # "off"
          OBVIOUS
        <5>3. cause'[d] = {<<s, armed[d][s]>> : s \in hit}
          BY <5>1 DEF TypeOK
        <5> HIDE DEF hit
        <5> QED
          BY <5>1, <5>2, <5>3
      <4>3. c = d
        BY <2>2, <3>2, <4>2 DEF TypeOK
      <4>4. PICK s \in Slots : x = <<s, armed[d][s]>> /\ dr7[d][s] # "off"
        BY <4>2, <4>3
      <4> QED
        BY <4>4 DEF Caused
    <3> QED
      BY <3>1, <3>2
  <2> QED
    BY <2>1, <2>2 DEF Caused
<1> QED
  BY <1>1, <1>2, <1>3, Kinds

LEMMA CausedInvariant == Spec => [](TypeOK /\ Caused)
<1>1. Init => Caused
  BY DEF Init, Caused
<1>2. TypeOK /\ Caused /\ [Next]_vars => TypeOK' /\ Caused'
  BY TypeNext, CausedNext
<1> QED
  BY <1>1, <1>2, TypeInit, PTL DEF Spec

\* The action of ReportsTheCause.
Report ==
  \A c \in Cpus : dbg[c] = "query" /\ dbg'[c] = "remove" =>
    \/ Stale(c)
    \/ \E x \in cause[c] : x[1] = slot'[c] /\ wp_num[slot'[c]] >= x[2]

LEMMA ReportStep == TypeOK /\ Caused /\ [Next]_vars => Report
<1> SUFFICES ASSUME TypeOK, Caused, [Next]_vars,
                    NEW c \in Cpus, dbg[c] = "query", dbg'[c] = "remove", ~Stale(c)
             PROVE  \E x \in cause[c] : x[1] = slot'[c] /\ wp_num[slot'[c]] >= x[2]
  BY DEF Report
<1> USE DEF entries, registers, watch, handler
<1>1. ASSUME Query(c)
      PROVE  \E x \in cause[c] : x[1] = slot'[c] /\ wp_num[slot'[c]] >= x[2]
  <2>1. slot'[c] = Lowest(dr6[c])
    BY <1>1 DEF TypeOK, Query
  <2>2. slot'[c] \in dr6[c]
    <3>1. dr6[c] \in SUBSET Slots /\ dr6[c] # {}
      BY <1>1 DEF TypeOK, Query
    <3> QED
      BY <2>1, <3>1, LowestIn
  <2>3. PICK x \in cause[c] : x[1] = slot'[c]
    BY <2>2 DEF Stale
  <2>4. x[1] \in Slots /\ x[2] \in Nat /\ x[2] <= wp_num[x[1]]
    BY <2>3 DEF Caused
  <2>5. wp_num[x[1]] \in Nat
    BY <2>4 DEF TypeOK
  <2> QED
    BY <2>3, <2>4, <2>5
<1>2. ASSUME NEW d \in Cpus, DbgStep(d), ~Query(c) PROVE FALSE
  BY <1>2 DEF TypeOK, DbgStep, Query, QueryNone, DbgRemoveLocked, DbgRemoveDone
<1>3. ASSUME NEW d \in Workers, ThreadStep(d) PROVE FALSE
  BY <1>3 DEF ThreadStep, AddCheck, AddFull, AddLocked, AddDone, ReadNum,
              RemoveLocked, RemoveGone, RemoveDone
<1>4. ASSUME NEW d \in Cpus, Ack(d) PROVE FALSE
  BY <1>4 DEF Ack
<1>5. ASSUME NEW d \in Cpus, NEW x \in Accesses, Begin(d, x) \/ Hit(d, x) PROVE FALSE
  BY <1>5 DEF TypeOK, Begin, Hit
<1>6. ASSUME CleanBegin \/ CtlStep PROVE FALSE
  BY <1>6 DEF CleanBegin, CtlStep, CleanLocked, CleanDone
<1>7. ASSUME UNCHANGED vars PROVE FALSE
  BY <1>7 DEF vars
<1> QED
  BY <1>1, <1>2, <1>3, <1>4, <1>5, <1>6, <1>7 DEF Next

\* wp_report prints a watch that raised the exception or a later one in its slot,
\* unless dr6 holds the bit of an earlier exception.
THEOREM ReportCorrect == Spec => ReportsTheCause
<1>1. TypeOK /\ Caused /\ [Next]_vars => [Report]_vars
  BY ReportStep
<1> QED
  BY <1>1, CausedInvariant, PTL DEF Spec, ReportsTheCause, Report
-----------------------------------------------------------------------------
(* The lock *)

Ipi == {"addIpi", "removeIpi", "cleanIpi"}

\* wp_lock_drddr has one owner at most: a thread that adds or removes, wp_clean or
\* a debug handler.
OneOwner ==
  /\ \A c \in Cpus : wpc[c] \in Ipi \/ dbg[c] = "removeIpi" => wp_lock
  /\ \A c, d \in Cpus : wpc[c] \in Ipi /\ wpc[d] \in Ipi => c = d
  /\ \A c, d \in Cpus : dbg[c] = "removeIpi" /\ dbg[d] = "removeIpi" => c = d
  /\ \A c, d \in Cpus : ~(wpc[c] \in Ipi /\ dbg[d] = "removeIpi")

\* While wp_clean holds the lock the table is empty.
Emptied == wpc[Ctl] = "cleanIpi" => \A s \in Slots : ~wp_usage[s]

\* A thread, wp_clean for one, takes the lock.
LEMMA ThreadLocks ==
  ASSUME TypeOK, OneOwner, NEW c \in Cpus, NEW phase \in Ipi,
         ~wp_lock, wp_lock', wpc' = [wpc EXCEPT ![c] = phase], UNCHANGED dbg
  PROVE  OneOwner' /\ \A d \in Cpus : wpc'[d] \in Ipi => d = c
BY DEF TypeOK, OneOwner

LEMMA ThreadUnlocks ==
  ASSUME TypeOK, OneOwner, NEW c \in Cpus, wpc[c] \in Ipi, NEW phase, phase \notin Ipi,
         wpc' = [wpc EXCEPT ![c] = phase], UNCHANGED dbg
  PROVE  OneOwner' /\ \A d \in Cpus : wpc'[d] \notin Ipi
BY DEF TypeOK, OneOwner

\* A thread goes on without the lock.
LEMMA ThreadMoves ==
  ASSUME TypeOK, OneOwner, Emptied, NEW c \in Cpus, wpc[c] \notin Ipi,
         NEW phase, phase \notin Ipi,
         wpc' = [wpc EXCEPT ![c] = phase], UNCHANGED <<dbg, wp_lock, wp_usage>>
  PROVE  OneOwner' /\ Emptied'
<1>1. \A d \in Cpus : wpc'[d] \in Ipi <=> wpc[d] \in Ipi
  BY DEF TypeOK
<1>2. \A d \in Cpus : wpc'[d] \in Ipi => wpc'[d] = wpc[d]
  BY <1>1 DEF TypeOK
<1>3. OneOwner'
  BY <1>1 DEF OneOwner
<1>4. wpc'[Ctl] = "cleanIpi" => wpc[Ctl] = "cleanIpi"
  BY <1>2 DEF Ipi
<1> QED
  BY <1>3, <1>4 DEF Emptied

LEMMA OwnerNext ==
  TypeOK /\ OneOwner /\ Emptied /\ [Next]_vars => OneOwner' /\ Emptied'
<1> SUFFICES ASSUME TypeOK, OneOwner, Emptied, [Next]_vars
             PROVE  OneOwner' /\ Emptied'
  OBVIOUS
<1> USE DEF entries, registers, watch, handler
<1>1. ASSUME NEW c \in Workers, AddCheck(c) \/ AddFull(c) \/ ReadNum(c) \/ RemoveGone(c)
      PROVE  OneOwner' /\ Emptied'
  <2>1. PICK phase \in {"idle", "add", "watch"} : wpc' = [wpc EXCEPT ![c] = phase]
    BY <1>1 DEF AddCheck, AddFull, ReadNum, RemoveGone, Goto
  <2>2. wpc[c] \in {"check", "add", "num", "watch"}
    BY <1>1 DEF AddCheck, AddFull, ReadNum, RemoveGone, Goto
  <2>3. UNCHANGED <<dbg, wp_lock, wp_usage>>
    BY <1>1 DEF AddCheck, AddFull, ReadNum, RemoveGone
  <2>4. wpc[c] \notin Ipi /\ phase \notin Ipi
    BY <2>2 DEF Ipi
  <2> QED
    BY <2>1, <2>3, <2>4, ThreadMoves
<1>2. ASSUME NEW c \in Workers, NEW x \in Accesses, Begin(c, x)
      PROVE  OneOwner' /\ Emptied'
  <2>1. wpc[c] \notin Ipi /\ "check" \notin Ipi
    BY <1>2 DEF Begin, Goto, Ipi
  <2> QED
    BY <1>2, <2>1, ThreadMoves DEF Begin, Goto
<1>3. ASSUME CleanBegin PROVE OneOwner' /\ Emptied'
  <2>1. wpc[Ctl] \notin Ipi /\ "clean" \notin Ipi
    BY <1>3 DEF CleanBegin, Goto, Ipi
  <2> QED
    BY <1>3, <2>1, ThreadMoves DEF CleanBegin, Goto
<1>4. ASSUME NEW c \in Workers, AddLocked(c) \/ RemoveLocked(c) PROVE OneOwner' /\ Emptied'
  <2>1. PICK phase \in Ipi : wpc' = [wpc EXCEPT ![c] = phase]
    BY <1>4 DEF AddLocked, RemoveLocked, Goto, Ipi
  <2>2. ~wp_lock /\ wp_lock' /\ UNCHANGED dbg
    BY <1>4 DEF AddLocked, RemoveLocked, LockAndSend
  <2>3. OneOwner' /\ \A d \in Cpus : wpc'[d] \in Ipi => d = c
    BY <2>1, <2>2, ThreadLocks
  <2>4. wpc'[Ctl] \notin Ipi
    BY <2>3
  <2> QED
    BY <2>3, <2>4 DEF Emptied, Ipi
<1>5. ASSUME CleanLocked PROVE OneOwner' /\ Emptied'
  <2>1. wpc' = [wpc EXCEPT ![Ctl] = "cleanIpi"] /\ "cleanIpi" \in Ipi
    BY <1>5 DEF CleanLocked, Goto, Ipi
  <2>2. OneOwner'
    BY <1>5, <2>1, ThreadLocks DEF CleanLocked, LockAndSend
  <2> QED
    BY <1>5, <2>2 DEF CleanLocked, Emptied
<1>6. ASSUME NEW c \in Cpus, AddDone(c) \/ RemoveDone(c) \/ (c = Ctl /\ CleanDone)
      PROVE  OneOwner' /\ Emptied'
  <2>1. PICK phase \in {"num", "idle"} : wpc' = [wpc EXCEPT ![c] = phase]
    BY <1>6 DEF AddDone, RemoveDone, CleanDone, Goto
  <2>2. wpc[c] \in Ipi /\ phase \notin Ipi /\ UNCHANGED dbg
    BY <1>6 DEF AddDone, RemoveDone, CleanDone, Goto, Ipi
  <2>3. OneOwner' /\ wpc'[Ctl] \notin Ipi
    BY <2>1, <2>2, ThreadUnlocks
  <2> QED
    BY <2>3 DEF Emptied, Ipi
<1>7. ASSUME NEW c \in Cpus, DbgRemoveLocked(c) PROVE OneOwner' /\ Emptied'
  <2>1. /\ ~wp_lock /\ wp_lock' /\ UNCHANGED wpc
        /\ dbg' = [dbg EXCEPT ![c] = "removeIpi"]
    BY <1>7 DEF DbgRemoveLocked, LockAndSend
  <2>2. \A d \in Cpus : wpc[d] \notin Ipi /\ (dbg'[d] = "removeIpi" => d = c)
    BY <2>1 DEF TypeOK, OneOwner
  <2> QED
    BY <2>1, <2>2 DEF OneOwner, Emptied, Ipi
<1>8. ASSUME NEW c \in Cpus, DbgRemoveDone(c) PROVE OneOwner' /\ Emptied'
  <2>1. /\ dbg[c] = "removeIpi" /\ UNCHANGED <<wpc, wp_usage>>
        /\ dbg' = [dbg EXCEPT ![c] = "off"]
    BY <1>8 DEF DbgRemoveDone
  <2>2. \A d \in Cpus : wpc[d] \notin Ipi /\ dbg'[d] # "removeIpi"
    BY <2>1 DEF TypeOK, OneOwner
  <2> QED
    BY <2>1, <2>2 DEF OneOwner, Emptied
<1>9. ASSUME NEW c \in Cpus, Query(c) \/ QueryNone(c) \/ \E x \in Accesses : Hit(c, x)
      PROVE  OneOwner' /\ Emptied'
  <2>1. UNCHANGED <<wpc, wp_lock, wp_usage>>
    BY <1>9 DEF Query, QueryNone, Hit
  <2>2. \A d \in Cpus : dbg'[d] = "removeIpi" => dbg[d] = "removeIpi"
    BY <1>9 DEF TypeOK, Query, QueryNone, Hit
  <2> QED
    BY <2>1, <2>2 DEF OneOwner, Emptied
<1>10. ASSUME (\E c \in Cpus : Ack(c)) \/ UNCHANGED vars PROVE OneOwner' /\ Emptied'
  BY <1>10 DEF Ack, vars, OneOwner, Emptied
<1> QED
  BY <1>1, <1>2, <1>3, <1>4, <1>5, <1>6, <1>7, <1>8, <1>9, <1>10
     DEF Next, ThreadStep, DbgStep, CtlStep

\* The critical sections of drddr-wp.c exclude each other, and nothing enters the
\* table while wp_clean waits for the other CPUs.
THEOREM OwnerCorrect == Spec => [](OneOwner /\ Emptied)
<1>1. Init => OneOwner /\ Emptied
  BY DEF Init, OneOwner, Emptied, Ipi
<1> QED
  BY <1>1, WatchTypeCorrect, OwnerNext, PTL DEF Spec
=============================================================================
