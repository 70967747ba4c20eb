----------------------------- MODULE Hex2Proofs -----------------------------
(***************************************************************************)
(* What holds of hex2 for every input, table size and image base.          *)
(*                                                                         *)
(* The two passes count ip differently inside a half-read byte, so the     *)
(* argument follows the pair <<ip, toggle>>: the history variable mark     *)
(* keeps it as the first pass meets each item, Chain says it advances by   *)
(* After, and Lockstep says the second pass follows it item by item, one   *)
(* behind while a byte is half read.  Filled ties the table to the items.  *)
(* A loss of the input ends all three; a loss of the output ends only what *)
(* is said of its length.                                                  *)
(***************************************************************************)
EXTENDS Hex2Sim, WellFoundedInduction, FiniteSetTheorems, TLAPS

(* What the first pass does to <<ip, toggle>> at one item. *)
After(m, item) ==
  IF item.kind = "digit"
    THEN <<IF m[2] # 0 THEN m[1] + 1 ELSE m[1], -1 - m[2]>>
    ELSE IF item.kind = "pointer" THEN <<m[1] + PWidth(item.sigil), m[2]>>
                                  ELSE m

(* The pair at item i, for the items met so far and the one to come. *)
At(i) == IF i < pos THEN mark[i] ELSE <<ip, toggle>>

Chain ==
  /\ pc = "first" =>
       /\ At(1) = <<OUT_BASE, -1>>
       /\ \A i \in 1 .. pos - 1 : At(i + 1) = After(At(i), prog[i])
  /\ pc = "second" /\ readable =>
       /\ Len(prog) > 0 => mark[1] = <<OUT_BASE, -1>>
       /\ \A i \in 1 .. Len(prog) - 1 : mark[i + 1] = After(mark[i], prog[i])

(* Where the first pass stood when the second is at <<ip, toggle>>. *)
Ahead == <<IF toggle = 0 THEN ip + 1 ELSE ip, toggle>>

Lockstep ==
  (pc = "second" /\ readable /\ pos <= Len(prog)) => mark[pos] = Ahead

(* The items the table has been filled from. *)
Reached == IF pc = "first" THEN pos - 1 ELSE Len(prog)

Filled ==
  (pc = "first" \/ (pc = "second" /\ readable)) =>
    /\ \A k \in 0 .. nlab - 1 :
         /\ defs[k] \in 1 .. Reached /\ IsLabel(defs[k])
         /\ names[k] = prog[defs[k]].name[1]
         /\ targets[k] = mark[defs[k]][1]
    /\ \A j, k \in 0 .. nlab - 1 : j < k => defs[j] < defs[k]
    /\ \A i \in 1 .. Reached : IsLabel(i) => \E k \in 0 .. nlab - 1 : defs[k] = i

Unwritten == pc = "first" => written = 0

IInv == TypeOK /\ Chain /\ IpIsFilePosition /\ Unwritten /\ Lockstep /\ Filled

-----------------------------------------------------------------------------
(* Facts about the input. *)

(* A program's items are items, met at a position inside it. *)
LEMMA ItemType ==
  ASSUME prog \in Seq(Item), NEW i \in DOMAIN prog
  PROVE  /\ prog[i] \in Item /\ i \in 1 .. Len(prog)
         /\ Len(prog) \in Nat /\ DOMAIN prog = 1 .. Len(prog)
OBVIOUS

(* What an item of each kind carries (the cases of classify and hex). *)
LEMMA ItemFields ==
  ASSUME NEW x \in Item
  PROVE  /\ x.kind = "digit" => x.v \in 0 .. 15
         /\ x.kind = "label" => x.name \in Name
         /\ x.kind = "pointer" => /\ x.sigil \in Sigil
                                  /\ x.name \in Name
                                  /\ x.base \in Name \cup {None}
         /\ x.kind \in {"digit", "label", "pointer", "ignored"}
BY DEF Item

(* A pointer is one, two or four bytes wide. *)
LEMMA WidthType ==
  ASSUME NEW s \in Sigil
  PROVE  PWidth(s) \in {1, 2, 4}
BY DEF Sigil, PWidth

(* Whatever the value, its low bytes are a number. *)
LEMMA LowType ==
  ASSUME NEW v \in Int, NEW w \in {1, 2, 4}
  PROVE  Low(v, w) \in Int
BY DEF Low

(* A name fills one field or two, and a field in the table's neighbourhood *)
(* is never written past the last one of a name.                           *)
LEMMA NameType ==
  ASSUME NEW n \in Name
  PROVE  /\ DOMAIN n \in {1 .. 1, 1 .. 2}
         /\ \A j \in DOMAIN n : n[j] \in Final \cup Full
         /\ 1 \in DOMAIN n
         /\ n[1] \in Final <=> n \in Short
BY FieldAssumption DEF Name, Short, Long

(* The scan of get_target stops at the first name that matches. *)
LEMMA ScanFindsFirst ==
  ASSUME NEW n, NEW k \in Hits(n), \A j \in Hits(n) : k <= j, nlab \in Nat
  PROVE  FirstHit(n) = k
BY DEF FirstHit, Hits

(* write_n appends one record and its width, or nothing. *)
LEMMA WriteType ==
  ASSUME out \in Seq([width : {1, 2, 4}, value : Int]), written \in Nat,
         NEW w \in {1, 2, 4}, NEW v \in Int, WriteN(w, v)
  PROVE  /\ out' \in Seq([width : {1, 2, 4}, value : Int]) /\ written' \in Nat
         /\ writable => written' = written + w
<1>1. [width |-> w, value |-> v] \in [width : {1, 2, 4}, value : Int]
  OBVIOUS
<1>2. CASE writable
  <2>1. out' = Append(out, [width |-> w, value |-> v]) /\ written' = written + w
    BY <1>2 DEF WriteN
  <2>2. QED
    BY <1>1, <2>1
<1>3. CASE ~writable
  BY <1>3 DEF WriteN, file
<1>4. QED
  BY <1>2, <1>3

(* A pointer that breaks off is still a pointer, as wide as it was. *)
LEMMA BrokenType ==
  ASSUME NEW x \in Item, x.kind = "pointer", NEW y \in Broken(x)
  PROVE  y \in Item /\ y.kind = "pointer"
<1>1. /\ x \in [kind : {"pointer"}, sigil : Sigil, name : Name,
               base : Name \cup {None}]
  BY DEF Item
<1>2. CASE \E n \in Cuts[x.name] : y = [x EXCEPT !.name = n, !.base = None]
  <2>1. PICK n \in Cuts[x.name] : y = [x EXCEPT !.name = n, !.base = None]
    BY <1>2
  <2>2. n \in Name
    BY <1>1, <2>1, CutAssumption
  <2>3. QED
    BY <1>1, <2>1, <2>2 DEF Item
<1>3. CASE \E b \in (IF x.base = None THEN {} ELSE {None} \cup Cuts[x.base]) :
             y = [x EXCEPT !.base = b]
  <2>1. PICK b \in (IF x.base = None THEN {} ELSE {None} \cup Cuts[x.base]) :
          y = [x EXCEPT !.base = b]
    BY <1>3
  <2>2. x.base \in Name
    BY <1>1, <2>1
  <2>3. b \in Name \cup {None}
    BY <2>1, <2>2, CutAssumption
  <2>4. QED
    BY <1>1, <2>1, <2>3 DEF Item
<1>4. QED
  BY <1>2, <1>3 DEF Broken

(* A name that matches anywhere matches somewhere first. *)
LEMMA MinimalHit ==
  ASSUME NEW n, Hits(n) # {}, nlab \in Nat
  PROVE  FirstHit(n) \in Hits(n)
<1>1. Hits(n) \subseteq Nat
  BY DEF Hits
<1>2. \E k \in Hits(n) : \A j \in Hits(n) : ~(<<j, k>> \in OpToRel(<, Nat))
  BY <1>1, NatLessThanWellFounded, WFMin
<1>3. \A j, k \in Nat : <<j, k>> \in OpToRel(<, Nat) <=> j < k
  BY DEF OpToRel
<1>4. \E k \in Hits(n) : \A j \in Hits(n) : k <= j
  <2>1. PICK k \in Hits(n) : \A j \in Hits(n) : ~(<<j, k>> \in OpToRel(<, Nat))
    BY <1>2
  <2>2. k \in Nat
    BY <1>1
  <2>3. ASSUME NEW j \in Hits(n) PROVE k <= j
    <3>1. j \in Nat
      BY <1>1
    <3>2. ~(j < k)
      BY <1>3, <2>1, <2>2, <3>1
    <3>3. QED
      BY <2>2, <3>1, <3>2
  <2>4. QED
    BY <2>3
<1>5. QED
  BY <1>4 DEF FirstHit

-----------------------------------------------------------------------------
(* Type correctness. *)

LEMMA InitType == Init => TypeOK
<1> SUFFICES ASSUME Init PROVE TypeOK
  OBVIOUS
<1>1. prog \in Seq(Item)
  BY ProgramAssumption DEF Init
<1>2. mark \in [DOMAIN prog -> Nat \X {-1, 0}]
  BY TableAssumption DEF Init
<1>3. names \in [0 .. NLAB -> Final \cup Full]
  BY FieldAssumption DEF Init
<1>4. out \in Seq([width : {1, 2, 4}, value : Int])
  BY DEF Init
<1>5. pos \in Nat \ {0} /\ pos <= Len(prog) + 1
  BY <1>1 DEF Init
<1>6. /\ nlab \in 0 .. NLAB - 1
      /\ targets \in [0 .. NLAB - 1 -> Nat]
      /\ defs \in [0 .. NLAB - 1 -> Nat]
  BY TableAssumption DEF Init
<1>7. QED
  BY <1>2, <1>3, <1>4, <1>5, <1>6, TableAssumption DEF Init, TypeOK

(* What store_pointer does, of whatever it could read. *)
LEMMA ResolveType ==
  ASSUME TypeOK, NEW item \in Item, item.kind = "pointer", Resolve(item)
  PROVE  /\ out' \in Seq([width : {1, 2, 4}, value : Int]) /\ written' \in Nat
         /\ ip' \in Nat /\ toggle' = toggle /\ accum' = accum
         /\ PWidth(item.sigil) \in {1, 2, 4} /\ ip' = ip + PWidth(item.sigil)
         /\ \/ Missing(item) /\ pc' = "exit" /\ code' = 1
            \/ /\ ~Missing(item) /\ pc' = pc /\ code' = code
               /\ writable => written' = written + PWidth(item.sigil)
<1> USE DEF TypeOK, Running, Exit
<1> DEFINE width == PWidth(item.sigil)
<1>2. width \in {1, 2, 4} /\ item.base \in Name \cup {None}
  BY ItemFields, WidthType
<1>3. \A n : Hits(n) # {} => GetTarget(n) \in Int
  <2>1. ASSUME NEW n, Hits(n) # {}
        PROVE  FirstHit(n) \in 0 .. nlab - 1
    BY <2>1, MinimalHit DEF Hits
  <2>2. QED
    BY <2>1, TableAssumption DEF GetTarget
<1>4. ~Missing(item) => PValue(item) \in Int
  <2> SUFFICES ASSUME ~Missing(item) PROVE PValue(item) \in Int
    OBVIOUS
  <2>1. GetTarget(item.name) \in Int
    BY <1>3 DEF Missing
  <2>2. PBase(item) \in Int
    BY <1>2, <1>3 DEF Missing, PBase
  <2>3. QED
    BY <2>1, <2>2 DEF PValue
<1>5. ~Missing(item) => Low(PValue(item), width) \in Int
  BY <1>2, <1>4, LowType
<1>6. /\ ip' = ip + width /\ toggle' = toggle /\ accum' = accum /\ ip' \in Nat
  BY <1>2 DEF Resolve
<1>7. CASE Missing(item)
  BY <1>2, <1>6, <1>7 DEF Resolve, file
<1>8. CASE ~Missing(item)
  <2>1. WriteN(width, Low(PValue(item), width)) /\ pc' = pc /\ code' = code
    BY <1>8 DEF Resolve
  <2>2. QED
    BY <1>2, <1>5, <1>6, <1>8, <2>1, WriteType
<1>9. QED
  BY <1>7, <1>8

(* Each action keeps the types; the table is never indexed outside. *)
LEMMA NextType == TypeOK /\ [Next]_vars => TypeOK'
<1> SUFFICES ASSUME TypeOK, [Next]_vars PROVE TypeOK'
  OBVIOUS
<1> USE DEF TypeOK, Running, Exit, AtEnd, disk
<1>0. prog \in Seq(Item) /\ Len(prog) \in Nat /\ DOMAIN prog = 1 .. Len(prog)
  BY ProgramAssumption
<1>1. CASE StoreLabel
  <2>1. pos \in DOMAIN prog /\ prog[pos] \in Item /\ prog[pos].name \in Name
    BY <1>0, <1>1, ItemType, ItemFields DEF StoreLabel, FirstPass
  <2>2. names' \in [0 .. NLAB -> Final \cup Full]
    BY <1>1, <2>1, NameType DEF StoreLabel
  <2>3. mark' \in [DOMAIN prog -> Nat \X {-1, 0}]
    BY <1>1 DEF StoreLabel, FirstPass
  <2>4. CASE TableFull
    BY <1>0, <1>1, <2>1, <2>2, <2>3, <2>4
       DEF StoreLabel, FirstPass, TableFull, file
  <2>5. CASE ~TableFull
    <3>1. /\ nlab' = nlab + 1 /\ pc' = pc /\ code' = code
          /\ targets' = [targets EXCEPT ![nlab] = ip]
          /\ defs' = [defs EXCEPT ![nlab] = pos]
      BY <1>1, <2>5 DEF StoreLabel
    <3>2. nlab' \in 0 .. NLAB - 1
      BY <2>5, <3>1, TableAssumption DEF TableFull
    <3>3. QED
      BY <1>0, <1>1, <2>1, <2>2, <2>3, <3>1, <3>2
         DEF StoreLabel, FirstPass, file
  <2>6. QED
    BY <2>4, <2>5
<1>2. CASE CountPointer
  <2>1. pos \in DOMAIN prog /\ prog[pos] \in Item /\ prog[pos].sigil \in Sigil
    BY <1>0, <1>2, ItemType, ItemFields DEF CountPointer, FirstPass
  <2>2. PWidth(prog[pos].sigil) \in {1, 2, 4}
    BY <2>1, WidthType
  <2>3. ip' \in Nat
    BY <1>2, <2>2 DEF CountPointer
  <2>4. mark' \in [DOMAIN prog -> Nat \X {-1, 0}]
    BY <1>2 DEF CountPointer, FirstPass
  <2>5. /\ pos' = pos + 1 /\ pos' \in Nat \ {0} /\ pos' <= Len(prog) + 1
        /\ UNCHANGED <<prog, pc, code, accum, toggle, table, file, disk>>
    BY <1>0, <1>2, <2>1 DEF CountPointer, FirstPass
  <2>6. QED
    BY <2>3, <2>4, <2>5 DEF file, table
<1>3. CASE CountDigit
  <2>1. ip' \in Nat /\ toggle' \in {-1, 0}
    BY <1>3 DEF CountDigit, CountsHere
  <2>2. mark' \in [DOMAIN prog -> Nat \X {-1, 0}]
    BY <1>3 DEF CountDigit, FirstPass
  <2>3. /\ pos' = pos + 1 /\ pos' \in Nat \ {0} /\ pos' <= Len(prog) + 1
        /\ UNCHANGED <<prog, pc, code, accum, table, file, disk>>
    BY <1>0, <1>3 DEF CountDigit, FirstPass
  <2>4. QED
    BY <2>1, <2>2, <2>3 DEF file, table
<1>4. CASE IgnoreFirst
  BY <1>0, <1>4 DEF IgnoreFirst, FirstPass, file, table
<1>5. CASE RewindInput
  BY <1>0, <1>5, TableAssumption DEF RewindInput, RewindIp, file, table
<1>6. CASE DropLabel
  BY <1>0, <1>6 DEF DropLabel, SecondPass, file, table
<1>7. CASE StorePointer
  <2>1. pos \in DOMAIN prog /\ prog[pos] \in Item /\ prog[pos].kind = "pointer"
    BY <1>0, <1>7, ItemType DEF StorePointer, SecondPass
  <2>2. Resolve(prog[pos]) /\ pos' = pos + 1
        /\ UNCHANGED <<prog, table, disk, mark>>
    BY <1>7 DEF StorePointer, SecondPass
  <2>3. /\ out' \in Seq([width : {1, 2, 4}, value : Int]) /\ written' \in Nat
        /\ ip' \in Nat /\ toggle' = toggle /\ accum' = accum
        /\ pc' \in {"first", "second", "exit"} /\ code' \in 0 .. 2
    BY <2>1, <2>2, ResolveType
  <2>4. pos' <= Len(prog') + 1 /\ pos' \in Nat \ {0}
    BY <1>0, <2>1, <2>2
  <2>5. QED
    BY <2>2, <2>3, <2>4 DEF table, disk
<1>8. CASE HoldDigit
  <2>1. prog[pos].v \in 0 .. 15 /\ pos \in DOMAIN prog
    BY <1>0, <1>8, ItemType, ItemFields DEF HoldDigit, SecondPass
  <2>2. QED
    BY <1>0, <1>8, <2>1 DEF HoldDigit, SecondPass, file, table
<1>9. CASE PrintByte
  <2>1. prog[pos].v \in 0 .. 15 /\ pos \in DOMAIN prog
    BY <1>0, <1>9, ItemType, ItemFields DEF PrintByte, SecondPass
  <2>2. 16 * accum + prog[pos].v \in Int
    <3>1. accum \in Int /\ prog[pos].v \in Int
      BY <1>0, <2>1
    <3>2. \A x, y \in Int : 16 * x + y \in Int
      OBVIOUS
    <3>3. QED
      BY ONLY <3>1, <3>2
  <2>3. WriteN(1, 16 * accum + prog[pos].v)
    BY <1>9 DEF PrintByte
  <2>4. out' \in Seq([width : {1, 2, 4}, value : Int]) /\ written' \in Nat
    BY <2>2, <2>3, WriteType
  <2>5. QED
    BY <1>0, <1>9, <2>1, <2>4 DEF PrintByte, SecondPass, table
<1>10. CASE IgnoreSecond
  BY <1>0, <1>10 DEF IgnoreSecond, SecondPass, file, table
<1>11. CASE Finish
  BY <1>0, <1>11 DEF Finish, file, table
<1>12. CASE BreakOff
  <2>1. pos \in DOMAIN prog /\ prog[pos] \in Item /\ prog[pos].kind = "pointer"
    BY <1>0, <1>12, ItemType DEF BreakOff, AtEnd
  <2>2. PICK item \in Broken(prog[pos]) : Resolve(item)
    BY <1>12 DEF BreakOff
  <2>3. item \in Item /\ item.kind = "pointer"
    BY <2>1, <2>2, BrokenType
  <2>4. /\ out' \in Seq([width : {1, 2, 4}, value : Int]) /\ written' \in Nat
        /\ ip' \in Nat /\ toggle' = toggle /\ accum' = accum
        /\ pc' \in {"first", "second", "exit"} /\ code' \in 0 .. 2
    <3>1. TypeOK /\ pc \in {"first", "second", "exit"} /\ code \in 0 .. 2
      OBVIOUS
    <3> HIDE DEF TypeOK
    <3>2. /\ out' \in Seq([width : {1, 2, 4}, value : Int])
          /\ written' \in Nat /\ ip' \in Nat
          /\ toggle' = toggle /\ accum' = accum
          /\ (pc' = "exit" /\ code' = 1) \/ (pc' = pc /\ code' = code)
      BY <2>2, <2>3, <3>1, ResolveType
    <3>3. QED
      BY <3>1, <3>2
  <2>5. readable' = FALSE /\ UNCHANGED <<prog, pos, table, writable, mark>>
    BY <1>12 DEF BreakOff
  <2>6. QED
    BY <2>4, <2>5 DEF table
<1>13. CASE LoseInput \/ LoseOutput
  BY <1>13 DEF LoseInput, LoseOutput, Lose, file, table
<1>14. CASE UNCHANGED vars
  BY <1>14 DEF vars, file, table, disk
<1>15. QED
  BY <1>1, <1>2, <1>3, <1>4, <1>5, <1>6, <1>7, <1>8, <1>9, <1>10, <1>11,
     <1>12, <1>13, <1>14 DEF Next, Program

(* hex2 keeps its types: in particular the table never holds NLAB labels   *)
(* (store_label leaves its last field free).                               *)
THEOREM TypeCorrect == Spec => []TypeOK
BY InitType, NextType, PTL DEF Spec

-----------------------------------------------------------------------------
(* One item of either pass, whatever its kind. *)

Onward == pos \in DOMAIN prog /\ pos' = pos + 1 /\ prog' = prog

FirstStep ==
  /\ pc = "first" /\ pc' \in {"first", "exit"} /\ Onward /\ UNCHANGED disk
  /\ mark' = [mark EXCEPT ![pos] = <<ip, toggle>>]
  /\ <<ip', toggle'>> = After(<<ip, toggle>>, prog[pos])

SecondStep ==
  /\ pc = "second" /\ pc' \in {"second", "exit"} /\ Onward
  /\ readable /\ UNCHANGED <<table, disk, mark>>
  /\ pc' = "second" => /\ writable => ip' - ip = written' - written
                       /\ Ahead' = After(Ahead, prog[pos])

LossStep ==
  /\ pc # "exit" /\ UNCHANGED <<prog, pos, table, mark>>
  /\ pc = "first" => UNCHANGED <<pc, ip, toggle, written>>
  /\ pc = "second" => /\ pc' \in {"second", "exit"}
                      /\ readable' => readable /\ UNCHANGED <<ip, toggle>>
  /\ pc' = "second" /\ writable' => /\ writable
                                    /\ ip' - ip = written' - written

(* Every item of the first pass moves <<ip, toggle>> by After. *)
LEMMA FirstPassStep ==
  ASSUME TypeOK, StoreLabel \/ CountPointer \/ CountDigit \/ IgnoreFirst
  PROVE  FirstStep
<1>0. prog \in Seq(Item) /\ Len(prog) \in Nat /\ DOMAIN prog = 1 .. Len(prog)
  BY ProgramAssumption DEF TypeOK
<1> USE DEF FirstStep, Onward, FirstPass, Running, Exit, After, TypeOK, AtEnd,
            disk
<1>1. CASE StoreLabel
  BY <1>0, <1>1 DEF StoreLabel
<1>2. CASE CountPointer
  BY <1>0, <1>2 DEF CountPointer
<1>3. CASE CountDigit
  BY <1>0, <1>3 DEF CountDigit, CountsHere
<1>4. CASE IgnoreFirst
  BY <1>0, <1>4 DEF IgnoreFirst
<1>5. QED
  BY <1>1, <1>2, <1>3, <1>4

(* Every item of the second pass writes what it counts and follows the     *)
(* first pass, one ahead while half a byte is read.                        *)
LEMMA SecondPassStep ==
  ASSUME TypeOK,
         DropLabel \/ StorePointer \/ HoldDigit \/ PrintByte \/ IgnoreSecond
  PROVE  SecondStep
<1>0. prog \in Seq(Item) /\ Len(prog) \in Nat /\ DOMAIN prog = 1 .. Len(prog)
  BY ProgramAssumption DEF TypeOK
<1> USE DEF SecondStep, Onward, SecondPass, Running, Exit, After, Ahead,
            WriteN, file, disk, AtEnd, TypeOK
<1>1. CASE DropLabel
  BY <1>0, <1>1 DEF DropLabel
<1>2. CASE StorePointer
  <2>1. pos \in DOMAIN prog /\ prog[pos] \in Item /\ prog[pos].kind = "pointer"
    BY <1>0, <1>2, ItemType DEF StorePointer
  <2>2. /\ PWidth(prog[pos].sigil) \in {1, 2, 4}
        /\ ip' = ip + PWidth(prog[pos].sigil) /\ toggle' = toggle
        /\ \/ pc' = "exit"
           \/ pc' = pc /\ (writable => written' = written + PWidth(prog[pos].sigil))
    BY <1>2, <2>1, ResolveType DEF StorePointer
  <2>3. CASE pc' = "exit"
    BY <1>2, <2>1, <2>3 DEF StorePointer
  <2>4. CASE pc' # "exit"
    <3>1. /\ writable => written' = written + PWidth(prog[pos].sigil)
          /\ ip' = ip + PWidth(prog[pos].sigil)
          /\ UNCHANGED <<pc, toggle, prog, table, disk, mark>>
          /\ pc = "second" /\ pos' = pos + 1 /\ readable
      BY <1>2, <2>2, <2>4 DEF StorePointer
    <3>2. writable => ip' - ip = written' - written
      BY <2>2, <3>1
    <3>3. Ahead' = After(Ahead, prog[pos])
      <4>1. After(Ahead, prog[pos])
              = <<Ahead[1] + PWidth(prog[pos].sigil), toggle>>
        BY <2>1
      <4>2. CASE toggle = 0
        BY <2>2, <3>1, <4>1, <4>2
      <4>3. CASE toggle # 0
        BY <2>2, <3>1, <4>1, <4>3
      <4>4. QED
        BY <4>2, <4>3
    <3>4. QED
      BY <2>1, <3>1, <3>2, <3>3
  <2>5. QED
    BY <2>3, <2>4
<1>3. CASE HoldDigit
  BY <1>0, <1>3 DEF HoldDigit
<1>4. CASE PrintByte
  BY <1>0, <1>4 DEF PrintByte
<1>5. CASE IgnoreSecond
  BY <1>0, <1>5 DEF IgnoreSecond
<1>6. QED
  BY <1>1, <1>2, <1>3, <1>4, <1>5

(* A loss is where it happens; only a pointer that breaks off goes on, by  *)
(* its own width.                                                          *)
LEMMA LossCases ==
  ASSUME TypeOK, BreakOff \/ LoseInput \/ LoseOutput
  PROVE  LossStep
<1>0. prog \in Seq(Item) /\ Len(prog) \in Nat /\ DOMAIN prog = 1 .. Len(prog)
  BY DEF TypeOK
<1>1. CASE BreakOff
  <2>1. /\ pc = "second" /\ readable' = FALSE
        /\ UNCHANGED <<prog, pos, table, writable, mark>>
    BY <1>1 DEF BreakOff
  <2>2. pos \in DOMAIN prog /\ prog[pos] \in Item /\ prog[pos].kind = "pointer"
    BY <1>0, <1>1, ItemType DEF BreakOff, AtEnd, TypeOK
  <2>3. PICK item \in Broken(prog[pos]) : Resolve(item)
    BY <1>1 DEF BreakOff
  <2>4. item \in Item /\ item.kind = "pointer"
    BY <2>2, <2>3, BrokenType
  <2>5. /\ PWidth(item.sigil) \in {1, 2, 4} /\ ip' = ip + PWidth(item.sigil)
        /\ \/ pc' = "exit"
           \/ pc' = pc /\ (writable => written' = written + PWidth(item.sigil))
    BY <2>3, <2>4, ResolveType
  <2>6. ip \in Nat /\ written \in Nat
    BY DEF TypeOK
  <2>7. pc' = "second" /\ writable' => writable /\ ip' - ip = written' - written
    BY <2>1, <2>5, <2>6
  <2>8. QED
    BY <2>1, <2>5, <2>7 DEF LossStep
<1>2. CASE LoseInput
  BY <1>2 DEF LoseInput, Lose, LossStep, file, TypeOK
<1>3. CASE LoseOutput
  BY <1>3 DEF LoseOutput, Lose, LossStep, file, TypeOK
<1>4. QED
  BY <1>1, <1>2, <1>3

(* The steps of hex2 fall into these. *)
LEMMA StepCases ==
  ASSUME TypeOK, [Next]_vars
  PROVE  \/ FirstStep \/ RewindInput \/ SecondStep \/ Finish \/ LossStep
         \/ UNCHANGED vars
BY FirstPassStep, SecondPassStep, LossCases DEF Next, Program

-----------------------------------------------------------------------------
(* The inductive invariant, conjunct by conjunct. *)

LEMMA ChainStep ==
  ASSUME TypeOK, Chain, [Next]_vars
  PROVE  Chain'
<1>0. Len(prog) \in Nat /\ DOMAIN prog = 1 .. Len(prog)
  BY ProgramAssumption DEF TypeOK
<1>1. CASE FirstStep
  <2>1. pc' # "second" /\ pc = "first"
    BY <1>1 DEF FirstStep
  <2>2. \A i \in 1 .. pos : At(i)' = At(i)
    BY <1>0, <1>1 DEF FirstStep, Onward, At, TypeOK
  <2>3. ASSUME NEW i \in Nat, i = pos + 1
        PROVE  At(i)' = After(At(pos), prog[pos])
    <3>1. pos' = pos + 1 /\ pos \in Nat
      BY <1>1 DEF FirstStep, Onward, TypeOK
    <3>2. <<ip', toggle'>> = After(<<ip, toggle>>, prog[pos])
      BY <1>1 DEF FirstStep
    <3>3. At(pos) = <<ip, toggle>>
      BY <3>1 DEF At
    <3>4. At(i)' = <<ip', toggle'>>
      BY <2>3, <3>1 DEF At
    <3>5. QED
      BY <3>2, <3>3, <3>4
  <2>4. At(1)' = <<OUT_BASE, -1>>
    BY <2>1, <2>2 DEF Chain, TypeOK
  <2>5. ASSUME NEW i \in 1 .. pos' - 1
        PROVE  At(i + 1)' = After(At(i)', prog'[i])
    <3>1. pos' = pos + 1 /\ prog' = prog /\ pos \in Nat
      BY <1>1 DEF FirstStep, Onward, TypeOK
    <3>2. CASE i = pos
      <4>1. i + 1 \in Nat /\ i + 1 = pos + 1 /\ i \in 1 .. pos
        BY <3>1, <3>2
      <4>2. At(i + 1)' = After(At(pos), prog[pos])
        BY <2>3, <4>1
      <4>3. At(i)' = At(i)
        BY <2>2, <4>1
      <4>4. QED
        BY <3>1, <3>2, <4>2, <4>3
    <3>3. CASE i # pos
      <4>1. i \in 1 .. pos - 1 /\ i \in 1 .. pos /\ i + 1 \in 1 .. pos
        BY <3>1, <3>3
      <4>2. At(i + 1) = After(At(i), prog[i])
        BY <2>1, <4>1 DEF Chain
      <4>3. QED
        BY <2>2, <3>1, <4>1, <4>2
    <3>4. QED
      BY <3>2, <3>3
  <2>6. QED
    BY <2>1, <2>4, <2>5 DEF Chain
<1>2. CASE RewindInput /\ ~readable
  BY <1>2 DEF RewindInput, disk, Chain
<1>20. CASE RewindInput /\ readable
  <2>1. /\ pc = "first" /\ pc' = "second" /\ prog' = prog /\ mark' = mark
        /\ pos = Len(prog) + 1
    BY <1>0, <1>20 DEF RewindInput, AtEnd, TypeOK
  <2>2. \A i \in 1 .. Len(prog) : At(i) = mark[i]
    BY <1>0, <2>1 DEF At
  <2>3. Len(prog) > 0 => mark[1] = <<OUT_BASE, -1>>
    BY <1>0, <2>1, <2>2 DEF Chain
  <2>4. ASSUME NEW i \in 1 .. Len(prog) - 1
        PROVE  mark[i + 1] = After(mark[i], prog[i])
    <3>1. i \in 1 .. pos - 1 /\ i \in 1 .. Len(prog) /\ i + 1 \in 1 .. Len(prog)
      BY <1>0, <2>1
    <3>2. At(i + 1) = After(At(i), prog[i])
      BY <2>1, <3>1 DEF Chain
    <3>3. QED
      BY <2>2, <3>1, <3>2
  <2>5. QED
    BY <2>1, <2>3, <2>4 DEF Chain
<1>3. CASE SecondStep
  BY <1>3 DEF SecondStep, Onward, Chain
<1>4. CASE Finish
  BY <1>4 DEF Finish, Exit, Chain
<1>5. CASE LossStep
  <2>1. CASE pc = "first"
    BY <1>5, <2>1 DEF LossStep, Chain, At
  <2>2. CASE pc = "second"
    BY <1>5, <2>2 DEF LossStep, Chain
  <2>3. QED
    BY <1>5, <2>1, <2>2 DEF LossStep, TypeOK
<1>6. CASE UNCHANGED vars
  BY <1>6 DEF vars, disk, Chain, At
<1>7. QED
  BY <1>1, <1>2, <1>20, <1>3, <1>4, <1>5, <1>6, StepCases

LEMMA FirstWritesNothing ==
  ASSUME TypeOK, [Next]_vars, pc = "first"
  PROVE  written' = written
BY DEF TypeOK, Next, StoreLabel, CountPointer, CountDigit, IgnoreFirst,
       RewindInput, FirstPass, DropLabel, StorePointer, HoldDigit, PrintByte,
       IgnoreSecond, SecondPass, Finish, Program, BreakOff, LoseInput,
       LoseOutput, Lose, vars, file

LEMMA IpStep ==
  ASSUME TypeOK, IpIsFilePosition, Unwritten, [Next]_vars
  PROVE  IpIsFilePosition' /\ Unwritten'
<1> USE DEF Unwritten
<1>1. CASE FirstStep
  BY <1>1, FirstWritesNothing DEF FirstStep, IpIsFilePosition
<1>2. CASE RewindInput
  BY <1>2, TableAssumption DEF RewindInput, RewindIp, file, IpIsFilePosition
<1>3. CASE SecondStep
  <2>1. /\ ip \in Nat /\ ip' \in Nat /\ written \in Nat /\ written' \in Nat
    BY NextType DEF TypeOK
  <2>2. CASE pc' = "second" /\ writable'
    <3>1. ip = OUT_BASE + written /\ ip' - ip = written' - written
      BY <1>3, <2>2 DEF SecondStep, disk, IpIsFilePosition
    <3>2. ip' = ip + (written' - written)
      BY <2>1, <3>1
    <3>3. OUT_BASE \in Nat
      BY TableAssumption
    <3>4. ip' = OUT_BASE + written'
      BY <2>1, <3>1, <3>2, <3>3
    <3>5. QED
      BY <2>2, <3>4 DEF IpIsFilePosition
  <2>3. QED
    BY <1>3, <2>2 DEF SecondStep, IpIsFilePosition
<1>4. CASE Finish
  BY <1>4 DEF Finish, Exit, IpIsFilePosition
<1>5. CASE LossStep
  <2>1. CASE pc = "first"
    BY <1>5, <2>1 DEF LossStep, IpIsFilePosition
  <2>2. CASE pc' = "second" /\ writable' /\ pc # "first"
    <3>1. pc = "second"
      BY <1>5, <2>2 DEF LossStep, TypeOK
    <3>2. ip = OUT_BASE + written /\ ip' - ip = written' - written
      BY <1>5, <2>2, <3>1 DEF LossStep, IpIsFilePosition
    <3>3. /\ ip \in Nat /\ ip' \in Nat /\ written \in Nat /\ written' \in Nat
      BY NextType DEF TypeOK
    <3>4. OUT_BASE \in Nat
      BY TableAssumption
    <3>5. ip' = ip + (written' - written)
      BY <3>2, <3>3
    <3>6. ip' = OUT_BASE + written'
      BY <3>2, <3>3, <3>4, <3>5
    <3>7. QED
      BY <2>2, <3>6 DEF IpIsFilePosition
  <2>3. pc # "first" => pc' # "first"
    BY <1>5 DEF LossStep, TypeOK
  <2>4. QED
    BY <2>1, <2>2, <2>3 DEF IpIsFilePosition
<1>6. CASE UNCHANGED vars
  BY <1>6 DEF vars, file, disk, IpIsFilePosition
<1>7. QED
  BY <1>1, <1>2, <1>3, <1>4, <1>5, <1>6, StepCases

LEMMA LockstepStep ==
  ASSUME TypeOK, Chain, Lockstep, [Next]_vars
  PROVE  Lockstep'
<1>0. Len(prog) \in Nat /\ DOMAIN prog = 1 .. Len(prog)
  BY ProgramAssumption DEF TypeOK
<1>1. CASE FirstStep
  BY <1>1 DEF FirstStep, Lockstep
<1>2. CASE RewindInput
  <2>1. /\ pc' = "second" /\ pos' = 1 /\ prog' = prog
        /\ ip' = OUT_BASE /\ toggle' = -1
    BY <1>2 DEF RewindInput, RewindIp
  <2>2. readable' /\ Len(prog) > 0 => mark'[1] = <<OUT_BASE, -1>>
    BY <2>1, ChainStep DEF Chain
  <2>3. Ahead' = <<OUT_BASE, -1>>
    BY <2>1 DEF Ahead
  <2>4. QED
    BY <1>0, <2>1, <2>2, <2>3 DEF Lockstep
<1>3. CASE SecondStep
  <2>1. /\ pc = "second" /\ pos \in DOMAIN prog /\ pos' = pos + 1
        /\ prog' = prog /\ mark' = mark /\ readable
    BY <1>3 DEF SecondStep, Onward
  <2>2. CASE pc' = "second" /\ pos' <= Len(prog)
    <3>1. Ahead' = After(Ahead, prog[pos])
      BY <1>3, <2>2 DEF SecondStep
    <3>2. mark[pos] = Ahead
      BY <1>0, <2>1 DEF Lockstep
    <3>3. pos \in 1 .. Len(prog) - 1
      BY <1>0, <2>1, <2>2
    <3>4. mark[pos + 1] = After(mark[pos], prog[pos])
      BY <2>1, <3>3 DEF Chain
    <3>5. QED
      BY <2>1, <2>2, <3>1, <3>2, <3>4 DEF Lockstep
  <2>3. QED
    BY <2>1, <2>2 DEF Lockstep
<1>4. CASE Finish
  BY <1>4 DEF Finish, Exit, Lockstep
<1>5. CASE LossStep
  BY <1>5 DEF LossStep, Lockstep, Ahead, TypeOK
<1>6. CASE UNCHANGED vars
  BY <1>6 DEF vars, disk, Lockstep, Ahead
<1>7. QED
  BY <1>1, <1>2, <1>3, <1>4, <1>5, <1>6, StepCases

(* A new label goes behind those recorded; their fields are left alone.    *)
LEMMA FilledByStore ==
  ASSUME TypeOK, Filled, StoreLabel, ~TableFull
  PROVE  Filled'
<1>0. prog \in Seq(Item) /\ Len(prog) \in Nat /\ DOMAIN prog = 1 .. Len(prog)
  BY ProgramAssumption DEF TypeOK
<1>1. /\ pc = "first" /\ pc' = pc /\ pos \in DOMAIN prog /\ pos' = pos + 1
      /\ prog' = prog /\ prog[pos].kind = "label" /\ nlab' = nlab + 1
      /\ targets' = [targets EXCEPT ![nlab] = ip]
      /\ defs' = [defs EXCEPT ![nlab] = pos]
      /\ mark' = [mark EXCEPT ![pos] = <<ip, toggle>>]
  BY <1>0 DEF StoreLabel, FirstPass, AtEnd, Running, TypeOK
<1>2. prog[pos].name \in Name
  BY <1>0, <1>1, ItemType, ItemFields
<1>3. /\ names'[nlab] = prog[pos].name[1]
      /\ \A k \in 0 .. nlab - 1 : names'[k] = names[k]
  <2>1. DOMAIN prog[pos].name \in {1 .. 1, 1 .. 2} /\ 1 \in DOMAIN prog[pos].name
    BY <1>2, NameType
  <2>2. DOMAIN names = 0 .. NLAB /\ nlab \in 0 .. NLAB - 1 /\ NLAB \in Nat
    BY TableAssumption DEF TypeOK
  <2>3. names' = [k \in DOMAIN names |->
                    IF k - nlab + 1 \in DOMAIN prog[pos].name
                      THEN prog[pos].name[k - nlab + 1] ELSE names[k]]
    BY DEF StoreLabel
  <2>4. names'[nlab] = prog[pos].name[1]
    BY <2>1, <2>2, <2>3
  <2>5. ASSUME NEW k \in 0 .. nlab - 1 PROVE names'[k] = names[k]
    BY <2>1, <2>2, <2>3
  <2>6. QED
    BY <2>4, <2>5
<1>4. /\ nlab \in 0 .. NLAB - 1 /\ pos \in Nat /\ NLAB \in Nat
      /\ targets \in [0 .. NLAB - 1 -> Nat] /\ defs \in [0 .. NLAB - 1 -> Nat]
      /\ mark \in [DOMAIN prog -> Nat \X {-1, 0}]
  BY TableAssumption DEF TypeOK
<1>5. Reached = pos - 1 /\ Reached' = pos
  BY <1>1, <1>4 DEF Reached
<1>6. ASSUME NEW k \in 0 .. nlab - 1
      PROVE  /\ defs'[k] = defs[k] /\ targets'[k] = targets[k]
             /\ defs[k] \in 1 .. pos - 1 /\ IsLabel(defs[k])
             /\ names[k] = prog[defs[k]].name[1]
             /\ targets[k] = mark[defs[k]][1]
             /\ mark'[defs[k]] = mark[defs[k]]
  <2>1. /\ defs[k] \in 1 .. pos - 1 /\ IsLabel(defs[k])
        /\ names[k] = prog[defs[k]].name[1]
        /\ targets[k] = mark[defs[k]][1]
    BY <1>1, <1>5 DEF Filled
  <2>2. defs'[k] = defs[k] /\ targets'[k] = targets[k]
    BY <1>1, <1>4
  <2>3. mark'[defs[k]] = mark[defs[k]]
    BY <1>0, <1>1, <1>4, <2>1
  <2>4. QED
    BY <2>1, <2>2, <2>3
<1>7. /\ defs'[nlab] = pos /\ targets'[nlab] = ip /\ mark'[pos] = <<ip, toggle>>
  BY <1>1, <1>4
<1>8. ASSUME NEW k \in 0 .. nlab' - 1
      PROVE  /\ defs'[k] \in 1 .. Reached' /\ IsLabel(defs'[k])
             /\ names'[k] = prog[defs'[k]].name[1]
             /\ targets'[k] = mark'[defs'[k]][1]
  <2>1. CASE k = nlab
    <3>1. defs'[k] = pos /\ targets'[k] = ip /\ mark'[defs'[k]][1] = ip
      BY <1>7, <2>1
    <3>2. IsLabel(pos) /\ pos \in 1 .. pos
      BY <1>0, <1>1, <1>4 DEF IsLabel
    <3>3. QED
      BY <1>3, <1>5, <2>1, <3>1, <3>2
  <2>2. CASE k # nlab
    <3>1. k \in 0 .. nlab - 1
      BY <1>1, <1>4, <2>2
    <3>2. names'[k] = names[k]
      BY <1>3, <3>1
    <3>3. /\ defs'[k] = defs[k] /\ targets'[k] = targets[k]
          /\ defs[k] \in 1 .. pos - 1 /\ IsLabel(defs[k])
          /\ names[k] = prog[defs[k]].name[1]
          /\ targets[k] = mark[defs[k]][1]
          /\ mark'[defs[k]] = mark[defs[k]]
      BY <1>6, <3>1
    <3>4. defs'[k] \in 1 .. Reached'
      BY <1>4, <1>5, <3>3
    <3>5. QED
      BY <3>2, <3>3, <3>4
  <2>3. QED
    BY <2>1, <2>2
<1>9. ASSUME NEW j \in 0 .. nlab' - 1, NEW k \in 0 .. nlab' - 1, j < k
      PROVE  defs'[j] < defs'[k]
  <2>1. j \in 0 .. nlab - 1
    BY <1>1, <1>4, <1>9
  <2>2. CASE k = nlab
    BY <1>4, <1>6, <1>7, <2>1, <2>2
  <2>3. CASE k # nlab
    <3>1. k \in 0 .. nlab - 1
      BY <1>1, <1>4, <2>3
    <3>2. defs[j] < defs[k]
      BY <1>1, <1>9, <2>1, <3>1 DEF Filled
    <3>3. QED
      BY <1>6, <2>1, <3>1, <3>2
  <2>4. QED
    BY <2>2, <2>3
<1>10. ASSUME NEW i \in 1 .. Reached', IsLabel(i)
       PROVE  \E k \in 0 .. nlab' - 1 : defs'[k] = i
  <2>1. CASE i = pos
    BY <1>1, <1>4, <1>7, <2>1
  <2>2. CASE i # pos
    <3>1. i \in 1 .. Reached
      BY <1>4, <1>5, <2>2
    <3>2. PICK k \in 0 .. nlab - 1 : defs[k] = i
      BY <1>1, <1>10, <3>1 DEF Filled
    <3>3. k \in 0 .. nlab' - 1 /\ defs'[k] = i
      BY <1>1, <1>4, <1>6, <3>2
    <3>4. QED
      BY <3>3
  <2>3. QED
    BY <2>1, <2>2
<1>11. QED
  BY <1>1, <1>8, <1>9, <1>10 DEF Filled, IsLabel

LEMMA FilledStep ==
  ASSUME TypeOK, Filled, [Next]_vars
  PROVE  Filled'
<1>0. Len(prog) \in Nat /\ DOMAIN prog = 1 .. Len(prog) /\ pos \in Nat \ {0}
  BY ProgramAssumption DEF TypeOK
<1>1. CASE StoreLabel
  BY <1>1, FilledByStore DEF StoreLabel, Exit, Filled
<1>2. CASE CountPointer \/ CountDigit \/ IgnoreFirst
  <2>1. /\ pc = "first" /\ pc' = pc /\ pos \in DOMAIN prog /\ pos' = pos + 1
        /\ UNCHANGED <<prog, nlab, names, targets, defs>>
        /\ mark' = [mark EXCEPT ![pos] = <<ip, toggle>>]
        /\ ~IsLabel(pos)
    BY <1>0, <1>2 DEF CountPointer, CountDigit, IgnoreFirst, FirstPass, AtEnd,
                      Running, table, IsLabel
  <2>2. Reached = pos - 1 /\ Reached' = pos
    BY <1>0, <2>1 DEF Reached
  <2>3. \A i \in 1 .. pos - 1 : mark'[i] = mark[i]
    BY <1>0, <2>1 DEF TypeOK
  <2>4. ASSUME NEW k \in 0 .. nlab - 1
        PROVE  /\ defs[k] \in 1 .. pos /\ IsLabel(defs[k])
               /\ names[k] = prog[defs[k]].name[1]
               /\ targets[k] = mark'[defs[k]][1]
    <3>1. /\ defs[k] \in 1 .. pos - 1 /\ IsLabel(defs[k])
          /\ names[k] = prog[defs[k]].name[1]
          /\ targets[k] = mark[defs[k]][1]
      BY <2>1, <2>2 DEF Filled
    <3>2. mark'[defs[k]] = mark[defs[k]]
      BY <2>3, <3>1
    <3>3. defs[k] \in 1 .. pos
      BY <1>0, <3>1
    <3>4. QED
      BY <3>1, <3>2, <3>3
  <2>5. ASSUME NEW i \in 1 .. pos, IsLabel(i)
        PROVE  \E k \in 0 .. nlab - 1 : defs[k] = i
    <3>1. i \in 1 .. pos - 1
      BY <1>0, <2>1, <2>5
    <3>2. QED
      BY <2>1, <2>2, <2>5, <3>1 DEF Filled
  <2>6. \A j, k \in 0 .. nlab - 1 : j < k => defs[j] < defs[k]
    BY <2>1 DEF Filled
  <2>7. QED
    BY <2>1, <2>2, <2>4, <2>5, <2>6 DEF Filled, IsLabel
<1>30. CASE RewindInput /\ ~readable
  BY <1>30 DEF RewindInput, disk, Filled
<1>3. CASE RewindInput /\ readable
  <2>1. /\ pc = "first" /\ pc' = "second" /\ pos = Len(prog) + 1
        /\ UNCHANGED <<prog, nlab, names, targets, defs, mark>>
    BY <1>0, <1>3 DEF RewindInput, AtEnd, table, TypeOK
  <2>2. Reached = Len(prog) /\ Reached' = Len(prog)
    BY <1>0, <2>1 DEF Reached
  <2>3. QED
    BY <2>1, <2>2 DEF Filled, IsLabel
<1>4. CASE SecondStep
  <2>1. /\ pc = "second" /\ pc' \in {"second", "exit"} /\ readable
        /\ UNCHANGED <<prog, nlab, names, targets, defs, mark>>
    BY <1>4 DEF SecondStep, Onward, table
  <2>2. pc' = "second" => Reached' = Reached
    BY <2>1 DEF Reached
  <2>3. QED
    BY <2>1, <2>2 DEF Filled, IsLabel
<1>5. CASE Finish
  BY <1>5 DEF Finish, Exit, Filled
<1>6. CASE LossStep
  <2>1. /\ pc # "exit" /\ UNCHANGED <<prog, pos, nlab, names, targets, defs, mark>>
        /\ pc = "first" => pc' = "first"
        /\ pc = "second" => pc' # "first" /\ (readable' => readable)
    BY <1>6 DEF LossStep, table
  <2>2. (pc' = "first" \/ (pc' = "second" /\ readable')) => Reached' = Reached
    BY <2>1 DEF Reached, TypeOK
  <2>3. (pc' = "first" \/ (pc' = "second" /\ readable'))
          => pc = "first" \/ (pc = "second" /\ readable)
    BY <2>1 DEF TypeOK
  <2>4. QED
    BY <2>1, <2>2, <2>3 DEF Filled, IsLabel
<1>7. CASE UNCHANGED vars
  BY <1>7 DEF vars, table, disk, Filled, IsLabel, Reached
<1>8. QED
  BY <1>1, <1>2, <1>3, <1>30, <1>4, <1>5, <1>6, <1>7, SecondPassStep, LossCases
     DEF Next, Program

LEMMA Inductive == Spec => []IInv
<1>1. Init => IInv
  <2> SUFFICES ASSUME Init PROVE IInv
    OBVIOUS
  <2>1. TypeOK
    BY InitType
  <2>2. pc = "first" /\ pos = 1 /\ ip = OUT_BASE /\ toggle = -1 /\ nlab = 0
        /\ written = 0
    BY DEF Init
  <2>3. Chain
    BY <2>2 DEF Chain, At
  <2>4. Filled
    BY <2>2 DEF Filled, Reached
  <2>5. QED
    BY <2>1, <2>2, <2>3, <2>4 DEF IInv, IpIsFilePosition, Unwritten, Lockstep
<1>2. IInv /\ [Next]_vars => IInv'
  BY NextType, ChainStep, IpStep, LockstepStep, FilledStep DEF IInv
<1>3. QED
  BY <1>1, <1>2, PTL DEF Spec

-----------------------------------------------------------------------------
(* What the invariant is for. *)

(* In the second pass ip is the address of the end of the output file, on  *)
(* every input: a displacement measured from ip is measured from the file. *)
THEOREM IpTracksFile == Spec => []IpIsFilePosition
<1>1. IInv => IpIsFilePosition
  BY DEF IInv
<1>2. QED
  BY <1>1, Inductive, PTL

(* A recorded name that fits its field matches there and only there: the   *)
(* field's content is the first part of the name that was recorded.        *)
LEMMA ShortMatch ==
  ASSUME IInv, pc = "second", readable,
         NEW n \in Short, NEW k \in 0 .. nlab - 1
  PROVE  k \in Hits(n) <=> prog[defs[k]].name = n
<1>1. DOMAIN n = 1 .. 1 /\ n[1] \in Final /\ n = <<n[1]>>
  BY DEF Short
<1>2. k \in Nat /\ k + 1 - 1 = k
  BY DEF IInv, TypeOK
<1>3. k \in Hits(n) <=> names[k] = n[1]
  BY <1>1, <1>2 DEF Hits, Matches
<1>4. IsLabel(defs[k]) /\ names[k] = prog[defs[k]].name[1]
  BY DEF IInv, Filled
<1>5. prog \in Seq(Item)
  BY DEF IInv, TypeOK
<1>6. prog[defs[k]].name \in Name
  BY <1>4, <1>5, ItemType, ItemFields DEF IsLabel
<1>7. names[k] = n[1] => prog[defs[k]].name \in Short
  BY <1>1, <1>4, <1>6, NameType
<1>8. prog[defs[k]].name \in Short
        => prog[defs[k]].name = <<prog[defs[k]].name[1]>>
  BY DEF Short
<1>9. QED
  BY <1>1, <1>3, <1>4, <1>7, <1>8

LEMMA LandsByInvariant == IInv => LabelLands
<1> SUFFICES ASSUME IInv, pc = "second", readable, writable, toggle = -1,
                    FirstDefinition(pos)
             PROVE  GetTarget(prog[pos].name) = OUT_BASE + written
  BY DEF LabelLands
<1> DEFINE n == prog[pos].name
<1>0. /\ prog \in Seq(Item) /\ nlab \in Nat /\ Len(prog) \in Nat
      /\ DOMAIN prog = 1 .. Len(prog)
  BY ProgramAssumption DEF IInv, TypeOK
<1>1. n \in Short /\ IsLabel(pos) /\ pos \in 1 .. Len(prog)
  BY <1>0 DEF FirstDefinition, IsLabel
<1>2. PICK k \in 0 .. nlab - 1 : defs[k] = pos
  BY <1>0, <1>1 DEF IInv, Filled, Reached
<1>3. k \in Hits(n)
  BY <1>1, <1>2, ShortMatch
<1>4. ASSUME NEW j \in Hits(n) PROVE k <= j
  <2>1. j \in 0 .. nlab - 1
    BY DEF Hits
  <2>2. prog[defs[j]].name = n
    BY <1>1, <2>1, ShortMatch
  <2>3. IsLabel(defs[j]) /\ defs[j] \in 1 .. Len(prog)
    BY <1>0, <2>1 DEF IInv, Filled, Reached
  <2>4. defs[j] \notin 1 .. pos - 1
    BY <2>2, <2>3 DEF FirstDefinition
  <2>5. ~(defs[j] < defs[k])
    BY <1>1, <1>2, <2>3, <2>4
  <2>6. j < k => defs[j] < defs[k]
    BY <1>2, <2>1 DEF IInv, Filled
  <2>7. QED
    BY <1>2, <2>1, <2>5, <2>6
<1>5. FirstHit(n) = k
  BY <1>0, <1>3, <1>4, ScanFindsFirst
<1>6. targets[k] = mark[pos][1]
  BY <1>2 DEF IInv, Filled
<1>7. mark[pos] = <<ip, -1>>
  BY <1>1 DEF IInv, Lockstep, Ahead
<1>8. ip = OUT_BASE + written
  BY DEF IInv, IpIsFilePosition
<1>9. QED
  BY <1>5, <1>6, <1>7, <1>8 DEF GetTarget

(* The address recorded for a name is where its first definition lies in   *)
(* the output, for every input, wherever the definition does not split a   *)
(* byte: the two passes never drift apart.                                 *)
THEOREM LabelsLand == Spec => []LabelLands
BY LandsByInvariant, Inductive, PTL

-----------------------------------------------------------------------------
(* Undefined names. *)

(* The pointers the second pass has emitted had their names defined. *)
ResolvedSoFar ==
  pc \in {"second", "exit"} =>
    (code = 0 => \A i \in 1 .. pos - 1 : IsPointer(i) => Resolved(i))

(* The status is 0 until hex2 exits, and 0 then only at an end of file. *)
ZeroMeansEnd ==
  /\ pc # "exit" => code = 0
  /\ pc = "exit" /\ code = 0 => AtEnd

(* A name that fits its field and is found was defined. *)
LEMMA FoundIsDefined ==
  ASSUME IInv, pc = "second", readable, NEW n \in Short, Hits(n) # {}
  PROVE  Defined(n)
<1>1. PICK k \in Hits(n) : TRUE
  OBVIOUS
<1>2. k \in 0 .. nlab - 1
  BY <1>1 DEF Hits
<1>3. prog[defs[k]].name = n /\ IsLabel(defs[k])
  BY <1>2, ShortMatch DEF IInv, Filled
<1>4. QED
  BY <1>3 DEF Defined, IsLabel

LEMMA ResolvedStep ==
  ASSUME Full = {}, IInv, ResolvedSoFar, ZeroMeansEnd, [Next]_vars
  PROVE  ResolvedSoFar' /\ ZeroMeansEnd'
<1>0. /\ prog \in Seq(Item) /\ Len(prog) \in Nat /\ DOMAIN prog = 1 .. Len(prog)
      /\ pos \in Nat \ {0} /\ TypeOK
  BY ProgramAssumption DEF IInv, TypeOK
<1>1. Name = Short
  BY DEF Name, Long
<1> USE DEF ResolvedSoFar, ZeroMeansEnd, AtEnd
<1>2. CASE StoreLabel
  BY <1>0, <1>2 DEF StoreLabel, FirstPass, Exit, Running
<1>3. CASE CountPointer \/ CountDigit \/ IgnoreFirst
  BY <1>0, <1>3 DEF CountPointer, CountDigit, IgnoreFirst, FirstPass, Running
<1>4. CASE RewindInput
  BY <1>0, <1>4 DEF RewindInput
<1>5. CASE DropLabel \/ HoldDigit \/ PrintByte \/ IgnoreSecond
  <2>1. /\ pc = "second" /\ pos' = pos + 1 /\ UNCHANGED <<prog, pc, code>>
        /\ ~IsPointer(pos)
    BY <1>5 DEF DropLabel, HoldDigit, PrintByte, IgnoreSecond, SecondPass,
                Running, IsPointer
  <2>2. ASSUME code = 0, NEW i \in 1 .. pos, IsPointer(i) PROVE Resolved(i)
    <3>1. i \in 1 .. pos - 1
      BY <1>0, <2>1, <2>2
    <3>2. QED
      BY <2>1, <2>2, <3>1
  <2>3. pos' - 1 = pos
    BY <1>0, <2>1
  <2>4. QED
    BY <2>1, <2>2, <2>3 DEF IsPointer, Resolved, Defined, IsLabel
<1>6. CASE StorePointer
  <2>1. /\ pc = "second" /\ pos' = pos + 1 /\ prog' = prog
        /\ pos \in DOMAIN prog /\ prog[pos].kind = "pointer"
        /\ readable /\ Resolve(prog[pos])
    BY <1>0, <1>6 DEF StorePointer, SecondPass
  <2>2. CASE Missing(prog[pos])
    <3>1. pc' = "exit" /\ code' = 1
      BY <2>1, <2>2 DEF Resolve, Exit
    <3>2. QED
      BY <3>1
  <2>3. CASE ~Missing(prog[pos])
    <3>1. pc' = pc /\ code' = code
      BY <2>1, <2>3 DEF Resolve, Running
    <3>2. /\ prog[pos].name \in Short
          /\ prog[pos].base \in Short \cup {None}
      BY <1>0, <1>1, <2>1, ItemType, ItemFields
    <3>3. Resolved(pos)
      BY <2>1, <2>3, <3>2, FoundIsDefined DEF Missing, Resolved
    <3>4. ASSUME code = 0, NEW i \in 1 .. pos, IsPointer(i) PROVE Resolved(i)
      <4>1. CASE i = pos
        BY <3>3, <4>1
      <4>2. CASE i # pos
        <5>1. i \in 1 .. pos - 1
          BY <1>0, <4>2
        <5>2. QED
          BY <2>1, <3>4, <5>1
      <4>3. QED
        BY <4>1, <4>2
    <3>5. pos' - 1 = pos
      BY <1>0, <2>1
    <3>6. QED
      BY <2>1, <3>1, <3>4, <3>5 DEF IsPointer, Resolved, Defined, IsLabel
  <2>4. QED
    BY <2>2, <2>3
<1>7. CASE Finish
  BY <1>0, <1>7 DEF Finish, AtEnd, disk, Exit, IsPointer, Resolved, Defined,
                    IsLabel
<1>8. CASE BreakOff
  <2>1. pc = "second" /\ UNCHANGED <<prog, pos>>
    BY <1>8 DEF BreakOff
  <2>2. (pc' = pc /\ code' = code) \/ (pc' = "exit" /\ code' = 1)
    BY <1>8 DEF BreakOff, Resolve, Running, Exit
  <2>3. QED
    BY <2>1, <2>2 DEF IsPointer, Resolved, Defined, IsLabel
<1>9. CASE LoseInput \/ LoseOutput
  BY <1>9 DEF LoseInput, LoseOutput, Lose, IsPointer, Resolved, Defined, IsLabel
<1>10. CASE UNCHANGED vars
  BY <1>10 DEF vars, disk, IsPointer, Resolved, Defined, IsLabel
<1>11. QED
  BY <1>2, <1>3, <1>4, <1>5, <1>6, <1>7, <1>8, <1>9, <1>10 DEF Next, Program

(* With names that fit their fields (no 64-character piece), status 0      *)
(* means that every name mentioned was defined: get_target never makes up  *)
(* an address.                                                             *)
THEOREM UndefinedNeverResolves ==
  ASSUME Full = {}
  PROVE  Spec => []UndefinedIsFatal
<1>1. Init => ResolvedSoFar /\ ZeroMeansEnd
  BY DEF Init, ResolvedSoFar, ZeroMeansEnd
<1>2. IInv /\ ResolvedSoFar /\ ZeroMeansEnd /\ [Next]_vars
        => ResolvedSoFar' /\ ZeroMeansEnd'
  BY ResolvedStep
<1>3. IInv /\ ResolvedSoFar /\ ZeroMeansEnd => UndefinedIsFatal
  <2> SUFFICES ASSUME IInv, ResolvedSoFar, ZeroMeansEnd, pc = "exit", code = 0,
                      NEW i \in DOMAIN prog, IsPointer(i), readable \/ i < pos
               PROVE  Resolved(i)
    BY DEF UndefinedIsFatal
  <2>1. i \in 1 .. Len(prog) /\ pos \in Nat /\ Len(prog) \in Nat
    BY DEF IInv, TypeOK
  <2>2. i \in 1 .. pos - 1
    BY <2>1 DEF ZeroMeansEnd, AtEnd
  <2>3. QED
    BY <2>2 DEF ResolvedSoFar
<1>4. QED
  BY <1>1, <1>2, <1>3, Inductive, PTL DEF Spec

-----------------------------------------------------------------------------
(* Failing statuses. *)

(* A name that is defined and fits its field is found: the first pass has  *)
(* recorded every label, and nothing is written over a whole name.         *)
LEMMA DefinedIsFound ==
  ASSUME IInv, pc = "second", readable, NEW n \in Short, Defined(n)
  PROVE  Hits(n) # {}
<1>1. prog \in Seq(Item) /\ Len(prog) \in Nat /\ DOMAIN prog = 1 .. Len(prog)
  BY DEF IInv, TypeOK
<1>2. PICK i \in DOMAIN prog : IsLabel(i) /\ prog[i].name = n
  BY DEF Defined
<1>3. PICK k \in 0 .. nlab - 1 : defs[k] = i
  BY <1>1, <1>2 DEF IInv, Filled, Reached
<1>4. k \in Hits(n)
  BY <1>2, <1>3, ShortMatch
<1>5. QED
  BY <1>4

(* The items the table holds, and the one that no longer fits, are labels, *)
(* and as many as the table has fields.                                    *)
LEMMA FullTableCount ==
  ASSUME IInv, pc = "first", IsLabel(pos), nlab >= NLAB - 1
  PROVE  Cardinality({i \in DOMAIN prog : IsLabel(i)}) >= NLAB
<1> DEFINE Labelled == {i \in DOMAIN prog : IsLabel(i)}
           nth == [k \in 0 .. nlab |-> IF k = nlab THEN pos ELSE defs[k]]
<1>1. /\ Len(prog) \in Nat /\ DOMAIN prog = 1 .. Len(prog)
      /\ pos \in DOMAIN prog /\ nlab \in 0 .. NLAB - 1 /\ NLAB \in Nat
  BY ProgramAssumption, TableAssumption DEF IInv, TypeOK, IsLabel
<1>2. /\ \A k \in 0 .. nlab - 1 : defs[k] \in 1 .. pos - 1 /\ IsLabel(defs[k])
      /\ \A j, k \in 0 .. nlab - 1 : j < k => defs[j] < defs[k]
  BY DEF IInv, Filled, Reached
<1>3. nth \in [0 .. nlab -> Labelled]
  BY <1>1, <1>2
<1>4. ASSUME NEW j \in 0 .. nlab, NEW k \in 0 .. nlab, nth[j] = nth[k]
      PROVE  j = k
  <2>1. ASSUME NEW x \in 0 .. nlab, NEW y \in 0 .. nlab, x < y
        PROVE  nth[x] # nth[y]
    <3>1. x \in 0 .. nlab - 1 /\ nth[x] = defs[x] /\ nth[x] \in 1 .. pos - 1
      BY <1>1, <1>2, <2>1
    <3>2. CASE y = nlab
      BY <1>1, <3>1, <3>2
    <3>3. CASE y # nlab
      <4>1. y \in 0 .. nlab - 1 /\ nth[y] = defs[y] /\ defs[y] \in 1 .. pos - 1
        BY <1>1, <1>2, <3>3
      <4>2. QED
        BY <1>1, <1>2, <2>1, <3>1, <4>1
    <3>4. QED
      BY <3>2, <3>3
  <2>2. QED
    BY <1>1, <1>4, <2>1
<1>5. nth \in Injection(0 .. nlab, Labelled)
  BY <1>3, <1>4 DEF Injection, IsInjective
<1>6. IsFiniteSet(Labelled)
  <2>1. IsFiniteSet(1 .. Len(prog))
    BY <1>1, FS_Interval
  <2>2. Labelled \in SUBSET (1 .. Len(prog))
    BY <1>1
  <2>3. QED
    BY <2>1, <2>2, FS_Subset
<1>7. Cardinality(0 .. nlab) <= Cardinality(Labelled)
  BY <1>5, <1>6, FS_Injection
<1>8. Cardinality(0 .. nlab) = nlab + 1
  <2>1. 0 \in Int /\ nlab \in Int /\ ~(0 > nlab)
    BY <1>1
  <2>2. Cardinality(0 .. nlab) = nlab - 0 + 1
    BY <2>1, FS_Interval
  <2>3. QED
    BY <1>1, <2>2
<1>9. Cardinality(Labelled) \in Nat
  BY <1>6, FS_CardinalityType
<1>10. QED
  BY <1>1, <1>7, <1>8, <1>9

LEMMA DeservedStep ==
  ASSUME Full = {}, IInv, ZeroMeansEnd, FailureIsDeserved, [Next]_vars
  PROVE  FailureIsDeserved'
<1>0. /\ prog \in Seq(Item) /\ Len(prog) \in Nat /\ DOMAIN prog = 1 .. Len(prog)
      /\ pos \in Nat \ {0} /\ TypeOK
  BY ProgramAssumption DEF IInv, TypeOK
<1>1. Name = Short
  BY DEF Name, Long
<1> USE DEF FailureIsDeserved
<1>2. CASE StoreLabel
  <2>1. /\ pc = "first" /\ IsLabel(pos) /\ prog' = prog
        /\ \/ TableFull /\ pc' = "exit" /\ code' = 2
           \/ pc' = pc
    BY <1>0, <1>2 DEF StoreLabel, FirstPass, AtEnd, IsLabel, Exit, Running
  <2>2. CASE TableFull /\ code' = 2
    <3>1. Cardinality({i \in DOMAIN prog : IsLabel(i)}) >= NLAB
      BY <2>1, <2>2, FullTableCount DEF TableFull
    <3>2. {i \in DOMAIN prog : IsLabel(i)}' = {i \in DOMAIN prog : IsLabel(i)}
      BY <2>1 DEF IsLabel
    <3>3. QED
      BY <2>2, <3>1, <3>2
  <2>3. QED
    BY <2>1, <2>2
<1>3. CASE \/ CountPointer \/ CountDigit \/ IgnoreFirst \/ RewindInput
           \/ DropLabel \/ HoldDigit \/ PrintByte \/ IgnoreSecond
           \/ LoseInput \/ LoseOutput
  <2>1. pc' # "exit"
    BY <1>3 DEF CountPointer, CountDigit, IgnoreFirst, RewindInput, DropLabel,
                HoldDigit, PrintByte, IgnoreSecond, LoseInput, LoseOutput, Lose,
                FirstPass, SecondPass, Running
  <2>2. QED
    BY <2>1
<1>4. CASE StorePointer
  <2>1. /\ pc = "second" /\ prog' = prog /\ readable
        /\ pos \in DOMAIN prog /\ IsPointer(pos)
        /\ \/ pc' = pc
           \/ Missing(prog[pos]) /\ pc' = "exit" /\ code' = 1
    BY <1>0, <1>4 DEF StorePointer, SecondPass, AtEnd, IsPointer, Resolve, Exit,
                      Running
  <2>2. CASE Missing(prog[pos]) /\ code' = 1
    <3>1. /\ prog[pos].name \in Short
          /\ prog[pos].base \in Short \cup {None}
      BY <1>0, <1>1, <2>1, ItemType, ItemFields DEF IsPointer
    <3>2. ~Resolved(pos)
      BY <2>1, <2>2, <3>1, DefinedIsFound DEF Missing, Resolved
    <3>3. PICK i \in DOMAIN prog : IsPointer(i) /\ ~Resolved(i)
      BY <2>1, <3>2
    <3>4. IsPointer(i)' /\ ~Resolved(i)'
      BY <2>1, <3>3 DEF Resolved, Defined, IsLabel, IsPointer
    <3>5. QED
      BY <2>1, <2>2, <3>4
  <2>3. QED
    BY <2>1, <2>2
<1>5. CASE BreakOff
  <2>1. /\ readable' = FALSE /\ UNCHANGED <<prog, pos>>
        /\ pos \in DOMAIN prog /\ IsPointer(pos)
    BY <1>0, <1>5 DEF BreakOff, AtEnd, IsPointer
  <2>2. pc' # "exit" \/ code' = 1
    BY <1>5 DEF BreakOff, Resolve, Exit, Running
  <2>3. QED
    BY <2>1, <2>2 DEF IsPointer
<1>6. CASE Finish
  BY <1>6 DEF Finish, Exit
<1>7. CASE UNCHANGED vars
  BY <1>7 DEF vars, disk, IsPointer, Resolved, Defined, IsLabel
<1>8. QED
  BY <1>2, <1>3, <1>4, <1>5, <1>6, <1>7 DEF Next, Program

(* With names that fit their fields, hex2 never refuses an input it should *)
(* have linked: status 1 is an undefined name or one that broke off,       *)
(* status 2 as many labels as the table has fields.                        *)
THEOREM FailuresDeserved ==
  ASSUME Full = {}
  PROVE  Spec => []FailureIsDeserved
<1>1. Init => FailureIsDeserved /\ ResolvedSoFar /\ ZeroMeansEnd
  BY DEF Init, FailureIsDeserved, ResolvedSoFar, ZeroMeansEnd
<1>2. IInv /\ ResolvedSoFar /\ ZeroMeansEnd /\ FailureIsDeserved /\ [Next]_vars
        => ResolvedSoFar' /\ ZeroMeansEnd' /\ FailureIsDeserved'
  BY ResolvedStep, DeservedStep
<1>3. QED
  BY <1>1, <1>2, Inductive, PTL DEF Spec

-----------------------------------------------------------------------------
(* The simulator's two walks, unfolded. *)

(* assemble_hex2's loop body, as Walk folds it. *)
Reads(emit, tab, s, item) ==
  CASE item.kind = "label"   -> IF emit THEN s ELSE Place(s, item)
    [] item.kind = "digit"   -> Nibble(s, item)
    [] item.kind = "ignored" -> s
    [] item.kind = "pointer" -> IF emit THEN Pointer(s, item, tab)
                                ELSE [s EXCEPT !.ip = @ + PWidth(item.sigil)]

(* The state after each item. *)
Runs(emit, tab, p) ==
  CHOOSE r : /\ r[0] = Start
             /\ \A i \in 1 .. Len(p) : r[i] = Reads(emit, tab, r[i - 1], p[i])
             /\ r[Len(p)] = Walk(emit, tab, p)

(* What the fold is defined by: a value for every set of positions. *)
FoldsOver(emit, tab, p, n, g) ==
  g = [s \in SUBSET (1 .. n) |->
         IF s = {} THEN Start
         ELSE Reads(emit, tab, g[s \ {Max(s)}], p[Max(s)])]

(* A set of numbers that has one has a least. *)
LEMMA LeastOf ==
  ASSUME NEW S \in SUBSET Nat, S # {}
  PROVE  \E k \in S : \A j \in S : k <= j
<1>1. \E k \in S : \A j \in S : ~(<<j, k>> \in OpToRel(<, Nat))
  BY NatLessThanWellFounded, WFMin
<1>2. \A j, k \in Nat : <<j, k>> \in OpToRel(<, Nat) <=> j < k
  BY DEF OpToRel
<1>3. PICK k \in S : \A j \in S : ~(<<j, k>> \in OpToRel(<, Nat))
  BY <1>1
<1>4. ASSUME NEW j \in S PROVE k <= j
  <2>1. ~(j < k)
    BY <1>2, <1>3
  <2>2. QED
    BY <2>1
<1>5. QED
  BY <1>4

(* A set that holds 0 and, with a number, the next holds them all. *)
LEMMA Climb ==
  ASSUME NEW n \in Nat, NEW S, 0 \in S,
         \A i \in 1 .. n : i - 1 \in S => i \in S
  PROVE  0 .. n \subseteq S
<1> DEFINE Bad == {k \in 0 .. n : k \notin S}
<1>1. SUFFICES ASSUME Bad # {} PROVE FALSE
  OBVIOUS
<1>2. Bad \in SUBSET Nat
  OBVIOUS
<1>3. PICK k \in Bad : \A j \in Bad : k <= j
  <2> HIDE DEF Bad
  <2>1. QED
    BY <1>1, <1>2, LeastOf
<1>4. k \in 1 .. n /\ k - 1 \in 0 .. n /\ ~(k <= k - 1)
  OBVIOUS
<1>5. k - 1 \in S
  BY <1>3, <1>4
<1>6. QED
  BY <1>4, <1>5

(* A set of positions that has one has a last. *)
LEMMA LastOf ==
  ASSUME NEW n \in Nat, NEW S \in SUBSET (1 .. n), S # {}
  PROVE  Max(S) \in S /\ \A j \in S : Max(S) >= j
<1> DEFINE Below == {n - j : j \in S}
<1>0. \A j \in S : j \in 1 .. n
  OBVIOUS
<1>1. Below \in SUBSET Nat /\ Below # {}
  <2>1. \A j \in S : n - j \in Nat
    BY <1>0
  <2>2. QED
    BY <2>1
<1>2. PICK m \in Below : \A j \in Below : m <= j
  <2> HIDE DEF Below
  <2>1. QED
    BY <1>1, LeastOf
<1>3. PICK k \in S : m = n - k
  OBVIOUS
<1>4. ASSUME NEW j \in S PROVE k >= j
  <2>1. n - k <= n - j
    BY <1>2, <1>3
  <2>2. QED
    BY <1>0, <2>1
<1>5. \E k1 \in S : \A j \in S : k1 >= j
  BY <1>4
<1>6. QED
  BY <1>5 DEF Max

(* The fold's definition has a solution, for an input of any length. *)
LEMMA FoldExists ==
  ASSUME NEW emit, NEW tab, NEW p, NEW n \in Nat
  PROVE  \E g : FoldsOver(emit, tab, p, n, g)
<1> DEFINE Op(s, i) == Reads(emit, tab, s, p[i])
           Good == {k \in Nat : \E g : FoldsOver(emit, tab, p, k, g)}
<1>1. 0 \in Good
  <2> DEFINE g == [s \in SUBSET (1 .. 0) |-> Start]
  <2>1. \A s \in SUBSET (1 .. 0) : s = {}
    OBVIOUS
  <2>2. FoldsOver(emit, tab, p, 0, g)
    BY <2>1 DEF FoldsOver
  <2>3. QED
    BY <2>2
<1>2. ASSUME NEW k \in 1 .. n, k - 1 \in Good PROVE k \in Good
  <2>0. k \in Nat /\ k - 1 \in Nat
    OBVIOUS
  <2>1. PICK h : FoldsOver(emit, tab, p, k - 1, h)
    BY <1>2
  <2> DEFINE g == [s \in SUBSET (1 .. k) |->
                     IF k \in s THEN Op(h[s \ {k}], k) ELSE h[s]]
  <2>2. ASSUME NEW s \in SUBSET (1 .. k)
        PROVE  g[s] = IF s = {} THEN Start ELSE Op(g[s \ {Max(s)}], Max(s))
    <3>1. CASE k \in s
      <4>1. Max(s) \in s /\ Max(s) >= k
        BY <2>0, <3>1, LastOf
      <4>2. Max(s) = k
        <5>1. Max(s) \in 1 .. k
          BY <4>1
        <5>2. QED
          BY <2>0, <4>1, <5>1
      <4>3. s \ {k} \in SUBSET (1 .. k) /\ k \notin s \ {k}
        OBVIOUS
      <4>4. g[s \ {k}] = h[s \ {k}]
        BY <4>3
      <4>5. g[s] = Op(h[s \ {k}], k)
        BY <3>1
      <4> HIDE DEF g, Op
      <4>6. QED
        BY <3>1, <4>2, <4>4, <4>5
    <3>2. CASE k \notin s /\ s # {}
      <4>1. s \in SUBSET (1 .. k - 1)
        BY <3>2
      <4>2. Max(s) \in s
        BY <2>0, <3>2, <4>1, LastOf
      <4>3. s \ {Max(s)} \in SUBSET (1 .. k - 1) /\ k \notin s \ {Max(s)}
            /\ s \ {Max(s)} \in SUBSET (1 .. k)
        BY <3>2, <4>1
      <4>4. h[s] = Op(h[s \ {Max(s)}], Max(s))
        BY <2>1, <3>2, <4>1 DEF FoldsOver
      <4>5. g[s] = h[s] /\ g[s \ {Max(s)}] = h[s \ {Max(s)}]
        BY <3>2, <4>3
      <4> HIDE DEF g, Op
      <4>6. QED
        BY <3>2, <4>4, <4>5
    <3>3. CASE k \notin s /\ s = {}
      <4>1. s \in SUBSET (1 .. k - 1)
        BY <3>3
      <4>2. h[s] = Start
        BY <2>1, <3>3, <4>1 DEF FoldsOver
      <4>3. QED
        BY <3>3, <4>2
    <3>4. QED
      BY <3>1, <3>2, <3>3
  <2>3. g = [s \in SUBSET (1 .. k) |->
               IF s = {} THEN Start ELSE Op(g[s \ {Max(s)}], Max(s))]
    <3>1. g = [s \in SUBSET (1 .. k) |-> g[s]]
      OBVIOUS
    <3> HIDE DEF g, Op
    <3>2. QED
      BY <2>2, <3>1
  <2>4. FoldsOver(emit, tab, p, k, g)
    BY <2>3 DEF FoldsOver
  <2>5. QED
    BY <2>4
<1>3. 0 .. n \subseteq Good
  <2> HIDE DEF Good
  <2>1. QED
    BY <1>1, <1>2, Climb
<1>4. n \in Good
  BY <1>3
<1>5. QED
  BY <1>4

(* The simulator is its loop body, one item after another. *)
LEMMA RunsOn ==
  ASSUME NEW emit, NEW tab, NEW p, Len(p) \in Nat, DOMAIN p = 1 .. Len(p)
  PROVE  LET r == Runs(emit, tab, p)
         IN  /\ r[0] = Start
             /\ \A i \in 1 .. Len(p) : r[i] = Reads(emit, tab, r[i - 1], p[i])
             /\ r[Len(p)] = Walk(emit, tab, p)
<1> DEFINE n == Len(p)
           f == CHOOSE g : FoldsOver(emit, tab, p, n, g)
           r == [i \in 0 .. n |-> f[1 .. i]]
<1>1. FoldsOver(emit, tab, p, n, f)
  BY FoldExists
<1>2. Walk(emit, tab, p) = f[1 .. n]
  BY DEF FoldsOver, Reads, Walk, FoldLeft, MapThenFoldSet
<1> HIDE DEF f
<1>3. r[0] = Start
  <2>1. 1 .. 0 = {} /\ 1 .. 0 \in SUBSET (1 .. n)
    OBVIOUS
  <2>2. f[1 .. 0] = Start
    BY <1>1, <2>1 DEF FoldsOver
  <2>3. QED
    BY <2>2
<1>4. ASSUME NEW i \in 1 .. n
      PROVE  r[i] = Reads(emit, tab, r[i - 1], p[i])
  <2>1. 1 .. i \in SUBSET (1 .. n) /\ i \in 1 .. i /\ 1 .. i # {}
    <3>1. \A j \in 1 .. i : j \in 1 .. n
      OBVIOUS
    <3>2. i \in 1 .. i
      OBVIOUS
    <3>3. QED
      BY <3>1, <3>2
  <2>2. Max(1 .. i) \in 1 .. i /\ Max(1 .. i) >= i
    BY <2>1, LastOf
  <2>3. Max(1 .. i) = i
    BY <2>2
  <2>4. (1 .. i) \ {i} = 1 .. i - 1
    OBVIOUS
  <2>5. f[1 .. i] = Reads(emit, tab, f[(1 .. i) \ {Max(1 .. i)}], p[Max(1 .. i)])
    BY <1>1, <2>1 DEF FoldsOver
  <2>6. f[1 .. i] = Reads(emit, tab, f[1 .. i - 1], p[i])
    BY <2>3, <2>4, <2>5
  <2>7. r[i] = f[1 .. i] /\ r[i - 1] = f[1 .. i - 1]
    OBVIOUS
  <2>8. QED
    BY <2>6, <2>7
<1>5. r[n] = f[1 .. n]
  OBVIOUS
<1> HIDE DEF r
<1>6. \E q : /\ q[0] = Start
             /\ \A i \in 1 .. Len(p) : q[i] = Reads(emit, tab, q[i - 1], p[i])
             /\ q[Len(p)] = Walk(emit, tab, p)
  BY <1>2, <1>3, <1>4, <1>5
<1>7. QED
  BY <1>6 DEF Runs

-----------------------------------------------------------------------------
(* What one item does to the simulator's state. *)

Bytes     == [width : {1, 2, 4}, value : Int]
SimTables == UNION {[D -> Nat] : D \in SUBSET Name}
SimState  == [ip : Nat, hi : -1 .. 15, table : SimTables, o : Seq(Bytes),
              keyError : BOOLEAN]

Based(item) == ~PAbs(item.sigil) /\ item.base \notin {None, <<Blank>>}

KeyMissing(item, tab) ==
  item.name \notin DOMAIN tab \/ (Based(item) /\ item.base \notin DOMAIN tab)

Value(s, item, tab) ==
  IF PAbs(item.sigil) THEN tab[item.name]
  ELSE tab[item.name] - (IF Based(item) THEN tab[item.base]
                                        ELSE s.ip + PWidth(item.sigil))

Byte(v)                == [width |-> 1, value |-> v]
Patch(s, item, tab)    == [width |-> PWidth(item.sigil),
                           value |-> Low(Value(s, item, tab), PWidth(item.sigil))]
WithByte(s, bytes, place) == [s EXCEPT !.o = bytes, !.ip = place, !.hi = -1]
WithPatch(s, bytes, place) == [s EXCEPT !.ip = place, !.o = bytes]

LEMMA IpUpdate ==
  ASSUME NEW s \in SimState, NEW x \in Nat
  PROVE  LET t == [s EXCEPT !.ip = x]
         IN  /\ t \in SimState /\ t.ip = x /\ t.hi = s.hi /\ t.table = s.table
             /\ t.o = s.o /\ (t.keyError <=> s.keyError)
BY DEF SimState

LEMMA HiUpdate ==
  ASSUME NEW s \in SimState, NEW x \in -1 .. 15
  PROVE  LET t == [s EXCEPT !.hi = x]
         IN  /\ t \in SimState /\ t.ip = s.ip /\ t.hi = x /\ t.table = s.table
             /\ t.o = s.o /\ (t.keyError <=> s.keyError)
BY DEF SimState

LEMMA LabelsUpdate ==
  ASSUME NEW s \in SimState, NEW x \in SimTables
  PROVE  LET t == [s EXCEPT !.table = x]
         IN  /\ t \in SimState /\ t.ip = s.ip /\ t.hi = s.hi /\ t.table = x
             /\ t.o = s.o /\ (t.keyError <=> s.keyError)
BY DEF SimState

LEMMA BytesUpdate ==
  ASSUME NEW s \in SimState, NEW x \in Seq(Bytes)
  PROVE  LET t == [s EXCEPT !.o = x]
         IN  /\ t \in SimState /\ t.ip = s.ip /\ t.hi = s.hi /\ t.table = s.table
             /\ t.o = x /\ (t.keyError <=> s.keyError)
BY DEF SimState

LEMMA ErrorUpdate ==
  ASSUME NEW s \in SimState
  PROVE  LET t == [s EXCEPT !.keyError = TRUE]
         IN  /\ t \in SimState /\ t.ip = s.ip /\ t.hi = s.hi
             /\ t.table = s.table /\ t.o = s.o /\ t.keyError
BY DEF SimState

LEMMA ByteUpdate ==
  ASSUME NEW s \in SimState, NEW bytes \in Seq(Bytes), NEW place \in Nat
  PROVE  LET t == WithByte(s, bytes, place)
         IN  /\ t \in SimState /\ t.ip = place /\ t.hi = -1
             /\ t.table = s.table /\ t.o = bytes /\ (t.keyError <=> s.keyError)
<1> DEFINE t1 == [s EXCEPT !.o = bytes]
           t2 == [t1 EXCEPT !.ip = place]
           t3 == [t2 EXCEPT !.hi = -1]
<1>1. /\ t1 \in SimState /\ t1.o = bytes /\ t1.table = s.table
      /\ (t1.keyError <=> s.keyError)
  BY BytesUpdate
<1> HIDE DEF t1
<1>2. /\ t2 \in SimState /\ t2.o = bytes /\ t2.table = s.table /\ t2.ip = place
      /\ (t2.keyError <=> s.keyError)
  BY <1>1, IpUpdate
<1> HIDE DEF t2
<1>3. -1 \in -1 .. 15
  OBVIOUS
<1>4. /\ t3 \in SimState /\ t3.ip = place /\ t3.hi = -1 /\ t3.table = s.table
      /\ t3.o = bytes /\ (t3.keyError <=> s.keyError)
  BY <1>2, <1>3, HiUpdate
<1>5. t3 = WithByte(s, bytes, place)
  BY DEF t1, t2, WithByte
<1> HIDE DEF t3
<1>6. QED
  BY <1>4, <1>5

LEMMA PatchUpdate ==
  ASSUME NEW s \in SimState, NEW bytes \in Seq(Bytes), NEW place \in Nat
  PROVE  LET t == WithPatch(s, bytes, place)
         IN  /\ t \in SimState /\ t.ip = place /\ t.hi = s.hi
             /\ t.table = s.table /\ t.o = bytes /\ (t.keyError <=> s.keyError)
<1> DEFINE t1 == [s EXCEPT !.ip = place]
           t2 == [t1 EXCEPT !.o = bytes]
<1>1. /\ t1 \in SimState /\ t1.ip = place /\ t1.hi = s.hi /\ t1.table = s.table
      /\ (t1.keyError <=> s.keyError)
  BY IpUpdate
<1> HIDE DEF t1
<1>2. /\ t2 \in SimState /\ t2.ip = place /\ t2.hi = s.hi /\ t2.table = s.table
      /\ t2.o = bytes /\ (t2.keyError <=> s.keyError)
  BY <1>1, BytesUpdate
<1>3. t2 = WithPatch(s, bytes, place)
  BY DEF t1, WithPatch
<1> HIDE DEF t2
<1>4. QED
  BY <1>2, <1>3

LEMMA AssignType ==
  ASSUME NEW tab \in SimTables, NEW n \in Name, NEW v \in Nat
  PROVE  Assign(tab, n, v) \in SimTables
<1>1. PICK D \in SUBSET Name : tab \in [D -> Nat]
  BY DEF SimTables
<1>2. D \cup {n} \in SUBSET Name
  OBVIOUS
<1>3. Assign(tab, n, v) \in [D \cup {n} -> Nat]
  BY <1>1 DEF Assign
<1>4. QED
  BY <1>2, <1>3 DEF SimTables

LEMMA TargetType ==
  ASSUME NEW tab \in SimTables, NEW n \in DOMAIN tab
  PROVE  tab[n] \in Nat
BY DEF SimTables

LEMMA PatchType ==
  ASSUME NEW tab \in SimTables, NEW s \in SimState, NEW item \in Item,
         item.kind = "pointer", ~KeyMissing(item, tab)
  PROVE  Patch(s, item, tab) \in Bytes
<1>1. item.sigil \in Sigil /\ PWidth(item.sigil) \in {1, 2, 4}
  BY ItemFields, WidthType
<1>2. tab[item.name] \in Nat /\ (Based(item) => tab[item.base] \in Nat)
  BY TargetType DEF KeyMissing
<1>3. s.ip \in Nat
  BY DEF SimState
<1>4. Value(s, item, tab) \in Int
  BY <1>1, <1>2, <1>3 DEF Value
<1>5. Low(Value(s, item, tab), PWidth(item.sigil)) \in Int
  BY <1>1, <1>4, LowType
<1>6. QED
  BY <1>1, <1>5 DEF Patch, Bytes

(* The state t that an item makes of s. *)
Does(emit, tab, s, item, t) ==
  /\ t \in SimState
  /\ item.kind \in {"digit", "label", "pointer", "ignored"}
  /\ item.kind = "ignored" => t = s
  /\ item.kind = "label" /\ emit => t = s
  /\ item.kind = "label" /\ ~emit =>
       t.ip = s.ip /\ t.hi = s.hi /\ t.table = Assign(s.table, item.name, s.ip)
         /\ t.o = s.o
  /\ item.kind = "digit" =>
       /\ item.v \in 0 .. 15 /\ t.table = s.table
       /\ (t.keyError <=> s.keyError)
       /\ s.hi = -1 => t.hi = item.v /\ t.ip = s.ip /\ t.o = s.o
       /\ s.hi # -1 => /\ t.hi = -1 /\ t.ip = s.ip + 1
                       /\ t.o = Append(s.o, Byte(16 * s.hi + item.v))
  /\ item.kind = "pointer" =>
       /\ t.table = s.table /\ t.hi = s.hi
       /\ ~emit => t.ip = s.ip + PWidth(item.sigil) /\ t.o = s.o
       /\ emit /\ KeyMissing(item, tab) => t.keyError /\ t.o = s.o
       /\ emit /\ ~KeyMissing(item, tab) =>
            /\ t.ip = s.ip + PWidth(item.sigil) /\ (t.keyError <=> s.keyError)
            /\ t.o = Append(s.o, Patch(s, item, tab))

LEMMA ReadsEffect ==
  ASSUME NEW emit \in BOOLEAN, NEW tab \in SimTables, NEW s \in SimState,
         NEW item \in Item
  PROVE  Does(emit, tab, s, item, Reads(emit, tab, s, item))
<1>0. /\ item.kind \in {"digit", "label", "pointer", "ignored"}
      /\ s.ip \in Nat /\ s.hi \in -1 .. 15 /\ s.table \in SimTables
      /\ s.o \in Seq(Bytes) /\ s.keyError \in BOOLEAN
  BY ItemFields DEF SimState
<1> DEFINE t == Reads(emit, tab, s, item)
<1>1. CASE item.kind = "ignored"
  <2>1. t = s
    BY <1>1 DEF Reads
  <2> HIDE DEF t
  <2>2. Does(emit, tab, s, item, t)
    BY <1>0, <1>1, <2>1 DEF Does
  <2>3. QED
    BY <2>2 DEF t
<1>2. CASE item.kind = "label" /\ emit
  <2>1. t = s
    BY <1>2 DEF Reads
  <2> HIDE DEF t
  <2>2. Does(emit, tab, s, item, t)
    BY <1>0, <1>2, <2>1 DEF Does
  <2>3. QED
    BY <2>2 DEF t
<1>3. CASE item.kind = "label" /\ ~emit
  <2> DEFINE new == Assign(s.table, item.name, s.ip)
  <2>1. t = [s EXCEPT !.table = new]
    BY <1>3 DEF Reads, Place
  <2>2. new \in SimTables
    BY <1>0, <1>3, ItemFields, AssignType
  <2> HIDE DEF t, new
  <2>3. t \in SimState /\ t.ip = s.ip /\ t.hi = s.hi /\ t.table = new /\ t.o = s.o
    BY <2>1, <2>2, LabelsUpdate
  <2>4. Does(emit, tab, s, item, t)
    BY <1>0, <1>3, <2>3 DEF Does, new
  <2>5. QED
    BY <2>4 DEF t
<1>4. CASE item.kind = "digit" /\ s.hi = -1
  <2>1. item.v \in 0 .. 15 /\ item.v \in -1 .. 15
    BY <1>4, ItemFields
  <2>2. t = [s EXCEPT !.hi = item.v]
    BY <1>4 DEF Reads, Nibble
  <2> HIDE DEF t
  <2>3. /\ t \in SimState /\ t.ip = s.ip /\ t.hi = item.v /\ t.table = s.table
        /\ t.o = s.o /\ (t.keyError <=> s.keyError)
    BY <2>1, <2>2, HiUpdate
  <2>4. Does(emit, tab, s, item, t)
    BY <1>0, <1>4, <2>1, <2>3 DEF Does
  <2>5. QED
    BY <2>4 DEF t
<1>5. CASE item.kind = "digit" /\ s.hi # -1
  <2> DEFINE w == Byte(16 * s.hi + item.v)
             bytes == Append(s.o, w)
  <2>1. item.v \in 0 .. 15 /\ s.ip + 1 \in Nat
    BY <1>0, <1>5, ItemFields
  <2>2. 16 * s.hi + item.v \in Int
    <3>1. s.hi \in Int /\ item.v \in Int
      <4>1. \A x \in -1 .. 15 : x \in Int
        OBVIOUS
      <4>2. \A x \in 0 .. 15 : x \in Int
        OBVIOUS
      <4>3. QED
        BY ONLY <1>0, <2>1, <4>1, <4>2
    <3>2. \A x, y \in Int : 16 * x + y \in Int
      OBVIOUS
    <3>3. QED
      BY ONLY <3>1, <3>2
  <2>3. w \in Bytes
    BY <2>2 DEF Byte, Bytes
  <2>4. t = WithByte(s, bytes, s.ip + 1)
    BY <1>5 DEF Reads, Nibble, WithByte, Byte
  <2> HIDE DEF t, w
  <2>5. bytes \in Seq(Bytes)
    BY <1>0, <2>3
  <2> HIDE DEF bytes
  <2>6. /\ t \in SimState /\ t.ip = s.ip + 1 /\ t.hi = -1 /\ t.table = s.table
        /\ t.o = bytes /\ (t.keyError <=> s.keyError)
    BY <2>1, <2>4, <2>5, ByteUpdate
  <2>7. Does(emit, tab, s, item, t)
    BY <1>0, <1>5, <2>1, <2>6 DEF Does, bytes, w
  <2>8. QED
    BY <2>7 DEF t
<1>6. CASE item.kind = "pointer"
  <2>0. item.sigil \in Sigil /\ PWidth(item.sigil) \in {1, 2, 4}
    BY <1>6, ItemFields, WidthType
  <2> DEFINE place == s.ip + PWidth(item.sigil)
  <2>1. place \in Nat
    BY <1>0, <2>0
  <2>2. CASE ~emit
    <3>1. t = [s EXCEPT !.ip = place]
      BY <1>6, <2>2 DEF Reads
    <3> HIDE DEF t, place
    <3>2. /\ t \in SimState /\ t.ip = place /\ t.hi = s.hi /\ t.table = s.table
          /\ t.o = s.o
      BY <2>1, <3>1, IpUpdate
    <3>3. Does(emit, tab, s, item, t)
      BY <1>0, <1>6, <2>2, <3>2 DEF Does, place
    <3>4. QED
      BY <3>3 DEF t
  <2>3. CASE emit /\ KeyMissing(item, tab)
    <3>1. t = [s EXCEPT !.keyError = TRUE]
      BY <1>6, <2>3 DEF Reads, Pointer, KeyMissing, Based
    <3> HIDE DEF t
    <3>2. /\ t \in SimState /\ t.hi = s.hi /\ t.table = s.table
          /\ t.o = s.o /\ t.keyError
      BY <3>1, ErrorUpdate
    <3>3. Does(emit, tab, s, item, t)
      BY <1>0, <1>6, <2>3, <3>2 DEF Does
    <3>4. QED
      BY <3>3 DEF t
  <2>4. CASE emit /\ ~KeyMissing(item, tab)
    <3> DEFINE w == Patch(s, item, tab)
               bytes == Append(s.o, w)
    <3>1. w \in Bytes
      BY <1>6, <2>4, PatchType
    <3>2. t = WithPatch(s, bytes, place)
      BY <1>6, <2>4 DEF Reads, Pointer, KeyMissing, Based, Value, WithPatch, Patch
    <3> HIDE DEF t, w, place
    <3>3. bytes \in Seq(Bytes)
      BY <1>0, <3>1
    <3> HIDE DEF bytes
    <3>4. /\ t \in SimState /\ t.ip = place /\ t.hi = s.hi /\ t.table = s.table
          /\ t.o = bytes /\ (t.keyError <=> s.keyError)
      BY <2>1, <3>2, <3>3, PatchUpdate
    <3>5. Does(emit, tab, s, item, t)
      BY <1>0, <1>6, <2>4, <3>4 DEF Does, place, bytes, w
    <3>6. QED
      BY <3>5 DEF t
  <2>5. QED
    BY <2>2, <2>3, <2>4
<1>7. QED
  BY <1>0, <1>1, <1>2, <1>3, <1>4, <1>5, <1>6

(* The beginning of a file, as a relation of writes.                       *)
Begins(u, v) == Len(u) <= Len(v) /\ \A k \in 1 .. Len(u) : u[k] = v[k]

LEMMA BeginsItself ==
  ASSUME NEW u \in Seq(Bytes)
  PROVE  Begins(u, u)
BY DEF Begins

LEMMA BeginsAppend ==
  ASSUME NEW u \in Seq(Bytes), NEW w \in Bytes
  PROVE  Begins(u, Append(u, w))
<1>1. Len(u) \in Nat /\ Len(Append(u, w)) = Len(u) + 1
  OBVIOUS
<1>2. \A k \in 1 .. Len(u) : Append(u, w)[k] = u[k]
  OBVIOUS
<1>3. QED
  BY <1>1, <1>2 DEF Begins

LEMMA BeginsOn ==
  ASSUME NEW u \in Seq(Bytes), NEW v \in Seq(Bytes), NEW w \in Seq(Bytes),
         Begins(u, v), Begins(v, w)
  PROVE  Begins(u, w)
<1>1. Len(u) \in Nat /\ Len(v) \in Nat /\ Len(w) \in Nat
  OBVIOUS
<1>2. QED
  BY <1>1 DEF Begins

LEMMA BeginsIsPrefix ==
  ASSUME NEW u \in Seq(Bytes), NEW v \in Seq(Bytes), Begins(u, v)
  PROVE  IsPrefix(u, v)
<1>1. Len(u) \in Nat /\ Len(v) \in Nat /\ Len(u) <= Len(v)
  BY DEF Begins
<1>2. SubSeq(u, 1, Len(u)) = SubSeq(v, 1, Len(u))
  <2>1. SubSeq(u, 1, Len(u)) = [k \in 1 .. Len(u) |-> u[k]]
    BY <1>1
  <2>2. SubSeq(v, 1, Len(u)) = [k \in 1 .. Len(u) |-> v[k]]
    BY <1>1
  <2>3. QED
    BY <2>1, <2>2 DEF Begins
<1>3. QED
  BY <1>1, <1>2 DEF IsPrefix

LEMMA FrontAppend ==
  ASSUME NEW u \in Seq(Bytes), NEW w \in Bytes
  PROVE  Front(Append(u, w)) = u
<1>1. Len(u) \in Nat /\ Len(Append(u, w)) = Len(u) + 1
  OBVIOUS
<1>2. Front(Append(u, w)) = SubSeq(Append(u, w), 1, Len(u))
  BY <1>1 DEF Front
<1>3. SubSeq(Append(u, w), 1, Len(u)) = u
  BY <1>1
<1>4. QED
  BY <1>2, <1>3

LEMMA StartType == Start \in SimState
<1>1. << >> \in SimTables
  <2>1. << >> \in [{} -> Nat] /\ {} \in SUBSET Name
    OBVIOUS
  <2>2. QED
    BY <2>1 DEF SimTables
<1>2. << >> \in Seq(Bytes) /\ -1 \in -1 .. 15
  OBVIOUS
<1>3. QED
  BY <1>1, <1>2, TableAssumption DEF Start, SimState

(* Every state the simulator passes through is one, made of the one before *)
(* it; its output only grows and a KeyError is never forgotten.            *)
LEMMA RunsType ==
  ASSUME NEW emit \in BOOLEAN, NEW tab \in SimTables, NEW p \in Seq(Item)
  PROVE  LET r == Runs(emit, tab, p)
         IN  /\ \A i \in 0 .. Len(p) : r[i] \in SimState
             /\ \A i \in 1 .. Len(p) : Does(emit, tab, r[i - 1], p[i], r[i])
             /\ \A i \in 0 .. Len(p) : Begins(r[i].o, r[Len(p)].o)
             /\ emit => \A i \in 0 .. Len(p) :
                          r[i].keyError => r[Len(p)].keyError
<1> DEFINE r == Runs(emit, tab, p)
           n == Len(p)
<1>1. n \in Nat /\ DOMAIN p = 1 .. n /\ \A i \in 1 .. n : p[i] \in Item
  OBVIOUS
<1>2. /\ r[0] = Start
      /\ \A i \in 1 .. n : r[i] = Reads(emit, tab, r[i - 1], p[i])
  BY <1>1, RunsOn
<1> HIDE DEF r
<1>3. ASSUME NEW i \in 1 .. n, r[i - 1] \in SimState
      PROVE  /\ Does(emit, tab, r[i - 1], p[i], r[i])
             /\ r[i] \in SimState /\ Begins(r[i - 1].o, r[i].o)
             /\ emit /\ r[i - 1].keyError => r[i].keyError
  <2> DEFINE s == r[i - 1]
             t == r[i]
  <2>0. p[i] \in Item /\ s \in SimState /\ t = Reads(emit, tab, s, p[i])
    BY <1>1, <1>2, <1>3
  <2>1. Does(emit, tab, s, p[i], t)
    BY <2>0, ReadsEffect
  <2> HIDE DEF s, t
  <2>2. t \in SimState /\ s.o \in Seq(Bytes) /\ s.hi \in Int
    BY <2>0, <2>1 DEF Does, SimState
  <2>3. \/ t.o = s.o
        \/ \E w \in Bytes : t.o = Append(s.o, w)
    <3>1. CASE p[i].kind = "digit" /\ s.hi # -1
      <4>1. t.o = Append(s.o, Byte(16 * s.hi + p[i].v)) /\ p[i].v \in Int
        BY <2>1, <3>1 DEF Does
      <4>2. \A x, y \in Int : 16 * x + y \in Int
        OBVIOUS
      <4>3. 16 * s.hi + p[i].v \in Int
        BY ONLY <2>2, <4>1, <4>2
      <4>4. Byte(16 * s.hi + p[i].v) \in Bytes
        BY <4>3 DEF Byte, Bytes
      <4>5. QED
        BY <4>1, <4>4
    <3>2. CASE p[i].kind = "pointer" /\ emit /\ ~KeyMissing(p[i], tab)
      <4>1. t.o = Append(s.o, Patch(s, p[i], tab))
        BY <2>1, <3>2 DEF Does
      <4>2. Patch(s, p[i], tab) \in Bytes
        BY <2>0, <3>2, PatchType
      <4>3. QED
        BY <4>1, <4>2
    <3>3. CASE /\ ~(p[i].kind = "digit" /\ s.hi # -1)
               /\ ~(p[i].kind = "pointer" /\ emit /\ ~KeyMissing(p[i], tab))
      <4>1. t.o = s.o
        BY <2>1, <3>3 DEF Does
      <4>2. QED
        BY <4>1
    <3>4. QED
      BY <3>1, <3>2, <3>3
  <2>4. Begins(s.o, t.o)
    BY <2>2, <2>3, BeginsItself, BeginsAppend
  <2>5. emit /\ s.keyError => t.keyError
    BY <2>1 DEF Does
  <2>6. QED
    BY <2>1, <2>2, <2>4, <2>5 DEF s, t
<1>4. \A i \in 0 .. n : r[i] \in SimState
  <2> DEFINE Good == {i \in 0 .. n : r[i] \in SimState}
  <2>1. 0 \in Good
    BY <1>1, <1>2, StartType
  <2>2. \A i \in 1 .. n : i - 1 \in Good => i \in Good
    BY <1>1, <1>3
  <2>3. 0 .. n \subseteq Good
    <3> HIDE DEF Good
    <3>1. QED
      BY <1>1, <2>1, <2>2, Climb
  <2>4. QED
    BY <2>3
<1>5. ASSUME NEW i \in 0 .. n
      PROVE  Begins(r[i].o, r[n].o) /\ (emit /\ r[i].keyError => r[n].keyError)
  <2> DEFINE Good == {k \in 0 .. n : /\ Begins(r[n - k].o, r[n].o)
                                     /\ emit /\ r[n - k].keyError
                                          => r[n].keyError}
  <2>0. r[n].o \in Seq(Bytes)
    BY <1>1, <1>4 DEF SimState
  <2>1. 0 \in Good
    BY <1>1, <2>0, BeginsItself
  <2>2. ASSUME NEW k \in 1 .. n, k - 1 \in Good PROVE k \in Good
    <3>1. n - k + 1 \in 1 .. n /\ n - k + 1 - 1 = n - k
          /\ n - (k - 1) = n - k + 1 /\ n - k \in 0 .. n /\ n - k + 1 \in 0 .. n
      BY <1>1
    <3>2. /\ Begins(r[n - k + 1].o, r[n].o)
          /\ emit /\ r[n - k + 1].keyError => r[n].keyError
      BY <2>2, <3>1
    <3>3. /\ Begins(r[n - k].o, r[n - k + 1].o)
          /\ emit /\ r[n - k].keyError => r[n - k + 1].keyError
      BY <1>3, <1>4, <3>1
    <3>4. r[n - k].o \in Seq(Bytes) /\ r[n - k + 1].o \in Seq(Bytes)
      BY <1>4, <3>1 DEF SimState
    <3>5. Begins(r[n - k].o, r[n].o)
      BY <2>0, <3>2, <3>3, <3>4, BeginsOn
    <3>6. QED
      BY <3>2, <3>3, <3>5
  <2>3. 0 .. n \subseteq Good
    <3> HIDE DEF Good
    <3>1. QED
      BY <1>1, <2>1, <2>2, Climb
  <2>4. n - i \in Good /\ n - (n - i) = i
    <3>1. n - i \in 0 .. n /\ n - (n - i) = i
      BY <1>1
    <3>2. QED
      BY <2>3, <3>1
  <2>5. QED
    BY <2>4
<1>6. ASSUME NEW i \in 1 .. n PROVE Does(emit, tab, r[i - 1], p[i], r[i])
  <2>1. i - 1 \in 0 .. n
    BY <1>1
  <2>2. QED
    BY <1>3, <1>4, <2>1
<1>7. QED
  BY <1>4, <1>5, <1>6 DEF r

-----------------------------------------------------------------------------
(* The simulator's first walk and the first pass. *)

Plain == Unsplit /\ Distinct /\ ~IdleBase

FirstRun  == Runs(FALSE, << >>, prog)
Tab       == FirstRun[Len(prog)].table
SecondRun == Runs(TRUE, Tab, prog)
Simulated == SecondRun[Len(prog)]

(* The states of either walk, in a file that is one. *)
LEMMA FirstRunSteps ==
  ASSUME TypeOK
  PROVE  /\ FirstRun[0] = Start
         /\ \A i \in 0 .. Len(prog) : FirstRun[i] \in SimState
         /\ \A i \in 1 .. Len(prog) :
              Does(FALSE, << >>, FirstRun[i - 1], prog[i], FirstRun[i])
         /\ Tab = Walk(FALSE, << >>, prog).table
         /\ Tab \in SimTables
<1> DEFINE n == Len(prog)
           r == Runs(FALSE, << >>, prog)
<1>1. prog \in Seq(Item) /\ n \in Nat /\ DOMAIN prog = 1 .. n
  BY DEF TypeOK
<1>2. << >> \in SimTables
  <2>1. << >> \in [{} -> Nat] /\ {} \in SUBSET Name
    OBVIOUS
  <2>2. QED
    BY <2>1 DEF SimTables
<1>3. r[0] = Start /\ r[n] = Walk(FALSE, << >>, prog)
  BY <1>1, RunsOn
<1>4. /\ \A i \in 0 .. n : r[i] \in SimState
      /\ \A i \in 1 .. n : Does(FALSE, << >>, r[i - 1], prog[i], r[i])
  BY <1>1, <1>2, RunsType
<1>5. r[n] \in SimState
  <2>1. n \in 0 .. n
    BY <1>1
  <2> HIDE DEF r, n
  <2>2. QED
    BY <1>4, <2>1
<1> HIDE DEF r, n
<1>6. r[n].table \in SimTables
  BY <1>5 DEF SimState
<1>7. QED
  BY <1>3, <1>4, <1>6 DEF FirstRun, Tab, r, n

LEMMA SecondRunSteps ==
  ASSUME TypeOK
  PROVE  /\ SecondRun[0] = Start
         /\ \A i \in 0 .. Len(prog) : SecondRun[i] \in SimState
         /\ \A i \in 1 .. Len(prog) :
              Does(TRUE, Tab, SecondRun[i - 1], prog[i], SecondRun[i])
         /\ \A i \in 0 .. Len(prog) : /\ Begins(SecondRun[i].o, Simulated.o)
                                      /\ SecondRun[i].keyError
                                           => Simulated.keyError
         /\ Simulated \in SimState
         /\ Simulated = AssembleHex2(prog)
<1> DEFINE n == Len(prog)
           r == Runs(TRUE, Tab, prog)
<1>1. prog \in Seq(Item) /\ n \in Nat /\ DOMAIN prog = 1 .. n
  BY DEF TypeOK
<1>2. Tab \in SimTables /\ Tab = Walk(FALSE, << >>, prog).table
  BY FirstRunSteps
<1>3. r[0] = Start /\ r[n] = Walk(TRUE, Tab, prog)
  BY <1>1, RunsOn
<1>4. /\ \A i \in 0 .. n : r[i] \in SimState
      /\ \A i \in 1 .. n : Does(TRUE, Tab, r[i - 1], prog[i], r[i])
      /\ \A i \in 0 .. n : Begins(r[i].o, r[n].o)
      /\ \A i \in 0 .. n : r[i].keyError => r[n].keyError
  BY <1>1, <1>2, RunsType
<1>5. r[n] \in SimState
  <2>1. n \in 0 .. n
    BY <1>1
  <2> HIDE DEF r, n
  <2>2. QED
    BY <1>4, <2>1
<1>6. r[n] = AssembleHex2(prog)
  BY <1>2, <1>3 DEF AssembleHex2
<1> HIDE DEF r, n
<1>7. QED
  BY <1>3, <1>4, <1>5, <1>6 DEF SecondRun, Simulated, r, n

(* What the first pass has counted at an item, and what the walk has: one  *)
(* more while a byte is half read.                                         *)
Along(m, s) == /\ m[2] = -1 <=> s.hi = -1
               /\ m[1] = s.ip + (IF m[2] = 0 THEN 1 ELSE 0)

LEMMA AlongStep ==
  ASSUME NEW m \in Nat \X {-1, 0}, NEW s \in SimState, NEW t, NEW tab,
         NEW item \in Item, Does(FALSE, tab, s, item, t), Along(m, s)
  PROVE  Along(After(m, item), t)
<1>1. /\ m[1] \in Nat /\ m[2] \in {-1, 0} /\ s.ip \in Nat /\ s.hi \in -1 .. 15
      /\ item.kind \in {"digit", "label", "pointer", "ignored"}
  BY ItemFields DEF SimState
<1>2. CASE item.kind = "digit" /\ s.hi = -1
  <2>1. t.hi = item.v /\ t.ip = s.ip /\ item.v \in 0 .. 15
    BY <1>2 DEF Does
  <2>2. After(m, item) = <<m[1] + 1, 0>>
    BY <1>1, <1>2 DEF After, Along
  <2>3. QED
    BY <1>1, <1>2, <2>1, <2>2 DEF Along
<1>3. CASE item.kind = "digit" /\ s.hi # -1
  <2>1. t.hi = -1 /\ t.ip = s.ip + 1
    BY <1>3 DEF Does
  <2>2. After(m, item) = <<m[1], -1>>
    BY <1>1, <1>3 DEF After, Along
  <2>3. QED
    BY <1>1, <1>3, <2>1, <2>2 DEF Along
<1>4. CASE item.kind = "pointer"
  <2>1. t.hi = s.hi /\ t.ip = s.ip + PWidth(item.sigil)
    BY <1>4 DEF Does
  <2>2. After(m, item) = <<m[1] + PWidth(item.sigil), m[2]>>
    BY <1>1, <1>4 DEF After
  <2>3. PWidth(item.sigil) \in {1, 2, 4}
    BY <1>4, ItemFields, WidthType
  <2>4. QED
    BY <1>1, <2>1, <2>2, <2>3 DEF Along
<1>5. CASE item.kind \in {"label", "ignored"}
  <2>1. t.hi = s.hi /\ t.ip = s.ip
    BY <1>5 DEF Does
  <2>2. After(m, item) = m
    BY <1>1, <1>5 DEF After
  <2>3. QED
    BY <1>1, <2>1, <2>2 DEF Along
<1>6. QED
  BY <1>1, <1>2, <1>3, <1>4, <1>5

LEMMA Alongside ==
  ASSUME IInv, pc = "second", readable, NEW i \in 1 .. Len(prog)
  PROVE  Along(mark[i], FirstRun[i - 1])
<1> DEFINE n == Len(prog)
           Good == {j \in 0 .. n - 1 : Along(mark[j + 1], FirstRun[j])}
<1>1. /\ prog \in Seq(Item) /\ n \in Nat /\ n >= 1 /\ DOMAIN prog = 1 .. n
      /\ mark \in [1 .. n -> Nat \X {-1, 0}] /\ TypeOK
  BY DEF IInv, TypeOK
<1>2. /\ mark[1] = <<OUT_BASE, -1>>
      /\ \A j \in 1 .. n - 1 : mark[j + 1] = After(mark[j], prog[j])
  BY <1>1 DEF IInv, Chain
<1>3. 0 \in Good
  <2>1. FirstRun[0].ip = OUT_BASE /\ FirstRun[0].hi = -1
    BY <1>1, FirstRunSteps DEF Start
  <2>2. OUT_BASE \in Nat
    BY TableAssumption
  <2>3. QED
    BY <1>1, <1>2, <2>1, <2>2 DEF Along
<1>4. ASSUME NEW j \in 1 .. n - 1, j - 1 \in Good PROVE j \in Good
  <2>0. j \in 1 .. n /\ j - 1 \in 0 .. n /\ j - 1 + 1 = j
    BY <1>1
  <2>1. /\ j \in 1 .. n /\ j - 1 \in 0 .. n /\ j - 1 + 1 = j /\ prog[j] \in Item
        /\ mark[j] \in Nat \X {-1, 0}
    BY <1>1, <2>0
  <2>2. /\ FirstRun[j - 1] \in SimState
        /\ Does(FALSE, << >>, FirstRun[j - 1], prog[j], FirstRun[j])
    BY <1>1, <2>1, FirstRunSteps
  <2>3. Along(mark[j], FirstRun[j - 1])
    BY <1>4, <2>1
  <2>4. Along(After(mark[j], prog[j]), FirstRun[j])
    BY <2>1, <2>2, <2>3, AlongStep
  <2>5. QED
    BY <1>2, <2>4
<1>5. 0 .. n - 1 \subseteq Good
  <2>1. n - 1 \in Nat
    BY <1>1
  <2> HIDE DEF Good
  <2>2. QED
    BY <1>3, <1>4, <2>1, Climb
<1>6. i - 1 \in Good /\ i - 1 + 1 = i
  <2>1. i - 1 \in 0 .. n - 1 /\ i - 1 + 1 = i
    BY <1>1
  <2>2. QED
    BY <1>5, <2>1
<1>7. QED
  BY <1>6

(* A byte is half read exactly where the first pass met half of one. *)
LEMMA HalfMarked ==
  ASSUME IInv, pc = "second", readable, NEW i \in 1 .. Len(prog)
  PROVE  HalfRead(i) <=> mark[i][2] = 0
<1> DEFINE n == Len(prog)
           Met(j) == {k \in 1 .. j - 1 : prog[k].kind = "digit"}
           Right(j) == /\ IsFiniteSet(Met(j)) /\ Cardinality(Met(j)) \in Nat
                       /\ Cardinality(Met(j)) % 2 = mark[j][2] + 1
           Good == {j \in 0 .. n - 1 : Right(j + 1)}
<1>1. /\ prog \in Seq(Item) /\ n \in Nat /\ n >= 1 /\ DOMAIN prog = 1 .. n
      /\ mark \in [1 .. n -> Nat \X {-1, 0}] /\ TypeOK
  BY DEF IInv, TypeOK
<1>2. /\ mark[1] = <<OUT_BASE, -1>>
      /\ \A j \in 1 .. n - 1 : mark[j + 1] = After(mark[j], prog[j])
  BY <1>1 DEF IInv, Chain
<1>3. 0 \in Good
  <2>1. Met(1) = {}
    OBVIOUS
  <2>2. IsFiniteSet(Met(1)) /\ Cardinality(Met(1)) = 0
    BY <2>1, FS_EmptySet
  <2>3. mark[1][2] = -1 /\ 0 % 2 = 0
    BY <1>2
  <2> HIDE DEF Met
  <2>4. Right(1)
    BY <2>2, <2>3
  <2>5. QED
    BY <1>1, <2>4
<1>4. ASSUME NEW j \in 1 .. n - 1, j - 1 \in Good PROVE j \in Good
  <2>1. /\ j \in 1 .. n /\ j - 1 + 1 = j /\ prog[j] \in Item
        /\ mark[j] \in Nat \X {-1, 0} /\ mark[j][2] \in {-1, 0}
        /\ mark[j + 1] = After(mark[j], prog[j]) /\ j + 1 - 1 = j
    BY <1>1, <1>2
  <2>2. Right(j)
    <3> HIDE DEF Right
    <3>1. QED
      BY <1>4, <2>1
  <2>3. CASE prog[j].kind = "digit"
    <3>1. Met(j + 1) = Met(j) \cup {j} /\ j \notin Met(j)
      BY <2>1, <2>3
    <3> HIDE DEF Met
    <3>2. /\ IsFiniteSet(Met(j + 1))
          /\ Cardinality(Met(j + 1)) = Cardinality(Met(j)) + 1
      BY <2>2, <3>1, FS_AddElement
    <3>3. mark[j + 1][2] = -1 - mark[j][2]
      BY <2>1, <2>3 DEF After
    <3>4. (Cardinality(Met(j)) + 1) % 2 = 1 - (Cardinality(Met(j)) % 2)
      BY <2>2
    <3>5. Cardinality(Met(j + 1)) % 2 = mark[j + 1][2] + 1
      BY <2>1, <2>2, <3>2, <3>3, <3>4
    <3>6. Right(j + 1)
      BY <2>2, <3>2, <3>5
    <3>7. QED
      BY <3>6
  <2>4. CASE prog[j].kind # "digit"
    <3>1. Met(j + 1) = Met(j)
      BY <2>1, <2>4
    <3>2. mark[j + 1][2] = mark[j][2]
      BY <2>1, <2>4 DEF After
    <3> HIDE DEF Met
    <3>3. Right(j + 1)
      BY <2>2, <3>1, <3>2
    <3>4. QED
      BY <3>3
  <2>5. QED
    BY <2>3, <2>4
<1>5. 0 .. n - 1 \subseteq Good
  <2>1. n - 1 \in Nat
    BY <1>1
  <2> HIDE DEF Good
  <2>2. QED
    BY <1>3, <1>4, <2>1, Climb
<1>6. Right(i)
  <2>1. i - 1 \in 0 .. n - 1 /\ i - 1 + 1 = i
    BY <1>1
  <2> HIDE DEF Right
  <2>2. i - 1 \in Good
    BY <1>5, <2>1
  <2>3. QED
    BY <2>1, <2>2
<1>7. mark[i][2] \in {-1, 0}
  BY <1>1
<1>8. HalfRead(i) <=> Cardinality(Met(i)) % 2 = 1
  BY DEF HalfRead
<1> HIDE DEF Met
<1>9. QED
  BY <1>6, <1>7, <1>8

(* The first walk's dictionary: the labels met so far, each at the address *)
(* it was met at.                                                          *)
LEMMA Dictionary ==
  ASSUME TypeOK, Distinct, NEW i \in 0 .. Len(prog)
  PROVE  /\ \A n : n \in DOMAIN FirstRun[i].table <=>
                     \E j \in 1 .. i : IsLabel(j) /\ prog[j].name = n
         /\ \A j \in 1 .. i : IsLabel(j) =>
              FirstRun[i].table[prog[j].name] = FirstRun[j - 1].ip
<1> DEFINE len == Len(prog)
           Known(k) == \A n : n \in DOMAIN FirstRun[k].table <=>
                                \E j \in 1 .. k : IsLabel(j) /\ prog[j].name = n
           Placed(k) == \A j \in 1 .. k : IsLabel(j) =>
                          FirstRun[k].table[prog[j].name] = FirstRun[j - 1].ip
           Good == {k \in 0 .. len : Known(k) /\ Placed(k)}
<1>1. prog \in Seq(Item) /\ len \in Nat /\ DOMAIN prog = 1 .. len
  BY DEF TypeOK
<1>2. 0 \in Good
  <2>1. FirstRun[0].table = << >> /\ DOMAIN << >> = {}
    BY FirstRunSteps DEF Start
  <2>2. 1 .. 0 = {}
    OBVIOUS
  <2>3. Known(0) /\ Placed(0)
    BY <2>1, <2>2
  <2>4. 0 \in 0 .. len
    BY <1>1
  <2> HIDE DEF Known, Placed
  <2>5. QED
    BY <2>3, <2>4
<1>3. ASSUME NEW k \in 1 .. len, k - 1 \in Good PROVE k \in Good
  <2> DEFINE s == FirstRun[k - 1]
             t == FirstRun[k]
  <2>1. /\ k \in DOMAIN prog /\ prog[k] \in Item /\ Known(k - 1) /\ Placed(k - 1)
        /\ 1 .. k = (1 .. k - 1) \cup {k} /\ k \notin 1 .. k - 1
    BY <1>1, <1>3
  <2>2. Does(FALSE, << >>, s, prog[k], t)
    BY FirstRunSteps
  <2>3. CASE prog[k].kind = "label"
    <3>1. IsLabel(k)
      BY <2>1, <2>3 DEF IsLabel
    <3>2. t.table = Assign(s.table, prog[k].name, s.ip)
      BY <2>2, <2>3 DEF Does
    <3>3. /\ DOMAIN t.table = DOMAIN s.table \cup {prog[k].name}
          /\ t.table[prog[k].name] = s.ip
          /\ \A n \in DOMAIN s.table : n # prog[k].name => t.table[n] = s.table[n]
      BY <3>2 DEF Assign
    <3>4. ASSUME NEW n
          PROVE  n \in DOMAIN t.table <=>
                   \E j \in 1 .. k : IsLabel(j) /\ prog[j].name = n
      <4>1. n \in DOMAIN t.table <=>
              (\E j \in 1 .. k - 1 : IsLabel(j) /\ prog[j].name = n)
                \/ n = prog[k].name
        BY <2>1, <3>3
      <4> HIDE DEF Known, Placed, t, s
      <4>2. QED
        BY <2>1, <3>1, <4>1
    <3>5. ASSUME NEW j \in 1 .. k, IsLabel(j)
          PROVE  t.table[prog[j].name] = FirstRun[j - 1].ip
      <4>1. CASE j = k
        BY <3>3, <4>1
      <4>2. CASE j # k
        <5>1. j \in 1 .. k - 1
          BY <2>1, <4>2
        <5>2. s.table[prog[j].name] = FirstRun[j - 1].ip
          BY <2>1, <3>5, <5>1
        <5>3. prog[j].name # prog[k].name
          BY <3>1, <3>5, <4>2 DEF Distinct, Labels, IsLabel
        <5>4. prog[j].name \in DOMAIN s.table
          BY <2>1, <3>5, <5>1
        <5>5. QED
          BY <3>3, <5>2, <5>3, <5>4
      <4>3. QED
        BY <4>1, <4>2
    <3>6. Known(k) /\ Placed(k)
      BY <3>4, <3>5
    <3> HIDE DEF Known, Placed
    <3>7. QED
      BY <3>6
  <2>4. CASE prog[k].kind # "label"
    <3>1. ~IsLabel(k)
      BY <2>4 DEF IsLabel
    <3>2. t.table = s.table
      BY <2>2, <2>4 DEF Does
    <3>3. ASSUME NEW n
          PROVE  n \in DOMAIN t.table <=>
                   \E j \in 1 .. k : IsLabel(j) /\ prog[j].name = n
      BY <2>1, <3>1, <3>2
    <3>4. ASSUME NEW j \in 1 .. k, IsLabel(j)
          PROVE  t.table[prog[j].name] = FirstRun[j - 1].ip
      BY <2>1, <3>1, <3>2, <3>4
    <3>5. Known(k) /\ Placed(k)
      BY <3>3, <3>4
    <3> HIDE DEF Known, Placed
    <3>6. QED
      BY <3>5
  <2>5. QED
    BY <2>3, <2>4
<1>4. i \in Good
  <2> HIDE DEF Good
  <2>1. 0 .. len \subseteq Good
    BY <1>1, <1>2, <1>3, Climb
  <2>2. QED
    BY <2>1
<1>5. QED
  BY <1>4

(* get_target and the dictionary: the same names, at the same addresses.   *)
LEMMA SameTargets ==
  ASSUME IInv, pc = "second", readable, Plain, NEW n \in Short
  PROVE  /\ n \in DOMAIN Tab <=> Hits(n) # {}
         /\ n \in DOMAIN Tab => GetTarget(n) = Tab[n]
<1>1. /\ prog \in Seq(Item) /\ Len(prog) \in Nat /\ DOMAIN prog = 1 .. Len(prog)
      /\ nlab \in Nat /\ TypeOK
  BY DEF IInv, TypeOK
<1>2. /\ n \in DOMAIN Tab <=> Defined(n)
      /\ \A j \in 1 .. Len(prog) : IsLabel(j) =>
           Tab[prog[j].name] = FirstRun[j - 1].ip
  <2>1. Len(prog) \in 0 .. Len(prog)
    BY <1>1
  <2>2. QED
    BY <1>1, <2>1, Dictionary DEF Plain, Tab, Defined
<1>3. Defined(n) => Hits(n) # {}
  BY DefinedIsFound
<1>4. ASSUME Hits(n) # {}
      PROVE  Defined(n) /\ GetTarget(n) = Tab[n]
  <2>1. PICK k : k = FirstHit(n)
    OBVIOUS
  <2>2. k \in Hits(n) /\ k \in 0 .. nlab - 1
    BY <1>1, <1>4, <2>1, MinimalHit DEF Hits
  <2>3. PICK d : d = defs[k]
    OBVIOUS
  <2>4. /\ prog[d].name = n /\ IsLabel(d) /\ targets[k] = mark[d][1]
        /\ d \in 1 .. Len(prog)
    BY <2>2, <2>3, ShortMatch DEF IInv, Filled, Reached
  <2>5. mark[d][2] # 0
    BY <2>4, HalfMarked DEF Plain, Unsplit, IsLabel
  <2>6. mark[d][1] = FirstRun[d - 1].ip + 0
    BY <2>4, <2>5, Alongside DEF Along
  <2>7. FirstRun[d - 1].ip \in Nat
    <3>1. d - 1 \in 0 .. Len(prog)
      BY <1>1, <2>4
    <3>2. QED
      BY <1>1, <3>1, FirstRunSteps DEF SimState
  <2>8. GetTarget(n) = Tab[n]
    BY <1>2, <2>1, <2>4, <2>6, <2>7 DEF GetTarget
  <2>9. Defined(n)
    BY <2>4 DEF Defined, IsLabel
  <2>10. QED
    BY <2>8, <2>9
<1>5. QED
  BY <1>2, <1>3, <1>4

(* So a pointer is patched alike, and refused alike. *)
LEMMA SamePatch ==
  ASSUME Full = {}, IInv, pc = "second", readable, Plain, IsPointer(pos),
         NEW s \in SimState, s.ip = ip
  PROVE  LET item == prog[pos]
             width == PWidth(item.sigil)
         IN  /\ Missing(item) <=> KeyMissing(item, Tab)
             /\ ~Missing(item) => Patch(s, item, Tab) =
                  [width |-> width, value |-> Low(PValue(item), width)]
<1> DEFINE item == prog[pos]
<1>1. /\ item \in Item /\ item.kind = "pointer"
      /\ item.name \in Short /\ item.base \in Short \cup {None}
  <2>1. Name = Short
    BY DEF Name, Long
  <2>2. prog \in Seq(Item)
    BY DEF IInv, TypeOK
  <2>3. QED
    BY <2>1, <2>2, ItemType, ItemFields DEF IsPointer
<1>2. item.base # None => item.base # <<Blank>> /\ ~PAbs(item.sigil)
  BY DEF Plain, IdleBase, IsPointer
<1>3. None \notin Short
  BY DEF None, Short
<1>4. Based(item) <=> item.base # None
  BY <1>2 DEF Based
<1>5. /\ item.name \in DOMAIN Tab <=> Hits(item.name) # {}
      /\ item.name \in DOMAIN Tab => GetTarget(item.name) = Tab[item.name]
  BY <1>1, SameTargets
<1>6. item.base # None =>
        /\ item.base \in DOMAIN Tab <=> Hits(item.base) # {}
        /\ item.base \in DOMAIN Tab => GetTarget(item.base) = Tab[item.base]
  BY <1>1, SameTargets
<1> HIDE DEF item
<1>7. Missing(item) <=> KeyMissing(item, Tab)
  BY <1>4, <1>5, <1>6 DEF Missing, KeyMissing
<1>8. ~Missing(item) => Value(s, item, Tab) = PValue(item)
  BY <1>4, <1>5, <1>6 DEF Missing, Value, PValue, PBase
<1>9. QED
  BY <1>7, <1>8 DEF Patch, item

-----------------------------------------------------------------------------
(* The second pass and the second walk. *)

(* While both files last, the port is where the simulator is. *)
Beside(s) == /\ s.ip = ip /\ s.o = out /\ ~s.keyError
             /\ s.hi = IF toggle = 0 THEN accum ELSE -1

(* What is in the file is the beginning of what the simulator wrote. *)
Astray(u) == \/ Begins(out, u)
             \/ ~readable /\ out # << >> /\ Begins(Front(out), u)

Judged(s) == code # 2 =>
               IF s.keyError THEN code = 1 ELSE code = 0 /\ out = s.o

Sim ==
  /\ pc = "first" => out = << >>
  /\ pc = "second" /\ readable => Begins(out, Simulated.o)
  /\ pc = "second" /\ readable /\ writable => Beside(SecondRun[pos - 1])
  /\ Astray(Simulated.o)
  /\ pc = "exit" /\ readable /\ writable => Judged(Simulated)

LEMMA SameRun ==
  ASSUME prog' = prog
  PROVE  /\ SecondRun' = SecondRun /\ Simulated' = Simulated
         /\ Plain' <=> Plain
BY DEF SecondRun, Simulated, Tab, FirstRun, Plain, Unsplit, Distinct, IdleBase,
       Labels, IsLabel, IsPointer, HalfRead

LEMMA SimInit ==
  ASSUME Init, TypeOK
  PROVE  Sim
<1>1. out = << >> /\ pc = "first"
  BY DEF Init
<1>2. Begins(<< >>, Simulated.o)
  <2>1. Simulated.o \in Seq(Bytes)
    BY SecondRunSteps DEF SimState
  <2>2. Len(Simulated.o) \in Nat /\ Len(<< >>) = 0
    BY <2>1
  <2>3. QED
    BY <2>2 DEF Begins
<1>3. QED
  BY <1>1, <1>2 DEF Sim, Astray

(* The loss of a file, and the end of the input. *)
LEMMA SimQuiet ==
  ASSUME IInv, Sim, LoseInput \/ LoseOutput \/ UNCHANGED vars
  PROVE  Sim'
<1>1. /\ UNCHANGED <<prog, pc, code, pos, ip, toggle, accum, out>>
      /\ readable' => readable
      /\ writable' => writable
  BY DEF LoseInput, LoseOutput, Lose, vars, file, disk
<1>2. SecondRun' = SecondRun /\ Simulated' = Simulated
  BY <1>1, SameRun
<1>3. PICK r, u, v : r = SecondRun[pos - 1] /\ u = Simulated.o /\ v = Simulated
  OBVIOUS
<1>4. SecondRun[pos - 1]' = r /\ Simulated'.o = u /\ Simulated' = v
  BY <1>1, <1>2, <1>3
<1>5. Astray(u)' /\ (readable' => (readable /\ (Begins(out, u) => Begins(out, u)')))
  BY <1>1, <1>3 DEF Sim, Astray
<1>6. Beside(r) => Beside(r)'
  BY <1>1 DEF Beside
<1>7. Judged(v) => Judged(v)'
  BY <1>1 DEF Judged
<1>8. QED
  BY <1>1, <1>3, <1>4, <1>5, <1>6, <1>7 DEF Sim

LEMMA SimRewind ==
  ASSUME IInv, Sim, RewindInput
  PROVE  Sim'
<1>1. /\ pc = "first" /\ pc' = "second" /\ pos' = 1 /\ ip' = OUT_BASE
      /\ toggle' = -1 /\ out' = out /\ out = << >> /\ prog' = prog /\ TypeOK
  BY DEF RewindInput, RewindIp, file, Sim, IInv
<1>2. SecondRun' = SecondRun /\ Simulated' = Simulated
  BY <1>1, SameRun
<1>3. PICK r, u : r = SecondRun[0] /\ u = Simulated.o
  OBVIOUS
<1>4. SecondRun[pos - 1]' = r /\ Simulated'.o = u
  BY <1>1, <1>2, <1>3
<1>5. r = Start
  BY <1>1, <1>3, SecondRunSteps
<1>6. Beside(r)'
  BY <1>1, <1>5 DEF Beside, Start
<1>7. Begins(<< >>, u)
  <2>1. u \in Seq(Bytes)
    BY <1>1, <1>3, SecondRunSteps DEF SimState
  <2>2. Len(u) \in Nat /\ Len(<< >>) = 0
    BY <2>1
  <2>3. QED
    BY <2>2 DEF Begins
<1>8. Begins(out, u)' /\ Astray(u)'
  BY <1>1, <1>7 DEF Astray
<1>9. QED
  BY <1>1, <1>4, <1>6, <1>8 DEF Sim

LEMMA SimFirst ==
  ASSUME IInv, Sim, StoreLabel \/ CountPointer \/ CountDigit \/ IgnoreFirst
  PROVE  Sim'
<1>1. /\ pc = "first" /\ prog' = prog /\ out' = out /\ out = << >>
      /\ pc' = "first" \/ (pc' = "exit" /\ code' = 2)
  BY DEF StoreLabel, CountPointer, CountDigit, IgnoreFirst, FirstPass, Running,
         Exit, file, Sim
<1>2. Simulated' = Simulated
  BY <1>1, SameRun
<1>3. PICK u, v : u = Simulated.o /\ v = Simulated
  OBVIOUS
<1>4. Simulated'.o = u /\ Simulated' = v
  BY <1>2, <1>3
<1>5. Begins(out, u)
  BY <1>1, <1>3 DEF Sim, Astray
<1>6. Astray(u)'
  BY <1>1, <1>5 DEF Astray
<1>7. pc' = "exit" => Judged(v)'
  BY <1>1 DEF Judged
<1>8. QED
  BY <1>1, <1>4, <1>6, <1>7 DEF Sim

LEMMA SimFinish ==
  ASSUME IInv, Sim, Finish
  PROVE  Sim'
<1>1. /\ pc = "second" /\ pc' = "exit" /\ code' = 0 /\ out' = out /\ prog' = prog
      /\ (readable' <=> readable) /\ (writable' <=> writable) /\ AtEnd
  BY DEF Finish, Exit, file, disk
<1>2. Simulated' = Simulated
  BY <1>1, SameRun
<1>3. PICK u, v : u = Simulated.o /\ v = Simulated
  OBVIOUS
<1>4. Simulated'.o = u /\ Simulated' = v
  BY <1>2, <1>3
<1>5. Astray(u)'
  BY <1>1, <1>3 DEF Sim, Astray
<1>6. ASSUME readable, writable PROVE Judged(v)'
  <2>1. Beside(SecondRun[pos - 1])
    BY <1>1, <1>6 DEF Sim
  <2>2. pos - 1 = Len(prog)
    <3>1. pos \in Nat \ {0} /\ pos <= Len(prog) + 1 /\ Len(prog) \in Nat
      BY DEF IInv, TypeOK
    <3>2. pos > Len(prog)
      BY <1>1, <1>6 DEF AtEnd
    <3>3. QED
      BY <3>1, <3>2
  <2>3. SecondRun[pos - 1] = v
    BY <1>3, <2>2 DEF Simulated
  <2>4. v.o = out /\ ~v.keyError
    BY <2>1, <2>3 DEF Beside
  <2>5. QED
    BY <1>1, <2>4 DEF Judged
<1>7. QED
  BY <1>1, <1>4, <1>5, <1>6 DEF Sim

(* A name that breaks off: one write more, or none, and no more after it.  *)
LEMMA SimBreakOff ==
  ASSUME IInv, Sim, BreakOff
  PROVE  Sim'
<1>1. /\ pc = "second" /\ readable /\ readable' = FALSE /\ prog' = prog
      /\ prog \in Seq(Item) /\ pos \in DOMAIN prog /\ prog[pos].kind = "pointer"
      /\ out \in Seq(Bytes)
  BY DEF BreakOff, AtEnd, IInv, TypeOK, Bytes
<1>2. Simulated' = Simulated
  BY <1>1, SameRun
<1>3. PICK u : u = Simulated.o
  OBVIOUS
<1>4. Simulated'.o = u /\ Begins(out, u)
  BY <1>1, <1>2, <1>3 DEF Sim
<1>5. PICK item \in Broken(prog[pos]) : Resolve(item)
  BY DEF BreakOff
<1>6. pc' # "first"
  BY <1>1, <1>5 DEF Resolve, Running, Exit
<1>7. CASE out' = out
  <2>1. Astray(u)'
    BY <1>4, <1>7 DEF Astray
  <2>2. QED
    BY <1>1, <1>4, <1>6, <2>1 DEF Sim
<1>8. CASE out' # out
  <2>1. PICK w \in Bytes : out' = Append(out, w)
    <3>1. prog[pos] \in Item
      BY <1>1, ItemType
    <3>2. item \in Item /\ item.kind = "pointer"
      BY <1>1, <1>5, <3>1, BrokenType
    <3>3. out' \in Seq([width : {1, 2, 4}, value : Int])
      BY <1>5, <3>2, ResolveType DEF IInv
    <3> DEFINE w == [width |-> PWidth(item.sigil),
                     value |-> Low(PValue(item), PWidth(item.sigil))]
    <3>4. out' = Append(out, w)
      BY <1>5, <1>8 DEF Resolve, WriteN, file
    <3>5. w \in Bytes
      <4>1. Len(out) \in Nat /\ Len(Append(out, w)) = Len(out) + 1
            /\ Append(out, w)[Len(out) + 1] = w
        BY <1>1
      <4> HIDE DEF w
      <4>2. Len(out') = Len(out) + 1 /\ out'[Len(out) + 1] = w
        BY <3>4, <4>1
      <4>3. Len(out) + 1 \in 1 .. Len(out')
        BY <4>1, <4>2
      <4>4. \A q \in Seq(Bytes) : \A k \in 1 .. Len(q) : q[k] \in Bytes
        OBVIOUS
      <4>5. out' \in Seq(Bytes)
        BY <3>3 DEF Bytes
      <4>6. QED
        BY <4>2, <4>3, <4>4, <4>5
    <3>6. QED
      BY <3>4, <3>5
  <2>2. Front(out') = out
    BY <1>1, <2>1, FrontAppend
  <2>3. out' # << >>
    <3>1. Len(out') = Len(out) + 1 /\ Len(out) \in Nat
      BY <1>1, <2>1
    <3>2. QED
      BY <3>1
  <2>4. Astray(u)'
    BY <1>1, <1>4, <2>2, <2>3 DEF Astray
  <2>5. QED
    BY <1>1, <1>4, <1>6, <2>4 DEF Sim
<1>9. QED
  BY <1>7, <1>8

(* An item the second pass gets past. *)
LEMMA SimOn ==
  ASSUME IInv, Sim, pc = "second", readable, pos \in 1 .. Len(prog),
         prog' = prog, pos' = pos + 1, pc' = "second",
         readable' = readable, writable' = writable,
         ~writable => out' = out,
         NEW s, s = SecondRun[pos], writable => Beside(s)'
  PROVE  Sim'
<1>1. SecondRun' = SecondRun /\ Simulated' = Simulated
  BY SameRun
<1>2. PICK u : u = Simulated.o
  OBVIOUS
<1>3. Simulated'.o = u
  BY <1>1, <1>2
<1>4. pos' - 1 = pos
  BY DEF IInv, TypeOK
<1>5. SecondRun[pos - 1]' = s
  BY <1>1, <1>4
<1>6. Begins(s.o, u)
  <2>1. pos \in 0 .. Len(prog) /\ TypeOK
    BY DEF IInv
  <2>2. QED
    BY <1>2, <2>1, SecondRunSteps
<1>7. Begins(out, u)'
  <2>1. CASE writable
    BY <1>6, <2>1 DEF Beside
  <2>2. CASE ~writable
    BY <1>2, <2>2 DEF Sim
  <2>3. QED
    BY <2>1, <2>2
<1>8. Astray(u)'
  BY <1>7 DEF Astray
<1>9. QED
  BY <1>3, <1>5, <1>7, <1>8 DEF Sim

SecondActions ==
  DropLabel \/ StorePointer \/ HoldDigit \/ PrintByte \/ IgnoreSecond

LEMMA SimSecond ==
  ASSUME Full = {}, Plain, IInv, Sim, SecondActions
  PROVE  Sim'
<1>1. /\ pc = "second" /\ readable /\ prog' = prog /\ pos' = pos + 1
      /\ readable' = readable /\ writable' = writable
      /\ pos \in 1 .. Len(prog) /\ prog[pos] \in Item
      /\ ip \in Nat /\ toggle \in {-1, 0} /\ accum \in 0 .. 15
      /\ out \in Seq(Bytes) /\ TypeOK
  <2>1. /\ pc = "second" /\ ~AtEnd /\ prog' = prog /\ pos' = pos + 1
        /\ readable' = readable /\ writable' = writable
    BY DEF SecondActions, DropLabel, StorePointer, HoldDigit, PrintByte,
           IgnoreSecond, SecondPass, disk
  <2>2. /\ prog \in Seq(Item) /\ Len(prog) \in Nat /\ pos \in Nat \ {0}
        /\ DOMAIN prog = 1 .. Len(prog)
        /\ ip \in Nat /\ toggle \in {-1, 0} /\ accum \in 0 .. 15
        /\ out \in Seq(Bytes) /\ TypeOK
    BY DEF IInv, TypeOK, Bytes
  <2>3. readable /\ pos \in 1 .. Len(prog)
    BY <2>1, <2>2 DEF AtEnd
  <2>4. QED
    BY <2>1, <2>2, <2>3
<1>2. PICK s, t : s = SecondRun[pos - 1] /\ t = SecondRun[pos]
  OBVIOUS
<1>3. Does(TRUE, Tab, s, prog[pos], t)
  BY <1>1, <1>2, SecondRunSteps
<1>4. s \in SimState /\ s.hi \in -1 .. 15 /\ s.ip \in Nat
  <2>1. pos - 1 \in 0 .. Len(prog)
    BY <1>1
  <2>2. QED
    BY <1>1, <1>2, <2>1, SecondRunSteps DEF SimState
<1>5. writable => Beside(s)
  BY <1>1, <1>2 DEF Sim
<1>6. CASE DropLabel \/ IgnoreSecond
  <2>1. /\ pc' = "second" /\ ip' = ip /\ toggle' = toggle /\ accum' = accum
        /\ out' = out /\ prog[pos].kind \in {"label", "ignored"}
    BY <1>1, <1>6 DEF DropLabel, IgnoreSecond, SecondPass, Running, file
  <2>2. t = s
    BY <1>3, <2>1 DEF Does
  <2>3. writable => Beside(t)'
    BY <1>5, <2>1, <2>2 DEF Beside
  <2>4. QED
    BY <1>1, <1>2, <2>1, <2>3, SimOn
<1>7. CASE HoldDigit
  <2>1. /\ pc' = "second" /\ ip' = ip /\ toggle' = 0 /\ accum' = prog[pos].v
        /\ out' = out /\ prog[pos].kind = "digit" /\ toggle # 0
    BY <1>1, <1>7 DEF HoldDigit, SecondPass, Running, file
  <2>2. ASSUME writable PROVE Beside(t)'
    <3>1. s.hi = -1 /\ s.ip = ip /\ s.o = out /\ ~s.keyError
      BY <1>5, <2>1, <2>2 DEF Beside
    <3>2. t.hi = prog[pos].v /\ t.ip = s.ip /\ t.o = s.o
          /\ (t.keyError <=> s.keyError)
      BY <1>3, <2>1, <3>1 DEF Does
    <3>3. QED
      BY <2>1, <3>1, <3>2 DEF Beside
  <2>3. QED
    BY <1>1, <1>2, <2>1, <2>2, SimOn
<1>8. CASE PrintByte
  <2> DEFINE w == Byte(16 * accum + prog[pos].v)
  <2>1. /\ pc' = "second" /\ ip' = ip + 1 /\ toggle' = -1
        /\ prog[pos].kind = "digit" /\ toggle = 0
        /\ WriteN(1, 16 * accum + prog[pos].v)
    BY <1>1, <1>8 DEF PrintByte, SecondPass, Running
  <2>2. (writable => out' = Append(out, w)) /\ (~writable => out' = out)
    BY <2>1 DEF WriteN, file, Byte
  <2> HIDE DEF w
  <2>3. ASSUME writable PROVE Beside(t)'
    <3>1. s.hi = accum /\ s.hi # -1 /\ s.ip = ip /\ s.o = out /\ ~s.keyError
      BY <1>1, <1>5, <2>1, <2>3 DEF Beside
    <3>2. /\ t.hi = -1 /\ t.ip = s.ip + 1 /\ (t.keyError <=> s.keyError)
          /\ t.o = Append(s.o, Byte(16 * s.hi + prog[pos].v))
      BY <1>3, <2>1, <3>1 DEF Does
    <3>3. t.o = Append(out, w)
      BY <3>1, <3>2 DEF w
    <3>4. QED
      BY <2>1, <2>2, <2>3, <3>1, <3>2, <3>3 DEF Beside
  <2>4. QED
    BY <1>1, <1>2, <2>1, <2>2, <2>3, SimOn
<1>9. CASE StorePointer
  <2> DEFINE item == prog[pos]
             width == PWidth(item.sigil)
             w == [width |-> width, value |-> Low(PValue(item), width)]
  <2>1. /\ item.kind = "pointer" /\ IsPointer(pos) /\ Resolve(item)
        /\ ip' = ip + width /\ toggle' = toggle /\ accum' = accum
    BY <1>1, <1>9 DEF StorePointer, SecondPass, IsPointer, Resolve
  <2>2. s.ip = ip =>
          /\ Missing(item) <=> KeyMissing(item, Tab)
          /\ ~Missing(item) => Patch(s, item, Tab) = w
    BY <1>1, <1>4, <2>1, SamePatch
  <2>3. CASE Missing(item)
    <3>1. pc' = "exit" /\ code' = 1 /\ out' = out
      BY <2>1, <2>3 DEF Resolve, Exit, file
    <3>2. Simulated' = Simulated
      BY <1>1, SameRun
    <3>3. PICK u, v : u = Simulated.o /\ v = Simulated
      OBVIOUS
    <3>4. Simulated'.o = u /\ Simulated' = v
      BY <3>2, <3>3
    <3>5. Astray(u)'
      BY <1>1, <3>1, <3>3 DEF Sim, Astray
    <3>6. ASSUME writable PROVE Judged(v)'
      <4>1. KeyMissing(item, Tab)
        BY <1>5, <2>2, <2>3, <3>6 DEF Beside
      <4> HIDE DEF item
      <4>2. t.keyError
        BY <1>3, <2>1, <4>1 DEF Does, item
      <4>3. pos \in 0 .. Len(prog)
        BY <1>1
      <4>4. v.keyError
        BY <1>1, <1>2, <3>3, <4>2, <4>3, SecondRunSteps
      <4>5. QED
        BY <3>1, <4>4 DEF Judged
    <3>7. QED
      BY <1>1, <3>1, <3>4, <3>5, <3>6 DEF Sim
  <2>4. CASE ~Missing(item)
    <3>1. pc' = "second" /\ WriteN(width, Low(PValue(item), width))
      BY <1>1, <2>1, <2>4 DEF Resolve, Running
    <3>2. (writable => out' = Append(out, w)) /\ (~writable => out' = out)
      BY <3>1 DEF WriteN, file
    <3>3. ASSUME writable PROVE Beside(t)'
      <4>1. s.ip = ip /\ s.o = out /\ ~s.keyError
            /\ s.hi = IF toggle = 0 THEN accum ELSE -1
        BY <1>5, <3>3 DEF Beside
      <4>2. ~KeyMissing(item, Tab) /\ Patch(s, item, Tab) = w
        BY <2>2, <2>4, <4>1
      <4>3. /\ t.hi = s.hi /\ t.ip = s.ip + width /\ (t.keyError <=> s.keyError)
            /\ t.o = Append(s.o, Patch(s, item, Tab))
        BY <1>3, <2>1, <4>2 DEF Does
      <4> HIDE DEF w, item, width
      <4>4. QED
        BY <2>1, <3>2, <3>3, <4>1, <4>2, <4>3 DEF Beside
    <3>4. QED
      BY <1>1, <1>2, <3>1, <3>2, <3>3, SimOn
  <2>5. QED
    BY <2>3, <2>4
<1>10. QED
  BY <1>6, <1>7, <1>8, <1>9 DEF SecondActions

LEMMA SimStep ==
  ASSUME Full = {}, IInv, Plain => Sim, [Next]_vars
  PROVE  Plain' => Sim'
<1>1. prog' = prog
  BY DEF Next, Program, StoreLabel, CountPointer, CountDigit, IgnoreFirst,
         FirstPass, RewindInput, DropLabel, StorePointer, HoldDigit, PrintByte,
         IgnoreSecond, SecondPass, Finish, BreakOff, LoseInput, LoseOutput, Lose,
         vars
<1>2. SUFFICES ASSUME Plain, Sim PROVE Sim'
  BY <1>1, SameRun
<1>3. CASE LoseInput \/ LoseOutput \/ UNCHANGED vars
  BY <1>2, <1>3, SimQuiet
<1>4. CASE StoreLabel \/ CountPointer \/ CountDigit \/ IgnoreFirst
  BY <1>2, <1>4, SimFirst
<1>5. CASE RewindInput
  BY <1>2, <1>5, SimRewind
<1>6. CASE SecondActions
  BY <1>2, <1>6, SimSecond
<1>7. CASE Finish
  BY <1>2, <1>7, SimFinish
<1>8. CASE BreakOff
  BY <1>2, <1>8, SimBreakOff
<1>9. QED
  BY <1>3, <1>4, <1>5, <1>6, <1>7, <1>8 DEF Next, Program, SecondActions

LEMMA AgreesBySim ==
  ASSUME TypeOK, FailureIsDeserved, Plain => Sim
  PROVE  AgreesOnPlain
<1> SUFFICES ASSUME pc = "exit", Plain, Cardinality(Labels) < NLAB
             PROVE  IF readable /\ writable THEN Agrees ELSE AgreesSoFar
  BY DEF AgreesOnPlain, Plain
<1>1. Simulated = AssembleHex2(prog) /\ Simulated.o \in Seq(Bytes)
      /\ out \in Seq(Bytes)
  BY SecondRunSteps DEF SimState, TypeOK, Bytes
<1>2. CASE readable /\ writable
  <2>1. code # 2
    <3>1. code = 2 => Cardinality(Labels) >= NLAB
      BY DEF FailureIsDeserved, Labels
    <3>2. NLAB \in Int
      BY TableAssumption
    <3>3. IsFiniteSet(1 .. Len(prog)) /\ Labels \subseteq 1 .. Len(prog)
      <4>1. Len(prog) \in Int /\ DOMAIN prog = 1 .. Len(prog) /\ 1 \in Int
        BY DEF TypeOK
      <4>2. IsFiniteSet(1 .. Len(prog))
        BY <4>1, FS_Interval
      <4>3. QED
        BY <4>1, <4>2 DEF Labels
    <3>4. Cardinality(Labels) \in Nat
      BY <3>3, FS_Subset, FS_CardinalityType
    <3>5. QED
      BY <3>1, <3>2, <3>4
  <2>2. Judged(Simulated)
    BY <1>2 DEF Sim
  <2>3. QED
    BY <1>1, <1>2, <2>1, <2>2 DEF Judged, Agrees
<1>3. CASE ~(readable /\ writable)
  <2>1. CASE Begins(out, Simulated.o)
    BY <1>1, <1>3, <2>1, BeginsIsPrefix DEF AgreesSoFar
  <2>2. CASE ~readable /\ out # << >> /\ Begins(Front(out), Simulated.o)
    <3>1. Front(out) \in Seq(Bytes)
      <4>1. Len(out) \in Nat /\ Len(out) # 0
        BY <1>1, <2>2
      <4>2. Len(out) - 1 \in 0 .. Len(out)
        BY <4>1
      <4>3. SubSeq(out, 1, Len(out) - 1) \in Seq(Bytes)
        BY <1>1, <4>1
      <4>4. QED
        BY <4>3 DEF Front
    <3>2. IsPrefix(Front(out), Simulated.o)
      BY <1>1, <2>2, <3>1, BeginsIsPrefix
    <3>3. QED
      BY <1>1, <1>3, <2>2, <3>2 DEF AgreesSoFar
  <2>3. Astray(Simulated.o)
    BY DEF Sim
  <2>4. QED
    BY <2>1, <2>2, <2>3 DEF Astray
<1>4. QED
  BY <1>2, <1>3

(* On what the generators write, with names that fit their fields, the     *)
(* port and assemble_hex2 emit the same bytes and refuse the same inputs;  *)
(* a file that fails on the way costs at most the end of the output, and   *)
(* the pointer whose name broke off.                                       *)
THEOREM PortAgrees ==
  ASSUME Full = {}
  PROVE  Spec => []AgreesOnPlain
<1>1. Init => (Plain => Sim)
  BY InitType, SimInit
<1>2. IInv /\ (Plain => Sim) /\ [Next]_vars => (Plain => Sim)'
  BY SimStep
<1>3. IInv /\ FailureIsDeserved /\ (Plain => Sim) => AgreesOnPlain
  BY AgreesBySim DEF IInv
<1>4. QED
  BY <1>1, <1>2, <1>3, Inductive, FailuresDeserved, PTL DEF Spec
=============================================================================
