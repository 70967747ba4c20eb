----------------------------- MODULE Hex1Proofs -----------------------------
(***************************************************************************)
(* What holds of hex1 for every input and every loss.                      *)
(*                                                                         *)
(* The first pass is a walk of its registers over the input, one After per *)
(* byte; the history variable mark keeps the walk.  The second pass does   *)
(* the same walk, seen through Follow: its ip is behind by one while half  *)
(* a byte is held and ahead by four while a pointer waits for its name,    *)
(* and the places its labels land at stand for the table.  So the walk     *)
(* ends with the same table, and that is where the pointers lead.          *)
(***************************************************************************)
EXTENDS Stage0Sim, WellFoundedInduction, TLAPS

NextAt(m, c) ==
  IF m.at = "comment" THEN IF c = Newline THEN "loop" ELSE "comment"
  ELSE IF m.at = "loop" /\ Hex(c) < 0 THEN Enters(c) ELSE "loop"

IsDigit(m, c) == m.at = "loop" /\ Hex(c) >= 0

Counted(m, c) == IF m.at = "pointer" THEN 4
                 ELSE IF IsDigit(m, c) /\ m.toggle # 0 THEN 1 ELSE 0

Turned(m, c) == IF IsDigit(m, c) THEN -1 - m.toggle ELSE m.toggle

Filled(m, c) == IF m.at = "label" THEN [m.table EXCEPT ![c] = m.ip] ELSE m.table

(* What one byte does to the registers. *)
After(m, c) == [at     |-> NextAt(m, c),
                ip     |-> m.ip + Counted(m, c),
                toggle |-> Turned(m, c),
                table  |-> Filled(m, c)]

Begin == [at |-> "loop", ip |-> 0, toggle |-> -1, table |-> [c \in Byte |-> 0]]

(* The second pass's registers, as the first pass counted them. *)
Pending == IF at = "pointer" THEN 4 ELSE 0
Half    == IF toggle = 0 THEN 1 ELSE 0
Follow  == [at |-> at, ip |-> ip + Half - Pending, toggle |-> toggle,
            table |-> lands]

Walked(n) == \A i \in 1 .. n : mark[i + 1] = After(mark[i], input[i])

FirstWalk ==
  pass \in {"start", "first"} =>
    /\ Len(mark) = pos - 1
    /\ pos = 1 => Registers = Begin
    /\ pos > 1 => mark[1] = Begin /\ Registers = After(mark[pos - 1], input[pos - 1])
    /\ Walked(pos - 2)
    /\ written = 0 /\ rels = {} /\ lands = [c \in Byte |-> 0]

Rewalk ==
  (pass = "second" /\ readable) =>
    /\ Len(mark) = Len(input) + 1
    /\ mark[1] = Begin
    /\ Walked(Len(input))
    /\ table = mark[Len(input) + 1].table

Lockstep ==
  (pass = "second" /\ readable /\ writable) =>
    /\ written = ip - Pending
    /\ lands = mark[pos].table
    /\ pos <= Len(input) => Follow = mark[pos]

Hit == \A r \in rels : r.end + r.d = table[r.name]

Landed == (pass = "exit" /\ readable /\ writable) => lands = table

IInv == TypeOK /\ FirstWalk /\ Rewalk /\ Lockstep /\ Hit /\ Landed

-----------------------------------------------------------------------------
(* Type correctness. *)

(* A byte has the value of a hexadecimal digit, or -1. *)
LEMMA HexType ==
  ASSUME NEW c \in Byte
  PROVE  Hex(c) \in -1 .. 15 /\ Enters(c) \in Place
BY InputAssumption DEF Hex, Enters, Place

(* A byte read is a byte of the input, and the position stays inside. *)
LEMMA ReadType ==
  ASSUME TypeOK, NEW p, NEW a, ReadAt(p, a)
  PROVE  /\ input[pos] \in Byte /\ pos \in 1 .. Len(input)
         /\ pos' \in Nat \ {0} /\ pos' <= Len(input') + 1
         /\ input' = input /\ readable' = readable /\ writable' = writable
         /\ pass' = pass /\ pass = p /\ at = a /\ pos' = pos + 1
         /\ readable
BY DEF TypeOK, ReadAt, AtEnd, files

LEMMA RegistersType == TypeOK => Registers \in Snapshot
BY DEF TypeOK, Registers, Snapshot

(* write_n appends one write, if it can. *)
LEMMA WriteType ==
  ASSUME TypeOK, NEW n \in {1, 4}, NEW v \in Int, WriteN(n, v)
  PROVE  out' \in Seq({1, 4} \X Int) /\ written' \in Nat
<1>1. <<n, v>> \in {1, 4} \X Int
  OBVIOUS
<1>2. CASE writable
  <2>1. out' = Append(out, <<n, v>>) /\ written' = written + n
    BY <1>2 DEF WriteN
  <2>2. QED
    BY <1>1, <2>1 DEF TypeOK
<1>3. CASE ~writable
  BY <1>3 DEF WriteN, TypeOK
<1>4. QED
  BY <1>2, <1>3

LEMMA InitType == Init => TypeOK
<1> SUFFICES ASSUME Init PROVE TypeOK
  OBVIOUS
<1>1. input \in Seq(Byte) /\ Len(input) \in Nat
  BY InputAssumption DEF Init
<1>2. table \in [Byte -> Nat] /\ lands \in [Byte -> Nat]
  BY DEF Init
<1>3. out \in Seq({1, 4} \X Int) /\ mark \in Seq(Snapshot)
  BY DEF Init
<1>4. at \in Place /\ pos \in Nat \ {0} /\ pos <= Len(input) + 1
  BY <1>1 DEF Init, Place
<1>5. readable \in BOOLEAN /\ writable \in BOOLEAN
  BY DEF Init
<1>6. rels \subseteq [name : Byte, d : Int, end : Nat] /\ written \in Nat
  BY DEF Init
<1>7. /\ pass \in {"start", "first", "second", "exit"}
      /\ ip \in Nat /\ toggle \in {-1, 0} /\ accum \in 0 .. 15
  BY DEF Init
<1>8. QED
  BY <1>1, <1>2, <1>3, <1>4, <1>5, <1>6, <1>7 DEF TypeOK

(* What every step of the first pass leaves to its registers. *)
LEMMA FirstType ==
  ASSUME TypeOK, NEW a, First(a), at' \in Place, ip' \in Nat,
         toggle' \in {-1, 0}, table' \in [Byte -> Nat]
  PROVE  TypeOK'
<1>1. mark' \in Seq(Snapshot)
  BY RegistersType DEF First, TypeOK
<1>2. ReadAt("first", a)
  BY DEF First
<1>3. QED
  BY <1>1, <1>2, ReadType DEF First, TypeOK, file

(* And of the second pass, but what it writes. *)
LEMMA SecondType ==
  ASSUME TypeOK, NEW a, Second(a), at' \in Place, ip' \in Nat,
         toggle' \in {-1, 0}, accum' \in 0 .. 15, lands' \in [Byte -> Nat],
         out' \in Seq({1, 4} \X Int), written' \in Nat,
         rels' \subseteq [name : Byte, d : Int, end : Nat]
  PROVE  TypeOK'
<1>1. ReadAt("second", a)
  BY DEF Second
<1>2. QED
  BY <1>1, ReadType DEF Second, TypeOK

LEMMA NextType == TypeOK /\ [Next]_vars => TypeOK'
<1> SUFFICES ASSUME TypeOK, [Next]_vars PROVE TypeOK'
  OBVIOUS
<1>0. /\ at \in Place /\ ip \in Nat /\ toggle \in {-1, 0} /\ accum \in 0 .. 15
      /\ table \in [Byte -> Nat] /\ lands \in [Byte -> Nat]
      /\ out \in Seq({1, 4} \X Int) /\ written \in Nat
      /\ rels \subseteq [name : Byte, d : Int, end : Nat]
      /\ Len(input) \in Nat
      /\ "loop" \in Place /\ "comment" \in Place /\ "pointer" \in Place
  BY DEF TypeOK, Place
<1>1. CASE Open
  BY <1>1 DEF Open, TypeOK, file, history
<1>2. CASE Dispatch
  <2>1. First("loop") /\ ReadAt("first", "loop") /\ at' = Enters(input[pos])
    BY <1>2 DEF Dispatch, First
  <2>2. at' \in Place
    BY <2>1, ReadType, HexType
  <2>3. QED
    BY <1>0, <1>2, <2>1, <2>2, FirstType DEF Dispatch
<1>3. CASE CountDigit
  <2>1. ip' \in Nat /\ toggle' \in {-1, 0}
    BY <1>0, <1>3 DEF CountDigit, CountedAtFirst, NotToggle
  <2>2. QED
    BY <1>0, <1>3, <2>1, FirstType DEF CountDigit
<1>4. CASE StoreLabel
  <2>1. table' \in [Byte -> Nat]
    BY <1>0, <1>4 DEF StoreLabel, SlotValue
  <2>2. QED
    BY <1>0, <1>4, <2>1, FirstType DEF StoreLabel
<1>5. CASE CountPointer
  BY <1>0, <1>5, FirstType DEF CountPointer
<1>6. CASE CommentFirst
  BY <1>0, <1>6, FirstType DEF CommentFirst
<1>7. CASE RewindInput
  <2>1. mark' \in Seq(Snapshot)
    BY <1>7, RegistersType DEF RewindInput, TypeOK
  <2>2. QED
    BY <1>0, <1>7, <2>1 DEF RewindInput, TypeOK, files, file
<1>8. CASE DispatchSecond
  <2>1. Second("loop") /\ ReadAt("second", "loop") /\ at' = Enters(input[pos])
    BY <1>8 DEF DispatchSecond, Second
  <2>2. at' \in Place
    BY <2>1, ReadType, HexType
  <2>3. QED
    BY <1>0, <1>8, <2>1, <2>2, SecondType DEF DispatchSecond, file
<1>9. CASE BeginPointer
  BY <1>0, <1>9, SecondType DEF BeginPointer, file
<1>10. CASE StorePointer
  <2> DEFINE d == table[input[pos]] - ip
  <2>1. Second("pointer") /\ ReadAt("second", "pointer")
    BY <1>10 DEF StorePointer, Second
  <2>2. input[pos] \in Byte /\ d \in Int
    BY <1>0, <2>1, ReadType
  <2>3. WriteN(4, d)
    BY <1>10 DEF StorePointer
  <2>4. out' \in Seq({1, 4} \X Int) /\ written' \in Nat
    BY <2>2, <2>3, WriteType
  <2>5. [name |-> input[pos], d |-> d, end |-> written + 4]
          \in [name : Byte, d : Int, end : Nat]
    BY <1>0, <2>2
  <2>6. rels' \subseteq [name : Byte, d : Int, end : Nat]
    BY <1>0, <1>10, <2>5 DEF StorePointer
  <2>7. QED
    BY <1>0, <1>10, <2>1, <2>4, <2>6, SecondType DEF StorePointer
<1>11. CASE DanglingPointer
  <2>1. BelowTable - ip \in Int
    BY <1>0 DEF BelowTable
  <2>2. out' \in Seq({1, 4} \X Int) /\ written' \in Nat
    BY <1>11, <2>1, WriteType DEF DanglingPointer
  <2>3. QED
    BY <1>0, <1>11, <2>2 DEF DanglingPointer, TypeOK, files, history
<1>12. CASE DropName
  <2> DEFINE land == IF toggle = 0 THEN written + 1 ELSE written
  <2>0. land \in Nat
    BY <1>0
  <2>1. lands' \in [Byte -> Nat]
    BY <1>0, <1>12, <2>0 DEF DropName
  <2>2. QED
    BY <1>0, <1>12, <2>1, SecondType DEF DropName, file
<1>13. CASE HoldDigit
  <2>1. Second("loop") /\ ReadAt("second", "loop") /\ accum' = Hex(input[pos])
    BY <1>13 DEF HoldDigit, Second
  <2>2. accum' \in 0 .. 15
    BY <1>13, <2>1, ReadType, HexType DEF HoldDigit
  <2>3. QED
    BY <1>0, <1>13, <2>1, <2>2, SecondType DEF HoldDigit, file
<1>14. CASE PrintByte
  <2>1. Second("loop") /\ ReadAt("second", "loop")
    BY <1>14 DEF PrintByte, Second
  <2>2. Hex(input[pos]) \in Int /\ accum \in Int
    <3>1. input[pos] \in Byte
      BY <2>1, ReadType
    <3>2. Hex(input[pos]) \in -1 .. 15
      BY <3>1, HexType
    <3>3. QED
      BY <1>0, <3>2
  <2>3. 16 * accum + Hex(input[pos]) \in Int
    <3>1. \A x, y \in Int : 16 * x + y \in Int
      OBVIOUS
    <3>2. QED
      BY ONLY <2>2, <3>1
  <2>4. out' \in Seq({1, 4} \X Int) /\ written' \in Nat
    BY <1>14, <2>3, WriteType DEF PrintByte
  <2>5. /\ at' = at /\ ip' = ip + 1 /\ toggle' = -1 /\ accum' = accum
        /\ rels' = rels /\ lands' = lands
    BY <1>14 DEF PrintByte
  <2>6. at' \in Place /\ ip' \in Nat /\ toggle' \in {-1, 0}
    BY <1>0, <2>5
  <2>7. QED
    BY <1>0, <2>1, <2>4, <2>5, <2>6, SecondType
<1>15. CASE CommentSecond
  BY <1>0, <1>15, SecondType DEF CommentSecond, file
<1>16. CASE Finish
  BY <1>16 DEF Finish, TypeOK, files, file, history
<1>17. CASE LoseInput
  BY <1>17 DEF LoseInput, TypeOK, file, history
<1>18. CASE LoseOutput
  BY <1>18 DEF LoseOutput, TypeOK, file, history
<1>19. CASE UNCHANGED vars
  BY <1>19 DEF vars, files, file, history, TypeOK
<1>20. QED
  BY <1>1, <1>2, <1>3, <1>4, <1>5, <1>6, <1>7, <1>8, <1>9, <1>10, <1>11,
     <1>12, <1>13, <1>14, <1>15, <1>16, <1>17, <1>18, <1>19 DEF Next, Program

(* hex1 keeps its types whatever it reads and whatever is lost: ip and     *)
(* toggle are set again before the slot below the table can reach them.    *)
THEOREM TypeCorrect == Spec => []TypeOK
BY InitType, NextType, PTL DEF Spec

-----------------------------------------------------------------------------
(* One byte of either pass, whatever it is. *)

FirstByte ==
  /\ pass = "first" /\ pass' = "first"
  /\ pos \in 1 .. Len(input) /\ pos' = pos + 1
  /\ input' = input /\ file' = file /\ lands' = lands
  /\ mark' = Append(mark, Registers)
  /\ Registers' = After(Registers, input[pos])

(* What a byte of the second pass does once the output file is where ip    *)
(* says it is.                                                             *)
SecondByte ==
  /\ pass = "second" /\ pass' = "second" /\ readable
  /\ pos \in 1 .. Len(input) /\ pos' = pos + 1
  /\ UNCHANGED <<files, table, mark>>
  /\ (writable /\ written = ip - Pending) =>
       /\ written' = ip' - Pending'
       /\ Follow' = After(Follow, input[pos])

FirstActions  == Dispatch \/ CountDigit \/ StoreLabel \/ CountPointer
                   \/ CommentFirst
SecondActions == DispatchSecond \/ BeginPointer \/ StorePointer \/ DropName
                   \/ HoldDigit \/ PrintByte \/ CommentSecond

(* Every byte of the first pass moves the registers by After. *)
LEMMA FirstPassByte ==
  ASSUME TypeOK, FirstActions
  PROVE  FirstByte
<1>0. /\ at \in Place /\ ip \in Nat /\ toggle \in {-1, 0}
      /\ table \in [Byte -> Nat]
  BY DEF TypeOK
<1>1. PICK a \in Place : First(a) /\ at = a
  BY DEF FirstActions, Dispatch, CountDigit, StoreLabel, CountPointer,
         CommentFirst, First, ReadAt, Place
<1>2. ReadAt("first", at)
  BY <1>1 DEF First
<1>3. /\ pass = "first" /\ pass' = "first"
      /\ pos \in 1 .. Len(input) /\ pos' = pos + 1
      /\ input' = input /\ file' = file /\ lands' = lands
      /\ mark' = Append(mark, Registers)
  BY <1>1, <1>2, ReadType DEF First
<1>4. Hex(input[pos]) \in -1 .. 15
  BY <1>2, ReadType, HexType
<1> DEFINE m == Registers
           c == input[pos]
<1>5. /\ at' = NextAt(m, c) /\ ip' = m.ip + Counted(m, c)
      /\ toggle' = Turned(m, c) /\ table' = Filled(m, c)
  <2> USE DEF Registers, NextAt, Counted, Turned, Filled, IsDigit, First, ReadAt
  <2>1. CASE Dispatch
    BY <1>0, <1>4, <2>1 DEF Dispatch
  <2>2. CASE CountDigit
    BY <1>0, <1>4, <2>2 DEF CountDigit, CountedAtFirst, NotToggle
  <2>3. CASE StoreLabel
    BY <1>0, <1>4, <2>3 DEF StoreLabel, SlotValue
  <2>4. CASE CountPointer
    BY <1>0, <1>4, <2>4 DEF CountPointer
  <2>5. CASE CommentFirst
    BY <1>0, <1>4, <2>5 DEF CommentFirst
  <2>6. QED
    BY <2>1, <2>2, <2>3, <2>4, <2>5 DEF FirstActions
<1>6. Registers' = After(Registers, input[pos])
  BY <1>5 DEF Registers, After
<1>7. QED
  BY <1>3, <1>6 DEF FirstByte

(* Every byte of the second pass writes what it counts and moves what      *)
(* Follow sees by After.                                                   *)
LEMMA SecondPassByte ==
  ASSUME TypeOK, SecondActions
  PROVE  SecondByte
<1>0. /\ at \in Place /\ ip \in Nat /\ toggle \in {-1, 0} /\ written \in Nat
      /\ table \in [Byte -> Nat] /\ lands \in [Byte -> Nat]
  BY DEF TypeOK
<1>1. PICK a \in Place : Second(a) /\ at = a
  BY DEF SecondActions, DispatchSecond, BeginPointer, StorePointer, DropName,
         HoldDigit, PrintByte, CommentSecond, Second, ReadAt, Place
<1>2. ReadAt("second", at)
  BY <1>1 DEF Second
<1>3. /\ pass = "second" /\ pass' = "second" /\ readable
      /\ pos \in 1 .. Len(input) /\ pos' = pos + 1
      /\ UNCHANGED <<files, table, mark>>
  BY <1>1, <1>2, ReadType DEF Second, ReadAt
<1>4. Hex(input[pos]) \in -1 .. 15 /\ Hex(Percent) = -1
  BY <1>2, ReadType, HexType DEF Hex, Percent
<1> DEFINE m == Follow
           c == input[pos]
<1>5. ASSUME writable, written = ip - Pending
      PROVE  /\ written' = ip' - Pending'
             /\ at' = NextAt(m, c)
             /\ ip' + Half' - Pending' = m.ip + Counted(m, c)
             /\ toggle' = Turned(m, c) /\ lands' = Filled(m, c)
  <2> USE DEF Follow, NextAt, Counted, Turned, Filled, IsDigit, Second, ReadAt,
              Half, Pending, WriteN, file
  <2>1. CASE DispatchSecond
    BY <1>0, <1>4, <1>5, <2>1 DEF DispatchSecond, Enters
  <2>2. CASE BeginPointer
    <3>1. Enters(Percent) = "pointer"
      BY DEF Enters, Percent, Colon, IsComment
    <3>2. QED
      BY <1>0, <1>4, <1>5, <2>2, <3>1 DEF BeginPointer
  <2>3. CASE StorePointer
    BY <1>0, <1>4, <1>5, <2>3 DEF StorePointer
  <2>4. CASE DropName
    BY <1>0, <1>4, <1>5, <2>4 DEF DropName
  <2>5. CASE HoldDigit
    BY <1>0, <1>4, <1>5, <2>5 DEF HoldDigit
  <2>6. CASE PrintByte
    BY <1>0, <1>4, <1>5, <2>6 DEF PrintByte
  <2>7. CASE CommentSecond
    BY <1>0, <1>4, <1>5, <2>7 DEF CommentSecond
  <2>8. QED
    BY <2>1, <2>2, <2>3, <2>4, <2>5, <2>6, <2>7 DEF SecondActions
<1>6. ASSUME writable, written = ip - Pending
      PROVE  written' = ip' - Pending' /\ Follow' = After(Follow, input[pos])
  BY <1>5, <1>6 DEF Follow, After
<1>7. QED
  BY <1>3, <1>6 DEF SecondByte

-----------------------------------------------------------------------------
(* The inductive invariant, conjunct by conjunct. *)

(* The steps that read no byte of a running pass. *)
Quiet == LoseInput \/ LoseOutput \/ UNCHANGED vars

(* What those leave as it was: a loss is for ever. *)
Kept ==
  /\ UNCHANGED <<input, pass, at, pos, ip, toggle, accum, table, file, history>>
  /\ readable' => readable
  /\ writable' => writable

LEMMA QuietKeeps ==
  ASSUME Quiet
  PROVE  Kept
BY DEF Quiet, Kept, LoseInput, LoseOutput, vars, files

LEMMA StepCases ==
  ASSUME TypeOK, [Next]_vars
  PROVE  \/ Open \/ FirstByte \/ RewindInput \/ SecondByte
         \/ DanglingPointer \/ Finish \/ Kept
<1>1. FirstActions => FirstByte
  BY FirstPassByte
<1>2. SecondActions => SecondByte
  BY SecondPassByte
<1>3. Quiet => Kept
  BY QuietKeeps
<1>4. QED
  BY <1>1, <1>2, <1>3 DEF Next, Program, FirstActions, SecondActions, Quiet

LEMMA InitInv == Init => IInv
<1> SUFFICES ASSUME Init PROVE IInv
  OBVIOUS
<1>1. TypeOK
  BY InitType
<1>2. FirstWalk
  <2>1. Walked(pos - 2)
    BY DEF Init, Walked
  <2>2. QED
    BY <2>1 DEF Init, FirstWalk, Registers, Begin
<1>3. Rewalk /\ Lockstep /\ Hit /\ Landed
  BY DEF Init, Rewalk, Lockstep, Hit, Landed
<1>4. QED
  BY <1>1, <1>2, <1>3 DEF IInv

(* The walk the first pass has made is extended by one byte. *)
LEMMA WalkedOn ==
  ASSUME TypeOK, TypeOK', Len(mark) = pos - 1, mark' = Append(mark, Registers),
         input' = input,
         pos > 1 => mark[1] = Begin /\ Registers = After(mark[pos - 1], input[pos - 1]),
         pos = 1 => Registers = Begin, Walked(pos - 2)
  PROVE  /\ Len(mark') = pos /\ mark'[1] = Begin /\ mark'[pos] = Registers
         /\ \A i \in 1 .. pos - 1 : mark'[i + 1] = After(mark'[i], input'[i])
<1>0. /\ pos \in Nat \ {0} /\ mark \in Seq(Snapshot) /\ Registers \in Snapshot
  BY RegistersType DEF TypeOK
<1>1. /\ Len(mark') = pos /\ mark'[pos] = Registers
      /\ \A i \in 1 .. pos - 1 : mark'[i] = mark[i]
  BY <1>0
<1>2. mark'[1] = Begin
  BY <1>0, <1>1
<1>3. ASSUME NEW i \in 1 .. pos - 1
      PROVE  mark'[i + 1] = After(mark'[i], input[i])
  <2>1. CASE i = pos - 1
    <3>1. mark'[i] = mark[pos - 1] /\ i + 1 = pos /\ pos > 1
      BY <1>0, <1>1, <2>1
    <3>2. QED
      BY <1>1, <2>1, <3>1
  <2>2. CASE i # pos - 1
    <3>1. i \in 1 .. pos - 2 /\ i + 1 \in 1 .. pos - 1
      BY <1>0, <2>2
    <3>2. mark[i + 1] = After(mark[i], input[i])
      BY <3>1 DEF Walked
    <3>3. QED
      BY <1>1, <3>1, <3>2
  <2>3. QED
    BY <2>1, <2>2
<1>4. \A i \in 1 .. pos - 1 : mark'[i + 1] = After(mark'[i], input'[i])
  BY <1>3
<1>5. QED
  BY <1>1, <1>2, <1>4

LEMMA FirstWalkStep ==
  ASSUME TypeOK, TypeOK', FirstWalk, [Next]_vars
  PROVE  FirstWalk'
<1>0. pos \in Nat \ {0} /\ Len(input) \in Nat
  BY DEF TypeOK
<1>1. CASE Open
  <2>1. UNCHANGED <<mark, input, pos, Registers, written, rels, lands>>
    BY <1>1 DEF Open, Registers, file, history
  <2>2. pass = "start"
    BY <1>1 DEF Open
  <2>3. QED
    BY <2>1, <2>2 DEF FirstWalk, Walked
<1>2. CASE FirstByte
  <2>1. /\ Len(mark) = pos - 1 /\ Walked(pos - 2)
        /\ pos = 1 => Registers = Begin
        /\ pos > 1 => mark[1] = Begin
                       /\ Registers = After(mark[pos - 1], input[pos - 1])
        /\ written = 0 /\ rels = {} /\ lands = [c \in Byte |-> 0]
    BY <1>2 DEF FirstByte, FirstWalk
  <2>2. /\ Len(mark') = pos /\ mark'[1] = Begin /\ mark'[pos] = Registers
        /\ \A i \in 1 .. pos - 1 : mark'[i + 1] = After(mark'[i], input'[i])
    BY <1>2, <2>1, WalkedOn DEF FirstByte
  <2>3. pos' = pos + 1 /\ Registers' = After(Registers, input[pos])
        /\ input' = input /\ written' = written /\ rels' = rels /\ lands' = lands
    BY <1>2 DEF FirstByte, file
  <2>4. Registers' = After(mark'[pos' - 1], input'[pos' - 1])
    <3>1. pos' - 1 = pos
      BY <1>0, <2>3
    <3>2. QED
      BY <2>2, <2>3, <3>1
  <2>5. Walked(pos - 2)'
    BY <1>0, <2>2, <2>3 DEF Walked
  <2>6. QED
    BY <1>0, <2>1, <2>2, <2>3, <2>4, <2>5 DEF FirstWalk
<1>3. CASE Kept
  <2>1. UNCHANGED <<pass, mark, input, pos, Registers, written, rels, lands>>
    BY <1>3 DEF Kept, Registers, file, history
  <2>2. QED
    BY <2>1 DEF FirstWalk, Walked
<1>4. CASE RewindInput \/ SecondByte \/ DanglingPointer \/ Finish
  BY <1>4 DEF RewindInput, SecondByte, DanglingPointer, Finish, FirstWalk
<1>5. QED
  BY <1>1, <1>2, <1>3, <1>4, StepCases

LEMMA RewalkStep ==
  ASSUME TypeOK, TypeOK', FirstWalk, Rewalk, [Next]_vars
  PROVE  Rewalk'
<1>0. pos \in Nat \ {0} /\ Len(input) \in Nat
  BY DEF TypeOK
<1>1. CASE RewindInput
  <2> SUFFICES ASSUME readable' PROVE Rewalk'
    BY DEF Rewalk
  <2>1. /\ pass = "first" /\ input' = input /\ mark' = Append(mark, Registers)
        /\ readable /\ table' = table /\ AtEnd
    BY <1>1 DEF RewindInput, files
  <2>2. pos = Len(input) + 1
    BY <1>0, <2>1 DEF AtEnd, TypeOK
  <2>3. /\ Len(mark') = pos /\ mark'[1] = Begin /\ mark'[pos] = Registers
        /\ \A i \in 1 .. pos - 1 : mark'[i + 1] = After(mark'[i], input'[i])
    BY <2>1, WalkedOn DEF FirstWalk
  <2>4. mark'[pos].table = table
    BY <2>3 DEF Registers
  <2>5. \A i \in 1 .. Len(input') : mark'[i + 1] = After(mark'[i], input'[i])
    BY <1>0, <2>1, <2>2, <2>3
  <2>6. QED
    BY <2>1, <2>2, <2>3, <2>4, <2>5 DEF Rewalk, Walked
<1>2. CASE SecondByte
  BY <1>2 DEF SecondByte, Rewalk, Walked, files
<1>3. CASE DanglingPointer
  BY <1>3 DEF DanglingPointer, Rewalk, Walked, files, history
<1>4. CASE Kept
  BY <1>4 DEF Kept, Rewalk, Walked, file, history
<1>5. CASE Open \/ FirstByte \/ Finish
  BY <1>5 DEF Open, FirstByte, Finish, Rewalk
<1>6. QED
  BY <1>1, <1>2, <1>3, <1>4, <1>5, StepCases

LEMMA LockstepStep ==
  ASSUME TypeOK, TypeOK', FirstWalk, Rewalk, Lockstep, [Next]_vars
  PROVE  Lockstep'
<1>0. pos \in Nat \ {0} /\ Len(input) \in Nat
  BY DEF TypeOK
<1>1. CASE RewindInput
  <2> SUFFICES ASSUME readable' PROVE Lockstep'
    BY DEF Lockstep
  <2>1. /\ pass = "first" /\ pass' = "second" /\ pos' = 1 /\ at' = "loop"
        /\ ip' = 0 /\ toggle' = -1 /\ written' = written /\ lands' = lands
    BY <1>1 DEF RewindInput, file
  <2>2. written' = 0 /\ lands' = [c \in Byte |-> 0]
    BY <2>1 DEF FirstWalk
  <2>3. mark'[1] = Begin
    BY <2>1, RewalkStep DEF Rewalk
  <2>4. Follow' = Begin
    BY <2>1, <2>2 DEF Follow, Begin, Half, Pending
  <2>5. written' = ip' - Pending'
    BY <2>1, <2>2 DEF Pending
  <2>6. lands' = mark'[pos'].table
    BY <2>1, <2>2, <2>3 DEF Begin
  <2>7. QED
    BY <2>1, <2>3, <2>4, <2>5, <2>6 DEF Lockstep
<1>2. CASE SecondByte
  <2> SUFFICES ASSUME readable', writable' PROVE Lockstep'
    BY DEF Lockstep
  <2>1. /\ pass = "second" /\ readable /\ writable
        /\ pos \in 1 .. Len(input) /\ pos' = pos + 1
        /\ input' = input /\ mark' = mark
    BY <1>2 DEF SecondByte, files
  <2>2. written = ip - Pending /\ Follow = mark[pos]
    BY <1>0, <2>1 DEF Lockstep
  <2>3. written' = ip' - Pending' /\ Follow' = After(Follow, input[pos])
    BY <1>2, <2>1, <2>2 DEF SecondByte
  <2>4. mark[pos + 1] = After(mark[pos], input[pos])
    BY <2>1 DEF Rewalk, Walked
  <2>5. Follow' = mark'[pos']
    BY <2>1, <2>2, <2>3, <2>4
  <2>6. lands' = Follow'.table
    BY DEF Follow
  <2>7. QED
    BY <2>3, <2>5, <2>6 DEF Lockstep
<1>3. CASE DanglingPointer
  <2> SUFFICES ASSUME readable', writable' PROVE Lockstep'
    BY DEF Lockstep
  <2>1. /\ pass = "second" /\ readable /\ writable /\ at = "pointer"
        /\ at' = "loop" /\ AtEnd /\ written' = written + 4
        /\ UNCHANGED <<input, mark, pos, ip, lands>>
    BY <1>3 DEF DanglingPointer, WriteN, files, history
  <2>2. pos > Len(input)
    BY <2>1 DEF AtEnd
  <2>3. written' = ip' - Pending'
    BY <2>1 DEF Lockstep, Pending, TypeOK
  <2>4. ~(pos' <= Len(input'))
    BY <1>0, <2>1, <2>2
  <2>5. lands' = mark'[pos'].table
    BY <2>1 DEF Lockstep
  <2>6. QED
    BY <2>3, <2>4, <2>5 DEF Lockstep
<1>4. CASE Kept
  <2>1. UNCHANGED <<pass, pos, input, written, ip, lands, mark, Pending, Follow>>
    BY <1>4 DEF Kept, Pending, Follow, Half, file, history
  <2>2. (readable' => readable) /\ (writable' => writable)
    BY <1>4 DEF Kept
  <2>3. QED
    BY <2>1, <2>2 DEF Lockstep
<1>5. CASE Open \/ FirstByte \/ Finish
  BY <1>5 DEF Open, FirstByte, Finish, Lockstep
<1>6. QED
  BY <1>1, <1>2, <1>3, <1>4, <1>5, StepCases

(* A pointer is measured from ip, which is then the end of the file. *)
LEMMA HitStep ==
  ASSUME TypeOK, FirstWalk, Lockstep, Hit, [Next]_vars
  PROVE  Hit'
<1>1. CASE StorePointer
  <2>1. ReadAt("second", "pointer") /\ table' = table
    BY <1>1 DEF StorePointer, Second
  <2>2. /\ readable /\ pass = "second" /\ at = "pointer" /\ input[pos] \in Byte
    BY <2>1, ReadType
  <2>3. CASE writable
    <3> DEFINE r == [name |-> input[pos], d |-> table[input[pos]] - ip,
                     end |-> written + 4]
    <3>1. written + 4 = ip
      BY <2>2, <2>3 DEF Lockstep, Pending, TypeOK
    <3>2. table[input[pos]] \in Nat /\ ip \in Nat
      BY <2>2 DEF TypeOK
    <3>3. r.end + r.d = table[r.name]
      BY <3>1, <3>2
    <3>4. rels' = rels \cup {r}
      BY <1>1, <2>3 DEF StorePointer
    <3>5. QED
      BY <2>1, <3>3, <3>4 DEF Hit
  <2>4. CASE ~writable
    BY <1>1, <2>1, <2>4 DEF StorePointer, Hit
  <2>5. QED
    BY <2>3, <2>4
<1>2. CASE pass \in {"start", "first"}
  <2>1. rels = {}
    BY <1>2 DEF FirstWalk
  <2>2. rels' = rels \/ pass = "second"
    BY DEF Next, Program, Open, Dispatch, CountDigit, StoreLabel, CountPointer,
           CommentFirst, RewindInput, DispatchSecond, BeginPointer,
           StorePointer, DanglingPointer, DropName, HoldDigit, PrintByte,
           CommentSecond, Finish, LoseInput, LoseOutput, First, Second,
           ReadAt, file, vars
  <2>3. QED
    BY <1>2, <2>1, <2>2 DEF Hit
<1>3. CASE ~StorePointer /\ pass \notin {"start", "first"}
  <2>1. rels' = rels /\ table' = table
    BY <1>3 DEF Next, Program, Open, Dispatch, CountDigit, StoreLabel,
           CountPointer, CommentFirst, RewindInput, DispatchSecond,
           BeginPointer, DanglingPointer, DropName, HoldDigit, PrintByte,
           CommentSecond, Finish, LoseInput, LoseOutput, First, Second,
           ReadAt, file, vars
  <2>2. QED
    BY <2>1 DEF Hit
<1>4. QED
  BY <1>1, <1>2, <1>3

LEMMA LandedStep ==
  ASSUME TypeOK, Rewalk, Lockstep, Landed, [Next]_vars
  PROVE  Landed'
<1>1. CASE Finish
  <2> SUFFICES ASSUME readable', writable' PROVE lands' = table'
    BY DEF Landed
  <2>1. /\ pass = "second" /\ readable /\ writable /\ AtEnd
        /\ lands' = lands /\ table' = table
    BY <1>1 DEF Finish, files, history
  <2>2. pos = Len(input) + 1
    BY <2>1 DEF AtEnd, TypeOK
  <2>3. lands = mark[pos].table /\ table = mark[Len(input) + 1].table
    BY <2>1 DEF Lockstep, Rewalk
  <2>4. QED
    BY <2>1, <2>2, <2>3
<1>2. CASE Kept
  BY <1>2 DEF Kept, Landed, file, history
<1>3. CASE Open \/ FirstByte \/ RewindInput \/ SecondByte \/ DanglingPointer
  BY <1>3 DEF Open, FirstByte, RewindInput, SecondByte, DanglingPointer, Landed
<1>4. QED
  BY <1>1, <1>2, <1>3, StepCases

LEMMA NextInv == IInv /\ [Next]_vars => IInv'
BY NextType, FirstWalkStep, RewalkStep, LockstepStep, HitStep, LandedStep
   DEF IInv

THEOREM Inductive == Spec => []IInv
BY InitInv, NextInv, PTL DEF Spec

(* Whatever the input, every pointer hex1 has written leads to where the   *)
(* second pass came to its label: the two passes count the same positions. *)
THEOREM PointersAreRight == Spec => []PointersHit
<1>1. IInv => PointersHit
  BY DEF IInv, Hit, Landed, PointersHit
<1>2. QED
  BY <1>1, Inductive, PTL

(* No matter what is lost, a pointer in the file is measured from the      *)
(* place it ends at.                                                       *)
THEOREM PointersAreMeasured == Spec => []Hit
<1>1. IInv => Hit
  BY DEF IInv
<1>2. QED
  BY <1>1, Inductive, PTL

-----------------------------------------------------------------------------
(* The simulators' folds, unfolded. *)

(* assemble_hex1's loop body, as Walk folds it. *)
Move(emit, tab, s, c) ==
  IF s.name # 0 THEN Named(s, c, emit, tab)
  ELSE IF ~s.comment /\ c \in {58, 37} THEN [s EXCEPT !.name = c]
  ELSE Common(s, c)

(* One character for either simulator, and the whole source. *)
Reads(lang, emit, tab, s, c) ==
  IF lang = "hex0" THEN Common(s, c) ELSE Move(emit, tab, s, c)

Assembles(lang, emit, tab, src) ==
  IF lang = "hex0" THEN FoldLeft(Common, Start, src) ELSE Walk(emit, tab, src)

(* The state after each character of the source. *)
Runs(lang, emit, tab, src) ==
  CHOOSE r : /\ r[0] = Start
             /\ \A i \in 1 .. Len(src) :
                  r[i] = Reads(lang, emit, tab, r[i - 1], src[i])
             /\ r[Len(src)] = Assembles(lang, emit, tab, src)

(* What the fold is defined by: a value for every set of positions. *)
FoldsOver(lang, emit, tab, src, n, g) ==
  g = [s \in SUBSET (1 .. n) |->
         IF s = {} THEN Start
         ELSE Reads(lang, emit, tab, g[s \ {Max(s)}], src[Max(s)])]

(* A set of numbers that has one has a least. *)
LEMMA LeastOf ==
  ASSUME NEW S \in SUBSET Nat, S # {}
  PROVE  \E k \in S : \A j \in S : k <= j
<1>1. \E k \in S : \A j \in S : ~(<<j, k>> \in OpToRel(<, Nat))
  BY NatLessThanWellFounded, WFMin
<1>2. \A j, k \in Nat : <<j, k>> \in OpToRel(<, Nat) <=> j < k
  BY DEF OpToRel
<1>3. PICK k \in S : \A j \in S : ~(<<j, k>> \in OpToRel(<, Nat))
  BY <1>1
<1>4. ASSUME NEW j \in S PROVE k <= j
  <2>1. ~(j < k)
    BY <1>2, <1>3
  <2>2. QED
    BY <2>1
<1>5. QED
  BY <1>4

(* A set of positions that has one has a last. *)
LEMMA LastOf ==
  ASSUME NEW n \in Nat, NEW S \in SUBSET (1 .. n), S # {}
  PROVE  Max(S) \in S /\ \A j \in S : Max(S) >= j
<1> DEFINE Below == {n - j : j \in S}
<1>0. \A j \in S : j \in 1 .. n
  OBVIOUS
<1>1. Below \in SUBSET Nat /\ Below # {}
  <2>1. \A j \in S : n - j \in Nat
    BY <1>0
  <2>2. QED
    BY <2>1
<1>2. PICK m \in Below : \A j \in Below : m <= j
  <2> HIDE DEF Below
  <2>1. QED
    BY <1>1, LeastOf
<1>3. PICK k \in S : m = n - k
  OBVIOUS
<1>4. ASSUME NEW j \in S PROVE k >= j
  <2>1. n - k <= n - j
    BY <1>2, <1>3
  <2>2. QED
    BY <1>0, <2>1
<1>5. \E k1 \in S : \A j \in S : k1 >= j
  BY <1>4
<1>6. QED
  BY <1>5 DEF Max

(* The fold's definition has a solution, for a source of any length.       *)
LEMMA FoldExists ==
  ASSUME NEW lang, NEW emit, NEW tab, NEW src, NEW n \in Nat
  PROVE  \E g : FoldsOver(lang, emit, tab, src, n, g)
<1> DEFINE Op(s, i) == Reads(lang, emit, tab, s, src[i])
           Bad == {k \in Nat : ~ \E g : FoldsOver(lang, emit, tab, src, k, g)}
<1>1. SUFFICES Bad = {}
  OBVIOUS
<1>2. SUFFICES ASSUME Bad # {} PROVE FALSE
  OBVIOUS
<1>3. PICK k \in Bad : \A j \in Bad : k <= j
  <2>1. Bad \in SUBSET Nat
    OBVIOUS
  <2> HIDE DEF Bad
  <2>2. QED
    BY <1>2, <2>1, LeastOf
<1>4. k \in Nat /\ ~ \E g : FoldsOver(lang, emit, tab, src, k, g)
  OBVIOUS
<1>5. k # 0
  <2> DEFINE g == [s \in SUBSET (1 .. 0) |-> Start]
  <2>1. \A s \in SUBSET (1 .. 0) : s = {}
    OBVIOUS
  <2>2. FoldsOver(lang, emit, tab, src, 0, g)
    BY <2>1 DEF FoldsOver
  <2>3. QED
    BY <1>4, <2>2
<1>6. k - 1 \in Nat /\ k - 1 \notin Bad
  BY <1>3, <1>4, <1>5
<1>7. PICK h : FoldsOver(lang, emit, tab, src, k - 1, h)
  BY <1>6
<1> DEFINE g == [s \in SUBSET (1 .. k) |->
                   IF k \in s THEN Op(h[s \ {k}], k) ELSE h[s]]
<1>8. ASSUME NEW s \in SUBSET (1 .. k)
      PROVE  g[s] = IF s = {} THEN Start ELSE Op(g[s \ {Max(s)}], Max(s))
  <2> HIDE DEF Bad
  <2>1. CASE k \in s
    <3>1. Max(s) \in s /\ Max(s) >= k
      BY <1>4, <2>1, LastOf
    <3>2. Max(s) = k
      <4>1. Max(s) \in 1 .. k
        BY <3>1
      <4>2. QED
        BY <1>4, <3>1, <4>1
    <3>3. s \ {k} \in SUBSET (1 .. k) /\ k \notin s \ {k}
      OBVIOUS
    <3>4. g[s \ {k}] = h[s \ {k}]
      BY <3>3
    <3>5. g[s] = Op(h[s \ {k}], k)
      BY <2>1
    <3> HIDE DEF g, Op
    <3>6. QED
      BY <2>1, <3>2, <3>4, <3>5
  <2>2. CASE k \notin s /\ s # {}
    <3>1. s \in SUBSET (1 .. k - 1)
      BY <1>4, <2>2
    <3>2. Max(s) \in s
      BY <1>6, <2>2, <3>1, LastOf
    <3>3. s \ {Max(s)} \in SUBSET (1 .. k - 1) /\ k \notin s \ {Max(s)}
          /\ s \ {Max(s)} \in SUBSET (1 .. k)
      BY <2>2, <3>1
    <3>4. h[s] = Op(h[s \ {Max(s)}], Max(s))
      BY <1>7, <2>2, <3>1 DEF FoldsOver
    <3>5. g[s] = h[s] /\ g[s \ {Max(s)}] = h[s \ {Max(s)}]
      BY <2>2, <3>3
    <3> HIDE DEF g, Op
    <3>6. QED
      BY <2>2, <3>4, <3>5
  <2>3. CASE k \notin s /\ s = {}
    <3>1. s \in SUBSET (1 .. k - 1)
      BY <2>3
    <3>2. h[s] = Start
      BY <1>7, <2>3, <3>1 DEF FoldsOver
    <3>3. QED
      BY <2>3, <3>2
  <2>4. QED
    BY <2>1, <2>2, <2>3
<1>9. g = [s \in SUBSET (1 .. k) |->
             IF s = {} THEN Start ELSE Op(g[s \ {Max(s)}], Max(s))]
  <2>1. g = [s \in SUBSET (1 .. k) |-> g[s]]
    OBVIOUS
  <2> HIDE DEF g, Op
  <2>2. QED
    BY <1>8, <2>1
<1>10. FoldsOver(lang, emit, tab, src, k, g)
  BY <1>9 DEF FoldsOver
<1>11. QED
  BY <1>4, <1>10

(* The simulators are their loop bodies, one character after another.      *)
LEMMA RunsOn ==
  ASSUME NEW lang, NEW emit, NEW tab, NEW src, Len(src) \in Nat,
         DOMAIN src = 1 .. Len(src)
  PROVE  LET r == Runs(lang, emit, tab, src)
         IN  /\ r[0] = Start
             /\ \A i \in 1 .. Len(src) :
                  r[i] = Reads(lang, emit, tab, r[i - 1], src[i])
             /\ r[Len(src)] = Assembles(lang, emit, tab, src)
<1> DEFINE n == Len(src)
           f == CHOOSE g : FoldsOver(lang, emit, tab, src, n, g)
           r == [i \in 0 .. n |-> f[1 .. i]]
<1>1. FoldsOver(lang, emit, tab, src, n, f)
  BY FoldExists
<1>2. Assembles(lang, emit, tab, src) = f[1 .. n]
  <2>1. CASE lang = "hex0"
    BY <2>1 DEF Assembles, FoldsOver, Reads, FoldLeft, MapThenFoldSet
  <2>2. CASE lang # "hex0"
    BY <2>2 DEF Assembles, FoldsOver, Reads, Walk, Move, FoldLeft, MapThenFoldSet
  <2>3. QED
    BY <2>1, <2>2
<1> HIDE DEF f
<1>3. r[0] = Start
  <2>1. 1 .. 0 = {} /\ 1 .. 0 \in SUBSET (1 .. n)
    OBVIOUS
  <2>2. f[1 .. 0] = Start
    BY <1>1, <2>1 DEF FoldsOver
  <2>3. QED
    BY <2>2
<1>4. ASSUME NEW i \in 1 .. n
      PROVE  r[i] = Reads(lang, emit, tab, r[i - 1], src[i])
  <2>0. n \in Nat /\ i \in Nat /\ 1 <= i /\ i <= n
    OBVIOUS
  <2>1. 1 .. i \in SUBSET (1 .. n) /\ i \in 1 .. i /\ 1 .. i # {}
    <3>1. \A j \in 1 .. i : j \in 1 .. n
      BY <2>0
    <3>2. i \in 1 .. i
      BY <2>0
    <3>3. QED
      BY <3>1, <3>2
  <2>2. Max(1 .. i) \in 1 .. i /\ Max(1 .. i) >= i
    BY <2>1, LastOf
  <2>3. Max(1 .. i) = i
    BY <2>2
  <2>4. (1 .. i) \ {i} = 1 .. i - 1
    OBVIOUS
  <2>5. f[1 .. i] = Reads(lang, emit, tab, f[(1 .. i) \ {Max(1 .. i)}], src[Max(1 .. i)])
    BY <1>1, <2>1 DEF FoldsOver
  <2>6. f[1 .. i] = Reads(lang, emit, tab, f[1 .. i - 1], src[i])
    BY <2>3, <2>4, <2>5
  <2>7. r[i] = f[1 .. i] /\ r[i - 1] = f[1 .. i - 1]
    OBVIOUS
  <2>8. QED
    BY <2>6, <2>7
<1>5. r[n] = f[1 .. n]
  OBVIOUS
<1> HIDE DEF r
<1>6. \E q : /\ q[0] = Start
             /\ \A i \in 1 .. Len(src) :
                  q[i] = Reads(lang, emit, tab, q[i - 1], src[i])
             /\ q[Len(src)] = Assembles(lang, emit, tab, src)
  BY <1>2, <1>3, <1>4, <1>5
<1>7. QED
  BY <1>6 DEF Runs

-----------------------------------------------------------------------------
(* What one character does to a simulator's state. *)

Writes == {1, 4} \X Int

Tables == UNION {[D -> Int] : D \in SUBSET Byte}

State == [comment : BOOLEAN, name : {0, 37, 58}, ip : Nat, hi : -1 .. 15,
          o : Seq(Writes), table : Tables]

(* The 22 characters are the digits the programs know, with their values.  *)
LEMMA DigitsAgree ==
  ASSUME NEW c \in Byte
  PROVE  /\ DigitAt(c) # 0 <=> Hex(c) >= 0
         /\ Hex(c) >= 0 => Value(c) = Hex(c)
<1> DEFINE At(i) == IF i <= 10 THEN 47 + i ELSE IF i <= 16 THEN 86 + i ELSE 48 + i
           I == {i \in 1 .. Len(Digits) : Digits[i] = c}
<1>1. Len(Digits) = 22
  BY DEF Digits
<1>2. \A i \in 1 .. 22 : Digits[i] = At(i)
  <2>1. ASSUME NEW i \in 1 .. 10 PROVE Digits[i] = 47 + i
    BY DEF Digits
  <2>2. ASSUME NEW i \in 11 .. 16 PROVE Digits[i] = 86 + i
    BY DEF Digits
  <2>3. ASSUME NEW i \in 17 .. 22 PROVE Digits[i] = 48 + i
    BY DEF Digits
  <2>4. QED
    BY <2>1, <2>2, <2>3
<1>3. I = {i \in 1 .. 22 : At(i) = c}
  BY <1>1, <1>2
<1>4. DigitAt(c) = IF I # {} THEN Min(I) ELSE 0
  BY DEF DigitAt, SelectInSeq
<1>5. c \in 0 .. 255
  BY InputAssumption
<1>6. ASSUME NEW x \in 1 .. 22, I = {x}
      PROVE  DigitAt(c) = x
  <2>1. Min({x}) = x
    BY DEF Min
  <2>2. QED
    BY <1>4, <1>6, <2>1
<1>7. CASE c \in 48 .. 57
  <2>0. \A i \in 1 .. 22 : At(i) = c <=> i = c - 47
    BY <1>7
  <2>01. c - 47 \in 1 .. 22
    BY <1>7
  <2>1. I = {c - 47} /\ c - 47 \in 1 .. 22
    <3> HIDE DEF I, At
    <3>1. QED
      BY <1>3, <2>0, <2>01
  <2>2. DigitAt(c) = c - 47
    BY <1>6, <2>1
  <2>3. QED
    BY <1>7, <2>2 DEF Value, Hex
<1>8. CASE c \in 97 .. 102
  <2>0. \A i \in 1 .. 22 : At(i) = c <=> i = c - 86
    BY <1>8
  <2>01. c - 86 \in 1 .. 22
    BY <1>8
  <2>1. I = {c - 86} /\ c - 86 \in 1 .. 22
    <3> HIDE DEF I, At
    <3>1. QED
      BY <1>3, <2>0, <2>01
  <2>2. DigitAt(c) = c - 86
    BY <1>6, <2>1
  <2>3. QED
    BY <1>8, <2>2 DEF Value, Hex
<1>9. CASE c \in 65 .. 70
  <2>0. \A i \in 1 .. 22 : At(i) = c <=> i = c - 48
    BY <1>9
  <2>01. c - 48 \in 1 .. 22
    BY <1>9
  <2>1. I = {c - 48} /\ c - 48 \in 1 .. 22
    <3> HIDE DEF I, At
    <3>1. QED
      BY <1>3, <2>0, <2>01
  <2>2. DigitAt(c) = c - 48
    BY <1>6, <2>1
  <2>3. QED
    BY <1>9, <2>2 DEF Value, Hex
<1>10. CASE c \notin 48 .. 57 \cup 97 .. 102 \cup 65 .. 70
  <2>0. \A i \in 1 .. 22 : At(i) # c
    BY <1>5, <1>10
  <2>1. I = {}
    BY <1>3, <2>0
  <2>2. Hex(c) = -1
    BY <1>5, <1>10 DEF Hex
  <2>3. QED
    BY <1>4, <2>1, <2>2
<1>11. QED
  BY <1>7, <1>8, <1>9, <1>10

(* Comments and digits: what Common does, in the programs' terms. *)
CommonDoes(s, c, t) ==
  LET digit == ~s.comment /\ Hex(c) >= 0
  IN  /\ t.comment <=> IF s.comment THEN c # Newline ELSE IsComment(c)
      /\ t.name = s.name /\ t.table = s.table
      /\ t.hi = IF ~digit THEN s.hi ELSE IF s.hi = -1 THEN Hex(c) ELSE -1
      /\ t.ip = IF digit /\ s.hi # -1 THEN s.ip + 1 ELSE s.ip
      /\ t.o = IF digit /\ s.hi # -1 THEN Append(s.o, <<1, 16 * s.hi + Hex(c)>>)
                                     ELSE s.o

(* A state with some of its fields changed. *)
LEMMA CommentUpdate ==
  ASSUME NEW s \in State, NEW x \in BOOLEAN
  PROVE  LET t == [s EXCEPT !.comment = x]
         IN  /\ t \in State /\ (t.comment <=> x) /\ t.name = s.name
             /\ t.ip = s.ip /\ t.hi = s.hi /\ t.o = s.o /\ t.table = s.table
BY DEF State

LEMMA NameUpdate ==
  ASSUME NEW s \in State, NEW x \in {0, 37, 58}
  PROVE  LET t == [s EXCEPT !.name = x]
         IN  /\ t \in State /\ (t.comment <=> s.comment) /\ t.name = x
             /\ t.ip = s.ip /\ t.hi = s.hi /\ t.o = s.o /\ t.table = s.table
BY DEF State

WithName(s, x) == [s EXCEPT !.name = x]

LEMMA SigilUpdate ==
  ASSUME NEW s \in State, NEW x \in {0, 37, 58}
  PROVE  LET t == WithName(s, x)
         IN  /\ t \in State /\ (t.comment <=> s.comment) /\ t.name = x
             /\ t.ip = s.ip /\ t.hi = s.hi /\ t.o = s.o /\ t.table = s.table
BY NameUpdate DEF WithName

LEMMA DigitUpdate ==
  ASSUME NEW s \in State, NEW x \in -1 .. 15
  PROVE  LET t == [s EXCEPT !.hi = x]
         IN  /\ t \in State /\ (t.comment <=> s.comment) /\ t.name = s.name
             /\ t.ip = s.ip /\ t.hi = x /\ t.o = s.o /\ t.table = s.table
BY DEF State

LEMMA PlaceUpdate ==
  ASSUME NEW s \in State, NEW x \in Nat
  PROVE  LET t == [s EXCEPT !.ip = x]
         IN  /\ t \in State /\ (t.comment <=> s.comment) /\ t.name = s.name
             /\ t.ip = x /\ t.hi = s.hi /\ t.o = s.o /\ t.table = s.table
BY DEF State

LEMMA BytesUpdate ==
  ASSUME NEW s \in State, NEW x \in Seq(Writes)
  PROVE  LET t == [s EXCEPT !.o = x]
         IN  /\ t \in State /\ (t.comment <=> s.comment) /\ t.name = s.name
             /\ t.ip = s.ip /\ t.hi = s.hi /\ t.o = x /\ t.table = s.table
BY DEF State

LEMMA TableUpdate ==
  ASSUME NEW s \in State, NEW x \in Tables
  PROVE  LET t == [s EXCEPT !.table = x]
         IN  /\ t \in State /\ (t.comment <=> s.comment) /\ t.name = s.name
             /\ t.ip = s.ip /\ t.hi = s.hi /\ t.o = s.o /\ t.table = x
BY DEF State

WithByte(s, bytes, place) == [s EXCEPT !.o = bytes, !.ip = place, !.hi = -1]
WithPointer(s, bytes, place) == [s EXCEPT !.name = 0, !.ip = place, !.o = bytes]
WithLabels(s, labels) == [s EXCEPT !.name = 0, !.table = labels]

LEMMA ByteUpdate ==
  ASSUME NEW s \in State, NEW bytes \in Seq(Writes), NEW place \in Nat
  PROVE  LET t == WithByte(s, bytes, place)
         IN  /\ t \in State /\ (t.comment <=> s.comment) /\ t.name = s.name
             /\ t.ip = place /\ t.hi = -1 /\ t.o = bytes /\ t.table = s.table
<1> DEFINE t1 == [s EXCEPT !.o = bytes]
           t2 == [t1 EXCEPT !.ip = place]
           t3 == [t2 EXCEPT !.hi = -1]
<1>1. /\ t1 \in State /\ (t1.comment <=> s.comment) /\ t1.name = s.name
      /\ t1.o = bytes /\ t1.table = s.table
  BY BytesUpdate
<1> HIDE DEF t1
<1>2. /\ t2 \in State /\ (t2.comment <=> s.comment) /\ t2.name = s.name
      /\ t2.ip = place /\ t2.o = bytes /\ t2.table = s.table
  BY <1>1, PlaceUpdate
<1> HIDE DEF t2
<1>3. -1 \in -1 .. 15
  OBVIOUS
<1>4. /\ t3 \in State /\ (t3.comment <=> s.comment) /\ t3.name = s.name
      /\ t3.ip = place /\ t3.hi = -1 /\ t3.o = bytes /\ t3.table = s.table
  BY <1>2, <1>3, DigitUpdate
<1>5. t3 = WithByte(s, bytes, place)
  BY DEF t1, t2, WithByte
<1> HIDE DEF t3
<1>6. QED
  BY <1>4, <1>5

LEMMA PointerUpdate ==
  ASSUME NEW s \in State, NEW bytes \in Seq(Writes), NEW place \in Nat
  PROVE  LET t == WithPointer(s, bytes, place)
         IN  /\ t \in State /\ (t.comment <=> s.comment) /\ t.name = 0
             /\ t.ip = place /\ t.hi = s.hi /\ t.o = bytes /\ t.table = s.table
<1> DEFINE t1 == [s EXCEPT !.name = 0]
           t2 == [t1 EXCEPT !.ip = place]
           t3 == [t2 EXCEPT !.o = bytes]
<1>1. /\ t1 \in State /\ (t1.comment <=> s.comment) /\ t1.name = 0
      /\ t1.hi = s.hi /\ t1.table = s.table
  BY NameUpdate
<1> HIDE DEF t1
<1>2. /\ t2 \in State /\ (t2.comment <=> s.comment) /\ t2.name = 0
      /\ t2.ip = place /\ t2.hi = s.hi /\ t2.table = s.table
  BY <1>1, PlaceUpdate
<1> HIDE DEF t2
<1>3. /\ t3 \in State /\ (t3.comment <=> s.comment) /\ t3.name = 0
      /\ t3.ip = place /\ t3.hi = s.hi /\ t3.o = bytes /\ t3.table = s.table
  BY <1>2, BytesUpdate
<1>4. t3 = WithPointer(s, bytes, place)
  BY DEF t1, t2, WithPointer
<1> HIDE DEF t3
<1>5. QED
  BY <1>3, <1>4

LEMMA LabelUpdate ==
  ASSUME NEW s \in State, NEW labels \in Tables
  PROVE  LET t == WithLabels(s, labels)
         IN  /\ t \in State /\ (t.comment <=> s.comment) /\ t.name = 0
             /\ t.ip = s.ip /\ t.hi = s.hi /\ t.o = s.o /\ t.table = labels
<1> DEFINE t1 == [s EXCEPT !.name = 0]
           t2 == [t1 EXCEPT !.table = labels]
<1>1. /\ t1 \in State /\ (t1.comment <=> s.comment) /\ t1.name = 0
      /\ t1.ip = s.ip /\ t1.hi = s.hi /\ t1.o = s.o
  BY NameUpdate
<1> HIDE DEF t1
<1>2. /\ t2 \in State /\ (t2.comment <=> s.comment) /\ t2.name = 0
      /\ t2.ip = s.ip /\ t2.hi = s.hi /\ t2.o = s.o /\ t2.table = labels
  BY <1>1, TableUpdate
<1>3. t2 = WithLabels(s, labels)
  BY DEF t1, WithLabels
<1> HIDE DEF t2
<1>4. QED
  BY <1>2, <1>3

LEMMA CommonEffect ==
  ASSUME NEW s \in State, NEW c \in Byte
  PROVE  Common(s, c) \in State /\ CommonDoes(s, c, Common(s, c))
<1>1. Hex(c) \in -1 .. 15 /\ c \in 0 .. 255
  BY HexType, InputAssumption
<1>2. IsComment(c) <=> c \in {35, 59}
  BY DEF IsComment
<1>3. IsComment(c) => Hex(c) = -1
  BY DEF IsComment, Hex
<1>4. DigitAt(c) # 0 <=> Hex(c) >= 0
  BY DigitsAgree
<1>5. CASE s.comment
  <2>1. Common(s, c) = [s EXCEPT !.comment = c # 10]
    BY <1>5 DEF Common
  <2>2. QED
    BY <1>5, <2>1, CommentUpdate DEF CommonDoes, Newline
<1>6. CASE ~s.comment /\ IsComment(c)
  <2>1. Common(s, c) = [s EXCEPT !.comment = TRUE]
    BY <1>2, <1>6 DEF Common
  <2>2. QED
    <3>1. TRUE \in BOOLEAN
      OBVIOUS
    <3>2. LET t == Common(s, c)
          IN  /\ t \in State /\ t.comment /\ t.name = s.name
              /\ t.ip = s.ip /\ t.hi = s.hi /\ t.o = s.o /\ t.table = s.table
      BY <2>1, <3>1, CommentUpdate
    <3>3. QED
      BY <1>3, <1>6, <3>2 DEF CommonDoes
<1>7. CASE ~s.comment /\ Hex(c) >= 0
  <2>1. Value(c) = Hex(c) /\ Hex(c) \in 0 .. 15
    BY <1>1, <1>7, DigitsAgree
  <2>2. Common(s, c) = Nibble(s, Hex(c)) /\ ~IsComment(c)
    BY <1>2, <1>3, <1>4, <1>7, <2>1 DEF Common
  <2>3. CASE s.hi = -1
    <3>1. Common(s, c) = [s EXCEPT !.hi = Hex(c)]
      BY <2>2, <2>3 DEF Nibble
    <3>2. QED
      BY <1>7, <2>1, <2>2, <2>3, <3>1 DEF State, CommonDoes
  <2>4. CASE s.hi # -1
    <3> DEFINE w == <<1, 16 * s.hi + Hex(c)>>
    <3> DEFINE bytes == Append(s.o, w)
               place == s.ip + 1
    <3>1. Common(s, c) = WithByte(s, bytes, place)
      BY <2>2, <2>4 DEF Nibble, WithByte
    <3>2. s.hi \in Int /\ s.ip \in Nat /\ s.o \in Seq(Writes)
      BY DEF State
    <3>3. w \in Writes
      BY <2>1, <3>2 DEF Writes
    <3>4. bytes \in Seq(Writes) /\ place \in Nat
      BY <3>2, <3>3
    <3> HIDE DEF w, bytes, place
    <3>5. LET t == Common(s, c)
          IN  /\ t \in State /\ (t.comment <=> s.comment) /\ t.name = s.name
              /\ t.ip = place /\ t.hi = -1 /\ t.o = bytes /\ t.table = s.table
      BY <3>1, <3>4, ByteUpdate
    <3>6. QED
      BY <1>7, <2>2, <2>4, <3>5 DEF CommonDoes, w, bytes, place
  <2>5. QED
    BY <2>3, <2>4
<1>8. CASE ~s.comment /\ ~IsComment(c) /\ ~(Hex(c) >= 0)
  <2>1. Common(s, c) = s
    BY <1>2, <1>4, <1>8 DEF Common
  <2>2. QED
    BY <1>8, <2>1 DEF State, CommonDoes
<1>9. QED
  BY <1>5, <1>6, <1>7, <1>8

(* What the rest of assemble_hex1 does: sigils and the names after them.   *)
MoveDoes(emit, tab, s, c, t) ==
  /\ s.name = 0 /\ ~s.comment /\ c \in {58, 37} =>
       /\ (t.comment <=> s.comment) /\ t.name = c
       /\ t.ip = s.ip /\ t.hi = s.hi /\ t.o = s.o /\ t.table = s.table
  /\ s.name = 0 /\ (s.comment \/ c \notin {58, 37}) => CommonDoes(s, c, t)
  /\ s.name = 58 =>
       /\ (t.comment <=> s.comment) /\ t.name = 0
       /\ t.ip = s.ip /\ t.hi = s.hi /\ t.o = s.o
       /\ t.table = IF emit THEN s.table ELSE Assign(s.table, c, s.ip)
  /\ s.name = 37 =>
       /\ (t.comment <=> s.comment) /\ t.name = 0
       /\ t.ip = s.ip + 4 /\ t.hi = s.hi /\ t.table = s.table
       /\ t.o = Append(s.o, <<4, Target(tab, c) - (s.ip + 4)>>)

LEMMA AssignType ==
  ASSUME NEW tab \in Tables, NEW c \in Byte, NEW v \in Int
  PROVE  Assign(tab, c, v) \in Tables
<1>1. PICK D \in SUBSET Byte : tab \in [D -> Int]
  BY DEF Tables
<1>2. Assign(tab, c, v) \in [D \cup {c} -> Int]
  BY <1>1 DEF Assign
<1>3. D \cup {c} \in SUBSET Byte
  OBVIOUS
<1>4. QED
  BY <1>2, <1>3 DEF Tables

LEMMA TargetType ==
  ASSUME NEW tab \in Tables, NEW c
  PROVE  Target(tab, c) \in Int
<1>1. PICK D \in SUBSET Byte : tab \in [D -> Int]
  BY DEF Tables
<1>2. QED
  BY <1>1 DEF Target

LEMMA MoveEffect ==
  ASSUME NEW emit \in BOOLEAN, NEW tab \in Tables, NEW s \in State, NEW c \in Byte
  PROVE  /\ Move(emit, tab, s, c) \in State
         /\ MoveDoes(emit, tab, s, c, Move(emit, tab, s, c))
<1> DEFINE t == Move(emit, tab, s, c)
<1>0. s.name \in {0, 37, 58} /\ s.ip \in Nat /\ s.o \in Seq(Writes) /\ s.table \in Tables
  BY DEF State
<1>1. CASE s.name = 0 /\ ~s.comment /\ c \in {58, 37}
  <2>1. t = WithName(s, c)
    BY <1>1 DEF Move, WithName
  <2>2. c \in {0, 37, 58}
    BY <1>1
  <2> HIDE DEF t
  <2>3. /\ t \in State /\ (t.comment <=> s.comment) /\ t.name = c
        /\ t.ip = s.ip /\ t.hi = s.hi /\ t.o = s.o /\ t.table = s.table
    BY <2>1, <2>2, SigilUpdate
  <2>4. QED
    BY <1>1, <2>3 DEF MoveDoes, t
<1>2. CASE s.name = 0 /\ (s.comment \/ c \notin {58, 37})
  <2>1. t = Common(s, c)
    BY <1>2 DEF Move
  <2>2. t \in State /\ CommonDoes(s, c, t)
    BY <2>1, CommonEffect
  <2> HIDE DEF t
  <2>3. QED
    BY <1>2, <2>2 DEF MoveDoes, t
<1>3. CASE s.name = 58
  <2> DEFINE labels == IF emit THEN s.table ELSE Assign(s.table, c, s.ip)
  <2>1. labels \in Tables
    BY <1>0, AssignType
  <2>2. t = [s EXCEPT !.name = 0, !.table = labels]
    BY <1>3 DEF Move, Named
  <2>3. t = WithLabels(s, labels)
    BY <2>2 DEF WithLabels
  <2> HIDE DEF t, labels
  <2>4. /\ t \in State /\ (t.comment <=> s.comment) /\ t.name = 0
        /\ t.ip = s.ip /\ t.hi = s.hi /\ t.o = s.o /\ t.table = labels
    BY <2>1, <2>3, LabelUpdate
  <2>5. QED
    BY <1>3, <2>4 DEF MoveDoes, t, labels
<1>4. CASE s.name = 37
  <2> DEFINE w == <<4, Target(tab, c) - (s.ip + 4)>>
             bytes == Append(s.o, w)
             place == s.ip + 4
  <2>1. Target(tab, c) \in Int
    BY TargetType
  <2>2. w \in Writes
    BY <1>0, <2>1 DEF Writes
  <2>3. bytes \in Seq(Writes) /\ place \in Nat
    BY <1>0, <2>2
  <2>4. t = WithPointer(s, bytes, place)
    BY <1>4 DEF Move, Named, WithPointer
  <2> HIDE DEF t, w, bytes, place
  <2>5. /\ t \in State /\ (t.comment <=> s.comment) /\ t.name = 0
        /\ t.ip = place /\ t.hi = s.hi /\ t.o = bytes /\ t.table = s.table
    BY <2>3, <2>4, PointerUpdate
  <2>6. QED
    BY <1>4, <2>5 DEF MoveDoes, t, w, bytes, place
<1>5. QED
  BY <1>0, <1>1, <1>2, <1>3, <1>4

-----------------------------------------------------------------------------
(* A simulator's output only grows. *)

Begins(u, v) == Len(u) <= Len(v) /\ \A k \in 1 .. Len(u) : u[k] = v[k]

LEMMA BeginsItself ==
  ASSUME NEW u \in Seq(Writes)
  PROVE  Begins(u, u)
BY DEF Begins

LEMMA BeginsAppend ==
  ASSUME NEW u \in Seq(Writes), NEW v \in Seq(Writes), NEW w \in Writes, Begins(u, v)
  PROVE  Begins(u, Append(v, w))
<1>1. Len(u) \in Nat /\ Len(v) \in Nat
  OBVIOUS
<1>2. Len(Append(v, w)) = Len(v) + 1
  OBVIOUS
<1>3. \A k \in 1 .. Len(v) : Append(v, w)[k] = v[k]
  OBVIOUS
<1>4. QED
  BY <1>1, <1>2, <1>3 DEF Begins

LEMMA BeginsOn ==
  ASSUME NEW u \in Seq(Writes), NEW v \in Seq(Writes), NEW w \in Seq(Writes),
         Begins(u, v), Begins(v, w)
  PROVE  Begins(u, w)
<1>1. Len(u) \in Nat /\ Len(v) \in Nat /\ Len(w) \in Nat
  OBVIOUS
<1>2. QED
  BY <1>1 DEF Begins

LEMMA BeginsIsPrefix ==
  ASSUME NEW u \in Seq(Writes), NEW v \in Seq(Writes), Begins(u, v)
  PROVE  IsPrefix(u, v)
<1>1. Len(u) \in Nat /\ Len(v) \in Nat /\ Len(u) <= Len(v)
  BY DEF Begins
<1>2. SubSeq(u, 1, Len(u)) = SubSeq(v, 1, Len(u))
  <2>1. SubSeq(u, 1, Len(u)) = [k \in 1 .. Len(u) |-> u[k]]
    BY <1>1
  <2>2. SubSeq(v, 1, Len(u)) = [k \in 1 .. Len(u) |-> v[k]]
    BY <1>1
  <2>3. QED
    BY <2>1, <2>2 DEF Begins
<1>3. QED
  BY <1>1, <1>2 DEF IsPrefix

LEMMA MoveGrows ==
  ASSUME NEW emit \in BOOLEAN, NEW tab \in Tables, NEW s \in State, NEW c \in Byte
  PROVE  /\ Begins(s.o, Common(s, c).o)
         /\ Begins(s.o, Move(emit, tab, s, c).o)
<1>1. s.o \in Seq(Writes) /\ s.name \in {0, 37, 58} /\ s.hi \in Int /\ s.ip \in Nat
      /\ Hex(c) \in Int
  BY HexType DEF State
<1>2. Begins(s.o, s.o)
  BY <1>1, BeginsItself
<1>3. ASSUME NEW w \in Writes PROVE Begins(s.o, Append(s.o, w))
  BY <1>1, <1>2, BeginsAppend
<1>4. Common(s, c).o = s.o \/ Common(s, c).o = Append(s.o, <<1, 16 * s.hi + Hex(c)>>)
  BY CommonEffect DEF CommonDoes
<1>5. <<1, 16 * s.hi + Hex(c)>> \in Writes
  BY <1>1 DEF Writes
<1>6. Begins(s.o, Common(s, c).o)
  BY <1>2, <1>3, <1>4, <1>5
<1> DEFINE t == Move(emit, tab, s, c)
<1>70. MoveDoes(emit, tab, s, c, t)
  BY MoveEffect
<1> HIDE DEF t
<1>7. \/ t.o = s.o
      \/ t.o = Append(s.o, <<4, Target(tab, c) - (s.ip + 4)>>)
      \/ t.o = Append(s.o, <<1, 16 * s.hi + Hex(c)>>)
  <2>1. CASE s.name = 0 /\ (s.comment \/ c \notin {58, 37})
    BY <1>70, <2>1 DEF MoveDoes, CommonDoes
  <2>2. CASE s.name = 0 /\ ~s.comment /\ c \in {58, 37}
    BY <1>70, <2>2 DEF MoveDoes
  <2>3. CASE s.name = 58
    BY <1>70, <2>3 DEF MoveDoes
  <2>4. CASE s.name = 37
    BY <1>70, <2>4 DEF MoveDoes
  <2>5. QED
    BY <1>1, <2>1, <2>2, <2>3, <2>4
<1>8. <<4, Target(tab, c) - (s.ip + 4)>> \in Writes
  BY <1>1, TargetType DEF Writes
<1>9. Begins(s.o, t.o)
  BY <1>2, <1>3, <1>5, <1>7, <1>8
<1>10. QED
  BY <1>6, <1>9 DEF t

LEMMA StartType == Start \in State
<1>1. << >> \in Tables
  <2>1. << >> \in [{} -> Int]
    OBVIOUS
  <2>2. {} \in SUBSET Byte
    OBVIOUS
  <2>3. QED
    BY <2>1, <2>2 DEF Tables
<1>2. << >> \in Seq(Writes) /\ -1 \in -1 .. 15
  OBVIOUS
<1>3. QED
  BY <1>1, <1>2 DEF Start, State

(* Every state a simulator passes through is one, and its output is a      *)
(* beginning of every later one's.                                         *)
LEMMA RunsType ==
  ASSUME NEW lang, NEW emit \in BOOLEAN, NEW tab \in Tables,
         NEW src \in Seq(Byte)
  PROVE  LET r == Runs(lang, emit, tab, src)
         IN  /\ \A i \in 0 .. Len(src) : r[i] \in State
             /\ \A i \in 0 .. Len(src) : Begins(r[i].o, r[Len(src)].o)
<1> DEFINE r == Runs(lang, emit, tab, src)
           n == Len(src)
<1>1. n \in Nat /\ DOMAIN src = 1 .. n /\ \A i \in 1 .. n : src[i] \in Byte
  OBVIOUS
<1>2. /\ r[0] = Start
      /\ \A i \in 1 .. n : r[i] = Reads(lang, emit, tab, r[i - 1], src[i])
  BY <1>1, RunsOn
<1> HIDE DEF r
<1>3. ASSUME NEW i \in 1 .. n, r[i - 1] \in State
      PROVE  r[i] \in State /\ Begins(r[i - 1].o, r[i].o)
  <2>1. r[i] = Common(r[i - 1], src[i]) \/ r[i] = Move(emit, tab, r[i - 1], src[i])
    BY <1>2 DEF Reads
  <2>2. src[i] \in Byte
    BY <1>1
  <2>3. QED
    BY <1>3, <2>1, <2>2, CommonEffect, MoveEffect, MoveGrows
<1>4. ASSUME NEW i \in 0 .. n PROVE r[i] \in State
  <2> DEFINE Bad == {k \in 0 .. n : r[k] \notin State}
  <2>1. SUFFICES ASSUME Bad # {} PROVE FALSE
    OBVIOUS
  <2>2. Bad \in SUBSET Nat
    BY <1>1
  <2>3. PICK k \in Bad : \A j \in Bad : k <= j
    <3> HIDE DEF Bad
    <3>1. QED
      BY <2>1, <2>2, LeastOf
  <2>4. k # 0
    BY <1>2, StartType
  <2>5. k \in 1 .. n /\ k - 1 \in 0 .. n /\ ~(k <= k - 1)
    BY <1>1, <2>4
  <2>6. r[k - 1] \in State
    BY <2>3, <2>5
  <2>7. QED
    BY <1>3, <2>5, <2>6
<1>5. ASSUME NEW i \in 0 .. n PROVE Begins(r[i].o, r[n].o)
  <2> DEFINE Bad == {k \in 0 .. n : ~Begins(r[n - k].o, r[n].o)}
  <2>1. SUFFICES ASSUME Bad # {} PROVE FALSE
    <3>1. n - i \in 0 .. n /\ n - (n - i) = i
      BY <1>1
    <3>2. QED
      BY <3>1
  <2>2. Bad \in SUBSET Nat
    BY <1>1
  <2>3. PICK k \in Bad : \A j \in Bad : k <= j
    <3> HIDE DEF Bad
    <3>1. QED
      BY <2>1, <2>2, LeastOf
  <2>4. r[n].o \in Seq(Writes)
    BY <1>1, <1>4 DEF State
  <2>5. k # 0
    BY <1>1, <2>4, BeginsItself
  <2>6. k - 1 \in 0 .. n /\ ~(k <= k - 1) /\ n - k + 1 \in 1 .. n
        /\ n - k + 1 - 1 = n - k /\ n - (k - 1) = n - k + 1 /\ n - k \in 0 .. n
    BY <1>1, <2>5
  <2>7. Begins(r[n - k + 1].o, r[n].o)
    BY <2>3, <2>6
  <2>8. Begins(r[n - k].o, r[n - k + 1].o)
    BY <1>3, <1>4, <2>6
  <2>9. r[n - k].o \in Seq(Writes) /\ r[n - k + 1].o \in Seq(Writes)
    BY <1>4, <2>6 DEF State
  <2>10. Begins(r[n - k].o, r[n].o)
    BY <2>4, <2>7, <2>8, <2>9, BeginsOn
  <2>11. QED
    BY <2>10
<1>6. QED
  BY <1>4, <1>5 DEF r

-----------------------------------------------------------------------------
(* The seed, beside assemble_hex0. *)

(* assemble_hex0's state after the bytes the seed has read. *)
SeedRun == Runs("hex0", FALSE, << >>, input)

Seed ==
  /\ pass \in {"start", "first", "exit"} /\ at \in {"loop", "comment"}
  /\ pass = "start" => pos = 1 /\ at = "loop" /\ toggle = -1 /\ out = << >>
  /\ pass = "first" /\ ~AtEnd =>
       LET s == SeedRun[pos - 1]
       IN  /\ s.comment <=> at = "comment"
           /\ s.hi = IF toggle = 0 THEN accum ELSE -1
  /\ Begins(out, SeedRun[pos - 1].o)
  /\ writable => out = SeedRun[pos - 1].o
  /\ pass = "exit" /\ readable => pos = Len(input) + 1

SeedInv == TypeOK /\ rels = {} /\ Seed

LEMMA HexSame ==
  ASSUME NEW c
  PROVE  H0!Hex(c) = Hex(c) /\ (H0!IsComment(c) <=> IsComment(c))
BY DEF H0!Hex, Hex, H0!IsComment, IsComment

LEMMA CommentNoDigit ==
  ASSUME NEW c, IsComment(c)
  PROVE  Hex(c) = -1
BY DEF IsComment, Hex

(* The run is made of simulator states, and each byte moves it on. *)
LEMMA SeedRunSteps ==
  ASSUME TypeOK
  PROVE  /\ SeedRun[0] = Start
         /\ \A i \in 0 .. Len(input) : SeedRun[i] \in State
         /\ \A i \in 0 .. Len(input) : Begins(SeedRun[i].o, SeedRun[Len(input)].o)
         /\ \A i \in 1 .. Len(input) : SeedRun[i] = Common(SeedRun[i - 1], input[i])
         /\ SeedRun[Len(input)].o = AssembleHex0(input)
<1>1. input \in Seq(Byte) /\ Len(input) \in Nat /\ DOMAIN input = 1 .. Len(input)
  BY DEF TypeOK
<1>2. << >> \in Tables
  BY StartType DEF Start, State
<1>3. /\ \A i \in 0 .. Len(input) : SeedRun[i] \in State
      /\ \A i \in 0 .. Len(input) : Begins(SeedRun[i].o, SeedRun[Len(input)].o)
  BY <1>1, <1>2, RunsType DEF SeedRun
<1>4. LET r == SeedRun
      IN  /\ r[0] = Start
          /\ \A i \in 1 .. Len(input) :
               r[i] = Reads("hex0", FALSE, << >>, r[i - 1], input[i])
          /\ r[Len(input)] = Assembles("hex0", FALSE, << >>, input)
  BY <1>1, RunsOn DEF SeedRun
<1>5. QED
  BY <1>3, <1>4 DEF Reads, Assembles, AssembleHex0

LEMMA SeedInit == OneInit /\ tool = "hex0" => SeedInv
<1> SUFFICES ASSUME OneInit, tool = "hex0" PROVE SeedInv
  OBVIOUS
<1>1. TypeOK /\ Init
  BY InitType DEF OneInit
<1>2. SeedRun[0] = Start
  BY <1>1, SeedRunSteps
<1>3. out = << >> /\ Start.o = << >> /\ pos - 1 = 0
  BY <1>1 DEF Init, Start
<1>4. Begins(out, SeedRun[pos - 1].o)
  BY <1>2, <1>3 DEF Begins
<1>5. QED
  BY <1>1, <1>2, <1>3, <1>4 DEF Init, SeedInv, Seed

(* A read of the seed's, with what Common makes of the byte. *)
LEMMA SeedReads ==
  ASSUME SeedInv, NEW a, H0!ReadAt(a)
  PROVE  /\ input' = input /\ readable' = readable /\ writable' = writable
         /\ pass = "first" /\ pass' = "first" /\ at = a /\ ~AtEnd
         /\ pos \in 1 .. Len(input) /\ pos' = pos + 1 /\ input[pos] \in Byte
         /\ SeedRun' = SeedRun
         /\ SeedRun[pos - 1] \in State /\ SeedRun[pos] \in State
         /\ CommonDoes(SeedRun[pos - 1], input[pos], SeedRun[pos])
         /\ Begins(SeedRun[pos - 1].o, SeedRun[pos].o)
<1>1. /\ input' = input /\ readable' = readable /\ writable' = writable
      /\ pass = "first" /\ pass' = "first" /\ at = a
      /\ readable /\ ~(pos > Len(input)) /\ pos' = pos + 1
  BY DEF H0!ReadAt, H0!files, H0!AtEnd
<1>2. pos \in 1 .. Len(input) /\ input[pos] \in Byte /\ ~AtEnd
  BY <1>1 DEF SeedInv, TypeOK, AtEnd
<1>3. SeedRun' = SeedRun
  BY <1>1 DEF SeedRun
<1>4. PICK i \in 1 .. Len(input) : i = pos
  BY <1>2
<1>5. i - 1 \in 0 .. Len(input) /\ i \in 0 .. Len(input)
  BY <1>2 DEF SeedInv, TypeOK
<1>6. SeedRun[i - 1] \in State /\ SeedRun[i] \in State
      /\ SeedRun[i] = Common(SeedRun[i - 1], input[i])
  BY <1>5, SeedRunSteps DEF SeedInv
<1>7. CommonDoes(SeedRun[i - 1], input[i], SeedRun[i])
  BY <1>2, <1>4, <1>6, CommonEffect
<1>8. Begins(SeedRun[i - 1].o, SeedRun[i].o)
  <2>1. FALSE \in BOOLEAN /\ << >> \in Tables
    BY StartType DEF Start, State
  <2>2. QED
    BY <1>2, <1>4, <1>6, <2>1, MoveGrows
<1>9. QED
  BY <1>1, <1>2, <1>3, <1>4, <1>6, <1>7, <1>8

(* Whatever the byte, what has been written begins what is to come of it.  *)
LEMMA SeedStep ==
  ASSUME SeedInv, H0!Next, UNCHANGED <<ip, table, written, rels, history>>
  PROVE  SeedInv'
<1> DEFINE s == SeedRun[pos - 1]
           t == SeedRun[pos]
<1>0. /\ TypeOK /\ pos \in Nat \ {0} /\ Len(input) \in Nat /\ toggle \in {-1, 0}
      /\ accum \in 0 .. 15 /\ out \in Seq(Writes) /\ at \in Place
      /\ readable \in BOOLEAN /\ writable \in BOOLEAN
  BY DEF SeedInv, TypeOK, Writes
<1>1. /\ rels' = {} /\ ip' = ip /\ table' = table /\ written' = written
      /\ mark' = mark /\ lands' = lands
  BY DEF SeedInv, history
<1>2. CASE H0!Open
  <2>1. /\ pass = "start" /\ pass' = "first" /\ pos = 1 /\ at = "loop"
        /\ toggle = -1 /\ out = << >>
        /\ readable' \in BOOLEAN /\ writable' \in BOOLEAN
        /\ UNCHANGED <<input, at, pos, toggle, accum, out>>
    BY <1>2 DEF H0!Open, SeedInv, Seed
  <2>2. TypeOK'
    BY <1>0, <1>1, <2>1 DEF TypeOK
  <2>3. SeedRun'[pos' - 1] = Start
    <3>1. SeedRun[0] = Start /\ pos' - 1 = 0
      BY <1>0, <2>1, SeedRunSteps
    <3>2. SeedRun' = SeedRun
      BY <2>1 DEF SeedRun
    <3>3. QED
      BY <3>1, <3>2
  <2>4. Start.o = << >> /\ ~Start.comment /\ Start.hi = -1
    BY DEF Start
  <2>5. Begins(out', SeedRun'[pos' - 1].o)
    BY <2>1, <2>3, <2>4 DEF Begins
  <2>6. QED
    BY <1>1, <2>1, <2>2, <2>3, <2>4, <2>5 DEF SeedInv, Seed
<1>3. CASE H0!CommentEnds \/ H0!Done
  <2>1. /\ pass = "first" /\ pass' \in {"first", "exit"}
        /\ at' \in {"loop", "comment"} /\ AtEnd
        /\ UNCHANGED <<input, readable, writable, pos, toggle, accum, out>>
    BY <1>3 DEF H0!CommentEnds, H0!Done, H0!AtEnd, AtEnd, H0!files
  <2>2. TypeOK'
    BY <1>0, <1>1, <2>1 DEF TypeOK, Place
  <2>3. SeedRun' = SeedRun /\ AtEnd'
    BY <2>1 DEF SeedRun, AtEnd
  <2>4. pass' = "exit" /\ readable' => pos' = Len(input') + 1
    BY <2>1, <2>2 DEF AtEnd, TypeOK
  <2>5. QED
    BY <1>1, <2>1, <2>2, <2>3, <2>4 DEF SeedInv, Seed
<1>4. ASSUME NEW a, H0!ReadAt(a), at' \in {"loop", "comment"},
             toggle' \in {-1, 0}, accum' \in 0 .. 15,
             t.comment <=> at' = "comment",
             t.hi = IF toggle' = 0 THEN accum' ELSE -1,
             out' \in Seq(Writes), Begins(out', t.o), writable' => out' = t.o
      PROVE  SeedInv'
  <2>1. /\ input' = input /\ readable' = readable /\ writable' = writable
        /\ pass' = "first" /\ pos \in 1 .. Len(input) /\ pos' = pos + 1
        /\ SeedRun' = SeedRun
    BY <1>4, SeedReads
  <2>2. TypeOK'
    BY <1>0, <1>1, <1>4, <2>1 DEF TypeOK, Place, Writes
  <2>3. pos' - 1 = pos
    BY <1>0, <2>1
  <2>4. SeedRun'[pos' - 1] = t
    BY <2>1, <2>3
  <2> HIDE DEF t
  <2>5. QED
    BY <1>1, <1>4, <2>1, <2>2, <2>4 DEF SeedInv, Seed
<1>5. ASSUME NEW a, H0!ReadAt(a)
      PROVE  /\ CommonDoes(s, input[pos], t) /\ s.o \in Seq(Writes) /\ t.o \in Seq(Writes)
             /\ Begins(out, s.o) /\ Begins(s.o, t.o) /\ Begins(out, t.o)
             /\ writable' = writable /\ (writable => out = s.o)
             /\ (s.comment <=> a = "comment") /\ at = a
             /\ s.hi = IF toggle = 0 THEN accum ELSE -1
             /\ input[pos] \in Byte /\ Hex(input[pos]) \in -1 .. 15
  <2>1. /\ CommonDoes(s, input[pos], t) /\ s \in State /\ t \in State
        /\ Begins(s.o, t.o) /\ writable' = writable /\ at = a
        /\ pass = "first" /\ ~AtEnd /\ input[pos] \in Byte
    BY <1>5, SeedReads
  <2>2. Begins(out, s.o) /\ (writable => out = s.o)
        /\ (s.comment <=> a = "comment") /\ s.hi = IF toggle = 0 THEN accum ELSE -1
    BY <2>1 DEF SeedInv, Seed
  <2>3. s.o \in Seq(Writes) /\ t.o \in Seq(Writes)
    BY <2>1 DEF State
  <2>4. Begins(out, t.o)
    BY <1>0, <2>1, <2>2, <2>3, BeginsOn
  <2>5. QED
    BY <2>1, <2>2, <2>3, <2>4, HexType
<1>6. CASE H0!Ignore
  <2>1. /\ H0!ReadAt("loop") /\ ~IsComment(input[pos]) /\ Hex(input[pos]) < 0
        /\ UNCHANGED <<at, toggle, accum, out>>
    BY <1>6, HexSame DEF H0!Ignore
  <2>2. t.comment <=> at' = "comment"
    BY <1>5, <2>1 DEF CommonDoes
  <2>3. t.hi = s.hi /\ t.o = s.o
    BY <1>5, <2>1 DEF CommonDoes
  <2>4. at' \in {"loop", "comment"} /\ (writable' => out' = t.o) /\ Begins(out', t.o)
    BY <1>5, <2>1, <2>3
  <2> HIDE DEF s, t
  <2>5. QED
    BY <1>0, <1>4, <1>5, <2>1, <2>2, <2>3, <2>4
<1>7. CASE H0!HoldDigit
  <2>1. /\ H0!ReadAt("loop") /\ Hex(input[pos]) >= 0 /\ toggle < 0
        /\ accum' = Hex(input[pos]) /\ toggle' = 0
        /\ UNCHANGED <<at, out>>
    BY <1>7, HexSame DEF H0!HoldDigit
  <2>2. toggle # 0 /\ s.hi = -1 /\ ~s.comment /\ ~IsComment(input[pos])
    BY <1>5, <2>1, CommentNoDigit
  <2>3. (t.comment <=> at' = "comment") /\ t.hi = Hex(input[pos]) /\ t.o = s.o
    BY <1>5, <2>1, <2>2 DEF CommonDoes
  <2>4. at' \in {"loop", "comment"} /\ (writable' => out' = t.o) /\ Begins(out', t.o)
    BY <1>5, <2>1, <2>3
  <2>5. accum' \in 0 .. 15
    BY <1>5, <2>1
  <2> HIDE DEF s, t
  <2>6. QED
    BY <1>0, <1>4, <2>1, <2>3, <2>4, <2>5
<1>8. CASE H0!PrintByte
  <2> DEFINE w == <<1, 16 * accum + Hex(input[pos])>>
  <2>1. /\ H0!ReadAt("loop") /\ Hex(input[pos]) >= 0 /\ toggle >= 0
        /\ toggle' = -1 /\ at' = at /\ accum' = accum
        /\ out' = IF writable THEN Append(out, w) ELSE out
    BY <1>8, HexSame DEF H0!PrintByte, H0!Write
  <2>2. toggle = 0 /\ s.hi = accum /\ s.hi # -1 /\ ~s.comment /\ ~IsComment(input[pos])
    BY <1>0, <1>5, <2>1, CommentNoDigit
  <2>3. (t.comment <=> at' = "comment") /\ t.hi = -1 /\ t.o = Append(s.o, w)
    BY <1>5, <2>1, <2>2 DEF CommonDoes
  <2>4. w \in Writes
    <3>0. Hex(input[pos]) \in -1 .. 15
      BY <1>5, <2>1
    <3>1. accum \in Int /\ Hex(input[pos]) \in Int
      BY <1>0, <3>0
    <3>2. 16 * accum + Hex(input[pos]) \in Int
      BY <3>1
    <3>3. QED
      BY <3>2 DEF Writes
  <2>5. out' \in Seq(Writes) /\ (writable' => out' = t.o) /\ at' \in {"loop", "comment"}
    BY <1>0, <1>5, <2>1, <2>3, <2>4
  <2>6. Begins(out', t.o)
    <3>1. Begins(t.o, t.o) /\ Begins(out, t.o)
      BY <1>5, <2>1, BeginsItself
    <3>2. out' = out \/ out' = t.o
      BY <1>5, <2>1, <2>5
    <3>3. QED
      BY <3>1, <3>2
  <2>7. toggle' \in {-1, 0} /\ accum' \in 0 .. 15
        /\ t.hi = IF toggle' = 0 THEN accum' ELSE -1
    BY <1>0, <2>1, <2>3
  <2> HIDE DEF s, t, w
  <2>8. QED
    BY <1>4, <2>1, <2>3, <2>5, <2>6, <2>7
<1>9. CASE H0!BeginComment
  <2>1. /\ H0!ReadAt("loop") /\ IsComment(input[pos]) /\ at' = "comment"
        /\ UNCHANGED <<toggle, accum, out>>
    BY <1>9, HexSame DEF H0!BeginComment
  <2>2. Hex(input[pos]) = -1
    BY <2>1 DEF IsComment, Hex
  <2>3. (t.comment <=> at' = "comment") /\ t.hi = s.hi /\ t.o = s.o
    BY <1>5, <2>1, <2>2 DEF CommonDoes
  <2>4. at' \in {"loop", "comment"} /\ (writable' => out' = t.o) /\ Begins(out', t.o)
    BY <1>5, <2>1, <2>3
  <2> HIDE DEF s, t
  <2>5. QED
    BY <1>0, <1>4, <1>5, <2>1, <2>3, <2>4
<1>10. CASE H0!InComment
  <2>1. /\ H0!ReadAt("comment")
        /\ at' = IF input[pos] = Newline THEN "loop" ELSE "comment"
        /\ UNCHANGED <<toggle, accum, out>>
    BY <1>10 DEF H0!InComment, Newline
  <2>2. (t.comment <=> at' = "comment") /\ t.hi = s.hi /\ t.o = s.o
    BY <1>5, <2>1 DEF CommonDoes
  <2>3. at' \in {"loop", "comment"} /\ (writable' => out' = t.o) /\ Begins(out', t.o)
    BY <1>5, <2>1, <2>2
  <2> HIDE DEF s, t
  <2>4. QED
    BY <1>0, <1>4, <1>5, <2>1, <2>2, <2>3
<1>11. QED
  BY <1>2, <1>3, <1>6, <1>7, <1>8, <1>9, <1>10 DEF H0!Next

LEMMA SeedLoses ==
  ASSUME SeedInv, LoseInput \/ LoseOutput
  PROVE  SeedInv'
<1>0. readable \in BOOLEAN /\ writable \in BOOLEAN
  BY DEF SeedInv, TypeOK
<1>1. /\ (readable' => readable) /\ (writable' => writable)
      /\ readable' \in BOOLEAN /\ writable' \in BOOLEAN
      /\ UNCHANGED <<input, pass, at, pos, ip, toggle, accum, table, out, written,
                     rels, mark, lands>>
  <2>1. CASE LoseInput
    BY <1>0, <2>1 DEF LoseInput, file, history
  <2>2. CASE LoseOutput
    BY <1>0, <2>2 DEF LoseOutput, file, history
  <2>3. QED
    BY <2>1, <2>2
<1>2. TypeOK' /\ SeedRun' = SeedRun /\ (AtEnd => AtEnd')
  BY <1>1 DEF SeedInv, TypeOK, SeedRun, AtEnd
<1>3. QED
  BY <1>1, <1>2 DEF SeedInv, Seed

-----------------------------------------------------------------------------
(* hex1's first pass, beside the first walk of assemble_hex1. *)

(* The first pass counts a byte at its first digit, the walk at its        *)
(* second; a character that is no label has 0 in both tables.              *)
Match(m, s) ==
  /\ s.comment <=> m.at = "comment"
  /\ s.name = 58 <=> m.at = "label"
  /\ s.name = 37 <=> m.at = "pointer"
  /\ m.ip = s.ip + IF m.toggle = 0 THEN 1 ELSE 0
  /\ s.hi # -1 <=> m.toggle = 0
  /\ \A c \in Byte : m.table[c] = Target(s.table, c)

LEMMA AssignTarget ==
  ASSUME NEW tab, NEW c, NEW v, NEW k
  PROVE  Target(Assign(tab, c, v), k) = IF k = c THEN v ELSE Target(tab, k)
BY DEF Target, Assign

(* No byte is two of a digit, a comment's sign, a ':' and a '%'. *)
LEMMA ByteKinds ==
  ASSUME NEW c \in Byte
  PROVE  /\ Hex(c) \in -1 .. 15 /\ (IsComment(c) => Hex(c) = -1)
         /\ c \in {58, 37} => Hex(c) = -1 /\ ~IsComment(c)
BY HexType DEF IsComment, Hex

LEMMA MatchStart == Match(Begin, Start)
BY DEF Match, Begin, Start, Target

LEMMA MatchStep ==
  ASSUME NEW m \in Snapshot, NEW s \in State, NEW c \in Byte, Match(m, s),
         m.at = "label" => m.toggle = -1
  PROVE  Match(After(m, c), Move(FALSE, << >>, s, c))
<1> DEFINE n == After(m, c)
           t == Move(FALSE, << >>, s, c)
<1>1. MoveDoes(FALSE, << >>, s, c, t)
  <2>1. FALSE \in BOOLEAN /\ << >> \in Tables
    BY StartType DEF Start, State
  <2>2. QED
    BY <2>1, MoveEffect
<1>2. /\ n.at = NextAt(m, c) /\ n.ip = m.ip + Counted(m, c)
      /\ n.toggle = Turned(m, c) /\ n.table = Filled(m, c)
  BY DEF After
<1>3. /\ m.at \in Place /\ m.ip \in Nat /\ m.toggle \in {-1, 0}
      /\ m.table \in [Byte -> Nat]
  BY DEF Snapshot
<1>4. s.name \in {0, 37, 58} /\ s.ip \in Nat /\ s.hi \in -1 .. 15 /\ s.comment \in BOOLEAN
  BY DEF State
<1>5. Hex(c) \in -1 .. 15 /\ (IsComment(c) => Hex(c) = -1)
      /\ (c \in {58, 37} => Hex(c) = -1 /\ ~IsComment(c))
  BY ByteKinds
<1>6. Enters(c) = IF c = 58 THEN "label" ELSE IF c = 37 THEN "pointer"
                  ELSE IF IsComment(c) THEN "comment" ELSE "loop"
  BY <1>5 DEF Enters, Colon, Percent
<1>7. /\ s.comment <=> m.at = "comment"
      /\ s.name = 58 <=> m.at = "label"
      /\ s.name = 37 <=> m.at = "pointer"
      /\ m.ip = s.ip + IF m.toggle = 0 THEN 1 ELSE 0
      /\ s.hi # -1 <=> m.toggle = 0
  BY DEF Match
<1>8. \A k \in Byte : m.table[k] = Target(s.table, k)
  BY DEF Match
<1>80. SUFFICES Match(n, t)
  OBVIOUS
<1> HIDE DEF n, t
<1>81. Hex(c) >= 0 \/ Hex(c) = -1
  <2>1. Hex(c) \in -1 .. 15
    BY HexType
  <2>2. QED
    BY <2>1
<1>9. CASE m.at = "comment"
  <2>1. CommonDoes(s, c, t)
    BY <1>1, <1>4, <1>7, <1>9 DEF MoveDoes
  <2>2. /\ n.at = IF c = Newline THEN "loop" ELSE "comment"
        /\ n.ip = m.ip /\ n.toggle = m.toggle /\ n.table = m.table
    BY <1>2, <1>3, <1>9 DEF NextAt, Counted, Turned, Filled, IsDigit
  <2>3. (t.comment <=> c # Newline) /\ t.name = s.name /\ t.table = s.table
        /\ t.hi = s.hi /\ t.ip = s.ip
    BY <1>7, <1>9, <2>1 DEF CommonDoes
  <2>4. QED
    BY <1>7, <1>8, <1>9, <2>2, <2>3 DEF Match
<1>10. CASE m.at = "label"
  <2>1. /\ (t.comment <=> s.comment) /\ t.name = 0
        /\ t.ip = s.ip /\ t.hi = s.hi /\ t.table = Assign(s.table, c, s.ip)
    BY <1>1, <1>7, <1>10 DEF MoveDoes
  <2>2. /\ n.at = "loop" /\ n.ip = m.ip /\ n.toggle = m.toggle
        /\ n.table = [m.table EXCEPT ![c] = m.ip]
    BY <1>2, <1>3, <1>10 DEF NextAt, Counted, Turned, Filled, IsDigit
  <2>3. m.ip = s.ip
    BY <1>4, <1>7, <1>10
  <2>4. \A k \in Byte : n.table[k] = Target(t.table, k)
    <3>1. ASSUME NEW k \in Byte PROVE n.table[k] = Target(t.table, k)
      <4>1. n.table[k] = IF k = c THEN m.ip ELSE m.table[k]
        BY <1>3, <2>2
      <4>2. Target(t.table, k) = IF k = c THEN s.ip ELSE Target(s.table, k)
        BY <2>1, AssignTarget
      <4>3. QED
        BY <1>8, <2>3, <4>1, <4>2
    <3>2. QED
      BY <3>1
  <2>5. QED
    BY <1>7, <1>10, <2>1, <2>2, <2>4 DEF Match
<1>11. CASE m.at = "pointer"
  <2>1. /\ (t.comment <=> s.comment) /\ t.name = 0
        /\ t.ip = s.ip + 4 /\ t.hi = s.hi /\ t.table = s.table
    BY <1>1, <1>7, <1>11 DEF MoveDoes
  <2>2. /\ n.at = "loop" /\ n.ip = m.ip + 4 /\ n.toggle = m.toggle
        /\ n.table = m.table
    BY <1>2, <1>3, <1>11 DEF NextAt, Counted, Turned, Filled, IsDigit
  <2>3. n.ip = t.ip + IF n.toggle = 0 THEN 1 ELSE 0
    BY <1>3, <1>4, <1>7, <2>1, <2>2
  <2>4. QED
    BY <1>7, <1>8, <1>11, <2>1, <2>2, <2>3 DEF Match
<1>12. CASE m.at = "loop" /\ c \in {58, 37}
  <2>1. s.name = 0 /\ ~s.comment
    BY <1>4, <1>7, <1>12
  <2>2. /\ (t.comment <=> s.comment) /\ t.name = c
        /\ t.ip = s.ip /\ t.hi = s.hi /\ t.table = s.table
    BY <1>1, <1>12, <2>1 DEF MoveDoes
  <2>3. /\ n.at = Enters(c) /\ n.ip = m.ip /\ n.toggle = m.toggle
        /\ n.table = m.table
    BY <1>2, <1>3, <1>5, <1>12 DEF NextAt, Counted, Turned, Filled, IsDigit
  <2>4. QED
    BY <1>6, <1>7, <1>8, <1>12, <2>1, <2>2, <2>3 DEF Match
<1>13. CASE m.at = "loop" /\ c \notin {58, 37}
  <2>1. s.name = 0 /\ ~s.comment
    BY <1>4, <1>7, <1>13
  <2>2. CommonDoes(s, c, t)
    BY <1>1, <1>13, <2>1 DEF MoveDoes
  <2>3. CASE Hex(c) >= 0
    <3>1. /\ n.at = "loop" /\ n.toggle = -1 - m.toggle /\ n.table = m.table
          /\ n.ip = m.ip + IF m.toggle # 0 THEN 1 ELSE 0
      <4>1. IsDigit(m, c) /\ ~(Hex(c) < 0) /\ m.at # "comment" /\ m.at # "pointer"
            /\ m.at # "label"
        BY <1>13, <2>3, HexType DEF IsDigit
      <4>2. NextAt(m, c) = "loop" /\ Turned(m, c) = -1 - m.toggle /\ Filled(m, c) = m.table
        BY <4>1 DEF NextAt, Turned, Filled
      <4>3. Counted(m, c) = IF m.toggle # 0 THEN 1 ELSE 0
        BY <4>1 DEF Counted
      <4>4. QED
        BY <1>2, <4>2, <4>3
    <3>2. /\ ~t.comment /\ t.name = 0 /\ t.table = s.table
          /\ t.hi = IF s.hi = -1 THEN Hex(c) ELSE -1
          /\ t.ip = IF s.hi # -1 THEN s.ip + 1 ELSE s.ip
      BY <1>5, <2>1, <2>2, <2>3 DEF CommonDoes
    <3>3. /\ n.ip = t.ip + IF n.toggle = 0 THEN 1 ELSE 0
          /\ t.hi # -1 <=> n.toggle = 0
      BY <1>3, <1>4, <1>5, <1>7, <2>3, <3>1, <3>2
    <3>4. QED
      BY <1>8, <3>1, <3>2, <3>3 DEF Match
  <2>4. CASE Hex(c) = -1
    <3>1. /\ n.at = IF IsComment(c) THEN "comment" ELSE "loop"
          /\ n.toggle = m.toggle /\ n.table = m.table /\ n.ip = m.ip
      BY <1>2, <1>3, <1>6, <1>13, <2>4 DEF NextAt, Counted, Turned, Filled, IsDigit
    <3>2. /\ (t.comment <=> IsComment(c)) /\ t.name = 0 /\ t.table = s.table
          /\ t.hi = s.hi /\ t.ip = s.ip
      BY <2>1, <2>2, <2>4 DEF CommonDoes
    <3>3. QED
      BY <1>7, <1>8, <3>1, <3>2 DEF Match
  <2>5. QED
    BY <1>81, <2>3, <2>4
<1>14. QED
  BY <1>3, <1>9, <1>10, <1>11, <1>12, <1>13 DEF Place

(* The two walks of assemble_hex1 over the input. *)
FirstRun  == Runs("hex1", FALSE, << >>, input)
SecondRun == Runs("hex1", TRUE, FirstRun[Len(input)].table, input)

Scanned ==
  /\ Len(mark) = Len(input) + 1 /\ mark[1] = Begin /\ Walked(Len(input))
  /\ table = mark[Len(input) + 1].table

LEMMA FirstRunSteps ==
  ASSUME TypeOK
  PROVE  /\ FirstRun[0] = Start
         /\ \A i \in 0 .. Len(input) : FirstRun[i] \in State
         /\ \A i \in 1 .. Len(input) :
              FirstRun[i] = Move(FALSE, << >>, FirstRun[i - 1], input[i])
         /\ FirstRun[Len(input)] = Walk(FALSE, << >>, input)
         /\ FirstRun[Len(input)].table \in Tables
<1>1. input \in Seq(Byte) /\ Len(input) \in Nat /\ DOMAIN input = 1 .. Len(input)
  BY DEF TypeOK
<1>2. << >> \in Tables /\ FALSE \in BOOLEAN
  BY StartType DEF Start, State
<1>3. \A i \in 0 .. Len(input) : FirstRun[i] \in State
  BY <1>1, <1>2, RunsType DEF FirstRun
<1>4. LET r == FirstRun
      IN  /\ r[0] = Start
          /\ \A i \in 1 .. Len(input) :
               r[i] = Reads("hex1", FALSE, << >>, r[i - 1], input[i])
          /\ r[Len(input)] = Assembles("hex1", FALSE, << >>, input)
  BY <1>1, RunsOn DEF FirstRun
<1>5. FirstRun[Len(input)].table \in Tables
  <2>1. Len(input) \in 0 .. Len(input)
    BY <1>1
  <2>2. QED
    BY <1>3, <2>1 DEF State
<1>6. QED
  BY <1>3, <1>4, <1>5 DEF Reads, Assembles

LEMMA SecondRunSteps ==
  ASSUME TypeOK
  PROVE  /\ SecondRun[0] = Start
         /\ \A i \in 0 .. Len(input) : SecondRun[i] \in State
         /\ \A i \in 0 .. Len(input) : Begins(SecondRun[i].o, SecondRun[Len(input)].o)
         /\ \A i \in 1 .. Len(input) :
              SecondRun[i] = Move(TRUE, FirstRun[Len(input)].table,
                                  SecondRun[i - 1], input[i])
         /\ SecondRun[Len(input)] = AssembleHex1(input)
<1> DEFINE tab == FirstRun[Len(input)].table
<1>1. input \in Seq(Byte) /\ Len(input) \in Nat /\ DOMAIN input = 1 .. Len(input)
  BY DEF TypeOK
<1>2. tab \in Tables /\ TRUE \in BOOLEAN /\ tab = Walk(FALSE, << >>, input).table
  BY FirstRunSteps
<1> HIDE DEF tab
<1>20. SecondRun = Runs("hex1", TRUE, tab, input)
  BY DEF SecondRun, tab
<1>3. /\ \A i \in 0 .. Len(input) : SecondRun[i] \in State
      /\ \A i \in 0 .. Len(input) : Begins(SecondRun[i].o, SecondRun[Len(input)].o)
  BY <1>1, <1>2, <1>20, RunsType
<1>4. LET r == SecondRun
      IN  /\ r[0] = Start
          /\ \A i \in 1 .. Len(input) :
               r[i] = Reads("hex1", TRUE, tab, r[i - 1], input[i])
          /\ r[Len(input)] = Assembles("hex1", TRUE, tab, input)
  <2>1. LET r == Runs("hex1", TRUE, tab, input)
        IN  /\ r[0] = Start
            /\ \A i \in 1 .. Len(input) :
                 r[i] = Reads("hex1", TRUE, tab, r[i - 1], input[i])
            /\ r[Len(input)] = Assembles("hex1", TRUE, tab, input)
    BY <1>1, RunsOn
  <2>2. QED
    BY <1>20, <2>1
<1>5. QED
  BY <1>2, <1>3, <1>4 DEF Reads, Assembles, AssembleHex1, tab

(* If no label stands inside a byte, the first pass and the first walk go  *)
(* through the same states, and end with the same table.                   *)
LEMMA PassesMatch ==
  ASSUME TypeOK, Scanned, LabelsOutsideBytes
  PROVE  \A c \in Byte : table[c] = Target(FirstRun[Len(input)].table, c)
<1> DEFINE n == Len(input)
           Bad == {k \in 0 .. n : ~Match(mark[k + 1], FirstRun[k])}
<1>0. input \in Seq(Byte) /\ n \in Nat /\ mark \in Seq(Snapshot) /\ Len(mark) = n + 1
      /\ DOMAIN mark = 1 .. n + 1
  BY DEF TypeOK, Scanned
<1>1. Bad = {}
  <2>1. SUFFICES ASSUME Bad # {} PROVE FALSE
    OBVIOUS
  <2>2. Bad \in SUBSET Nat
    BY <1>0
  <2>3. PICK k \in Bad : \A j \in Bad : k <= j
    <3> HIDE DEF Bad
    <3>1. QED
      BY <2>1, <2>2, LeastOf
  <2>4. k # 0
    BY MatchStart, FirstRunSteps DEF Scanned
  <2>5. k \in 1 .. n /\ k - 1 \in 0 .. n /\ ~(k <= k - 1) /\ k - 1 + 1 = k
        /\ k \in DOMAIN mark /\ k \in 0 .. n
    BY <1>0, <2>4
  <2>6. Match(mark[k], FirstRun[k - 1])
    BY <2>3, <2>5
  <2>7. mark[k] \in Snapshot /\ FirstRun[k - 1] \in State /\ input[k] \in Byte
    BY <1>0, <2>5, FirstRunSteps
  <2>8. mark[k].at = "label" => mark[k].toggle = -1
    BY <2>5 DEF LabelsOutsideBytes
  <2>9. Match(After(mark[k], input[k]), Move(FALSE, << >>, FirstRun[k - 1], input[k]))
    BY <2>6, <2>7, <2>8, MatchStep
  <2>10. mark[k + 1] = After(mark[k], input[k])
    BY <2>5 DEF Scanned, Walked
  <2>11. FirstRun[k] = Move(FALSE, << >>, FirstRun[k - 1], input[k])
    BY <2>5, FirstRunSteps
  <2>12. Match(mark[k + 1], FirstRun[k])
    BY <2>9, <2>10, <2>11
  <2>13. QED
    BY <2>5, <2>12
<1>2. Match(mark[n + 1], FirstRun[n])
  BY <1>0, <1>1
<1>3. QED
  BY <1>2 DEF Match, Scanned

-----------------------------------------------------------------------------
(* hex1's second pass, beside the second walk. *)

(* store_pointer has counted a pointer before its name is read. *)
Beside(s) ==
  /\ s.comment <=> at = "comment"
  /\ s.name = 58 <=> at = "label"
  /\ s.name = 37 <=> at = "pointer"
  /\ s.ip = ip - Pending
  /\ s.hi = IF toggle = 0 THEN accum ELSE -1

(* assemble_hex1 waits for a name at the end of the source. *)
Unfinished == pos = Len(input) + 1 /\ SecondRun[Len(input)].name # 0

Sofar(s) == Begins(out, s.o) /\ (writable => out = s.o)

(* After the end, and after the pointer whose name could not be read. *)
Astray(s) ==
  /\ at = "loop" /\ AtEnd
  /\ Unfinished \/ (~readable /\ out # << >> /\ Begins(Front(out), s.o))

Sim ==
  /\ pass \in {"start", "first"} => out = << >>
  /\ pass \in {"second", "exit"} =>
       Scanned \/ (at = "loop" /\ ~readable /\ out = << >>)
  /\ (pass \in {"second", "exit"} /\ Scanned /\ LabelsOutsideBytes) =>
       /\ pass = "second" /\ readable => Beside(SecondRun[pos - 1]) \/ Unfinished
       /\ Sofar(SecondRun[pos - 1]) \/ Astray(SecondRun[pos - 1])
  /\ pass = "exit" /\ readable => pos = Len(input) + 1

LEMMA SimInit == Init => Sim
BY DEF Init, Sim

(* The steps that read no byte of the second pass and write nothing.       *)
LEMMA SimQuiet ==
  ASSUME IInv, Sim, Open \/ FirstByte \/ Kept \/ Finish
  PROVE  Sim'
<1>1. CASE Open
  BY <1>1 DEF Open, file, Sim
<1>2. CASE FirstByte
  BY <1>2 DEF FirstByte, file, Sim
<1>3. CASE Kept
  <2>1. /\ UNCHANGED <<input, pass, at, pos, ip, toggle, accum, table, out, mark>>
        /\ (readable' => readable) /\ (writable' => writable)
    BY <1>3 DEF Kept, file, history
  <2>2. /\ SecondRun' = SecondRun /\ Scanned' = Scanned
        /\ LabelsOutsideBytes' = LabelsOutsideBytes
        /\ Unfinished' = Unfinished /\ (AtEnd => AtEnd')
    BY <2>1 DEF SecondRun, FirstRun, Scanned, Walked, LabelsOutsideBytes, Unfinished,
                AtEnd
  <2>3. ASSUME NEW s
        PROVE  /\ Beside(s)' <=> Beside(s)
               /\ (Sofar(s) => Sofar(s)') /\ (Astray(s) => Astray(s)')
    BY <2>1, <2>2 DEF Beside, Pending, Sofar, Astray
  <2>4. QED
    BY <2>1, <2>2, <2>3 DEF Sim
<1>4. CASE Finish
  <2>1. /\ pass = "second" /\ pass' = "exit" /\ AtEnd
        /\ UNCHANGED <<input, readable, writable, at, pos, ip, toggle, accum, table,
                       out, mark>>
    BY <1>4 DEF Finish, files, file, history
  <2>2. /\ SecondRun' = SecondRun /\ Scanned' = Scanned
        /\ LabelsOutsideBytes' = LabelsOutsideBytes
        /\ Unfinished' = Unfinished /\ AtEnd' = AtEnd
    BY <2>1 DEF SecondRun, FirstRun, Scanned, Walked, LabelsOutsideBytes, Unfinished,
                AtEnd
  <2>3. ASSUME NEW s
        PROVE  (Sofar(s) => Sofar(s)') /\ (Astray(s) => Astray(s)')
    BY <2>1, <2>2 DEF Sofar, Astray
  <2>4. readable' => pos' = Len(input') + 1
    BY <2>1 DEF AtEnd, IInv, TypeOK
  <2>5. QED
    BY <2>1, <2>2, <2>3, <2>4 DEF Sim
<1>5. QED
  BY <1>1, <1>2, <1>3, <1>4

LEMMA SimRewind ==
  ASSUME IInv, IInv', Sim, RewindInput
  PROVE  Sim'
<1>1. /\ pass = "first" /\ pass' = "second" /\ at' = "loop" /\ pos' = 1
      /\ ip' = 0 /\ toggle' = -1 /\ out' = out /\ input' = input
      /\ readable' = readable
  BY DEF RewindInput, files, file
<1>2. out' = << >>
  BY <1>1 DEF Sim
<1>3. readable' => Scanned'
  BY <1>1 DEF IInv, Rewalk, Scanned
<1>4. SecondRun'[pos' - 1] = Start
  <2>1. SecondRun[0] = Start
    BY SecondRunSteps DEF IInv
  <2>2. SecondRun' = SecondRun
    BY <1>1 DEF SecondRun, FirstRun
  <2>3. QED
    BY <1>1, <2>1, <2>2
<1>5. Beside(Start)'
  BY <1>1 DEF Beside, Start, Pending
<1>6. Sofar(Start)'
  BY <1>2 DEF Sofar, Start, Begins
<1>7. QED
  BY <1>1, <1>2, <1>3, <1>4, <1>5, <1>6 DEF Sim

LEMMA FrontAppend ==
  ASSUME NEW u \in Seq(Writes), NEW w \in Writes
  PROVE  Front(Append(u, w)) = u /\ Append(u, w) # << >>
BY DEF Front

LEMMA SimDangling ==
  ASSUME IInv, Sim, DanglingPointer
  PROVE  Sim'
<1> DEFINE w == <<4, BelowTable - ip>>
           s == SecondRun[pos - 1]
<1>0. /\ pos \in Nat \ {0} /\ pos <= Len(input) + 1 /\ Len(input) \in Nat
      /\ ip \in Nat /\ out \in Seq(Writes)
  BY DEF IInv, TypeOK, Writes
<1>1. /\ pass = "second" /\ pass' = "second" /\ at = "pointer" /\ at' = "loop" /\ AtEnd
      /\ UNCHANGED <<input, readable, writable, pos, table, mark>>
      /\ out' = IF writable THEN Append(out, w) ELSE out
  BY DEF DanglingPointer, WriteN, files, history
<1>2. /\ SecondRun' = SecondRun /\ Scanned' = Scanned
      /\ LabelsOutsideBytes' = LabelsOutsideBytes
      /\ Unfinished' = Unfinished /\ AtEnd' = AtEnd
  BY <1>1 DEF SecondRun, FirstRun, Scanned, Walked, LabelsOutsideBytes, Unfinished,
              AtEnd
<1>3. Scanned
  BY <1>1 DEF Sim
<1>4. SUFFICES ASSUME LabelsOutsideBytes
               PROVE  /\ readable => Unfinished'
                      /\ Sofar(s)' \/ Astray(s)'
  <2>1. SecondRun'[pos' - 1] = s /\ s' = s
    BY <1>1, <1>2
  <2>2. QED
    BY <1>1, <1>2, <1>3, <2>1 DEF Sim
<1>5. Sofar(s) /\ (readable => Beside(s) \/ Unfinished)
  BY <1>1, <1>3, <1>4 DEF Sim, Astray
<1>6. CASE readable
  <2>1. pos = Len(input) + 1 /\ pos - 1 = Len(input)
    BY <1>0, <1>1, <1>6 DEF AtEnd
  <2>2. Unfinished
    BY <1>1, <1>5, <1>6, <2>1 DEF Beside, Unfinished
  <2>3. QED
    BY <1>1, <1>2, <2>2 DEF Astray
<1>7. CASE ~readable /\ writable
  <2>1. w \in Writes
    BY <1>0 DEF Writes, BelowTable
  <2>2. Front(out') = out /\ out' # << >>
    BY <1>0, <1>1, <1>7, <2>1, FrontAppend
  <2>3. QED
    BY <1>1, <1>2, <1>5, <1>7, <2>2 DEF Sofar, Astray
<1>8. CASE ~readable /\ ~writable
  BY <1>1, <1>2, <1>5, <1>8 DEF Sofar
<1>9. QED
  BY <1>6, <1>7, <1>8

(* A read of the second pass's, with what Move makes of the byte. *)
LEMMA SimReads ==
  ASSUME IInv, Sim, NEW a, Second(a), LabelsOutsideBytes
  PROVE  LET s == SecondRun[pos - 1]
             t == SecondRun[pos]
             c == input[pos]
         IN  /\ s \in State /\ t \in State /\ c \in Byte
             /\ MoveDoes(TRUE, FirstRun[Len(input)].table, s, c, t)
             /\ table[c] = Target(FirstRun[Len(input)].table, c)
             /\ Beside(s) /\ Sofar(s) /\ at = a
             /\ s.o \in Seq(Writes) /\ t.o \in Seq(Writes)
             /\ Begins(s.o, t.o) /\ Begins(out, t.o)
             /\ writable' = writable /\ out \in Seq(Writes)
<1>1. ReadAt("second", a)
  BY DEF Second
<1>2. /\ input[pos] \in Byte /\ pos \in 1 .. Len(input) /\ at = a
      /\ pass = "second" /\ readable /\ writable' = writable
  BY <1>1, ReadType DEF IInv
<1>3. ~AtEnd /\ ~Unfinished /\ Len(input) \in Nat /\ out \in Seq(Writes)
  BY <1>1, <1>2 DEF ReadAt, Unfinished, IInv, TypeOK, Writes
<1>4. Scanned
  BY <1>2 DEF Sim
<1>5. Beside(SecondRun[pos - 1]) /\ Sofar(SecondRun[pos - 1])
  BY <1>2, <1>3, <1>4 DEF Sim, Astray
<1>6. PICK i \in 1 .. Len(input) : i = pos
  BY <1>2
<1>7. i - 1 \in 0 .. Len(input) /\ i \in 0 .. Len(input)
  BY <1>3
<1>8. SecondRun[i - 1] \in State /\ SecondRun[i] \in State
      /\ SecondRun[i] = Move(TRUE, FirstRun[Len(input)].table,
                             SecondRun[i - 1], input[i])
  BY <1>7, SecondRunSteps DEF IInv
<1>9. FirstRun[Len(input)].table \in Tables
  BY FirstRunSteps DEF IInv
<1>10. TRUE \in BOOLEAN
  OBVIOUS
<1>11. /\ MoveDoes(TRUE, FirstRun[Len(input)].table, SecondRun[i - 1], input[i],
                   SecondRun[i])
       /\ Begins(SecondRun[i - 1].o, SecondRun[i].o)
  BY <1>2, <1>6, <1>8, <1>9, <1>10, MoveEffect, MoveGrows
<1>12. table[input[pos]] = Target(FirstRun[Len(input)].table, input[pos])
  BY <1>2, <1>4, PassesMatch DEF IInv
<1>13. SecondRun[i - 1].o \in Seq(Writes) /\ SecondRun[i].o \in Seq(Writes)
  BY <1>8 DEF State
<1>14. Begins(out, SecondRun[i].o)
  BY <1>3, <1>5, <1>6, <1>11, <1>13, BeginsOn DEF Sofar
<1>15. QED
  BY <1>2, <1>3, <1>5, <1>6, <1>8, <1>11, <1>12, <1>13, <1>14

(* What every byte of the second pass leaves to the rest of it. *)
LEMMA SimByte ==
  ASSUME IInv, Sim, NEW a, Second(a), NEW t, t = SecondRun[pos],
         LabelsOutsideBytes => Beside(t)' /\ Sofar(t)'
  PROVE  Sim'
<1>1. ReadAt("second", a) /\ UNCHANGED <<table, mark>>
  BY DEF Second
<1>2. /\ pass = "second" /\ pass' = "second" /\ readable
      /\ pos \in 1 .. Len(input) /\ pos' = pos + 1
      /\ UNCHANGED <<input, readable, writable, table, mark>>
  BY <1>1, ReadType DEF IInv
<1>3. /\ SecondRun' = SecondRun /\ Scanned' = Scanned
      /\ LabelsOutsideBytes' = LabelsOutsideBytes
  BY <1>2 DEF SecondRun, FirstRun, Scanned, Walked, LabelsOutsideBytes
<1>4. Scanned
  BY <1>2 DEF Sim
<1>5. pos' - 1 = pos
  BY <1>2 DEF IInv, TypeOK
<1>6. SecondRun'[pos' - 1] = t
  BY <1>3, <1>5
<1>7. LabelsOutsideBytes' => Beside(t)' /\ Sofar(t)'
  BY <1>3
<1>8. QED
  BY <1>2, <1>3, <1>4, <1>6, <1>7 DEF Sim

LEMMA SimSecond ==
  ASSUME IInv, Sim, SecondActions
  PROVE  Sim'
<1>1. PICK a \in Place : Second(a)
  BY DEF SecondActions, DispatchSecond, BeginPointer, StorePointer, DropName,
         HoldDigit, PrintByte, CommentSecond, Place
<1>2. PICK s : s = SecondRun[pos - 1]
  OBVIOUS
<1>3. PICK t : t = SecondRun[pos]
  OBVIOUS
<1>4. PICK c : c = input[pos]
  OBVIOUS
<1>5. PICK tab : tab = FirstRun[Len(input)].table
  OBVIOUS
<1>6. SUFFICES ASSUME LabelsOutsideBytes PROVE Beside(t)' /\ Sofar(t)'
  BY <1>1, <1>3, SimByte
<1>7. /\ s \in State /\ t \in State /\ c \in Byte /\ MoveDoes(TRUE, tab, s, c, t)
      /\ table[c] = Target(tab, c) /\ Beside(s) /\ Sofar(s) /\ at = a
      /\ s.o \in Seq(Writes) /\ t.o \in Seq(Writes)
      /\ Begins(s.o, t.o) /\ Begins(out, t.o)
      /\ writable' = writable /\ out \in Seq(Writes)
  BY <1>1, <1>2, <1>3, <1>4, <1>5, <1>6, SimReads
<1>8. /\ s.name \in {0, 37, 58} /\ s.ip \in Nat /\ s.hi \in -1 .. 15
      /\ s.comment \in BOOLEAN /\ ip \in Nat /\ toggle \in {-1, 0} /\ accum \in 0 .. 15
  BY <1>7 DEF State, IInv, TypeOK
<1>9. /\ s.comment <=> at = "comment"
      /\ s.name = 58 <=> at = "label"
      /\ s.name = 37 <=> at = "pointer"
      /\ s.ip = ip - Pending
      /\ s.hi = IF toggle = 0 THEN accum ELSE -1
  BY <1>7 DEF Beside
<1>10. Hex(c) \in -1 .. 15 /\ (IsComment(c) => Hex(c) = -1)
       /\ (c \in {58, 37} => Hex(c) = -1 /\ ~IsComment(c))
  BY <1>7, ByteKinds
<1>11. Enters(c) = IF c = 58 THEN "label" ELSE IF c = 37 THEN "pointer"
                   ELSE IF IsComment(c) THEN "comment" ELSE "loop"
  BY <1>10 DEF Enters, Colon, Percent
<1>12. ASSUME NEW w \in Writes, t.o = Append(s.o, w),
              out' = IF writable THEN Append(out, w) ELSE out
       PROVE  Sofar(t)'
  <2>1. Begins(t.o, t.o)
    BY <1>7, BeginsItself
  <2>2. out' = out \/ out' = t.o
    BY <1>7, <1>12 DEF Sofar
  <2>3. writable' => out' = t.o
    BY <1>7, <1>12 DEF Sofar
  <2>4. QED
    BY <1>7, <2>1, <2>2, <2>3 DEF Sofar
<1>13. ASSUME t.o = s.o, out' = out
       PROVE  Sofar(t)'
  BY <1>7, <1>13 DEF Sofar
<1>14. CASE DispatchSecond
  <2>1. /\ at = "loop" /\ Hex(c) = -1 /\ c # 37 /\ at' = Enters(c)
        /\ UNCHANGED <<ip, toggle, accum, out>>
    BY <1>4, <1>10, <1>14 DEF DispatchSecond, Second, ReadAt, Percent, file
  <2>2. s.name = 0 /\ ~s.comment /\ Pending = 0
    BY <1>8, <1>9, <2>1 DEF Pending
  <2>3. Pending' = 0
    BY <1>11, <2>1 DEF Pending
  <2>4. CASE c = 58
    <3>1. ~t.comment /\ t.name = 58 /\ t.ip = s.ip /\ t.hi = s.hi /\ t.o = s.o
      BY <1>7, <2>2, <2>4 DEF MoveDoes
    <3>2. at' = "label"
      BY <1>11, <2>1, <2>4
    <3>3. QED
      BY <1>9, <1>13, <2>1, <2>2, <2>3, <3>1, <3>2 DEF Beside
  <2>5. CASE c # 58
    <3>1. CommonDoes(s, c, t)
      BY <1>7, <2>1, <2>2, <2>5 DEF MoveDoes
    <3>2. (t.comment <=> IsComment(c)) /\ t.name = 0 /\ t.ip = s.ip /\ t.hi = s.hi
          /\ t.o = s.o
      BY <2>1, <2>2, <3>1 DEF CommonDoes
    <3>3. at' = IF IsComment(c) THEN "comment" ELSE "loop"
      BY <1>11, <2>1, <2>5
    <3>4. QED
      BY <1>9, <1>13, <2>1, <2>2, <2>3, <3>2, <3>3 DEF Beside
  <2>6. QED
    BY <2>4, <2>5
<1>15. CASE BeginPointer
  <2>1. /\ at = "loop" /\ c = 37 /\ at' = "pointer" /\ ip' = ip + 4
        /\ UNCHANGED <<toggle, accum, out>>
    BY <1>4, <1>15 DEF BeginPointer, Second, ReadAt, Percent, file
  <2>2. s.name = 0 /\ ~s.comment /\ Pending = 0 /\ Pending' = 4
    BY <1>8, <1>9, <2>1 DEF Pending
  <2>3. ~t.comment /\ t.name = 37 /\ t.ip = s.ip /\ t.hi = s.hi /\ t.o = s.o
    BY <1>7, <2>1, <2>2 DEF MoveDoes
  <2>4. t.ip = ip' - Pending'
    BY <1>8, <1>9, <2>1, <2>2, <2>3
  <2>5. QED
    BY <1>9, <1>13, <2>1, <2>3, <2>4 DEF Beside
<1>16. CASE StorePointer
  <2> DEFINE w == <<4, table[c] - ip>>
  <2>1. /\ at = "pointer" /\ at' = "loop"
        /\ out' = IF writable THEN Append(out, w) ELSE out
        /\ UNCHANGED <<ip, toggle, accum>>
    BY <1>4, <1>16 DEF StorePointer, Second, ReadAt, WriteN
  <2>2. s.name = 37 /\ ~s.comment /\ Pending = 4 /\ Pending' = 0 /\ s.ip + 4 = ip
    BY <1>8, <1>9, <2>1 DEF Pending
  <2>3. ~t.comment /\ t.name = 0 /\ t.ip = s.ip + 4 /\ t.hi = s.hi
        /\ t.o = Append(s.o, <<4, Target(tab, c) - (s.ip + 4)>>)
    BY <1>7, <2>2 DEF MoveDoes
  <2>4. w = <<4, Target(tab, c) - (s.ip + 4)>>
    BY <1>7, <2>2
  <2>5. w \in Writes
    <3>1. table[c] \in Nat
      BY <1>7 DEF IInv, TypeOK
    <3>2. QED
      BY <1>8, <3>1 DEF Writes
  <2> HIDE DEF w
  <2>6. Sofar(t)'
    BY <1>12, <2>1, <2>3, <2>4, <2>5
  <2>7. t.ip = ip' - Pending'
    BY <1>8, <2>1, <2>2, <2>3
  <2>8. QED
    BY <1>9, <2>1, <2>3, <2>6, <2>7 DEF Beside
<1>17. CASE DropName
  <2>1. /\ at = "label" /\ at' = "loop"
        /\ UNCHANGED <<ip, toggle, accum, out>>
    BY <1>17 DEF DropName, Second, ReadAt, file
  <2>2. s.name = 58 /\ ~s.comment /\ Pending = 0 /\ Pending' = 0
    BY <1>8, <1>9, <2>1 DEF Pending
  <2>3. ~t.comment /\ t.name = 0 /\ t.ip = s.ip /\ t.hi = s.hi /\ t.o = s.o
    BY <1>7, <2>2 DEF MoveDoes
  <2>4. QED
    BY <1>9, <1>13, <2>1, <2>2, <2>3 DEF Beside
<1>18. CASE HoldDigit
  <2>1. /\ at = "loop" /\ at' = at /\ Hex(c) >= 0 /\ toggle # 0
        /\ accum' = Hex(c) /\ toggle' = 0 /\ ip' = ip /\ out' = out
    BY <1>4, <1>18 DEF HoldDigit, Second, ReadAt, file
  <2>2. s.name = 0 /\ ~s.comment /\ Pending = 0 /\ Pending' = 0 /\ s.hi = -1
    BY <1>8, <1>9, <2>1 DEF Pending
  <2>3. CommonDoes(s, c, t)
    BY <1>7, <1>10, <2>1, <2>2 DEF MoveDoes
  <2>4. ~t.comment /\ t.name = 0 /\ t.ip = s.ip /\ t.hi = Hex(c) /\ t.o = s.o
    BY <1>10, <2>1, <2>2, <2>3 DEF CommonDoes
  <2>5. QED
    BY <1>9, <1>13, <2>1, <2>2, <2>4 DEF Beside
<1>19. CASE PrintByte
  <2> DEFINE w == <<1, 16 * accum + Hex(c)>>
  <2>1. /\ at = "loop" /\ at' = at /\ Hex(c) >= 0 /\ toggle = 0
        /\ out' = IF writable THEN Append(out, w) ELSE out
        /\ toggle' = -1 /\ ip' = ip + 1 /\ accum' = accum
    BY <1>4, <1>19 DEF PrintByte, Second, ReadAt, WriteN
  <2>2. s.name = 0 /\ ~s.comment /\ Pending = 0 /\ Pending' = 0 /\ s.hi = accum
        /\ s.hi # -1
    BY <1>8, <1>9, <2>1 DEF Pending
  <2>3. CommonDoes(s, c, t)
    BY <1>7, <1>10, <2>1, <2>2 DEF MoveDoes
  <2>4. ~t.comment /\ t.name = 0 /\ t.ip = s.ip + 1 /\ t.hi = -1
        /\ t.o = Append(s.o, w)
    BY <1>10, <2>1, <2>2, <2>3 DEF CommonDoes
  <2>5. w \in Writes
    <3>1. accum \in Int /\ Hex(c) \in Int
      BY <1>8, <1>10
    <3>2. 16 * accum + Hex(c) \in Int
      BY <3>1
    <3>3. QED
      BY <3>2 DEF Writes
  <2> HIDE DEF w
  <2>6. Sofar(t)'
    BY <1>12, <2>1, <2>4, <2>5
  <2>7. t.ip = ip' - Pending'
    BY <1>8, <1>9, <2>1, <2>2, <2>4
  <2>8. QED
    BY <1>9, <2>1, <2>4, <2>6, <2>7 DEF Beside
<1>20. CASE CommentSecond
  <2>1. /\ at = "comment" /\ at' = IF c = Newline THEN "loop" ELSE "comment"
        /\ UNCHANGED <<ip, toggle, accum, out>>
    BY <1>4, <1>20 DEF CommentSecond, Second, ReadAt, file
  <2>2. s.name = 0 /\ s.comment /\ Pending = 0 /\ Pending' = 0
    BY <1>8, <1>9, <2>1 DEF Pending
  <2>3. CommonDoes(s, c, t)
    BY <1>7, <2>2 DEF MoveDoes
  <2>4. (t.comment <=> c # Newline) /\ t.name = 0 /\ t.ip = s.ip /\ t.hi = s.hi
        /\ t.o = s.o
    BY <2>2, <2>3 DEF CommonDoes
  <2>5. QED
    BY <1>9, <1>13, <2>1, <2>2, <2>4 DEF Beside
<1>21. QED
  BY <1>14, <1>15, <1>16, <1>17, <1>18, <1>19, <1>20 DEF SecondActions

LEMMA SimStep ==
  ASSUME IInv, Sim, [Next]_vars
  PROVE  Sim'
<1>1. IInv'
  BY NextInv
<1>2. CASE RewindInput
  BY <1>1, <1>2, SimRewind
<1>3. CASE DanglingPointer
  BY <1>3, SimDangling
<1>4. CASE SecondActions
  BY <1>4, SimSecond
<1>5. CASE FirstActions
  BY <1>5, FirstPassByte, SimQuiet DEF IInv
<1>6. CASE Open \/ Finish
  BY <1>6, SimQuiet
<1>7. CASE Quiet
  BY <1>7, QuietKeeps, SimQuiet
<1>8. QED
  BY <1>2, <1>3, <1>4, <1>5, <1>6, <1>7
     DEF Next, Program, SecondActions, FirstActions, Quiet

-----------------------------------------------------------------------------
(* Either program. *)

OneInv == /\ tool \in {"hex0", "hex1"}
          /\ tool = "hex0" => SeedInv
          /\ tool = "hex1" => IInv /\ Sim

LEMMA OneInitInv == OneInit => OneInv
BY SeedInit, InitInv, SimInit DEF OneInit, OneInv

LEMMA OneNextInv == OneInv /\ [OneNext]_<<vars, tool>> => OneInv'
<1> SUFFICES ASSUME OneInv, [OneNext]_<<vars, tool>> PROVE OneInv'
  OBVIOUS
<1>1. tool' = tool
  BY DEF OneNext, OneProgram, Losing
<1>2. CASE tool = "hex1"
  <2>1. [Next]_vars
    BY <1>2 DEF OneNext, OneProgram, Hex0Step, Hex1Step, Losing, Next
  <2>2. QED
    BY <1>1, <1>2, <2>1, NextInv, SimStep DEF OneInv
<1>3. CASE tool = "hex0"
  <2>1. SeedInv
    BY <1>3 DEF OneInv
  <2>2. CASE Hex0Step
    BY <1>1, <1>3, <2>1, <2>2, SeedStep DEF Hex0Step, OneInv
  <2>3. CASE Losing
    BY <1>1, <1>3, <2>1, <2>3, SeedLoses DEF Losing, OneInv
  <2>4. CASE UNCHANGED <<vars, tool>>
    <3>1. UNCHANGED <<input, readable, writable, pass, at, pos, ip, toggle, accum,
                      table, out, written, rels, mark, lands>>
      BY <2>4 DEF vars, files, file, history
    <3>2. SeedInv'
      BY <2>1, <3>1 DEF SeedInv, Seed, SeedRun, TypeOK, AtEnd
    <3>3. QED
      BY <1>1, <1>3, <3>2 DEF OneInv
  <2>5. QED
    BY <1>3, <2>2, <2>3, <2>4 DEF OneNext, OneProgram, Hex1Step
<1>4. QED
  BY <1>2, <1>3 DEF OneInv

LEMMA OneInductive == OneSpec => []OneInv
BY OneInitInv, OneNextInv, PTL DEF OneSpec

(* What holds of hex1 holds of it in the company of the seed, too: its     *)
(* state is always of its type and its pointers lead to their labels.      *)
THEOREM EitherIsSound == OneSpec => [](TypeOK /\ PointersHit)
<1>1. OneInv => TypeOK /\ PointersHit
  BY DEF OneInv, SeedInv, IInv, Hit, Landed, PointersHit
<1>2. QED
  BY <1>1, OneInductive, PTL

(* The seed writes what assemble_hex0 assembles, whatever the input: what  *)
(* a loss leaves in its file is the beginning of that.                     *)
THEOREM SeedAgrees == OneSpec => []SeedAsSimulated
<1>1. OneInv => SeedAsSimulated
  <2> SUFFICES ASSUME OneInv, tool = "hex0", pass = "exit"
               PROVE  /\ IsPrefix(out, AssembleHex0(input))
                      /\ Whole => out = AssembleHex0(input)
    BY DEF SeedAsSimulated
  <2> DEFINE n == Len(input)
             r == SeedRun
  <2>1. SeedInv
    BY DEF OneInv
  <2>2. pos - 1 \in 0 .. n /\ n \in Nat /\ n \in 0 .. n /\ out \in Seq(Writes)
    BY <2>1 DEF SeedInv, TypeOK, Writes
  <2>3. /\ r[pos - 1] \in State /\ r[n] \in State
        /\ Begins(r[pos - 1].o, r[n].o) /\ r[n].o = AssembleHex0(input)
    BY <2>1, <2>2, SeedRunSteps DEF SeedInv
  <2>4. /\ Begins(out, r[pos - 1].o) /\ (writable => out = r[pos - 1].o)
        /\ (readable => pos = n + 1)
    BY <2>1 DEF SeedInv, Seed
  <2>5. r[pos - 1].o \in Seq(Writes) /\ r[n].o \in Seq(Writes)
    BY <2>3 DEF State
  <2>6. Begins(out, r[n].o)
    BY <2>2, <2>3, <2>4, <2>5, BeginsOn
  <2>7. IsPrefix(out, r[n].o)
    BY <2>2, <2>5, <2>6, BeginsIsPrefix
  <2>8. Whole => pos - 1 = n
    BY <2>2, <2>4 DEF Whole
  <2> HIDE DEF r
  <2>9. QED
    BY <2>3, <2>4, <2>7, <2>8 DEF Whole
<1>2. QED
  BY <1>1, OneInductive, PTL

(* hex1 writes what assemble_hex1 assembles, on every input the simulator  *)
(* accepts and whose labels stand between bytes; a lost input costs one    *)
(* pointer, the last, and a lost output the end of the file.               *)
THEOREM LinkerAgrees == OneSpec => []AsSimulated
<1>1. OneInv => AsSimulated
  <2> DEFINE n == Len(input)
             sim == AssembleHex1(input)
             s == SecondRun[pos - 1]
  <2> SUFFICES ASSUME OneInv, tool = "hex1", pass = "exit", LabelsOutsideBytes,
                      sim.name = 0
               PROVE  /\ readable \/ out = << >> \/ IsPrefix(Front(out), sim.o)
                      /\ readable => IsPrefix(out, sim.o)
                      /\ Whole => out = sim.o
    BY DEF AsSimulated
  <2>1. IInv /\ Sim
    BY DEF OneInv
  <2>2. /\ pos - 1 \in 0 .. n /\ n \in Nat /\ n \in 0 .. n /\ out \in Seq(Writes)
        /\ readable \in BOOLEAN
    BY <2>1 DEF IInv, TypeOK, Writes
  <2>3. CASE ~Scanned
    BY <2>1, <2>3 DEF Sim, Whole
  <2>4. CASE Scanned
    <3>1. /\ s \in State /\ SecondRun[n] \in State
          /\ Begins(s.o, SecondRun[n].o) /\ SecondRun[n] = sim
      BY <2>1, <2>2, SecondRunSteps DEF IInv
    <3>2. s.o \in Seq(Writes) /\ sim.o \in Seq(Writes)
      BY <3>1 DEF State
    <3>3. ~Unfinished
      BY <3>1 DEF Unfinished
    <3>4. Sofar(s) \/ (~readable /\ out # << >> /\ Begins(Front(out), s.o))
      BY <2>1, <2>4, <3>3 DEF Sim, Astray
    <3>5. readable => pos = n + 1
      BY <2>1 DEF Sim
    <3>6. Whole => out = sim.o
      <4>1. Whole => Sofar(s) /\ pos - 1 = n
        BY <2>2, <3>4, <3>5 DEF Whole
      <4>2. QED
        BY <3>1, <4>1 DEF Whole, Sofar
    <3>7. Begins(out, s.o) => IsPrefix(out, sim.o)
      BY <2>2, <3>1, <3>2, BeginsOn, BeginsIsPrefix
    <3>8. out # << >> => Front(out) \in Seq(Writes) /\ Begins(Front(out), out)
      BY <2>2 DEF Front, Begins
    <3>9. out # << >> /\ Begins(Front(out), s.o) => IsPrefix(Front(out), sim.o)
      BY <3>1, <3>2, <3>8, BeginsOn, BeginsIsPrefix
    <3>10. out # << >> /\ Begins(out, s.o) => Begins(Front(out), s.o)
      BY <2>2, <3>2, <3>8, BeginsOn
    <3> HIDE DEF s, sim
    <3>11. QED
      BY <3>4, <3>6, <3>7, <3>9, <3>10 DEF Sofar
  <2>5. QED
    BY <2>3, <2>4
<1>2. QED
  BY <1>1, OneInductive, PTL
=============================================================================
