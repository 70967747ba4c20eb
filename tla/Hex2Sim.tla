------------------------------ MODULE Hex2Sim ------------------------------
(***************************************************************************)
(* assemble_hex2 (x86/Development/pe32hdr.py), the assembler the           *)
(* generators use to check what they emit, beside the linker it stands     *)
(* for.  Its docstring says it resolves labels "over two passes exactly    *)
(* as the ported hex2 does".                                               *)
(***************************************************************************)
EXTENDS Hex2, SequencesExt

Start == [ip |-> OUT_BASE, hi |-> -1, table |-> << >>, o |-> << >>,
          keyError |-> FALSE]

(* A dictionary, with one more entry or another value for one it has.      *)
Assign(tab, n, v) == [k \in DOMAIN tab \cup {n} |-> IF k = n THEN v ELSE tab[k]]

Place(s, item) == [s EXCEPT !.table = Assign(@, item.name, s.ip)]

Nibble(s, item) ==
  IF s.hi = -1
    THEN [s EXCEPT !.hi = item.v]
    ELSE [s EXCEPT !.o = Append(@, [width |-> 1,
                                    value |-> 16 * s.hi + item.v]),
                   !.ip = @ + 1, !.hi = -1]

(* An empty base name is false in Python, like no base at all. *)
Pointer(s, item, tab) ==
  LET size  == PWidth(item.sigil)
      based == ~PAbs(item.sigil) /\ item.base \notin {None, <<Blank>>}
      base  == IF based THEN tab[item.base] ELSE s.ip + size
      bad   == \/ item.name \notin DOMAIN tab
               \/ based /\ item.base \notin DOMAIN tab
      v     == IF PAbs(item.sigil)
                 THEN tab[item.name] ELSE tab[item.name] - base
  IN  IF bad THEN [s EXCEPT !.keyError = TRUE]
      ELSE [s EXCEPT !.ip = @ + size,
                     !.o = Append(@, [width |-> size,
                                      value |-> Low(v, size)])]

(* One walk over the source; emit is false for the first. *)
Walk(emit, tab, p) ==
  LET Step(s, item) ==
        CASE item.kind = "label"   -> IF emit THEN s ELSE Place(s, item)
          [] item.kind = "digit"   -> Nibble(s, item)
          [] item.kind = "ignored" -> s
          [] item.kind = "pointer" ->
               IF emit THEN Pointer(s, item, tab)
                       ELSE [s EXCEPT !.ip = @ + PWidth(item.sigil)]
  IN  FoldLeft(Step, Start, p)

AssembleHex2(p) == Walk(TRUE, Walk(FALSE, << >>, p).table, p)

-----------------------------------------------------------------------------
(* What the linker did with the input, in the simulator's terms. *)
Agrees ==
  LET sim == AssembleHex2(prog)
  IN  IF sim.keyError THEN code = 1 ELSE code = 0 /\ out = sim.o

Labels == {i \in DOMAIN prog : IsLabel(i)}

(* No byte is split by a label or a pointer between its two digits. *)
HalfRead(i) == Cardinality({j \in 1 .. i - 1 : prog[j].kind = "digit"}) % 2 = 1
Unsplit == \A i \in DOMAIN prog : IsLabel(i) \/ IsPointer(i) => ~HalfRead(i)

Distinct == \A i, j \in Labels : prog[i].name = prog[j].name => i = j

(* A base that Python never looks up and the port does. *)
IdleBase == \E i \in DOMAIN prog :
  /\ IsPointer(i)
  /\ prog[i].base # None
  /\ prog[i].base = <<Blank>> \/ PAbs(prog[i].sigil)

(* What a loss leaves in the file is the beginning of what the simulator   *)
(* emits, but for one pointer: the one whose name could not be read.       *)
AgreesSoFar ==
  LET sim == AssembleHex2(prog)
  IN  IsPrefix(out, sim.o) \/ (~readable /\ IsPrefix(Front(out), sim.o))

(***************************************************************************)
(* On every input the generators write (each name defined once, no byte    *)
(* split, a base only where it is used), the port and the simulator emit   *)
(* the same bytes and refuse the same inputs, as long as the table holds   *)
(* the labels; and if a file fails on the way, in either pass or between   *)
(* the two, no wrong byte is written but the broken pointer's.             *)
(***************************************************************************)
AgreesOnPlain ==
  (/\ pc = "exit"
   /\ Unsplit /\ Distinct /\ ~IdleBase
   /\ Cardinality(Labels) < NLAB)
  => IF readable /\ writable THEN Agrees ELSE AgreesSoFar

(***************************************************************************)
(* assemble_hex2's docstring: "resolved over two passes exactly as the     *)
(* ported hex2 does".  The input is any the table can hold, and no file is *)
(* lost.                                                                   *)
(***************************************************************************)
SimulatorIsExact ==
  (pc = "exit" /\ readable /\ writable /\ Cardinality(Labels) < NLAB) => Agrees
=============================================================================
