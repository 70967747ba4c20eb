----------------------------- MODULE Stage0Sim -----------------------------
(***************************************************************************)
(* assemble_hex0 and assemble_hex1 (x86/Development/stage0asm.py), the     *)
(* assemblers the generators check their output with, beside the two       *)
(* programs they stand for.  The initial state says which program runs.    *)
(***************************************************************************)
EXTENDS Hex1, SequencesExt

VARIABLE tool      (* "hex0" or "hex1" *)

H0 == INSTANCE Hex0

-----------------------------------------------------------------------------
(* The 22 characters of "0123456789abcdefABCDEF", and int(ch, 16). *)
Digits == <<48, 49, 50, 51, 52, 53, 54, 55, 56, 57,
            97, 98, 99, 100, 101, 102, 65, 66, 67, 68, 69, 70>>
DigitAt(c) == SelectInSeq(Digits, LAMBDA x : x = c)
Value(c)   == IF DigitAt(c) > 16 THEN DigitAt(c) - 7 ELSE DigitAt(c) - 1

(* A walk's place in the source; name is set while a sigil waits for its   *)
(* character, and still set at the end if there is none (IndexError).      *)
Start == [comment |-> FALSE, name |-> 0, ip |-> 0, hi |-> -1,
          o |-> << >>, table |-> << >>]

Nibble(s, v) ==
  IF s.hi = -1 THEN [s EXCEPT !.hi = v]
  ELSE [s EXCEPT !.o = Append(@, <<1, 16 * s.hi + v>>),
                 !.ip = @ + 1, !.hi = -1]

(* Comments and digits, which both languages have. *)
Common(s, c) ==
  IF s.comment           THEN [s EXCEPT !.comment = c # 10]
  ELSE IF c \in {35, 59} THEN [s EXCEPT !.comment = TRUE]
  ELSE IF DigitAt(c) # 0 THEN Nibble(s, Value(c))
  ELSE s

AssembleHex0(src) == FoldLeft(Common, Start, src).o

(* A dictionary, with one more entry or another value for one it has.      *)
Assign(tab, c, v) == [k \in DOMAIN tab \cup {c} |-> IF k = c THEN v ELSE tab[k]]

Target(tab, c) == IF c \in DOMAIN tab THEN tab[c] ELSE 0

Named(s, c, emit, tab) ==
  IF s.name = 58
    THEN [s EXCEPT !.name = 0,
                   !.table = IF emit THEN @ ELSE Assign(@, c, s.ip)]
    ELSE [s EXCEPT !.name = 0, !.ip = @ + 4,
                   !.o = Append(@, <<4, Target(tab, c) - (s.ip + 4)>>)]

(* The first walk's bytes are thrown away, so it may collect them too. *)
Walk(emit, tab, src) ==
  LET Step(s, c) ==
        IF s.name # 0 THEN Named(s, c, emit, tab)
        ELSE IF ~s.comment /\ c \in {58, 37} THEN [s EXCEPT !.name = c]
        ELSE Common(s, c)
  IN  FoldLeft(Step, Start, src)

AssembleHex1(src) == Walk(TRUE, Walk(FALSE, << >>, src).table, src)

-----------------------------------------------------------------------------
OneInit == tool \in {"hex0", "hex1"} /\ Init

Hex0Step == tool = "hex0" /\ H0!Next
              /\ UNCHANGED <<ip, table, written, rels, history>>

Hex1Step == tool = "hex1" /\ Program

OneProgram == (Hex0Step \/ Hex1Step) /\ UNCHANGED tool

Losing == (LoseInput \/ LoseOutput) /\ UNCHANGED tool

OneNext == OneProgram \/ Losing

(* Each program is one thread that never waits; nothing has to be lost. *)
OneSpec == /\ OneInit /\ [][OneNext]_<<vars, tool>>
           /\ WF_<<vars, tool>>(OneProgram)

-----------------------------------------------------------------------------
Whole == readable /\ writable

(***************************************************************************)
(* The seed writes what assemble_hex0 says it does, byte after byte: what  *)
(* a loss leaves in the file is the beginning of that, and if both files   *)
(* lasted to the end it is all of it.                                      *)
(***************************************************************************)
SeedAsSimulated ==
  (tool = "hex0" /\ pass = "exit") =>
    /\ IsPrefix(out, AssembleHex0(input))
    /\ Whole => out = AssembleHex0(input)

(* No label stands between the two digits of a byte. *)
LabelsOutsideBytes ==
  \A i \in DOMAIN mark : mark[i].at = "label" => mark[i].toggle = -1

(***************************************************************************)
(* hex1 writes what assemble_hex1 says it does, on the inputs the latter   *)
(* accepts and whose labels stand between bytes.  After the input is lost  *)
(* what the file holds is still the beginning of it, but for one pointer:  *)
(* the one whose name could not be read.                                   *)
(***************************************************************************)
AsSimulated ==
  (tool = "hex1" /\ pass = "exit" /\ LabelsOutsideBytes) =>
    LET sim == AssembleHex1(input)
    IN  sim.name = 0 =>
          /\ readable \/ out = << >> \/ IsPrefix(Front(out), sim.o)
          /\ readable => IsPrefix(out, sim.o)
          /\ Whole => out = sim.o

(***************************************************************************)
(* Both programs end on every input, whatever is lost on the way: every    *)
(* read_byte has a use for the end of the file.                            *)
(***************************************************************************)
Termination == <>(pass = "exit")
=============================================================================
