-------------------------------- MODULE Hex1 --------------------------------
(***************************************************************************)
(* hex1_pe32 (x86/Development/gen_hex1.py): hex0 plus one-character labels *)
(* and four-byte relative pointers, resolved in two passes over the input. *)
(*                                                                         *)
(* One call of read_byte, with what is done to its answer, is one step.    *)
(* As in hex0 a read that fails is the end of the file, no other status is *)
(* looked at, and the exit status is always 0.                             *)
(***************************************************************************)
EXTENDS Integers, Sequences

CONSTANTS
  Byte,      (* the bytes an input can hold                                 *)
  Inputs     (* the input files                                             *)

ASSUME InputAssumption == Byte \subseteq 0 .. 255 /\ Inputs \subseteq Seq(Byte)

VARIABLES
  input,     (* the input file                                              *)
  pass,      (* "start" before the files are opened, "first", "second",     *)
             (* "exit"                                                      *)
  at,        (* which read_byte comes next: the pass's own ("loop"), the    *)
             (* one for a label's or a pointer's character, a comment's     *)
  pos,       (* the byte it will meet                                       *)
  ip,        (* output position, counted by both passes                     *)
  toggle,    (* -1: no digit pending; 0: half a byte has been read          *)
  accum,     (* that half                                                   *)
  table,     (* an output position for every character, 0 at first          *)
  out,       (* the writes made so far: <<length, value>>                   *)
  readable,  (* in_handle is an open file that can still be read            *)
  writable,  (* out_handle is an open file that can still be written        *)
  written,   (* the length of the output file                               *)
  mark,      (* history: the first pass's registers before each read        *)
  lands,     (* history: where the output file was as the second pass came  *)
             (* to each character's last label                              *)
  rels       (* history: the pointers in the file, with where each ends     *)

files   == <<input, readable, writable>>
file    == <<out, written, rels>>
history == <<mark, lands>>
vars    == <<files, pass, at, pos, ip, toggle, accum, table, file, history>>

-----------------------------------------------------------------------------
Colon   == 58
Percent == 37
Newline == 10

IsComment(c) == c \in {35, 59}               \* '#', ';'

(* hex: the value of a digit, -1 for a byte that carries none. *)
Hex(c) == CASE c \in 48 .. 57  -> c - 48     \* '0' .. '9'
            [] c \in 65 .. 70  -> c - 55     \* 'A' .. 'F'
            [] c \in 97 .. 102 -> c - 87     \* 'a' .. 'f'
            [] OTHER -> -1

AtEnd == ~readable \/ pos > Len(input)

(* read_byte, answered with a byte of the file. *)
ReadAt(p, a) ==
  /\ pass = p /\ at = a /\ ~AtEnd
  /\ pos' = pos + 1
  /\ UNCHANGED <<files, pass>>

Registers == [at |-> at, ip |-> ip, toggle |-> toggle, table |-> table]

First(a) ==
  /\ ReadAt("first", a)
  /\ mark' = Append(mark, Registers)
  /\ UNCHANGED <<accum, file, lands>>

Second(a) ==
  /\ ReadAt("second", a)
  /\ UNCHANGED <<table, mark>>

(* write_n: nothing is written through a handle that cannot be. *)
WriteN(length, value) ==
  IF writable
    THEN out' = Append(out, <<length, value>>) /\ written' = written + length
    ELSE UNCHANGED <<out, written>>

(***************************************************************************)
(* _start up to the first pass.  Either file may fail to open: in_handle   *)
(* is then 0, and out_handle what NtCreateFile left in g_handle, which is  *)
(* 0 or the input's handle; none of these can be used.                     *)
(***************************************************************************)
Open ==
  /\ pass = "start" /\ pass' = "first"
  /\ readable' \in BOOLEAN /\ writable' \in BOOLEAN
  /\ UNCHANGED <<input, at, pos, ip, toggle, accum, table, file, history>>

-----------------------------------------------------------------------------
(* first_pass. *)

(* What a byte read by the loop of either pass leads to. *)
Enters(c) == CASE c = Colon     -> "label"
               [] c = Percent   -> "pointer"
               [] IsComment(c)  -> "comment"
               [] OTHER         -> "loop"

Dispatch ==
  /\ First("loop") /\ Hex(input[pos]) < 0
  /\ at' = Enters(input[pos])
  /\ UNCHANGED <<ip, toggle, table>>

(* A byte is counted at its first digit. *)
CountedAtSecond == toggle = 0                                      \* mutant
CountedAtFirst  == toggle # 0

NegToggle(t) == -t                                                 \* mutant
NotToggle(t) == -1 - t

CountDigit ==
  /\ First("loop") /\ Hex(input[pos]) >= 0
  /\ ip' = IF CountedAtFirst THEN ip + 1 ELSE ip
  /\ toggle' = NotToggle(toggle)
  /\ UNCHANGED <<at, table>>

KeepFirst(c) == IF table[c] # 0 THEN table[c] ELSE ip              \* mutant
SlotValue(c) == ip

StoreLabel ==
  /\ First("label")
  /\ table' = [table EXCEPT ![input[pos]] = SlotValue(input[pos])]
  /\ at' = "loop"
  /\ UNCHANGED <<ip, toggle>>

CountPointer ==
  /\ First("pointer")
  /\ ip' = ip + 4
  /\ at' = "loop"
  /\ UNCHANGED <<toggle, table>>

CommentFirst ==
  /\ First("comment")
  /\ at' = IF input[pos] = Newline THEN "loop" ELSE "comment"
  /\ UNCHANGED <<ip, toggle, table>>

(***************************************************************************)
(* The end of the file ends the first pass wherever it is met: in a        *)
(* comment hex hands the marker on, and after a ':' or a '%' the loop      *)
(* reads it again.  The -4 a ':' has then taken for a character names the  *)
(* slot 16 bytes before the table, across ip and toggle, and both are set  *)
(* again here before anything looks at them.                               *)
(***************************************************************************)
RewindInput ==
  /\ pass = "first" /\ AtEnd
  /\ pass' = "second" /\ at' = "loop" /\ pos' = 1
  /\ ip' = 0 /\ toggle' = -1
  /\ mark' = Append(mark, Registers)
  /\ UNCHANGED <<files, accum, table, file, lands>>

-----------------------------------------------------------------------------
(* second_pass. *)

DispatchSecond ==
  /\ Second("loop") /\ Hex(input[pos]) < 0 /\ input[pos] # Percent
  /\ at' = Enters(input[pos])
  /\ UNCHANGED <<ip, toggle, accum, file, lands>>

(* store_pointer counts the pointer before it reads the name. *)
BeginPointer ==
  /\ Second("loop") /\ input[pos] = Percent
  /\ ip' = ip + 4
  /\ at' = "pointer"
  /\ UNCHANGED <<toggle, accum, file, lands>>

StorePointer ==
  /\ Second("pointer")
  /\ LET d == table[input[pos]] - ip
     IN  /\ WriteN(4, d)
         /\ rels' = IF writable
              THEN rels \cup {[name |-> input[pos], d |-> d, end |-> written + 4]}
              ELSE rels
  /\ at' = "loop"
  /\ UNCHANGED <<ip, toggle, accum, lands>>

(***************************************************************************)
(* A '%' at the end of the file: slot_for takes the marker -4 for a        *)
(* character, and the four bytes 16 below the table are the upper half of  *)
(* ip and the lower half of toggle.                                        *)
(***************************************************************************)
BelowTable == (ip \div 65536) + (IF toggle = 0 THEN 0 ELSE -65536)

DanglingPointer ==
  /\ pass = "second" /\ at = "pointer" /\ AtEnd
  /\ WriteN(4, BelowTable - ip)
  /\ at' = "loop"
  /\ UNCHANGED <<files, pass, pos, ip, toggle, accum, table, rels, history>>

(* The name is dropped; a label met inside a byte comes after that byte. *)
DropName ==
  /\ Second("label")
  /\ lands' = [lands EXCEPT ![input[pos]] =
                 IF toggle = 0 THEN written + 1 ELSE written]
  /\ at' = "loop"
  /\ UNCHANGED <<ip, toggle, accum, file>>

HoldDigit ==
  /\ Second("loop") /\ Hex(input[pos]) >= 0 /\ toggle # 0
  /\ accum' = Hex(input[pos]) /\ toggle' = 0
  /\ UNCHANGED <<at, ip, file, lands>>

PrintByte ==
  /\ Second("loop") /\ Hex(input[pos]) >= 0 /\ toggle = 0
  /\ toggle' = -1
  /\ ip' = ip + 1
  /\ WriteN(1, 16 * accum + Hex(input[pos]))
  /\ UNCHANGED <<at, accum, rels, lands>>

CommentSecond ==
  /\ Second("comment")
  /\ at' = IF input[pos] = Newline THEN "loop" ELSE "comment"
  /\ UNCHANGED <<ip, toggle, accum, file, lands>>

(* A pass ends in a comment too: hex hands the marker on. *)
NotInComment == {"loop", "label"}                                  \* mutant
EndsAt       == {"loop", "label", "comment"}

Finish ==
  /\ pass = "second" /\ at \in EndsAt /\ AtEnd
  /\ pass' = "exit"
  /\ UNCHANGED <<files, at, pos, ip, toggle, accum, table, file, history>>

-----------------------------------------------------------------------------
(* A disk, a share or a pipe that fails stays failed. *)
LoseInput ==
  /\ pass \in {"first", "second"} /\ readable /\ readable' = FALSE
  /\ UNCHANGED <<input, writable, pass, at, pos, ip, toggle, accum, table,
                 file, history>>

LoseOutput ==
  /\ pass \in {"first", "second"} /\ writable /\ writable' = FALSE
  /\ UNCHANGED <<input, readable, pass, at, pos, ip, toggle, accum, table,
                 file, history>>

Init ==
  /\ input \in Inputs
  /\ pass = "start" /\ at = "loop" /\ pos = 1
  /\ ip = 0 /\ toggle = -1 /\ accum = 0
  /\ table = [c \in Byte |-> 0]
  /\ out = << >> /\ written = 0 /\ rels = {}
  /\ readable = FALSE /\ writable = FALSE
  /\ mark = << >> /\ lands = [c \in Byte |-> 0]

Program ==
  \/ Open
  \/ Dispatch \/ CountDigit \/ StoreLabel \/ CountPointer \/ CommentFirst
  \/ RewindInput
  \/ DispatchSecond \/ BeginPointer \/ StorePointer \/ DanglingPointer
  \/ DropName \/ HoldDigit \/ PrintByte \/ CommentSecond
  \/ Finish

Next == Program \/ LoseInput \/ LoseOutput

Spec == Init /\ [][Next]_vars

-----------------------------------------------------------------------------
(* Properties. *)

Place    == {"loop", "label", "pointer", "comment"}
Snapshot == [at : Place, ip : Nat, toggle : {-1, 0}, table : [Byte -> Nat]]

TypeOK ==
  /\ input \in Seq(Byte)
  /\ pass \in {"start", "first", "second", "exit"} /\ at \in Place
  /\ pos \in Nat \ {0} /\ pos <= Len(input) + 1
  /\ ip \in Nat /\ toggle \in {-1, 0} /\ accum \in 0 .. 15
  /\ table \in [Byte -> Nat] /\ lands \in [Byte -> Nat]
  /\ out \in Seq({1, 4} \X Int) /\ written \in Nat
  /\ rels \subseteq [name : Byte, d : Int, end : Nat]
  /\ readable \in BOOLEAN /\ writable \in BOOLEAN
  /\ mark \in Seq(Snapshot)

(***************************************************************************)
(* Every pointer in the output leads from the byte after it to where the   *)
(* bytes that follow the character's last label are (or to the start, for  *)
(* a character that is no label), if both files could be used to the end.  *)
(* first_pass counts a byte at its first digit and a pointer after its     *)
(* name, second_pass at the second digit and before the name: the two must *)
(* come to the same positions on every input.                              *)
(***************************************************************************)
PointersHit ==
  (pass = "exit" /\ readable /\ writable)
    => \A r \in rels : r.end + r.d = lands[r.name]
=============================================================================
