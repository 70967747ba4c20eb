-------------------------------- MODULE Hex0 --------------------------------
(***************************************************************************)
(* hex0_pe32, the seed of the chain (x86/Development/gen_hex0.py): pairs   *)
(* of hexadecimal digits become bytes, '#' and ';' begin comments.         *)
(*                                                                         *)
(* One call of read_byte, with what is done to its answer, is one step.    *)
(* No status is looked at but the sign of NtReadFile's: a read that fails  *)
(* is the end of the file, a write that fails is not noticed, and the exit *)
(* status is 0 whatever happened.                                          *)
(***************************************************************************)
EXTENDS Integers, Sequences

CONSTANTS
  Byte,      (* the bytes an input can hold                                 *)
  Inputs     (* the input files                                             *)

VARIABLES
  input,     (* the input file                                              *)
  pass,      (* "start" before the files are opened, "first", "exit"        *)
  at,        (* which read_byte comes next: "loop" or "comment"             *)
  pos,       (* the byte it will meet                                       *)
  toggle,    (* -1: no digit pending; 0: half a byte has been read          *)
  accum,     (* that half                                                   *)
  out,       (* the writes made so far: <<length, value>>                   *)
  readable,  (* in_handle is an open file that can still be read            *)
  writable   (* out_handle is an open file that can still be written        *)

files == <<input, readable, writable>>
vars  == <<files, pass, at, pos, toggle, accum, out>>

-----------------------------------------------------------------------------
IsNumberSign(c) == c = 35                                          \* mutant
IsComment(c)    == c \in {35, 59}            \* '#', ';'

(* hex: the value of a digit, -1 for a byte that carries none. *)
Hex(c) == CASE c \in 48 .. 57  -> c - 48     \* '0' .. '9'
            [] c \in 65 .. 70  -> c - 55     \* 'A' .. 'F'
            [] c \in 97 .. 102 -> c - 87     \* 'a' .. 'f'
            [] OTHER -> -1

AtEnd == ~readable \/ pos > Len(input)

(* NtWriteFile appends; on a handle that cannot be written it does nothing. *)
Write(length, value) ==
  out' = IF writable THEN Append(out, <<length, value>>) ELSE out

(* read_byte, answered with a byte of the file. *)
ReadAt(a) ==
  /\ pass = "first" /\ at = a /\ ~AtEnd
  /\ pos' = pos + 1
  /\ UNCHANGED <<files, pass>>

(***************************************************************************)
(* _start: either file may fail to open.  out_handle is then what          *)
(* NtCreateFile left in g_handle, 0 or the input's handle, and neither can *)
(* be written.                                                             *)
(***************************************************************************)
Open ==
  /\ pass = "start" /\ pass' = "first"
  /\ readable' \in BOOLEAN /\ writable' \in BOOLEAN
  /\ UNCHANGED <<input, at, pos, toggle, accum, out>>

Ignore ==
  /\ ReadAt("loop") /\ ~IsComment(input[pos]) /\ Hex(input[pos]) < 0
  /\ UNCHANGED <<at, toggle, accum, out>>

HoldDigit ==
  /\ ReadAt("loop") /\ Hex(input[pos]) >= 0 /\ toggle < 0
  /\ accum' = Hex(input[pos]) /\ toggle' = 0
  /\ UNCHANGED <<at, out>>

PrintByte ==
  /\ ReadAt("loop") /\ Hex(input[pos]) >= 0 /\ toggle >= 0
  /\ toggle' = -1
  /\ Write(1, 16 * accum + Hex(input[pos]))
  /\ UNCHANGED <<at, accum>>

BeginComment ==
  /\ ReadAt("loop") /\ IsComment(input[pos])
  /\ at' = "comment"
  /\ UNCHANGED <<toggle, accum, out>>

InComment ==
  /\ ReadAt("comment")
  /\ at' = IF input[pos] = 10 THEN "loop" ELSE "comment"
  /\ UNCHANGED <<toggle, accum, out>>

(* The end of the file inside a comment is met once more by the loop. *)
CommentEnds ==
  /\ pass = "first" /\ at = "comment" /\ AtEnd
  /\ at' = "loop"
  /\ UNCHANGED <<files, pass, pos, toggle, accum, out>>

Done ==
  /\ pass = "first" /\ at = "loop" /\ AtEnd
  /\ pass' = "exit"
  /\ UNCHANGED <<files, at, pos, toggle, accum, out>>

Init ==
  /\ input \in Inputs
  /\ pass = "start" /\ at = "loop" /\ pos = 1
  /\ toggle = -1 /\ accum = 0 /\ out = << >>
  /\ readable = FALSE /\ writable = FALSE

Next == Open \/ Ignore \/ HoldDigit \/ PrintByte \/ BeginComment \/ InComment
          \/ CommentEnds \/ Done
=============================================================================
