-------------------------------- MODULE Hex2 --------------------------------
(***************************************************************************)
(* hex2_pe32, the two-pass linker of the bootstrap chain                   *)
(* (x86/Development/gen_hex2.py, assembled into x86/hex2_x86.hex1).        *)
(*                                                                         *)
(* The input is read twice.  The first pass records where every label      *)
(* lands; the second emits bytes and resolves pointers against the table   *)
(* the first one filled.  Nothing but arithmetic on ip keeps the two       *)
(* passes in step, and every program above this link is built through it.  *)
(*                                                                         *)
(* One item of the input (a digit, a label, a pointer, anything ignored)   *)
(* is one iteration of the loop of first_pass or of second_pass.           *)
(*                                                                         *)
(* Of all the calls made to Windows only the sign of NtReadFile's status   *)
(* is looked at: a read that fails is the end of the input, and an open, a *)
(* rewind or a write that fails is not noticed.                            *)
(***************************************************************************)
EXTENDS Integers, Sequences, FiniteSets

CONSTANTS
  Final,     (* the ways a name can end inside one 64-byte field            *)
  Full,      (* 64-character pieces: a whole field with no terminator       *)
  Blank,     (* the empty ending, which is also a zero-filled field         *)
  Cuts,      (* the names a name becomes when the input breaks off in it    *)
  Programs,  (* the input files: sequences of Item                          *)
  NLAB,      (* fields in the label table                                   *)
  OUT_BASE   (* the image base, where ip starts                             *)

(***************************************************************************)
(* A name is the sequence of the fields its characters fill.  A name of    *)
(* at most 63 characters fills one.  Names are bounded to two fields (127  *)
(* characters); tok itself holds 255.                                      *)
(***************************************************************************)
Short == {<<f>> : f \in Final}
Long  == {<<p, f>> : p \in Full, f \in Final}
Name  == Short \cup Long

Sigil == {"!", "@", "%", "$", "&"}

None == << >>     \* no '>' after the name: the displacement is from here

Item == [kind : {"digit"}, v : 0 .. 15]
          \cup [kind : {"label"}, name : Name]
          \cup [kind : {"pointer"}, sigil : Sigil, name : Name,
                base : Name \cup {None}]
          \cup {[kind |-> "ignored"]}

ASSUME FieldAssumption   == Full \cap Final = {} /\ Blank \in Final
ASSUME CutAssumption     == Cuts \in [Name -> SUBSET Name]
ASSUME ProgramAssumption == Programs \subseteq Seq(Item)
ASSUME TableAssumption   == NLAB \in Nat \ {0} /\ OUT_BASE \in Nat

VARIABLES
  prog,      (* the input file; read, never written                         *)
  pc,        (* "first", "second" or "exit"                                 *)
  code,      (* the exit status once pc = "exit"                            *)
  pos,       (* the item the next read_byte will meet                       *)
  ip,        (* output position, an absolute address                        *)
  toggle,    (* -1: no digit pending; 0: half a byte has been read          *)
  accum,     (* that half                                                   *)
  nlab,      (* number of labels recorded                                   *)
  names,     (* the name fields; the one past the table is its neighbour    *)
  targets,   (* one address per name                                        *)
  out,       (* the writes made so far, one record per write_n              *)
  written,   (* the length of the output file                               *)
  readable,  (* in_handle is an open file that can still be read            *)
  writable,  (* out_handle is an open file that can still be written        *)
  mark,      (* history: ip and toggle as the first pass met each item      *)
  defs       (* history: the item that filled each field of the table       *)

file  == <<out, written>>
table == <<nlab, names, targets, defs>>
disk  == <<readable, writable>>
vars  == <<prog, pc, code, pos, ip, toggle, accum, table, file, disk, mark>>

-----------------------------------------------------------------------------
(* classify: the width of a pointer, and whether it is absolute. *)
PWidth(s) == CASE s = "!" -> 1
               [] s \in {"@", "$"} -> 2
               [] s \in {"%", "&"} -> 4
PAbs(s) == s \in {"$", "&"}

(***************************************************************************)
(* The low [p_width] bytes of a value.  A four-byte difference is kept as  *)
(* the signed number it stands for: an image stays below 2^31.             *)
(***************************************************************************)
Low(v, width) == CASE width = 1 -> v % 256
                   [] width = 2 -> v % 65536
                   [] width = 4 -> v

(* get_target: the names are compared byte by byte from each field on, so  *)
(* a name of two fields is compared with whatever the next field holds.    *)
Matches(k, n) == \A j \in DOMAIN n : names[k + j - 1] = n[j]
Hits(n)       == {k \in 0 .. nlab - 1 : Matches(k, n)}
FirstHit(n)   == CHOOSE k \in Hits(n) : \A j \in Hits(n) : k <= j
GetTarget(n)  == targets[FirstHit(n)]


(* The name and, after a '>', the base are both looked up.                 *)
MissingRelative(item) ==                                           \* mutant
  \/ Hits(item.name) = {}
  \/ item.base # None /\ ~PAbs(item.sigil) /\ Hits(item.base) = {}
Missing(item) ==
  \/ Hits(item.name) = {}
  \/ item.base # None /\ Hits(item.base) = {}

AtEnd == ~readable \/ pos > Len(prog)

FirstPass(kind) ==
  /\ pc = "first" /\ ~AtEnd /\ prog[pos].kind = kind
  /\ pos' = pos + 1
  /\ mark' = [mark EXCEPT ![pos] = <<ip, toggle>>]
  /\ UNCHANGED <<prog, accum, file, disk>>

SecondPass(kind) ==
  /\ pc = "second" /\ ~AtEnd /\ prog[pos].kind = kind
  /\ pos' = pos + 1
  /\ UNCHANGED <<prog, table, disk, mark>>

Running == UNCHANGED <<pc, code>>

Exit(status) == pc' = "exit" /\ code' = status

WriteN(width, value) ==
  IF writable
    THEN /\ out' = Append(out, [width |-> width, value |-> value])
         /\ written' = written + width
    ELSE UNCHANGED file

-----------------------------------------------------------------------------
(* first_pass: nothing is written; ip runs ahead of the output.            *)

TableUnbounded == FALSE                                            \* mutant
TableFullEarly == nlab >= NLAB - 2                                 \* mutant
TableFull      == nlab >= NLAB - 1

(***************************************************************************)
(* store_label copies the name out of tok before it looks at the count, so *)
(* a name of two fields lies across its own field and the next one, and    *)
(* the next label recorded overwrites its tail.                            *)
(***************************************************************************)
StoreLabel ==
  /\ FirstPass("label")
  /\ names' = [k \in DOMAIN names |->
                 IF k - nlab + 1 \in DOMAIN prog[pos].name
                   THEN prog[pos].name[k - nlab + 1] ELSE names[k]]
  /\ \/ /\ TableFull
        /\ Exit(2)
        /\ UNCHANGED <<nlab, targets, defs>>
     \/ /\ ~TableFull
        /\ targets' = [targets EXCEPT ![nlab] = ip]
        /\ defs' = [defs EXCEPT ![nlab] = pos]
        /\ nlab' = nlab + 1
        /\ Running
  /\ UNCHANGED <<ip, toggle>>

CountPointer ==
  /\ FirstPass("pointer")
  /\ ip' = ip + PWidth(prog[pos].sigil)
  /\ UNCHANGED <<toggle, table>> /\ Running

(* A byte is counted at its FIRST digit: toggle is -1 before it.           *)
CountsEveryDigit == TRUE                                           \* mutant
CountsHere       == toggle # 0

CountDigit ==
  /\ FirstPass("digit")
  /\ ip' = IF CountsHere THEN ip + 1 ELSE ip
  /\ toggle' = -1 - toggle
  /\ UNCHANGED table /\ Running

IgnoreFirst ==
  /\ FirstPass("ignored")
  /\ UNCHANGED <<ip, toggle, table>> /\ Running

(* End of the first reading: rewind_input, then ip and toggle are reset.   *)
(* A rewind that fails leaves the input at its end, like one that is lost. *)
KeepIp   == ip                                                     \* mutant
RewindIp == OUT_BASE

RewindInput ==
  /\ pc = "first" /\ AtEnd
  /\ pc' = "second" /\ pos' = 1
  /\ ip' = RewindIp /\ toggle' = -1
  /\ UNCHANGED <<prog, code, accum, table, file, disk, mark>>

-----------------------------------------------------------------------------
(* second_pass: every action that advances ip writes as many bytes.        *)

DropLabel ==
  /\ SecondPass("label")
  /\ UNCHANGED <<ip, toggle, accum, file>> /\ Running

(***************************************************************************)
(* store_pointer adds the width to ip first, then looks the names up; an   *)
(* undefined one ends the program with what was written so far in place.   *)
(***************************************************************************)
BaseBefore(item) == IF item.base = None THEN ip ELSE GetTarget(item.base)
                                                                   \* mutant
PBase(item) == IF item.base = None
                 THEN ip + PWidth(item.sigil) ELSE GetTarget(item.base)

PValue(item) == IF PAbs(item.sigil)
                  THEN GetTarget(item.name)
                  ELSE GetTarget(item.name) - PBase(item)

Resolve(item) ==
  LET width == PWidth(item.sigil)
  IN  /\ ip' = ip + width
      /\ \/ Missing(item) /\ Exit(1) /\ UNCHANGED file
         \/ /\ ~Missing(item)
            /\ WriteN(width, Low(PValue(item), width))
            /\ Running
      /\ UNCHANGED <<toggle, accum>>

StorePointer == SecondPass("pointer") /\ Resolve(prog[pos])

(***************************************************************************)
(* The end of the input ends a name too (consume_token): a pointer whose   *)
(* name or base breaks off is resolved as far as it could be read.  What   *)
(* else breaks off leaves nothing behind: a label is dropped by the second *)
(* pass, and after a loss in the first no one looks into the table.        *)
(***************************************************************************)
Broken(item) ==
  {[item EXCEPT !.name = n, !.base = None] : n \in Cuts[item.name]}
    \cup {[item EXCEPT !.base = b] : b \in
             IF item.base = None THEN {} ELSE {None} \cup Cuts[item.base]}

BreakOff ==
  /\ pc = "second" /\ ~AtEnd /\ prog[pos].kind = "pointer"
  /\ readable' = FALSE
  /\ \E item \in Broken(prog[pos]) : Resolve(item)
  /\ UNCHANGED <<prog, pos, table, writable, mark>>

HoldDigit ==
  /\ SecondPass("digit") /\ toggle # 0
  /\ accum' = prog[pos].v
  /\ toggle' = 0
  /\ UNCHANGED <<ip, file>> /\ Running

PrintByte ==
  /\ SecondPass("digit") /\ toggle = 0
  /\ WriteN(1, 16 * accum + prog[pos].v)
  /\ toggle' = -1
  /\ ip' = ip + 1
  /\ UNCHANGED accum /\ Running

IgnoreSecond ==
  /\ SecondPass("ignored")
  /\ UNCHANGED <<ip, toggle, accum, file>> /\ Running

ReadPastEnd ==                                                     \* mutant
  pc = "second" /\ AtEnd /\ UNCHANGED vars

(* End of the second reading: both files are closed, the status is 0. *)
Finish ==
  /\ pc = "second" /\ AtEnd
  /\ Exit(0)
  /\ UNCHANGED <<prog, pos, ip, toggle, accum, table, file, disk, mark>>

-----------------------------------------------------------------------------
(* A disk, a share or a pipe that fails stays failed. *)
Lose(lost) ==
  /\ pc # "exit" /\ lost
  /\ UNCHANGED <<prog, pc, code, pos, ip, toggle, accum, table, file, mark>>

LoseInput  == Lose(readable) /\ readable' = FALSE /\ UNCHANGED writable
LoseOutput == Lose(writable) /\ writable' = FALSE /\ UNCHANGED readable

(* Either file may have failed to open.  out_handle is then what           *)
(* NtCreateFile left in g_handle, 0 or the input's handle, and neither can *)
(* be written.                                                             *)
Init ==
  /\ prog \in Programs
  /\ readable \in BOOLEAN /\ writable \in BOOLEAN
  /\ pc = "first" /\ code = 0
  /\ pos = 1 /\ ip = OUT_BASE /\ toggle = -1 /\ accum = 0
  /\ nlab = 0
  /\ names = [k \in 0 .. NLAB |-> Blank]
  /\ targets = [k \in 0 .. NLAB - 1 |-> 0]
  /\ defs = [k \in 0 .. NLAB - 1 |-> 0]
  /\ out = << >> /\ written = 0
  /\ mark = [i \in DOMAIN prog |-> <<OUT_BASE, -1>>]

Program ==
  \/ StoreLabel \/ CountPointer \/ CountDigit \/ IgnoreFirst
  \/ RewindInput
  \/ DropLabel \/ StorePointer \/ HoldDigit \/ PrintByte \/ IgnoreSecond
  \/ Finish

Next == Program \/ BreakOff \/ LoseInput \/ LoseOutput

Spec == Init /\ [][Next]_vars

(* hex2 is one thread that never waits; nothing has to be lost. *)
FairSpec == Spec /\ WF_vars(Program)

-----------------------------------------------------------------------------
(* Properties. *)

TypeOK ==
  /\ prog \in Seq(Item)
  /\ pc \in {"first", "second", "exit"} /\ code \in 0 .. 2
  /\ pos \in Nat \ {0} /\ pos <= Len(prog) + 1
  /\ ip \in Nat /\ toggle \in {-1, 0} /\ accum \in 0 .. 15
  /\ nlab \in 0 .. NLAB - 1
  /\ names \in [0 .. NLAB -> Final \cup Full]
  /\ targets \in [0 .. NLAB - 1 -> Nat]
  /\ defs \in [0 .. NLAB - 1 -> Nat]
  /\ out \in Seq([width : {1, 2, 4}, value : Int]) /\ written \in Nat
  /\ mark \in [DOMAIN prog -> Nat \X {-1, 0}]
  /\ readable \in BOOLEAN /\ writable \in BOOLEAN

(***************************************************************************)
(* In the second pass ip is the address of the end of the output file, so  *)
(* a displacement measured from ip is measured from the byte the pointer   *)
(* ends at (store_pointer, .sp2_print), as long as writes succeed.         *)
(***************************************************************************)
IpIsFilePosition == (pc = "second" /\ writable) => ip = OUT_BASE + written

IsLabel(i) == i \in DOMAIN prog /\ prog[i].kind = "label"

FirstDefinition(i) ==
  /\ IsLabel(i) /\ prog[i].name \in Short
  /\ \A j \in 1 .. i - 1 : IsLabel(j) => prog[j].name # prog[i].name

(***************************************************************************)
(* The address the first pass recorded for a name is the address at which  *)
(* the second pass, emitting, comes to the name's first definition: the    *)
(* two countings of ip agree wherever no byte is half read, whatever else  *)
(* the input holds (first_pass counts a byte at its first digit,           *)
(* second_pass at its second).                                             *)
(***************************************************************************)
LabelLands ==
  (pc = "second" /\ readable /\ writable /\ toggle = -1 /\ FirstDefinition(pos))
    => GetTarget(prog[pos].name) = OUT_BASE + written

IsPointer(i) == i \in DOMAIN prog /\ prog[i].kind = "pointer"

Defined(n) == \E i \in DOMAIN prog : IsLabel(i) /\ prog[i].name = n

Resolved(i) == /\ Defined(prog[i].name)
               /\ prog[i].base # None => Defined(prog[i].base)

(***************************************************************************)
(* Status 0 says every name the input mentions is defined in the input, or *)
(* in an input that was lost, every name up to the item it was lost at:    *)
(* get_target, "an undefined label is fatal: the address would otherwise   *)
(* be silently wrong".                                                     *)
(***************************************************************************)
UndefinedIsFatal ==
  (pc = "exit" /\ code = 0) =>
    \A i \in DOMAIN prog : IsPointer(i) /\ (readable \/ i < pos) => Resolved(i)

(***************************************************************************)
(* A failing status is deserved: 1 is an undefined name the output would   *)
(* have needed, or one that broke off; 2 is an input of NLAB labels.       *)
(***************************************************************************)
FailureIsDeserved ==
  pc = "exit" =>
    /\ code = 1 => \E i \in DOMAIN prog :
         IsPointer(i) /\ (~Resolved(i) \/ (~readable /\ i = pos))
    /\ code = 2 => Cardinality({i \in DOMAIN prog : IsLabel(i)}) >= NLAB

(***************************************************************************)
(* Every input ends the program, whatever is lost: the second reading is   *)
(* over the same bytes, from the start, and stops at an end of file.       *)
(***************************************************************************)
Termination == <>(pc = "exit")
=============================================================================
