------------------------------ MODULE FileSpec ------------------------------
(***************************************************************************)
(* What a program of this chain may take a file for.  Processes that have  *)
(* it in common share its position.  A read or a write is one step.  A     *)
(* seek is two: it looks where the file stands or ends, and it moves it;   *)
(* what becomes of the file in between it does not know.  A call that      *)
(* fails leaves the file alone, and all but a seek say so.                 *)
(***************************************************************************)
EXTENDS Integers, Sequences

CONSTANTS
  Proc, File,
  Failing,   (* files on which calls may fail                               *)
  Count, Data, Offset,  (* what calls are made with                         *)
  Word       (* positions are told modulo this                              *)

VARIABLES
  contents, position,
  open,      (* the files a process has not closed                          *)
  seeking,   (* what a process in a seek has asked for and seen             *)
  answer     (* what a process's last call came back with                   *)

posix == <<contents, position, open, seeking, answer>>

Nowhere == [file |-> 0]

Init ==
  /\ position = [f \in File |-> 0]
  /\ open = [p \in Proc |-> File]
  /\ seeking = [p \in Proc |-> Nowhere]
  /\ answer = [p \in Proc |-> [call |-> "none"]]

Free(p)       == seeking[p] = Nowhere
MayFail(p, f) == f \in Failing \/ f \notin open[p]

Answers(p, call, value, bytes) ==
  answer' = [answer EXCEPT ![p] = [call |-> call, value |-> value, bytes |-> bytes]]

(* The next n bytes, or as many as there are. *)
Coming(f, n) ==
  LET left == Len(contents[f]) - position[f]
      m    == IF left < 0 THEN 0 ELSE IF left < n THEN left ELSE n
  IN  [k \in 1 .. m |-> contents[f][position[f] + k]]

Read(p, f, n) ==
  LET got == Coming(f, n) IN
  /\ Free(p) /\ f \in open[p]
  /\ position' = [position EXCEPT ![f] = @ + Len(got)]
  /\ \/ Answers(p, "read_block", Len(got), got)
     \/ n = 1 /\ Answers(p, "read_byte", IF got = << >> THEN -1 ELSE got[1], got)
  /\ UNCHANGED <<contents, open, seeking>>

(* What lies between the end and the position is zero from then on. *)
Write(p, f, bytes) ==
  LET from == position[f]
      to   == from + Len(bytes)
      size == IF to > Len(contents[f]) THEN to ELSE Len(contents[f])
      Byte(k) == IF k \in from + 1 .. to THEN bytes[k - from]
                 ELSE IF k \in DOMAIN contents[f] THEN contents[f][k] ELSE 0
  IN  /\ Free(p) /\ f \in open[p]
      /\ contents' = [contents EXCEPT ![f] = [k \in 1 .. size |-> Byte(k)]]
      /\ position' = [position EXCEPT ![f] = to]
      /\ \/ Answers(p, "write_block", Len(bytes), << >>)
         \/ Len(bytes) = 1 /\ Answers(p, "write_byte", 0, << >>)
      /\ UNCHANGED <<open, seeking>>

(* A failing read is the end of the file, and a failing write says -1. *)
Fail(p, f) ==
  /\ Free(p) /\ MayFail(p, f)
  /\ \/ Answers(p, "read_block", 0, << >>)
     \/ \E call \in {"read_byte", "write_block", "write_byte"} :
          Answers(p, call, -1, << >>)
  /\ UNCHANGED <<contents, position, open, seeking>>

Base(f, whence) == CASE whence = 0 -> 0
                     [] whence = 1 -> position[f] % Word
                     [] whence = 2 -> Len(contents[f]) % Word

(* A seek that looks in vain takes any place for the base. *)
Look(p, f, offset, whence, to) ==
  /\ Free(p)
  /\ \/ /\ whence = 0 \/ f \in open[p]
        /\ to = (Base(f, whence) + offset) % Word
     \/ whence # 0 /\ MayFail(p, f)
  /\ seeking' = [seeking EXCEPT ![p] =
       [file |-> f, offset |-> offset, whence |-> whence, to |-> to]]
  /\ UNCHANGED <<contents, position, open, answer>>

Move(p) ==
  LET f == seeking[p].file
      to == seeking[p].to
  IN  /\ ~Free(p)
      /\ \/ f \in open[p] /\ position' = [position EXCEPT ![f] = to]
         \/ MayFail(p, f) /\ UNCHANGED position
      /\ Answers(p, "lseek", to, << >>)
      /\ seeking' = [seeking EXCEPT ![p] = Nowhere]
      /\ UNCHANGED <<contents, open>>

Close(p, f) ==
  /\ Free(p)
  /\ open' = [open EXCEPT ![p] = @ \ {f}]
  /\ UNCHANGED <<contents, position, seeking, answer>>

Next ==
  \E p \in Proc :
    \/ \E f \in File :
         \/ \E n \in Count : Read(p, f, n)
         \/ \E bytes \in Data : Write(p, f, bytes)
         \/ Fail(p, f)
         \/ \E offset \in Offset, whence \in 0 .. 2, to \in 0 .. Word - 1 :
              Look(p, f, offset, whence, to)
         \/ Close(p, f)
    \/ Move(p)

Spec == Init /\ [][Next]_posix
=============================================================================
