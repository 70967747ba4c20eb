----------------------------- MODULE ConcatSpec -----------------------------
(***************************************************************************)
(* What catm does for its arguments, one after the other: the bytes of the *)
(* file the argument stands for, in order and each at most once, and none  *)
(* that is not the file's.  A piece may be passed over without a sign;     *)
(* only lost remembers that it was.                                        *)
(***************************************************************************)
EXTENDS Integers, Sequences

VARIABLES
  source,    (* for each argument, the contents of its file                 *)
  arg,       (* the input being copied                                      *)
  off,       (* how much of it has been passed                              *)
  output,    (* what has been written                                       *)
  lost       (* something was passed over                                   *)

concat == <<source, arg, off, output, lost>>

Init == arg = 1 /\ off = 0 /\ output = << >> /\ lost = FALSE

Left == Len(source[arg]) - off

(* The next n bytes of the current input are written, or passed over. *)
Take(n) ==
  /\ off' = off + n
  /\ output' = output \o SubSeq(source[arg], off + 1, off + n)
  /\ UNCHANGED <<source, arg, lost>>

Skip(n) ==
  /\ off' = off + n
  /\ lost' = TRUE
  /\ UNCHANGED <<source, arg, output>>

(* On to the next input; what was left of this one is passed over. *)
Turn ==
  /\ arg' = arg + 1 /\ off' = 0
  /\ lost' = (lost \/ Left > 0)
  /\ UNCHANGED <<source, output>>

Next == /\ arg \in DOMAIN source
        /\ (\E n \in 1 .. Left : Take(n) \/ Skip(n)) \/ Turn

Spec == Init /\ [][Next]_concat
=============================================================================
