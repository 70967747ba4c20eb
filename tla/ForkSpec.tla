------------------------------ MODULE ForkSpec ------------------------------
(***************************************************************************)
(* What fork promises a program: one step makes a child that has           *)
(* everything its parent had, told apart from it by what fork returned.    *)
(* A process is what it has seen: log is the sequence of its forks'        *)
(* results, its own and, before it was made, its parent's.                 *)
(***************************************************************************)
EXTENDS Integers, Sequences

CONSTANTS
  Proc,      (* process identifiers, positive                               *)
  Root       (* the process a user started                                  *)

VARIABLES
  state,     (* "none", "running" or "gone"                                 *)
  log        (* what each process's forks returned                          *)

Init ==
  /\ state = [p \in Proc |-> IF p = Root THEN "running" ELSE "none"]
  /\ log = [p \in Proc |-> << >>]

Fork(p, c) ==
  /\ state[p] = "running" /\ state[c] = "none"
  /\ state' = [state EXCEPT ![c] = "running"]
  /\ log' = [log EXCEPT ![p] = Append(log[p], c), ![c] = Append(log[p], 0)]

ForkFails(p) ==
  /\ state[p] = "running"
  /\ log' = [log EXCEPT ![p] = Append(log[p], -1)]
  /\ UNCHANGED state

End(p) ==
  /\ state[p] = "running"
  /\ state' = [state EXCEPT ![p] = "gone"]
  /\ UNCHANGED log

Next == \E p \in Proc : ForkFails(p) \/ End(p) \/ \E c \in Proc : Fork(p, c)

Spec == Init /\ [][Next]_<<state, log>>
=============================================================================
