------------------------------ MODULE NextToken ------------------------------
(***************************************************************************)
(* next_token (x86/Development/stage0asm.py, emit_next_token), called      *)
(* until there is nothing left: how every program of the chain splits the  *)
(* one string Windows gives it.  The string is cut in place: a terminator  *)
(* is written over a separator, and the version that knows escapes writes  *)
(* the argument shorter, behind its own reading.                           *)
(*                                                                         *)
(* There are three versions.  hex0, hex1 and hex2 separate by spaces; catm *)
(* by spaces and tabs; the shared one, from M0 up, has escapes as well.    *)
(***************************************************************************)
EXTENDS Integers, Sequences

CONSTANTS
  Plain,     (* the characters that mean nothing to next_token              *)
  Lines      (* command lines: sequences of Char                            *)

NUL  == "NUL"
Char == Plain \cup {"space", "tab", "quote", "slash"}

Version == {[tabs |-> FALSE, escapes |-> FALSE],
            [tabs |-> TRUE,  escapes |-> FALSE],
            [tabs |-> TRUE,  escapes |-> TRUE]}

ASSUME PlainAssumption ==
  Plain \cap {"space", "tab", "quote", "slash", NUL} = {}
ASSUME LineAssumption == Lines \subseteq Seq(Char)

VARIABLES
  line,      (* history: the command line as it was found                   *)
  version,   (* which of the three is running                               *)
  mem,       (* the command line in memory, its terminator included         *)
  pc,        (* the loop it is in: "skip", "scan", "qscan" or "end"         *)
  esi,       (* read cursor                                                 *)
  edx,       (* write cursor                                                *)
  quoting,   (* ecx: whether it is inside quotes                            *)
  argv       (* where each argument returned so far starts                  *)

given == <<line, version>>
vars  == <<given, mem, pc, esi, edx, quoting, argv>>

Separator(c) == c = "space" \/ (version.tabs /\ c = "tab")

-----------------------------------------------------------------------------
(* .skip: up to the first character of an argument. *)

SkipStays == esi                                                   \* mutant
SkipTo    == esi + 1

Skip ==
  /\ pc = "skip" /\ Separator(mem[esi])
  /\ esi' = SkipTo
  /\ UNCHANGED <<given, mem, pc, edx, quoting, argv>>

NoToken ==
  /\ pc = "skip" /\ mem[esi] = NUL
  /\ pc' = "end"
  /\ UNCHANGED <<given, mem, esi, edx, quoting, argv>>

StartQuoted ==
  /\ pc = "skip" /\ mem[esi] = "quote" /\ ~version.escapes
  /\ pc' = "qscan" /\ esi' = esi + 1
  /\ argv' = Append(argv, esi + 1)
  /\ UNCHANGED <<given, mem, edx, quoting>>

StartToken ==
  /\ pc = "skip" /\ mem[esi] # NUL /\ ~Separator(mem[esi])
  /\ mem[esi] = "quote" => version.escapes
  /\ pc' = "scan" /\ edx' = esi /\ quoting' = FALSE
  /\ argv' = Append(argv, esi)
  /\ UNCHANGED <<given, mem, esi>>

-----------------------------------------------------------------------------
(* The version without escapes: bare up to a separator, quoted to a quote. *)

Ends == IF pc = "scan" THEN Separator(mem[esi]) ELSE mem[esi] = "quote"

Scan ==
  /\ pc \in {"scan", "qscan"} /\ ~version.escapes
  /\ mem[esi] # NUL /\ ~Ends
  /\ esi' = esi + 1
  /\ UNCHANGED <<given, mem, pc, edx, quoting, argv>>

CutNext == esi + 1                                                 \* mutant
CutAt   == esi

CutStays == esi                                                    \* mutant
CutTo    == esi + 1

Cut ==
  /\ pc \in {"scan", "qscan"} /\ ~version.escapes /\ Ends
  /\ mem' = [mem EXCEPT ![CutAt] = NUL]
  /\ esi' = CutTo
  /\ pc' = "skip"
  /\ UNCHANGED <<given, edx, quoting, argv>>

(* The last argument is terminated already. *)
LastToken ==
  /\ pc \in {"scan", "qscan"} /\ ~version.escapes /\ mem[esi] = NUL
  /\ pc' = "skip"
  /\ UNCHANGED <<given, mem, esi, edx, quoting, argv>>

-----------------------------------------------------------------------------
(* The version with escapes. *)

Escaping == pc = "scan" /\ version.escapes

Emit(text) ==
  /\ mem' = [k \in DOMAIN mem |->
               IF k - edx + 1 \in DOMAIN text THEN text[k - edx + 1] ELSE mem[k]]
  /\ edx' = edx + Len(text)

Keep ==
  /\ Escaping /\ mem[esi] \in Char \ {"quote", "slash"}
  /\ Separator(mem[esi]) => quoting
  /\ Emit(<<mem[esi]>>)
  /\ esi' = esi + 1
  /\ UNCHANGED <<given, pc, quoting, argv>>

Quote ==
  /\ Escaping /\ mem[esi] = "quote"
  /\ quoting' = ~quoting
  /\ esi' = esi + 1
  /\ UNCHANGED <<given, mem, pc, edx, argv>>

(* The length of the run of backslashes that starts at k. *)
RunAt(k) == CHOOSE n \in 0 .. Len(line) + 1 - k :
              /\ \A j \in k .. k + n - 1 : mem[j] = "slash"
              /\ mem[k + n] # "slash"

Slashes(n) == [j \in 1 .. n |-> "slash"]

(* Before a quote half of them survive, and an odd one makes it literal.   *)
SurviveAll(n) == n                                                 \* mutant
Survive(n)    == n \div 2

LiteralAny(n) == n > 0                                             \* mutant
Literal(n)    == n % 2 = 1

Backslashes ==
  /\ Escaping /\ mem[esi] = "slash"
  /\ LET n == RunAt(esi)
     IN  \/ /\ mem[esi + n] # "quote"
            /\ Emit(Slashes(n))
            /\ esi' = esi + n
         \/ /\ mem[esi + n] = "quote" /\ ~Literal(n)
            /\ Emit(Slashes(Survive(n)))
            /\ esi' = esi + n
         \/ /\ mem[esi + n] = "quote" /\ Literal(n)
            /\ Emit(Append(Slashes(Survive(n)), "quote"))
            /\ esi' = esi + n + 1
  /\ UNCHANGED <<given, pc, quoting, argv>>

(* A separator is stepped past; the end of the line is not.                *)
AlwaysPast == esi + 1                                              \* mutant
PastCut    == IF mem[esi] = NUL THEN esi ELSE esi + 1

Finish ==
  /\ Escaping
  /\ mem[esi] = NUL \/ (~quoting /\ Separator(mem[esi]))
  /\ esi' = PastCut
  /\ mem' = [mem EXCEPT ![edx] = NUL]
  /\ pc' = "skip"
  /\ UNCHANGED <<given, edx, quoting, argv>>

-----------------------------------------------------------------------------
Tape == Append(line, NUL)

Init ==
  /\ line \in Lines /\ version \in Version
  /\ mem = Tape
  /\ pc = "skip" /\ esi = 1 /\ edx = 1 /\ quoting = FALSE
  /\ argv = << >>

Next == \/ Skip \/ NoToken \/ StartQuoted \/ StartToken
        \/ Scan \/ Cut \/ LastToken
        \/ Keep \/ Quote \/ Backslashes \/ Finish

Spec == Init /\ [][Next]_vars

(* The splitting is one thread's loop: it goes on until it returns 0.      *)
FairSpec == Spec /\ WF_vars(Next)

-----------------------------------------------------------------------------
(* Properties. *)

TypeOK ==
  /\ line \in Seq(Char) /\ version \in Version
  /\ mem \in [1 .. Len(line) + 1 -> Char \cup {NUL}]
  /\ pc \in {"skip", "scan", "qscan", "end"}
  /\ esi \in 1 .. Len(line) + 1 /\ edx \in 1 .. Len(line) + 1
  /\ quoting \in BOOLEAN
  /\ argv \in Seq(1 .. Len(line) + 1)

(***************************************************************************)
(* Cutting in place never touches what has not been read: from the read    *)
(* cursor on, the string is the one Windows gave, so no argument is made   *)
(* shorter at the next one's expense ("EDX never passes ESI").             *)
(***************************************************************************)
UnreadIntact == \A k \in esi .. Len(line) + 1 : mem[k] = Tape[k]

(***************************************************************************)
(* Every command line comes to an end, whatever was written over it: the   *)
(* terminator the loops run up to is still there.                          *)
(***************************************************************************)
Termination == <>(pc = "end")
==============================================================================
