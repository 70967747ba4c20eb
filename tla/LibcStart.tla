------------------------------ MODULE LibcStart ------------------------------
(***************************************************************************)
(* The memory past the end of the image, as a C program's startup divides  *)
(* it up and as the program then uses it (x86/libc-core.M1: _start, __open *)
(* and __heap_start).  There are six areas side by side and no check of    *)
(* any bound: the argument pointers, the argument strings, one path, the   *)
(* environment pointers, the environment strings, and the heap.            *)
(*                                                                         *)
(* Addresses are offsets from PE_end.  A string is its length, and what a  *)
(* byte of memory holds is what was last written there; characters are     *)
(* ASCII, which narrowing and widening leave as they are.                  *)
(***************************************************************************)
EXTENDS Integers, Sequences

CONSTANTS
  STRINGS, PATH, ENVP, ENVSTRINGS, HEAP,   (* where each area starts        *)
  Top,             (* bound: the last byte of the image that is modelled    *)
  CommandLines,    (* sequences of argument lengths                         *)
  Environments,    (* sequences of entry lengths; no entry is empty         *)
  Paths,           (* lengths of the paths a program opens                  *)
  Blocks           (* sizes a program asks malloc for                       *)

WORD == 4

ASSUME LayoutAssumption ==
  /\ STRINGS \in Nat /\ PATH \in Nat /\ ENVP \in Nat
  /\ ENVSTRINGS \in Nat /\ HEAP \in Nat /\ Top \in Nat
  /\ 0 < STRINGS /\ STRINGS < PATH /\ PATH < ENVP
  /\ ENVP < ENVSTRINGS /\ ENVSTRINGS < HEAP /\ HEAP <= Top

ASSUME InputAssumption ==
  /\ CommandLines \subseteq Seq(Nat) /\ Environments \subseteq Seq(Nat \ {0})
  /\ Paths \subseteq Nat /\ Blocks \subseteq Nat

VARIABLES
  args,      (* the command line, as next_token splits it                   *)
  env,       (* the environment block                                       *)
  pc,        (* "init", "args", "env" or "main"                             *)
  mem,       (* what each byte past PE_end holds                            *)
  ebx,       (* the next pointer's slot                                     *)
  edi,       (* where the next string goes                                  *)
  ecx,       (* argc                                                        *)
  esi,       (* entries of the environment read                             *)
  brk,       (* where malloc's next block starts                            *)
  argsEnd, envEnd, pathEnd   (* history: how far each kind of string came   *)

given  == <<args, env>>
ends   == <<argsEnd, envEnd, pathEnd>>
vars   == <<given, pc, mem, ebx, edi, ecx, esi, brk, ends>>

(* What a byte may hold: something of the k-th string, or the like.        *)
Byte(kind, k) == <<kind, k>>

Zero   == Byte("zero", 0)
At(a)  == Byte("at", a)            \* one byte of a pointer to a
Heap   == Byte("heap", 0)
Path   == Byte("path", 0)

(* The n bytes from lo on. *)
Fill(m, lo, n, what) ==
  [a \in DOMAIN m |-> IF lo <= a /\ a < lo + n THEN what ELSE m[a]]

(* A pointer to edi, and at edi a string with its terminator.              *)
Put(m, slot, to, length, what) ==
  Fill(Fill(Fill(m, slot, WORD, At(to)), to, length, what), to + length, 1, Zero)

-----------------------------------------------------------------------------
(* _start. *)

HeapLow   == ENVP                                                  \* mutant
HeapStart == HEAP

(* __libc_init takes what it needs from malloc (external, M2libc), or is   *)
(* the one that does nothing.  _start_main sets the cursors.               *)
LibcInit ==
  /\ pc = "init"
  /\ \E size \in Blocks \cup {0} :
       /\ mem' = Fill(mem, HeapStart, size, Heap)
       /\ brk' = HeapStart + size
  /\ pc' = "args" /\ ebx' = 0 /\ edi' = STRINGS /\ ecx' = 0
  /\ UNCHANGED <<given, esi, ends>>

NextSlot(slot) == slot + WORD

StoreArgument ==
  /\ pc = "args" /\ ecx < Len(args)
  /\ mem' = Put(mem, ebx, edi, args[ecx + 1], Byte("argument", ecx + 1))
  /\ ebx' = NextSlot(ebx)
  /\ edi' = edi + args[ecx + 1] + 1
  /\ ecx' = ecx + 1
  /\ UNCHANGED <<given, pc, esi, brk, ends>>

EnvStringsNext  == edi                                             \* mutant
EnvStringsStart == ENVSTRINGS

(* argv[argc] = NULL. *)
ArgumentsDone ==
  /\ pc = "args" /\ ecx = Len(args)
  /\ mem' = Fill(mem, ebx, WORD, Zero)
  /\ argsEnd' = edi
  /\ pc' = "env" /\ ebx' = ENVP /\ edi' = EnvStringsStart
  /\ UNCHANGED <<given, ecx, esi, brk, envEnd, pathEnd>>

StoreEntry ==
  /\ pc = "env" /\ esi < Len(env)
  /\ mem' = Put(mem, ebx, edi, env[esi + 1], Byte("entry", esi + 1))
  /\ ebx' = NextSlot(ebx)
  /\ edi' = edi + env[esi + 1] + 1
  /\ esi' = esi + 1
  /\ UNCHANGED <<given, pc, ecx, brk, ends>>

(* envp[n] = NULL, and main is called with argc, PE_end and envp.          *)
EnvironmentDone ==
  /\ pc = "env" /\ esi = Len(env)
  /\ mem' = Fill(mem, ebx, WORD, Zero)
  /\ envEnd' = edi
  /\ pc' = "main"
  /\ UNCHANGED <<given, ebx, edi, ecx, esi, brk, argsEnd, pathEnd>>

-----------------------------------------------------------------------------
(* The program. *)

WidenLow == STRINGS                                                \* mutant
WidenAt  == PATH

(* __open widens the name and its terminator: two bytes a character.       *)
Open(length) ==
  /\ pc = "main"
  /\ mem' = Fill(mem, WidenAt, 2 * (length + 1), Path)
  /\ pathEnd' = IF WidenAt + 2 * (length + 1) > pathEnd
                  THEN WidenAt + 2 * (length + 1) ELSE pathEnd
  /\ UNCHANGED <<given, pc, ebx, edi, ecx, esi, brk, argsEnd, envEnd>>

(* malloc goes up from __heap_start (external, M2libc), and the program    *)
(* writes to what it is given.                                             *)
Malloc(size) ==
  /\ pc = "main" /\ brk + size <= Top + 1
  /\ mem' = Fill(mem, brk, size, Heap)
  /\ brk' = brk + size
  /\ UNCHANGED <<given, pc, ebx, edi, ecx, esi, ends>>

-----------------------------------------------------------------------------
Init ==
  /\ args \in CommandLines /\ env \in Environments
  /\ pc = "init"
  /\ mem = [a \in 0 .. Top |-> Zero]
  /\ ebx = 0 /\ edi = 0 /\ ecx = 0 /\ esi = 0 /\ brk = HEAP
  /\ argsEnd = 0 /\ envEnd = 0 /\ pathEnd = 0

Next ==
  \/ LibcInit \/ StoreArgument \/ ArgumentsDone \/ StoreEntry \/ EnvironmentDone
  \/ \E length \in Paths : Open(length)
  \/ \E size \in Blocks : Malloc(size)

Spec == Init /\ [][Next]_vars

-----------------------------------------------------------------------------
(* Properties. *)

Tag == {"zero", "at", "heap", "path", "argument", "entry"} \X Nat

TypeOK ==
  /\ args \in Seq(Nat) /\ env \in Seq(Nat \ {0})
  /\ pc \in {"init", "args", "env", "main"}
  /\ mem \in [0 .. Top -> Tag]
  /\ edi \in Nat /\ ecx \in 0 .. Len(args) /\ esi \in 0 .. Len(env)
  /\ ebx \in Nat
  /\ pc = "args" => ebx = WORD * ecx
  /\ pc = "env" => ebx = ENVP + WORD * esi
  /\ pc \in {"init", "args"} => esi = 0
  /\ brk \in Nat /\ brk >= HEAP
  /\ argsEnd \in Nat /\ envEnd \in Nat /\ pathEnd \in Nat

(***************************************************************************)
(* The first n of the strings, as a program finds them in the memory m:    *)
(* a pointer in each slot from base on, to a string inside lo .. hi - 1.   *)
(***************************************************************************)
Points(m, slot, a) == \A i \in slot .. slot + WORD - 1 : m[i] = At(a)

IsString(m, a, length, what) ==
  (\A i \in a .. a + length - 1 : m[i] = what) /\ m[a + length] = Zero

Stored(m, base, strings, n, kind, lo, hi) ==
  \A k \in 1 .. n : \E a \in lo .. hi - 1 :
    /\ a + strings[k] < hi
    /\ Points(m, base + WORD * (k - 1), a)
    /\ IsString(m, a, strings[k], Byte(kind, k))

Null(m, slot) == \A i \in slot .. slot + WORD - 1 : m[i] = Zero

(* One slot is for the NULL that ends the array.                           *)
ArgumentsFit    == WORD * (Len(args) + 1) <= STRINGS /\ argsEnd <= PATH
EnvironmentFits == WORD * (Len(env) + 1) <= ENVSTRINGS - ENVP /\ envEnd <= HEAP
PathsFit        == pathEnd <= ENVP

ArgvHolds == /\ ecx = Len(args)
             /\ Stored(mem, 0, args, Len(args), "argument", STRINGS, PATH)
             /\ Null(mem, WORD * Len(args))
EnvpHolds == /\ Stored(mem, ENVP, env, Len(env), "entry", ENVSTRINGS, HEAP)
             /\ Null(mem, ENVP + WORD * Len(env))

(***************************************************************************)
(* What main is given as argc and argv is the command line, and stays so   *)
(* through every open and malloc, whatever the size of the environment and *)
(* of the paths: an area that overflows spoils only those above it.        *)
(***************************************************************************)
ArgumentsIntact == (pc = "main" /\ ArgumentsFit) => ArgvHolds

(***************************************************************************)
(* What main is given as envp is the environment, as long as the paths     *)
(* opened stay inside their buffer, and even where the command line, which *)
(* is written before it, did not stay inside its own.                      *)
(***************************************************************************)
EnvironmentIntact == (pc = "main" /\ EnvironmentFits /\ PathsFit) => EnvpHolds

(***************************************************************************)
(* What malloc has given out, by __libc_init before the arguments were     *)
(* stored or by the program after, holds what was written to it.           *)
(***************************************************************************)
HeapIntact ==
  (pc = "main" /\ ArgumentsFit /\ EnvironmentFits /\ PathsFit) =>
    \A a \in HeapStart .. brk - 1 : a <= Top => mem[a] = Heap

(***************************************************************************)
(* The head of libc-core.M1: the argument area is "argv, 256 pointers",    *)
(* and "more than 256 arguments or 31KB, a path of more than 2048          *)
(* characters, or an environment of more than 1024 entries or 60KB, would  *)
(* run past its own area".  Up to those limits, then, all is well.         *)
(***************************************************************************)
LimitsSuffice ==
  (/\ pc = "main"
   /\ WORD * Len(args) <= STRINGS /\ argsEnd <= PATH
   /\ WORD * Len(env) <= ENVSTRINGS - ENVP /\ envEnd <= HEAP
   /\ PathsFit)
    => ArgvHolds /\ EnvpHolds
==============================================================================
