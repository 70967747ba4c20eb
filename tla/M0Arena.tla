------------------------------- MODULE M0Arena -------------------------------
(***************************************************************************)
(* Where M0 keeps its list while it reads: the arena past the end of the   *)
(* file (x86/Development/gen_m0.py: malloc, Tokenize_Line, Store_Atom,     *)
(* Store_String).                                                          *)
(*                                                                         *)
(* A token is a struct and, right behind it, a string of STRSZ bytes that  *)
(* nobody bounds.  Nobody writes its terminator either, nor the fields     *)
(* that are to be zero: malloc "is calloc as well, which is what every     *)
(* caller assumes".  So a long text runs into the token that follows, and  *)
(* that token is then written over only part of it.                        *)
(*                                                                         *)
(* The arena is followed up to Reverse_List; what the passes make of the   *)
(* list is in M0.                                                          *)
(***************************************************************************)
EXTENDS M0

CONSTANTS
  STRSZ,     (* the room a text is given: 256                               *)
  arena      (* the address malloc starts from                              *)

ASSUME ArenaAssumption ==
  STRSZ \in Nat \ {0} /\ arena \in Nat \ {0} /\ LONG <= 8

(* The struct, laid out as upstream lays it out. *)
NEXT  == 0
TYPE  == 8
TEXT  == 16
EXPR  == 24
TOKSZ == 32

VARIABLES
  mem,         (* what has been written, by address; zero everywhere else   *)
  malloc_ptr,  (* where the next block starts                               *)
  cells        (* the address of each token of the list                     *)

memory == <<mem, malloc_ptr, cells>>

(* A byte is zero, a character, or the k-th byte of a word.                *)
ByteIs(kind, k) == <<kind, k>>
Zero == ByteIs(0, 0)

WordByte(w, k) == IF w = 0 THEN Zero ELSE ByteIs(w, k)

(* The bytes of a word and of a text, in the order of their addresses.     *)
WordBytes(w)    == [k \in 1 .. LONG |-> WordByte(w, k)]
TextBytes(text) == [k \in DOMAIN text |-> ByteIs(text[k], 0)]

Write(m, a, bytes) ==
  [b \in DOMAIN m \cup (a .. a + Len(bytes) - 1) |->
     IF b - a + 1 \in DOMAIN bytes THEN bytes[b - a + 1] ELSE m[b]]

Contents(m, a) == IF a \in DOMAIN m THEN m[a] ELSE Zero

(* The token read last. *)
head == IF cells = << >> THEN 0 ELSE cells[1]

StringType == 2

ForgetsTheNul == STRSZ - 1                                         \* mutant
TextRoom      == STRSZ

(***************************************************************************)
(* NEXT, the text as far as it goes, TEXT, and for a string TYPE; the type *)
(* of an atom and every expression are left as they were found.            *)
(***************************************************************************)
Keep(token) ==
  LET p    == malloc_ptr
      s    == p + TOKSZ
      next == Write(mem, p + NEXT, WordBytes(head))
      text == Write(next, s, TextBytes(token.text))
      kept == Write(text, p + TEXT, WordBytes(s))
  IN  /\ mem' = IF token.type = "string"
                  THEN Write(kept, p + TYPE, WordBytes(StringType)) ELSE kept
      /\ malloc_ptr' = s + TextRoom
      /\ cells' = <<p>> \o cells

StoreToken == (StoreAtom \/ StoreString) /\ Keep(list'[1])

Follow == (SkipBlank \/ SkipComment \/ EndOfFile) /\ UNCHANGED memory

(* The list in its own order, and what the passes do to it: M0's matter.   *)
Afterwards ==
  /\ \/ ReverseList \/ IdentifyOther \/ IdentifyMacro \/ Fault \/ LineMacro
     \/ ProcessString \/ EvalImmediates \/ PreserveOther \/ PrintHex
  /\ UNCHANGED memory

ArenaInit == Init /\ mem = << >> /\ malloc_ptr = arena /\ cells = << >>

ArenaNext == StoreToken \/ Follow \/ Afterwards

ArenaSpec == ArenaInit /\ [][ArenaNext]_<<vars, memory>>

-----------------------------------------------------------------------------
(* Properties. *)

HoldsWord(m, a, w) == \A k \in 1 .. LONG : Contents(m, a + k - 1) = WordByte(w, k)

HoldsText(m, a, text) ==
  /\ \A k \in DOMAIN text : Contents(m, a + k - 1) = ByteIs(text[k], 0)
  /\ Contents(m, a + Len(text)) = Zero

TextOf(j) == cells[j] + TOKSZ
EndOf(j)  == TextOf(j) + Len(list[j].text)

(* The pointers by which the list is walked. *)
Linked(j) ==
  /\ HoldsWord(mem, cells[j] + NEXT, IF j < Len(list) THEN cells[j + 1] ELSE 0)
  /\ HoldsWord(mem, cells[j] + TEXT, TextOf(j))

(* The token as the passes are to find it. *)
Intact(j) ==
  /\ HoldsWord(mem, cells[j] + TYPE, IF list[j].type = "string" THEN StringType ELSE 0)
  /\ HoldsWord(mem, cells[j] + EXPR, 0)
  /\ HoldsText(mem, TextOf(j), list[j].text)

(* Its own text leaves room for the terminator, and no text read before it *)
(* gets as far as the first field that may stay unwritten.                 *)
OutOfReach(j) == /\ Len(list[j].text) < STRSZ
                 /\ \A i \in j + 1 .. Len(list) : EndOf(i) <= cells[j] + TYPE

(***************************************************************************)
(* "This is the same code with more room": whatever lengths the texts      *)
(* have, the list is never broken, and a token out of reach of an          *)
(* overlong one reads back as it was read in.                              *)
(***************************************************************************)
ListIsKept ==
  pc \in {"tokenize", "reverse"} =>
    \A j \in DOMAIN list : Linked(j) /\ (OutOfReach(j) => Intact(j))
==============================================================================
