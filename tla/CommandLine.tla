----------------------------- MODULE CommandLine -----------------------------
(***************************************************************************)
(* What splitting a command line is for: the arguments are those of the    *)
(* rule the docstring of emit_next_token names, CommandLineToArgvW's, and  *)
(* what one program of the chain joins for another arrives as it was.      *)
(***************************************************************************)
EXTENDS NextToken, SequencesExt

CONSTANT ArgLists   (* argument lists a program may start another with      *)

ASSUME ArgListAssumption == ArgLists \subseteq Seq(Seq(Char))

-----------------------------------------------------------------------------
(***************************************************************************)
(* The rule, by position in the line s.  A run of n backslashes before a   *)
(* quote is n/2 backslashes; the quote is literal if n was odd and a       *)
(* delimiter if it was even; backslashes not before a quote are            *)
(* themselves.                                                             *)
(***************************************************************************)
Behind(s, i) == CHOOSE n \in 0 .. i - 1 :
  /\ \A j \in i - n .. i - 1 : s[j] = "slash"
  /\ n = i - 1 \/ s[i - n - 1] # "slash"

Delimits(s, i)  == s[i] = "quote" /\ Behind(s, i) % 2 = 0
Inside(s, i)    == Cardinality({j \in 1 .. i - 1 : Delimits(s, j)}) % 2 = 1
Parts(s, i)     == Separator(s[i]) /\ ~Inside(s, i)

BeforeQuote(s, i) == \E q \in i + 1 .. Len(s) :
  s[q] = "quote" /\ \A j \in i .. q - 1 : s[j] = "slash"

Survives(s, i) ==
  /\ ~Delimits(s, i)
  /\ s[i] = "slash" /\ BeforeQuote(s, i) => Behind(s, i) % 2 = 1

(* The members of S in ascending order. *)
Ascending(S) == [n \in 1 .. Cardinality(S) |->
                   CHOOSE i \in S : Cardinality({j \in S : j <= i}) = n]

Firsts(s) == {i \in DOMAIN s : ~Parts(s, i) /\ (i = 1 \/ Parts(s, i - 1))}

Argument(s, i) ==
  LET kept == {k \in i .. Len(s) : /\ Survives(s, k)
                                   /\ \A j \in i .. k : ~Parts(s, j)}
  IN  [n \in 1 .. Cardinality(kept) |-> s[Ascending(kept)[n]]]

Argv(s) == LET first == Ascending(Firsts(s))
           IN  [n \in DOMAIN first |-> Argument(s, first[n])]

-----------------------------------------------------------------------------
(***************************************************************************)
(* __spawn's joining (M2libc's process.c, external): each argument is put  *)
(* between quotes, with every run of backslashes before a quote, its own   *)
(* or the closing one, doubled, and one more before a quote of its own.    *)
(***************************************************************************)
Escaped(arg, i) ==
  CASE arg[i] = "quote" -> <<"slash", "quote">>
    [] arg[i] = "slash" /\ \E q \in i + 1 .. Len(arg) + 1 :
         /\ \A j \in i .. q - 1 : arg[j] = "slash"
         /\ q = Len(arg) + 1 \/ arg[q] = "quote" -> <<"slash", "slash">>
    [] OTHER -> <<arg[i]>>

Quoted(arg) ==
  <<"quote">> \o FlattenSeq([i \in DOMAIN arg |-> Escaped(arg, i)]) \o <<"quote">>

Join(args) == FlattenSeq([n \in DOMAIN args |->
                IF n = 1 THEN Quoted(args[n]) ELSE <<"space">> \o Quoted(args[n])])

Joined == [args \in ArgLists |-> Join(args)]

-----------------------------------------------------------------------------
(* The string at k, up to its terminator. *)
StringAt(k) ==
  LET end == CHOOSE e \in k .. Len(mem) :
               mem[e] = NUL /\ \A j \in k .. e - 1 : mem[j] # NUL
  IN  SubSeq(mem, k, end - 1)

Arguments == [n \in DOMAIN argv |-> StringAt(argv[n])]

(***************************************************************************)
(* The shared next_token is "the full rule CommandLineToArgvW defines"     *)
(* (emit_next_token's docstring): when the line is used up, every argument *)
(* returned, read where it was left, is the rule's.                        *)
(***************************************************************************)
ArgvIsRight == (pc = "end" /\ version.escapes) => Arguments = Argv(line)

(***************************************************************************)
(* "Both halves follow CommandLineToArgvW, so an argument survives         *)
(* whatever is in it" (README): what __spawn joins, next_token splits.     *)
(***************************************************************************)
SpawnRoundTrip ==
  (pc = "end" /\ version.escapes) =>
    \A args \in ArgLists : line = Joined[args] => Arguments = args

(* Quotes stand only around whole arguments, no backslash before one.      *)
Grouped ==
  \A i \in DOMAIN line : line[i] = "quote" =>
    /\ Behind(line, i) = 0
    /\ IF Inside(line, i)
         THEN i = Len(line) \/ Separator(line[i + 1])
         ELSE i = 1 \/ Separator(line[i - 1])

(***************************************************************************)
(* The copies hex0, hex1, hex2 and catm carry read the lines the build     *)
(* writes, with quotes around paths and nothing else, by the same rule.    *)
(***************************************************************************)
PlainAgrees == (pc = "end" /\ ~version.escapes /\ Grouped) => Arguments = Argv(line)
==============================================================================
