---------------------------------- MODULE M0 ----------------------------------
(***************************************************************************)
(* M0, the macro assembler (x86/Development/gen_m0.py, assembled into      *)
(* x86/M0_x86.hex2): the input is read into a list of tokens, and a        *)
(* sequence of passes over the list gives each one its expression, the     *)
(* text that stands for it in the output.                                  *)
(*                                                                         *)
(* Characters are byte values.  A text is what was read for it, whatever   *)
(* its length; M0Arena says for which tokens that is what memory holds     *)
(* when the passes begin.  Opening the files and read errors are left out. *)
(***************************************************************************)
EXTENDS Integers, Sequences, SequencesExt

CONSTANTS
  Sources,   (* the input files: sequences of bytes, none of them zero      *)
  LONG       (* the bytes of a word: 4, and what a value wraps at           *)

Byte == 1 .. 255
Text == Seq(Byte)

ASSUME SourceAssumption == Sources \subseteq Text
ASSUME LongAssumption   == LONG \in Nat /\ LONG >= 2

Terminators == {10, 13, 9, 32}
Comments    == {59, 35}
StringChar  == {34, 39}
DEFINE_str  == <<68, 69, 70, 73, 78, 69>>

(* expr is << >> for NULL and <<text>> for a pointer to text. *)
NULL  == << >>
Token == [type : {"other", "macro", "string"}, text : Text, expr : {NULL} \cup Seq(Text)]

VARIABLES
  source,    (* the input file                                              *)
  pc,        (* the pass                                                    *)
  pos,       (* the byte the next fgetc returns                             *)
  list,      (* the tokens, from head on                                    *)
  cur,       (* the token a pass is at                                      *)
  out,       (* the lines written                                           *)
  read       (* history: the tokens in the order they were read             *)

vars == <<source, pc, pos, list, cur, out, read>>

-----------------------------------------------------------------------------
(* Numbers. *)

Char(s, k) == IF k \in DOMAIN s THEN s[k] ELSE 0

(* Past '9' seven is taken off, which puts 'A' to 'F' in range.            *)
HexDigit(c) == IF c - 48 < 10 THEN c - 48 ELSE c - 55
DecDigit(c) == c - 48

(* What the byte n bytes up counts for; a value wraps at the first past it. *)
Weight[n \in 0 .. LONG] == IF n = 0 THEN 1 ELSE 256 * Weight[n - 1]

Word == Weight[LONG]

(* The value of the digits, or -1 where one is out of range.               *)
Digits(radix, digits) ==
  FoldLeft(LAMBDA v, d : IF v = -1 \/ d \notin 0 .. radix - 1
                           THEN -1 ELSE (v * radix + d) % Word, 0, digits)
HexDigits(s) == [k \in DOMAIN s |-> HexDigit(s[k])]
DecDigits(s) == [k \in DOMAIN s |-> DecDigit(s[k])]

NoSign(s)   == FALSE                                               \* mutant
Negative(s) == Char(s, 1) = 45

NumerateString(s) ==
  LET hex   == Char(s, 2) = 120
      value == IF hex THEN Digits(16, HexDigits(SubSeq(s, 3, Len(s))))
               ELSE IF Negative(s) THEN Digits(10, DecDigits(Tail(s)))
               ELSE Digits(10, DecDigits(s))
  IN  IF value = -1 THEN 0
      ELSE IF ~hex /\ Negative(s) THEN (- value) % Word
      ELSE value

Hex4(n) == IF n <= 9 THEN 48 + n ELSE 55 + n
Hex8(n) == <<Hex4(n \div 16), Hex4(n % 16)>>

Size(prefix) == CASE prefix = 37 -> LONG
                  [] prefix = 64 -> 2
                  [] OTHER       -> 1

(* The low bytes of the value, the lowest first. *)
ByteOf(value, k) == (value \div Weight[k - 1]) % 256

ExpressNumber(value, prefix) ==
  FlattenSeq([k \in 1 .. Size(prefix) |-> Hex8(ByteOf(value, k))])

-----------------------------------------------------------------------------
(* Tokenize_Line, called until the end of the input. *)

Reading == pc = "tokenize" /\ pos <= Len(source)

(* Where the first of the characters S is, from p on, if it is at all.     *)
Find(p, S) == IF \E k \in p .. Len(source) : source[k] \in S
                THEN CHOOSE k \in p .. Len(source) :
                       source[k] \in S /\ \A j \in p .. k - 1 : source[j] \notin S
                ELSE Len(source) + 1

PastEnd(p) == p + 1                                                \* mutant
Past(p)    == IF p > Len(source) THEN p ELSE p + 1

SkipBlank ==
  /\ Reading /\ source[pos] \in Terminators
  /\ pos' = pos + 1
  /\ UNCHANGED <<source, pc, list, cur, out, read>>

SkipComment ==
  /\ Reading /\ source[pos] \in Comments
  /\ pos' = Past(Find(pos, {10}))
  /\ UNCHANGED <<source, pc, list, cur, out, read>>

(* The list is built backwards. *)
Put(type, end) ==
  list' = <<[type |-> type, text |-> SubSeq(source, pos, end - 1),
             expr |-> NULL]>> \o list

StoreAtom ==
  /\ Reading /\ source[pos] \notin Terminators \cup Comments \cup StringChar
  /\ LET end == Find(pos + 1, Terminators)
     IN  Put("other", end) /\ pos' = Past(end)
  /\ UNCHANGED <<source, pc, cur, out, read>>

(* The opening quote is kept, the closing one is not. *)
StoreString ==
  /\ Reading /\ source[pos] \in StringChar
  /\ LET end == Find(pos + 1, {source[pos]})
     IN  Put("string", end) /\ pos' = Past(end)
  /\ UNCHANGED <<source, pc, cur, out, read>>

EndOfFile ==
  /\ pc = "tokenize" /\ pos > Len(source)
  /\ pc' = IF list = << >> THEN "exit" ELSE "reverse"
  /\ UNCHANGED <<source, pos, list, cur, out, read>>

ReverseList ==
  /\ pc = "reverse"
  /\ list' = Reverse(list) /\ read' = Reverse(list)
  /\ pc' = "identify" /\ cur' = 1
  /\ UNCHANGED <<source, pos, out>>

-----------------------------------------------------------------------------
(* The passes. *)

(* On to the next token of a list of length n, or to the next pass.        *)
Step(n, pass) == IF cur < n THEN cur' = cur + 1 /\ pc' = pc
                            ELSE cur' = 1 /\ pc' = pass

IdentifyOther ==
  /\ pc = "identify" /\ list[cur].text # DEFINE_str
  /\ Step(Len(list), "line")
  /\ UNCHANGED <<source, pos, list, out, read>>

(* A string expansion starts after the quote. *)
Body(token) == IF token.type = "string" THEN Tail(token.text) ELSE token.text

(* DEFINE takes over the two tokens after it, and unlinks them.            *)
IdentifyMacro ==
  /\ pc = "identify" /\ list[cur].text = DEFINE_str /\ cur + 2 <= Len(list)
  /\ LET macro == [type |-> "macro", text |-> list[cur + 1].text,
                   expr |-> <<Body(list[cur + 2])>>]
     IN  list' = SubSeq(list, 1, cur - 1) \o <<macro>>
                   \o SubSeq(list, cur + 3, Len(list))
  /\ Step(Len(list) - 2, "line")
  /\ UNCHANGED <<source, pos, out, read>>

(* Where one of the two is missing, its fields are read through NULL.      *)
Fault ==
  /\ pc = "identify" /\ list[cur].text = DEFINE_str /\ cur + 2 > Len(list)
  /\ pc' = "fault"
  /\ UNCHANGED <<source, pos, list, cur, out, read>>

(* Set_Expression: the tokens after the macro at k that it claims.         *)
ClaimsAll(k) == {j \in DOMAIN list :                               \* mutant
                   list[j].type # "macro" /\ list[j].text = list[k].text}
Claims(k) == {j \in k + 1 .. Len(list) :
                list[j].type # "macro" /\ list[j].text = list[k].text}

LineMacro ==
  /\ pc = "line"
  /\ list' = [j \in DOMAIN list |->
                IF list[cur].type = "macro" /\ j \in Claims(cur)
                  THEN [list[j] EXCEPT !.expr = list[cur].expr] ELSE list[j]]
  /\ Step(Len(list), "string")
  /\ UNCHANGED <<source, pos, out, read>>

(* The passes that look at one token at a time. *)
Pass(name, pass) ==
  /\ pc = name
  /\ pc' = pass
  /\ UNCHANGED <<source, pos, cur, out, read>>

(* '...' is hex as it stands; "..." is text, and ends in a zero byte.      *)
StringText(text) ==
  IF text[1] = 39 THEN Tail(text)
  ELSE FlattenSeq([k \in 1 .. Len(text) - 1 |-> Hex8(text[k + 1])]) \o Hex8(0)

StringOf(token) == IF token.type = "string"
                     THEN [token EXCEPT !.expr = <<StringText(token.text)>>]
                     ELSE token

ProcessString ==
  /\ Pass("string", "eval")
  /\ list' = [j \in DOMAIN list |-> StringOf(list[j])]

(* Nothing tests the prefix, and a zero counts if it starts with a '0'.    *)
Immediate(text) == \/ NumerateString(Tail(text)) # 0
                   \/ Char(text, 2) = 48

NotMacro(token)  == token.type # "macro"                           \* mutant
Unclaimed(token) == token.type # "macro" /\ token.expr = NULL

ImmediateOf(token) ==
  IF Unclaimed(token) /\ Immediate(token.text)
    THEN [token EXCEPT !.expr = <<ExpressNumber(NumerateString(Tail(token.text)),
                                                token.text[1])>>]
    ELSE token

EvalImmediates ==
  /\ Pass("eval", "preserve")
  /\ list' = [j \in DOMAIN list |-> ImmediateOf(list[j])]

OtherOf(token) == IF Unclaimed(token) THEN [token EXCEPT !.expr = <<token.text>>]
                                      ELSE token

PreserveOther ==
  /\ Pass("preserve", "print")
  /\ list' = [j \in DOMAIN list |-> OtherOf(list[j])]

PrintHex ==
  /\ pc = "print"
  /\ out' = FlattenSeq([j \in DOMAIN list |->
              IF list[j].type = "macro" THEN << >> ELSE list[j].expr])
  /\ pc' = "exit"
  /\ UNCHANGED <<source, pos, list, cur, read>>

-----------------------------------------------------------------------------
Init ==
  /\ source \in Sources
  /\ pc = "tokenize" /\ pos = 1 /\ list = << >> /\ cur = 1
  /\ out = << >> /\ read = << >>

Next == \/ SkipBlank \/ SkipComment \/ StoreAtom \/ StoreString \/ EndOfFile
        \/ ReverseList \/ IdentifyOther \/ IdentifyMacro \/ Fault
        \/ LineMacro \/ ProcessString \/ EvalImmediates \/ PreserveOther
        \/ PrintHex

Spec == Init /\ [][Next]_vars

-----------------------------------------------------------------------------
(* Properties. *)

Passes == {"identify", "line", "string", "eval", "preserve", "print"}

TypeOK ==
  /\ source \in Text
  /\ pc \in {"tokenize", "reverse", "exit", "fault"} \cup Passes
  /\ pos \in 1 .. Len(source) + 1
  /\ list \in Seq(Token)
  /\ pc \in Passes => cur \in 1 .. Len(list)
  /\ out \in Seq(Text) /\ read \in Seq(Token)

(* In the list l, the token at k is a macro before j that names it.        *)
Defines(l, k, j) == k < j /\ l[k].type = "macro" /\ l[k].text = l[j].text

(* What the first n tokens have made of the list's expressions.            *)
Scope(l, n) ==
  \A j \in DOMAIN l : l[j].type # "macro" =>
    IF \E k \in 1 .. n : Defines(l, k, j)
      THEN \E k \in 1 .. n : /\ Defines(l, k, j)
                             /\ \A m \in k + 1 .. n : ~Defines(l, m, j)
                             /\ l[j].expr = l[k].expr
      ELSE l[j].expr = NULL

(***************************************************************************)
(* "DEFINE name body: name means body from here on" (the banner): once     *)
(* the macros have been applied, a token of a macro's name has the         *)
(* expression of the last definition before it, and one before every       *)
(* definition of its name has none.                                        *)
(***************************************************************************)
MacroScope == pc = "string" => Scope(list, Len(list))
==============================================================================
