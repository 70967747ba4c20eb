------------------------------ MODULE M0Meaning ------------------------------
(***************************************************************************)
(* What an M1 source means, read once from start to end, beside what M0's  *)
(* passes over the list make of it.                                        *)
(***************************************************************************)
EXTENDS M0

(* The one reading: the definitions so far, the tokens of the last one     *)
(* still to skip, the lines written, and whether a definition is cut off.  *)
Start == [names |-> << >>, skip |-> 0, lines |-> << >>, cut |-> FALSE]

Line(names, token) ==
  IF token.type = "string"             THEN StringText(token.text)
  ELSE IF token.text \in DOMAIN names  THEN names[token.text]
  ELSE IF Immediate(token.text)
    THEN ExpressNumber(NumerateString(Tail(token.text)), token.text[1])
  ELSE token.text

(* The names, with one more, or with another body for one of them.         *)
Learn(names, name, body) ==
  [t \in DOMAIN names \cup {name} |-> IF t = name THEN body ELSE names[t]]

ReadToken(tokens, s, k) ==
  IF s.skip > 0 THEN [s EXCEPT !.skip = @ - 1]
  ELSE IF tokens[k].text # DEFINE_str
    THEN [s EXCEPT !.lines = Append(@, Line(s.names, tokens[k]))]
  ELSE IF k + 2 > Len(tokens) THEN [s EXCEPT !.cut = TRUE, !.skip = 2]
  ELSE [s EXCEPT !.names = Learn(@, tokens[k + 1].text, Body(tokens[k + 2])),
                 !.skip  = 2]

(* The state of the reading after each token, and after the last of them.  *)
After(tokens) ==
  LET s[k \in 0 .. Len(tokens)] == IF k = 0 THEN Start
                                   ELSE ReadToken(tokens, s[k - 1], k)
  IN  s

Meaning(tokens) == After(tokens)[Len(tokens)]

(***************************************************************************)
(* The seven passes write what one reading of the file means, and stop at  *)
(* a fault only where a DEFINE has no name or no body.                     *)
(***************************************************************************)
OneReading ==
  /\ pc = "exit" => out = Meaning(read).lines /\ ~Meaning(read).cut
  /\ pc = "fault" => Meaning(read).cut

-----------------------------------------------------------------------------
(* Numbers as the banner and numerate_string's entry describe them. *)

Prefix == {33, 64, 37}

IsDecimal(s) == s # << >> /\ \A k \in DOMAIN s : s[k] \in 48 .. 57
IsSigned(s)  == Char(s, 1) = 45 /\ IsDecimal(Tail(s))
IsHex(s)     == /\ Len(s) >= 2 /\ s[1] = 48 /\ s[2] = 120
                /\ \A k \in 3 .. Len(s) : s[k] \in 48 .. 57 \cup 65 .. 70

IsNumber(s) == s # << >> /\ (IsDecimal(s) \/ IsSigned(s) \/ IsHex(s))

(* The number the digits stand for, whatever their count.                  *)
Positional(radix, digits) ==
  LET v[n \in 0 .. Len(digits)] == IF n = 0 THEN 0 ELSE v[n - 1] * radix + digits[n]
  IN  v[Len(digits)]

NumberOf(s) ==
  IF IsDecimal(s)     THEN Positional(10, DecDigits(s))
  ELSE IF IsSigned(s) THEN - Positional(10, DecDigits(Tail(s)))
  ELSE Positional(16, HexDigits(SubSeq(s, 3, Len(s))))

HexByte(s, n) == 16 * HexDigit(s[2 * n - 1]) + HexDigit(s[2 * n])

(* The number a line of hex stands for, its lowest byte first. *)
LittleEndian(s) ==
  LET v[n \in 0 .. Len(s) \div 2] ==
        IF n = 0 THEN 0 ELSE v[n - 1] + HexByte(s, n) * Weight[n - 1]
  IN  v[Len(s) \div 2]

(* The tokens left to Eval_Immediates and Preserve_Other, once written.    *)
Left == {j \in DOMAIN list :
           /\ list[j].type = "other"
           /\ \A k \in DOMAIN list : ~Defines(list, k, j)}

(***************************************************************************)
(* "an immediate, one/two/four bytes, little-endian" (the banner): the     *)
(* bytes written for a prefixed number are the number, modulo their size.  *)
(* "Zero only counts if written as one": with a '0' first.                 *)
(***************************************************************************)
ImmediateIsExact ==
  pc = "exit" =>
    \A j \in Left :
      LET text == list[j].text  line == list[j].expr[1]
      IN  (/\ text[1] \in Prefix /\ IsNumber(Tail(text))
           /\ NumberOf(Tail(text)) % Word # 0 \/ text[2] = 48) =>
            /\ Len(line) = 2 * Size(text[1])
            /\ LittleEndian(line) = NumberOf(Tail(text)) % Weight[Size(text[1])]

(***************************************************************************)
(* "anything else passed through" (the banner): a token no macro claims,   *)
(* that is no string and not a number behind an immediate's prefix, stands *)
(* for itself.                                                             *)
(***************************************************************************)
PassedThrough ==
  pc = "exit" =>
    \A j \in Left :
      LET text == list[j].text
      IN  text[1] \notin Prefix \/ ~IsNumber(Tail(text)) => list[j].expr = <<text>>
==============================================================================
