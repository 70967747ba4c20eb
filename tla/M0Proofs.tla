------------------------------- MODULE M0Proofs -------------------------------
(***************************************************************************)
(* The scope of M0's macros, the types of its passes, what the passes make *)
(* of a file beside one reading of it, and M0's list in the arena, for     *)
(* every input.                                                            *)
(*                                                                         *)
(* Up to Line_Macro only macros have an expression (Fresh); Line_Macro at  *)
(* cur has given every token what the macros before cur say of it (Scope), *)
(* and each further macro overwrites exactly the tokens it now defines.    *)
(***************************************************************************)
EXTENDS M0Meaning, M0Arena, WellFoundedInduction, TLAPS

FreshToken == {t \in Token : t.text # << >> /\ (t.type # "macro" => t.expr = NULL)}

Unapplied == {"tokenize", "reverse", "identify"}

IInv ==
  /\ source \in Text /\ pos \in Nat \ {0} /\ cur \in Nat \ {0}
  /\ pc \in Unapplied => list \in Seq(FreshToken)
  /\ pc \in {"line", "string"} => list \in Seq(Token)
  /\ pc = "reverse" => Len(list) > 0
  /\ pc \in {"identify", "line"} => cur <= Len(list)
  /\ pc = "line" => Scope(list, cur - 1)
  /\ MacroScope

-----------------------------------------------------------------------------
(* A set of numbers that has one has a least. *)
LEMMA LeastOf ==
  ASSUME NEW S \in SUBSET Nat, S # {}
  PROVE  \E k \in S : \A j \in S : k <= j
<1>1. \E k \in S : \A j \in S : ~(<<j, k>> \in OpToRel(<, Nat))
  BY NatLessThanWellFounded, WFMin
<1>2. \A j, k \in Nat : <<j, k>> \in OpToRel(<, Nat) <=> j < k
  BY DEF OpToRel
<1>3. PICK k \in S : \A j \in S : ~(<<j, k>> \in OpToRel(<, Nat))
  BY <1>1
<1>4. ASSUME NEW j \in S PROVE k <= j
  <2>1. ~(j < k)
    BY <1>2, <1>3
  <2>2. QED
    BY <2>1
<1>5. QED
  BY <1>4

(* The end of a token found from p on is p or later, and in the file.      *)
LEMMA FindType ==
  ASSUME source \in Text, NEW p \in Nat \ {0}, p <= Len(source) + 1, NEW S
  PROVE  Find(p, S) \in p .. Len(source) + 1
<1>1. Len(source) \in Nat
  BY DEF Text
<1>2. CASE \E k \in p .. Len(source) : source[k] \in S
  <2> DEFINE Hit == {k \in p .. Len(source) : source[k] \in S}
  <2>1. \E k \in Hit : \A j \in Hit : k <= j
    <3>1. Hit \in SUBSET Nat /\ Hit # {}
      BY <1>1, <1>2
    <3>2. QED
      BY ONLY <3>1, LeastOf
  <2>2. \E k \in p .. Len(source) :
          source[k] \in S /\ \A j \in p .. k - 1 : source[j] \notin S
    BY <1>1, <2>1
  <2>3. QED
    BY <1>1, <1>2, <2>2 DEF Find
<1>3. CASE ~ \E k \in p .. Len(source) : source[k] \in S
  BY <1>1, <1>3 DEF Find
<1>4. QED
  BY <1>2, <1>3

(* What a reading of a token leaves is the tokens read so far and one      *)
(* more, with no expression.                                               *)
LEMMA PutType ==
  ASSUME source \in Text, pos \in Nat \ {0}, pos <= Len(source),
         list \in Seq(FreshToken), NEW type \in {"other", "string"},
         NEW end \in pos + 1 .. Len(source) + 1, Put(type, end)
  PROVE  list' \in Seq(FreshToken) /\ Len(list') > 0
<1> DEFINE text == SubSeq(source, pos, end - 1)
           token == [type |-> type, text |-> text, expr |-> NULL]
<1>1. text \in Text /\ text # << >>
  BY DEF Text
<1>2. token \in FreshToken
  BY <1>1 DEF FreshToken, Token
<1>3. list' = <<token>> \o list
  BY DEF Put
<1>4. <<token>> \in Seq(FreshToken) /\ Len(<<token>>) = 1
  BY <1>2
<1>5. QED
  BY <1>3, <1>4

(* The expansion a macro keeps is a text. *)
LEMMA BodyType ==
  ASSUME NEW t \in FreshToken
  PROVE  Body(t) \in Text
BY DEF FreshToken, Token, Text, Body

(* A macro in the place of three tokens. *)
LEMMA MacroType ==
  ASSUME NEW l \in Seq(FreshToken), NEW c \in Nat \ {0}, c + 2 <= Len(l),
         NEW macro \in FreshToken
  PROVE  LET new == SubSeq(l, 1, c - 1) \o <<macro>> \o SubSeq(l, c + 3, Len(l))
         IN  new \in Seq(FreshToken) /\ Len(new) = Len(l) - 2
<1>1. SubSeq(l, 1, c - 1) \in Seq(FreshToken) /\ Len(SubSeq(l, 1, c - 1)) = c - 1
  OBVIOUS
<1>2. /\ SubSeq(l, c + 3, Len(l)) \in Seq(FreshToken)
      /\ Len(SubSeq(l, c + 3, Len(l))) = Len(l) - c - 2
  OBVIOUS
<1>3. <<macro>> \in Seq(FreshToken) /\ Len(<<macro>>) = 1
  OBVIOUS
<1> DEFINE front == SubSeq(l, 1, c - 1)  rest == SubSeq(l, c + 3, Len(l))
<1>4. ASSUME NEW a \in Seq(FreshToken), NEW b \in Seq(FreshToken),
             NEW m \in Seq(FreshToken)
      PROVE  a \o m \o b \in Seq(FreshToken) /\ Len(a \o m \o b) = Len(a) + Len(m) + Len(b)
  OBVIOUS
<1>5. front \o <<macro>> \o rest \in Seq(FreshToken)
      /\ Len(front \o <<macro>> \o rest) = Len(front) + 1 + Len(rest)
  BY <1>1, <1>2, <1>3, <1>4
<1>6. Len(front) + 1 + Len(rest) = Len(l) - 2
  <2>1. \A n, k \in Nat : (k - 1) + 1 + (n - k - 2) = n - 2
    OBVIOUS
  <2>2. Len(l) \in Nat /\ c \in Nat
    OBVIOUS
  <2>3. Len(front) = c - 1 /\ Len(rest) = Len(l) - c - 2
    BY <1>1, <1>2
  <2>4. QED
    BY ONLY <2>1, <2>2, <2>3
<1>7. QED
  BY ONLY <1>5, <1>6

LEMMA FreshIsToken == \A l \in Seq(FreshToken) : l \in Seq(Token)
BY DEF FreshToken

-----------------------------------------------------------------------------
(* A list with no expression outside its macros is one no macro has yet    *)
(* claimed anything of.                                                    *)
LEMMA FreshScope ==
  ASSUME NEW l \in Seq(FreshToken)
  PROVE  Scope(l, 0)
<1>1. \A j \in DOMAIN l : l[j].type # "macro" => l[j].expr = NULL
  BY DEF FreshToken
<1>2. QED
  BY <1>1 DEF Scope

(* The list Line_Macro leaves, at c. *)
Applied(l, c) ==
  [j \in DOMAIN l |->
     IF /\ l[c].type = "macro" /\ j \in c + 1 .. Len(l)
        /\ l[j].type # "macro" /\ l[j].text = l[c].text
       THEN [l[j] EXCEPT !.expr = l[c].expr] ELSE l[j]]

(* It is a list, and no token's type or text has changed, nor any macro.   *)
LEMMA AppliedType ==
  ASSUME NEW l \in Seq(Token), NEW c \in 1 .. Len(l)
  PROVE  /\ Applied(l, c) \in Seq(Token)
         /\ Len(Applied(l, c)) = Len(l) /\ DOMAIN Applied(l, c) = DOMAIN l
         /\ \A j \in DOMAIN l :
              /\ Applied(l, c)[j].type = l[j].type
              /\ Applied(l, c)[j].text = l[j].text
              /\ Applied(l, c)[j].expr =
                   IF Defines(l, c, j) /\ l[j].type # "macro"
                     THEN l[c].expr ELSE l[j].expr
<1>1. DOMAIN l = 1 .. Len(l) /\ Len(l) \in Nat
  OBVIOUS
<1>2. ASSUME NEW t \in Token, NEW u \in Token
      PROVE  /\ [t EXCEPT !.expr = u.expr] \in Token
             /\ [t EXCEPT !.expr = u.expr].type = t.type
             /\ [t EXCEPT !.expr = u.expr].text = t.text
             /\ [t EXCEPT !.expr = u.expr].expr = u.expr
  BY DEF Token
<1>3. ASSUME NEW j \in DOMAIN l
      PROVE  /\ Applied(l, c)[j] \in Token
             /\ Applied(l, c)[j].type = l[j].type
             /\ Applied(l, c)[j].text = l[j].text
             /\ Applied(l, c)[j].expr =
                  IF Defines(l, c, j) /\ l[j].type # "macro"
                    THEN l[c].expr ELSE l[j].expr
  <2>1. l[j] \in Token /\ l[c] \in Token
    BY <1>1, <1>3
  <2>2. Defines(l, c, j) <=> /\ l[c].type = "macro" /\ j \in c + 1 .. Len(l)
                             /\ l[j].text = l[c].text
    BY <1>1, <1>3 DEF Defines
  <2>3. CASE Defines(l, c, j) /\ l[j].type # "macro"
    <3>1. Applied(l, c)[j] = [l[j] EXCEPT !.expr = l[c].expr]
      BY <1>3, <2>2, <2>3 DEF Applied
    <3>2. QED
      BY <1>2, <2>1, <2>3, <3>1
  <2>4. CASE ~(Defines(l, c, j) /\ l[j].type # "macro")
    <3>1. Applied(l, c)[j] = l[j]
      BY <1>3, <2>2, <2>4 DEF Applied
    <3>2. QED
      BY <2>1, <2>4, <3>1
  <2>5. QED
    BY <2>3, <2>4
<1>4. DOMAIN Applied(l, c) = 1 .. Len(l)
  BY <1>1 DEF Applied
<1>5. Applied(l, c) = [j \in 1 .. Len(l) |-> Applied(l, c)[j]]
  BY <1>1 DEF Applied
<1>6. Applied(l, c) \in Seq(Token)
  BY <1>1, <1>3, <1>5
<1>7. QED
  BY <1>1, <1>3, <1>4, <1>6

(* One macro more: what it defines is claimed by it, the rest stays as the *)
(* macros before it left it.                                               *)
LEMMA ScopeStep ==
  ASSUME NEW l \in Seq(Token), NEW c \in 1 .. Len(l), Scope(l, c - 1)
  PROVE  Scope(Applied(l, c), c)
<1> DEFINE new == Applied(l, c)
<1>1. \A k, j \in DOMAIN l : Defines(new, k, j) <=> Defines(l, k, j)
  BY AppliedType DEF Defines
<1>2. DOMAIN l = 1 .. Len(l) /\ Len(l) \in Nat /\ DOMAIN new = DOMAIN l
  BY AppliedType
<1>3. ASSUME NEW j \in DOMAIN l, l[j].type # "macro"
      PROVE  IF \E k \in 1 .. c : Defines(new, k, j)
               THEN \E k \in 1 .. c : /\ Defines(new, k, j)
                                      /\ \A m \in k + 1 .. c : ~Defines(new, m, j)
                                      /\ new[j].expr = new[k].expr
               ELSE new[j].expr = NULL
  <2>1. \A k \in 1 .. c : k \in DOMAIN l /\ (Defines(new, k, j) <=> Defines(l, k, j))
    BY <1>1, <1>2, <1>3
  <2>2. \A k \in 1 .. c : Defines(l, k, j) => new[k].expr = l[k].expr
    <3>1. ASSUME NEW k \in 1 .. c, Defines(l, k, j)
          PROVE  new[k].expr = l[k].expr
      <4>1. l[k].type = "macro" /\ k \in DOMAIN l
        BY <2>1, <3>1 DEF Defines
      <4>2. QED
        BY <4>1, AppliedType
    <3>2. QED
      BY <3>1
  <2>3. CASE Defines(l, c, j)
    <3>1. new[j].expr = l[c].expr
      BY <1>3, <2>3, AppliedType
    <3>2. new[j].expr = new[c].expr
      BY <2>2, <2>3, <3>1
    <3>3. Defines(new, c, j) /\ \A m \in c + 1 .. c : ~Defines(new, m, j)
      BY <2>1, <2>3
    <3>4. QED
      BY <3>2, <3>3
  <2>4. CASE ~Defines(l, c, j)
    <3>1. new[j].expr = l[j].expr
      BY <1>3, <2>4, AppliedType
    <3>2. IF \E k \in 1 .. c - 1 : Defines(l, k, j)
            THEN \E k \in 1 .. c - 1 : /\ Defines(l, k, j)
                                       /\ \A m \in k + 1 .. c - 1 : ~Defines(l, m, j)
                                       /\ l[j].expr = l[k].expr
            ELSE l[j].expr = NULL
      BY <1>3 DEF Scope
    <3>3. CASE \E k \in 1 .. c - 1 : Defines(l, k, j)
      <4>1. PICK k \in 1 .. c - 1 : /\ Defines(l, k, j)
                                    /\ \A m \in k + 1 .. c - 1 : ~Defines(l, m, j)
                                    /\ l[j].expr = l[k].expr
        BY <3>2, <3>3
      <4>2. k \in 1 .. c /\ Defines(new, k, j) /\ new[j].expr = new[k].expr
        BY <2>1, <2>2, <3>1, <4>1
      <4>3. \A m \in k + 1 .. c : ~Defines(new, m, j)
        BY <2>1, <2>4, <4>1
      <4>4. QED
        BY <4>2, <4>3
    <3>4. CASE ~ \E k \in 1 .. c - 1 : Defines(l, k, j)
      <4>1. \A k \in 1 .. c : ~Defines(new, k, j)
        BY <2>1, <2>4, <3>4
      <4>2. new[j].expr = NULL
        BY <3>1, <3>2, <3>4
      <4>3. QED
        BY <4>1, <4>2
    <3>5. QED
      BY <3>3, <3>4
  <2>5. QED
    BY <2>3, <2>4
<1>4. \A j \in DOMAIN l : new[j].type = l[j].type
  BY AppliedType
<1>5. QED
  BY <1>2, <1>3, <1>4 DEF Scope

-----------------------------------------------------------------------------
(* The inductive invariant, action by action. *)

LEMMA InitInv == Init => IInv
<1> SUFFICES ASSUME Init PROVE IInv
  OBVIOUS
<1>1. source \in Text
  BY SourceAssumption DEF Init
<1>2. list = << >> /\ list \in Seq(FreshToken)
  BY DEF Init
<1>3. QED
  BY <1>1, <1>2 DEF Init, IInv, MacroScope, Unapplied

LEMMA NextInv == IInv /\ [Next]_vars => IInv'
<1> SUFFICES ASSUME IInv, [Next]_vars PROVE IInv'
  OBVIOUS
<1>0. source \in Text /\ Len(source) \in Nat /\ pos \in Nat \ {0} /\ cur \in Nat \ {0}
  BY DEF IInv, Text
<1>1. CASE SkipBlank
  BY <1>0, <1>1 DEF SkipBlank, Reading, IInv, MacroScope, Unapplied
<1>2. CASE SkipComment
  <2>1. Find(pos, {10}) \in pos .. Len(source) + 1
    BY <1>0, <1>2, FindType DEF SkipComment, Reading
  <2>2. pos' \in Nat \ {0}
    BY <1>0, <1>2, <2>1 DEF SkipComment, Past
  <2>3. QED
    BY <1>0, <1>2, <2>2 DEF SkipComment, Reading, IInv, MacroScope, Unapplied
<1>3. ASSUME NEW type \in {"other", "string"}, NEW S, Reading,
             Put(type, Find(pos + 1, S)), pos' = Past(Find(pos + 1, S)),
             UNCHANGED <<source, pc, cur, out, read>>
      PROVE  IInv'
  <2>1. Find(pos + 1, S) \in pos + 1 .. Len(source) + 1
    BY <1>0, <1>3, FindType DEF Reading
  <2>2. pos' \in Nat \ {0}
    BY <1>0, <1>3, <2>1 DEF Past
  <2>3. pc = "tokenize" /\ list \in Seq(FreshToken) /\ pos <= Len(source)
    BY <1>3 DEF Reading, IInv, Unapplied
  <2>4. list' \in Seq(FreshToken)
    BY <1>0, <1>3, <2>1, <2>3, PutType
  <2>5. QED
    BY <1>0, <1>3, <2>2, <2>3, <2>4 DEF IInv, MacroScope, Unapplied
<1>4. CASE StoreAtom
  BY <1>3, <1>4 DEF StoreAtom
<1>5. CASE StoreString
  BY <1>3, <1>5 DEF StoreString
<1>6. CASE EndOfFile
  <2>1. list \in Seq(FreshToken)
    BY <1>6 DEF EndOfFile, IInv, Unapplied
  <2>2. pc' = "reverse" => Len(list) > 0
    BY <1>6, <2>1 DEF EndOfFile
  <2>3. pc' \in {"exit", "reverse"} /\ UNCHANGED <<source, pos, list, cur>>
    BY <1>6 DEF EndOfFile
  <2>4. QED
    BY <1>0, <2>1, <2>2, <2>3 DEF IInv, MacroScope, Unapplied
<1>7. CASE ReverseList
  <2>1. list \in Seq(FreshToken) /\ Len(list) > 0
    BY <1>7 DEF ReverseList, IInv, Unapplied
  <2>2. Reverse(list) \in Seq(FreshToken) /\ Len(Reverse(list)) = Len(list)
    BY <2>1 DEF Reverse
  <2>3. QED
    BY <1>0, <1>7, <2>1, <2>2 DEF ReverseList, IInv, MacroScope, Unapplied
<1>8. ASSUME NEW l \in Seq(FreshToken), list' = l, pc = "identify",
             cur <= Len(l), Step(Len(l), "line"), UNCHANGED <<source, pos, out>>
      PROVE  IInv'
  <2>1. CASE cur < Len(l)
    BY <1>0, <1>8, <2>1 DEF Step, IInv, MacroScope, Unapplied
  <2>2. CASE ~(cur < Len(l))
    <3>1. cur' = 1 /\ pc' = "line" /\ 1 <= Len(l)
      BY <1>0, <1>8, <2>2 DEF Step
    <3>2. l \in Seq(Token) /\ Scope(l, 0)
      BY <1>8, FreshIsToken, FreshScope
    <3>3. Scope(list, cur - 1)'
      BY <1>8, <3>1, <3>2
    <3>4. QED
      BY <1>0, <1>8, <3>1, <3>2, <3>3 DEF IInv, MacroScope, Unapplied
  <2>3. QED
    BY <2>1, <2>2
<1>9. CASE IdentifyOther
  <2>1. list \in Seq(FreshToken) /\ cur <= Len(list) /\ pc = "identify"
    BY <1>9 DEF IdentifyOther, IInv, Unapplied
  <2>2. QED
    BY <1>8, <1>9, <2>1 DEF IdentifyOther
<1>10. CASE IdentifyMacro
  <2>1. list \in Seq(FreshToken) /\ pc = "identify" /\ cur + 2 <= Len(list)
    BY <1>10 DEF IdentifyMacro, IInv, Unapplied
  <2> DEFINE macro == [type |-> "macro", text |-> list[cur + 1].text,
                       expr |-> <<Body(list[cur + 2])>>]
             new == SubSeq(list, 1, cur - 1) \o <<macro>>
                      \o SubSeq(list, cur + 3, Len(list))
  <2>2. list[cur + 1] \in FreshToken /\ list[cur + 2] \in FreshToken
    BY <1>0, <2>1
  <2>3. <<Body(list[cur + 2])>> \in Seq(Text)
    BY <2>2, BodyType
  <2>4. macro \in FreshToken
    BY <2>2, <2>3 DEF FreshToken, Token
  <2>5. new \in Seq(FreshToken) /\ Len(new) = Len(list) - 2
    BY <1>0, <2>1, <2>4, MacroType
  <2>6. /\ list' = new /\ Step(Len(list) - 2, "line")
        /\ UNCHANGED <<source, pos, out>>
    BY <1>10 DEF IdentifyMacro
  <2>7. cur <= Len(new) /\ Step(Len(new), "line")
    <3>1. Len(list) \in Nat /\ cur \in Nat /\ cur + 2 <= Len(list)
      BY <1>0, <2>1
    <3>2. cur <= Len(new)
      <4>1. \A x, n \in Nat : x + 2 <= n => x <= n - 2
        OBVIOUS
      <4>2. Len(new) = Len(list) - 2
        BY <2>5
      <4>3. QED
        BY ONLY <3>1, <4>1, <4>2
    <3>3. QED
      BY <2>5, <2>6, <3>2
  <2>8. QED
    BY <1>8, <2>1, <2>5, <2>6, <2>7
<1>11. CASE Fault
  BY <1>0, <1>11 DEF Fault, IInv, MacroScope, Unapplied
<1>12. CASE LineMacro
  <2>1. /\ list \in Seq(Token) /\ pc = "line" /\ cur <= Len(list)
        /\ Scope(list, cur - 1)
    BY <1>12 DEF LineMacro, IInv
  <2>2. list' = Applied(list, cur)
    BY <1>12, <2>1 DEF LineMacro, Applied, Claims
  <2>3. cur \in 1 .. Len(list) /\ Len(list) \in Nat
    BY <1>0, <2>1
  <2>4. list' \in Seq(Token) /\ Len(list') = Len(list)
    BY <2>1, <2>2, <2>3, AppliedType
  <2>5. Scope(list', cur)
    BY <2>1, <2>2, <2>3, ScopeStep
  <2>6. CASE cur < Len(list)
    <3>1. cur' = cur + 1 /\ pc' = "line"
      BY <1>12, <2>1, <2>6 DEF LineMacro, Step
    <3>2. cur' - 1 = cur /\ cur' \in Nat \ {0} /\ cur' <= Len(list')
      BY <1>0, <2>3, <2>4, <2>6, <3>1
    <3>3. Scope(list, cur - 1)'
      BY <2>5, <3>2
    <3>4. QED
      BY <1>0, <1>12, <2>4, <3>1, <3>2, <3>3
         DEF LineMacro, IInv, MacroScope, Unapplied
  <2>7. CASE ~(cur < Len(list))
    <3>1. cur' = 1 /\ pc' = "string" /\ cur = Len(list)
      BY <1>12, <2>1, <2>3, <2>7 DEF LineMacro, Step
    <3>2. Scope(list, Len(list))'
      BY <2>4, <2>5, <3>1
    <3>3. QED
      BY <1>0, <1>12, <2>4, <3>1, <3>2 DEF LineMacro, IInv, MacroScope, Unapplied
  <2>8. QED
    BY <2>6, <2>7
<1>13. ASSUME pc' \in {"eval", "preserve", "print", "exit"},
              UNCHANGED <<source, pos, cur>>
       PROVE  IInv'
  BY <1>0, <1>13 DEF IInv, MacroScope, Unapplied
<1>14. CASE ProcessString \/ EvalImmediates \/ PreserveOther \/ PrintHex
  BY <1>13, <1>14 DEF ProcessString, EvalImmediates, PreserveOther, Pass, PrintHex
<1>15. CASE UNCHANGED vars
  BY <1>15 DEF vars, IInv, MacroScope, Unapplied
<1>16. QED
  BY <1>1, <1>2, <1>4, <1>5, <1>6, <1>7, <1>9, <1>10, <1>11, <1>12, <1>14, <1>15
     DEF Next

(***************************************************************************)
(* Every token is given the body of the last definition of its name before *)
(* it, and none if there is none, for every input.                         *)
(***************************************************************************)
THEOREM MacrosInScope == Spec => []MacroScope
<1>1. IInv => MacroScope
  BY DEF IInv
<1>2. QED
  BY <1>1, InitInv, NextInv, PTL DEF Spec

-----------------------------------------------------------------------------
(* Types.  A text put together piece by piece is a text (FlatType), digits *)
(* give a number or -1 (DigitsType), and Tail is only taken of texts with  *)
(* a first character, which no pass takes away (Solid).                    *)

Solid == {t \in Token : t.text # << >>}

TInv ==
  /\ IInv
  /\ pc \in {"tokenize", "reverse", "exit", "fault"} \cup Passes
  /\ pos \in 1 .. Len(source) + 1
  /\ list \in Seq(Solid)
  /\ pc \in Passes => cur <= Len(list)
  /\ out \in Seq(Text) /\ read \in Seq(Token)

(* A set that holds 0 and, with a number, the next holds them all. *)
LEMMA Climb ==
  ASSUME NEW n \in Nat, NEW S, 0 \in S,
         \A i \in 1 .. n : i - 1 \in S => i \in S
  PROVE  0 .. n \subseteq S
<1> DEFINE Bad == {k \in 0 .. n : k \notin S}
<1>1. SUFFICES ASSUME Bad # {} PROVE FALSE
  OBVIOUS
<1>2. Bad \in SUBSET Nat
  OBVIOUS
<1>3. PICK k \in Bad : \A j \in Bad : k <= j
  <2> HIDE DEF Bad
  <2>1. QED
    BY <1>1, <1>2, LeastOf
<1>4. k \in 1 .. n /\ k - 1 \in 0 .. n /\ ~(k <= k - 1)
  OBVIOUS
<1>5. k - 1 \in S
  BY <1>3, <1>4
<1>6. QED
  BY <1>4, <1>5

(* The weights of the bytes of a word are what they are defined to be. *)
LEMMA WeightExists ==
  ASSUME NEW n \in Nat
  PROVE  \E f : f = [i \in 0 .. n |-> IF i = 0 THEN 1 ELSE 256 * f[i - 1]]
<1> DEFINE Up(f, m) == f = [i \in 0 .. m |-> IF i = 0 THEN 1 ELSE 256 * f[i - 1]]
           S == {m \in Nat : \E f : Up(f, m)}
<1>1. 0 \in S
  <2> DEFINE f == [i \in 0 .. 0 |-> 1]
  <2>1. Up(f, 0)
    OBVIOUS
  <2>2. QED
    BY <2>1
<1>2. ASSUME NEW m \in 1 .. n, m - 1 \in S
      PROVE  m \in S
  <2>1. PICK f : Up(f, m - 1)
    BY <1>2
  <2> DEFINE g == [i \in 0 .. m |-> IF i = m THEN 256 * f[m - 1] ELSE f[i]]
  <2>2. ASSUME NEW i \in 0 .. m
        PROVE  g[i] = IF i = 0 THEN 1 ELSE 256 * g[i - 1]
    <3>1. CASE i = m
      <4>1. g[m] = 256 * f[m - 1] /\ g[m - 1] = f[m - 1] /\ m # 0
        OBVIOUS
      <4>2. QED
        BY <3>1, <4>1
    <3>2. CASE i = 0
      <4>1. g[0] = f[0] /\ f[0] = 1
        BY <2>1
      <4>2. QED
        BY <3>2, <4>1
    <3>3. CASE i # m /\ i # 0
      <4>1. i \in 1 .. m - 1 /\ i - 1 \in 0 .. m - 1
        BY <3>3
      <4>2. g[i] = f[i] /\ g[i - 1] = f[i - 1]
        BY <4>1
      <4>3. f[i] = 256 * f[i - 1]
        BY <2>1, <4>1
      <4> HIDE DEF g
      <4>4. QED
        BY <3>3, <4>2, <4>3
    <3>4. QED
      BY <3>1, <3>2, <3>3
  <2>3. g = [i \in 0 .. m |-> g[i]]
    OBVIOUS
  <2>4. Up(g, m)
    <3> HIDE DEF g
    <3>1. QED
      BY <2>2, <2>3
  <2>5. \E h : Up(h, m)
    BY <2>4
  <2>6. QED
    BY <2>5
<1>3. n \in S
  <2> HIDE DEF S
  <2>1. 0 .. n \subseteq S
    BY <1>1, <1>2, Climb
  <2>2. QED
    BY <2>1
<1>4. QED
  BY <1>3

LEMMA WeightIs ==
  \A n \in 0 .. LONG : Weight[n] = IF n = 0 THEN 1 ELSE 256 * Weight[n - 1]
<1>1. \E f : f = [i \in 0 .. LONG |-> IF i = 0 THEN 1 ELSE 256 * f[i - 1]]
  BY LongAssumption, WeightExists
<1>2. Weight = [i \in 0 .. LONG |-> IF i = 0 THEN 1 ELSE 256 * Weight[i - 1]]
  BY <1>1 DEF Weight
<1>3. QED
  BY <1>2

LEMMA WeightType == \A n \in 0 .. LONG : Weight[n] \in Nat \ {0}
<1> DEFINE S == {n \in Nat : Weight[n] \in Nat \ {0}}
<1>0. LONG \in Nat
  BY LongAssumption
<1>1. 0 \in S
  BY <1>0, WeightIs
<1>2. ASSUME NEW n \in 1 .. LONG, n - 1 \in S
      PROVE  n \in S
  <2>1. Weight[n - 1] \in Nat \ {0} /\ n \in 0 .. LONG /\ n # 0
    BY <1>0, <1>2
  <2>2. Weight[n] = 256 * Weight[n - 1]
    BY <2>1, WeightIs
  <2>3. \A x \in Nat \ {0} : 256 * x \in Nat \ {0}
    OBVIOUS
  <2>4. QED
    BY <2>1, <2>2, <2>3
<1>3. 0 .. LONG \subseteq S
  <2> HIDE DEF S
  <2>1. QED
    BY <1>0, <1>1, <1>2, Climb
<1>4. QED
  BY <1>3

LEMMA WordType == Word \in Nat \ {0}
BY WeightType, LongAssumption DEF Word

-----------------------------------------------------------------------------
(* What FlattenSeq is defined by, over the first n pieces. *)
Flattens(seqs, n, f) ==
  f = [i \in 1 .. n |-> IF i = 1 THEN seqs[i] ELSE f[i - 1] \o seqs[i]]

LEMMA FlatExists ==
  ASSUME NEW seqs, NEW n \in Nat
  PROVE  \E f : Flattens(seqs, n, f)
<1> DEFINE S == {m \in Nat : \E f : Flattens(seqs, m, f)}
<1>1. 0 \in S
  <2> DEFINE f == [i \in 1 .. 0 |-> 1]
  <2>1. Flattens(seqs, 0, f)
    BY DEF Flattens
  <2>2. QED
    BY <2>1
<1>2. ASSUME NEW m \in 1 .. n, m - 1 \in S
      PROVE  m \in S
  <2>1. PICK f : Flattens(seqs, m - 1, f)
    BY <1>2
  <2> DEFINE g == [i \in 1 .. m |->
                     IF i # m THEN f[i]
                     ELSE IF m = 1 THEN seqs[m] ELSE f[m - 1] \o seqs[m]]
  <2>2. ASSUME NEW i \in 1 .. m
        PROVE  g[i] = IF i = 1 THEN seqs[i] ELSE g[i - 1] \o seqs[i]
    <3>1. CASE i = m
      <4>1. m # 1 => g[m - 1] = f[m - 1]
        OBVIOUS
      <4>2. g[m] = IF m = 1 THEN seqs[m] ELSE f[m - 1] \o seqs[m]
        OBVIOUS
      <4> HIDE DEF g
      <4>3. QED
        BY <3>1, <4>1, <4>2
    <3>2. CASE i # m
      <4>1. i \in 1 .. m - 1 /\ (i # 1 => i - 1 \in 1 .. m - 1)
        BY <3>2
      <4>2. g[i] = f[i] /\ (i # 1 => g[i - 1] = f[i - 1])
        BY <4>1
      <4>3. f[i] = IF i = 1 THEN seqs[i] ELSE f[i - 1] \o seqs[i]
        BY <2>1, <4>1 DEF Flattens
      <4> HIDE DEF g
      <4>4. QED
        BY <4>2, <4>3
    <3>3. QED
      BY <3>1, <3>2
  <2>3. g = [i \in 1 .. m |-> g[i]]
    OBVIOUS
  <2>4. Flattens(seqs, m, g)
    <3> HIDE DEF g
    <3>1. QED
      BY <2>2, <2>3 DEF Flattens
  <2>5. \E h : Flattens(seqs, m, h)
    BY <2>4
  <2>6. QED
    BY <2>5
<1>3. n \in S
  <2> HIDE DEF S
  <2>1. 0 .. n \subseteq S
    BY <1>1, <1>2, Climb
  <2>2. QED
    BY <2>1
<1>4. QED
  BY <1>3

(* Pieces that are sequences over a set, put together, are one. *)
LEMMA FlatType ==
  ASSUME NEW T, NEW seqs \in Seq(Seq(T))
  PROVE  FlattenSeq(seqs) \in Seq(T)
<1>1. Len(seqs) \in Nat /\ \A i \in 1 .. Len(seqs) : seqs[i] \in Seq(T)
  OBVIOUS
<1>2. CASE Len(seqs) = 0
  BY <1>2 DEF FlattenSeq
<1>3. CASE Len(seqs) # 0
  <2> DEFINE n == Len(seqs)
             flatten == CHOOSE f : Flattens(seqs, n, f)
  <2>1. Flattens(seqs, n, flatten)
    BY <1>1, FlatExists
  <2>2. FlattenSeq(seqs) = flatten[n]
    BY <1>3 DEF FlattenSeq, Flattens
  <2> HIDE DEF flatten
  <2> DEFINE S == {m \in Nat : m = 0 \/ flatten[m] \in Seq(T)}
  <2>3. 0 \in S
    OBVIOUS
  <2>4. ASSUME NEW m \in 1 .. n, m - 1 \in S
        PROVE  m \in S
    <3>1. flatten[m] = IF m = 1 THEN seqs[m] ELSE flatten[m - 1] \o seqs[m]
      BY <2>1 DEF Flattens
    <3>2. m # 1 => flatten[m - 1] \in Seq(T)
      BY <2>4
    <3>3. seqs[m] \in Seq(T)
      BY <1>1
    <3>4. flatten[m] \in Seq(T)
      BY <3>1, <3>2, <3>3
    <3>5. QED
      BY <3>4
  <2>5. n \in S
    <3> HIDE DEF S
    <3>1. 0 .. n \subseteq S
      BY <1>1, <2>3, <2>4, Climb
    <3>2. QED
      BY <1>1, <3>1
  <2>6. QED
    BY <1>3, <2>2, <2>5
<1>4. QED
  BY <1>2, <1>3

-----------------------------------------------------------------------------
(* One digit more. *)
Adds(radix, v, d) == IF v = -1 \/ d \notin 0 .. radix - 1
                       THEN -1 ELSE (v * radix + d) % Word

(* What the fold over the digits is defined by: a value for every set of   *)
(* positions.                                                              *)
FoldsOver(radix, ds, n, g) ==
  g = [s \in SUBSET (1 .. n) |->
         IF s = {} THEN 0 ELSE Adds(radix, g[s \ {Max(s)}], ds[Max(s)])]

(* A set of positions that has one has a last. *)
LEMMA LastOf ==
  ASSUME NEW n \in Nat, NEW S \in SUBSET (1 .. n), S # {}
  PROVE  Max(S) \in S /\ \A j \in S : Max(S) >= j
<1> DEFINE Beyond == {n - j : j \in S}
<1>0. \A j \in S : j \in 1 .. n
  OBVIOUS
<1>1. Beyond \in SUBSET Nat /\ Beyond # {}
  <2>1. \A j \in S : n - j \in Nat
    BY <1>0
  <2>2. QED
    BY <2>1
<1>2. PICK m \in Beyond : \A j \in Beyond : m <= j
  <2> HIDE DEF Beyond
  <2>1. QED
    BY <1>1, LeastOf
<1>3. PICK k \in S : m = n - k
  OBVIOUS
<1>4. ASSUME NEW j \in S PROVE k >= j
  <2>1. n - k <= n - j
    BY <1>2, <1>3
  <2>2. QED
    BY <1>0, <2>1
<1>5. \E k1 \in S : \A j \in S : k1 >= j
  BY <1>4
<1>6. QED
  BY <1>5 DEF Max

(* The fold's definition has a solution, for any number of digits.         *)
LEMMA FoldExists ==
  ASSUME NEW radix, NEW ds, NEW n \in Nat
  PROVE  \E g : FoldsOver(radix, ds, n, g)
<1> DEFINE S == {m \in Nat : \E g : FoldsOver(radix, ds, m, g)}
<1>1. 0 \in S
  <2> DEFINE g == [s \in SUBSET (1 .. 0) |-> 0]
  <2>1. \A s \in SUBSET (1 .. 0) : s = {}
    OBVIOUS
  <2>2. FoldsOver(radix, ds, 0, g)
    BY <2>1 DEF FoldsOver
  <2>3. QED
    BY <2>2
<1>2. ASSUME NEW k \in 1 .. n, k - 1 \in S
      PROVE  k \in S
  <2>1. PICK h : FoldsOver(radix, ds, k - 1, h)
    BY <1>2
  <2> DEFINE Op(v, i) == Adds(radix, v, ds[i])
             g == [s \in SUBSET (1 .. k) |->
                     IF k \in s THEN Op(h[s \ {k}], k) ELSE h[s]]
  <2> HIDE DEF S
  <2>2. ASSUME NEW s \in SUBSET (1 .. k)
        PROVE  g[s] = IF s = {} THEN 0 ELSE Op(g[s \ {Max(s)}], Max(s))
    <3>1. CASE k \in s
      <4>0. k \in Nat
        OBVIOUS
      <4>1. Max(s) \in s /\ Max(s) >= k
        BY <3>1, <4>0, LastOf
      <4>2. Max(s) \in 1 .. k
        BY <4>1
      <4>3. Max(s) = k
        BY <4>1, <4>2
      <4>4. s \ {k} \in SUBSET (1 .. k) /\ k \notin s \ {k}
        OBVIOUS
      <4>5. g[s \ {k}] = h[s \ {k}]
        BY <4>4
      <4>6. g[s] = Op(h[s \ {k}], k)
        BY <3>1
      <4> HIDE DEF g, Op
      <4>7. QED
        BY <3>1, <4>3, <4>5, <4>6
    <3>2. CASE k \notin s /\ s # {}
      <4>1. s \in SUBSET (1 .. k - 1) /\ k - 1 \in Nat
        BY <3>2
      <4>2. Max(s) \in s
        BY <3>2, <4>1, LastOf
      <4>3. s \ {Max(s)} \in SUBSET (1 .. k - 1) /\ k \notin s \ {Max(s)}
            /\ s \ {Max(s)} \in SUBSET (1 .. k)
        BY <3>2, <4>1
      <4>4. h[s] = Op(h[s \ {Max(s)}], Max(s))
        BY <2>1, <3>2, <4>1 DEF FoldsOver
      <4>5. g[s] = h[s] /\ g[s \ {Max(s)}] = h[s \ {Max(s)}]
        BY <3>2, <4>3
      <4> HIDE DEF g, Op
      <4>6. QED
        BY <3>2, <4>4, <4>5
    <3>3. CASE k \notin s /\ s = {}
      <4>1. s \in SUBSET (1 .. k - 1)
        BY <3>3
      <4>2. h[s] = 0
        BY <2>1, <3>3, <4>1 DEF FoldsOver
      <4>3. QED
        BY <3>3, <4>2
    <3>4. QED
      BY <3>1, <3>2, <3>3
  <2>3. g = [s \in SUBSET (1 .. k) |-> g[s]]
    OBVIOUS
  <2>4. FoldsOver(radix, ds, k, g)
    <3>1. g = [s \in SUBSET (1 .. k) |->
                 IF s = {} THEN 0 ELSE Op(g[s \ {Max(s)}], Max(s))]
      <4> HIDE DEF g, Op
      <4>1. QED
        BY <2>2, <2>3
    <3>2. QED
      BY <3>1 DEF FoldsOver
  <2>5. \E q : FoldsOver(radix, ds, k, q)
    BY <2>4
  <2>6. QED
    BY <2>5 DEF S
<1>3. n \in S
  <2> HIDE DEF S
  <2>1. 0 .. n \subseteq S
    BY <1>1, <1>2, Climb
  <2>2. QED
    BY <2>1
<1>4. QED
  BY <1>3

(* The digits read so far are a number, or -1. *)
LEMMA DigitsType ==
  ASSUME NEW radix \in Nat, NEW ds \in Seq(Int)
  PROVE  Digits(radix, ds) \in {-1} \cup Nat
<1> DEFINE n == Len(ds)
           g == CHOOSE f : FoldsOver(radix, ds, n, f)
           S == {m \in Nat : g[1 .. m] \in {-1} \cup Nat}
<1>0. n \in Nat /\ DOMAIN ds = 1 .. n /\ \A i \in 1 .. n : ds[i] \in Int
  OBVIOUS
<1>1. FoldsOver(radix, ds, n, g)
  <2>1. \E f : FoldsOver(radix, ds, n, f)
    BY <1>0, FoldExists
  <2>2. QED
    BY <2>1
<1>2. Digits(radix, ds) = g[1 .. n]
  BY <1>0 DEF Digits, FoldsOver, Adds, FoldLeft, MapThenFoldSet
<1> HIDE DEF g
<1>3. 0 \in S
  <2>1. 1 .. 0 = {} /\ 1 .. 0 \in SUBSET (1 .. n)
    OBVIOUS
  <2>2. g[1 .. 0] = 0
    BY <1>1, <2>1 DEF FoldsOver
  <2>3. QED
    BY <2>2
<1>4. ASSUME NEW i \in 1 .. n, i - 1 \in S
      PROVE  i \in S
  <2>0. i \in Nat /\ 1 <= i /\ i <= n
    BY <1>0
  <2>1. 1 .. i \in SUBSET (1 .. n) /\ i \in 1 .. i /\ 1 .. i # {}
    <3>1. \A j \in 1 .. i : j \in 1 .. n
      BY <1>0, <2>0
    <3>2. i \in 1 .. i
      BY <2>0
    <3>3. QED
      BY <3>1, <3>2
  <2>2. Max(1 .. i) \in 1 .. i /\ Max(1 .. i) >= i
    <3> HIDE DEF n
    <3>1. QED
      BY <1>0, <2>1, LastOf
  <2>3. Max(1 .. i) = i
    BY <2>2
  <2>4. (1 .. i) \ {i} = 1 .. i - 1
    OBVIOUS
  <2>5. g[1 .. i] = Adds(radix, g[(1 .. i) \ {Max(1 .. i)}], ds[Max(1 .. i)])
    BY <1>1, <2>1 DEF FoldsOver
  <2>6. g[1 .. i] = Adds(radix, g[1 .. i - 1], ds[i])
    BY <2>3, <2>4, <2>5
  <2>7. \A v \in {-1} \cup Nat, d \in Int : Adds(radix, v, d) \in {-1} \cup Nat
    <3>1. \A v \in Nat, d \in 0 .. radix - 1 : v * radix + d \in Nat
      OBVIOUS
    <3>2. \A x \in Nat : x % Word \in Nat
      BY WordType
    <3>3. QED
      BY <3>1, <3>2 DEF Adds
  <2>8. g[1 .. i - 1] \in {-1} \cup Nat /\ ds[i] \in Int
    BY <1>0, <1>4
  <2>9. QED
    BY <2>6, <2>7, <2>8
<1>5. n \in S
  <2> HIDE DEF S
  <2>1. 0 .. n \subseteq S
    BY <1>0, <1>3, <1>4, Climb
  <2>2. QED
    BY <1>0, <2>1
<1>6. QED
  BY <1>2, <1>5

-----------------------------------------------------------------------------
(* What is made of a text is a text. *)

LEMMA NumerateType ==
  ASSUME NEW s \in Text
  PROVE  NumerateString(s) \in Nat
<1> DEFINE hex   == Char(s, 2) = 120
           value == IF hex THEN Digits(16, HexDigits(SubSeq(s, 3, Len(s))))
                    ELSE IF Negative(s) THEN Digits(10, DecDigits(Tail(s)))
                    ELSE Digits(10, DecDigits(s))
<1>0. s \in Seq(Byte) /\ Len(s) \in Nat /\ DOMAIN s = 1 .. Len(s)
  BY DEF Text
<1>1. ASSUME NEW t \in Seq(Byte)
      PROVE  HexDigits(t) \in Seq(Int) /\ DecDigits(t) \in Seq(Int)
  <2>1. \A k \in DOMAIN t : HexDigit(t[k]) \in Int /\ DecDigit(t[k]) \in Int
    <3>1. \A c \in Byte : HexDigit(c) \in Int /\ DecDigit(c) \in Int
      BY DEF HexDigit, DecDigit, Byte
    <3>2. \A k \in DOMAIN t : t[k] \in Byte
      OBVIOUS
    <3>3. QED
      BY <3>1, <3>2
  <2>2. DOMAIN t = 1 .. Len(t) /\ Len(t) \in Nat
    OBVIOUS
  <2>3. QED
    BY <2>1, <2>2 DEF HexDigits, DecDigits
<1>2. CASE hex
  <2>1. Len(s) >= 2
    BY <1>0, <1>2 DEF Char
  <2>2. SubSeq(s, 3, Len(s)) \in Seq(Byte)
    BY <1>0, <2>1
  <2>3. HexDigits(SubSeq(s, 3, Len(s))) \in Seq(Int)
    BY <1>1, <2>2
  <2>4. value \in {-1} \cup Nat
    BY <1>2, <2>3, DigitsType
  <2> HIDE DEF value, hex
  <2>5. QED
    BY <1>2, <2>4 DEF NumerateString, value, hex
<1>3. CASE ~hex /\ Negative(s)
  <2>1. s # << >>
    BY <1>0, <1>3 DEF Negative, Char
  <2>2. Tail(s) \in Seq(Byte)
    BY <1>0, <2>1
  <2>3. DecDigits(Tail(s)) \in Seq(Int)
    BY <1>1, <2>2
  <2>4. value \in {-1} \cup Nat
    BY <1>3, <2>3, DigitsType
  <2>5. \A x \in Nat : (- x) % Word \in Nat
    BY WordType
  <2> HIDE DEF value, hex
  <2>6. QED
    BY <1>3, <2>4, <2>5 DEF NumerateString, value, hex
<1>4. CASE ~hex /\ ~Negative(s)
  <2>1. DecDigits(s) \in Seq(Int)
    BY <1>0, <1>1
  <2>2. value \in {-1} \cup Nat
    BY <1>4, <2>1, DigitsType
  <2> HIDE DEF value, hex
  <2>3. QED
    BY <1>4, <2>2 DEF NumerateString, value, hex
<1>5. QED
  BY <1>2, <1>3, <1>4

LEMMA Hex8Type ==
  ASSUME NEW n \in 0 .. 255
  PROVE  Hex8(n) \in Text
<1>1. n \div 16 \in 0 .. 15 /\ n % 16 \in 0 .. 15
  OBVIOUS
<1>2. \A d \in 0 .. 15 : Hex4(d) \in Byte
  BY DEF Hex4, Byte
<1>3. Hex4(n \div 16) \in Byte /\ Hex4(n % 16) \in Byte
  BY <1>1, <1>2
<1>4. QED
  BY <1>3 DEF Hex8, Text

LEMMA NumberType ==
  ASSUME NEW value \in Nat, NEW prefix
  PROVE  ExpressNumber(value, prefix) \in Text
<1> DEFINE n == Size(prefix)
           pieces == [k \in 1 .. n |-> Hex8(ByteOf(value, k))]
<1>1. n \in 1 .. LONG
  BY LongAssumption DEF Size
<1>2. ASSUME NEW k \in 1 .. n
      PROVE  Hex8(ByteOf(value, k)) \in Text
  <2>1. k - 1 \in 0 .. LONG
    BY <1>1, LongAssumption
  <2>2. Weight[k - 1] \in Nat \ {0}
    BY <2>1, WeightType
  <2>3. \A w \in Nat \ {0} : value \div w \in Nat
    OBVIOUS
  <2>4. \A x \in Nat : x % 256 \in 0 .. 255
    OBVIOUS
  <2>5. ByteOf(value, k) \in 0 .. 255
    BY <2>2, <2>3, <2>4 DEF ByteOf
  <2>6. QED
    BY <2>5, Hex8Type
<1>3. pieces \in Seq(Seq(Byte))
  <2> HIDE DEF n
  <2>1. n \in Nat
    BY <1>1, LongAssumption
  <2>2. \A k \in 1 .. n : Hex8(ByteOf(value, k)) \in Seq(Byte)
    BY <1>2 DEF Text
  <2>3. QED
    BY <2>1, <2>2
<1>4. FlattenSeq(pieces) \in Seq(Byte)
  BY <1>3, FlatType
<1>5. QED
  BY <1>4 DEF ExpressNumber, Text

LEMMA StringTextType ==
  ASSUME NEW text \in Text, text # << >>
  PROVE  StringText(text) \in Text
<1> DEFINE n == Len(text) - 1
           pieces == [k \in 1 .. n |-> Hex8(text[k + 1])]
<1>0. text \in Seq(Byte) /\ n \in Nat
  BY DEF Text
<1>1. Tail(text) \in Text
  BY DEF Text
<1>2. pieces \in Seq(Seq(Byte))
  <2>1. ASSUME NEW k \in 1 .. n
        PROVE  Hex8(text[k + 1]) \in Seq(Byte)
    <3>1. text[k + 1] \in Byte
      BY <1>0
    <3>2. text[k + 1] \in 0 .. 255
      BY <3>1 DEF Byte
    <3>3. QED
      BY <3>2, Hex8Type DEF Text
  <2> HIDE DEF n
  <2>2. QED
    BY <1>0, <2>1
<1> HIDE DEF pieces
<1>3. FlattenSeq(pieces) \in Seq(Byte) /\ Hex8(0) \in Seq(Byte)
  <2>1. FlattenSeq(pieces) \in Seq(Byte)
    BY <1>2, FlatType
  <2>2. Hex8(0) \in Text
    <3>1. 0 \in 0 .. 255
      OBVIOUS
    <3>2. QED
      BY <3>1, Hex8Type
  <2>3. QED
    BY <2>1, <2>2 DEF Text
<1>4. FlattenSeq(pieces) \o Hex8(0) \in Text
  BY <1>3 DEF Text
<1>5. QED
  BY <1>1, <1>4 DEF StringText, pieces

(* A token with another text for its expression. *)
LEMMA WithExpr ==
  ASSUME NEW t \in Solid, NEW e \in {NULL} \cup Seq(Text)
  PROVE  [t EXCEPT !.expr = e] \in Solid
BY DEF Solid, Token

LEMMA PassTypes ==
  ASSUME NEW t \in Solid
  PROVE  StringOf(t) \in Solid /\ ImmediateOf(t) \in Solid /\ OtherOf(t) \in Solid
<1>0. t.text \in Text /\ t.text # << >>
  BY DEF Solid, Token
<1>1. \A x \in Text : <<x>> \in Seq(Text)
  OBVIOUS
<1>2. StringOf(t) \in Solid
  <2>1. <<StringText(t.text)>> \in Seq(Text)
    BY <1>0, <1>1, StringTextType
  <2>2. QED
    BY <2>1, WithExpr DEF StringOf
<1>3. ImmediateOf(t) \in Solid
  <2>1. Tail(t.text) \in Text
    BY <1>0 DEF Text
  <2>2. ExpressNumber(NumerateString(Tail(t.text)), t.text[1]) \in Text
    BY <2>1, NumerateType, NumberType
  <2>3. QED
    BY <1>1, <2>2, WithExpr DEF ImmediateOf
<1>4. OtherOf(t) \in Solid
  BY <1>0, <1>1, WithExpr DEF OtherOf
<1>5. QED
  BY <1>2, <1>3, <1>4

-----------------------------------------------------------------------------
LEMMA InitTypes == Init => TInv
<1> SUFFICES ASSUME Init PROVE TInv
  OBVIOUS
<1>1. source \in Text
  BY SourceAssumption DEF Init
<1>2. Len(source) \in Nat
  BY <1>1 DEF Text
<1>3. QED
  BY <1>2, InitInv DEF Init, TInv, Passes

LEMMA NextTypes == TInv /\ [Next]_vars => TInv'
<1> SUFFICES ASSUME TInv, [Next]_vars PROVE TInv'
  OBVIOUS
<1>0. /\ source \in Text /\ Len(source) \in Nat /\ cur \in Nat \ {0}
      /\ pos \in 1 .. Len(source) + 1 /\ list \in Seq(Solid)
      /\ out \in Seq(Text) /\ read \in Seq(Token)
  BY DEF TInv, IInv, Text
<1>i. IInv'
  BY NextInv DEF TInv
<1>f. \A l \in Seq(FreshToken) : l \in Seq(Solid) /\ l \in Seq(Token)
  BY DEF FreshToken, Solid
<1>1. CASE SkipBlank
  BY <1>0, <1>1, <1>i DEF SkipBlank, Reading, TInv, Passes
<1>2. CASE SkipComment
  <2>1. Find(pos, {10}) \in pos .. Len(source) + 1
    BY <1>0, <1>2, FindType DEF SkipComment, Reading
  <2>2. pos' \in 1 .. Len(source) + 1
    BY <1>0, <1>2, <2>1 DEF SkipComment, Past
  <2>3. QED
    BY <1>0, <1>2, <1>i, <2>2 DEF SkipComment, Reading, TInv, Passes
<1>3. ASSUME NEW type \in {"other", "string"}, NEW S, Reading,
             Put(type, Find(pos + 1, S)), pos' = Past(Find(pos + 1, S)),
             UNCHANGED <<source, pc, cur, out, read>>
      PROVE  TInv'
  <2>1. Find(pos + 1, S) \in pos + 1 .. Len(source) + 1
    BY <1>0, <1>3, FindType DEF Reading
  <2>2. pos' \in 1 .. Len(source) + 1
    BY <1>0, <1>3, <2>1 DEF Past
  <2>3. pc = "tokenize" /\ pc' = "tokenize"
    BY <1>3 DEF Reading
  <2>4. list' \in Seq(Solid)
    BY <1>i, <1>f, <2>3 DEF IInv, Unapplied
  <2>5. QED
    BY <1>0, <1>3, <1>i, <2>2, <2>3, <2>4 DEF TInv, Passes
<1>4. CASE StoreAtom
  BY <1>3, <1>4 DEF StoreAtom
<1>5. CASE StoreString
  BY <1>3, <1>5 DEF StoreString
<1>6. CASE EndOfFile
  BY <1>0, <1>6, <1>i DEF EndOfFile, TInv, Passes
<1>7. CASE ReverseList
  <2>1. list \in Seq(FreshToken) /\ Len(list) > 0
    BY <1>7 DEF ReverseList, TInv, IInv, Unapplied
  <2>2. Reverse(list) \in Seq(FreshToken) /\ Len(Reverse(list)) = Len(list)
    BY <2>1 DEF Reverse
  <2>3. QED
    BY <1>0, <1>7, <1>i, <1>f, <2>1, <2>2 DEF ReverseList, TInv, Passes
<1>8. CASE IdentifyOther \/ IdentifyMacro
  <2>1. pc' \in {"identify", "line"} /\ UNCHANGED <<source, pos, out, read>>
    BY <1>8 DEF IdentifyOther, IdentifyMacro, Step
  <2>2. cur' <= Len(list')
    BY <1>i, <2>1 DEF IInv
  <2>3. list' \in Seq(Solid)
    <3>1. CASE IdentifyOther
      BY <1>0, <3>1 DEF IdentifyOther
    <3>2. CASE IdentifyMacro
      <4>1. list \in Seq(FreshToken) /\ cur + 2 <= Len(list)
        BY <3>2 DEF IdentifyMacro, TInv, IInv, Unapplied
      <4> DEFINE macro == [type |-> "macro", text |-> list[cur + 1].text,
                           expr |-> <<Body(list[cur + 2])>>]
      <4>2. list[cur + 1] \in FreshToken /\ list[cur + 2] \in FreshToken
        BY <1>0, <4>1
      <4>3. <<Body(list[cur + 2])>> \in Seq(Text)
        BY <4>2, BodyType
      <4>4. macro \in FreshToken
        BY <4>2, <4>3 DEF FreshToken, Token
      <4>5. SubSeq(list, 1, cur - 1) \o <<macro>> \o SubSeq(list, cur + 3, Len(list))
              \in Seq(FreshToken)
        BY <1>0, <4>1, <4>4, MacroType
      <4>6. QED
        BY <1>f, <3>2, <4>5 DEF IdentifyMacro
    <3>3. QED
      BY <1>8, <3>1, <3>2
  <2>4. QED
    BY <1>0, <1>i, <2>1, <2>2, <2>3 DEF TInv, Passes
<1>9. CASE Fault
  BY <1>0, <1>9, <1>i DEF Fault, TInv, Passes
<1>10. CASE LineMacro
  <2>1. pc = "line" /\ cur \in 1 .. Len(list) /\ list \in Seq(Token)
    BY <1>0, <1>10 DEF LineMacro, TInv, IInv, Passes
  <2>2. list' = Applied(list, cur)
    BY <1>10, <2>1 DEF LineMacro, Applied, Claims
  <2>3. list' \in Seq(Token) /\ Len(list') = Len(list) /\ DOMAIN list' = DOMAIN list
        /\ \A j \in DOMAIN list : list'[j].text = list[j].text
    BY <2>1, <2>2, AppliedType
  <2>4. list' \in Seq(Solid)
    <3>1. \A j \in DOMAIN list : list[j].text # << >>
      BY <1>0 DEF Solid
    <3>2. \A j \in 1 .. Len(list') : list'[j] \in Solid
      BY <2>3, <3>1 DEF Solid
    <3>3. QED
      BY <2>3, <3>2
  <2>5. pc' \in {"line", "string"} /\ UNCHANGED <<source, pos, out, read>>
        /\ cur' <= Len(list)
    BY <1>0, <1>10, <2>1 DEF LineMacro, Step
  <2>6. QED
    BY <1>0, <1>i, <2>3, <2>4, <2>5 DEF TInv, Passes
<1>11. ASSUME NEW P, P \in [DOMAIN list -> Solid], list' = P,
              pc' \in {"eval", "preserve", "print"}, pc \in Passes,
              UNCHANGED <<source, pos, cur, out, read>>
       PROVE  TInv'
  <2>1. DOMAIN list = 1 .. Len(list) /\ Len(list) \in Nat /\ cur <= Len(list)
    BY <1>0, <1>11 DEF TInv
  <2>2. list' \in Seq(Solid) /\ Len(list') = Len(list)
    BY <1>11, <2>1
  <2>3. QED
    BY <1>0, <1>11, <1>i, <2>1, <2>2 DEF TInv, Passes
<1>12. CASE ProcessString
  <2>1. \A j \in DOMAIN list : StringOf(list[j]) \in Solid
    BY <1>0, PassTypes
  <2>2. QED
    BY <1>11, <1>12, <2>1 DEF ProcessString, Pass, Passes
<1>13. CASE EvalImmediates
  <2>1. \A j \in DOMAIN list : ImmediateOf(list[j]) \in Solid
    BY <1>0, PassTypes
  <2>2. QED
    BY <1>11, <1>13, <2>1 DEF EvalImmediates, Pass, Passes
<1>14. CASE PreserveOther
  <2>1. \A j \in DOMAIN list : OtherOf(list[j]) \in Solid
    BY <1>0, PassTypes
  <2>2. QED
    BY <1>11, <1>14, <2>1 DEF PreserveOther, Pass, Passes
<1>15. CASE PrintHex
  <2> DEFINE lines == [j \in DOMAIN list |->
                         IF list[j].type = "macro" THEN << >> ELSE list[j].expr]
  <2>1. \A j \in DOMAIN list : lines[j] \in Seq(Text)
    <3>1. << >> \in Seq(Text)
      OBVIOUS
    <3>2. \A t \in Solid : t.expr \in Seq(Text)
      <4>1. \A t \in Solid : t.expr \in {NULL} \cup Seq(Text)
        BY DEF Solid, Token
      <4>2. QED
        BY <3>1, <4>1 DEF NULL
    <3>3. \A j \in DOMAIN list : list[j] \in Solid
      BY <1>0
    <3>4. QED
      BY <3>1, <3>2, <3>3
  <2>2. DOMAIN list = 1 .. Len(list) /\ Len(list) \in Nat
    BY <1>0
  <2>3. lines \in Seq(Seq(Text))
    BY <2>1, <2>2
  <2>4. FlattenSeq(lines) \in Seq(Text)
    BY <2>3, FlatType
  <2>5. QED
    BY <1>0, <1>15, <1>i, <2>4 DEF PrintHex, TInv, Passes
<1>16. CASE UNCHANGED vars
  BY <1>16, <1>i DEF vars, TInv
<1>17. QED
  BY <1>1, <1>2, <1>4, <1>5, <1>6, <1>7, <1>8, <1>9, <1>10, <1>12, <1>13, <1>14,
     <1>15, <1>16 DEF Next

(***************************************************************************)
(* For every input: a pass always stands at a token of the list, no pass   *)
(* takes a token's text away, and what is written is text (the loops of    *)
(* gen_m0.py have no other bound than the NULL at the end of the list).    *)
(***************************************************************************)
THEOREM TypesOK == Spec => []TypeOK
<1>1. TInv => TypeOK
  <2>1. \A l \in Seq(Solid) : l \in Seq(Token)
    BY DEF Solid
  <2>2. QED
    BY <2>1 DEF TInv, TypeOK, IInv, Passes
<1>2. QED
  BY <1>1, InitTypes, NextTypes, PTL DEF Spec

-----------------------------------------------------------------------------
(* The passes and the one reading.  While Identify_Macros is at cur, the   *)
(* list behind cur is what is left of the file's tokens, and the list      *)
(* before it stands for what the reading has made of the others (Level):   *)
(* its macros are the names, the lines its other tokens will be written as *)
(* (Piece) are the lines.  From then on no pass changes a Piece, and each  *)
(* sets the expressions it is there for to it.                             *)

Raw    == {t \in Token : t.text # << >> /\ t.type # "macro" /\ t.expr = NULL}
Listed == {t \in Token : t.text # << >>
                         /\ (t.type = "macro" => \E b \in Text : t.expr = <<b>>)}

Dictionary   == UNION {[D -> Text] : D \in SUBSET Text}
ReadingState == [names : Dictionary, skip : 0 .. 2, lines : Seq(Text), cut : BOOLEAN]

LEMMA ReadsExist ==
  ASSUME NEW tokens, NEW n \in Nat
  PROVE  \E f : f = [k \in 0 .. n |-> IF k = 0 THEN Start
                                      ELSE ReadToken(tokens, f[k - 1], k)]
<1> DEFINE Run(f, m) == f = [k \in 0 .. m |-> IF k = 0 THEN Start
                                              ELSE ReadToken(tokens, f[k - 1], k)]
           S == {m \in Nat : \E f : Run(f, m)}
<1>1. 0 \in S
  <2> DEFINE f == [k \in 0 .. 0 |-> Start]
  <2>1. Run(f, 0)
    OBVIOUS
  <2>2. QED
    BY <2>1
<1>2. ASSUME NEW m \in 1 .. n, m - 1 \in S
      PROVE  m \in S
  <2>1. PICK f : Run(f, m - 1)
    BY <1>2
  <2> DEFINE g == [k \in 0 .. m |-> IF k = m THEN ReadToken(tokens, f[m - 1], m) ELSE f[k]]
  <2>2. ASSUME NEW k \in 0 .. m
        PROVE  g[k] = IF k = 0 THEN Start ELSE ReadToken(tokens, g[k - 1], k)
    <3>1. CASE k = m
      <4>1. /\ g[m] = ReadToken(tokens, f[m - 1], m) /\ g[m - 1] = f[m - 1]
            /\ m # 0
        OBVIOUS
      <4> HIDE DEF g
      <4>2. QED
        BY <3>1, <4>1
    <3>2. CASE k = 0
      <4>1. g[0] = f[0] /\ f[0] = Start
        BY <2>1
      <4>2. QED
        BY <3>2, <4>1
    <3>3. CASE k # m /\ k # 0
      <4>1. k \in 1 .. m - 1 /\ k - 1 \in 0 .. m - 1
        BY <3>3
      <4>2. g[k] = f[k] /\ g[k - 1] = f[k - 1]
        BY <4>1
      <4>3. f[k] = ReadToken(tokens, f[k - 1], k)
        BY <2>1, <4>1
      <4> HIDE DEF g
      <4>4. QED
        BY <3>3, <4>2, <4>3
    <3>4. QED
      BY <3>1, <3>2, <3>3
  <2>3. g = [k \in 0 .. m |-> g[k]]
    OBVIOUS
  <2>4. Run(g, m)
    <3> HIDE DEF g
    <3>1. QED
      BY <2>2, <2>3
  <2>5. \E h : Run(h, m)
    BY <2>4
  <2>6. QED
    BY <2>5
<1>3. n \in S
  <2> HIDE DEF S
  <2>1. 0 .. n \subseteq S
    BY <1>1, <1>2, Climb
  <2>2. QED
    BY <2>1
<1>4. QED
  BY <1>3

LEMMA AfterIs ==
  ASSUME NEW tokens, Len(tokens) \in Nat
  PROVE  \A k \in 0 .. Len(tokens) :
           After(tokens)[k] = IF k = 0 THEN Start
                              ELSE ReadToken(tokens, After(tokens)[k - 1], k)
<1> DEFINE n == Len(tokens)
           f == CHOOSE g : g = [k \in 0 .. n |-> IF k = 0 THEN Start
                                                 ELSE ReadToken(tokens, g[k - 1], k)]
<1>1. f = [k \in 0 .. n |-> IF k = 0 THEN Start ELSE ReadToken(tokens, f[k - 1], k)]
  <2>1. \E g : g = [k \in 0 .. n |-> IF k = 0 THEN Start
                                     ELSE ReadToken(tokens, g[k - 1], k)]
    BY ReadsExist
  <2>2. QED
    BY <2>1
<1>2. After(tokens) = f
  BY DEF After
<1> HIDE DEF f
<1>3. QED
  BY <1>1, <1>2

-----------------------------------------------------------------------------
(* What the reading knows stays a dictionary of texts. *)
LEMMA LearnIs ==
  ASSUME NEW names \in Dictionary, NEW name \in Text, NEW body \in Text
  PROVE  /\ Learn(names, name, body) \in Dictionary
         /\ \A t : t \in DOMAIN Learn(names, name, body) <=> t \in DOMAIN names \/ t = name
         /\ \A t \in DOMAIN Learn(names, name, body) :
              Learn(names, name, body)[t] = IF t = name THEN body ELSE names[t]
<1>1. PICK D \in SUBSET Text : names \in [D -> Text]
  BY DEF Dictionary
<1> DEFINE new == Learn(names, name, body)
<1>2. new = [t \in D \cup {name} |-> IF t = name THEN body ELSE names[t]]
  BY <1>1 DEF Learn
<1>3. new \in [D \cup {name} -> Text] /\ D \cup {name} \in SUBSET Text
  BY <1>1, <1>2
<1>4. QED
  BY <1>1, <1>2, <1>3 DEF Dictionary

LEMMA LineType ==
  ASSUME NEW names \in Dictionary, NEW token \in Raw
  PROVE  Line(names, token) \in Text
<1>0. token.text \in Text /\ token.text # << >>
  BY DEF Raw, Token
<1>1. StringText(token.text) \in Text
  BY <1>0, StringTextType
<1>2. \A t \in DOMAIN names : names[t] \in Text
  BY DEF Dictionary
<1>3. ExpressNumber(NumerateString(Tail(token.text)), token.text[1]) \in Text
  <2>1. Tail(token.text) \in Text
    BY <1>0 DEF Text
  <2>2. QED
    BY <2>1, NumerateType, NumberType
<1>4. QED
  BY <1>0, <1>1, <1>2, <1>3 DEF Line

(* One token read, spelled out. *)
LEMMA ReadTokenIs ==
  ASSUME NEW tokens \in Seq(Raw), NEW k \in 1 .. Len(tokens), NEW s \in ReadingState
  PROVE  /\ ReadToken(tokens, s, k) \in ReadingState
         /\ s.skip > 0 =>
              /\ ReadToken(tokens, s, k).skip = s.skip - 1
              /\ ReadToken(tokens, s, k).names = s.names
              /\ ReadToken(tokens, s, k).lines = s.lines
              /\ ReadToken(tokens, s, k).cut = s.cut
         /\ s.skip = 0 /\ tokens[k].text # DEFINE_str =>
              /\ ReadToken(tokens, s, k).skip = 0
              /\ ReadToken(tokens, s, k).names = s.names
              /\ ReadToken(tokens, s, k).lines = Append(s.lines, Line(s.names, tokens[k]))
              /\ ReadToken(tokens, s, k).cut = s.cut
         /\ s.skip = 0 /\ tokens[k].text = DEFINE_str /\ k + 2 > Len(tokens) =>
              /\ ReadToken(tokens, s, k).skip = 2
              /\ ReadToken(tokens, s, k).cut = TRUE
         /\ s.skip = 0 /\ tokens[k].text = DEFINE_str /\ k + 2 <= Len(tokens) =>
              /\ ReadToken(tokens, s, k).skip = 2
              /\ ReadToken(tokens, s, k).names =
                   Learn(s.names, tokens[k + 1].text, Body(tokens[k + 2]))
              /\ ReadToken(tokens, s, k).lines = s.lines
              /\ ReadToken(tokens, s, k).cut = s.cut
<1> DEFINE r == ReadToken(tokens, s, k)
<1>0. Len(tokens) \in Nat /\ s.skip \in 0 .. 2 /\ tokens[k] \in Raw
  BY DEF ReadingState
<1>1. CASE s.skip > 0
  <2>1. r = [s EXCEPT !.skip = s.skip - 1]
    BY <1>1 DEF ReadToken
  <2>2. s.skip - 1 \in 0 .. 2 /\ s.skip # 0
    BY <1>0, <1>1
  <2> HIDE DEF r
  <2>3. r \in ReadingState /\ r.skip = s.skip - 1 /\ r.names = s.names
        /\ r.lines = s.lines /\ r.cut = s.cut
    BY <2>1, <2>2 DEF ReadingState
  <2>4. QED
    BY <2>2, <2>3 DEF r
<1>2. CASE s.skip = 0 /\ tokens[k].text # DEFINE_str
  <2> DEFINE line == Line(s.names, tokens[k])
  <2>1. r = [s EXCEPT !.lines = Append(s.lines, line)]
    BY <1>2 DEF ReadToken
  <2>2. line \in Text
    BY <1>0, LineType DEF ReadingState
  <2>3. s.lines \in Seq(Text)
    BY DEF ReadingState
  <2> HIDE DEF line
  <2>4. Append(s.lines, line) \in Seq(Text)
    BY <2>2, <2>3
  <2> HIDE DEF r
  <2>5. r \in ReadingState /\ r.skip = s.skip /\ r.names = s.names
        /\ r.lines = Append(s.lines, line) /\ r.cut = s.cut
    BY <2>1, <2>4 DEF ReadingState
  <2>6. QED
    BY <1>2, <2>5 DEF r, line
<1>3. CASE s.skip = 0 /\ tokens[k].text = DEFINE_str /\ k + 2 > Len(tokens)
  <2>1. r = [s EXCEPT !.cut = TRUE, !.skip = 2]
    BY <1>3 DEF ReadToken
  <2> HIDE DEF r
  <2>2. r = [names |-> s.names, skip |-> 2, lines |-> s.lines, cut |-> TRUE]
    BY <2>1 DEF ReadingState
  <2>3. s.names \in Dictionary /\ s.lines \in Seq(Text)
    BY DEF ReadingState
  <2>4. r \in ReadingState /\ r.skip = 2 /\ r.cut = TRUE
    BY <2>2, <2>3 DEF ReadingState
  <2>5. QED
    BY <1>0, <1>3, <2>4 DEF r
<1>4. CASE s.skip = 0 /\ tokens[k].text = DEFINE_str /\ k + 2 <= Len(tokens)
  <2> DEFINE names == Learn(s.names, tokens[k + 1].text, Body(tokens[k + 2]))
  <2>1. r = [s EXCEPT !.names = names, !.skip = 2]
    BY <1>0, <1>4 DEF ReadToken
  <2>2. tokens[k + 1] \in Raw /\ tokens[k + 2] \in Raw
    BY <1>0, <1>4
  <2>3. tokens[k + 1].text \in Text /\ tokens[k + 2] \in FreshToken
    BY <2>2 DEF Raw, FreshToken, Token
  <2>4. Body(tokens[k + 2]) \in Text
    BY <2>3, BodyType
  <2>5. names \in Dictionary
    BY <2>3, <2>4, LearnIs DEF ReadingState
  <2> HIDE DEF names, r
  <2>6. r = [names |-> names, skip |-> 2, lines |-> s.lines, cut |-> s.cut]
    BY <2>1 DEF ReadingState
  <2>7. s.lines \in Seq(Text) /\ s.cut \in BOOLEAN
    BY DEF ReadingState
  <2>8. r \in ReadingState /\ r.skip = 2 /\ r.names = names
        /\ r.lines = s.lines /\ r.cut = s.cut
    BY <2>5, <2>6, <2>7 DEF ReadingState
  <2>9. QED
    BY <1>0, <1>4, <2>8 DEF r, names
<1>5. s.skip > 0 \/ s.skip = 0
  BY <1>0
<1>6. k + 2 > Len(tokens) \/ k + 2 <= Len(tokens)
  BY <1>0
<1> HIDE DEF r
<1>7. QED
  BY <1>1, <1>2, <1>3, <1>4, <1>5, <1>6

LEMMA ReadsOver ==
  ASSUME NEW tokens \in Seq(Raw), NEW k \in 1 .. Len(tokens), NEW s \in ReadingState,
         s.skip > 0, NEW u, u = ReadToken(tokens, s, k)
  PROVE  u.skip = s.skip - 1 /\ u.names = s.names /\ u.lines = s.lines /\ u.cut = s.cut
BY ReadTokenIs

LEMMA ReadsLine ==
  ASSUME NEW tokens \in Seq(Raw), NEW k \in 1 .. Len(tokens), NEW s \in ReadingState,
         s.skip = 0, tokens[k].text # DEFINE_str, NEW u, u = ReadToken(tokens, s, k)
  PROVE  /\ u.skip = 0 /\ u.names = s.names /\ u.cut = s.cut
         /\ u.lines = Append(s.lines, Line(s.names, tokens[k]))
BY ReadTokenIs

LEMMA ReadsCut ==
  ASSUME NEW tokens \in Seq(Raw), NEW k \in 1 .. Len(tokens), NEW s \in ReadingState,
         s.skip = 0, tokens[k].text = DEFINE_str, k + 2 > Len(tokens),
         NEW u, u = ReadToken(tokens, s, k)
  PROVE  u.skip = 2 /\ u.cut = TRUE
BY ReadTokenIs

LEMMA ReadsName ==
  ASSUME NEW tokens \in Seq(Raw), NEW k \in 1 .. Len(tokens), NEW s \in ReadingState,
         s.skip = 0, tokens[k].text = DEFINE_str, k + 2 <= Len(tokens),
         NEW u, u = ReadToken(tokens, s, k)
  PROVE  /\ u.skip = 2 /\ u.lines = s.lines /\ u.cut = s.cut
         /\ u.names = Learn(s.names, tokens[k + 1].text, Body(tokens[k + 2]))
BY ReadTokenIs

LEMMA AfterType ==
  ASSUME NEW tokens \in Seq(Raw)
  PROVE  \A k \in 0 .. Len(tokens) : After(tokens)[k] \in ReadingState
<1> DEFINE n == Len(tokens)
           S == {k \in Nat : After(tokens)[k] \in ReadingState}
<1>0. n \in Nat
  OBVIOUS
<1>1. 0 \in S
  <2>1. After(tokens)[0] = Start
    BY <1>0, AfterIs
  <2>2. << >> \in Dictionary
    <3>1. << >> \in [{} -> Text] /\ {} \in SUBSET Text
      OBVIOUS
    <3>2. QED
      BY <3>1 DEF Dictionary
  <2>3. Start \in ReadingState
    BY <2>2 DEF Start, ReadingState
  <2>4. QED
    BY <2>1, <2>3
<1>2. ASSUME NEW k \in 1 .. n, k - 1 \in S
      PROVE  k \in S
  <2>1. After(tokens)[k] = ReadToken(tokens, After(tokens)[k - 1], k)
    BY <1>0, AfterIs
  <2>2. k \in 1 .. Len(tokens) /\ After(tokens)[k - 1] \in ReadingState
    BY <1>2
  <2>3. After(tokens)[k] \in ReadingState
    BY <2>1, <2>2, ReadTokenIs
  <2>4. QED
    BY <2>3
<1>3. 0 .. n \subseteq S
  <2> HIDE DEF S
  <2>1. QED
    BY <1>0, <1>1, <1>2, Climb
<1>4. QED
  BY <1>3

-----------------------------------------------------------------------------
(* One piece more, put to the end. *)
LEMMA FlatStep ==
  ASSUME NEW U, NEW s \in Seq(Seq(U)), NEW x \in Seq(U)
  PROVE  FlattenSeq(Append(s, x)) = FlattenSeq(s) \o x
<1> DEFINE t == Append(s, x)
           n == Len(s)
           f == CHOOSE h : Flattens(t, Len(t), h)
           g == CHOOSE h : Flattens(s, n, h)
<1>0. n \in Nat /\ Len(t) = n + 1 /\ t[n + 1] = x /\ \A i \in 1 .. n : t[i] = s[i]
  OBVIOUS
<1>1. Flattens(t, n + 1, f) /\ Flattens(s, n, g)
  <2>1. n \in Nat /\ n + 1 \in Nat
    BY <1>0
  <2>2. (\E h : Flattens(t, Len(t), h)) /\ (\E h : Flattens(s, n, h))
    BY <1>0, <2>1, FlatExists
  <2>3. Flattens(t, Len(t), f) /\ Flattens(s, n, g)
    BY <2>2
  <2> HIDE DEF f, g, t
  <2>4. QED
    BY <1>0, <2>3
<1>2. FlattenSeq(t) = f[n + 1]
  <2>1. Len(t) # 0
    BY <1>0
  <2>2. FlattenSeq(t) = f[Len(t)]
    BY <2>1 DEF FlattenSeq, Flattens
  <2>3. QED
    BY <1>0, <2>2
<1>3. n # 0 => FlattenSeq(s) = g[n]
  BY DEF FlattenSeq, Flattens
<1> HIDE DEF f, g, t
<1>4. f[n + 1] = IF n + 1 = 1 THEN t[n + 1] ELSE f[n] \o t[n + 1]
  <2>1. n + 1 \in 1 .. n + 1 /\ (n + 1) - 1 = n
    BY <1>0
  <2>2. QED
    BY <1>1, <2>1 DEF Flattens
<1>5. CASE n = 0
  <2>1. s = << >> /\ FlattenSeq(s) = << >>
    BY <1>5 DEF FlattenSeq
  <2>2. << >> \o x = x
    OBVIOUS
  <2>3. QED
    BY <1>0, <1>2, <1>4, <1>5, <2>1, <2>2 DEF t
<1>6. CASE n # 0
  <2> DEFINE S == {m \in Nat : m = 0 \/ f[m] = g[m]}
  <2>1. 0 \in S
    OBVIOUS
  <2>2. ASSUME NEW m \in 1 .. n, m - 1 \in S
        PROVE  m \in S
    <3>1. f[m] = IF m = 1 THEN t[m] ELSE f[m - 1] \o t[m]
      <4>1. m \in 1 .. n + 1
        BY <1>0
      <4>2. QED
        BY <1>1, <4>1 DEF Flattens
    <3>2. g[m] = IF m = 1 THEN s[m] ELSE g[m - 1] \o s[m]
      BY <1>1 DEF Flattens
    <3>3. m # 1 => f[m - 1] = g[m - 1]
      BY <2>2
    <3>4. f[m] = g[m]
      BY <1>0, <3>1, <3>2, <3>3
    <3>5. QED
      BY <3>4
  <2>3. n \in S
    <3> HIDE DEF S
    <3>1. 0 .. n \subseteq S
      BY <1>0, <2>1, <2>2, Climb
    <3>2. n \in 0 .. n
      BY <1>0
    <3>3. QED
      BY <3>1, <3>2
  <2>4. f[n] = g[n]
    BY <1>6, <2>3
  <2>5. n + 1 # 1
    BY <1>0, <1>6
  <2>6. QED
    BY <1>0, <1>2, <1>3, <1>4, <1>6, <2>4, <2>5 DEF t
<1>7. QED
  BY <1>5, <1>6

-----------------------------------------------------------------------------
(* The macros among the first n tokens that give the name t.               *)
Named(l, n, t) == {k \in 1 .. n : l[k].type = "macro" /\ l[k].text = t}

(* The line the token at j is to be written as, and nothing for a macro.   *)
Final(l, j) ==
  IF l[j].type = "string" THEN StringText(l[j].text)
  ELSE IF Named(l, j - 1, l[j].text) # {}
    THEN l[Max(Named(l, j - 1, l[j].text))].expr[1]
  ELSE IF Immediate(l[j].text)
    THEN ExpressNumber(NumerateString(Tail(l[j].text)), l[j].text[1])
  ELSE l[j].text

Piece(l, j)  == IF l[j].type = "macro" THEN << >> ELSE <<Final(l, j)>>
Pieces(l, n) == [j \in 1 .. n |-> Piece(l, j)]

(* What the first n tokens name is what names says.                        *)
Known(l, n, names) ==
  \A t : /\ t \in DOMAIN names <=> Named(l, n, t) # {}
         /\ t \in DOMAIN names => names[t] = l[Max(Named(l, n, t))].expr[1]

(* Nothing a line depends on differs in the first n tokens.                *)
Same(l, m, n) ==
  \A i \in 1 .. n : /\ m[i].type = l[i].type /\ m[i].text = l[i].text
                    /\ l[i].type = "macro" => m[i].expr = l[i].expr

LEMMA LastNamed ==
  ASSUME NEW l, NEW n \in Nat, NEW t, Named(l, n, t) # {}
  PROVE  /\ Max(Named(l, n, t)) \in 1 .. n
         /\ l[Max(Named(l, n, t))].type = "macro" /\ l[Max(Named(l, n, t))].text = t
         /\ \A k \in Named(l, n, t) : k <= Max(Named(l, n, t))
<1>1. Named(l, n, t) \in SUBSET (1 .. n)
  BY DEF Named
<1>2. /\ Max(Named(l, n, t)) \in Named(l, n, t)
      /\ \A k \in Named(l, n, t) : Max(Named(l, n, t)) >= k
  BY <1>1, LastOf
<1>3. \A k \in Named(l, n, t) : k \in Nat
  BY <1>1
<1>4. QED
  BY <1>1, <1>2, <1>3 DEF Named

LEMMA SameNamed ==
  ASSUME NEW l, NEW m, NEW n \in Nat, Same(l, m, n), NEW t
  PROVE  /\ Named(m, n, t) = Named(l, n, t)
         /\ Named(l, n, t) # {} =>
              m[Max(Named(m, n, t))].expr = l[Max(Named(l, n, t))].expr
<1>1. Named(m, n, t) = Named(l, n, t)
  BY DEF Named, Same
<1>2. Named(l, n, t) # {} => m[Max(Named(l, n, t))].expr = l[Max(Named(l, n, t))].expr
  BY LastNamed DEF Same
<1>3. QED
  BY <1>1, <1>2

LEMMA SamePiece ==
  ASSUME NEW l, NEW m, NEW j \in Nat \ {0}, Same(l, m, j)
  PROVE  Final(m, j) = Final(l, j) /\ Piece(m, j) = Piece(l, j)
<1>1. j - 1 \in Nat /\ j \in 1 .. j /\ Same(l, m, j - 1)
  BY DEF Same
<1>2. m[j].type = l[j].type /\ m[j].text = l[j].text
  BY <1>1 DEF Same
<1>3. Final(m, j) = Final(l, j)
  BY <1>1, <1>2, SameNamed DEF Final
<1>4. QED
  BY <1>2, <1>3 DEF Piece

LEMMA SamePieces ==
  ASSUME NEW l, NEW m, NEW n \in Nat, Same(l, m, n)
  PROVE  Pieces(m, n) = Pieces(l, n)
<1>1. ASSUME NEW j \in 1 .. n PROVE Piece(m, j) = Piece(l, j)
  <2>1. j \in Nat \ {0} /\ Same(l, m, j)
    BY DEF Same
  <2>2. QED
    BY <2>1, SamePiece
<1>2. QED
  BY <1>1 DEF Pieces

LEMMA SameKnown ==
  ASSUME NEW l, NEW m, NEW n \in Nat, Same(l, m, n), NEW names, Known(l, n, names)
  PROVE  Known(m, n, names)
BY SameNamed DEF Known

LEMMA PieceType ==
  ASSUME NEW l \in Seq(Listed), NEW j \in 1 .. Len(l)
  PROVE  Final(l, j) \in Text /\ Piece(l, j) \in Seq(Text)
<1>0. /\ Len(l) \in Nat /\ \A k \in 1 .. Len(l) : l[k] \in Listed
      /\ j \in Nat /\ j - 1 \in Nat
  OBVIOUS
<1>1. l[j].text \in Text /\ l[j].text # << >>
  BY <1>0 DEF Listed, Token
<1>2. StringText(l[j].text) \in Text
  BY <1>1, StringTextType
<1>3. ExpressNumber(NumerateString(Tail(l[j].text)), l[j].text[1]) \in Text
  <2>1. Tail(l[j].text) \in Text
    BY <1>1 DEF Text
  <2>2. QED
    BY <2>1, NumerateType, NumberType
<1>4. ASSUME Named(l, j - 1, l[j].text) # {}
      PROVE  l[Max(Named(l, j - 1, l[j].text))].expr[1] \in Text
  <2> DEFINE k == Max(Named(l, j - 1, l[j].text))
  <2>1. k \in 1 .. j - 1 /\ l[k].type = "macro"
    BY <1>0, <1>4, LastNamed
  <2> HIDE DEF k
  <2>2. l[k] \in Listed
    BY <1>0, <2>1
  <2>3. PICK b \in Text : l[k].expr = <<b>>
    BY <2>1, <2>2 DEF Listed
  <2>4. l[k].expr[1] \in Text
    BY <2>3
  <2>5. QED
    BY <2>4 DEF k
<1>5. Final(l, j) \in Text
  BY <1>1, <1>2, <1>3, <1>4 DEF Final
<1>6. << >> \in Seq(Text) /\ <<Final(l, j)>> \in Seq(Text)
  BY <1>5
<1>7. QED
  BY <1>5, <1>6 DEF Piece

(* The lines of the first n tokens, and of one more.                       *)
LEMMA PiecesStep ==
  ASSUME NEW l \in Seq(Listed), NEW n \in 1 .. Len(l)
  PROVE  FlattenSeq(Pieces(l, n)) = FlattenSeq(Pieces(l, n - 1)) \o Piece(l, n)
<1>0. Len(l) \in Nat /\ n \in Nat /\ n - 1 \in Nat
  OBVIOUS
<1>1. Pieces(l, n - 1) \in Seq(Seq(Text)) /\ Len(Pieces(l, n - 1)) = n - 1
  <2>1. \A j \in 1 .. n - 1 : Piece(l, j) \in Seq(Text)
    BY <1>0, PieceType
  <2>2. QED
    BY <1>0, <2>1 DEF Pieces
<1>2. Piece(l, n) \in Seq(Text)
  BY PieceType
<1>3. Pieces(l, n) = Append(Pieces(l, n - 1), Piece(l, n))
  <2>1. Append(Pieces(l, n - 1), Piece(l, n)) =
          [j \in 1 .. (n - 1) + 1 |-> IF j = (n - 1) + 1 THEN Piece(l, n)
                                      ELSE Pieces(l, n - 1)[j]]
    BY <1>0, <1>1
  <2>2. QED
    BY <1>0, <2>1 DEF Pieces
<1>4. QED
  BY <1>1, <1>2, <1>3, FlatStep

(* The reading writes for a token what the passes are to write for it.     *)
LEMMA LineIsFinal ==
  ASSUME NEW l, NEW j \in Nat \ {0}, l[j].type # "macro",
         NEW names, Known(l, j - 1, names), NEW token,
         token.type = l[j].type, token.text = l[j].text
  PROVE  Line(names, token) = Final(l, j)
<1>1. /\ token.text \in DOMAIN names <=> Named(l, j - 1, l[j].text) # {}
      /\ token.text \in DOMAIN names =>
           names[token.text] = l[Max(Named(l, j - 1, l[j].text))].expr[1]
  BY DEF Known
<1>2. QED
  BY <1>1 DEF Line, Final

(* No name more. *)
LEMMA KnownOther ==
  ASSUME NEW l, NEW n \in Nat \ {0}, NEW names, Known(l, n - 1, names), l[n].type # "macro"
  PROVE  Known(l, n, names)
<1>1. \A t : Named(l, n, t) = Named(l, n - 1, t)
  BY DEF Named
<1>2. QED
  BY <1>1 DEF Known

(* One name more, or another body for one. *)
LEMMA KnownMacro ==
  ASSUME NEW l, NEW n \in Nat \ {0}, NEW names \in Dictionary, Known(l, n - 1, names),
         NEW name \in Text, NEW body \in Text,
         l[n].type = "macro", l[n].text = name, l[n].expr = <<body>>
  PROVE  Known(l, n, Learn(names, name, body))
<1> DEFINE new == Learn(names, name, body)
<1>1. ASSUME NEW t
      PROVE  /\ t \in DOMAIN new <=> Named(l, n, t) # {}
             /\ t \in DOMAIN new => new[t] = l[Max(Named(l, n, t))].expr[1]
  <2>1. CASE t = name
    <3>1. n \in Named(l, n, t)
      BY <2>1 DEF Named
    <3>2. Max(Named(l, n, t)) \in 1 .. n /\ n <= Max(Named(l, n, t))
      BY <3>1, LastNamed
    <3>3. Max(Named(l, n, t)) = n
      BY <3>2
    <3>4. t \in DOMAIN new /\ new[t] = body
      BY <2>1, LearnIs
    <3>5. QED
      BY <3>1, <3>3, <3>4
  <2>2. CASE t # name
    <3>1. Named(l, n, t) = Named(l, n - 1, t)
      BY <2>2 DEF Named
    <3>2. /\ t \in DOMAIN new <=> t \in DOMAIN names
          /\ t \in DOMAIN new => new[t] = names[t]
      BY <2>2, LearnIs
    <3> HIDE DEF new
    <3>3. QED
      BY <3>1, <3>2 DEF Known
  <2>3. QED
    BY <2>1, <2>2
<1>2. QED
  BY <1>1 DEF Known

-----------------------------------------------------------------------------
(* Identify_Macros at c of the list l, and the reading of r before p.      *)
Level(l, c, r, p) ==
  /\ c \in 1 .. Len(l) /\ p \in 1 .. Len(r) /\ Len(l) - c = Len(r) - p
  /\ \A i \in 0 .. Len(l) - c : l[c + i] = r[p + i]
  /\ After(r)[p - 1].skip = 0 /\ After(r)[p - 1].cut = FALSE
  /\ After(r)[p - 1].lines = FlattenSeq(Pieces(l, c - 1))
  /\ Known(l, c - 1, After(r)[p - 1].names)

(* The list l stands for what the reading of all of r has made of it.      *)
Rendered(l, r) ==
  Meaning(r).lines = FlattenSeq(Pieces(l, Len(l))) /\ Meaning(r).cut = FALSE

(* What is true of the reading where the token at c is read. *)
LEMMA LevelIs ==
  ASSUME NEW l \in Seq(Listed), NEW r \in Seq(Raw), NEW c, NEW p, Level(l, c, r, p)
  PROVE  /\ Len(l) \in Nat /\ Len(r) \in Nat /\ c \in Nat \ {0} /\ p \in Nat \ {0}
         /\ c <= Len(l) /\ p <= Len(r) /\ l[c] = r[p] /\ r[p] \in Raw
         /\ After(r)[p - 1] \in ReadingState
         /\ After(r)[p] = ReadToken(r, After(r)[p - 1], p)
<1>1. Len(l) \in Nat /\ Len(r) \in Nat /\ c \in 1 .. Len(l) /\ p \in 1 .. Len(r)
  BY DEF Level
<1>2. l[c] = r[p]
  <2>1. 0 \in 0 .. Len(l) - c
    BY <1>1
  <2>2. l[c + 0] = r[p + 0]
    BY <2>1 DEF Level
  <2>3. c + 0 = c /\ p + 0 = p
    BY <1>1
  <2>4. QED
    BY <2>2, <2>3
<1>3. r[p] \in Raw
  BY <1>1
<1>4. p - 1 \in 0 .. Len(r) /\ p \in 0 .. Len(r) /\ p # 0
  BY <1>1
<1>5. QED
  BY <1>1, <1>2, <1>3, <1>4, AfterIs, AfterType

LEMMA LevelOther ==
  ASSUME NEW l \in Seq(Listed), NEW r \in Seq(Raw), NEW c, NEW p, Level(l, c, r, p),
         l[c].text # DEFINE_str
  PROVE  /\ c < Len(l) => Level(l, c + 1, r, p + 1)
         /\ ~(c < Len(l)) => Rendered(l, r)
<1> DEFINE s == After(r)[p - 1]
           u == After(r)[p]
<1>0. /\ Len(l) \in Nat /\ Len(r) \in Nat /\ c \in Nat \ {0} /\ p \in Nat \ {0}
      /\ c <= Len(l) /\ p <= Len(r) /\ l[c] = r[p] /\ r[p] \in Raw
      /\ s \in ReadingState /\ u = ReadToken(r, s, p)
  BY LevelIs
<1>1. /\ s.skip = 0 /\ s.cut = FALSE /\ Known(l, c - 1, s.names)
      /\ s.lines = FlattenSeq(Pieces(l, c - 1)) /\ Len(l) - c = Len(r) - p
  BY DEF Level
<1> HIDE DEF s, u
<1>2. p \in 1 .. Len(r) /\ r[p].text # DEFINE_str
  BY <1>0
<1>3. /\ u.skip = 0 /\ u.names = s.names /\ u.cut = s.cut
      /\ u.lines = Append(s.lines, Line(s.names, r[p]))
  <2>1. \A q \in 1 .. Len(r), x \in ReadingState :
           x.skip = 0 /\ r[q].text # DEFINE_str =>
             /\ ReadToken(r, x, q).skip = 0 /\ ReadToken(r, x, q).names = x.names
             /\ ReadToken(r, x, q).cut = x.cut
             /\ ReadToken(r, x, q).lines = Append(x.lines, Line(x.names, r[q]))
    BY ReadsLine
  <2>2. QED
    BY <1>0, <1>1, <1>2, <2>1
<1>4. l[c].type # "macro"
  BY <1>0 DEF Raw
<1>5. Line(s.names, r[p]) = Final(l, c)
  BY <1>0, <1>1, <1>4, LineIsFinal
<1>6. c \in 1 .. Len(l)
  BY <1>0
<1>7. FlattenSeq(Pieces(l, c)) = s.lines \o <<Final(l, c)>>
  BY <1>1, <1>4, <1>6, PiecesStep DEF Piece
<1>8. u.lines = FlattenSeq(Pieces(l, c))
  <2>1. s.lines \in Seq(Text) /\ Final(l, c) \in Text
    BY <1>0, <1>6, PieceType DEF ReadingState
  <2>2. \A a \in Seq(Text), b \in Text : Append(a, b) = a \o <<b>>
    OBVIOUS
  <2>3. QED
    BY <1>3, <1>5, <1>7, <2>1, <2>2
<1>9. Known(l, c, u.names)
  BY <1>0, <1>1, <1>3, <1>4, KnownOther
<1>10. CASE c < Len(l)
  <2>1. c + 1 \in 1 .. Len(l) /\ p + 1 \in 1 .. Len(r) /\ Len(l) - (c + 1) = Len(r) - (p + 1)
    <3>1. Len(l) - c = Len(r) - p /\ Len(l) \in Nat /\ Len(r) \in Nat
          /\ c \in Nat \ {0} /\ p \in Nat \ {0} /\ c < Len(l)
      BY <1>0, <1>1, <1>10
    <3>2. \A x, y \in Nat, i, j \in Nat \ {0} : x - i = y - j /\ i < x =>
             /\ i + 1 \in 1 .. x /\ j + 1 \in 1 .. y
             /\ x - (i + 1) = y - (j + 1)
      OBVIOUS
    <3>3. QED
      BY ONLY <3>1, <3>2
  <2>2. (p + 1) - 1 = p /\ (c + 1) - 1 = c
    BY <1>0
  <2>3. ASSUME NEW i \in 0 .. Len(l) - (c + 1)
        PROVE  l[(c + 1) + i] = r[(p + 1) + i]
    <3>1. i + 1 \in 0 .. Len(l) - c /\ (c + 1) + i = c + (i + 1) /\ (p + 1) + i = p + (i + 1)
      BY <1>0
    <3>2. l[c + (i + 1)] = r[p + (i + 1)]
      BY <3>1 DEF Level
    <3>3. QED
      BY <3>1, <3>2
  <2>4. QED
    BY <1>1, <1>3, <1>8, <1>9, <1>10, <2>1, <2>2, <2>3 DEF Level, u
<1>11. CASE ~(c < Len(l))
  <2>1. c = Len(l) /\ p = Len(r)
    BY <1>0, <1>1, <1>11
  <2>2. QED
    BY <1>1, <1>3, <1>8, <1>11, <2>1 DEF Rendered, Meaning, u
<1>12. QED
  BY <1>10, <1>11

(* The two tokens behind a DEFINE are read over. *)
LEMMA ReadOver ==
  ASSUME NEW r \in Seq(Raw), NEW p \in 1 .. Len(r), After(r)[p].skip > 0
  PROVE  p < Len(r) =>
           /\ After(r)[p + 1].skip = After(r)[p].skip - 1
           /\ After(r)[p + 1].names = After(r)[p].names
           /\ After(r)[p + 1].lines = After(r)[p].lines
           /\ After(r)[p + 1].cut = After(r)[p].cut
<1> SUFFICES ASSUME p < Len(r)
    PROVE  /\ After(r)[p + 1].skip = After(r)[p].skip - 1
           /\ After(r)[p + 1].names = After(r)[p].names
           /\ After(r)[p + 1].lines = After(r)[p].lines
           /\ After(r)[p + 1].cut = After(r)[p].cut
  OBVIOUS
<1>1. Len(r) \in Nat /\ p \in 0 .. Len(r) /\ p + 1 \in 1 .. Len(r) /\ p + 1 \in 0 .. Len(r)
      /\ p + 1 # 0 /\ (p + 1) - 1 = p
  OBVIOUS
<1>2. After(r)[p] \in ReadingState
  BY <1>1, AfterType
<1>3. After(r)[p + 1] = ReadToken(r, After(r)[p], p + 1)
  BY <1>1, AfterIs
<1>4. QED
  BY <1>1, <1>2, <1>3, ReadsOver

(* A DEFINE cut off is one for the reading too. *)
LEMMA LevelFault ==
  ASSUME NEW l \in Seq(Listed), NEW r \in Seq(Raw), NEW c, NEW p, Level(l, c, r, p),
         l[c].text = DEFINE_str, c + 2 > Len(l)
  PROVE  Meaning(r).cut = TRUE
<1>0. /\ Len(l) \in Nat /\ Len(r) \in Nat /\ c \in Nat \ {0} /\ p \in Nat \ {0}
      /\ c <= Len(l) /\ p <= Len(r) /\ l[c] = r[p] /\ r[p] \in Raw
      /\ After(r)[p - 1] \in ReadingState
      /\ After(r)[p] = ReadToken(r, After(r)[p - 1], p)
  BY LevelIs
<1>1. After(r)[p - 1].skip = 0 /\ Len(l) - c = Len(r) - p
  BY DEF Level
<1>2. p \in 1 .. Len(r) /\ p + 2 > Len(r) /\ r[p].text = DEFINE_str
  BY <1>0, <1>1
<1>3. After(r)[p].skip = 2 /\ After(r)[p].cut = TRUE
  BY <1>0, <1>1, <1>2, ReadsCut
<1>4. CASE p = Len(r)
  BY <1>3, <1>4 DEF Meaning
<1>5. CASE p # Len(r)
  <2>1. p < Len(r) /\ p + 1 = Len(r)
    BY <1>0, <1>2, <1>5
  <2>2. After(r)[p + 1].cut = TRUE
    BY <1>2, <1>3, <2>1, ReadOver
  <2>3. QED
    BY <2>1, <2>2 DEF Meaning
<1>6. QED
  BY <1>4, <1>5

(* The list with a macro in the place of the three tokens at c. *)
Unlinked(l, c, macro) ==
  SubSeq(l, 1, c - 1) \o <<macro>> \o SubSeq(l, c + 3, Len(l))

LEMMA JoinedIs ==
  ASSUME NEW x \in Seq(Listed), NEW y \in Seq(Listed)
  PROVE  /\ x \o y \in Seq(Listed) /\ Len(x \o y) = Len(x) + Len(y)
         /\ \A i \in 1 .. Len(x) : (x \o y)[i] = x[i]
         /\ \A i \in Len(x) + 1 .. Len(x) + Len(y) : (x \o y)[i] = y[i - Len(x)]
<1>1. x \o y \in Seq(Listed) /\ Len(x \o y) = Len(x) + Len(y)
  OBVIOUS
<1>2. ASSUME NEW i \in 1 .. Len(x) PROVE (x \o y)[i] = x[i]
  OBVIOUS
<1>3. ASSUME NEW i \in Len(x) + 1 .. Len(x) + Len(y) PROVE (x \o y)[i] = y[i - Len(x)]
  OBVIOUS
<1>4. QED
  BY <1>1, <1>2, <1>3

LEMMA UnlinkedIs ==
  ASSUME NEW l \in Seq(Listed), NEW c \in Nat \ {0}, c + 2 <= Len(l), NEW macro \in Listed
  PROVE  /\ Unlinked(l, c, macro) \in Seq(Listed)
         /\ Len(Unlinked(l, c, macro)) = Len(l) - 2
         /\ \A i \in 1 .. c - 1 : Unlinked(l, c, macro)[i] = l[i]
         /\ Unlinked(l, c, macro)[c] = macro
         /\ \A i \in c + 1 .. Len(l) - 2 : Unlinked(l, c, macro)[i] = l[i + 2]
<1> DEFINE a == SubSeq(l, 1, c - 1)
           b == SubSeq(l, c + 3, Len(l))
           one == <<macro>>
           front == a \o one
<1>0. Len(l) \in Nat
  OBVIOUS
<1>1. a \in Seq(Listed) /\ Len(a) = c - 1 /\ \A i \in 1 .. c - 1 : a[i] = l[i]
  OBVIOUS
<1>2. /\ b \in Seq(Listed) /\ Len(b) = Len(l) - c - 2
      /\ \A i \in 1 .. Len(l) - c - 2 : b[i] = l[i + c + 2]
  <2>1. b \in Seq(Listed) /\ Len(b) = Len(l) - c - 2
    OBVIOUS
  <2>2. \A i \in 1 .. Len(l) - c - 2 : b[i] = l[i + (c + 3) - 1]
    OBVIOUS
  <2>3. \A i \in 1 .. Len(l) - c - 2 : i + (c + 3) - 1 = i + c + 2
    OBVIOUS
  <2>4. QED
    BY <2>1, <2>2, <2>3
<1>3. one \in Seq(Listed) /\ Len(one) = 1 /\ one[1] = macro
  OBVIOUS
<1> HIDE DEF a, b, one
<1>4. /\ front \in Seq(Listed) /\ Len(front) = c
      /\ (\A i \in 1 .. c - 1 : front[i] = l[i]) /\ front[c] = macro
  <2>1. front \in Seq(Listed) /\ Len(front) = Len(a) + Len(one)
    BY <1>1, <1>3, JoinedIs
  <2>2. \A i \in 1 .. c - 1 : front[i] = a[i]
    BY <1>1, <1>3, JoinedIs
  <2>3. front[c] = one[1]
    <3>1. c \in Len(a) + 1 .. Len(a) + Len(one) /\ c - Len(a) = 1
      BY <1>1, <1>3
    <3>2. front[c] = one[c - Len(a)]
      BY <1>1, <1>3, <3>1, JoinedIs
    <3>3. QED
      BY <3>1, <3>2
  <2>4. (c - 1) + 1 = c
    OBVIOUS
  <2> HIDE DEF front
  <2>5. QED
    BY <1>1, <1>3, <2>1, <2>2, <2>3, <2>4
<1> HIDE DEF front
<1> DEFINE m == front \o b
<1>5. /\ m \in Seq(Listed) /\ Len(m) = c + (Len(l) - c - 2)
      /\ (\A i \in 1 .. c : m[i] = front[i])
      /\ \A i \in c + 1 .. c + (Len(l) - c - 2) : m[i] = b[i - c]
  <2>1. m \in Seq(Listed) /\ Len(m) = c + (Len(l) - c - 2)
    BY <1>2, <1>4, JoinedIs
  <2>2. \A i \in 1 .. c : m[i] = front[i]
    BY <1>2, <1>4, JoinedIs
  <2>3. \A i \in c + 1 .. c + (Len(l) - c - 2) : m[i] = b[i - c]
    BY <1>2, <1>4, JoinedIs
  <2>4. QED
    BY <2>1, <2>2, <2>3
<1>6. m = Unlinked(l, c, macro)
  BY DEF Unlinked, front, a, b, one
<1> HIDE DEF m
<1>7. c + (Len(l) - c - 2) = Len(l) - 2
  BY <1>0
<1>8. ASSUME NEW i \in c + 1 .. Len(l) - 2 PROVE m[i] = l[i + 2]
  <2>1. i - c \in 1 .. Len(l) - c - 2 /\ (i - c) + c + 2 = i + 2
    BY <1>0
  <2>2. m[i] = b[i - c]
    BY <1>5, <1>7
  <2>3. b[i - c] = l[(i - c) + c + 2]
    BY <1>2, <2>1
  <2>4. QED
    BY <2>1, <2>2, <2>3
<1>9. QED
  BY <1>4, <1>5, <1>6, <1>7, <1>8

LEMMA LevelMacro ==
  ASSUME NEW l \in Seq(Listed), NEW r \in Seq(Raw), NEW c, NEW p, Level(l, c, r, p),
         l[c].text = DEFINE_str, c + 2 <= Len(l),
         NEW macro, macro = [type |-> "macro", text |-> l[c + 1].text,
                             expr |-> <<Body(l[c + 2])>>]
  PROVE  /\ Unlinked(l, c, macro) \in Seq(Listed)
         /\ c < Len(l) - 2 => Level(Unlinked(l, c, macro), c + 1, r, p + 3)
         /\ ~(c < Len(l) - 2) => Rendered(Unlinked(l, c, macro), r)
<1> DEFINE s == After(r)[p - 1]
           u == After(r)[p]
           w == After(r)[p + 2]
           m == Unlinked(l, c, macro)
           name == r[p + 1].text
           body == Body(r[p + 2])
<1>0. /\ Len(l) \in Nat /\ Len(r) \in Nat /\ c \in Nat \ {0} /\ p \in Nat \ {0}
      /\ c <= Len(l) /\ p <= Len(r) /\ l[c] = r[p] /\ r[p] \in Raw
      /\ s \in ReadingState /\ u = ReadToken(r, s, p)
  BY LevelIs
<1>1. /\ s.skip = 0 /\ s.cut = FALSE /\ Known(l, c - 1, s.names)
      /\ s.lines = FlattenSeq(Pieces(l, c - 1)) /\ Len(l) - c = Len(r) - p
  BY DEF Level
<1> HIDE DEF s, u
<1>2. p \in 1 .. Len(r) /\ r[p].text = DEFINE_str /\ p + 2 <= Len(r)
  BY <1>0, <1>1
<1>3. u.skip = 2 /\ u.names = Learn(s.names, name, body) /\ u.lines = s.lines /\ u.cut = s.cut
  <2>1. \A q \in 1 .. Len(r), x \in ReadingState :
           x.skip = 0 /\ r[q].text = DEFINE_str /\ q + 2 <= Len(r) =>
             /\ ReadToken(r, x, q).skip = 2 /\ ReadToken(r, x, q).lines = x.lines
             /\ ReadToken(r, x, q).cut = x.cut
             /\ ReadToken(r, x, q).names = Learn(x.names, r[q + 1].text, Body(r[q + 2]))
    BY ReadsName
  <2>2. QED
    BY <1>0, <1>1, <1>2, <2>1
<1>4. w.skip = 0 /\ w.names = u.names /\ w.lines = u.lines /\ w.cut = u.cut
  <2>1. p < Len(r) /\ p + 1 \in 1 .. Len(r) /\ p + 1 < Len(r) /\ (p + 1) + 1 = p + 2
    BY <1>0, <1>2
  <2>2. /\ After(r)[p + 1].skip = 1 /\ After(r)[p + 1].names = u.names
        /\ After(r)[p + 1].lines = u.lines /\ After(r)[p + 1].cut = u.cut
    BY <1>2, <1>3, <2>1, ReadOver DEF u
  <2>3. /\ w.skip = After(r)[p + 1].skip - 1 /\ w.names = After(r)[p + 1].names
        /\ w.lines = After(r)[p + 1].lines /\ w.cut = After(r)[p + 1].cut
    BY <2>1, <2>2, ReadOver
  <2>4. QED
    BY <2>2, <2>3
<1> HIDE DEF w
<1>5. l[c + 1] = r[p + 1] /\ l[c + 2] = r[p + 2]
  <2>1. 1 \in 0 .. Len(l) - c /\ 2 \in 0 .. Len(l) - c
    BY <1>0
  <2>2. QED
    BY <2>1 DEF Level
<1>6. r[p + 1] \in Raw /\ r[p + 2] \in Raw
  BY <1>0, <1>2
<1>7. name \in Text /\ name # << >> /\ body \in Text
  <2>1. r[p + 2] \in FreshToken
    BY <1>6 DEF Raw, FreshToken
  <2>2. QED
    BY <1>6, <2>1, BodyType DEF Raw, Token
<1>8. macro.type = "macro" /\ macro.text = name /\ macro.expr = <<body>>
  BY <1>5
<1>9. macro \in Listed
  <2>1. <<body>> \in Seq(Text)
    BY <1>7
  <2>2. macro = [type |-> "macro", text |-> name, expr |-> <<body>>]
    BY <1>5
  <2> HIDE DEF name, body
  <2>3. QED
    BY <1>7, <2>1, <2>2 DEF Listed, Token
<1>10. /\ m \in Seq(Listed) /\ Len(m) = Len(l) - 2
       /\ (\A i \in 1 .. c - 1 : m[i] = l[i]) /\ m[c] = macro
       /\ \A i \in c + 1 .. Len(l) - 2 : m[i] = l[i + 2]
  <2> HIDE DEF name, body
  <2>1. Len(l) \in Nat /\ c \in Nat \ {0} /\ c + 2 <= Len(l)
    BY <1>0
  <2>2. QED
    BY ONLY <1>9, <2>1, l \in Seq(Listed), UnlinkedIs DEF m
<1> HIDE DEF m, name, body
<1>11. Same(l, m, c - 1) /\ c - 1 \in Nat
  BY <1>0, <1>10 DEF Same
<1>12. Known(m, c - 1, s.names)
  BY <1>1, <1>11, SameKnown
<1>13. Known(m, c, w.names)
  <2>1. s.names \in Dictionary
    BY <1>0 DEF ReadingState
  <2>2. Known(m, c, Learn(s.names, name, body))
    BY <1>0, <1>7, <1>8, <1>10, <1>12, <2>1, KnownMacro
  <2>3. QED
    BY <1>3, <1>4, <2>2
<1>14. w.lines = FlattenSeq(Pieces(m, c))
  <2>1. Pieces(m, c - 1) = Pieces(l, c - 1)
    BY <1>11, SamePieces
  <2>2. c \in 1 .. Len(m)
    BY <1>0, <1>10
  <2>3. FlattenSeq(Pieces(m, c)) = s.lines \o << >>
    BY <1>1, <1>8, <1>10, <2>1, <2>2, PiecesStep DEF Piece
  <2>4. s.lines \in Seq(Text)
    BY <1>0 DEF ReadingState
  <2>5. QED
    BY <1>3, <1>4, <2>3, <2>4
<1>15. CASE c < Len(l) - 2
  <2>1. /\ c + 1 \in 1 .. Len(m) /\ p + 3 \in 1 .. Len(r)
        /\ Len(m) - (c + 1) = Len(r) - (p + 3)
    BY <1>0, <1>1, <1>10, <1>15
  <2>2. (p + 3) - 1 = p + 2 /\ (c + 1) - 1 = c
    BY <1>0
  <2>3. ASSUME NEW i \in 0 .. Len(m) - (c + 1)
        PROVE  m[(c + 1) + i] = r[(p + 3) + i]
    <3>1. /\ (c + 1) + i \in c + 1 .. Len(l) - 2 /\ ((c + 1) + i) + 2 = c + (i + 3)
          /\ i + 3 \in 0 .. Len(l) - c /\ (p + 3) + i = p + (i + 3)
      BY <1>0, <1>10
    <3>2. l[c + (i + 3)] = r[p + (i + 3)]
      BY <3>1 DEF Level
    <3>3. m[(c + 1) + i] = l[((c + 1) + i) + 2]
      BY <1>10, <3>1
    <3>4. QED
      BY <3>1, <3>2, <3>3
  <2>4. Level(m, c + 1, r, p + 3)
    BY <1>1, <1>3, <1>4, <1>13, <1>14, <2>1, <2>2, <2>3 DEF Level, w
  <2>5. QED
    BY <1>10, <1>15, <2>4 DEF m
<1>16. CASE ~(c < Len(l) - 2)
  <2>1. Len(m) = c /\ p + 2 = Len(r)
    BY <1>0, <1>1, <1>10, <1>16
  <2>2. Rendered(m, r)
    BY <1>1, <1>3, <1>4, <1>14, <2>1 DEF Rendered, Meaning, w
  <2>3. QED
    BY <1>10, <1>16, <2>2 DEF m
<1>17. QED
  BY <1>15, <1>16

-----------------------------------------------------------------------------
(* The expressions after Process_String, Eval_Immediates, Preserve_Other.  *)

Stringed(l) ==
  \A j \in 1 .. Len(l) : l[j].type # "macro" =>
    IF l[j].type = "string" \/ Named(l, j - 1, l[j].text) # {}
      THEN l[j].expr = <<Final(l, j)>> ELSE l[j].expr = NULL

Evaluated(l) ==
  \A j \in 1 .. Len(l) : l[j].type # "macro" =>
    IF l[j].type = "string" \/ Named(l, j - 1, l[j].text) # {} \/ Immediate(l[j].text)
      THEN l[j].expr = <<Final(l, j)>> ELSE l[j].expr = NULL

Preserved(l) ==
  \A j \in 1 .. Len(l) : l[j].type # "macro" => l[j].expr = <<Final(l, j)>>

(* A pass over the list that leaves macros, types and texts alone. *)
LEMMA PassKeeps ==
  ASSUME NEW l \in Seq(Listed), NEW m, m = [j \in DOMAIN l |-> m[j]],
         \A j \in DOMAIN l : /\ m[j] \in Listed
                             /\ m[j].type = l[j].type /\ m[j].text = l[j].text
                             /\ l[j].type = "macro" => m[j] = l[j]
  PROVE  /\ m \in Seq(Listed) /\ Len(m) = Len(l)
         /\ \A j \in 1 .. Len(l) :
              /\ Final(m, j) = Final(l, j)
              /\ \A t : Named(m, j - 1, t) = Named(l, j - 1, t)
         /\ \A r : Rendered(l, r) => Rendered(m, r)
<1>0. DOMAIN l = 1 .. Len(l) /\ Len(l) \in Nat
  OBVIOUS
<1>1. m \in Seq(Listed) /\ Len(m) = Len(l)
  BY <1>0
<1>2. Same(l, m, Len(l))
  BY <1>0 DEF Same
<1>3. ASSUME NEW j \in 1 .. Len(l)
      PROVE  /\ Final(m, j) = Final(l, j)
             /\ \A t : Named(m, j - 1, t) = Named(l, j - 1, t)
  <2>1. j \in Nat \ {0} /\ j - 1 \in Nat /\ Same(l, m, j) /\ Same(l, m, j - 1)
    BY <1>0, <1>2 DEF Same
  <2>2. QED
    BY <2>1, SamePiece, SameNamed
<1>4. ASSUME NEW r, Rendered(l, r) PROVE Rendered(m, r)
  BY <1>0, <1>1, <1>2, <1>4, SamePieces DEF Rendered
<1>5. QED
  BY <1>1, <1>3, <1>4

(* What the passes make of a token. *)
LEMMA TokenPasses ==
  ASSUME NEW t \in Listed
  PROVE  /\ StringOf(t) \in Listed /\ ImmediateOf(t) \in Listed /\ OtherOf(t) \in Listed
         /\ StringOf(t).type = t.type /\ StringOf(t).text = t.text
         /\ ImmediateOf(t).type = t.type /\ ImmediateOf(t).text = t.text
         /\ OtherOf(t).type = t.type /\ OtherOf(t).text = t.text
         /\ t.type = "macro" => StringOf(t) = t /\ ImmediateOf(t) = t /\ OtherOf(t) = t
         /\ t.type = "string" => StringOf(t).expr = <<StringText(t.text)>>
         /\ t.type # "string" => StringOf(t) = t
         /\ Unclaimed(t) /\ Immediate(t.text) =>
              ImmediateOf(t).expr =
                <<ExpressNumber(NumerateString(Tail(t.text)), t.text[1])>>
         /\ ~(Unclaimed(t) /\ Immediate(t.text)) => ImmediateOf(t) = t
         /\ Unclaimed(t) => OtherOf(t).expr = <<t.text>>
         /\ ~Unclaimed(t) => OtherOf(t) = t
<1>1. t \in Solid
  BY DEF Listed, Solid
<1>2. StringOf(t) \in Token /\ ImmediateOf(t) \in Token /\ OtherOf(t) \in Token
  BY <1>1, PassTypes DEF Solid
<1>3. ASSUME NEW e
      PROVE  /\ [t EXCEPT !.expr = e].type = t.type /\ [t EXCEPT !.expr = e].text = t.text
             /\ [t EXCEPT !.expr = e].expr = e
  BY DEF Listed, Token
<1>4. /\ StringOf(t).type = t.type /\ StringOf(t).text = t.text
      /\ t.type = "string" => StringOf(t).expr = <<StringText(t.text)>>
      /\ t.type # "string" => StringOf(t) = t
  BY <1>3 DEF StringOf
<1>5. /\ ImmediateOf(t).type = t.type /\ ImmediateOf(t).text = t.text
      /\ Unclaimed(t) /\ Immediate(t.text) =>
           ImmediateOf(t).expr =
             <<ExpressNumber(NumerateString(Tail(t.text)), t.text[1])>>
      /\ ~(Unclaimed(t) /\ Immediate(t.text)) => ImmediateOf(t) = t
  BY <1>3 DEF ImmediateOf
<1>6. /\ OtherOf(t).type = t.type /\ OtherOf(t).text = t.text
      /\ Unclaimed(t) => OtherOf(t).expr = <<t.text>>
      /\ ~Unclaimed(t) => OtherOf(t) = t
  BY <1>3 DEF OtherOf
<1>7. t.type = "macro" => StringOf(t) = t /\ ImmediateOf(t) = t /\ OtherOf(t) = t
  BY <1>4, <1>5, <1>6 DEF Unclaimed
<1>8. StringOf(t) \in Listed /\ ImmediateOf(t) \in Listed /\ OtherOf(t) \in Listed
  BY <1>2, <1>4, <1>5, <1>6, <1>7 DEF Listed
<1>9. QED
  BY <1>4, <1>5, <1>6, <1>7, <1>8

(* The macros' scope, by the last of them. *)
LEMMA ScopeNamed ==
  ASSUME NEW l \in Seq(Listed), Scope(l, Len(l)), NEW j \in 1 .. Len(l),
         l[j].type # "macro"
  PROVE  IF Named(l, j - 1, l[j].text) # {}
           THEN l[j].expr = <<l[Max(Named(l, j - 1, l[j].text))].expr[1]>>
           ELSE l[j].expr = NULL
<1> DEFINE text == l[j].text
           n == Len(l)
<1>0. n \in Nat /\ j \in Nat /\ j - 1 \in Nat /\ j <= n
  OBVIOUS
<1>1. \A k \in 1 .. n : Defines(l, k, j) <=> k \in Named(l, j - 1, text)
  BY <1>0 DEF Defines, Named
<1>2. IF \E k \in 1 .. n : Defines(l, k, j)
        THEN \E k \in 1 .. n : /\ Defines(l, k, j)
                               /\ \A m \in k + 1 .. n : ~Defines(l, m, j)
                               /\ l[j].expr = l[k].expr
        ELSE l[j].expr = NULL
  BY DEF Scope
<1>3. CASE Named(l, j - 1, text) # {}
  <2> DEFINE z == Max(Named(l, j - 1, text))
  <2>1. z \in 1 .. j - 1 /\ l[z].type = "macro" /\ l[z].text = text
        /\ \A k \in Named(l, j - 1, text) : k <= z
    BY <1>0, <1>3, LastNamed
  <2> HIDE DEF z
  <2>2. z \in 1 .. n /\ z \in Named(l, j - 1, text) /\ Defines(l, z, j)
    <3>1. z \in 1 .. n /\ z \in Named(l, j - 1, text)
      BY <1>0, <2>1 DEF Named
    <3>2. QED
      BY <1>1, <3>1
  <2>3. PICK k \in 1 .. n : /\ Defines(l, k, j)
                            /\ \A m \in k + 1 .. n : ~Defines(l, m, j)
                            /\ l[j].expr = l[k].expr
    BY <1>2, <2>2
  <2>4. k <= z /\ ~(k < z)
    <3>1. k \in Named(l, j - 1, text)
      BY <1>1, <2>3
    <3>2. k < z => z \in k + 1 .. n
      BY <1>0, <2>2
    <3>3. QED
      BY <2>1, <2>2, <2>3, <3>1, <3>2
  <2>5. k = z
    BY <2>2, <2>4
  <2>6. PICK b \in Text : l[z].expr = <<b>>
    <3>1. l[z] \in Listed
      BY <2>2
    <3>2. QED
      BY <2>1, <3>1 DEF Listed
  <2>7. l[j].expr = <<l[z].expr[1]>>
    BY <2>3, <2>5, <2>6
  <2>8. QED
    BY <1>3, <2>7 DEF z
<1>4. CASE Named(l, j - 1, text) = {}
  BY <1>1, <1>2, <1>4
<1>5. QED
  BY <1>3, <1>4

LEMMA StringPass ==
  ASSUME NEW l \in Seq(Listed), Scope(l, Len(l)), NEW m, m = [j \in DOMAIN l |-> StringOf(l[j])]
  PROVE  m \in Seq(Listed) /\ Stringed(m) /\ \A r : Rendered(l, r) => Rendered(m, r)
<1>0. DOMAIN l = 1 .. Len(l) /\ Len(l) \in Nat /\ \A j \in 1 .. Len(l) : l[j] \in Listed
  OBVIOUS
<1>1. \A j \in DOMAIN l : m[j] = StringOf(l[j])
  OBVIOUS
<1>2. m = [j \in DOMAIN l |-> m[j]]
  OBVIOUS
<1>3. \A j \in DOMAIN l : /\ m[j] \in Listed
                          /\ m[j].type = l[j].type /\ m[j].text = l[j].text
                          /\ l[j].type = "macro" => m[j] = l[j]
  BY <1>0, <1>1, TokenPasses
<1>4. /\ m \in Seq(Listed) /\ Len(m) = Len(l)
      /\ \A j \in 1 .. Len(l) :
           /\ Final(m, j) = Final(l, j)
           /\ \A t : Named(m, j - 1, t) = Named(l, j - 1, t)
      /\ \A r : Rendered(l, r) => Rendered(m, r)
  BY ONLY l \in Seq(Listed), <1>2, <1>3, PassKeeps
<1>5. ASSUME NEW j \in 1 .. Len(m), m[j].type # "macro"
      PROVE  IF m[j].type = "string" \/ Named(m, j - 1, m[j].text) # {}
               THEN m[j].expr = <<Final(m, j)>> ELSE m[j].expr = NULL
  <2>1. /\ j \in 1 .. Len(l) /\ l[j] \in Listed /\ m[j] = StringOf(l[j])
        /\ m[j].type = l[j].type /\ m[j].text = l[j].text
        /\ Final(m, j) = Final(l, j)
        /\ Named(m, j - 1, m[j].text) = Named(l, j - 1, l[j].text)
    BY <1>0, <1>1, <1>3, <1>4
  <2>2. CASE l[j].type = "string"
    <3>1. m[j].expr = <<StringText(l[j].text)>>
      BY <2>1, <2>2, TokenPasses
    <3>2. Final(l, j) = StringText(l[j].text)
      BY <2>2 DEF Final
    <3>3. QED
      BY <2>1, <2>2, <3>1, <3>2
  <2>3. CASE l[j].type # "string"
    <3>1. m[j] = l[j]
      BY <2>1, <2>3, TokenPasses
    <3>2. IF Named(l, j - 1, l[j].text) # {}
            THEN l[j].expr = <<l[Max(Named(l, j - 1, l[j].text))].expr[1]>>
            ELSE l[j].expr = NULL
      BY <1>5, <2>1, ScopeNamed
    <3>3. QED
      BY <2>1, <2>3, <3>1, <3>2 DEF Final
  <2>4. QED
    BY <2>2, <2>3
<1>6. QED
  BY <1>4, <1>5 DEF Stringed

LEMMA ImmediatePass ==
  ASSUME NEW l \in Seq(Listed), Stringed(l), NEW m, m = [j \in DOMAIN l |-> ImmediateOf(l[j])]
  PROVE  m \in Seq(Listed) /\ Evaluated(m) /\ \A r : Rendered(l, r) => Rendered(m, r)
<1>0. DOMAIN l = 1 .. Len(l) /\ Len(l) \in Nat /\ \A j \in 1 .. Len(l) : l[j] \in Listed
  OBVIOUS
<1>1. \A j \in DOMAIN l : m[j] = ImmediateOf(l[j])
  OBVIOUS
<1>2. m = [j \in DOMAIN l |-> m[j]]
  OBVIOUS
<1>3. \A j \in DOMAIN l : /\ m[j] \in Listed
                          /\ m[j].type = l[j].type /\ m[j].text = l[j].text
                          /\ l[j].type = "macro" => m[j] = l[j]
  BY <1>0, <1>1, TokenPasses
<1>4. /\ m \in Seq(Listed) /\ Len(m) = Len(l)
      /\ \A j \in 1 .. Len(l) :
           /\ Final(m, j) = Final(l, j)
           /\ \A t : Named(m, j - 1, t) = Named(l, j - 1, t)
      /\ \A r : Rendered(l, r) => Rendered(m, r)
  BY ONLY l \in Seq(Listed), <1>2, <1>3, PassKeeps
<1>5. ASSUME NEW j \in 1 .. Len(m), m[j].type # "macro"
      PROVE  IF \/ m[j].type = "string" \/ Named(m, j - 1, m[j].text) # {}
                \/ Immediate(m[j].text)
               THEN m[j].expr = <<Final(m, j)>> ELSE m[j].expr = NULL
  <2>1. /\ j \in 1 .. Len(l) /\ l[j] \in Listed /\ m[j] = ImmediateOf(l[j])
        /\ m[j].type = l[j].type /\ m[j].text = l[j].text
        /\ Final(m, j) = Final(l, j)
        /\ Named(m, j - 1, m[j].text) = Named(l, j - 1, l[j].text)
    BY <1>0, <1>1, <1>3, <1>4
  <2>2. CASE l[j].type = "string" \/ Named(l, j - 1, l[j].text) # {}
    <3>1. l[j].expr = <<Final(l, j)>>
      BY <1>5, <2>1, <2>2 DEF Stringed
    <3>2. ~Unclaimed(l[j])
      BY <3>1 DEF Unclaimed, NULL
    <3>3. m[j] = l[j]
      BY <2>1, <3>2, TokenPasses
    <3>4. QED
      BY <2>1, <2>2, <3>1, <3>3
  <2>3. CASE ~(l[j].type = "string" \/ Named(l, j - 1, l[j].text) # {})
    <3>1. l[j].expr = NULL /\ Unclaimed(l[j])
      BY <1>5, <2>1, <2>3 DEF Stringed, Unclaimed
    <3>2. CASE Immediate(l[j].text)
      <4>1. m[j].expr = <<ExpressNumber(NumerateString(Tail(l[j].text)), l[j].text[1])>>
        BY <2>1, <3>1, <3>2, TokenPasses
      <4>2. Final(l, j) = ExpressNumber(NumerateString(Tail(l[j].text)), l[j].text[1])
        BY <2>3, <3>2 DEF Final
      <4>3. QED
        BY <2>1, <3>2, <4>1, <4>2
    <3>3. CASE ~Immediate(l[j].text)
      <4>1. m[j] = l[j]
        BY <2>1, <3>3, TokenPasses
      <4>2. QED
        BY <2>1, <2>3, <3>1, <3>3, <4>1
    <3>4. QED
      BY <3>2, <3>3
  <2>4. QED
    BY <2>2, <2>3
<1>6. QED
  BY <1>4, <1>5 DEF Evaluated

LEMMA OtherPass ==
  ASSUME NEW l \in Seq(Listed), Evaluated(l), NEW m, m = [j \in DOMAIN l |-> OtherOf(l[j])]
  PROVE  m \in Seq(Listed) /\ Preserved(m) /\ \A r : Rendered(l, r) => Rendered(m, r)
<1>0. DOMAIN l = 1 .. Len(l) /\ Len(l) \in Nat /\ \A j \in 1 .. Len(l) : l[j] \in Listed
  OBVIOUS
<1>1. \A j \in DOMAIN l : m[j] = OtherOf(l[j])
  OBVIOUS
<1>2. m = [j \in DOMAIN l |-> m[j]]
  OBVIOUS
<1>3. \A j \in DOMAIN l : /\ m[j] \in Listed
                          /\ m[j].type = l[j].type /\ m[j].text = l[j].text
                          /\ l[j].type = "macro" => m[j] = l[j]
  BY <1>0, <1>1, TokenPasses
<1>4. /\ m \in Seq(Listed) /\ Len(m) = Len(l)
      /\ \A j \in 1 .. Len(l) :
           /\ Final(m, j) = Final(l, j)
           /\ \A t : Named(m, j - 1, t) = Named(l, j - 1, t)
      /\ \A r : Rendered(l, r) => Rendered(m, r)
  BY ONLY l \in Seq(Listed), <1>2, <1>3, PassKeeps
<1>5. ASSUME NEW j \in 1 .. Len(m), m[j].type # "macro"
      PROVE  m[j].expr = <<Final(m, j)>>
  <2>1. /\ j \in 1 .. Len(l) /\ l[j] \in Listed /\ m[j] = OtherOf(l[j])
        /\ m[j].type = l[j].type /\ Final(m, j) = Final(l, j)
    BY <1>0, <1>1, <1>3, <1>4
  <2>2. CASE \/ l[j].type = "string" \/ Named(l, j - 1, l[j].text) # {}
             \/ Immediate(l[j].text)
    <3>1. l[j].expr = <<Final(l, j)>>
      BY <1>5, <2>1, <2>2 DEF Evaluated
    <3>2. ~Unclaimed(l[j])
      BY <3>1 DEF Unclaimed, NULL
    <3>3. m[j] = l[j]
      BY <2>1, <3>2, TokenPasses
    <3>4. QED
      BY <2>1, <3>1, <3>3
  <2>3. CASE ~(\/ l[j].type = "string" \/ Named(l, j - 1, l[j].text) # {}
               \/ Immediate(l[j].text))
    <3>1. Unclaimed(l[j])
      BY <1>5, <2>1, <2>3 DEF Evaluated, Unclaimed
    <3>2. m[j].expr = <<l[j].text>>
      BY <2>1, <3>1, TokenPasses
    <3>3. Final(l, j) = l[j].text
      BY <2>3 DEF Final
    <3>4. QED
      BY <2>1, <3>2, <3>3
  <2>4. QED
    BY <2>2, <2>3
<1>6. QED
  BY <1>4, <1>5 DEF Preserved

(* What Print_Hex writes of the list. *)
LEMMA PrintPass ==
  ASSUME NEW l \in Seq(Listed), Preserved(l), NEW r, Rendered(l, r)
  PROVE  Meaning(r).lines =
           FlattenSeq([j \in DOMAIN l |-> IF l[j].type = "macro" THEN << >> ELSE l[j].expr])
<1>1. DOMAIN l = 1 .. Len(l)
  OBVIOUS
<1>2. \A j \in 1 .. Len(l) :
        (IF l[j].type = "macro" THEN << >> ELSE l[j].expr) = Piece(l, j)
  BY DEF Preserved, Piece
<1>3. [j \in DOMAIN l |-> IF l[j].type = "macro" THEN << >> ELSE l[j].expr]
        = Pieces(l, Len(l))
  BY <1>1, <1>2 DEF Pieces
<1>4. QED
  BY <1>3 DEF Rendered

-----------------------------------------------------------------------------
(* The inductive invariant. *)

Unread   == {"tokenize", "reverse"}
Applying == {"line", "string", "eval", "preserve", "print"}

RInv ==
  /\ TInv
  /\ pc \in Unread => list \in Seq(Raw) /\ read = << >> /\ out = << >>
  /\ pc \in Passes => list \in Seq(Listed) /\ read \in Seq(Raw)
  /\ pc = "identify" => \E p \in Nat : Level(list, cur, read, p)
  /\ pc \in Applying => Rendered(list, read)
  /\ pc = "eval" => Stringed(list)
  /\ pc = "preserve" => Evaluated(list)
  /\ pc = "print" => Preserved(list)
  /\ pc = "exit" => list \in Seq(Listed) /\ Preserved(list)
  /\ OneReading

LEMMA NothingRead == Meaning(<< >>).lines = << >> /\ Meaning(<< >>).cut = FALSE
<1>1. Len(<< >>) = 0 /\ 0 \in 0 .. 0 /\ Len(<< >>) \in Nat
  OBVIOUS
<1>2. After(<< >>)[0] = Start
  BY <1>1, AfterIs
<1>3. QED
  BY <1>1, <1>2 DEF Meaning, Start

LEMMA RawIsListed == \A l \in Seq(Raw) : l \in Seq(Listed)
BY DEF Raw, Listed

(* Before anything of r is read. *)
LEMMA LevelFirst ==
  ASSUME NEW r \in Seq(Raw), Len(r) > 0
  PROVE  Level(r, 1, r, 1)
<1>1. /\ Len(r) \in Nat /\ 1 \in 1 .. Len(r) /\ 1 - 1 = 0 /\ 0 \in 0 .. Len(r)
      /\ Len(r) - 1 = Len(r) - 1
  OBVIOUS
<1>2. After(r)[0] = Start
  BY <1>1, AfterIs
<1>3. FlattenSeq(Pieces(r, 0)) = << >>
  BY DEF Pieces, FlattenSeq
<1>4. Known(r, 0, << >>)
  <2>1. \A t : Named(r, 0, t) = {}
    BY DEF Named
  <2>2. DOMAIN << >> = {}
    OBVIOUS
  <2>3. QED
    BY <2>1, <2>2 DEF Known
<1>5. QED
  BY <1>1, <1>2, <1>3, <1>4 DEF Level, Start

LEMMA InitReads == Init => RInv
<1> SUFFICES ASSUME Init PROVE RInv
  OBVIOUS
<1>1. << >> \in Seq(Raw)
  OBVIOUS
<1>2. QED
  BY <1>1, InitTypes DEF Init, RInv, Unread, Applying, Passes, OneReading

LEMMA NextReads == RInv /\ [Next]_vars => RInv'
<1> SUFFICES ASSUME RInv, [Next]_vars PROVE RInv'
  OBVIOUS
<1>0. TInv /\ IInv /\ source \in Text /\ Len(source) \in Nat /\ cur \in Nat \ {0}
  BY DEF RInv, TInv, IInv, Text
<1>i. TInv'
  BY NextTypes DEF RInv
<1>1. ASSUME list' \in Seq(Raw), pc' \in Unread, read' = << >>, out' = << >>
      PROVE  RInv'
  BY <1>1, <1>i DEF RInv, Unread, Applying, Passes, OneReading
<1>2. CASE SkipBlank \/ SkipComment
  <2>1. pc = "tokenize" /\ UNCHANGED <<pc, list, out, read>>
    BY <1>2 DEF SkipBlank, SkipComment, Reading
  <2>2. QED
    BY <1>1, <2>1 DEF RInv, Unread
<1>3. ASSUME NEW type \in {"other", "string"}, NEW S, Reading,
             Put(type, Find(pos + 1, S)), UNCHANGED <<pc, out, read>>
      PROVE  RInv'
  <2>1. pc = "tokenize" /\ list \in Seq(Raw) /\ pos <= Len(source)
        /\ read = << >> /\ out = << >> /\ pos \in Nat \ {0}
    BY <1>0, <1>3 DEF Reading, RInv, Unread, TInv, IInv
  <2> DEFINE end == Find(pos + 1, S)
             text == SubSeq(source, pos, end - 1)
             token == [type |-> type, text |-> text, expr |-> NULL]
  <2>2. end \in pos + 1 .. Len(source) + 1
    BY <1>0, <2>1, FindType
  <2>3. text \in Text /\ text # << >>
    <3> HIDE DEF end
    <3>1. QED
      BY <1>0, <2>1, <2>2 DEF Text
  <2>4. token \in Raw
    <3> HIDE DEF text
    <3>1. QED
      BY <2>3 DEF Raw, Token
  <2>5. list' = <<token>> \o list
    BY <1>3 DEF Put
  <2> HIDE DEF token
  <2>6. list' \in Seq(Raw)
    BY <2>1, <2>4, <2>5
  <2>7. QED
    BY <1>1, <1>3, <2>1, <2>6 DEF Unread
<1>4. CASE StoreAtom
  BY <1>3, <1>4 DEF StoreAtom
<1>5. CASE StoreString
  BY <1>3, <1>5 DEF StoreString
<1>6. CASE EndOfFile
  <2>1. pc = "tokenize" /\ UNCHANGED <<list, out, read>>
    BY <1>6 DEF EndOfFile
  <2>2. list \in Seq(Raw) /\ read = << >> /\ out = << >>
    BY <2>1 DEF RInv, Unread
  <2>3. CASE list = << >>
    <3>1. pc' = "exit"
      BY <1>6, <2>3 DEF EndOfFile
    <3>2. list' \in Seq(Listed) /\ Preserved(list')
      <4>1. << >> \in Seq(Listed) /\ Len(<< >>) = 0 /\ 1 .. 0 = {}
        OBVIOUS
      <4>2. Preserved(<< >>)
        BY <4>1 DEF Preserved
      <4>3. QED
        BY <2>1, <2>3, <4>1, <4>2
    <3>3. QED
      BY <1>i, <2>1, <2>2, <3>1, <3>2, NothingRead
         DEF RInv, Unread, Applying, Passes, OneReading
  <2>4. CASE list # << >>
    <3>1. pc' = "reverse"
      BY <1>6, <2>4 DEF EndOfFile
    <3>2. QED
      BY <1>1, <2>1, <2>2, <3>1 DEF Unread
  <2>5. QED
    BY <2>3, <2>4
<1>7. CASE ReverseList
  <2>1. pc = "reverse" /\ list \in Seq(Raw) /\ Len(list) > 0
    BY <1>0, <1>7 DEF ReverseList, RInv, Unread, IInv
  <2>2. Reverse(list) \in Seq(Raw) /\ Len(Reverse(list)) > 0
    BY <2>1 DEF Reverse
  <2>3. PICK r \in Seq(Raw) : r = Reverse(list) /\ Len(r) > 0
    BY <2>2
  <2>4. Level(r, 1, r, 1) /\ r \in Seq(Listed)
    BY <2>3, LevelFirst, RawIsListed
  <2>5. list' = r /\ read' = r /\ cur' = 1 /\ pc' = "identify"
    BY <1>7, <2>3 DEF ReverseList
  <2>6. \E p \in Nat : Level(list', cur', read', p)
    BY <2>4, <2>5
  <2>7. QED
    BY <1>i, <2>3, <2>4, <2>5, <2>6 DEF RInv, Unread, Applying, Passes, OneReading
<1>8. ASSUME NEW l \in Seq(Listed), NEW c, NEW r \in Seq(Raw), NEW q \in Nat,
             list' = l, cur' = c, read' = r, pc' = "identify", Level(l, c, r, q)
      PROVE  RInv'
  BY <1>8, <1>i DEF RInv, Unread, Applying, Passes, OneReading
<1>9. ASSUME NEW l \in Seq(Listed), NEW r \in Seq(Raw),
             list' = l, read' = r, pc' \in {"line", "string"}, Rendered(l, r)
      PROVE  RInv'
  BY <1>9, <1>i DEF RInv, Unread, Applying, Passes, OneReading
<1>10. CASE IdentifyOther
  <2>1. pc = "identify" /\ list[cur].text # DEFINE_str /\ UNCHANGED <<list, read>>
    BY <1>10 DEF IdentifyOther
  <2>2. PICK l \in Seq(Listed) : l = list
    BY <2>1 DEF RInv, Passes
  <2>3. PICK r \in Seq(Raw) : r = read
    BY <2>1 DEF RInv, Passes
  <2>4. PICK p \in Nat : Level(list, cur, read, p)
    BY <2>1 DEF RInv
  <2>5. PICK c \in Nat \ {0} : c = cur
    BY <1>0
  <2>6. /\ c < Len(l) => Level(l, c + 1, r, p + 1)
        /\ ~(c < Len(l)) => Rendered(l, r)
    BY <2>1, <2>2, <2>3, <2>4, <2>5, LevelOther
  <2>7. CASE c < Len(l)
    <3>1. cur' = c + 1 /\ pc' = "identify" /\ p + 1 \in Nat
      BY <1>10, <2>1, <2>2, <2>5, <2>7 DEF IdentifyOther, Step
    <3>2. QED
      BY <1>8, <2>1, <2>2, <2>3, <2>6, <2>7, <3>1
  <2>8. CASE ~(c < Len(l))
    <3>1. pc' = "line"
      BY <1>10, <2>1, <2>2, <2>5, <2>8 DEF IdentifyOther, Step
    <3>2. QED
      BY <1>9, <2>1, <2>2, <2>3, <2>6, <2>8, <3>1
  <2>9. QED
    BY <2>7, <2>8
<1>11. CASE IdentifyMacro
  <2>1. pc = "identify" /\ list[cur].text = DEFINE_str /\ cur + 2 <= Len(list)
        /\ UNCHANGED read /\ Step(Len(list) - 2, "line")
    BY <1>11 DEF IdentifyMacro
  <2>2. PICK l \in Seq(Listed) : l = list
    BY <2>1 DEF RInv, Passes
  <2>3. PICK r \in Seq(Raw) : r = read
    BY <2>1 DEF RInv, Passes
  <2>4. PICK p \in Nat : Level(list, cur, read, p)
    BY <2>1 DEF RInv
  <2>5. PICK c \in Nat \ {0} : c = cur
    BY <1>0
  <2>6. PICK macro : macro = [type |-> "macro", text |-> l[c + 1].text,
                              expr |-> <<Body(l[c + 2])>>]
    OBVIOUS
  <2>7. /\ Unlinked(l, c, macro) \in Seq(Listed)
        /\ c < Len(l) - 2 => Level(Unlinked(l, c, macro), c + 1, r, p + 3)
        /\ ~(c < Len(l) - 2) => Rendered(Unlinked(l, c, macro), r)
    BY <2>1, <2>2, <2>3, <2>4, <2>5, <2>6, LevelMacro
  <2>8. list' = Unlinked(l, c, macro)
    BY <1>11, <2>2, <2>5, <2>6 DEF IdentifyMacro, Unlinked
  <2>9. CASE c < Len(l) - 2
    <3>1. cur' = c + 1 /\ pc' = "identify" /\ p + 3 \in Nat
      BY <2>1, <2>2, <2>5, <2>9 DEF Step
    <3>2. QED
      BY <1>8, <2>1, <2>3, <2>7, <2>8, <2>9, <3>1
  <2>10. CASE ~(c < Len(l) - 2)
    <3>1. pc' = "line"
      BY <2>1, <2>2, <2>5, <2>10 DEF Step
    <3>2. QED
      BY <1>9, <2>1, <2>3, <2>7, <2>8, <2>10, <3>1
  <2>11. QED
    BY <2>9, <2>10
<1>12. CASE Fault
  <2>1. pc = "identify" /\ list[cur].text = DEFINE_str /\ cur + 2 > Len(list)
        /\ UNCHANGED <<list, cur, read>> /\ pc' = "fault"
    BY <1>12 DEF Fault
  <2>2. PICK p \in Nat : Level(list, cur, read, p)
    BY <2>1 DEF RInv
  <2>3. list \in Seq(Listed) /\ read \in Seq(Raw)
    BY <2>1 DEF RInv, Passes
  <2>4. Meaning(read).cut = TRUE
    BY <2>1, <2>2, <2>3, LevelFault
  <2>5. QED
    BY <1>i, <2>1, <2>4 DEF RInv, Unread, Applying, Passes, OneReading
<1>13. CASE LineMacro
  <2>1. pc = "line" /\ list \in Seq(Listed) /\ read \in Seq(Raw) /\ Rendered(list, read)
        /\ cur \in 1 .. Len(list) /\ list \in Seq(Token)
    BY <1>0, <1>13 DEF LineMacro, RInv, Passes, Applying, TInv, IInv
  <2>2. PICK l \in Seq(Listed) : l = list /\ l \in Seq(Token)
    BY <2>1
  <2>3. PICK r \in Seq(Raw) : r = read
    BY <2>1
  <2>4. PICK c \in 1 .. Len(l) : c = cur
    BY <2>1, <2>2
  <2> DEFINE m == Applied(l, c)
  <2>5. /\ m \in Seq(Token) /\ Len(m) = Len(l) /\ DOMAIN m = DOMAIN l
        /\ \A j \in DOMAIN l :
             /\ m[j].type = l[j].type /\ m[j].text = l[j].text
             /\ m[j].expr = IF Defines(l, c, j) /\ l[j].type # "macro"
                              THEN l[c].expr ELSE l[j].expr
    BY <2>2, AppliedType
  <2>6. \A j \in DOMAIN l : l[j].type = "macro" => m[j] = l[j]
    BY DEF Applied
  <2>7. list' = m
    BY <1>13, <2>2, <2>4 DEF LineMacro, Applied, Claims
  <2>8. UNCHANGED read /\ pc' \in {"line", "string"}
    BY <1>13, <2>1 DEF LineMacro, Step
  <2>9. \A j \in DOMAIN l : m[j] \in Listed
    <3>1. \A j \in DOMAIN l : m[j] \in Token /\ l[j] \in Listed
      BY <2>5
    <3> HIDE DEF m
    <3>2. QED
      BY <2>5, <2>6, <3>1 DEF Listed
  <2>10. m = [j \in DOMAIN l |-> m[j]]
    BY DEF Applied
  <2> HIDE DEF m
  <2>11. m \in Seq(Listed) /\ Rendered(m, r)
    BY <2>1, <2>2, <2>3, <2>5, <2>6, <2>9, <2>10, PassKeeps
  <2>12. QED
    BY <1>9, <2>3, <2>7, <2>8, <2>11
<1>14. CASE ProcessString
  <2>1. pc = "string" /\ pc' = "eval" /\ UNCHANGED read
        /\ list' = [j \in DOMAIN list |-> StringOf(list[j])]
    BY <1>14 DEF ProcessString, Pass
  <2>2. list \in Seq(Listed) /\ read \in Seq(Raw) /\ Rendered(list, read)
        /\ Scope(list, Len(list))
    BY <1>0, <2>1 DEF RInv, Passes, Applying, IInv, MacroScope
  <2>3. list' \in Seq(Listed) /\ Stringed(list') /\ \A r : Rendered(list, r) => Rendered(list', r)
    BY <2>1, <2>2, StringPass
  <2>4. Rendered(list', read')
    BY <2>1, <2>2, <2>3
  <2>5. QED
    BY <1>i, <2>1, <2>2, <2>3, <2>4 DEF RInv, Unread, Applying, Passes, OneReading
<1>15. CASE EvalImmediates
  <2>1. pc = "eval" /\ pc' = "preserve" /\ UNCHANGED read
        /\ list' = [j \in DOMAIN list |-> ImmediateOf(list[j])]
    BY <1>15 DEF EvalImmediates, Pass
  <2>2. list \in Seq(Listed) /\ read \in Seq(Raw) /\ Rendered(list, read) /\ Stringed(list)
    BY <2>1 DEF RInv, Passes, Applying
  <2>3. list' \in Seq(Listed) /\ Evaluated(list')
        /\ \A r : Rendered(list, r) => Rendered(list', r)
    BY <2>1, <2>2, ImmediatePass
  <2>4. Rendered(list', read')
    BY <2>1, <2>2, <2>3
  <2>5. QED
    BY <1>i, <2>1, <2>2, <2>3, <2>4 DEF RInv, Unread, Applying, Passes, OneReading
<1>16. CASE PreserveOther
  <2>1. pc = "preserve" /\ pc' = "print" /\ UNCHANGED read
        /\ list' = [j \in DOMAIN list |-> OtherOf(list[j])]
    BY <1>16 DEF PreserveOther, Pass
  <2>2. list \in Seq(Listed) /\ read \in Seq(Raw) /\ Rendered(list, read) /\ Evaluated(list)
    BY <2>1 DEF RInv, Passes, Applying
  <2>3. list' \in Seq(Listed) /\ Preserved(list')
        /\ \A r : Rendered(list, r) => Rendered(list', r)
    BY <2>1, <2>2, OtherPass
  <2>4. Rendered(list', read')
    BY <2>1, <2>2, <2>3
  <2>5. QED
    BY <1>i, <2>1, <2>2, <2>3, <2>4 DEF RInv, Unread, Applying, Passes, OneReading
<1>17. CASE PrintHex
  <2>1. pc = "print" /\ pc' = "exit" /\ UNCHANGED <<read, list>>
        /\ out' = FlattenSeq([j \in DOMAIN list |->
                    IF list[j].type = "macro" THEN << >> ELSE list[j].expr])
    BY <1>17 DEF PrintHex
  <2>2. list \in Seq(Listed) /\ Rendered(list, read) /\ Preserved(list)
    BY <2>1 DEF RInv, Passes, Applying
  <2>3. out' = Meaning(read).lines /\ Meaning(read).cut = FALSE
    BY <2>1, <2>2, PrintPass DEF Rendered
  <2>4. OneReading'
    BY <2>1, <2>3 DEF OneReading
  <2>5. QED
    BY <1>i, <2>1, <2>2, <2>4 DEF RInv, Unread, Applying, Passes
<1>18. CASE UNCHANGED vars
  BY <1>18, <1>i DEF vars, RInv, OneReading
<1>19. QED
  BY <1>2, <1>4, <1>5, <1>6, <1>7, <1>10, <1>11, <1>12, <1>13, <1>14, <1>15, <1>16,
     <1>17, <1>18 DEF Next

(***************************************************************************)
(* For every input: where M0 exits, its passes over the list have written  *)
(* what one reading of the file from start to end means, line for line,    *)
(* and it faults only on a DEFINE whose name or body the file cuts off.    *)
(***************************************************************************)
THEOREM PassesAreOneReading == Spec => []OneReading
<1>1. RInv => OneReading
  BY DEF RInv
<1>2. QED
  BY <1>1, InitReads, NextReads, PTL DEF Spec

-----------------------------------------------------------------------------
(* Numbers.  The digits are taken in modulo a word (DigitsAre), a word is  *)
(* put out byte by byte (LineIs), and what the bytes stand for is the word *)
(* modulo their weight (Sums).                                             *)

LEMMA DivMod ==
  ASSUME NEW a \in Int, NEW w \in Nat \ {0}
  PROVE  /\ a \div w \in Int /\ a % w \in Int /\ 0 <= a % w /\ a % w < w
         /\ a = w * (a \div w) + (a % w)
<1>1. a % w \in Int /\ 0 <= a % w /\ a % w < w
  OBVIOUS
<1>2. a \div w \in Int
  OBVIOUS
<1>3. a = w * (a \div w) + (a % w)
  OBVIOUS
<1>4. QED
  BY <1>1, <1>2, <1>3

LEMMA Multiple ==
  ASSUME NEW w \in Nat \ {0}, NEW d \in Int
  PROVE  w * d \in Int /\ (d >= 1 => w * d >= w) /\ (d <= -1 => w * d <= - w)
OBVIOUS

LEMMA Remainder ==
  ASSUME NEW a \in Int, NEW w \in Nat \ {0}, NEW q \in Int, NEW r \in Int,
         0 <= r, r < w, a = w * q + r
  PROVE  a % w = r /\ a \div w = q
<1> DEFINE d == a \div w  m == a % w
<1>1. d \in Int /\ m \in Int /\ 0 <= m /\ m < w /\ a = w * d + m
  BY DivMod
<1> HIDE DEF d, m
<1>2. w * (d - q) = r - m
  <2>1. w * (d - q) = w * d - w * q
    BY <1>1
  <2>2. w * d \in Int /\ w * q \in Int
    BY <1>1
  <2>3. QED
    BY <1>1, <2>1, <2>2
<1>3. d - q \in Int /\ ~(d - q >= 1) /\ ~(d - q <= -1)
  <2>1. d - q \in Int
    BY <1>1
  <2>2. r - m < w /\ r - m > - w
    BY <1>1
  <2>3. QED
    BY <1>2, <2>1, <2>2, Multiple
<1>4. d = q
  BY <1>1, <1>3
<1>5. r = m
  BY <1>1, <1>4
<1>6. QED
  BY <1>4, <1>5 DEF d, m

LEMMA ModAdd ==
  ASSUME NEW a \in Int, NEW w \in Nat \ {0}, NEW q \in Int
  PROVE  (a + w * q) % w = a % w
<1> DEFINE d == a \div w  m == a % w
<1>1. d \in Int /\ m \in Int /\ 0 <= m /\ m < w /\ a = w * d + m
  BY DivMod
<1> HIDE DEF d, m
<1>2. a + w * q = w * (d + q) + m
  <2>1. w * (d + q) = w * d + w * q
    BY <1>1
  <2>2. w * d \in Int /\ w * q \in Int
    BY <1>1
  <2>3. QED
    BY <1>1, <2>1, <2>2
<1>3. a + w * q \in Int /\ d + q \in Int
  BY <1>1
<1>4. (a + w * q) % w = m
  BY <1>1, <1>2, <1>3, Remainder
<1>5. QED
  BY <1>4 DEF m

(* A byte more of x. *)
LEMMA ModSplit ==
  ASSUME NEW x \in Nat, NEW w \in Nat \ {0}
  PROVE  x % (256 * w) = (x % w) + ((x \div w) % 256) * w
<1> DEFINE d == x \div w  r == x % w
           e == d \div 256  b == d % 256
<1>1. d \in Int /\ r \in Int /\ 0 <= r /\ r < w /\ x = w * d + r
  BY DivMod
<1>2. e \in Int /\ b \in Int /\ 0 <= b /\ b < 256 /\ d = 256 * e + b
  <2> HIDE DEF d
  <2>1. QED
    BY <1>1, DivMod
<1> HIDE DEF d, r, e, b
<1>3. x = (256 * w) * e + (r + b * w)
  <2>1. w * d = w * (256 * e) + w * b
    BY <1>1, <1>2
  <2>2. w * (256 * e) = (256 * w) * e /\ w * b = b * w
    BY <1>1, <1>2
  <2>3. QED
    BY <1>1, <1>2, <2>1, <2>2
<1>4. b * w \in Int /\ 0 <= b * w /\ b * w <= 255 * w
  <2>1. b * w \in Int
    BY <1>2
  <2>2. 0 <= b * w
    BY <1>2
  <2>3. b * w <= 255 * w
    BY <1>2
  <2>4. QED
    BY <2>1, <2>2, <2>3
<1>5. r + b * w \in Int /\ 0 <= r + b * w /\ r + b * w < 256 * w
  BY <1>1, <1>4
<1>6. 256 * w \in Nat \ {0}
  OBVIOUS
<1>7. x % (256 * w) = r + b * w
  <2> DEFINE u == 256 * w  y == r + b * w
  <2>1. x \in Int /\ u \in Nat \ {0} /\ y \in Int /\ 0 <= y /\ y < u /\ x = u * e + y
    BY <1>3, <1>5, <1>6
  <2> HIDE DEF u, y
  <2>2. x % u = y
    BY <1>2, <2>1, Remainder
  <2>3. QED
    BY <2>2 DEF u, y
<1>8. QED
  BY <1>7 DEF r, b, d

LEMMA ModMod ==
  ASSUME NEW x \in Int, NEW w \in Nat \ {0}, NEW v \in Nat \ {0}
  PROVE  (x % (w * v)) % w = x % w
<1> DEFINE u == w * v  q == x \div u  m == x % u
<1>1. u \in Nat \ {0}
  OBVIOUS
<1>2. q \in Int /\ m \in Int /\ x = u * q + m
  <2> HIDE DEF u
  <2>1. QED
    BY <1>1, DivMod
<1>3. x = m + w * (v * q)
  <2> HIDE DEF q, m
  <2>1. u * q = w * (v * q)
    BY <1>2
  <2>2. QED
    BY <1>1, <1>2, <2>1
<1> HIDE DEF q, m
<1>4. v * q \in Int
  BY <1>2
<1>5. x % w = m % w
  <2> DEFINE k == v * q
  <2>1. k \in Int /\ x = m + w * k
    BY <1>3, <1>4
  <2> HIDE DEF k
  <2>2. (m + w * k) % w = m % w
    BY <1>2, <2>1, ModAdd
  <2>3. QED
    BY <2>1, <2>2
<1>6. QED
  BY <1>5 DEF m

-----------------------------------------------------------------------------
(* The weight of a byte divides a word. *)
LEMMA WeightDivides ==
  ASSUME NEW k \in 0 .. LONG
  PROVE  \E v \in Nat \ {0} : Word = Weight[k] * v
<1> DEFINE S == {i \in Nat : k + i <= LONG =>
                   \E v \in Nat \ {0} : Weight[k + i] = Weight[k] * v}
<1>0. LONG \in Nat /\ k \in Nat /\ LONG - k \in Nat /\ Weight[k] \in Nat \ {0}
  BY LongAssumption, WeightType
<1>1. 0 \in S
  <2>1. Weight[k + 0] = Weight[k] * 1
    BY <1>0
  <2>2. QED
    BY <2>1
<1>2. ASSUME NEW i \in 1 .. LONG - k, i - 1 \in S
      PROVE  i \in S
  <2>1. k + (i - 1) <= LONG /\ i - 1 \in Nat /\ k + i \in 0 .. LONG /\ k + i # 0
        /\ (k + i) - 1 = k + (i - 1)
    BY <1>0
  <2>2. PICK v \in Nat \ {0} : Weight[k + (i - 1)] = Weight[k] * v
    BY <1>2, <2>1
  <2>3. Weight[k + i] = 256 * Weight[k + (i - 1)]
    BY <2>1, WeightIs
  <2>4. Weight[k + i] = Weight[k] * (256 * v) /\ 256 * v \in Nat \ {0}
    BY <1>0, <2>2, <2>3
  <2>5. \E x \in Nat \ {0} : Weight[k + i] = Weight[k] * x
    BY <2>4
  <2>6. QED
    BY <2>5
<1>3. LONG - k \in S
  <2> HIDE DEF S
  <2>1. 0 .. LONG - k \subseteq S
    BY <1>0, <1>1, <1>2, Climb
  <2>2. QED
    BY <1>0, <2>1
<1>4. k + (LONG - k) = LONG
  BY <1>0
<1>5. QED
  BY <1>0, <1>3, <1>4 DEF Word

-----------------------------------------------------------------------------
(* The number of the first n digits, as Positional is defined by.          *)
Counts(radix, ds, n, f) ==
  f = [i \in 0 .. n |-> IF i = 0 THEN 0 ELSE f[i - 1] * radix + ds[i]]

LEMMA CountsExist ==
  ASSUME NEW radix, NEW ds, NEW n \in Nat
  PROVE  \E f : Counts(radix, ds, n, f)
<1> DEFINE S == {m \in Nat : \E f : Counts(radix, ds, m, f)}
<1>1. 0 \in S
  <2> DEFINE f == [i \in 0 .. 0 |-> 0]
  <2>1. Counts(radix, ds, 0, f)
    BY DEF Counts
  <2>2. QED
    BY <2>1
<1>2. ASSUME NEW m \in 1 .. n, m - 1 \in S
      PROVE  m \in S
  <2>1. PICK f : Counts(radix, ds, m - 1, f)
    BY <1>2
  <2> DEFINE g == [i \in 0 .. m |-> IF i = m THEN f[m - 1] * radix + ds[m] ELSE f[i]]
  <2>2. ASSUME NEW i \in 0 .. m
        PROVE  g[i] = IF i = 0 THEN 0 ELSE g[i - 1] * radix + ds[i]
    <3>1. CASE i = m
      <4>1. g[m] = f[m - 1] * radix + ds[m] /\ g[m - 1] = f[m - 1] /\ m # 0
        OBVIOUS
      <4> HIDE DEF g
      <4>2. QED
        BY <3>1, <4>1
    <3>2. CASE i = 0
      <4>1. g[0] = f[0] /\ f[0] = 0
        BY <2>1 DEF Counts
      <4>2. QED
        BY <3>2, <4>1
    <3>3. CASE i # m /\ i # 0
      <4>1. i \in 1 .. m - 1 /\ i - 1 \in 0 .. m - 1
        BY <3>3
      <4>2. g[i] = f[i] /\ g[i - 1] = f[i - 1]
        BY <4>1
      <4>3. f[i] = f[i - 1] * radix + ds[i]
        BY <2>1, <4>1 DEF Counts
      <4> HIDE DEF g
      <4>4. QED
        BY <3>3, <4>2, <4>3
    <3>4. QED
      BY <3>1, <3>2, <3>3
  <2>3. g = [i \in 0 .. m |-> g[i]]
    OBVIOUS
  <2>4. Counts(radix, ds, m, g)
    <3> HIDE DEF g
    <3>1. QED
      BY <2>2, <2>3 DEF Counts
  <2>5. \E h : Counts(radix, ds, m, h)
    BY <2>4
  <2>6. QED
    BY <2>5
<1>3. n \in S
  <2> HIDE DEF S
  <2>1. 0 .. n \subseteq S
    BY <1>1, <1>2, Climb
  <2>2. QED
    BY <2>1
<1>4. QED
  BY <1>3

(* The fold over the digits, digit by digit. *)
LEMMA DigitsRun ==
  ASSUME NEW radix, NEW ds, Len(ds) \in Nat, DOMAIN ds = 1 .. Len(ds)
  PROVE  \E r : /\ r[0] = 0
                /\ \A i \in 1 .. Len(ds) : r[i] = Adds(radix, r[i - 1], ds[i])
                /\ r[Len(ds)] = Digits(radix, ds)
<1> DEFINE n == Len(ds)
           g == CHOOSE f : FoldsOver(radix, ds, n, f)
           r == [i \in 0 .. n |-> g[1 .. i]]
<1>1. FoldsOver(radix, ds, n, g)
  <2>1. \E f : FoldsOver(radix, ds, n, f)
    BY FoldExists
  <2>2. QED
    BY <2>1
<1>2. Digits(radix, ds) = g[1 .. n]
  BY DEF Digits, FoldsOver, Adds, FoldLeft, MapThenFoldSet
<1> HIDE DEF g
<1>3. r[0] = 0
  <2>1. 1 .. 0 = {} /\ 1 .. 0 \in SUBSET (1 .. n)
    OBVIOUS
  <2>2. g[1 .. 0] = 0
    BY <1>1, <2>1 DEF FoldsOver
  <2>3. QED
    BY <2>2
<1>4. ASSUME NEW i \in 1 .. n
      PROVE  r[i] = Adds(radix, r[i - 1], ds[i])
  <2>0. n \in Nat /\ i \in Nat /\ 1 <= i /\ i <= n
    OBVIOUS
  <2>1. 1 .. i \in SUBSET (1 .. n) /\ i \in 1 .. i /\ 1 .. i # {}
    <3>1. \A j \in 1 .. i : j \in 1 .. n
      BY <2>0
    <3>2. i \in 1 .. i
      BY <2>0
    <3>3. QED
      BY <3>1, <3>2
  <2>2. Max(1 .. i) \in 1 .. i /\ Max(1 .. i) >= i
    <3> HIDE DEF n
    <3>1. QED
      BY <2>0, <2>1, LastOf
  <2>3. Max(1 .. i) = i
    BY <2>2
  <2>4. (1 .. i) \ {i} = 1 .. i - 1
    OBVIOUS
  <2>5. g[1 .. i] = Adds(radix, g[(1 .. i) \ {Max(1 .. i)}], ds[Max(1 .. i)])
    BY <1>1, <2>1 DEF FoldsOver
  <2>6. g[1 .. i] = Adds(radix, g[1 .. i - 1], ds[i])
    BY <2>3, <2>4, <2>5
  <2>7. r[i] = g[1 .. i] /\ r[i - 1] = g[1 .. i - 1]
    OBVIOUS
  <2>8. QED
    BY <2>6, <2>7
<1>5. r[n] = g[1 .. n]
  OBVIOUS
<1> HIDE DEF r
<1>6. QED
  BY <1>2, <1>3, <1>4, <1>5

(* Digits in range are taken in as their number, modulo a word. *)
LEMMA DigitsAre ==
  ASSUME NEW radix \in Nat, NEW ds \in Seq(0 .. radix - 1)
  PROVE  /\ Positional(radix, ds) \in Nat
         /\ Digits(radix, ds) = Positional(radix, ds) % Word
<1> DEFINE n == Len(ds)
           v == CHOOSE f : Counts(radix, ds, n, f)
<1>0. n \in Nat /\ DOMAIN ds = 1 .. n /\ \A i \in 1 .. n : ds[i] \in 0 .. radix - 1
  OBVIOUS
<1>1. Counts(radix, ds, n, v)
  <2>1. \E f : Counts(radix, ds, n, f)
    BY <1>0, CountsExist
  <2>2. QED
    BY <2>1
<1>2. Positional(radix, ds) = v[n]
  BY DEF Positional, Counts
<1> HIDE DEF v
<1>3. PICK r : /\ r[0] = 0
               /\ \A i \in 1 .. n : r[i] = Adds(radix, r[i - 1], ds[i])
               /\ r[n] = Digits(radix, ds)
  BY <1>0, DigitsRun
<1> DEFINE S == {i \in Nat : v[i] \in Nat /\ r[i] = v[i] % Word}
<1>4. 0 \in S
  <2>1. v[0] = 0
    BY <1>0, <1>1 DEF Counts
  <2>2. 0 % Word = 0
    BY WordType
  <2>3. QED
    BY <1>3, <2>1, <2>2
<1>5. ASSUME NEW i \in 1 .. n, i - 1 \in S
      PROVE  i \in S
  <2> DEFINE V == v[i - 1]  p == V % Word  q == V \div Word  d == ds[i]
  <2>1. V \in Nat /\ r[i - 1] = p /\ d \in 0 .. radix - 1
    BY <1>0, <1>5
  <2>2. v[i] = V * radix + d
    <3>1. i \in 0 .. n /\ i # 0
      BY <1>0
    <3>2. QED
      BY <1>1, <3>1 DEF Counts
  <2>3. r[i] = Adds(radix, p, d)
    BY <1>3, <2>1
  <2> HIDE DEF V, d
  <2>4. p \in Int /\ q \in Int /\ 0 <= p /\ V = Word * q + p
    BY <2>1, WordType, DivMod
  <2> HIDE DEF p, q
  <2>5. r[i] = (p * radix + d) % Word
    BY <2>1, <2>3, <2>4 DEF Adds
  <2>6. V * radix + d = (p * radix + d) + Word * (q * radix)
    <3>1. Word \in Int
      BY WordType
    <3>2. (Word * q + p) * radix = p * radix + Word * (q * radix)
      BY <2>4, <3>1
    <3>3. p * radix \in Int /\ Word * (q * radix) \in Int /\ d \in Int
      BY <2>1, <2>4, <3>1
    <3>4. QED
      BY <2>4, <3>2, <3>3
  <2>7. v[i] % Word = (p * radix + d) % Word
    <3> DEFINE a == p * radix + d  k == q * radix
    <3>1. a \in Int /\ k \in Int /\ v[i] = a + Word * k
      BY <2>1, <2>2, <2>4, <2>6
    <3> HIDE DEF a, k
    <3>2. (a + Word * k) % Word = a % Word
      BY <3>1, WordType, ModAdd
    <3>3. QED
      BY <3>1, <3>2 DEF a
  <2>8. v[i] \in Nat
    <3>1. V * radix \in Nat /\ d \in Nat
      BY <2>1
    <3>2. QED
      BY <2>2, <3>1
  <2>9. QED
    BY <2>5, <2>7, <2>8
<1>6. n \in S
  <2> HIDE DEF S
  <2>1. 0 .. n \subseteq S
    BY <1>0, <1>4, <1>5, Climb
  <2>2. QED
    BY <1>0, <2>1
<1>7. QED
  BY <1>2, <1>3, <1>6

(* The digits of a decimal number, and of a hexadecimal one.               *)
LEMMA DecimalDigits ==
  ASSUME NEW s \in Text, IsDecimal(s)
  PROVE  DecDigits(s) \in Seq(0 .. 9)
<1>1. s \in Seq(Byte) /\ DOMAIN s = 1 .. Len(s) /\ Len(s) \in Nat
  BY DEF Text
<1>2. \A k \in 1 .. Len(s) : DecDigit(s[k]) \in 0 .. 9
  BY <1>1 DEF IsDecimal, DecDigit
<1>3. QED
  BY <1>1, <1>2 DEF DecDigits

LEMMA HexadecimalDigits ==
  ASSUME NEW s \in Text, IsHex(s)
  PROVE  /\ SubSeq(s, 3, Len(s)) \in Text
         /\ HexDigits(SubSeq(s, 3, Len(s))) \in Seq(0 .. 15)
<1> DEFINE t == SubSeq(s, 3, Len(s))
<1>1. s \in Seq(Byte) /\ Len(s) \in Nat /\ Len(s) >= 2
  BY DEF Text, IsHex
<1>2. /\ t \in Seq(Byte) /\ Len(t) = Len(s) - 2 /\ DOMAIN t = 1 .. Len(t)
      /\ \A k \in 1 .. Len(t) : t[k] = s[k + 2]
  <2>1. t \in Seq(Byte) /\ Len(t) = Len(s) - 2
    BY <1>1
  <2>2. \A k \in 1 .. Len(s) - 2 : t[k] = s[k + 2]
    BY <1>1
  <2> HIDE DEF t
  <2>3. QED
    BY <1>1, <2>1, <2>2
<1>3. ASSUME NEW k \in 1 .. Len(t)
      PROVE  HexDigit(t[k]) \in 0 .. 15
  <2>1. k + 2 \in 3 .. Len(s)
    BY <1>1, <1>2
  <2>2. t[k] \in 48 .. 57 \cup 65 .. 70
    BY <1>2, <2>1 DEF IsHex
  <2>3. \A c \in 48 .. 57 \cup 65 .. 70 : HexDigit(c) \in 0 .. 15
    BY DEF HexDigit
  <2>4. QED
    BY <2>2, <2>3
<1>4. Len(t) \in Nat
  BY <1>1, <1>2
<1> HIDE DEF t
<1>5. HexDigits(t) \in Seq(0 .. 15)
  BY <1>2, <1>3, <1>4 DEF HexDigits
<1>6. QED
  BY <1>2, <1>5 DEF Text, t

(* numerate_string on a number is the number, modulo a word.               *)
LEMMA NumerateIs ==
  ASSUME NEW s \in Text, IsNumber(s)
  PROVE  NumberOf(s) \in Int /\ NumerateString(s) = NumberOf(s) % Word
<1>1. s \in Seq(Byte) /\ DOMAIN s = 1 .. Len(s) /\ Len(s) \in Nat /\ s # << >>
  BY DEF Text, IsNumber
<1>2. \A x \in Nat : x % Word \in Nat /\ x % Word # -1
  BY WordType
<1>3. CASE IsDecimal(s)
  <2> DEFINE P == Positional(10, DecDigits(s))
  <2>1. P \in Nat /\ Digits(10, DecDigits(s)) = P % Word
    <3>1. DecDigits(s) \in Seq(0 .. 10 - 1)
      BY <1>3, DecimalDigits
    <3>2. QED
      BY <3>1, DigitsAre
  <2>2. Char(s, 2) # 120 /\ ~Negative(s)
    BY <1>1, <1>3 DEF Char, Negative, IsDecimal
  <2>3. NumberOf(s) = P
    BY <1>3 DEF NumberOf
  <2> HIDE DEF P
  <2>4. NumerateString(s) = P % Word
    BY <1>2, <2>1, <2>2 DEF NumerateString
  <2>5. QED
    BY <2>1, <2>3, <2>4
<1>4. CASE ~IsDecimal(s) /\ IsSigned(s)
  <2> DEFINE P == Positional(10, DecDigits(Tail(s)))
  <2>0. Tail(s) \in Text /\ IsDecimal(Tail(s))
    BY <1>1, <1>4 DEF Text, IsSigned
  <2>1. P \in Nat /\ Digits(10, DecDigits(Tail(s))) = P % Word
    <3>1. DecDigits(Tail(s)) \in Seq(0 .. 10 - 1)
      BY <2>0, DecimalDigits
    <3>2. QED
      BY <3>1, DigitsAre
  <2>2. Char(s, 2) # 120 /\ Negative(s)
    <3>1. Tail(s) # << >> /\ Len(Tail(s)) = Len(s) - 1 /\ Tail(s) \in Seq(Byte)
      BY <1>1, <2>0 DEF IsDecimal
    <3>2. Len(s) >= 2 /\ s[2] = Tail(s)[1] /\ 1 \in DOMAIN Tail(s)
      BY <1>1, <3>1
    <3>3. s[2] \in 48 .. 57
      BY <2>0, <3>2 DEF IsDecimal
    <3>4. QED
      BY <1>4, <3>3 DEF Char, Negative, IsSigned
  <2>3. NumberOf(s) = - P
    BY <1>4 DEF NumberOf
  <2> HIDE DEF P
  <2> DEFINE q == P \div Word  p == P % Word
  <2>4. q \in Int /\ p \in Int /\ P = Word * q + p
    BY <2>1, WordType, DivMod
  <2>5. NumerateString(s) = (- p) % Word
    BY <1>2, <2>1, <2>2 DEF NumerateString
  <2> HIDE DEF p, q
  <2>6. - p = (- P) + Word * q
    <3>1. Word * q \in Int
      BY <2>4, WordType
    <3>2. QED
      BY <2>4, <2>1, <3>1
  <2>7. ((- P) + Word * q) % Word = (- P) % Word
    <3> DEFINE m == - P
    <3>1. m \in Int
      BY <2>1
    <3> HIDE DEF m
    <3>2. (m + Word * q) % Word = m % Word
      BY <2>4, <3>1, WordType, ModAdd
    <3>3. QED
      BY <3>2 DEF m
  <2>8. QED
    BY <2>1, <2>3, <2>5, <2>6, <2>7
<1>5. CASE ~IsDecimal(s) /\ ~IsSigned(s)
  <2> DEFINE t == SubSeq(s, 3, Len(s))
             P == Positional(16, HexDigits(t))
  <2>0. IsHex(s)
    BY <1>5 DEF IsNumber
  <2>1. P \in Nat /\ Digits(16, HexDigits(t)) = P % Word
    <3>1. HexDigits(t) \in Seq(0 .. 16 - 1)
      BY <2>0, HexadecimalDigits
    <3>2. QED
      BY <3>1, DigitsAre
  <2>2. Char(s, 2) = 120
    BY <1>1, <2>0 DEF Char, IsHex
  <2>3. NumberOf(s) = P
    BY <1>5 DEF NumberOf
  <2> HIDE DEF P
  <2>4. NumerateString(s) = P % Word
    BY <1>2, <2>1, <2>2 DEF NumerateString
  <2>5. QED
    BY <2>1, <2>3, <2>4
<1>6. QED
  BY <1>3, <1>4, <1>5

-----------------------------------------------------------------------------
(* The bytes of a value, put out in hexadecimal. *)
Outs(value, n) == [k \in 1 .. n |-> Hex8(ByteOf(value, k))]

LEMMA ByteRange ==
  ASSUME NEW value \in Nat, NEW k \in 1 .. LONG
  PROVE  ByteOf(value, k) \in 0 .. 255
<1>1. Weight[k - 1] \in Nat \ {0}
  BY WeightType, LongAssumption
<1>2. \A w \in Nat \ {0} : value \div w \in Nat
  OBVIOUS
<1>3. \A x \in Nat : x % 256 \in 0 .. 255
  OBVIOUS
<1>4. QED
  BY <1>1, <1>2, <1>3 DEF ByteOf

(* The two characters of a byte are read back as the byte.                 *)
LEMMA HexBack ==
  ASSUME NEW b \in 0 .. 255
  PROVE  16 * HexDigit(Hex8(b)[1]) + HexDigit(Hex8(b)[2]) = b
<1>1. b \div 16 \in 0 .. 15 /\ b % 16 \in 0 .. 15 /\ b = 16 * (b \div 16) + (b % 16)
  OBVIOUS
<1>2. \A d \in 0 .. 15 : HexDigit(Hex4(d)) = d
  BY DEF HexDigit, Hex4
<1>3. HexDigit(Hex4(b \div 16)) = b \div 16 /\ HexDigit(Hex4(b % 16)) = b % 16
  BY <1>1, <1>2
<1>4. Hex8(b)[1] = Hex4(b \div 16) /\ Hex8(b)[2] = Hex4(b % 16)
  BY DEF Hex8
<1>5. QED
  BY <1>1, <1>3, <1>4

LEMMA BytesJoined ==
  ASSUME NEW x \in Seq(Byte), NEW y \in Seq(Byte)
  PROVE  /\ x \o y \in Seq(Byte) /\ Len(x \o y) = Len(x) + Len(y)
         /\ \A i \in 1 .. Len(x) : (x \o y)[i] = x[i]
         /\ \A i \in Len(x) + 1 .. Len(x) + Len(y) : (x \o y)[i] = y[i - Len(x)]
<1>1. x \o y \in Seq(Byte) /\ Len(x \o y) = Len(x) + Len(y)
  OBVIOUS
<1>2. ASSUME NEW i \in 1 .. Len(x) PROVE (x \o y)[i] = x[i]
  OBVIOUS
<1>3. ASSUME NEW i \in Len(x) + 1 .. Len(x) + Len(y) PROVE (x \o y)[i] = y[i - Len(x)]
  OBVIOUS
<1>4. QED
  BY <1>1, <1>2, <1>3

(* Two characters more, after n bytes. *)
LEMMA TwoMore ==
  ASSUME NEW s \in Seq(Byte), NEW h \in Seq(Byte), NEW n \in Nat, Len(s) = 2 * n, Len(h) = 2
  PROVE  /\ s \o h \in Seq(Byte) /\ Len(s \o h) = 2 * (n + 1)
         /\ \A k \in 1 .. n : /\ (s \o h)[2 * k - 1] = s[2 * k - 1]
                              /\ (s \o h)[2 * k] = s[2 * k]
         /\ (s \o h)[2 * (n + 1) - 1] = h[1] /\ (s \o h)[2 * (n + 1)] = h[2]
<1> DEFINE m == Len(s)  c == s \o h
<1>1. m \in Nat /\ m = 2 * n
  OBVIOUS
<1>2. /\ c \in Seq(Byte) /\ Len(c) = m + Len(h)
      /\ \A i \in 1 .. m : c[i] = s[i]
      /\ \A i \in m + 1 .. m + Len(h) : c[i] = h[i - m]
  BY BytesJoined
<1> HIDE DEF m, c
<1>3. Len(c) = m + 2 /\ \A i \in m + 1 .. m + 2 : c[i] = h[i - m]
  BY <1>2
<1>4. c[m + 1] = h[1] /\ c[m + 2] = h[2]
  <2>1. /\ m + 1 \in m + 1 .. m + 2 /\ m + 2 \in m + 1 .. m + 2
        /\ (m + 1) - m = 1 /\ (m + 2) - m = 2
    BY <1>1
  <2>2. QED
    BY <1>3, <2>1
<1>5. \A k \in 1 .. n : 2 * k - 1 \in 1 .. m /\ 2 * k \in 1 .. m
  BY <1>1
<1>6. 2 * (n + 1) = m + 2 /\ 2 * (n + 1) - 1 = m + 1
  BY <1>1
<1>7. QED
  BY <1>2, <1>3, <1>4, <1>5, <1>6 DEF c

LEMMA OutsAre ==
  ASSUME NEW value \in Nat, NEW n \in 1 .. LONG
  PROVE  LET line == FlattenSeq(Outs(value, n))
         IN  /\ Len(line) = 2 * n
             /\ \A k \in 1 .. n : HexByte(line, k) = ByteOf(value, k)
<1> DEFINE line(m) == FlattenSeq(Outs(value, m))
           Good(m) == /\ line(m) \in Seq(Byte) /\ Len(line(m)) = 2 * m
                      /\ \A k \in 1 .. m : HexByte(line(m), k) = ByteOf(value, k)
           S == {m \in Nat : Good(m)}
<1>0. LONG \in Nat /\ n \in Nat /\ n <= LONG
  BY LongAssumption
<1>1. 0 \in S
  <2>1. Outs(value, 0) = << >>
    BY DEF Outs
  <2>2. line(0) = << >>
    <3>1. FlattenSeq(<< >>) = << >>
      BY DEF FlattenSeq
    <3>2. QED
      BY <2>1, <3>1
  <2> HIDE DEF line
  <2>3. line(0) \in Seq(Byte) /\ Len(line(0)) = 2 * 0 /\ 1 .. 0 = {}
    <3>1. << >> \in Seq(Byte) /\ Len(<< >>) = 0
      OBVIOUS
    <3>2. 2 * 0 = 0 /\ 1 .. 0 = {}
      OBVIOUS
    <3>3. line(0) \in Seq(Byte) /\ Len(line(0)) = 0
      BY <2>2, <3>1
    <3>4. QED
      BY <3>2, <3>3
  <2>4. QED
    BY <2>3
<1>2. ASSUME NEW m \in 1 .. n, m - 1 \in S
      PROVE  m \in S
  <2> DEFINE b == ByteOf(value, m)  h == Hex8(b)  s == line(m - 1)
  <2>0. m \in Nat /\ m - 1 \in Nat /\ m \in 1 .. LONG /\ (m - 1) + 1 = m
    BY <1>0
  <2>1. b \in 0 .. 255
    BY <2>0, ByteRange
  <2>2. h \in Seq(Byte) /\ Len(h) = 2
    <3>1. h \in Text
      BY <2>1, Hex8Type
    <3>2. Len(h) = 2
      BY DEF Hex8
    <3>3. QED
      BY <3>1, <3>2 DEF Text
  <2>3. Outs(value, m - 1) \in Seq(Seq(Byte)) /\ Len(Outs(value, m - 1)) = m - 1
    <3>1. \A k \in 1 .. m - 1 : Hex8(ByteOf(value, k)) \in Seq(Byte)
      <4>1. \A k \in 1 .. m - 1 : k \in 1 .. LONG
        BY <1>0, <2>0
      <4>2. \A k \in 1 .. m - 1 : ByteOf(value, k) \in 0 .. 255
        BY <4>1, ByteRange
      <4>3. QED
        BY <4>2, Hex8Type DEF Text
    <3>2. QED
      BY <2>0, <3>1 DEF Outs
  <2>4. Outs(value, m) = Append(Outs(value, m - 1), h)
    <3>1. Append(Outs(value, m - 1), h) =
            [k \in 1 .. (m - 1) + 1 |-> IF k = (m - 1) + 1 THEN h
                                        ELSE Outs(value, m - 1)[k]]
      BY <2>0, <2>3
    <3>2. QED
      BY <2>0, <3>1 DEF Outs
  <2>5. line(m) = s \o h
    BY <2>2, <2>3, <2>4, FlatStep
  <2>6. s \in Seq(Byte) /\ Len(s) = 2 * (m - 1)
        /\ \A k \in 1 .. m - 1 : HexByte(s, k) = ByteOf(value, k)
    BY <1>2
  <2>7. 16 * HexDigit(h[1]) + HexDigit(h[2]) = b
    BY <2>1, HexBack
  <2> HIDE DEF h, s, b
  <2>8. /\ s \o h \in Seq(Byte) /\ Len(s \o h) = 2 * m
        /\ \A k \in 1 .. m - 1 : /\ (s \o h)[2 * k - 1] = s[2 * k - 1]
                                 /\ (s \o h)[2 * k] = s[2 * k]
        /\ (s \o h)[2 * m - 1] = h[1] /\ (s \o h)[2 * m] = h[2]
    <3> DEFINE i == m - 1
    <3>1. i \in Nat /\ i + 1 = m /\ Len(s) = 2 * i
      BY <2>0, <2>6
    <3>2. \A k \in 1 .. m - 1 : k \in 1 .. i
      OBVIOUS
    <3> HIDE DEF i
    <3>3. \A a \in Seq(Byte), c \in Seq(Byte), j \in Nat :
            Len(a) = 2 * j /\ Len(c) = 2 =>
              /\ a \o c \in Seq(Byte) /\ Len(a \o c) = 2 * (j + 1)
              /\ \A k \in 1 .. j : /\ (a \o c)[2 * k - 1] = a[2 * k - 1]
                                   /\ (a \o c)[2 * k] = a[2 * k]
              /\ (a \o c)[2 * (j + 1) - 1] = c[1] /\ (a \o c)[2 * (j + 1)] = c[2]
      BY TwoMore
    <3>4. /\ s \o h \in Seq(Byte) /\ Len(s \o h) = 2 * (i + 1)
          /\ \A k \in 1 .. i : /\ (s \o h)[2 * k - 1] = s[2 * k - 1]
                               /\ (s \o h)[2 * k] = s[2 * k]
          /\ (s \o h)[2 * (i + 1) - 1] = h[1] /\ (s \o h)[2 * (i + 1)] = h[2]
      BY ONLY <2>2, <2>6, <3>1, <3>3
    <3>5. QED
      BY <3>1, <3>2, <3>4
  <2>9. \A k \in 1 .. m - 1 : HexByte(s \o h, k) = ByteOf(value, k)
    BY <2>6, <2>8 DEF HexByte
  <2>10. HexByte(s \o h, m) = b
    BY <2>7, <2>8 DEF HexByte
  <2>11. \A k \in 1 .. m : HexByte(s \o h, k) = ByteOf(value, k)
    BY <2>0, <2>9, <2>10 DEF b
  <2>12. QED
    BY <2>0, <2>5, <2>8, <2>11
<1>3. n \in S
  <2> HIDE DEF S
  <2>1. 0 .. n \subseteq S
    BY <1>0, <1>1, <1>2, Climb
  <2>2. QED
    BY <1>0, <2>1
<1>4. QED
  BY <1>3

-----------------------------------------------------------------------------
(* The number of the first n bytes, as LittleEndian is defined by.         *)
SumsUp(s, n, f) ==
  f = [i \in 0 .. n |-> IF i = 0 THEN 0 ELSE f[i - 1] + HexByte(s, i) * Weight[i - 1]]

LEMMA SumExists ==
  ASSUME NEW s, NEW n \in Nat
  PROVE  \E f : SumsUp(s, n, f)
<1> DEFINE S == {m \in Nat : \E f : SumsUp(s, m, f)}
<1>1. 0 \in S
  <2> DEFINE f == [i \in 0 .. 0 |-> 0]
  <2>1. SumsUp(s, 0, f)
    BY DEF SumsUp
  <2>2. QED
    BY <2>1
<1>2. ASSUME NEW m \in 1 .. n, m - 1 \in S
      PROVE  m \in S
  <2>1. PICK f : SumsUp(s, m - 1, f)
    BY <1>2
  <2> DEFINE g == [i \in 0 .. m |-> IF i = m THEN f[m - 1] + HexByte(s, m) * Weight[m - 1]
                                    ELSE f[i]]
  <2>2. ASSUME NEW i \in 0 .. m
        PROVE  g[i] = IF i = 0 THEN 0 ELSE g[i - 1] + HexByte(s, i) * Weight[i - 1]
    <3>1. CASE i = m
      <4>1. /\ g[m] = f[m - 1] + HexByte(s, m) * Weight[m - 1]
            /\ g[m - 1] = f[m - 1] /\ m # 0
        OBVIOUS
      <4> HIDE DEF g
      <4>2. QED
        BY <3>1, <4>1
    <3>2. CASE i = 0
      <4>1. g[0] = f[0] /\ f[0] = 0
        BY <2>1 DEF SumsUp
      <4>2. QED
        BY <3>2, <4>1
    <3>3. CASE i # m /\ i # 0
      <4>1. i \in 1 .. m - 1 /\ i - 1 \in 0 .. m - 1
        BY <3>3
      <4>2. g[i] = f[i] /\ g[i - 1] = f[i - 1]
        BY <4>1
      <4>3. f[i] = f[i - 1] + HexByte(s, i) * Weight[i - 1]
        BY <2>1, <4>1 DEF SumsUp
      <4> HIDE DEF g
      <4>4. QED
        BY <3>3, <4>2, <4>3
    <3>4. QED
      BY <3>1, <3>2, <3>3
  <2>3. g = [i \in 0 .. m |-> g[i]]
    OBVIOUS
  <2>4. SumsUp(s, m, g)
    <3> HIDE DEF g
    <3>1. QED
      BY <2>2, <2>3 DEF SumsUp
  <2>5. \E h : SumsUp(s, m, h)
    BY <2>4
  <2>6. QED
    BY <2>5
<1>3. n \in S
  <2> HIDE DEF S
  <2>1. 0 .. n \subseteq S
    BY <1>1, <1>2, Climb
  <2>2. QED
    BY <2>1
<1>4. QED
  BY <1>3

(* The bytes of a value stand for the value, modulo their weight.          *)
LEMMA SumIs ==
  ASSUME NEW value \in Nat, NEW n \in 1 .. LONG, NEW s, Len(s) = 2 * n,
         \A k \in 1 .. n : HexByte(s, k) = ByteOf(value, k)
  PROVE  LittleEndian(s) = value % Weight[n]
<1> DEFINE v == CHOOSE f : SumsUp(s, Len(s) \div 2, f)
           S == {m \in Nat : v[m] = value % Weight[m]}
<1>0. LONG \in Nat /\ n \in Nat /\ n <= LONG /\ Len(s) \div 2 = n
  BY LongAssumption
<1>1. SumsUp(s, n, v)
  <2>1. \E f : SumsUp(s, Len(s) \div 2, f)
    BY <1>0, SumExists
  <2>2. SumsUp(s, Len(s) \div 2, v)
    BY <2>1
  <2> HIDE DEF v
  <2>3. QED
    BY <1>0, <2>2
<1>2. LittleEndian(s) = v[n]
  <2>1. LittleEndian(s) = v[Len(s) \div 2]
    BY DEF LittleEndian, SumsUp
  <2> HIDE DEF v
  <2>2. QED
    BY <1>0, <2>1
<1> HIDE DEF v
<1>3. 0 \in S
  <2>1. v[0] = 0 /\ Weight[0] = 1
    BY <1>0, <1>1, WeightIs DEF SumsUp
  <2>2. value % 1 = 0
    OBVIOUS
  <2>3. QED
    BY <2>1, <2>2
<1>4. ASSUME NEW m \in 1 .. n, m - 1 \in S
      PROVE  m \in S
  <2> DEFINE w == Weight[m - 1]
  <2>0. m \in Nat /\ m # 0 /\ m - 1 \in 0 .. LONG /\ m \in 0 .. LONG /\ m \in 0 .. n
    BY <1>0
  <2>1. w \in Nat \ {0} /\ Weight[m] = 256 * w
    BY <2>0, WeightType, WeightIs
  <2>2. v[m] = v[m - 1] + HexByte(s, m) * w
    BY <1>1, <2>0 DEF SumsUp
  <2>3. HexByte(s, m) = (value \div w) % 256
    BY DEF ByteOf
  <2>4. v[m - 1] = value % w
    BY <1>4
  <2> HIDE DEF w
  <2>5. value % (256 * w) = (value % w) + ((value \div w) % 256) * w
    <3>1. \A y \in Nat, u \in Nat \ {0} :
            y % (256 * u) = (y % u) + ((y \div u) % 256) * u
      BY ModSplit
    <3>2. value \in Nat /\ w \in Nat \ {0}
      BY <2>1
    <3>3. QED
      BY ONLY <3>1, <3>2
  <2>6. v[m] = value % Weight[m]
    BY <2>1, <2>2, <2>3, <2>4, <2>5
  <2>7. QED
    BY <2>0, <2>6
<1>5. n \in S
  <2> HIDE DEF S
  <2>1. 0 .. n \subseteq S
    BY <1>0, <1>3, <1>4, Climb
  <2>2. QED
    BY <1>0, <2>1
<1>6. QED
  BY <1>2, <1>5

(* The line for a number behind a prefix. *)
LEMMA LineExact ==
  ASSUME NEW s \in Text, IsNumber(s), NEW prefix
  PROVE  LET line == ExpressNumber(NumerateString(s), prefix)
         IN  /\ Len(line) = 2 * Size(prefix)
             /\ LittleEndian(line) = NumberOf(s) % Weight[Size(prefix)]
<1> DEFINE value == NumerateString(s)
           n == Size(prefix)
           line == ExpressNumber(value, prefix)
           x == NumberOf(s)
<1>1. n \in 1 .. LONG /\ n \in 0 .. LONG
  BY LongAssumption DEF Size
<1>2. value \in Nat /\ x \in Int /\ value = x % Word
  BY NumerateType, NumerateIs
<1>3. line = FlattenSeq(Outs(value, n))
  BY DEF ExpressNumber, Outs
<1> HIDE DEF value, n, x
<1>4. Len(line) = 2 * n /\ \A k \in 1 .. n : HexByte(line, k) = ByteOf(value, k)
  BY <1>1, <1>2, <1>3, OutsAre
<1>5. LittleEndian(line) = value % Weight[n]
  <2> HIDE DEF line
  <2>1. QED
    BY <1>1, <1>2, <1>4, SumIs
<1>6. value % Weight[n] = x % Weight[n]
  <2>1. PICK v \in Nat \ {0} : Word = Weight[n] * v
    BY <1>1, WeightDivides
  <2>2. Weight[n] \in Nat \ {0}
    BY <1>1, WeightType
  <2>3. QED
    BY <1>2, <2>1, <2>2, ModMod
<1>7. QED
  BY <1>4, <1>5, <1>6 DEF value, n, x

(***************************************************************************)
(* For every input: the line M0 writes for a number behind '!', '@' or '%' *)
(* is the number, however many digits it has, modulo the bytes the prefix  *)
(* asks for, its lowest byte first.                                        *)
(***************************************************************************)
THEOREM NumbersAreExact == Spec => []ImmediateIsExact
<1>1. RInv => ImmediateIsExact
  <2> SUFFICES ASSUME RInv, pc = "exit", NEW j \in Left,
                      list[j].text[1] \in Prefix, IsNumber(Tail(list[j].text)),
                      \/ NumberOf(Tail(list[j].text)) % Word # 0
                      \/ list[j].text[2] = 48
               PROVE  LET text == list[j].text  line == list[j].expr[1]
                      IN  /\ Len(line) = 2 * Size(text[1])
                          /\ LittleEndian(line)
                               = NumberOf(Tail(text)) % Weight[Size(text[1])]
    BY DEF ImmediateIsExact
  <2> DEFINE text == list[j].text  s == Tail(text)
  <2>1. list \in Seq(Listed) /\ Preserved(list)
    BY DEF RInv
  <2>2. j \in 1 .. Len(list) /\ list[j].type = "other"
        /\ \A k \in DOMAIN list : ~Defines(list, k, j)
    BY <2>1 DEF Left
  <2>3. text \in Text /\ text # << >>
    BY <2>1, <2>2 DEF Listed, Token
  <2>4. list[j].expr = <<Final(list, j)>>
    BY <2>1, <2>2 DEF Preserved
  <2>5. Named(list, j - 1, text) = {}
    <3>1. Len(list) \in Nat /\ DOMAIN list = 1 .. Len(list)
      BY <2>1
    <3>2. \A k \in 1 .. j - 1 : k \in DOMAIN list /\ k < j
      BY <2>2, <3>1
    <3>3. QED
      BY <2>2, <3>2 DEF Named, Defines
  <2>6. s \in Text /\ s # << >> /\ Char(text, 2) = text[2]
    <3>1. s \in Seq(Byte) /\ Len(s) = Len(text) - 1 /\ Len(text) \in Nat
          /\ DOMAIN text = 1 .. Len(text)
      BY <2>3 DEF Text
    <3>2. s # << >>
      BY DEF IsNumber
    <3>3. Len(text) >= 2
      BY <3>1, <3>2
    <3>4. QED
      BY <3>1, <3>2, <3>3 DEF Text, Char
  <2>7. NumerateString(s) = NumberOf(s) % Word
    BY <2>6, NumerateIs
  <2>8. Immediate(text)
    BY <2>6, <2>7 DEF Immediate
  <2>9. Final(list, j) = ExpressNumber(NumerateString(s), text[1])
    BY <2>2, <2>5, <2>8 DEF Final
  <2>10. list[j].expr[1] = ExpressNumber(NumerateString(s), text[1])
    BY <2>4, <2>9
  <2>11. QED
    BY <2>6, <2>10, LineExact
<1>2. QED
  BY <1>1, InitReads, NextReads, PTL DEF Spec

-----------------------------------------------------------------------------
(* The list in the arena, for texts of any length.  Blocks are given out    *)
(* upwards (Blocks), and nothing is written past malloc_ptr but the end of  *)
(* a text (Written).  So a token is written over only by the ends of the    *)
(* texts read before it, which is why one they do not reach finds zero      *)
(* where it leaves zero.                                                    *)

Reads == pc \in {"tokenize", "reverse"}

Blocks ==
  /\ cells \in Seq(Nat \ {0}) /\ Len(cells) = Len(list)
  /\ malloc_ptr \in Nat \ {0}
  /\ \A j \in DOMAIN list : TextOf(j) + STRSZ <= malloc_ptr
  /\ \A i, j \in DOMAIN list : i < j => TextOf(j) + STRSZ <= cells[i]

Written ==
  \A b \in DOMAIN mem :
    b \in Int /\ (b < malloc_ptr \/ \E j \in DOMAIN list : b < EndOf(j))

AInv == Reads => Blocks /\ Written /\ ListIsKept

-----------------------------------------------------------------------------
(* Bytes and what is read of them. *)

LEMMA WordLength ==
  ASSUME NEW w
  PROVE  LONG \in Nat /\ Len(WordBytes(w)) = LONG /\ DOMAIN WordBytes(w) = 1 .. LONG
BY LongAssumption DEF WordBytes

LEMMA TextLength ==
  ASSUME NEW text \in Text
  PROVE  /\ Len(TextBytes(text)) = Len(text) /\ Len(text) \in Nat
         /\ DOMAIN TextBytes(text) = 1 .. Len(text)
BY DEF TextBytes, Text

LEMMA WriteAt ==
  ASSUME NEW m, NEW a \in Int, NEW bytes, NEW n \in Nat,
         DOMAIN bytes = 1 .. n, Len(bytes) = n, NEW b \in Int
  PROVE  /\ b \in DOMAIN Write(m, a, bytes) <=> b \in DOMAIN m \/ b \in a .. a + n - 1
         /\ b \in a .. a + n - 1
              => Contents(Write(m, a, bytes), b) = bytes[b - a + 1]
         /\ b \notin a .. a + n - 1
              => Contents(Write(m, a, bytes), b) = Contents(m, b)
BY DEF Write, Contents

(* What is read below p is the same in both memories. *)
Below(m, n, p) == \A b \in Int : b < p => Contents(n, b) = Contents(m, b)

LEMMA WordBelow ==
  ASSUME NEW m, NEW n, NEW p \in Int, Below(m, n, p),
         NEW a \in Int, a + LONG <= p, NEW w, HoldsWord(m, a, w)
  PROVE  HoldsWord(n, a, w)
BY LongAssumption DEF Below, HoldsWord

LEMMA TextBelow ==
  ASSUME NEW m, NEW n, NEW p \in Int, Below(m, n, p),
         NEW text \in Text, NEW a \in Int, a + Len(text) < p, HoldsText(m, a, text)
  PROVE  HoldsText(n, a, text)
BY DEF Below, HoldsText, Text

LEMMA WordWritten ==
  ASSUME NEW m, NEW a \in Int, NEW w
  PROVE  HoldsWord(Write(m, a, WordBytes(w)), a, w)
<1>1. ASSUME NEW k \in 1 .. LONG
      PROVE  Contents(Write(m, a, WordBytes(w)), a + k - 1) = WordByte(w, k)
  <2>1. WordBytes(w)[k] = WordByte(w, k)
    BY DEF WordBytes
  <2>2. a + k - 1 \in Int /\ a + k - 1 \in a .. a + LONG - 1 /\ (a + k - 1) - a + 1 = k
    BY LongAssumption
  <2>3. Contents(Write(m, a, WordBytes(w)), a + k - 1) = WordBytes(w)[(a + k - 1) - a + 1]
    BY <2>2, WordLength, WriteAt
  <2>4. QED
    BY <2>1, <2>2, <2>3
<1>2. QED
  BY <1>1 DEF HoldsWord

(* A write to other bytes leaves a word and a text as they were. *)
Apart(a, n, b, k) == a + n <= b \/ b + k <= a

LEMMA WordApart ==
  ASSUME NEW m, NEW a \in Int, NEW bytes, NEW n \in Nat,
         DOMAIN bytes = 1 .. n, Len(bytes) = n,
         NEW b \in Int, NEW w, Apart(a, n, b, LONG), HoldsWord(m, b, w)
  PROVE  HoldsWord(Write(m, a, bytes), b, w)
<1>1. ASSUME NEW k \in 1 .. LONG
      PROVE  Contents(Write(m, a, bytes), b + k - 1) = WordByte(w, k)
  <2>1. b + k - 1 \in Int /\ b + k - 1 \notin a .. a + n - 1
    BY LongAssumption DEF Apart
  <2>2. Contents(Write(m, a, bytes), b + k - 1) = Contents(m, b + k - 1)
    BY <2>1, WriteAt
  <2>3. QED
    BY <2>2 DEF HoldsWord
<1>2. QED
  BY <1>1 DEF HoldsWord

LEMMA TextApart ==
  ASSUME NEW m, NEW a \in Int, NEW bytes, NEW n \in Nat,
         DOMAIN bytes = 1 .. n, Len(bytes) = n,
         NEW b \in Int, NEW text \in Text, Apart(a, n, b, Len(text) + 1),
         HoldsText(m, b, text)
  PROVE  HoldsText(Write(m, a, bytes), b, text)
<1>0. Len(text) \in Nat /\ DOMAIN text = 1 .. Len(text)
  BY DEF Text
<1>1. ASSUME NEW k \in 1 .. Len(text) + 1
      PROVE  Contents(Write(m, a, bytes), b + k - 1) = Contents(m, b + k - 1)
  <2>1. b + k - 1 \in Int /\ b + k - 1 \notin a .. a + n - 1
    BY <1>0 DEF Apart
  <2>2. QED
    BY <2>1, WriteAt
<1>2. b + (Len(text) + 1) - 1 = b + Len(text)
  BY <1>0
<1>3. QED
  BY <1>0, <1>1, <1>2 DEF HoldsText

LEMMA TextWritten ==
  ASSUME NEW m, NEW a \in Int, NEW text \in Text, Contents(m, a + Len(text)) = Zero
  PROVE  HoldsText(Write(m, a, TextBytes(text)), a, text)
<1> DEFINE new == Write(m, a, TextBytes(text))
<1>0. Len(text) \in Nat /\ DOMAIN text = 1 .. Len(text)
  BY DEF Text
<1>1. ASSUME NEW k \in DOMAIN text
      PROVE  Contents(new, a + k - 1) = ByteIs(text[k], 0)
  <2>1. TextBytes(text)[k] = ByteIs(text[k], 0)
    BY DEF TextBytes
  <2>2. a + k - 1 \in Int /\ a + k - 1 \in a .. a + Len(text) - 1 /\ (a + k - 1) - a + 1 = k
    BY <1>0
  <2>3. Contents(new, a + k - 1) = TextBytes(text)[(a + k - 1) - a + 1]
    BY <2>2, TextLength, WriteAt
  <2>4. QED
    BY <2>1, <2>2, <2>3
<1>2. Contents(new, a + Len(text)) = Zero
  <2>1. a + Len(text) \in Int /\ a + Len(text) \notin a .. a + Len(text) - 1
    BY <1>0
  <2>2. QED
    BY <2>1, TextLength, WriteAt
<1>3. QED
  BY <1>1, <1>2 DEF HoldsText

LEMMA WordOfZero ==
  ASSUME NEW m, NEW a \in Int, \A b \in Int : b >= a => Contents(m, b) = Zero
  PROVE  HoldsWord(m, a, 0)
BY LongAssumption DEF HoldsWord, WordByte

(* A token kept: below it nothing changes, its pointers are there, and if  *)
(* there was nothing from TYPE on it can be read back.                     *)
LEMMA KeepWrites ==
  ASSUME NEW token, token.text \in Text, token.type \in {"other", "string"},
         malloc_ptr \in Nat, Keep(token)
  PROVE  LET s == malloc_ptr + TOKSZ
         IN  /\ Below(mem, mem', malloc_ptr)
             /\ HoldsWord(mem', malloc_ptr + NEXT, head)
             /\ HoldsWord(mem', malloc_ptr + TEXT, s)
             /\ (\A b \in Int : b >= malloc_ptr + TYPE => Contents(mem, b) = Zero) =>
                  /\ HoldsWord(mem', malloc_ptr + TYPE,
                               IF token.type = "string" THEN StringType ELSE 0)
                  /\ HoldsWord(mem', malloc_ptr + EXPR, 0)
                  /\ HoldsText(mem', s, token.text)
             /\ \A b \in DOMAIN mem' :
                  b \in DOMAIN mem \/ (b \in Int /\ (b < s \/ b < s + Len(token.text)))
<1> DEFINE p     == malloc_ptr
           s     == p + TOKSZ
           m1    == Write(mem, p + NEXT, WordBytes(head))
           m2    == Write(m1, s, TextBytes(token.text))
           m3    == Write(m2, p + TEXT, WordBytes(s))
           m4    == Write(m3, p + TYPE, WordBytes(StringType))
           size  == Len(token.text)
<1>1. mem' = (IF token.type = "string" THEN m4 ELSE m3)
  BY DEF Keep
<1>2. /\ p \in Int /\ s = p + 32 /\ size \in Nat /\ LONG \in Nat /\ LONG <= 8
      /\ p + NEXT = p /\ p + TYPE = p + 8 /\ p + TEXT = p + 16 /\ p + EXPR = p + 24
  BY TextLength, LongAssumption, ArenaAssumption DEF TOKSZ, NEXT, TYPE, TEXT, EXPR
<1>3. Below(mem, mem', p)
  <2> SUFFICES ASSUME NEW b \in Int, b < p
               PROVE  Contents(mem', b) = Contents(mem, b)
    BY DEF Below
  <2>1. Contents(m1, b) = Contents(mem, b)
    BY <1>2, WordLength, WriteAt
  <2>2. Contents(m2, b) = Contents(m1, b)
    BY <1>2, TextLength, WriteAt
  <2>3. Contents(m3, b) = Contents(m2, b)
    BY <1>2, WordLength, WriteAt
  <2>4. Contents(m4, b) = Contents(m3, b)
    BY <1>2, WordLength, WriteAt
  <2> HIDE DEF m1, m2, m3, m4
  <2>5. mem' = m4 \/ mem' = m3
    BY <1>1
  <2>6. QED
    BY <2>1, <2>2, <2>3, <2>4, <2>5
<1>4. HoldsWord(mem', p + NEXT, head)
  <2>1. HoldsWord(m1, p + NEXT, head)
    BY <1>2, WordWritten
  <2>2. HoldsWord(m2, p + NEXT, head)
    BY <1>2, <2>1, WordApart, TextLength DEF Apart
  <2>3. HoldsWord(m3, p + NEXT, head)
    BY <1>2, <2>2, WordApart, WordLength DEF Apart
  <2>4. HoldsWord(m4, p + NEXT, head)
    BY <1>2, <2>3, WordApart, WordLength DEF Apart
  <2> HIDE DEF m1, m2, m3, m4
  <2>5. mem' = m4 \/ mem' = m3
    BY <1>1
  <2>6. QED
    BY <2>3, <2>4, <2>5
<1>5. HoldsWord(mem', p + TEXT, s)
  <2>1. HoldsWord(m3, p + TEXT, s)
    BY <1>2, WordWritten
  <2>2. HoldsWord(m4, p + TEXT, s)
    BY <1>2, <2>1, WordApart, WordLength DEF Apart
  <2> HIDE DEF m1, m2, m3, m4
  <2>3. mem' = m4 \/ mem' = m3
    BY <1>1
  <2>4. QED
    BY <2>1, <2>2, <2>3
<1>6. ASSUME \A b \in Int : b >= p + TYPE => Contents(mem, b) = Zero
      PROVE  /\ HoldsWord(mem', p + TYPE,
                          IF token.type = "string" THEN StringType ELSE 0)
             /\ HoldsWord(mem', p + EXPR, 0)
             /\ HoldsText(mem', s, token.text)
  <2>1. HoldsWord(mem, p + TYPE, 0) /\ HoldsWord(mem, p + EXPR, 0)
    BY <1>2, <1>6, WordOfZero
  <2>2. HoldsWord(m1, p + TYPE, 0) /\ HoldsWord(m1, p + EXPR, 0)
    BY <1>2, <2>1, WordApart, WordLength DEF Apart
  <2>3. HoldsWord(m2, p + TYPE, 0) /\ HoldsWord(m2, p + EXPR, 0)
    BY <1>2, <2>2, WordApart, TextLength DEF Apart
  <2>4. HoldsWord(m3, p + TYPE, 0) /\ HoldsWord(m3, p + EXPR, 0)
    BY <1>2, <2>3, WordApart, WordLength DEF Apart
  <2>5. HoldsWord(m4, p + TYPE, StringType) /\ HoldsWord(m4, p + EXPR, 0)
    BY <1>2, <2>4, WordApart, WordLength, WordWritten DEF Apart
  <2>6. Contents(m1, s + size) = Zero
    BY <1>2, <1>6, WriteAt, WordLength
  <2>7. HoldsText(m2, s, token.text)
    BY <1>2, <2>6, TextWritten
  <2>8. HoldsText(m3, s, token.text)
    BY <1>2, <2>7, TextApart, WordLength DEF Apart
  <2>9. HoldsText(m4, s, token.text)
    BY <1>2, <2>8, TextApart, WordLength DEF Apart
  <2> HIDE DEF m1, m2, m3, m4
  <2>10. QED
    BY <1>1, <2>4, <2>5, <2>8, <2>9
<1>7. ASSUME NEW b \in DOMAIN mem'
      PROVE  b \in DOMAIN mem \/ (b \in Int /\ (b < s \/ b < s + size))
  BY <1>1, <1>2, <1>7, WordLength, TextLength DEF Write
<1>8. QED
  BY <1>3, <1>4, <1>5, <1>6, <1>7

-----------------------------------------------------------------------------
(* The list one token longer. *)

LEMMA Grown ==
  ASSUME IInv, IInv', pc = "tokenize", Blocks, StoreToken
  PROVE  /\ pc' = "tokenize" /\ Len(list) \in Nat /\ Len(list') = Len(list) + 1
         /\ DOMAIN list = 1 .. Len(list) /\ DOMAIN list' = 1 .. Len(list) + 1
         /\ Len(cells) = Len(list) /\ Len(cells') = Len(list) + 1
         /\ list'[1].text \in Text /\ list'[1].type \in {"other", "string"}
         /\ cells'[1] = malloc_ptr
         /\ \A j \in 1 .. Len(list) :
              list'[j + 1] = list[j] /\ cells'[j + 1] = cells[j]
         /\ \A j \in 1 .. Len(list) :
              list[j].text \in Text /\ Len(list[j].text) \in Nat /\ cells[j] \in Nat \ {0}
         /\ cells' \in Seq(Nat \ {0})
         /\ malloc_ptr' = malloc_ptr + TOKSZ + STRSZ
         /\ head = IF Len(list) = 0 THEN 0 ELSE cells[1]
         /\ Keep(list'[1])
<1>1. pc' = "tokenize" /\ (StoreAtom \/ StoreString) /\ Keep(list'[1])
  BY DEF StoreToken, StoreAtom, StoreString
<1>2. list \in Seq(FreshToken) /\ list' \in Seq(FreshToken)
  BY <1>1 DEF IInv, Unapplied
<1>3. \E t : t.type \in {"other", "string"} /\ list' = <<t>> \o list
  <2>1. PICK type, end : type \in {"other", "string"} /\ Put(type, end)
    BY <1>1 DEF StoreAtom, StoreString
  <2> DEFINE t == [type |-> type, text |-> SubSeq(source, pos, end - 1), expr |-> NULL]
  <2>2. t.type = type /\ list' = <<t>> \o list
    BY <2>1 DEF Put
  <2> HIDE DEF t
  <2>3. QED
    BY <2>1, <2>2
<1>4. PICK t : t.type \in {"other", "string"} /\ list' = <<t>> \o list
  BY <1>3
<1>5. /\ Len(list') = Len(list) + 1 /\ list'[1] = t
      /\ \A j \in 1 .. Len(list) : list'[j + 1] = list[j]
  BY <1>2, <1>4
<1>6. cells \in Seq(Nat \ {0}) /\ malloc_ptr \in Nat \ {0} /\ Len(cells) = Len(list)
  BY DEF Blocks
<1>7. cells' = <<malloc_ptr>> \o cells /\ malloc_ptr' = malloc_ptr + TOKSZ + STRSZ
  BY <1>1 DEF Keep, TextRoom
<1>8. /\ Len(cells') = Len(cells) + 1 /\ cells'[1] = malloc_ptr
      /\ cells' \in Seq(Nat \ {0})
      /\ \A j \in 1 .. Len(cells) : cells'[j + 1] = cells[j]
  BY <1>6, <1>7
<1>9. \A l \in Seq(FreshToken) : \A j \in 1 .. Len(l) :
        l[j].text \in Text /\ Len(l[j].text) \in Nat
  BY DEF FreshToken, Token, Text
<1>10. head = IF Len(list) = 0 THEN 0 ELSE cells[1]
  BY <1>6 DEF head
<1>11. /\ Len(list) \in Nat /\ DOMAIN list = 1 .. Len(list)
       /\ DOMAIN list' = 1 .. Len(list')
  BY <1>2
<1>12. list'[1].text \in Text /\ list'[1].type \in {"other", "string"}
  <2>1. 1 \in 1 .. Len(list')
    BY <1>5, <1>11
  <2>2. list'[1].text \in Text
    BY <1>2, <1>9, <2>1
  <2>3. QED
    BY <1>4, <1>5, <2>2
<1>13. \A j \in 1 .. Len(list) :
         list[j].text \in Text /\ Len(list[j].text) \in Nat /\ cells[j] \in Nat \ {0}
  BY <1>2, <1>6, <1>9
<1>14. QED
  BY <1>1, <1>5, <1>6, <1>7, <1>8, <1>10, <1>11, <1>12, <1>13

LEMMA StoreBlocks ==
  ASSUME IInv, IInv', pc = "tokenize", Blocks, StoreToken
  PROVE  Blocks'
<1>0. /\ Len(list) \in Nat /\ DOMAIN list = 1 .. Len(list)
      /\ DOMAIN list' = 1 .. Len(list) + 1
      /\ cells'[1] = malloc_ptr /\ malloc_ptr' = malloc_ptr + 32 + STRSZ
      /\ STRSZ \in Nat \ {0}
      /\ \A j \in 1 .. Len(list) : cells'[j + 1] = cells[j] /\ cells[j] \in Nat \ {0}
  BY Grown, ArenaAssumption DEF TOKSZ
<1>1. /\ cells' \in Seq(Nat \ {0}) /\ Len(cells') = Len(list')
      /\ malloc_ptr' \in Nat \ {0} /\ malloc_ptr \in Nat \ {0}
  BY <1>0, Grown DEF Blocks
<1>2. /\ TextOf(1)' = malloc_ptr + 32
      /\ \A j \in 1 .. Len(list) : TextOf(j + 1)' = TextOf(j) /\ TextOf(j) \in Nat
  BY <1>0, <1>1 DEF TextOf, TOKSZ
<1>3. \A j \in 1 .. Len(list) : TextOf(j) + STRSZ <= malloc_ptr
  BY <1>0 DEF Blocks
<1>4. ASSUME NEW j \in DOMAIN list' PROVE (TextOf(j) + STRSZ <= malloc_ptr)'
  <2>1. CASE j = 1
    BY <1>0, <1>1, <1>2, <2>1
  <2>2. CASE j # 1
    <3>1. j - 1 \in 1 .. Len(list) /\ (j - 1) + 1 = j
      BY <1>0, <2>2
    <3>2. TextOf(j)' = TextOf(j - 1) /\ TextOf(j - 1) \in Nat
      BY <1>2, <3>1
    <3>3. QED
      BY <1>0, <1>1, <1>3, <3>1, <3>2
  <2>3. QED
    BY <2>1, <2>2
<1>5. ASSUME NEW i \in DOMAIN list', NEW j \in DOMAIN list', i < j
      PROVE  (TextOf(j) + STRSZ <= cells[i])'
  <2>1. j - 1 \in 1 .. Len(list) /\ (j - 1) + 1 = j
    BY <1>0, <1>5
  <2>2. TextOf(j)' = TextOf(j - 1)
    BY <1>2, <2>1
  <2>3. CASE i = 1
    BY <1>0, <1>3, <2>1, <2>2, <2>3
  <2>4. CASE i # 1
    <3>1. i - 1 \in 1 .. Len(list) /\ (i - 1) + 1 = i /\ i - 1 < j - 1
      BY <1>0, <1>5, <2>4
    <3>2. cells'[i] = cells[i - 1]
      BY <1>0, <3>1
    <3>3. TextOf(j - 1) + STRSZ <= cells[i - 1]
      BY <1>0, <2>1, <3>1 DEF Blocks
    <3>4. QED
      BY <2>2, <3>2, <3>3
  <2>5. QED
    BY <2>3, <2>4
<1>6. QED
  BY <1>1, <1>4, <1>5 DEF Blocks

(* The ends of the texts, as far as the list goes. *)
LEMMA Ends ==
  ASSUME IInv, IInv', pc = "tokenize", Blocks, StoreToken
  PROVE  /\ TextOf(1)' = malloc_ptr + TOKSZ
         /\ EndOf(1)' = malloc_ptr + TOKSZ + Len(list'[1].text)
         /\ \A j \in 1 .. Len(list) :
              /\ TextOf(j + 1)' = TextOf(j) /\ EndOf(j + 1)' = EndOf(j)
              /\ TextOf(j) \in Nat /\ EndOf(j) \in Nat
<1>1. /\ cells'[1] = malloc_ptr /\ Len(list) \in Nat
      /\ \A j \in 1 .. Len(list) :
           list'[j + 1] = list[j] /\ cells'[j + 1] = cells[j]
      /\ \A j \in 1 .. Len(list) : Len(list[j].text) \in Nat /\ cells[j] \in Nat \ {0}
  BY Grown
<1>2. QED
  BY <1>1 DEF TextOf, EndOf, TOKSZ

LEMMA StoreWritten ==
  ASSUME IInv, IInv', pc = "tokenize", Blocks, Written, StoreToken
  PROVE  Written'
<1>1. /\ Len(list) \in Nat /\ DOMAIN list = 1 .. Len(list)
      /\ DOMAIN list' = 1 .. Len(list) + 1
      /\ malloc_ptr \in Nat /\ malloc_ptr' = malloc_ptr + TOKSZ + STRSZ
      /\ STRSZ \in Nat /\ TOKSZ = 32
      /\ Len(list'[1].text) \in Nat
      /\ list'[1].text \in Text /\ list'[1].type \in {"other", "string"}
      /\ Keep(list'[1])
  BY Grown, ArenaAssumption DEF TOKSZ, Blocks, Text
<1> SUFFICES ASSUME NEW b \in DOMAIN mem'
             PROVE  b \in Int /\ (b < malloc_ptr' \/ \E j \in DOMAIN list' : b < EndOf(j)')
  BY DEF Written
<1>2. \/ b \in DOMAIN mem
      \/ b \in Int /\ b < malloc_ptr + TOKSZ
      \/ b \in Int /\ b < malloc_ptr + TOKSZ + Len(list'[1].text)
  BY <1>1, KeepWrites
<1>3. CASE b \in DOMAIN mem
  <2>1. CASE b \in Int /\ b < malloc_ptr
    BY <1>1, <2>1
  <2>2. CASE b \in Int /\ \E j \in DOMAIN list : b < EndOf(j)
    <3>1. PICK j \in 1 .. Len(list) : b < EndOf(j)
      BY <1>1, <2>2
    <3>2. j + 1 \in DOMAIN list'
      BY <1>1
    <3>3. EndOf(j + 1)' = EndOf(j)
      BY Ends
    <3>4. QED
      BY <2>2, <3>1, <3>2, <3>3
  <2>3. QED
    BY <1>3, <2>1, <2>2 DEF Written
<1>4. CASE b \in Int /\ b < malloc_ptr + TOKSZ
  BY <1>1, <1>4
<1>5. CASE b \in Int /\ b < malloc_ptr + TOKSZ + Len(list'[1].text)
  <2>1. 1 \in DOMAIN list'
    BY <1>1
  <2>2. EndOf(1)' = malloc_ptr + TOKSZ + Len(list'[1].text)
    BY Ends
  <2>3. QED
    BY <1>5, <2>1, <2>2
<1>6. QED
  BY <1>2, <1>3, <1>4, <1>5

(* What a token read earlier has below malloc_ptr stays. *)
LEMMA OldKept ==
  ASSUME IInv, IInv', pc = "tokenize", Blocks, StoreToken,
         NEW k \in 1 .. Len(list), Linked(k) /\ (OutOfReach(k) => Intact(k))
  PROVE  Linked(k + 1)' /\ (OutOfReach(k + 1)' => Intact(k + 1)')
<1>1. /\ Len(list) \in Nat /\ Len(list') = Len(list) + 1
      /\ cells'[k + 1] = cells[k] /\ list'[k + 1] = list[k]
      /\ k < Len(list) => cells'[(k + 1) + 1] = cells[k + 1]
      /\ cells[k] \in Nat \ {0} /\ list[k].text \in Text /\ Len(list[k].text) \in Nat
      /\ TextOf(k + 1)' = TextOf(k) /\ TextOf(k) = cells[k] + 32
      /\ k + 1 \in Int /\ (k < Len(list) <=> k + 1 < Len(list'))
  <2>1. /\ Len(list) \in Nat /\ Len(list') = Len(list) + 1
        /\ cells'[k + 1] = cells[k] /\ list'[k + 1] = list[k]
        /\ cells[k] \in Nat \ {0} /\ list[k].text \in Text
        /\ Len(list[k].text) \in Nat
    BY Grown
  <2>2. ASSUME k < Len(list) PROVE cells'[(k + 1) + 1] = cells[k + 1]
    <3>1. k + 1 \in 1 .. Len(list)
      BY <2>1, <2>2
    <3>2. QED
      BY <3>1, Grown
  <2>3. TextOf(k + 1)' = TextOf(k)
    BY Ends
  <2>4. QED
    BY <2>1, <2>2, <2>3 DEF TextOf, TOKSZ
<1>2. /\ malloc_ptr \in Int /\ TextOf(k) + STRSZ <= malloc_ptr
      /\ STRSZ \in Nat \ {0} /\ LONG \in Nat /\ LONG <= 8
      /\ NEXT = 0 /\ TYPE = 8 /\ TEXT = 16 /\ EXPR = 24
  <2>1. k \in DOMAIN list
    BY Grown
  <2>2. malloc_ptr \in Int /\ TextOf(k) + STRSZ <= malloc_ptr
    BY <2>1 DEF Blocks
  <2>3. QED
    BY <2>2, ArenaAssumption, LongAssumption DEF NEXT, TYPE, TEXT, EXPR
<1>3. Below(mem, mem', malloc_ptr)
  <2>1. /\ Keep(list'[1]) /\ list'[1].text \in Text
        /\ list'[1].type \in {"other", "string"} /\ malloc_ptr \in Nat
    BY Grown DEF Blocks
  <2>2. QED
    BY <2>1, KeepWrites
<1>4. \A a, w : a \in Int /\ a + LONG <= malloc_ptr /\ HoldsWord(mem, a, w)
                         => HoldsWord(mem', a, w)
  BY <1>2, <1>3, WordBelow
<1>5. /\ cells[k] + NEXT \in Int /\ cells[k] + NEXT + LONG <= malloc_ptr
      /\ cells[k] + TYPE \in Int /\ cells[k] + TYPE + LONG <= malloc_ptr
      /\ cells[k] + TEXT \in Int /\ cells[k] + TEXT + LONG <= malloc_ptr
      /\ cells[k] + EXPR \in Int /\ cells[k] + EXPR + LONG <= malloc_ptr
  <2>1. cells[k] \in Nat /\ TextOf(k) = cells[k] + 32
    BY <1>1
  <2>2. cells[k] + 32 < malloc_ptr
    BY <1>2, <2>1
  <2>3. LONG \in Nat /\ LONG <= 8 /\ malloc_ptr \in Int
    BY <1>2
  <2>4. \A d \in 0 .. 24 : cells[k] + d \in Int /\ cells[k] + d + LONG <= malloc_ptr
    BY ONLY <2>1, <2>2, <2>3
  <2>5. QED
    BY <2>4 DEF NEXT, TYPE, TEXT, EXPR
<1>6. Linked(k + 1)'
  <2>1. /\ HoldsWord(mem', cells[k] + NEXT, IF k < Len(list) THEN cells[k + 1] ELSE 0)
        /\ HoldsWord(mem', cells[k] + TEXT, TextOf(k))
    BY <1>4, <1>5 DEF Linked
  <2>2. (IF k < Len(list) THEN cells[k + 1] ELSE 0)
          = (IF k + 1 < Len(list') THEN cells'[(k + 1) + 1] ELSE 0)
    BY <1>1
  <2>3. QED
    BY <1>1, <2>1, <2>2 DEF Linked
<1>7. ASSUME OutOfReach(k + 1)' PROVE Intact(k + 1)'
  <2>1. Len(list[k].text) < STRSZ
    BY <1>1, <1>7 DEF OutOfReach
  <2>2. ASSUME NEW i \in k + 1 .. Len(list) PROVE EndOf(i) <= cells[k] + TYPE
    <3>1. i \in 1 .. Len(list) /\ i + 1 \in (k + 1) + 1 .. Len(list')
      BY <1>1
    <3>2. EndOf(i + 1)' <= cells'[k + 1] + TYPE
      BY <1>7, <3>1 DEF OutOfReach
    <3>3. QED
      BY <1>1, <3>1, <3>2, Ends
  <2>3. Intact(k)
    BY <2>1, <2>2 DEF OutOfReach
  <2>4. /\ HoldsWord(mem', cells[k] + TYPE,
                     IF list[k].type = "string" THEN StringType ELSE 0)
        /\ HoldsWord(mem', cells[k] + EXPR, 0)
    BY <1>4, <1>5, <2>3 DEF Intact
  <2>5. HoldsText(mem', TextOf(k), list[k].text)
    <3>1. TextOf(k) \in Int /\ TextOf(k) + Len(list[k].text) < malloc_ptr
      BY <1>1, <1>2, <2>1
    <3>2. QED
      BY <1>1, <1>2, <1>3, <2>3, <3>1, TextBelow DEF Intact
  <2>6. QED
    BY <1>1, <2>4, <2>5 DEF Intact
<1>8. QED
  BY <1>6, <1>7

(* The token itself finds nothing from its TYPE on that it does not write, *)
(* unless an earlier text has reached it.                                  *)
LEMMA NewKept ==
  ASSUME IInv, IInv', pc = "tokenize", Blocks, Written, StoreToken
  PROVE  Linked(1)' /\ (OutOfReach(1)' => Intact(1)')
<1>1. /\ Len(list) \in Nat /\ Len(list') = Len(list) + 1
      /\ DOMAIN list = 1 .. Len(list) /\ cells'[1] = malloc_ptr
      /\ list'[1].text \in Text /\ list'[1].type \in {"other", "string"}
      /\ Keep(list'[1])
      /\ head = IF Len(list) = 0 THEN 0 ELSE cells[1]
  BY Grown
<1>2. malloc_ptr \in Nat /\ TYPE = 8
  BY DEF Blocks, TYPE
<1>3. TextOf(1)' = malloc_ptr + TOKSZ
  BY Ends
<1>4. /\ HoldsWord(mem', malloc_ptr + NEXT, head)
      /\ HoldsWord(mem', malloc_ptr + TEXT, malloc_ptr + TOKSZ)
      /\ (\A b \in Int : b >= malloc_ptr + TYPE => Contents(mem, b) = Zero) =>
           /\ HoldsWord(mem', malloc_ptr + TYPE,
                        IF list'[1].type = "string" THEN StringType ELSE 0)
           /\ HoldsWord(mem', malloc_ptr + EXPR, 0)
           /\ HoldsText(mem', malloc_ptr + TOKSZ, list'[1].text)
  BY <1>1, <1>2, KeepWrites
<1>5. Linked(1)'
  <2>1. head = (IF 1 < Len(list') THEN cells'[2] ELSE 0)
    <3>1. CASE Len(list) = 0
      BY <1>1, <3>1
    <3>2. CASE Len(list) # 0
      <4>1. 1 \in 1 .. Len(list)
        BY <1>1, <3>2
      <4>2. cells'[1 + 1] = cells[1]
        BY <4>1, Grown
      <4>3. QED
        BY <1>1, <3>2, <4>2
    <3>3. QED
      BY <3>1, <3>2
  <2>2. QED
    BY <1>1, <1>3, <1>4, <2>1 DEF Linked
<1>6. ASSUME OutOfReach(1)' PROVE Intact(1)'
  <2>1. ASSUME NEW i \in 1 .. Len(list) PROVE EndOf(i) <= malloc_ptr + TYPE
    <3>1. i + 1 \in 1 + 1 .. Len(list')
      BY <1>1
    <3>2. EndOf(i + 1)' <= cells'[1] + TYPE
      BY <1>6, <3>1 DEF OutOfReach
    <3>3. EndOf(i + 1)' = EndOf(i)
      BY Ends
    <3>4. QED
      BY <1>1, <3>2, <3>3
  <2>2. \A i \in 1 .. Len(list) : EndOf(i) \in Nat
    BY Ends
  <2>3. ASSUME NEW b \in Int, b >= malloc_ptr + TYPE
        PROVE  Contents(mem, b) = Zero
    <3>1. ~(b < malloc_ptr)
      BY <1>2, <2>3
    <3>2. ASSUME NEW i \in DOMAIN list PROVE ~(b < EndOf(i))
      BY <1>1, <1>2, <2>1, <2>2, <2>3
    <3>3. b \notin DOMAIN mem
      BY <3>1, <3>2 DEF Written
    <3>4. QED
      BY <3>3 DEF Contents
  <2>4. QED
    BY <1>1, <1>3, <1>4, <2>3 DEF Intact
<1>7. QED
  BY <1>5, <1>6

LEMMA StoreKept ==
  ASSUME IInv, IInv', pc = "tokenize", Blocks, Written, ListIsKept, StoreToken
  PROVE  ListIsKept'
<1>1. /\ Len(list) \in Nat /\ DOMAIN list = 1 .. Len(list)
      /\ DOMAIN list' = 1 .. Len(list) + 1
  BY Grown
<1>2. ASSUME NEW j \in DOMAIN list'
      PROVE  Linked(j)' /\ (OutOfReach(j)' => Intact(j)')
  <2>1. CASE j = 1
    BY <2>1, NewKept
  <2>2. CASE j # 1
    <3> DEFINE k == j - 1
    <3>1. k \in 1 .. Len(list) /\ k + 1 = j
      BY <1>1, <2>2
    <3>2. Linked(k) /\ (OutOfReach(k) => Intact(k))
      BY <1>1, <3>1 DEF ListIsKept
    <3> HIDE DEF k
    <3>3. Linked(k + 1)' /\ (OutOfReach(k + 1)' => Intact(k + 1)')
      BY <3>1, <3>2, OldKept
    <3>4. QED
      BY <3>1, <3>3
  <2>3. QED
    BY <2>1, <2>2
<1>3. QED
  BY <1>2 DEF ListIsKept

-----------------------------------------------------------------------------
LEMMA ArenaInitInv == ArenaInit => IInv /\ AInv
<1> SUFFICES ASSUME ArenaInit PROVE IInv /\ AInv
  OBVIOUS
<1>1. IInv
  BY InitInv DEF ArenaInit
<1>2. list = << >> /\ cells = << >> /\ mem = << >> /\ malloc_ptr \in Nat \ {0}
  BY ArenaAssumption DEF ArenaInit, Init
<1>3. QED
  BY <1>1, <1>2 DEF AInv, Blocks, Written, ListIsKept

(* Outside StoreToken neither the arena nor the list it holds changes. *)
LEMMA ArenaNextInv ==
  ASSUME IInv, AInv, [ArenaNext]_<<vars, memory>>
  PROVE  IInv' /\ AInv'
<1>1. [Next]_vars
  BY DEF ArenaNext, StoreToken, Follow, Afterwards, Next
<1>2. IInv'
  BY <1>1, NextInv
<1>3. CASE StoreToken
  <2>1. pc = "tokenize"
    BY <1>3 DEF StoreToken, StoreAtom, StoreString, Reading
  <2>2. Blocks /\ Written /\ ListIsKept
    BY <2>1 DEF AInv, Reads
  <2>3. QED
    BY <1>2, <1>3, <2>1, <2>2, StoreBlocks, StoreWritten, StoreKept DEF AInv
<1>4. CASE Follow
  <2>1. UNCHANGED <<list, memory>> /\ Reads
    BY <1>4 DEF Follow, SkipBlank, SkipComment, EndOfFile, Reading, Reads
  <2>2. Blocks /\ Written /\ ListIsKept
    BY <2>1 DEF AInv
  <2>3. QED
    BY <1>2, <2>1, <2>2 DEF AInv, Reads, memory, Blocks, Written, ListIsKept, Linked,
         Intact, OutOfReach, TextOf, EndOf
<1>5. CASE Afterwards
  <2>1. ~Reads'
    BY <1>2, <1>5 DEF Afterwards, ReverseList, IdentifyOther, IdentifyMacro, Fault,
         LineMacro, ProcessString, EvalImmediates, PreserveOther, PrintHex, Pass, Step,
         Reads
  <2>2. QED
    BY <1>2, <2>1 DEF AInv
<1>6. CASE UNCHANGED <<vars, memory>>
  BY <1>2, <1>6 DEF vars, memory, AInv, Reads, Blocks, Written, ListIsKept, Linked,
       Intact, OutOfReach, TextOf, EndOf
<1>7. QED
  BY <1>3, <1>4, <1>5, <1>6 DEF ArenaNext

(* Where the list is kept changes nothing of what M0 does with it, so what *)
(* is proved of M0's passes holds with the arena beside them.              *)
THEOREM ArenaFollowsM0 == ArenaSpec => Spec
<1>1. ArenaInit => Init
  BY DEF ArenaInit
<1>2. [ArenaNext]_<<vars, memory>> => [Next]_vars
  BY DEF ArenaNext, StoreToken, Follow, Afterwards, Next
<1>3. QED
  BY <1>1, <1>2, PTL DEF ArenaSpec, Spec

(***************************************************************************)
(* Whatever the lengths of the texts, for any room: the pointers by which  *)
(* the list is walked are never written over (Tokenize_Line writes NEXT    *)
(* and TEXT after any text before them), and a token that no overlong text *)
(* reaches reads back as Store_Atom or Store_String took it in.            *)
(***************************************************************************)
THEOREM ListKept == ArenaSpec => []ListIsKept
<1>1. AInv => ListIsKept
  BY DEF AInv, ListIsKept, Reads
<1>2. QED
  BY <1>1, ArenaInitInv, ArenaNextInv, PTL DEF ArenaSpec
==============================================================================
