------------------------------- MODULE MCHex2 -------------------------------
(***************************************************************************)
(* hex2 and its simulator over every input of at most MaxItems items:      *)
(* names of at most 63 characters, and names longer than a field.          *)
(***************************************************************************)
EXTENDS Hex2Sim

CONSTANT MaxItems

a == <<"a">>
b == <<"b">>

MCFinal == {"a", "b", ""}
MCFull  == {}
MCBlank == ""

(* A name that breaks off: its whole fields, or nothing. *)
MCCuts == [n \in Name |->
             (IF Len(n) = 2 THEN {<<n[1], MCBlank>>, <<MCBlank>>}
                            ELSE {<<MCBlank>>}) \ {n}]

Digit(v) == [kind |-> "digit", v |-> v]
Label(n) == [kind |-> "label", name |-> n]
Ptr(s, n, base) ==
  [kind |-> "pointer", sigil |-> s, name |-> n, base |-> base]

MCItems == {Digit(1), Digit(10), Label(a), Label(b), [kind |-> "ignored"],
            Ptr("!", a, None), Ptr("%", a, b), Ptr("@", b, a),
            Ptr("$", b, None), Ptr("&", a, b)}

(* Names of 64 to 127 characters, beside short ones. *)
MCFullOne == {"A"}
Ab == <<"A", "b">>
MCLongItems == {Label(<<"A", "">>), Label(b),
                Ptr("%", Ab, None), Ptr("%", b, None)}
MCLongPrograms == UNION {[1 .. n -> MCLongItems] : n \in 0 .. MaxItems}

MCPrograms == UNION {[1 .. n -> MCItems] : n \in 0 .. MaxItems}
=============================================================================
