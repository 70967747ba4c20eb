------------------------------- MODULE MCHex1 -------------------------------
(* hex0 and hex1 over every input of at most MaxPieces pieces. *)
EXTENDS Stage0Sim

CONSTANT MaxPieces

(* "1", "1f", ":1", "%1", a sigil or a comment sign alone, a new line. *)
Pieces == {<<49>>, <<49, 102>>, <<58, 49>>, <<37, 49>>, <<58>>, <<37>>,
           <<35>>, <<59>>, <<10>>}

MCByte   == UNION {ToSet(p) : p \in Pieces}
MCInputs == {FlattenSeq(s) : s \in UNION {[1 .. n -> Pieces] : n \in 0 .. MaxPieces}}
=============================================================================
