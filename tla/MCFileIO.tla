------------------------------ MODULE MCFileIO ------------------------------
(* Two files, one of them shorter than what is asked of it. *)
EXTENDS FileIO

MCContents == {<<1, 2, 3>>}
MCSlots    == {[s \in 0 .. 2 |-> 3]}
MCData     == {<<4>>, <<5, 6>>}
MCOffset   == {-1, 2}
=============================================================================
