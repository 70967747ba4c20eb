------------------------------- MODULE MCCatm -------------------------------
(* catm over small files, each of which may be missing, and arguments that  *)
(* may be impossible to convert.                                           *)
EXTENDS Catm

CONSTANT MaxInputs

MCPath   == {"o", "a", "b"}
MCDatum  == 1 .. 5
MCHandle == 1 .. 2

MCFile(p) == CASE p = "o" -> {<<5>>}
               [] p = "a" -> {<<1, 2, 3>>}
               [] p = "b" -> {<<4>>, << >>}

MCDisks == UNION {{d \in [e -> UNION {MCFile(p) : p \in e}] :
                     \A p \in e : d[p] \in MCFile(p)} : e \in SUBSET MCPath}

MCInputs == UNION {[1 .. n -> MCPath \cup {NoPath}] : n \in 0 .. MaxInputs}

MCArgs == {<<o>> \o s : o \in {"o", NoPath}, s \in MCInputs}

-----------------------------------------------------------------------------
(* catm ends, whatever cannot be opened, read or written. *)
Termination == <>(pc = "exit")
=============================================================================
