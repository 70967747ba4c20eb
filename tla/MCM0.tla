--------------------------------- MODULE MCM0 ---------------------------------
(***************************************************************************)
(* Files of at most MaxChunks pieces, every prefixed number of at most     *)
(* MaxDigits characters, and texts that leave their room.                  *)
(***************************************************************************)
EXTENDS M0Meaning, M0Arena

CONSTANTS MaxChunks, MaxDigits

sp == <<32>>
nl == <<13, 10>>

MCChunks ==
  {DEFINE_str \o sp,
   DEFINE_str \o sp \o <<97>> \o sp \o <<37, 49>> \o nl,       \* DEFINE a %1
   DEFINE_str \o sp \o <<97>> \o sp \o <<34, 98, 34>>,         \* DEFINE a "b"
   <<97>> \o sp,                                               \* a
   <<34, 97, 34>> \o sp,                                       \* "a"
   <<39, 69, 56, 39, 10>>,                                     \* 'E8'
   <<37, 49>> \o nl,                                           \* %1
   <<59, 97, 32>>,                                             \* ;a
   <<10>>,
   <<58, 97, 34>> \o sp,                                       \* :a"
   <<34>>}

MCNumbers == UNION {[1 .. n -> {45, 48, 49, 57, 65, 70, 120}] : n \in 0 .. MaxDigits}

Joined(n) == {FlattenSeq(c) : c \in [1 .. n -> MCChunks]}

(* Texts around the room of STRSZ = 8, and so long that they reach the     *)
(* first field of one of the two tokens behind them, or go past it.        *)
MCFew  == {<< >>, <<97>> \o sp, <<34, 97, 34>> \o sp}
MCLengths == {6, 7, 8, 15, 16, 17, 31, 32, 47, 55, 56, 57, 90}
MCTexts   == UNION {{<<97>> \o [k \in 1 .. n |-> 97] \o sp,
                     <<34>> \o [k \in 1 .. n |-> 97] \o <<34>>} : n \in MCLengths}
MCLong    == {text \o a \o b : text \in MCTexts, a \in MCFew, b \in MCFew}

MCSources == MCLong \cup UNION {Joined(n) : n \in 0 .. MaxChunks}
               \cup {<<p>> \o s : p \in {33, 64, 37}, s \in MCNumbers}
               \cup {<<37>> \o s : s \in {<<45, 49, 54, 55, 55, 55, 50, 49, 55>>,
                                          <<49, 54, 55, 55, 55, 50, 49, 55>>,
                                          <<48, 120, 70, 65, 57, 49, 65>>}}

(* Numbers without a prefix, and prefixes of numbers in lower case. *)
MCBare == {<<c>> \o s : c \in {58, 69}, s \in MCNumbers}
            \cup {<<37>> \o s : s \in UNION {[1 .. n -> {48, 57, 97, 120}] : n \in 0 .. MaxDigits}}
==============================================================================
