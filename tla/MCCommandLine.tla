---------------------------- MODULE MCCommandLine ----------------------------
(* Every line of at most MaxLine characters, and the lines __spawn writes. *)
EXTENDS CommandLine

CONSTANTS MaxLine, MaxArg

MCPlain == {"x"}

Strings(S, n) == UNION {[1 .. k -> S] : k \in 0 .. n}

MCArgLists ==
  LET Args == Strings({"x", "space", "quote", "slash"}, MaxArg)
  IN  {<<arg>> : arg \in Args} \cup {<<arg, <<"x", "slash">>>> : arg \in Args}
        \cup {<<<<"slash", "quote">>, arg>> : arg \in Args}

MCLines == Strings({"x", "space", "tab", "quote", "slash"}, MaxLine)
             \cup {Join(args) : args \in MCArgLists}
==============================================================================
