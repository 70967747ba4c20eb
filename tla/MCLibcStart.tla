----------------------------- MODULE MCLibcStart -----------------------------
(* Areas of a few bytes, and inputs that just fit them and that do not.    *)
EXTENDS LibcStart

CONSTANTS MaxArgs, MaxEntries

Lists(S, n) == UNION {[1 .. k -> S] : k \in 0 .. n}

MCCommandLines == Lists({0, 1, 3}, MaxArgs)
MCEnvironments == Lists({1, 3}, MaxEntries)
MCPaths        == {0, 2, 3}
MCBlocks       == {3}
==============================================================================
