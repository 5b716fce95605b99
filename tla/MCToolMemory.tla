--------------------------- MODULE MCToolMemory ---------------------------
(* A few turns, some of which call two tools, and what clients replay of them. *)
EXTENDS ToolMemory

CONSTANTS a, b, c   \* tool call ids

\* One conversation of two turns, and a third turn in another one.
OneThenTwo == <<<<a>>, <<b, c>>>>
ThreeTurns == <<<<a>>, <<b>>, <<c>>>>
Line       == <<<<1>>, <<1, 2>>>>
Fork       == <<<<1>>, <<1, 2>>, <<3>>>>

\* Both turns, the second (a client that dropped the start of the conversation),
\* and one message that merges calls of the two.
Replays       == {<<<<a>>, <<b, c>>>>, <<<<b, c>>>>, <<<<a, b>>>>}
ReplaysOfTwo  == {<<<<a>>, <<b>>>>, <<<<b>>>>}

DsmlSymmetry == Permutations(Dsml)
Symmetry == Permutations(Parser) \cup Permutations(Dsml)
=============================================================================
