--------------------------- MODULE MCKvDiskCache ---------------------------
EXTENDS KvDiskCache

CONSTANTS u, a, h   \* a user turn, an answer, hidden reasoning

MCHistory == {<<u>>, <<u, a>>, <<u, h, a>>, <<u, a, u>>}
MCPrompt == {<<u, a, u>>, <<u, h, a, u>>}

Small == [quant |-> 2, ctx |-> 5, chunk |-> 2]
Large == [quant |-> 2, ctx |-> 6, chunk |-> 3]
Other == [quant |-> 4, ctx |-> 5, chunk |-> 2]
MCSetup == {Small, Large, Other}
=============================================================================
