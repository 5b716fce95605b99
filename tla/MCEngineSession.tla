-------------------------- MODULE MCEngineSession --------------------------
(* A target model that both likes and dislikes what came before. *)
EXTENDS EngineSession

MCGreedy(t) == IF (Len(t) + t[Len(t)]) % 3 = 0 THEN 2 ELSE 1

\* After texts of some lengths both tokens are nearly tied.
MCClose(t) == IF Len(t) % 4 = 1 THEN Token ELSE {MCGreedy(t)}

\* Prompts that extend each other, and one that leaves the others early.
MCPrompts == {<<1, 1, 1, 1>>, <<1, 1, 1, 1, 2, 1>>, <<1, 1, 1, 1, 2, 1, 1, 1>>, <<2, 1, 1, 1, 1>>}
=============================================================================
