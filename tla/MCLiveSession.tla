--------------------------- MODULE MCLiveSession ---------------------------
(* Clients of three protocols that take turns on one session. *)
EXTENDS LiveSession, TLC

CONSTANTS r, a, h   \* a Responses, an Anthropic and a chat client

ApiOfThem == r :> "responses" @@ a :> "anthropic" @@ h :> "chat"
ApiOfMC == [c \in Conv |-> ApiOfThem[c]]
=============================================================================
