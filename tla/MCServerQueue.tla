--------------------------- MODULE MCServerQueue ---------------------------
(* A small ds4-server for TLC.  The configuration gives two connections and  *)
(* signals on any thread; there is no symmetry, because it checks liveness.  *)
EXTENDS ServerQueue
=============================================================================
