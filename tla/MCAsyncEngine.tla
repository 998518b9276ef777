--------------------------- MODULE MCAsyncEngine ----------------------------
(* A small instance of AsyncEngine for TLC. *)
EXTENDS AsyncEngine
=============================================================================
