--------------------------- MODULE MCAsyncuaBackend ---------------------------
(***************************************************************************)
(* Small instances of AsyncuaBackend.                                      *)
(***************************************************************************)
EXTENDS AsyncuaBackend

CONSTANTS w1, w2, r1, r2
=============================================================================
