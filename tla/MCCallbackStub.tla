--------------------------- MODULE MCCallbackStub ---------------------------
(***************************************************************************)
(* Small instances of CallbackStub: the stack has room for two calls, one  *)
(* inside the other.                                                       *)
(***************************************************************************)
EXTENDS CallbackStub

MCLowest == -40
=============================================================================
