--------------------------- MODULE MCSessionTools ---------------------------
(* SessionTools on a few calls of a session. *)
EXTENDS SessionTools
=============================================================================
