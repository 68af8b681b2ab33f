------------------------- MODULE MCSessionPermissions -------------------------
(* Instances of SessionPermissions for model checking. *)
EXTENDS SessionPermissions
=============================================================================
