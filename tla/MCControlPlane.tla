--------------------------- MODULE MCControlPlane ----------------------------
(***************************************************************************)
(* TLC instances of ControlPlane: two concurrent calls.                    *)
(***************************************************************************)
EXTENDS ControlPlane

CONSTANTS c1, c2
==============================================================================
