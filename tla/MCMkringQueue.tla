---------------------------- MODULE MCMkringQueue ----------------------------
(***************************************************************************)
(* TLC instance of MkringQueue: two descriptors, indices that wrap after   *)
(* four steps, and enough messages to wrap them.                           *)
(***************************************************************************)
EXTENDS MkringQueue
==============================================================================
