---------------------------- MODULE MCControlQueue ----------------------------
(***************************************************************************)
(* Small instances of ControlQueue: two requests, of one dashboard or two, *)
(* for one run, and at most one failure of a file and one crash.           *)
(***************************************************************************)
EXTENDS ControlQueue

CONSTANT r1
=============================================================================
