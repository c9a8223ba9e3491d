------------------------------ MODULE MCIoStream ------------------------------
(***************************************************************************)
(* Small instances of the stream: buffers of two bytes that grow by two,   *)
(* so that both buffers are compacted and reallocated under the operations *)
(* that use them.                                                          *)
(***************************************************************************)
EXTENDS IoStream

RulesDelete == AllRules \ {"closeFirst"}

=============================================================================
