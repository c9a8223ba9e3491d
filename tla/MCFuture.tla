------------------------------- MODULE MCFuture -------------------------------
(***************************************************************************)
(* Two threads over four futures: a chain of three and one beside it, or a *)
(* Then whose callback returns a future.                                   *)
(***************************************************************************)
EXTENDS Future

CONSTANTS t1, t2, u

TwoThreads == {t1, t2}
OneValue   == {u}

RulesAll == AllRules

=============================================================================
