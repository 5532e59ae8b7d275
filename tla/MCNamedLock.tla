---------------------------- MODULE MCNamedLock ----------------------------
(***************************************************************************)
(* NamedLock on a small instance: two threads, one of which may take two   *)
(* names.                                                                  *)
(***************************************************************************)
EXTENDS NamedLock

CONSTANTS t1, t2, a, b

Mixed == [t \in {t1, t2} |-> IF t = t1 THEN {a} ELSE {a, b}]

=============================================================================
