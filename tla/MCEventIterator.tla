--------------------------- MODULE MCEventIterator ---------------------------
(***************************************************************************)
(* EventIterator on a small instance: one iterator at a time beside one    *)
(* writer, callers that want one event or all of them.                     *)
(***************************************************************************)
EXTENDS EventIterator

CountingLast == {"update", "create", "drop"}

\* BaseViewManager asks for one event, InMemoryViewResults for as many as the
\* counter promises; -1 stands for all of them.
OneOrAll == {-1, 1}

=============================================================================
