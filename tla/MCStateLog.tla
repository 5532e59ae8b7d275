----------------------------- MODULE MCStateLog -----------------------------
(***************************************************************************)
(* StateLog on small instances: one key, an index preallocated with two    *)
(* entries (so the log grows past them) in two writes.                     *)
(***************************************************************************)
EXTENDS StateLog

\* Every operation but deleteDocument writes its index entry before it counts.
CountingLast == {"update", "create", "drop"}

=============================================================================
