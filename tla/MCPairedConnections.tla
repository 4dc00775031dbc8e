------------------------ MODULE MCPairedConnections ------------------------
(***************************************************************************)
(* PairedConnections on small instances.                                   *)
(***************************************************************************)
EXTENDS PairedConnections, TLC

\* Task and connection identities are interchangeable.
Symmetry == Permutations(Tasks) \cup Permutations(Conns)

\* No action or property reads the record of a connection nobody holds.
FreeConn == [dev |-> AnyDevice, state |-> "closed"]
View == <<status, settled, allowed, presence, sessions, tasks, task,
          [c \in Conns |-> IF Held(c) THEN conn[c] ELSE FreeConn],
          hdl, refresh, op, phase>>
=============================================================================
