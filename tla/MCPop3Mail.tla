----------------------------- MODULE MCPop3Mail -----------------------------
(* Pop3Mail for TLC: model values, and the symmetry of ids and messages.      *)
EXTENDS Pop3Mail, TLC

Symmetry == Permutations(Ids) \cup Permutations(Msgs \ Outgoing)

\* Where to stop: behind a cause the properties say less or nothing.
Premises == causes = {}

\* Nothing depends on whether a row is read.
Unread(r) == IF r = NoRow THEN r ELSE [r EXCEPT !.seen = FALSE]
ButFlags ==
  << drop, arrived, sessions, folders, scanned, minted, pc, emptied, causes,
     [f \in Folders |-> [u \in UIDs |-> Unread(rows[f][u])]],
     [p \in Procs |-> [job[p] EXCEPT !.held = Unread(@)]] >>
=============================================================================
