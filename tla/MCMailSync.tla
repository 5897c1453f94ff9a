----------------------------- MODULE MCMailSync -----------------------------
(* MailSync for TLC: model values, and the symmetry of ids and messages.     *)
EXTENDS MailSync, TLC

Symmetry == Permutations(Ids) \cup Permutations(Msgs)

\* Where to stop: the Inbox is renumbered, Trash is not.
TrashStays == server[Trash].uid_validity = 1

\* Nothing but the flags themselves depends on the flags.
Unread(r) == IF r = NoRow THEN r ELSE [r EXCEPT !.seen = FALSE]
ButFlags ==
  << [f \in Folders |-> [server[f] EXCEPT !.mail = [u \in UIDs |-> Unread(@[u])]]],
     [f \in Folders |-> [u \in UIDs |-> Unread(rows[f][u])]],
     [p \in Procs |-> [job[p] EXCEPT !.held = Unread(@), !.envs = {Unread(e) : e \in @}]],
     folders, scanned, minted, pc, arrived, discarded, assigned, workerVars, news >>
=============================================================================
