---------------------------- MODULE ImapMailbox ----------------------------
(***************************************************************************)
(* One mailbox of the IMAP server as ImapBackend (crate imt-net) sees it:   *)
(* the commands the backend issues, each as a function from the mailbox to  *)
(* the mailbox after the command or to the data the command returns.        *)
(* A uid that no longer exists is ignored by UID STORE, UID MOVE and EXPUNGE *)
(* without an error, as RFC 3501 requires of the server; only the body      *)
(* fetch notices the missing message.                                       *)
(***************************************************************************)
EXTENDS MailStore, FiniteSets

Mail == [msg : Msgs, seen : BOOLEAN]

NoMail == [msg |-> NoMsg, seen |-> FALSE]

Mailbox == [uid_validity : Nat \ {0}, uid_next : Nat \ {0}, mail : [UIDs -> Mail \cup {NoMail}]]

EmptyMailbox == [uid_validity |-> 1, uid_next |-> 1, mail |-> [u \in UIDs |-> NoMail]]

Live(box) == {u \in UIDs : box.mail[u] # NoMail}

\* SELECT: the FolderState the sync code works from.
SelectFolder(box) == [uid_validity |-> box.uid_validity, uid_next |-> box.uid_next]

\* UID FETCH of a set of uids, without bodies.
Envelope == [uid : UIDs, msg : Msgs, seen : BOOLEAN]

FetchEnvelopes(box, uids) ==
  {[uid |-> u, msg |-> box.mail[u].msg, seen |-> box.mail[u].seen] : u \in uids \cap Live(box)}

\* UID STORE +FLAGS / -FLAGS of \Seen.
SetFlags(box, u, seen) ==
  IF u \in Live(box) THEN [box EXCEPT !.mail[u].seen = seen] ELSE box

\* The next uid goes to m: delivery, APPEND, and the destination of a move.
AppendMail(box, m) ==
  [uid_validity |-> box.uid_validity,
   uid_next     |-> box.uid_next + 1,
   mail         |-> [u \in UIDs |-> IF u = box.uid_next THEN m ELSE box.mail[u]]]

HasRoom(box) == box.uid_next <= MaxUid

\* STORE \Deleted and EXPUNGE of a whole folder, or UID EXPUNGE of one message.  A
\* server without UIDPLUS has no UID EXPUNGE, and the plain EXPUNGE that delete_uid
\* then sends takes whatever else is marked \Deleted: that branch is left out, as
\* is the branch of move_uid for servers without MOVE.
Remove(box, uids) ==
  [box EXCEPT !.mail = [u \in UIDs |-> IF u \in uids THEN NoMail ELSE @[u]]]

\* Slip: the copy to the destination is forgotten.
MoveUidSlip(server, f, u, dst) == [server EXCEPT ![f] = Remove(@, {u})]

\* UID MOVE, over the function from folders to mailboxes.
MoveUid(server, f, u, dst) ==
  IF u \in Live(server[f])
  THEN [server EXCEPT ![f] = Remove(@, {u}), ![dst] = AppendMail(@, server[f].mail[u])]
  ELSE server

\* A mailbox rebuilt by the server: a new UIDVALIDITY and its messages
\* numbered afresh, in any order (order[i] is the old uid of the i-th).
Renumber(box, order) ==
  [uid_validity |-> box.uid_validity + 1,
   uid_next     |-> Cardinality(Live(box)) + 1,
   mail         |-> [u \in UIDs |->
                       IF u \in DOMAIN order THEN box.mail[order[u]] ELSE NoMail]]

Orders(box) ==
  {g \in [1 .. Cardinality(Live(box)) -> Live(box)] :
     \A i, j \in DOMAIN g : i # j => g[i] # g[j]}
=============================================================================
