----------------------------- MODULE MailStore -----------------------------
(***************************************************************************)
(* The part of the SQLite store (crate imt-store) that mail synchronisation *)
(* reads and writes: the `messages` table, keyed by (folder, uid) with a    *)
(* unique message id, and the `folders` table with its UID cursor.  Every   *)
(* operator is one statement of MessageRepo or FolderRepo: a value of the   *)
(* table is the first argument, the value after the statement the result.   *)
(*                                                                          *)
(* A message id stands for a UUID, a Msgs value for everything one RFC 822  *)
(* message contains; a row refers to the message its headers describe       *)
(* (msg) and to the message whose text it stores (body).                    *)
(***************************************************************************)
EXTENDS Integers

CONSTANTS
  Folders,  \* folder paths of the account
  Msgs,     \* distinct messages that may be delivered
  Ids,      \* message ids (UUIDs) that may be drawn
  NoMsg,    \* no message: a row without body, a free uid
  NoRow,    \* no row under this (folder, uid)
  MaxUid    \* bound: the largest uid a server assigns

ASSUME StoreAssumption ==
  /\ MaxUid \in Nat
  /\ NoMsg \notin Msgs
  /\ NoRow \notin [id : Ids, msg : Msgs, seen : BOOLEAN, body : Msgs \cup {NoMsg}]

UIDs == 1 .. MaxUid

Row == [id : Ids, msg : Msgs, seen : BOOLEAN, body : Msgs \cup {NoMsg}]

Table == [Folders -> [UIDs -> Row \cup {NoRow}]]

\* The columns of `folders` that steer synchronisation.  A folder the account
\* has not listed yet is <<0, 0>>, what the code reads when there is no row.
FolderRow == [uid_validity : Nat, uid_next : Nat]

NewFolderRow == [uid_validity |-> 0, uid_next |-> 0]

-----------------------------------------------------------------------------
(* MessageRepo *)

\* INSERT ... ON CONFLICT(folder_id, uid) DO UPDATE: an existing row takes the
\* id, the envelope and the flags of m and keeps its own body.
UpsertEnvelope(rows, f, u, m) ==
  [rows EXCEPT ![f][u] = IF @ = NoRow THEN m ELSE [m EXCEPT !.body = rows[f][u].body]]

\* UPDATE ... WHERE id: writes wherever the id lives now, which may be nowhere.
SetBody(rows, id, body) ==
  [f \in Folders |-> [u \in UIDs |->
     IF rows[f][u] # NoRow /\ rows[f][u].id = id
     THEN [rows[f][u] EXCEPT !.body = body]
     ELSE rows[f][u]]]

\* Slip: the uid left out of the WHERE clause.
DeleteByUidSlip(rows, f, u) == [rows EXCEPT ![f] = [v \in UIDs |-> NoRow]]

DeleteByUid(rows, f, u) == [rows EXCEPT ![f][u] = NoRow]

DeleteByFolder(rows, f) == [rows EXCEPT ![f] = [u \in UIDs |-> NoRow]]

Stored(rows, f) == {u \in UIDs : rows[f][u] # NoRow}

-----------------------------------------------------------------------------
(* FolderRepo *)

UpsertFolder(folders, f, row) == [folders EXCEPT ![f] = row]
=============================================================================
