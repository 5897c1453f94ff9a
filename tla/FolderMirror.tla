---------------------------- MODULE FolderMirror ----------------------------
(***************************************************************************)
(* What incremental synchronisation promises, with nothing said of how: a   *)
(* set of mirrored uids and a cursor for each folder, such that a message    *)
(* still on the server below the cursor is always mirrored.  The promise is  *)
(* not one action's doing: uids are handed out in order, the cursor may be   *)
(* set (forwards or back) only to a value below which nothing live is        *)
(* missing, and only what has left the server may be forgotten.              *)
(***************************************************************************)
EXTENDS Integers

CONSTANTS Folders, UIDs

VARIABLES live, next, mirrored, cursor

vars == <<live, next, mirrored, cursor>>

TypeOK ==
  /\ live \in [Folders -> SUBSET UIDs]
  /\ next \in [Folders -> Nat]
  /\ mirrored \in [Folders -> SUBSET UIDs]
  /\ cursor \in [Folders -> Nat]

Init ==
  /\ live = [f \in Folders |-> {}]
  /\ next = [f \in Folders |-> 1]
  /\ mirrored = [f \in Folders |-> {}]
  /\ cursor = [f \in Folders |-> 0]

Missing(f, below) == {u \in live[f] : u < below} \ mirrored[f]

\* Messages come and go on the server, in any folders at once (a move).
ServerChanges ==
  /\ \E arrivals \in SUBSET Folders :
       /\ next' = [f \in Folders |-> IF f \in arrivals THEN next[f] + 1 ELSE next[f]]
       /\ \A f \in Folders :
            /\ f \in arrivals => next[f] \in UIDs
            /\ live'[f] \subseteq live[f] \cup (IF f \in arrivals THEN {next[f]} ELSE {})
  /\ live' \in [Folders -> SUBSET UIDs]
  /\ UNCHANGED <<mirrored, cursor>>

\* The store gains a uid that was handed out.
Mirror(f, u) ==
  /\ u < next[f]
  /\ mirrored' = [mirrored EXCEPT ![f] = @ \cup {u}]
  /\ UNCHANGED <<live, next, cursor>>

\* The store loses a uid that is no longer on the server.
Forget(f, u) ==
  /\ u \notin live[f]
  /\ mirrored' = [mirrored EXCEPT ![f] = @ \ {u}]
  /\ UNCHANGED <<live, next, cursor>>

SetCursor(f, c) ==
  /\ c <= next[f] /\ Missing(f, c) = {}
  /\ cursor' = [cursor EXCEPT ![f] = c]
  /\ UNCHANGED <<live, next, mirrored>>

Next ==
  \/ ServerChanges
  \/ \E f \in Folders : \E u \in UIDs : Mirror(f, u) \/ Forget(f, u)
  \/ \E f \in Folders : \E c \in 0 .. next[f] : SetCursor(f, c)

Spec == Init /\ [][Next]_vars

\* Nothing on the server below a cursor is missing from the mirror.
NothingMissing == \A f \in Folders : Missing(f, cursor[f]) = {}
=============================================================================
