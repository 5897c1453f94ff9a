------------------------------ MODULE Pop3Mail ------------------------------
(***************************************************************************)
(* A POP3 account (imt-net/pop3.rs) driven by the same engine and worker as *)
(* an IMAP one.  The server has one maildrop and a message is known by its  *)
(* number in a session; the store keys the rows of the Inbox by that number. *)
(* Sent, Drafts and Trash exist in the store only (imt-sync/local.rs): a    *)
(* move copies the row under a uid of the store's own choice.               *)
(*                                                                          *)
(* The code relies on numbers that mean the same in every session and on    *)
(* local folders that no sync touches.  `causes` records what takes either  *)
(* away, and the properties say exactly what is true without it.            *)
(***************************************************************************)
EXTENDS MailStore, Sequences, FiniteSets

CONSTANTS
  Inbox, Trash, Sent,  \* folders of the account; all but Inbox are local
  Workers,             \* account workers
  Clients,             \* callers of engine commands
  KeepOnServer,        \* the account's keep_on_server
  Outgoing,            \* messages the user may send, if nobody sends them to him before
  Commands,            \* bound: the commands clients give
  Faults,              \* bound: what may fail
  Elsewhere            \* bound: what other POP3 clients do

ASSUME PopAssumption ==
  /\ {Inbox, Trash, Sent} \subseteq Folders /\ Inbox \notin {Trash, Sent}
  /\ Workers \cap Clients = {}
  /\ KeepOnServer \in BOOLEAN
  /\ Outgoing \subseteq Msgs
  /\ Commands \subseteq {"sync", "sync local", "body", "flag", "move", "to inbox", "send", "empty"}
  /\ Faults \subseteq {"session", "retr", "crash"}
  /\ Elsewhere \subseteq {"remove"}

VARIABLES
  drop,      \* the maildrop: a sequence of messages
  arrived,   \* history: messages delivered or sent
  sessions,  \* the messages each open session has numbered
  rows, folders, scanned,  \* the store's tables
  minted,    \* history: ids drawn
  pc, job,   \* where each task is and what it holds across awaits
  emptied,   \* history: messages cleared with the Trash
  causes     \* history: what has taken away the premises of the code

storeVars == <<rows, folders, scanned, minted>>
vars == <<drop, arrived, sessions, storeVars, pc, job, emptied, causes>>

Procs == Workers \cup Clients
Local == Folders \ {Inbox}

Cause == {"removed", "local synced", "local opened", "to inbox", "bodyless", "occupied"}

SyncPC == {"select", "stat", "fetch", "lookup", "upsert", "mark"}
FilePC == {"destination", "file", "forget", "advance"}

Job == [folder : Folders,      \* the folder worked on, or moved from
        cursor : Nat,          \* its stored uid_next, or the destination's
        next   : Nat,          \* uid_next as derived from STAT
        todo   : SUBSET Nat,   \* numbers fetched, not yet written
        uid    : Nat,          \* the number or uid being worked on
        held   : Row \cup {NoRow},  \* a row as read
        dest   : Folders]

NoJob == [folder |-> Inbox, cursor |-> 0, next |-> 0, todo |-> {}, uid |-> 0,
          held |-> NoRow, dest |-> Inbox]

\* The tables, sessions, steps and jobs have the types the code gives them.
TypeOK ==
  /\ drop \in Seq(Msgs) /\ arrived \subseteq Msgs /\ emptied \subseteq Msgs
  /\ sessions \in [Procs -> Seq(Msgs)]
  /\ rows \in Table /\ folders \in [Folders -> FolderRow]
  /\ scanned \in [Folders -> BOOLEAN] /\ minted \subseteq Ids
  /\ \A w \in Workers : pc[w] \in SyncPC \cup {"off", "list", "upsert list", "idle"}
  /\ \A c \in Clients : pc[c] \in SyncPC \cup FilePC \cup
       {"ready", "retr", "set body", "delete", "set flag", "retr moved"}
  /\ job \in [Procs -> Job]
  /\ causes \subseteq Cause

Init ==
  /\ drop = <<>> /\ arrived = {} /\ emptied = {} /\ causes = {}
  /\ sessions = [p \in Procs |-> <<>>]
  /\ rows = [f \in Folders |-> [u \in UIDs |-> NoRow]]
  /\ folders = [f \in Folders |-> NewFolderRow]
  /\ scanned = [f \in Folders |-> FALSE]
  /\ minted = {}
  /\ pc = [p \in Procs |-> IF p \in Workers THEN "off" ELSE "ready"]
  /\ job = [p \in Procs |-> NoJob]

Goto(p, step) == pc' = [pc EXCEPT ![p] = step]
Hold(p, j) == job' = [job EXCEPT ![p] = j]

-----------------------------------------------------------------------------
(* The server.  A session numbers what the maildrop holds when it begins;     *)
(* whether STAT also counts what comes later is the server's choice, as long  *)
(* as the numbers it has given stay.  A message that another session has      *)
(* deleted can no longer be retrieved.                                        *)

Contains(s, m) == \E n \in DOMAIN s : s[n] = m

Continues(list) ==
  Len(list) <= Len(drop) /\ \A n \in DOMAIN list : list[n] = drop[n]

Stats(list) == {list} \cup {longer \in {drop} : Continues(list)}

Retrievable(p, n) == n \in DOMAIN sessions[p] /\ Contains(drop, sessions[p][n])

\* Every message is in the maildrop once: what follows it moves up.
Without(m) ==
  LET n == CHOOSE k \in DOMAIN drop : drop[k] = m
  IN  SubSeq(drop, 1, n - 1) \o SubSeq(drop, n + 1, Len(drop))

Deliver(m) ==
  /\ m \notin arrived /\ Len(drop) < MaxUid
  /\ drop' = Append(drop, m)
  /\ arrived' = arrived \cup {m}
  /\ UNCHANGED <<sessions, storeVars, pc, job, emptied, causes>>

OtherClientRemoves(m) ==
  /\ "remove" \in Elsewhere /\ Contains(drop, m)
  /\ drop' = Without(m)
  /\ causes' = causes \cup {"removed"}
  /\ UNCHANGED <<arrived, sessions, storeVars, pc, job, emptied>>

-----------------------------------------------------------------------------
(* The worker outside a folder sync. *)

\* ensure_pop3_local_folders: a folder row that exists is left alone.
EnsureLocal ==
  [f \in Folders |-> IF f \in Local /\ folders[f] = NewFolderRow
                     THEN [uid_validity |-> 1, uid_next |-> 1] ELSE folders[f]]

Connect(w) ==
  /\ pc[w] = "off"
  /\ folders' = EnsureLocal
  /\ sessions' = [sessions EXCEPT ![w] = drop]
  /\ Goto(w, "list")
  /\ UNCHANGED <<drop, arrived, rows, scanned, minted, job, emptied, causes>>

\* list_folders answers with the Inbox alone; its stored cursor is read beside it.
ListFolders(w) ==
  /\ pc[w] = "list"
  /\ \E s \in Stats(sessions[w]) : sessions' = [sessions EXCEPT ![w] = s]
  /\ Hold(w, [NoJob EXCEPT !.cursor = folders[Inbox].uid_next])
  /\ Goto(w, "upsert list")
  /\ UNCHANGED <<drop, arrived, storeVars, emptied, causes>>

UpsertListed(w) ==
  /\ pc[w] = "upsert list"
  /\ folders' = UpsertFolder(folders, Inbox, [uid_validity |-> 1, uid_next |-> job[w].cursor])
  /\ Goto(w, "select")
  /\ UNCHANGED <<drop, arrived, sessions, rows, scanned, minted, job, emptied, causes>>

\* Pop3Idle: STAT differs from the count idle() began with.
CountChanges(w) ==
  /\ pc[w] = "idle"
  /\ \E s \in Stats(sessions[w]) :
       /\ Len(s) # Len(sessions[w])
       /\ sessions' = [sessions EXCEPT ![w] = s]
  /\ Goto(w, "list")
  /\ UNCHANGED <<drop, arrived, storeVars, job, emptied, causes>>

SessionEnds(w) ==
  /\ "session" \in Faults /\ pc[w] # "off"
  /\ Goto(w, "off") /\ Hold(w, NoJob)
  /\ sessions' = [sessions EXCEPT ![w] = <<>>]
  /\ UNCHANGED <<drop, arrived, storeVars, emptied, causes>>

-----------------------------------------------------------------------------
(* A folder sync, of the worker (Inbox) or of the sync_folder command (any).  *)

\* Slip: the worker ends a sync as a command does.
LeaveSlip(p) ==
  /\ Hold(p, NoJob)
  /\ Goto(p, "ready")
  /\ sessions' = [sessions EXCEPT ![p] = <<>>]

\* Where a sync ends: the worker enters idle() with a STAT, a command quits.
Leave(p) ==
  /\ Hold(p, NoJob)
  /\ IF p \in Workers
     THEN /\ Goto(p, "idle")
          /\ \E s \in Stats(sessions[p]) : sessions' = [sessions EXCEPT ![p] = s]
     ELSE /\ Goto(p, "ready")
          /\ sessions' = [sessions EXCEPT ![p] = <<>>]

SyncCommand(c, f) ==
  /\ pc[c] = "ready" /\ folders[f] # NewFolderRow
  /\ IF f = Inbox THEN "sync" \in Commands ELSE "sync local" \in Commands
  /\ sessions' = [sessions EXCEPT ![c] = drop]
  /\ Hold(c, [NoJob EXCEPT !.folder = f, !.cursor = folders[f].uid_next])
  /\ Goto(c, "stat")
  /\ causes' = causes \cup (IF f = Inbox THEN {} ELSE {"local synced"})
  /\ UNCHANGED <<drop, arrived, storeVars, emptied>>

ReadCursor(w) ==
  /\ pc[w] = "select"
  /\ Hold(w, [job[w] EXCEPT !.cursor = folders[Inbox].uid_next])
  /\ Goto(w, "stat")
  /\ UNCHANGED <<drop, arrived, sessions, storeVars, emptied, causes>>

\* select_folder ignores the path: whatever the folder, this is the maildrop.
SelectFolder(p) ==
  /\ pc[p] = "stat"
  /\ \E s \in Stats(sessions[p]) :
       /\ sessions' = [sessions EXCEPT ![p] = s]
       /\ Hold(p, [job[p] EXCEPT !.next = Len(s) + 1])
  /\ Goto(p, "fetch")
  /\ UNCHANGED <<drop, arrived, storeVars, emptied, causes>>

NothingNew(p, scan) ==
  p \in Workers /\ ~scan /\ job[p].cursor # 0 /\ job[p].next <= job[p].cursor

\* Slip: the range begins behind the cursor.
SeqsForSlip(p, scan, count) ==
  IF scan \/ job[p].cursor = 0 \/ (p \in Clients /\ job[p].next <= job[p].cursor)
  THEN 1 .. count ELSE job[p].cursor + 1 .. job[p].next - 1

\* The range the worker or the command asks for, clamped by seqs_for to what
\* the session numbers.  The command asks for everything when nothing is new.
SeqsFor(p, scan, count) ==
  LET cursor == job[p].cursor
      next == job[p].next
      all == \/ scan \/ cursor = 0
             \/ p \in Clients /\ next <= cursor
  IN IF all THEN IF p \in Workers /\ next > 1 THEN 1 .. next - 1 ELSE 1 .. count
     ELSE cursor .. (IF next - 1 > cursor THEN next - 1 ELSE cursor)

FetchEnvelopes(p) ==
  /\ pc[p] = "fetch"
  /\ LET scan == ~scanned[job[p].folder] IN
     IF NothingNew(p, scan)
     THEN Leave(p)
     ELSE \E s \in Stats(sessions[p]) :
            LET seqs == SeqsFor(p, scan, Len(s)) \cap DOMAIN s IN
            IF \A n \in seqs : Contains(drop, s[n])
            THEN /\ sessions' = [sessions EXCEPT ![p] = s]
                 /\ Hold(p, [job[p] EXCEPT !.todo = seqs])
                 /\ Goto(p, IF seqs = {} THEN "mark" ELSE "lookup")
            ELSE Leave(p)
  /\ UNCHANGED <<drop, arrived, storeVars, emptied, causes>>

LookUp(p) ==
  /\ pc[p] = "lookup"
  /\ \E n \in job[p].todo :
       /\ \A k \in job[p].todo : n <= k
       /\ Hold(p, [job[p] EXCEPT !.uid = n, !.todo = @ \ {n}, !.held = rows[job[p].folder][n]])
  /\ Goto(p, "upsert")
  /\ UNCHANGED <<drop, arrived, sessions, storeVars, emptied, causes>>

\* POP3 has no flags: the envelope says unread, and the row found becomes unread.
FromEnvelope(p, i) ==
  LET m == sessions[p][job[p].uid] IN
  IF job[p].held = NoRow
  THEN [id |-> i, msg |-> m, seen |-> FALSE, body |-> NoMsg]
  ELSE [job[p].held EXCEPT !.msg = m, !.seen = FALSE]

Upsert(p) ==
  /\ pc[p] = "upsert"
  /\ IF job[p].held = NoRow
     THEN \E i \in Ids \ minted :
            /\ rows' = UpsertEnvelope(rows, job[p].folder, job[p].uid, FromEnvelope(p, i))
            /\ minted' = minted \cup {i}
     ELSE /\ rows' = UpsertEnvelope(rows, job[p].folder, job[p].uid, FromEnvelope(p, job[p].held.id))
          /\ UNCHANGED minted
  /\ Goto(p, IF job[p].todo = {} THEN "mark" ELSE "lookup")
  /\ UNCHANGED <<drop, arrived, sessions, folders, scanned, job, emptied, causes>>

Mark(p) ==
  /\ pc[p] = "mark"
  /\ folders' = UpsertFolder(folders, job[p].folder, [uid_validity |-> 1, uid_next |-> job[p].next])
  /\ scanned' = [scanned EXCEPT ![job[p].folder] = TRUE]
  /\ Leave(p)
  /\ UNCHANGED <<drop, arrived, rows, minted, emptied, causes>>

-----------------------------------------------------------------------------
(* Commands on one message. *)

Begin(c, f, u, step) ==
  /\ pc[c] = "ready" /\ rows[f][u] # NoRow
  /\ Hold(c, [NoJob EXCEPT !.folder = f, !.uid = u, !.held = rows[f][u]])
  /\ Goto(c, step)
  /\ UNCHANGED <<drop, arrived, storeVars, emptied, causes>>

\* A row is opened: its body is asked for by its uid whether or not the store has
\* it, for the reader looks in its own cache only, which has no row just moved or
\* sent; and so it is of a row of a local folder.
FetchBodyCommand(c, f, u) ==
  /\ "body" \in Commands
  /\ sessions' = [sessions EXCEPT ![c] = drop]
  /\ Begin(c, f, u, "retr")

\* Slip: sequence numbers taken to begin at 0.
RetrSlip(c) ==
  /\ pc[c] = "retr"
  /\ IF Retrievable(c, job[c].uid + 1)
     THEN /\ Hold(c, [job[c] EXCEPT !.held.body = sessions[c][job[c].uid + 1]])
          /\ Goto(c, "set body") /\ UNCHANGED sessions
          /\ causes' = causes \cup (IF job[c].folder = Inbox THEN {} ELSE {"local opened"})
     ELSE Leave(c) /\ UNCHANGED causes
  /\ UNCHANGED <<drop, arrived, storeVars, emptied>>

\* Of a local row the maildrop has another message under that number, or none.
Retr(c) ==
  /\ pc[c] = "retr"
  /\ IF Retrievable(c, job[c].uid)
     THEN /\ Hold(c, [job[c] EXCEPT !.held.body = sessions[c][job[c].uid]])
          /\ Goto(c, "set body") /\ UNCHANGED sessions
          /\ causes' = causes \cup (IF job[c].folder = Inbox THEN {} ELSE {"local opened"})
     ELSE Leave(c) /\ UNCHANGED causes
  /\ UNCHANGED <<drop, arrived, storeVars, emptied>>

StoreBody(c) ==
  /\ pc[c] = "set body"
  /\ rows' = SetBody(rows, job[c].held.id, job[c].held.body)
  /\ IF KeepOnServer THEN Leave(c) ELSE Goto(c, "delete") /\ UNCHANGED <<job, sessions>>
  /\ UNCHANGED <<drop, arrived, folders, scanned, minted, emptied, causes>>

\* DELE, and the QUIT that commits it; without the QUIT nothing is deleted.
DeleteFromServer(c) ==
  /\ pc[c] = "delete"
  /\ \/ /\ Retrievable(c, job[c].uid)
        /\ drop' = Without(sessions[c][job[c].uid])
        /\ causes' = causes \cup {"removed"}
     \/ UNCHANGED <<drop, causes>>
  /\ Leave(c)
  /\ UNCHANGED <<arrived, storeVars, emptied>>

\* In a local folder the row written over or removed may be another message's: the
\* row held has left, and a move that failed before its last write gave the uid again.
Overwrites(j) ==
  LET row == rows[j.folder][j.uid] IN
  j.folder # Inbox /\ row # NoRow /\ row.id # j.held.id

\* set_flags does nothing on the server; the row read before is written back.
SetFlagCommand(c, f, u) ==
  /\ "flag" \in Commands
  /\ Begin(c, f, u, "set flag")
  /\ UNCHANGED sessions

StoreFlag(c) ==
  /\ pc[c] = "set flag"
  /\ rows' = UpsertEnvelope(rows, job[c].folder, job[c].uid,
                            [job[c].held EXCEPT !.seen = ~ @])
  /\ causes' = causes \cup (IF Overwrites(job[c]) THEN {"occupied"} ELSE {})
  /\ Leave(c)
  /\ UNCHANGED <<drop, arrived, folders, scanned, minted, emptied>>

-----------------------------------------------------------------------------
(* move_local, and store_local_sent, which files a row that was nowhere.      *)

MoveCommand(c, f, u, dst) ==
  /\ IF dst = Inbox THEN "to inbox" \in Commands ELSE "move" \in Commands
  /\ pc[c] = "ready" /\ rows[f][u] # NoRow /\ f # dst
  /\ Hold(c, [NoJob EXCEPT !.folder = f, !.uid = u, !.held = rows[f][u], !.dest = dst])
  /\ IF rows[f][u].body = NoMsg
     THEN Goto(c, "retr moved") /\ sessions' = [sessions EXCEPT ![c] = drop]
     ELSE Goto(c, "destination") /\ UNCHANGED sessions
  /\ UNCHANGED <<drop, arrived, storeVars, emptied, causes>>

\* A body that cannot be fetched is done without.
RetrMoved(c) ==
  /\ pc[c] = "retr moved"
  /\ \/ /\ Retrievable(c, job[c].uid)
        /\ Hold(c, [job[c] EXCEPT !.held.body = sessions[c][job[c].uid]])
     \/ /\ ~ Retrievable(c, job[c].uid) \/ "retr" \in Faults
        /\ UNCHANGED job
  /\ sessions' = [sessions EXCEPT ![c] = <<>>]
  /\ Goto(c, "destination")
  /\ UNCHANGED <<drop, arrived, storeVars, emptied, causes>>

SendCommand(c, m) ==
  /\ "send" \in Commands /\ pc[c] = "ready" /\ m \in Outgoing \ arrived
  /\ \E i \in Ids \ minted :
       Hold(c, [NoJob EXCEPT !.folder = Sent, !.dest = Sent,
                  !.held = [id |-> i, msg |-> m, seen |-> TRUE, body |-> m]])
  /\ arrived' = arrived \cup {m}
  /\ folders' = EnsureLocal
  /\ Goto(c, "destination")
  /\ UNCHANGED <<drop, sessions, rows, scanned, minted, emptied, causes>>

\* uid_next of the destination is read, used, and written back one larger: three awaits.
ReadDestination(c) ==
  /\ pc[c] = "destination"
  /\ Hold(c, [job[c] EXCEPT !.cursor = IF folders[job[c].dest].uid_next > 1
                                       THEN folders[job[c].dest].uid_next ELSE 1])
  /\ Goto(c, "file")
  /\ UNCHANGED <<drop, arrived, sessions, storeVars, emptied, causes>>

File(c) ==
  /\ pc[c] = "file" /\ job[c].cursor \in UIDs
  /\ \E i \in Ids \ minted :
       /\ rows' = UpsertEnvelope(rows, job[c].dest, job[c].cursor, [job[c].held EXCEPT !.id = i])
       /\ minted' = minted \cup {i}
  /\ causes' = causes
       \cup (IF job[c].dest = Inbox THEN {"to inbox"} ELSE {})
       \cup (IF job[c].held.body = NoMsg THEN {"bodyless"} ELSE {})
       \cup (IF rows[job[c].dest][job[c].cursor] # NoRow THEN {"occupied"} ELSE {})
  /\ Goto(c, IF job[c].uid = 0 THEN "advance" ELSE "forget")
  /\ UNCHANGED <<drop, arrived, sessions, folders, scanned, job, emptied>>

Forget(c) ==
  /\ pc[c] = "forget"
  /\ rows' = DeleteByUid(rows, job[c].folder, job[c].uid)
  /\ causes' = causes \cup (IF Overwrites(job[c]) THEN {"occupied"} ELSE {})
  /\ Goto(c, "advance")
  /\ UNCHANGED <<drop, arrived, sessions, folders, scanned, minted, job, emptied>>

AdvanceDestination(c) ==
  /\ pc[c] = "advance"
  /\ folders' = UpsertFolder(folders, job[c].dest, [uid_validity |-> 1, uid_next |-> job[c].cursor + 1])
  /\ Leave(c)
  /\ UNCHANGED <<drop, arrived, rows, scanned, minted, emptied, causes>>

\* The Trash is local: empty_trash only deletes rows.
EmptyTrash(c) ==
  /\ "empty" \in Commands /\ pc[c] = "ready"
  /\ rows' = DeleteByFolder(rows, Trash)
  /\ emptied' = emptied \cup {rows[Trash][u].msg : u \in Stored(rows, Trash)}
  /\ UNCHANGED <<drop, arrived, sessions, folders, scanned, minted, pc, job, causes>>

\* The process ends between two statements of a command, or one of them fails.
CommandFails(c) ==
  /\ "crash" \in Faults /\ pc[c] # "ready"
  /\ Leave(c)
  /\ UNCHANGED <<drop, arrived, storeVars, emptied, causes>>

-----------------------------------------------------------------------------
SyncStep(p) == SelectFolder(p) \/ FetchEnvelopes(p) \/ LookUp(p) \/ Upsert(p) \/ Mark(p)

WorkerStep(w) ==
  \/ Connect(w) \/ ListFolders(w) \/ UpsertListed(w) \/ ReadCursor(w)
  \/ SyncStep(w) \/ CountChanges(w) \/ SessionEnds(w)

ClientStep(c) ==
  \/ \E f \in Folders : SyncCommand(c, f)
  \/ \E f \in Folders, u \in UIDs : FetchBodyCommand(c, f, u) \/ SetFlagCommand(c, f, u)
  \/ \E f, dst \in Folders, u \in UIDs : MoveCommand(c, f, u, dst)
  \/ \E m \in Outgoing : SendCommand(c, m)
  \/ SyncStep(c) \/ Retr(c) \/ StoreBody(c) \/ DeleteFromServer(c) \/ StoreFlag(c)
  \/ RetrMoved(c) \/ ReadDestination(c) \/ File(c) \/ Forget(c) \/ AdvanceDestination(c)
  \/ EmptyTrash(c) \/ CommandFails(c)

Next ==
  \/ \E m \in Msgs : Deliver(m) \/ OtherClientRemoves(m)
  \/ \E w \in Workers : WorkerStep(w)
  \/ \E c \in Clients : ClientStep(c)

Spec == Init /\ [][Next]_vars

-----------------------------------------------------------------------------
(* Properties. *)

Sound(r) == r # NoRow => r.body \in {NoMsg, r.msg}

Spared(S) == causes \cap S = {}

\* A body is shown under the headers of its own message.  In the Inbox this
\* needs numbers that stay: nothing removed from the maildrop, nothing filed
\* into the Inbox.  In a local folder it needs more: no sync of the folder, no
\* row of it opened for which the maildrop has a message, no row filed without
\* its body, no row filed or written back over another.
BodiesMatch ==
  /\ Spared({"removed", "to inbox"}) => \A u \in UIDs : Sound(rows[Inbox][u])
  /\ causes = {} => \A f \in Local, u \in UIDs : Sound(rows[f][u])

InSomeFolder(m) == \E f \in Folders, u \in UIDs : rows[f][u] # NoRow /\ rows[f][u].msg = m

\* What the cursor of the Inbox has passed is in the store, in some folder, or
\* was emptied with the Trash; moves go through steps in which this could break.
NothingLost ==
  Spared({"removed", "to inbox", "local synced", "occupied"}) =>
    \A n \in DOMAIN drop :
      n < folders[Inbox].uid_next => InSomeFolder(drop[n]) \/ drop[n] \in emptied
=============================================================================
