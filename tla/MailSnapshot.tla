----------------------------- MODULE MailSnapshot -----------------------------
(***************************************************************************)
(* What the TUI reads and how it is kept up to date: the in-memory Snapshot, *)
(* the SyncDataSource that changes it ahead of the engine and queues a       *)
(* command, command_worker, which carries the commands out one by one, and   *)
(* the task that applies the engine's events to the snapshot.                *)
(*                                                                          *)
(* The TUI runs beside the two tasks and shares with them only the message   *)
(* lists, the cache of bodies, the set of bodies in flight and the command   *)
(* channel, each behind a lock of its own; a step here holds one of them, or *)
(* is what a task does between two awaits.                                   *)
(*                                                                          *)
(* One account, whose folders do not change.  Synchronisation is left to     *)
(* MailSync: here some task stores, at any time, an envelope of a message    *)
(* that is in the folder on the server.  A message is a number, its          *)
(* internal_date.                                                            *)
(***************************************************************************)
EXTENDS Integers, Sequences, FiniteSets, SequencesExt

CONSTANTS
  Folders, Inbox, Trash,
  Nowhere,      \* where a message is on the server when it is gone
  Mail,         \* the messages, numbered by internal_date
  Flags,
  MaxId,        \* bound: ids of rows
  MaxEvents,    \* bound: events on their way to the snapshot
  MaxCommands,  \* bound: commands waiting
  Calls,        \* bound: what the TUI asks for
  Faults        \* bound: what may fail

ASSUME SnapshotAssumption ==
  /\ Inbox \in Folders /\ Trash \in Folders /\ Inbox # Trash
  /\ Nowhere \notin Folders
  /\ Mail \subseteq Nat /\ IsFiniteSet(Mail)
  /\ Flags \subseteq {"seen", "flagged"}
  /\ MaxId \in Nat /\ MaxEvents \in Nat /\ MaxCommands \in Nat
  /\ Calls \subseteq {"body", "move", "flag", "empty"}
  /\ Faults \subseteq {"server"}

VARIABLES
  server,    \* where each message is on the server, and its flags
  rows,      \* table messages
  lastId,    \* the ids up to it have been given to rows
  view,      \* messages_by_folder
  cache,     \* bodies: the ids in it
  inFlight,  \* in_flight_bodies
  commands,  \* the command channel
  call,      \* the call of the data source the TUI is in, and its command
  events,    \* the event channel
  update,    \* the list the event task has read and not yet written
  work,      \* command_worker: its command, the row it read, its step
  amiss      \* history: the engine has refused a change, or was done with it before it was shown

storeVars == <<server, rows, lastId>>
snapVars  == <<view, cache>>
chanVars  == <<inFlight, commands>>
taskVars  == <<events, update, work, amiss>>
snapshotVars == <<storeVars, snapVars, chanVars, call, taskVars>>

Ids   == 1 .. MaxId
Entry == [id : Ids, mail : Mail, flags : SUBSET Flags]
Row   == [folder : Folders, id : Ids, mail : Mail, flags : SUBSET Flags]

Command ==
       [op : {"body"}, id : Ids]
  \cup [op : {"flag"}, id : Ids, flag : Flags, add : BOOLEAN]
  \cup [op : {"move"}, id : Ids, dest : Folders]
  \cup [op : {"empty"}, folder : Folders]
FetchBody(i)     == [op |-> "body", id |-> i]
SetFlag(i, f, b) == [op |-> "flag", id |-> i, flag |-> f, add |-> b]
Move(i, d)       == [op |-> "move", id |-> i, dest |-> d]
EmptyTrash(f)    == [op |-> "empty", folder |-> f]

Event ==
       [op : {"list"}, folder : Folders]
  \cup [op : {"flags"}, id : Ids, flags : SUBSET Flags]
  \cup [op : {"fetched"}, id : Ids]

\* In a list, newer messages come first.
Newer(a, b) == a.mail > b.mail

\* What a list says of the stored messages of a folder.
Stored(f) ==
  {[id |-> r.id, mail |-> r.mail, flags |-> r.flags] : r \in {q \in rows : q.folder = f}}

\* The list of a folder: in place n the one with n - 1 newer ones.
Listed(f) ==
  [n \in 1 .. Cardinality(Stored(f)) |->
     CHOOSE e \in Stored(f) : Cardinality({o \in Stored(f) : Newer(o, e)}) = n - 1]

Shows(f, i) == \E n \in DOMAIN view[f] : view[f][n].id = i

-----------------------------------------------------------------------------
(* A sync.                                                                   *)

Post(e) ==
  /\ Len(events) < MaxEvents
  /\ events' = Append(events, e)

\* A row that is there keeps its id, a new one gets the next.
StoreEnvelope(m) ==
  LET f   == server[m].folder
      old == {r \in rows : r.folder = f /\ r.mail = m}
      new == [folder |-> f, mail |-> m, flags |-> server[m].flags,
              id |-> IF old = {} THEN lastId + 1 ELSE (CHOOSE r \in old : TRUE).id]
  IN /\ f # Nowhere
     /\ new.id <= MaxId
     /\ rows' = (rows \ old) \cup {new}
     /\ lastId' = IF old = {} THEN lastId + 1 ELSE lastId
     /\ Post([op |-> "list", folder |-> f])
     /\ UNCHANGED <<server, snapVars, chanVars, update, work, amiss, call>>

-----------------------------------------------------------------------------
(* The event task: Snapshot::apply_event.                                    *)

NoUpdate == [folder |-> Nowhere, list |-> <<>>]

Position(l, i) == {n \in DOMAIN l : l[n].id = i /\ \A k \in 1 .. n - 1 : l[k].id # i}

\* In every list, the first entry with id i has its flags
\* changed from old to new[old].
Reflagged(i, new) ==
  [f \in Folders |->
     [n \in DOMAIN view[f] |->
        IF n \in Position(view[f], i) THEN [view[f][n] EXCEPT !.flags = new[@]] ELSE view[f][n]]]

\* MessageAdded and MessageRemoved: the folder is read, then written.
ReadFolder ==
  /\ update = NoUpdate /\ events # <<>> /\ Head(events).op = "list"
  /\ update' = [folder |-> Head(events).folder, list |-> Listed(Head(events).folder)]
  /\ events' = Tail(events)
  /\ UNCHANGED <<storeVars, snapVars, chanVars, work, amiss, call>>

WriteFolder ==
  /\ update # NoUpdate
  /\ view' = [view EXCEPT ![update.folder] = update.list]
  /\ update' = NoUpdate
  /\ UNCHANGED <<storeVars, cache, chanVars, events, work, amiss, call>>

\* MessageFlagsChanged
WriteFlags ==
  /\ update = NoUpdate /\ events # <<>> /\ Head(events).op = "flags"
  /\ view' = Reflagged(Head(events).id, [old \in SUBSET Flags |-> Head(events).flags])
  /\ events' = Tail(events)
  /\ UNCHANGED <<storeVars, cache, chanVars, update, work, amiss, call>>

\* MessageBodyFetched
CacheFetched ==
  /\ update = NoUpdate /\ events # <<>> /\ Head(events).op = "fetched"
  /\ cache' = cache \cup {r.id : r \in {q \in rows : q.id = Head(events).id}}
  /\ events' = Tail(events)
  /\ UNCHANGED <<storeVars, view, chanVars, update, work, amiss, call>>

-----------------------------------------------------------------------------
(* command_worker and the engine's commands.                                 *)

NoRow == [folder |-> Nowhere, id |-> 0, mail |-> 0, flags |-> {}]
Idle  == [cmd |-> EmptyTrash(Trash), row |-> NoRow, at |-> "recv"]

WorkerGoes(step) == work' = [work EXCEPT !.at = step]

Receive ==
  /\ work.at = "recv" /\ commands # <<>>
  /\ work' = [cmd |-> Head(commands), row |-> NoRow, at |-> "server"]
  /\ commands' = Tail(commands)
  /\ UNCHANGED <<storeVars, snapVars, inFlight, events, update, amiss, call>>

\* What the command does to message m on the server.
Served(c, s) ==
  CASE c.op = "body" -> s
    [] c.op = "flag" -> [s EXCEPT !.flags = IF c.add THEN @ \cup {c.flag} ELSE @ \ {c.flag}]
    [] c.op = "move" -> [s EXCEPT !.folder = c.dest]

\* The row the command is about is read, the server does what it says.
AtServer ==
  LET c == work.cmd IN
  /\ work.at = "server"
  /\ \/ /\ c.op = "empty"
        /\ server' = [m \in Mail |-> IF server[m].folder = c.folder
                                     THEN [server[m] EXCEPT !.folder = Nowhere] ELSE server[m]]
        /\ WorkerGoes("store")
     \/ /\ c.op # "empty"
        /\ \E r \in rows :
             /\ r.id = c.id
             /\ work' = [work EXCEPT !.at = "store", !.row = r]
             /\ server' = [server EXCEPT ![r.mail] = Served(c, @)]
  /\ UNCHANGED <<rows, lastId, snapVars, chanVars, events, update, amiss, call>>

\* There is no such row, or the server or the way to it fails.
CommandFails ==
  LET c == work.cmd IN
  /\ work.at = "server"
  /\ "server" \in Faults \/ (c.op # "empty" /\ \A r \in rows : r.id # c.id)
  /\ IF c.op = "body"
     THEN WorkerGoes("release") /\ UNCHANGED amiss
     ELSE work' = Idle /\ amiss' = TRUE
  /\ UNCHANGED <<storeVars, snapVars, chanVars, events, update, call>>

\* fetch_body stores the body, whose row is gone or not.
StoreBody ==
  /\ work.at = "store" /\ work.cmd.op = "body"
  /\ Post([op |-> "fetched", id |-> work.cmd.id])
  /\ WorkerGoes("put")
  /\ UNCHANGED <<storeVars, snapVars, chanVars, update, amiss, call>>

\* set_flag writes back the row it read, with the flag changed.
\* Slip: it does not announce it.
StoreFlagSlip ==
  LET c   == work.cmd
      new == IF c.add THEN work.row.flags \cup {c.flag} ELSE work.row.flags \ {c.flag}
      hit == {r \in rows : r.folder = work.row.folder /\ r.mail = work.row.mail}
  IN /\ work.at = "store" /\ c.op = "flag"
     /\ rows' = (rows \ hit) \cup {[work.row EXCEPT !.flags = new]}
     /\ work' = Idle
     /\ UNCHANGED <<server, lastId, snapVars, chanVars, events, update, amiss, call>>

StoreFlag ==
  LET c   == work.cmd
      new == IF c.add THEN work.row.flags \cup {c.flag} ELSE work.row.flags \ {c.flag}
      hit == {r \in rows : r.folder = work.row.folder /\ r.mail = work.row.mail}
  IN /\ work.at = "store" /\ c.op = "flag"
     /\ rows' = (rows \ hit) \cup {[work.row EXCEPT !.flags = new]}
     /\ Post([op |-> "flags", id |-> c.id, flags |-> new])
     /\ work' = Idle
     /\ UNCHANGED <<server, lastId, snapVars, chanVars, update, amiss, call>>

\* move_message forgets the row; the destination is left to a sync.
\* Slip: the source folder is not announced.
ForgetMovedSlip ==
  /\ work.at = "store" /\ work.cmd.op = "move"
  /\ rows' = {r \in rows : ~(r.folder = work.row.folder /\ r.mail = work.row.mail)}
  /\ Post([op |-> "list", folder |-> work.cmd.dest])
  /\ work' = Idle
  /\ UNCHANGED <<server, lastId, snapVars, chanVars, update, amiss, call>>

ForgetMoved ==
  /\ work.at = "store" /\ work.cmd.op = "move"
  /\ rows' = {r \in rows : ~(r.folder = work.row.folder /\ r.mail = work.row.mail)}
  /\ Post([op |-> "list", folder |-> work.row.folder])
  /\ work' = Idle
  /\ UNCHANGED <<server, lastId, snapVars, chanVars, update, amiss, call>>

\* empty_trash clears the folder, and announces its counts only.
ClearFolder ==
  /\ work.at = "store" /\ work.cmd.op = "empty"
  /\ rows' = {r \in rows : r.folder # work.cmd.folder}
  /\ work' = Idle
  /\ UNCHANGED <<server, lastId, snapVars, chanVars, events, update, amiss, call>>

PutBody ==
  /\ work.at = "put"
  /\ cache' = cache \cup {work.cmd.id}
  /\ WorkerGoes("release")
  /\ UNCHANGED <<storeVars, view, chanVars, events, update, amiss, call>>

Release ==
  /\ work.at = "release"
  /\ inFlight' = inFlight \ {work.cmd.id}
  /\ work' = Idle
  /\ UNCHANGED <<storeVars, snapVars, commands, events, update, amiss, call>>

-----------------------------------------------------------------------------
(* SyncDataSource, called by the TUI, which is busy until the call returns.  *)

NoCall == [at |-> "none", cmd |-> EmptyTrash(Trash)]

Send(c) ==
  /\ Len(commands) < MaxCommands
  /\ commands' = Append(commands, c)

\* An id the TUI may have in a list, old or new.
Given(i) == i \in 1 .. lastId

\* insert_message_sorted: a binary search by date.
Insertions(l, e) ==
  {InsertAt(l, n, e) :
     n \in {p \in 1 .. Len(l) + 1 : /\ \A k \in 1 .. p - 1 : ~Newer(e, l[k])
                                    /\ \A k \in p .. Len(l) : ~Newer(l[k], e)}}

StillToDo(c) ==
  \/ \E n \in DOMAIN commands : commands[n] = c
  \/ work.at = "server" /\ work.cmd = c

MoveMessage(i, d) ==
  /\ call = NoCall /\ "move" \in Calls /\ Given(i)
  /\ Send(Move(i, d))
  /\ call' = [at |-> "move", cmd |-> Move(i, d)]
  /\ UNCHANGED <<storeVars, snapVars, inFlight, taskVars>>

\* delete_message: of a message that is not shown the account is not known.
DeleteMessage(i) ==
  /\ \E f \in Folders : Shows(f, i)
  /\ MoveMessage(i, Trash)

\* move_message after it has sent the command: out of a folder that shows the
\* message, and into the destination.
MoveShown ==
  LET i == call.cmd.id
      d == call.cmd.dest
  IN /\ call.at = "move"
     /\ \/ (\A f \in Folders : ~Shows(f, i)) /\ UNCHANGED view
        \/ \E f \in Folders : \E n \in Position(view[f], i) :
             LET rest == [view EXCEPT ![f] = RemoveAt(@, n)] IN
             \E l \in Insertions(rest[d], view[f][n]) : view' = [rest EXCEPT ![d] = l]
     /\ amiss' = (amiss \/ ~StillToDo(call.cmd))
     /\ call' = NoCall
     /\ UNCHANGED <<storeVars, cache, chanVars, events, update, work>>

\* The snapshot first, then the command.
ChangeFlag(i, flag, add) ==
  /\ call = NoCall /\ "flag" \in Calls /\ flag \in Flags /\ Given(i)
  /\ view' = Reflagged(i, [old \in SUBSET Flags |-> IF add THEN old \cup {flag} ELSE old \ {flag}])
  /\ call' = [at |-> "send", cmd |-> SetFlag(i, flag, add)]
  /\ UNCHANGED <<storeVars, cache, chanVars, taskVars>>

\* set_seen, and mark_read
SetSeen(i, seen) == ChangeFlag(i, "seen", seen)

\* toggle_flag looks the flag up in the snapshot.
ToggleFlag(i) ==
  LET shown == UNION {{view[f][n] : n \in Position(view[f], i)} : f \in Folders} IN
  \/ shown = {} /\ ChangeFlag(i, "flagged", TRUE)
  \/ \E e \in shown : ChangeFlag(i, "flagged", "flagged" \notin e.flags)

EmptyTrashCall ==
  /\ call = NoCall /\ "empty" \in Calls
  /\ view' = [view EXCEPT ![Trash] = <<>>]
  /\ call' = [at |-> "send", cmd |-> EmptyTrash(Trash)]
  /\ UNCHANGED <<storeVars, cache, chanVars, taskVars>>

SendCommand ==
  /\ call.at = "send"
  /\ Send(call.cmd)
  /\ call' = NoCall
  /\ UNCHANGED <<storeVars, snapVars, inFlight, taskVars>>

\* message_body, of a body that is not cached: the set is looked at next.
MissBody(i) ==
  /\ call = NoCall /\ "body" \in Calls /\ Given(i)
  /\ i \notin cache
  /\ call' = [at |-> "ask", cmd |-> FetchBody(i)]
  /\ UNCHANGED <<storeVars, snapVars, chanVars, taskVars>>

\* Slip: whether it is in flight already is not asked.
AskBodySlip ==
  /\ call.at = "ask"
  /\ inFlight' = inFlight \cup {call.cmd.id} /\ Send(call.cmd)
  /\ call' = NoCall
  /\ UNCHANGED <<storeVars, snapVars, taskVars>>

AskBody ==
  /\ call.at = "ask"
  /\ IF call.cmd.id \in inFlight
     THEN UNCHANGED <<inFlight, commands>>
     ELSE inFlight' = inFlight \cup {call.cmd.id} /\ Send(call.cmd)
  /\ call' = NoCall
  /\ UNCHANGED <<storeVars, snapVars, taskVars>>

-----------------------------------------------------------------------------

\* Some messages are in the store and shown; the others are on the server, in
\* the Inbox.
SnapshotInit ==
  /\ \E at \in [Mail -> Folders \cup {Nowhere}] :
       LET stored == {m \in Mail : at[m] # Nowhere} IN
       /\ server = [m \in Mail |-> [folder |-> IF m \in stored THEN at[m] ELSE Inbox, flags |-> {}]]
       /\ lastId = Cardinality(stored) /\ lastId <= MaxId
       /\ rows = {[folder |-> at[m], id |-> Cardinality({k \in stored : k <= m}),
                   mail |-> m, flags |-> {}] : m \in stored}
  /\ view = [f \in Folders |-> Listed(f)]
  /\ cache = {} /\ inFlight = {} /\ commands = <<>> /\ call = NoCall
  /\ events = <<>> /\ update = NoUpdate /\ work = Idle /\ amiss = FALSE

Sync == \E m \in Mail : StoreEnvelope(m)

EventTask == ReadFolder \/ WriteFolder \/ WriteFlags \/ CacheFetched

CommandWorker ==
  \/ Receive \/ AtServer \/ CommandFails
  \/ StoreBody \/ StoreFlag \/ ForgetMoved \/ ClearFolder
  \/ PutBody \/ Release

\* A call comes to its end.
CallGoesOn == MoveShown \/ SendCommand \/ AskBody

DataSource ==
  \/ CallGoesOn
  \/ EmptyTrashCall
  \/ \E i \in 1 .. lastId :
       \/ DeleteMessage(i) \/ ToggleFlag(i) \/ MissBody(i)
       \/ \E d \in Folders : MoveMessage(i, d)
       \/ \E seen \in BOOLEAN : SetSeen(i, seen)

SnapshotNext == Sync \/ EventTask \/ CommandWorker \/ DataSource

SnapshotSpec == SnapshotInit /\ [][SnapshotNext]_snapshotVars

-----------------------------------------------------------------------------
(* Properties.                                                               *)

\* The types.
SnapshotTypeOK ==
  /\ server \in [Mail -> [folder : Folders \cup {Nowhere}, flags : SUBSET Flags]]
  /\ rows \subseteq Row /\ lastId \in 0 .. MaxId
  /\ view \in [Folders -> Seq(Entry)]
  /\ cache \subseteq Ids /\ inFlight \subseteq Ids
  /\ commands \in Seq(Command)
  /\ call.at \in {"none", "move", "send", "ask"} /\ call.cmd \in Command
  /\ events \in Seq(Event)
  /\ update.list \in Seq(Entry) /\ update.folder \in Folders \cup {Nowhere}
  /\ work.at \in {"recv", "server", "store", "put", "release"}
  /\ work.cmd \in Command /\ work.row \in Row \cup {NoRow}
  /\ amiss \in BOOLEAN

\* Every body in flight is being fetched, once: it is in the channel or with
\* command_worker, and there is one command for it.  Otherwise a body would
\* never be asked for again, or be downloaded twice.
Waiting(i) == {n \in DOMAIN commands : commands[n] = FetchBody(i)}
Fetching(i) == work.at # "recv" /\ work.cmd = FetchBody(i)
InFlightIsPending ==
  \A i \in Ids :
    /\ i \in inFlight <=> (Waiting(i) # {} \/ Fetching(i))
    /\ Waiting(i) # {} => ~Fetching(i)
    /\ \A n, k \in Waiting(i) : n = k

\* When all that was asked is done, and synced, the list shown of a folder is
\* the stored one, unless the engine has refused a command: optimistic changes
\* and events, in whatever order they met, leave no trace.  Trash may show what
\* empty_trash has removed, for that is not announced.
Quiet ==
  /\ commands = <<>> /\ work.at = "recv" /\ call.at \notin {"move", "send"}
  /\ events = <<>> /\ update = NoUpdate
  /\ \A m \in Mail : server[m].folder # Nowhere =>
       \E r \in rows : r.mail = m /\ r.folder = server[m].folder
QuietViewAgrees ==
  Quiet /\ ~amiss =>
    /\ \A f \in Folders \ {Trash} : view[f] = Listed(f)
    /\ \A n \in DOMAIN Listed(Trash) : \E k \in DOMAIN view[Trash] : view[Trash][k] = Listed(Trash)[n]
=============================================================================
