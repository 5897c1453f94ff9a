------------------------------ MODULE MailSync ------------------------------
(***************************************************************************)
(* Synchronisation of one IMAP account with the local store (imt-sync).     *)
(*                                                                          *)
(* Workers are the per-account loops of account_task::run: list folders,    *)
(* sync each folder, IDLE on the inbox, sync it again when it changes.       *)
(* Clients are the callers of SyncEngine commands, one command at a time     *)
(* each: the TUI's command worker, the MCP server.  They share the server    *)
(* and the store and nothing else, and every action below is what happens    *)
(* between two awaits of one of them: one IMAP command or one SQL statement. *)
(* What a task holds across awaits - a folder row, a SELECT result, fetched  *)
(* envelopes, a copy of a message row - is in its job, and may be stale by   *)
(* the time it is used.                                                      *)
(***************************************************************************)
EXTENDS ImapMailbox

CONSTANTS
  Inbox, Trash,   \* two of the folders
  Workers,        \* running account workers (one per process)
  Clients,        \* callers of engine commands
  KeepOnServer,   \* the account's keep_on_server
  NoId,           \* the id of no message
  MaxValidity,    \* bound: UIDVALIDITY values the server goes through
  Commands,       \* bound: the commands clients give
  Faults,         \* bound: the operations that may fail
  Elsewhere       \* bound: what other users of the mailboxes do

ASSUME SyncAssumption ==
  /\ Inbox \in Folders /\ Trash \in Folders /\ Inbox # Trash
  /\ Workers \cap Clients = {}
  /\ KeepOnServer \in BOOLEAN
  /\ NoId \notin Ids
  /\ NoRow \notin Folders \X UIDs
  /\ MaxValidity \in Nat \ {0}
  /\ Commands \subseteq {"sync", "body", "flag", "move", "empty"}
  /\ Faults \subseteq {"status", "scan", "folder", "connection", "command"}
  /\ Elsewhere \subseteq {"expunge", "flag"}

VARIABLES
  server,     \* the mailboxes
  arrived,    \* history: messages ever delivered
  discarded,  \* history: messages removed on purpose (expunged elsewhere, trash emptied)
  assigned,   \* history: the message each uid was given to, per UIDVALIDITY
  rows,       \* table messages
  folders,    \* table folders
  scanned,    \* table folder_attachment_scan
  minted,     \* history: the (folder, uid) each id was drawn for, NoRow before
  pc,         \* where each task is
  job,        \* what it holds across awaits
  queue,      \* a worker's folders still to sync in this pass
  listing,    \* a worker's LIST/STATUS answer merged with the stored rows
  unlisted,   \* a worker's folders still to upsert
  news        \* the server has told an idling worker of a change

serverVars == <<server, arrived, discarded, assigned>>
storeVars  == <<rows, folders, scanned, minted>>
workerVars == <<queue, listing, unlisted>>
vars == <<serverVars, storeVars, pc, job, workerVars, news>>

Procs == Workers \cup Clients

\* The steps of a folder sync, shared by the worker and the sync_folder command.
SyncPC == {"select", "plan", "fetch", "lookup", "upsert", "mark"}

WorkerPC == {"connect", "list", "existing", "upsert folders", "next", "idle"} \cup SyncPC

ClientPC == {"ready", "body", "set body", "delete", "store", "set flag",
             "move", "forget", "expunge", "clear"} \cup SyncPC

Held == [id : Ids \cup {NoId}, msg : Msgs \cup {NoMsg}, seen : BOOLEAN, body : Msgs \cup {NoMsg}]

Job == [folder : Folders,              \* folder being worked on
        stored : FolderRow,            \* its row as read before the network was used
        state  : FolderRow,            \* the SELECT answer
        range  : SUBSET UIDs,          \* uids to fetch
        scan   : BOOLEAN,              \* need_attachment_scan
        envs   : SUBSET Envelope,      \* fetched, not yet written
        uid    : 0 .. MaxUid,          \* message being written or commanded
        held   : Held]                 \* its row, as copied or built

NoHeld == [id |-> NoId, msg |-> NoMsg, seen |-> FALSE, body |-> NoMsg]

NoJob == [folder |-> Inbox, stored |-> NewFolderRow, state |-> NewFolderRow, range |-> {},
          scan |-> FALSE, envs |-> {}, uid |-> 0, held |-> NoHeld]

NoListing == [f \in Folders |-> NewFolderRow]

\* The types of the tables, of the mailboxes and of what each task holds.
TypeOK ==
  /\ server \in [Folders -> Mailbox]
  /\ arrived \subseteq Msgs /\ discarded \subseteq Msgs
  /\ assigned \in [Folders -> [UIDs -> Msgs \cup {NoMsg}]]
  /\ rows \in Table
  /\ folders \in [Folders -> FolderRow]
  /\ scanned \in [Folders -> BOOLEAN]
  /\ minted \in [Ids -> (Folders \X UIDs) \cup {NoRow}]
  /\ pc \in [Procs -> WorkerPC \cup ClientPC]
  /\ \A w \in Workers : pc[w] \in WorkerPC
  /\ \A c \in Clients : pc[c] \in ClientPC
  /\ job \in [Procs -> Job]
  /\ queue \in [Workers -> SUBSET Folders]
  /\ listing \in [Workers -> [Folders -> FolderRow]]
  /\ unlisted \in [Workers -> SUBSET Folders]
  /\ news \in [Workers -> BOOLEAN]

Init ==
  /\ server = [f \in Folders |-> EmptyMailbox]
  /\ arrived = {} /\ discarded = {}
  /\ assigned = [f \in Folders |-> [u \in UIDs |-> NoMsg]]
  /\ rows = [f \in Folders |-> [u \in UIDs |-> NoRow]]
  /\ folders = [f \in Folders |-> NewFolderRow]
  /\ scanned = [f \in Folders |-> FALSE]
  /\ minted = [i \in Ids |-> NoRow]
  /\ pc = [p \in Procs |-> IF p \in Workers THEN "connect" ELSE "ready"]
  /\ job = [p \in Procs |-> NoJob]
  /\ queue = [w \in Workers |-> {}]
  /\ listing = [w \in Workers |-> NoListing]
  /\ unlisted = [w \in Workers |-> {}]
  /\ news = [w \in Workers |-> FALSE]

Goto(p, step) == pc' = [pc EXCEPT ![p] = step]

\* Where a task goes when a folder sync ends, completed or not.
Home(p) == IF p \in Workers THEN "next" ELSE "ready"

Leave(p, step) == Goto(p, step) /\ job' = [job EXCEPT ![p] = NoJob]

\* The server announces a change of the inbox to the connections in IDLE then;
\* one that is not gets no event later, for idle() SELECTs and drains first.
Announce(fs) == news' = [w \in Workers |-> news[w] \/ (Inbox \in fs /\ pc[w] = "idle")]

-----------------------------------------------------------------------------
(* The server and its other users. *)

Deliver(f, m) ==
  /\ m \notin arrived /\ HasRoom(server[f])
  /\ server' = [server EXCEPT ![f] = AppendMail(@, [msg |-> m, seen |-> FALSE])]
  /\ assigned' = [assigned EXCEPT ![f] = [u \in UIDs |-> IF u = server[f].uid_next THEN m ELSE @[u]]]
  /\ arrived' = arrived \cup {m}
  /\ Announce({f})
  /\ UNCHANGED <<discarded, storeVars, pc, job, workerVars>>

OtherClientExpunges(f, u) ==
  /\ "expunge" \in Elsewhere /\ u \in Live(server[f])
  /\ server' = [server EXCEPT ![f] = Remove(@, {u})]
  /\ discarded' = discarded \cup {server[f].mail[u].msg}
  /\ Announce({f})
  /\ UNCHANGED <<arrived, assigned, storeVars, pc, job, workerVars>>

OtherClientFlags(f, u) ==
  /\ "flag" \in Elsewhere /\ u \in Live(server[f])
  /\ server' = [server EXCEPT ![f] = SetFlags(@, u, ~server[f].mail[u].seen)]
  /\ Announce({f})
  /\ UNCHANGED <<arrived, discarded, assigned, storeVars, pc, job, workerVars>>

\* The mailbox is rebuilt: every uid the store knows now means something else.
ServerRenumbers(f) ==
  /\ server[f].uid_validity < MaxValidity
  /\ \E order \in Orders(server[f]) :
       /\ server' = [server EXCEPT ![f] = Renumber(@, order)]
       /\ assigned' = [assigned EXCEPT ![f] =
            [u \in UIDs |-> IF u \in DOMAIN order THEN server[f].mail[order[u]].msg ELSE NoMsg]]
  /\ UNCHANGED <<arrived, discarded, storeVars, pc, job, workerVars, news>>

Environment ==
  \/ \E f \in Folders, m \in Msgs : Deliver(f, m)
  \/ \E f \in Folders, u \in UIDs : OtherClientExpunges(f, u) \/ OtherClientFlags(f, u)
  \/ \E f \in Folders : ServerRenumbers(f)

-----------------------------------------------------------------------------
(* A folder sync: sync_one_folder of the worker, sync_folder of the engine. *)

SelectFolderStep(p) ==
  /\ pc[p] = "select"
  /\ job' = [job EXCEPT ![p].state = SelectFolder(server[job[p].folder])]
  /\ Goto(p, "plan")
  /\ UNCHANGED <<serverVars, storeVars, workerVars, news>>

\* UidRange of the worker: everything, what is new, or (no answer) nothing.
NeedsFullResync(stored, state) ==
  stored.uid_validity # 0 /\ stored.uid_validity # state.uid_validity

\* Slip: the stored cursor is taken for the last uid seen, not the next one.
WorkerRangeSlip(stored, state, scan) ==
  IF NeedsFullResync(stored, state) \/ stored.uid_next = 0 \/ scan
  THEN IF state.uid_next > 1 THEN {u \in UIDs : u < state.uid_next} ELSE UIDs
  ELSE {u \in UIDs : stored.uid_next < u /\ u < state.uid_next}

WorkerRange(stored, state, scan) ==
  IF NeedsFullResync(stored, state) \/ stored.uid_next = 0 \/ scan
  THEN IF state.uid_next > 1 THEN {u \in UIDs : u < state.uid_next} ELSE UIDs
  ELSE {u \in UIDs : stored.uid_next <= u /\ u < state.uid_next}

NothingNew(stored, state, scan) ==
  /\ ~NeedsFullResync(stored, state) /\ stored.uid_next # 0 /\ ~scan
  /\ state.uid_next <= stored.uid_next

CommandRangeNew(stored, state, scan) ==
  IF scan \/ stored.uid_next = 0 \/ state.uid_next < stored.uid_next
  THEN UIDs
  ELSE {u \in UIDs : stored.uid_next <= u /\ u < state.uid_next}

CommandRangeLate(stored, state, scan) ==
  {u \in UIDs : stored.uid_next < u /\ u < state.uid_next}

\* UidRange of the command: nothing new means refresh everything.
CommandRange(stored, state, scan) ==
  IF scan \/ stored.uid_next = 0 \/ state.uid_next <= stored.uid_next
  THEN UIDs
  ELSE {u \in UIDs : stored.uid_next <= u /\ u < state.uid_next}

PlanFetch(p) ==
  LET j == job[p]
      scan == ~scanned[j.folder]
  IN  /\ pc[p] = "plan"
      /\ IF p \in Workers /\ NothingNew(j.stored, j.state, scan)
         THEN Leave(p, "next")
         ELSE /\ job' = [job EXCEPT ![p].scan = scan,
                                    ![p].range = IF p \in Workers
                                                 THEN WorkerRange(j.stored, j.state, scan)
                                                 ELSE CommandRange(j.stored, j.state, scan)]
              /\ Goto(p, "fetch")
      /\ UNCHANGED <<serverVars, storeVars, workerVars, news>>

FetchStep(p) ==
  /\ pc[p] = "fetch"
  /\ job' = [job EXCEPT ![p].envs = FetchEnvelopes(server[job[p].folder], job[p].range)]
  /\ Goto(p, "lookup")
  /\ UNCHANGED <<serverVars, storeVars, workerVars, news>>

\* A stored row takes the headers and the flags of the envelope fetched for it.
Merge(row, env) == [row EXCEPT !.msg = env.msg, !.seen = env.seen]

\* get_by_uid: the stored row with the fetched envelope merged in, or a new one.
LookupRow(p) ==
  LET f == job[p].folder IN
  /\ pc[p] = "lookup"
  /\ \E env \in job[p].envs :
       /\ IF rows[f][env.uid] # NoRow
          THEN /\ job' = [job EXCEPT ![p].envs = @ \ {env}, ![p].uid = env.uid,
                            ![p].held = Merge(rows[f][env.uid], env)]
               /\ UNCHANGED minted
          ELSE \E i \in Ids :
               /\ minted[i] = NoRow
               /\ minted' = [minted EXCEPT ![i] = <<f, env.uid>>]
               /\ job' = [job EXCEPT ![p].envs = @ \ {env}, ![p].uid = env.uid,
                            ![p].held = [id |-> i, msg |-> env.msg, seen |-> env.seen, body |-> NoMsg]]
  /\ Goto(p, "upsert")
  /\ UNCHANGED <<serverVars, rows, folders, scanned, workerVars, news>>

UpsertRow(p) ==
  /\ pc[p] = "upsert"
  /\ rows' = UpsertEnvelope(rows, job[p].folder, job[p].uid, job[p].held)
  /\ job' = [job EXCEPT ![p].uid = 0, ![p].held = NoHeld]
  /\ Goto(p, "lookup")
  /\ UNCHANGED <<serverVars, folders, scanned, minted, workerVars, news>>

\* The cursor moves to the UIDNEXT of the SELECT, once every envelope is in.
FinishSync(p) ==
  /\ pc[p] = "lookup" /\ job[p].envs = {}
  /\ folders' = UpsertFolder(folders, job[p].folder, job[p].state)
  /\ IF job[p].scan
     THEN Goto(p, "mark") /\ UNCHANGED job
     ELSE Leave(p, Home(p))
  /\ UNCHANGED <<serverVars, rows, scanned, minted, workerVars, news>>

\* A failure to record the scan is ignored.
MarkScanned(p) ==
  /\ pc[p] = "mark"
  /\ \E ok \in BOOLEAN :
       /\ ok \/ "scan" \in Faults
       /\ scanned' = [scanned EXCEPT ![job[p].folder] = ok \/ @]
  /\ Leave(p, Home(p))
  /\ UNCHANGED <<serverVars, rows, folders, minted, workerVars, news>>

FolderSync(p) ==
  \/ SelectFolderStep(p) \/ PlanFetch(p) \/ FetchStep(p)
  \/ LookupRow(p) \/ UpsertRow(p) \/ FinishSync(p) \/ MarkScanned(p)

-----------------------------------------------------------------------------
(* The worker: run, run_once, sync_folder_list. *)

Connect(w) ==
  /\ pc[w] = "connect"
  /\ queue' = [queue EXCEPT ![w] = Folders]
  /\ Goto(w, "list")
  /\ UNCHANGED <<serverVars, storeVars, job, listing, unlisted, news>>

\* LIST and STATUS; a STATUS that fails reads as 0 and 0.
ListFolders(w) ==
  /\ pc[w] = "list"
  /\ \E failed \in IF "status" \in Faults THEN SUBSET Folders ELSE {{}} :
       listing' = [listing EXCEPT ![w] =
         [f \in Folders |-> IF f \in failed THEN NewFolderRow ELSE SelectFolder(server[f])]]
  /\ Goto(w, "existing")
  /\ UNCHANGED <<serverVars, storeVars, job, queue, unlisted, news>>

\* Slip: the STATUS answer is trusted.
ToFolderSlip(info, existing) == info

\* The server's UIDVALIDITY, the stored cursor.
ToFolder(info, existing) == [info EXCEPT !.uid_next = existing.uid_next]

ListExisting(w) ==
  /\ pc[w] = "existing"
  /\ listing' = [listing EXCEPT ![w] = [f \in Folders |-> ToFolder(@[f], folders[f])]]
  /\ unlisted' = [unlisted EXCEPT ![w] = Folders]
  /\ Goto(w, "upsert folders")
  /\ UNCHANGED <<serverVars, storeVars, job, queue, news>>

UpsertListed(w) ==
  /\ pc[w] = "upsert folders"
  /\ \E f \in unlisted[w] :
       /\ folders' = UpsertFolder(folders, f, listing[w][f])
       /\ unlisted' = [unlisted EXCEPT ![w] = @ \ {f}]
       /\ IF unlisted[w] = {f}
          THEN Goto(w, "next") /\ listing' = [listing EXCEPT ![w] = NoListing]
          ELSE UNCHANGED <<pc, listing>>
  /\ UNCHANGED <<serverVars, rows, scanned, minted, job, queue, news>>

\* sync_one_folder starts by reading the stored row.
NextFolder(w) ==
  /\ pc[w] = "next"
  /\ \E f \in queue[w] :
       /\ queue' = [queue EXCEPT ![w] = @ \ {f}]
       /\ job' = [job EXCEPT ![w].folder = f, ![w].stored = folders[f]]
  /\ Goto(w, "select")
  /\ UNCHANGED <<serverVars, storeVars, listing, unlisted, news>>

EnterIdle(w) ==
  /\ pc[w] = "next" /\ queue[w] = {}
  /\ news' = [news EXCEPT ![w] = FALSE]
  /\ Goto(w, "idle")
  /\ UNCHANGED <<serverVars, storeVars, job, workerVars>>

\* An IDLE event of any kind: list the folders again, sync the inbox.
IdleEvent(w) ==
  /\ pc[w] = "idle" /\ news[w]
  /\ news' = [news EXCEPT ![w] = FALSE]
  /\ queue' = [queue EXCEPT ![w] = {Inbox}]
  /\ Goto(w, "list")
  /\ UNCHANGED <<serverVars, storeVars, job, listing, unlisted>>

\* An error inside one folder's sync is reported and the pass goes on.
FolderFails(w) ==
  /\ "folder" \in Faults /\ pc[w] \in SyncPC
  /\ Leave(w, "next")
  /\ UNCHANGED <<serverVars, storeVars, workerVars, news>>

\* Any other error, and a crash of the process, starts run_once over.
ConnectionFails(w) ==
  /\ "connection" \in Faults /\ pc[w] # "connect"
  /\ Leave(w, "connect")
  /\ queue' = [queue EXCEPT ![w] = {}]
  /\ listing' = [listing EXCEPT ![w] = NoListing]
  /\ unlisted' = [unlisted EXCEPT ![w] = {}]
  /\ news' = [news EXCEPT ![w] = FALSE]
  /\ UNCHANGED <<serverVars, storeVars>>

WorkerSteps(w) ==
  \/ Connect(w) \/ ListFolders(w) \/ ListExisting(w) \/ UpsertListed(w)
  \/ NextFolder(w) \/ EnterIdle(w) \/ IdleEvent(w) \/ FolderSync(w)

-----------------------------------------------------------------------------
(* Engine commands. *)

\* sync_folder reads the folder row before it connects.
SyncCommand(c, f) ==
  /\ "sync" \in Commands /\ pc[c] = "ready"
  /\ job' = [job EXCEPT ![c].folder = f, ![c].stored = folders[f]]
  /\ Goto(c, "select")
  /\ UNCHANGED <<serverVars, storeVars, workerVars, news>>

\* fetch_body, set_flag and move_message read the message first.
MessageCommand(c, command, step, f, u, held) ==
  /\ command \in Commands /\ pc[c] = "ready" /\ rows[f][u] # NoRow
  /\ job' = [job EXCEPT ![c].folder = f, ![c].uid = u, ![c].held = held]
  /\ Goto(c, step)
  /\ UNCHANGED <<serverVars, storeVars, workerVars, news>>

FetchBodyCommand(c, f, u) == MessageCommand(c, "body", "body", f, u, rows[f][u])

\* The flag to be written is put into the copy straight away.
SetFlagCommand(c, f, u, seen) == MessageCommand(c, "flag", "store", f, u, [rows[f][u] EXCEPT !.seen = seen])

MoveCommand(c, f, u) == MessageCommand(c, "move", "move", f, u, rows[f][u])

EmptyTrashCommand(c) ==
  /\ "empty" \in Commands /\ pc[c] = "ready"
  /\ job' = [job EXCEPT ![c].folder = Trash]
  /\ Goto(c, "expunge")
  /\ UNCHANGED <<serverVars, storeVars, workerVars, news>>

\* Slip: the folder is not selected first.
FetchBodySlip(f, u) == server[Inbox].mail[u].msg

\* SELECT of the folder, UID FETCH of the text.
FetchBody(f, u) == server[f].mail[u].msg

FetchBodyStep(c) ==
  LET j == job[c] IN
  /\ pc[c] = "body" /\ j.uid \in Live(server[j.folder])
  /\ job' = [job EXCEPT ![c].held.body = FetchBody(j.folder, j.uid)]
  /\ Goto(c, "set body")
  /\ UNCHANGED <<serverVars, storeVars, workerVars, news>>

BodyMissing(c) ==
  /\ pc[c] = "body" /\ job[c].uid \notin Live(server[job[c].folder])
  /\ Leave(c, "ready")
  /\ UNCHANGED <<serverVars, storeVars, workerVars, news>>

SetBodyStep(c) ==
  /\ pc[c] = "set body"
  /\ rows' = SetBody(rows, job[c].held.id, job[c].held.body)
  /\ IF KeepOnServer THEN Leave(c, "ready") ELSE Goto(c, "delete") /\ UNCHANGED job
  /\ UNCHANGED <<serverVars, folders, scanned, minted, workerVars, news>>

DeleteUidStep(c) ==
  /\ pc[c] = "delete"
  /\ server' = [server EXCEPT ![job[c].folder] = Remove(@, {job[c].uid})]
  /\ Leave(c, "ready")
  /\ Announce({job[c].folder})
  /\ UNCHANGED <<arrived, discarded, assigned, storeVars, workerVars>>

StoreFlagStep(c) ==
  /\ pc[c] = "store"
  /\ server' = [server EXCEPT ![job[c].folder] = SetFlags(@, job[c].uid, job[c].held.seen)]
  /\ Goto(c, "set flag")
  /\ Announce({job[c].folder})
  /\ UNCHANGED <<arrived, discarded, assigned, storeVars, job, workerVars>>

\* The whole copy goes back, not the flags alone.
UpsertFlagStep(c) ==
  /\ pc[c] = "set flag"
  /\ rows' = UpsertEnvelope(rows, job[c].folder, job[c].uid, job[c].held)
  /\ Leave(c, "ready")
  /\ UNCHANGED <<serverVars, folders, scanned, minted, workerVars, news>>

MoveUidStep(c) ==
  LET f == job[c].folder  u == job[c].uid IN
  /\ pc[c] = "move"
  /\ \E dst \in Folders \ {f} :
       /\ HasRoom(server[dst])
       /\ server' = MoveUid(server, f, u, dst)
       /\ assigned' = IF u \in Live(server[f])
                      THEN [assigned EXCEPT ![dst] = [v \in UIDs |->
                              IF v = server[dst].uid_next THEN server[f].mail[u].msg ELSE @[v]]]
                      ELSE assigned
       /\ Announce({f, dst})
  /\ Goto(c, "forget")
  /\ UNCHANGED <<arrived, discarded, storeVars, job, workerVars>>

ForgetStep(c) ==
  /\ pc[c] = "forget"
  /\ rows' = DeleteByUid(rows, job[c].folder, job[c].uid)
  /\ Leave(c, "ready")
  /\ UNCHANGED <<serverVars, folders, scanned, minted, workerVars, news>>

ExpungeTrashStep(c) ==
  /\ pc[c] = "expunge"
  /\ server' = [server EXCEPT ![Trash] = Remove(@, UIDs)]
  /\ discarded' = discarded \cup {server[Trash].mail[u].msg : u \in Live(server[Trash])}
  /\ Goto(c, "clear")
  /\ Announce({Trash})
  /\ UNCHANGED <<arrived, assigned, storeVars, job, workerVars>>

ClearTrashStep(c) ==
  /\ pc[c] = "clear"
  /\ rows' = DeleteByFolder(rows, Trash)
  /\ Leave(c, "ready")
  /\ UNCHANGED <<serverVars, folders, scanned, minted, workerVars, news>>

\* Any await of a command may fail, after the server acted as well as before.
CommandFails(c) ==
  /\ "command" \in Faults /\ pc[c] # "ready"
  /\ Leave(c, "ready")
  /\ UNCHANGED <<serverVars, storeVars, workerVars, news>>

StartCommand(c) ==
  \/ \E f \in Folders : SyncCommand(c, f)
  \/ \E f \in Folders, u \in UIDs :
       \/ FetchBodyCommand(c, f, u) \/ MoveCommand(c, f, u)
       \/ \E seen \in BOOLEAN : SetFlagCommand(c, f, u, seen)
  \/ EmptyTrashCommand(c)

CommandSteps(c) ==
  \/ FolderSync(c)
  \/ FetchBodyStep(c) \/ BodyMissing(c) \/ SetBodyStep(c) \/ DeleteUidStep(c)
  \/ StoreFlagStep(c) \/ UpsertFlagStep(c)
  \/ MoveUidStep(c) \/ ForgetStep(c)
  \/ ExpungeTrashStep(c) \/ ClearTrashStep(c)

Next ==
  \/ Environment
  \/ \E w \in Workers : WorkerSteps(w) \/ FolderFails(w) \/ ConnectionFails(w)
  \/ \E c \in Clients : StartCommand(c) \/ CommandSteps(c) \/ CommandFails(c)

Spec == Init /\ [][Next]_vars

-----------------------------------------------------------------------------
(* Safety. *)

Stable(f) == server[f].uid_validity = 1

\* Every message on the server below the stored cursor is in the store: the
\* cursor is the only memory of what was fetched, and nothing below it is
\* fetched again by the worker.  Trash is left out, for empty_trash clears
\* the rows of a message that arrives while it runs; so is a folder the
\* server has renumbered.
NoGap ==
  \A f \in Folders \ {Trash} : Stable(f) =>
    \A u \in Live(server[f]) : u < folders[f].uid_next => rows[f][u] # NoRow

\* A row's headers and its body are those of the message the server gave the
\* uid to, whichever task wrote them and however stale its copy was.
RowIdentity ==
  \A f \in Folders, u \in UIDs : Stable(f) /\ rows[f][u] # NoRow =>
    /\ rows[f][u].msg = assigned[f][u]
    /\ rows[f][u].body \in {NoMsg, assigned[f][u]}

OnServer == {server[f].mail[u].msg : f \in Folders, u \in UIDs} \ {NoMsg}

\* A message nobody discarded is on the server or in the store with its text.
MailRetained ==
  \A m \in arrived \ discarded :
    \/ m \in OnServer
    \/ \E f \in Folders, u \in UIDs : rows[f][u] # NoRow /\ rows[f][u].body = m

\* PlanFetch with nothing new, or FinishSync.
EndsSync(p) ==
  \/ pc[p] = "plan" /\ pc'[p] = "next" /\ NothingNew(job[p].stored, job[p].state, ~scanned[job[p].folder])
  \/ pc[p] = "lookup" /\ job[p].envs = {} /\ folders'[job[p].folder] = job[p].state

\* A sync that ends well, having selected the UIDVALIDITY the server still
\* has, leaves every message below the cursor it leaves with a row of its own.
SyncCatchesUp ==
  [][\A p \in Procs :
       LET f == job[p].folder IN
       EndsSync(p) /\ f # Trash /\ job[p].state.uid_validity = server[f].uid_validity
         => \A u \in Live(server[f]) : u < folders'[f].uid_next =>
              rows[f][u] # NoRow /\ rows[f][u].msg = server[f].mail[u].msg]_vars

-----------------------------------------------------------------------------
(* The inductive invariant: what a task holds across an await stays sound.   *)

\* A task at one of these steps holds a message row it read or built.
MessagePC == {"upsert", "body", "set body", "store", "set flag", "move", "forget"}

\* At these steps it holds nothing.
Resting == {"connect", "list", "existing", "upsert folders", "next", "idle", "ready"}

HoldsMessage(p) == pc[p] \in MessagePC => job[p].uid \in UIDs /\ job[p].held \in Row

TypeInv == TypeOK /\ \A p \in Procs : HoldsMessage(p)

Mirrored == Folders \ {Trash}

IsMessageAt(held, f, u) ==
  held.msg = assigned[f][u] /\ held.body \in {NoMsg, assigned[f][u]}

\* Uids are handed out in order, to the message the history says; a row is of
\* a uid that was handed out and its id was drawn for that uid.
FolderSound(f) ==
  /\ \A u \in UIDs : rows[f][u] # NoRow => minted[rows[f][u].id] = <<f, u>>
  /\ Stable(f) =>
       /\ \A u \in Live(server[f]) :
            u < server[f].uid_next /\ server[f].mail[u].msg = assigned[f][u]
       /\ \A u \in UIDs : rows[f][u] # NoRow =>
            u < server[f].uid_next /\ IsMessageAt(rows[f][u], f, u)

\* So is whatever a task is about to write; what it is about to forget is gone.
JobSound(p) ==
  LET j == job[p]  f == job[p].folder IN
  /\ pc[p] \in Resting => j = NoJob
  /\ pc[p] \in MessagePC => minted[j.held.id] = <<f, j.uid>>
  /\ Stable(f) =>
       /\ \A e \in j.envs : e.uid < server[f].uid_next /\ e.msg = assigned[f][e.uid]
       /\ pc[p] \in MessagePC =>
            j.uid < server[f].uid_next /\ IsMessageAt(j.held, f, j.uid)
       /\ pc[p] = "forget" => j.uid \notin Live(server[f])

\* c is a cursor that may be stored: nothing live below it lacks a row.
Covered(f, c) ==
  /\ c <= server[f].uid_next
  /\ \A u \in Live(server[f]) : u < c => rows[f][u] # NoRow

\* So are the cursor in the store,
FolderCovered(f) == Stable(f) => Covered(f, folders[f].uid_next)

\* every copy of it a worker is about to write back,
ListCovered(p) ==
  p \in Workers /\ pc[p] = "upsert folders" =>
    \A f \in Mirrored : Stable(f) => Covered(f, listing[p][f].uid_next)

\* and the one a sync will store, once what it holds has been written.
JobCovered(p) ==
  LET j == job[p]  f == job[p].folder IN
  Stable(f) /\ f \in Mirrored =>
    /\ Covered(f, j.stored.uid_next)
    /\ j.state.uid_next <= server[f].uid_next
    /\ pc[p] = "fetch" =>
         \A u \in UIDs : j.stored.uid_next <= u /\ u < j.state.uid_next => u \in j.range
    /\ pc[p] \in {"lookup", "upsert"} =>
         \A u \in Live(server[f]) : u < j.state.uid_next =>
           \/ rows[f][u] # NoRow
           \/ \E e \in j.envs : e.uid = u
           \/ pc[p] = "upsert" /\ j.uid = u

\* Types, identity of rows and of what tasks hold, coverage of every cursor.
IInv ==
  /\ TypeInv
  /\ \A f \in Folders : FolderSound(f)
  /\ \A p \in Procs : JobSound(p)
  /\ \A f \in Mirrored : FolderCovered(f)
  /\ \A p \in Procs : ListCovered(p) /\ JobCovered(p)

-----------------------------------------------------------------------------
(* The promise of FolderMirror, for every folder but Trash, as long as the   *)
(* server does not renumber.                                                 *)

Mirror == INSTANCE FolderMirror WITH
  Folders  <- Mirrored,
  live     <- [f \in Mirrored |-> Live(server[f])],
  next     <- [f \in Mirrored |-> server[f].uid_next],
  mirrored <- [f \in Mirrored |-> Stored(rows, f)],
  cursor   <- [f \in Mirrored |-> folders[f].uid_next]

\* The sync engine implements FolderMirror.
MirrorSpec == Mirror!Spec

-----------------------------------------------------------------------------
(* Liveness. *)

\* Tasks keep running.  The TUI's auto-refresh puts a sync of every folder
\* into the command queue again and again, and the queue is served in order,
\* so a client gets to each of them however many other commands it is given.
WorkersRun == \A w \in Workers : WF_vars(WorkerSteps(w))

ClientsRun ==
  /\ \A c \in Clients : WF_vars(CommandSteps(c))
  /\ \A c \in Clients, f \in Folders : SF_vars(SyncCommand(c, f))

RefreshSpec == Spec /\ WorkersRun /\ ClientsRun

Caught(u) == rows[Inbox][u] # NoRow \/ u \notin Live(server[Inbox])

\* New mail in the inbox is eventually in the store.
NewMailArrives == \A u \in UIDs : u \in Live(server[Inbox]) ~> Caught(u)

FlagAgrees(u) == u \in Live(server[Inbox]) => rows[Inbox][u] # NoRow /\ rows[Inbox][u].seen = server[Inbox].mail[u].seen

\* Once nobody changes flags on the server any more, the store catches up.
FlagsCatchUp ==
  \A u \in UIDs :
    <>[][server'[Inbox] = server[Inbox]]_server => <>[]FlagAgrees(u)
=============================================================================
