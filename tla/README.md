# TLA+ models of Indicium Mail TUI

`imt` is a terminal mail client. A sync engine keeps a local SQLite store in
step with IMAP (or POP3) mailboxes, a TUI and an MCP server read that store and
give the engine commands. This directory holds TLA+ modules of the parts where
things can go wrong, TLC configurations that check them on small instances,
and theorems about them that TLAPS proves for every instance.

## 1. The system

| Component | State it keeps | Operations | Talks to |
|---|---|---|---|
| `imt-core` | none: `Account`, `Folder`, `Message`, `Draft`, `SyncEvent` | constructors | everything |
| `imt-store` (`repo/messages.rs`, `repo/folders.rs`) | tables `messages`, `folders`, `folder_attachment_scan` | one SQL statement each: `upsert_envelope`, `set_body`, `get_by_uid`, `delete_by_uid`, `delete_by_folder`, `upsert`, `mark` ... | called by engine, worker, event task, MCP |
| `imt-store` (accounts, drafts, search, secrets) | `accounts`, `drafts`, FTS index, secret files | `upsert`, `delete`, `store`, `load` | engine, CLI |
| `imt-net` IMAP | one connection: a session slot (owned / in IDLE / empty) | `list_folders`, `select_folder`, `fetch_envelopes`, `fetch_body`, `set_flags`, `append`, `move_uid`, `expunge_folder`, `delete_uid`, `idle` | the server |
| `imt-net` POP3 | one session, message numbers valid in it only | the same trait; numbers stand in for uids | the server |
| `imt-net` SMTP, OAuth | none | `send`; `exchange_code`, `refresh` | servers |
| `imt-sync` account worker | per account: connection, folder list, back-off | `run`, `run_once`, `sync_folder_list`, `sync_one_folder`, IDLE loop | store, server, event channel |
| `imt-sync` engine | map of running workers behind a `tokio::sync::Mutex` | `add_/update_/remove_account`, `sync_folder`, `fetch_body`, `set_flag`, `move_message`, `empty_trash`, `send`, `save_draft_to_imap`, `shutdown` | worker, store, a connection of its own per command |
| `imt` datasource, snapshot | in-memory copy of the store for the TUI, command queue, set of bodies in flight | optimistic changes, `command_worker` (one command at a time), `apply_event` | TUI, engine |
| `imt-tui` | modes, selection, compose and onboarding forms, settings | key and mouse handlers, `tick` | data source |
| `imt-mcp` | none between requests | tools: list, read, send, flag, move | engine, store |
| `imt` main, CLI | process start, exit | `run_tui`, `run_mcp`, account subcommands | all |

What is hard here:

* **Nobody locks a folder.** The account worker, the TUI's command worker, an MCP
  process and a second `imt` work on the same rows, each over a connection of
  its own, and each holds what it read (a folder row, a message row, fetched
  envelopes) across network round trips of seconds.
* **The cursor is the only memory.** `uid_next` of a stored folder says what has
  been fetched. It is copied, written back by folder listings, and moved by
  syncs that can end in any order, fail half way, or be killed.
* **A row's id is not stable.** `upsert_envelope` replaces the id of an existing
  row by the one the writer drew, and other tasks hold the old one.
* **Servers do things.** Uids are renumbered, messages vanish, flags change, IDLE
  tells a client only of what happens while it listens.
* **Cancellation** is `Notify::notify_waiters`, which reaches only those who are
  waiting at that moment.

## 2. Modules

| Module | What it is |
|---|---|
| `MailStore` | rows of `messages` and `folders`, and the statements on them, as operators on tables |
| `ImapMailbox` | a mailbox on the server, and what each IMAP command does to it and answers |
| `MailSync` | **the core**: workers and engine commands on one account, extends the two above |
| `FolderMirror` | the abstract specification of incremental synchronisation |
| `MCMailSync` | `MailSync` for TLC: the symmetry of ids and messages |
| `MailSync_proofs` | type correctness, the inductive invariant, the safety theorems |
| `MirrorProofs` | `MailSync` implements `FolderMirror` |
| `FolderMirror_proofs` | `FolderMirror` keeps its promise |
| `AccountLifecycle` | the engine's map of workers, the account commands, start and shutdown |
| `MCAccountLifecycle` | the same for TLC: the symmetry of accounts and workers |
| `AccountLifecycle_proofs` | its inductive invariant and safety theorems |
| `MailSnapshot` | the TUI's snapshot of messages, the data source, `command_worker`, the event task |
| `MailView` | the TUI's list, reader and move dialog on top of it |
| `MCMailView` | the same for TLC: where behaviours are cut off |
| `MailView_proofs` | the properties of both; `MailView` implements `MailSnapshot` |
| `Pop3Mail` | a POP3 maildrop under the same worker and commands, and the local folders; extends `MailStore` |
| `MCPop3Mail` | the same for TLC |
| `Addressing` | whom a reply goes to, and what the compose window's text fields do to an address |
| `OAuthTokens` | the token files of an OAuth2 account, the worker that refreshes them, the endpoint that rotates them |
| `Outbox` | mails written, queued, saved and sent, by the TUI and by the MCP server; extends the two above |
| `MCOutbox` | the same for TLC: messages to reply to |
| `AccountForm` | the form an account is added or edited with, and what the data source makes of it |
| `Tui` | the modes of the terminal interface and the windows behind them; extends `AccountForm` |
| `MCTui` | the same for TLC: accounts to start with, kinds of sessions |
| `Pop3Mail_proofs` | types, bodies under their own headers, nothing lost |
| `Outbox_proofs` | the invariants of `OAuthTokens` and `Outbox`: types, tokens, recipients, nothing twice and nothing forgotten |
| `Tui_proofs` | modes and windows, drafts and the AI's answers, settings, the account form |

### MailSync

`server` holds the mailboxes, `rows`, `folders` and `scanned` the three tables.
`pc` says at which await each task is and `job` what it holds there. A step is
what happens between two awaits: one IMAP command or one SQL statement, for in
between any other task may run. The steps of a task, in order, and their code:

| Task | Steps (`pc`) | Code |
|---|---|---|
| worker | `connect`, `list`, `existing`, `upsert folders` (one per folder), then `next` ... `idle` | `run_once`, `sync_folder_list` in `account_task.rs` |
| folder sync, of a worker or of the `sync_folder` command | `select`, `plan`, `fetch`, `lookup`/`upsert` (per envelope), `mark` | `sync_one_folder`; `SyncEngine::sync_folder` |
| `fetch_body` | `body`, `set body`, `delete` (keep_on_server off) | `engine.rs` 216-252 |
| `set_flag` | `store`, `set flag` | `engine.rs` 555-590 |
| `move_message` | `move`, `forget` | `engine.rs` 336-392 |
| `empty_trash` | `expunge`, `clear` | `engine.rs` 527-551 |

The environment delivers mail, and, where a run's `Elsewhere` and `MaxValidity`
allow it, expunges, flags and renumbers. `Faults` says which operations may
fail: a STATUS (read as 0), the scan mark (ignored by the code), one folder of a
pass, the whole connection (which also stands for a crash and restart of the
worker's process), any await of a command.

`arrived`, `discarded`, `assigned` and `minted` are history: no
action reads them to decide anything, except that `minted` makes a new id new.

Abstractions: a message is a model value and carries its headers; flags are one
flag, seen; attachments, counts, threads and snippets are left out (no property
here is about them); folders are known by their path, so folder ids are not
modelled; LIST with its STATUS commands is one step, and so is the message,
folder and account read at the start of a command (nothing but this account's
rows changes them); `move_uid` is its MOVE branch and `delete_uid` its UIDPLUS branch only. Read errors that the code turns into
"no such row" (`get_by_uid(..).ok()`) are not modelled.

### AccountLifecycle

Here a worker is not what it syncs but whether it can hear a cancel: `start` (tokens,
connect), `pass` and `resync` (it will not look at the cancel before it has gone
through all folders), `idle`, `backoff`, `no folders` (it awaits `notified()` and
something else), `ended`. `tasks` is `SyncEngine::tasks`, `holder` its lock,
`table` and `secrets` the accounts and their credentials in the store, `shown`
the accounts in the TUI's snapshot. The version of an account stands for its
settings: the engine and the worker hold copies, and 0 is "no row".

| Action | Code |
|---|---|
| `AddAccount`, `UpdateAccount`, `DeleteAccount` | the data source: the snapshot changes, a command is queued |
| `Receive`, `UpsertAccount`, `RemoveTask`, `JoinTask`, `SpawnTask`, `InsertTask`, `DeleteRow`, `CommandFails` | `command_worker` in `add_account`, `update_account`, `remove_account`, `spawn_task`, one step per await |
| `StartAccount`, `Started`, `Quit`, `LockTasks`, `DrainTask`, `JoinDrained`, `Exit` | `run_tui`: `spawn_futures`, the event loop's end, `shutdown` |
| `FreshenTokens`, `EndsPass`, `Wakes`, `HearsCancel` | the worker |

Three facts of the platform are built in. The workspace is of edition 2021, where the
guard in the scrutinee of `if let Some(prev) = tasks.lock().await.remove(..)` lives to the end of
the block: the map stays locked while the worker is joined. `notify_waiters` wakes
those who are waiting and stores no permit (`heard` is only for workers that
await it). When two branches of a `select!` are ready either may be taken, and
the notification goes with the dropped future (`Wakes` removes it from `heard`).

Update and delete come from a TUI that shows the account (`UpdateShown`, `DeleteShown`), or from a form or dialog that has kept its id when the
account has gone (`UpdateNotShown`, `DeleteNotShown`): `datasource.rs` then finds nothing to change in the snapshot and sends the command all the
same, and the engine writes the row and starts the worker again. `late` counts these, up to `MaxLate`; `astray` remembers the accounts such an
update was sent for, and those a command failed for. Ids are never
given out twice (`known`), and the commands that do not concern accounts are left out:
they touch neither the map nor its lock. `StartAccount` is one step, since nothing
else runs on the map until all accounts have been started.

### MailSnapshot and MailView

`view` is `messages_by_folder`, `cache` the LRU of bodies (never full here),
`commands` and `events` the two channels. The engine's commands are shorter than in
`MailSync`: the row read and the server's part are one step (`AtServer`), the
statement and the event after it another. `rows` and `server` are there for what they do
to the view; a sync is `StoreEnvelope`, at any time.

| Who | Steps | Code |
|---|---|---|
| event task | `ReadFolder`, `WriteFolder` (`list_by_folder` is awaited before the lock is taken), `WriteFlags`, `CacheFetched` | `Snapshot::apply_event` |
| `command_worker` | `Receive`, `AtServer` or `CommandFails`, then `StoreFlag`, `ForgetMoved`, `ClearFolder`, or `StoreBody`, `PutBody`, `Release` | `datasource.rs` 317-434, `engine.rs` |
| data source, in a call of the TUI | `MoveMessage` and `DeleteMessage` send, then `MoveShown`; `SetSeen`, `ToggleFlag`, `EmptyTrashCall` change the view, then `SendCommand`; `MissBody`, then `AskBody` | `datasource.rs` 78-220 |
| keys | `Delete`, `MarkSeen`, `ToggleRead`, `ToggleFlagged`, `EmptyTrashKey`, `OpenMoveModal`, `MoveSelect`, `MoveCancel`, `ChooseFolder`, `Select` | `app.rs` |
| what a key or tick goes on to | `RefreshMessages`, `ShowBody` | `refresh_messages`, `refresh_body` |
| tick | `DwellMarksRead`, `Tick` | `maybe_mark_read_after_dwell`, `tick` |

In `MailSnapshot` the data source has any caller, for any id ever given to a row; in
`MailView` the caller is the TUI, `due` says what its key is still to refresh, and nothing else of
the TUI comes in between.

Abstractions: `internal_date` is the message's number (two messages never have the
same); the limit of 500 rows is not reached; a copy always stays on the server;
counts, threads, search, notifications and the periodic refresh are left out. Which
message the dwell timer is for is left open: it may mark the selected
message read at any tick. A row read with its body shows it at once: `ShowBody` leaves open whether it does.

### Pop3Mail

The store and the steps of a folder sync are those of `MailSync`; the server is a sequence,
`drop`, and `sessions` says what each open connection has numbered. A row's uid in the
Inbox is a number in such a session. Sent and Trash are rows in the store only.

| Action | Code |
|---|---|
| `Connect`, `ListFolders`, `UpsertListed`, `ReadCursor`, `SelectFolder`, `FetchEnvelopes`, `LookUp`, `Upsert`, `Mark`, `CountChanges` | `account_task.rs` and `sync_folder`, each with what `pop3.rs` does there |
| `FetchBodyCommand`, `Retr`, `StoreBody`, `DeleteFromServer` | `fetch_body`, RETR, DELE and the QUIT that commits it |
| `SetFlagCommand`, `StoreFlag` | `set_flag`; the backend's `set_flags` does nothing |
| `MoveCommand`, `RetrMoved`, `ReadDestination`, `File`, `Forget`, `AdvanceDestination` | `move_message` and `move_local` |
| `SendCommand`, then from `ReadDestination` on | `send` and `store_local_sent` |
| `EmptyTrash` | `empty_trash`, in one statement |
| `Deliver`, `OtherClientRemoves`, `SessionEnds`, `CommandFails` | server, network, a crash or an error of the store |

STAT may or may not count what arrived since the session began (`Stats`): servers differ. `causes` records what the
code's numbers do not survive: a message removed from the maildrop, a local folder that is synced as if it were remote, a
row filed into the Inbox, filed without its body, or over another row, a row of a local folder opened to which the maildrop had an answer ("local opened"): a row is opened
whether or not it has its body, since only the reader's cache is looked at, and its uid means nothing there. Each property names the causes it does not hold under.

### Outbox, OAuthTokens and Addressing

`queue` is the command channel of the TUI's process, `pc` and `job` say where `command_worker` and
the loop of the MCP server are; each of the two serves one command at a time, and an await is a
step. `saved` is the drafts table, `copies` and `filed` the Drafts and Sent folders on the server, `delivered` what SMTP has accepted.
`asked` and `told` are what a user or agent wanted and last heard.

| Action | Code |
|---|---|
| `StartCompose`, `SaveComposeDraft`, `SendCompose`, `CancelCompose` | the compose window in `app.rs` |
| `Receive`; `AgentCalls` | `command_worker`; the loop of the MCP server with its tools `send` and `reply` |
| `UpsertDraft`, `SaveDraftToImap` | SaveDraft: the row, then APPEND to Drafts |
| `Prepare`, `SmtpSend`, `FileSentCopy`, `DeleteDraft` | `SyncEngine::send` |
| `Exit` | quitting: the workers are awaited, `command_worker` is not |
| `EnsureFresh`, `Refresh`, `RefreshFails`, `StoreAccess`, `StoreExpiry`, `StoreRefresh`, `Authenticate`, `ConnectFails`, `Killed`, `Ages` | `ensure_fresh_tokens` and the worker's connect, the endpoint, a kill at any step, time |

A token is the number of the grant it came with, and an access token is young, closing (its expiry less than a minute away) or
dead. The two processes have a worker each, and the files are the same. `Addressing` treats recipients as sets; of a display
name it keeps whether it has a comma.

### Tui and AccountForm

`mode` is the interface's mode, and for each mode with a window there is the window's state: `compose` and
`picker`, `list`, `form`, `draft` (the settings dialog), `viewer` and `views`, `menu`. An action is one event of the
loop in `run.rs`: a key (with the guard of its key map), a click, a drag or a tick; `CliEnds` is the AI's thread and `Worker`
the answer to an AddAccount. `look` is the palette and pane widths as drawn, `disk` is config.toml. A form's field holds where its
value comes from: nowhere, the protocol, a preset, the user.

| Actions | Code |
|---|---|
| `StartCompose`, `TypeBody`, `ChooseSender`, `DropFile`, `SaveDraft`, `Send`, `CancelCompose` | compose window |
| `AddAttachment`, `FilePickerToggle`, `FilePickerConfirm`, `FilePickerCancel` | file picker |
| `AiGenerateReply`, `AiReplyWithInstructions`, `CliEnds`, `Tick` (`PollAi`) | AI replies |
| `OpenSettings`, `CycleTheme`, `SaveSettings`, `CancelSettings`, `DividerHit`, `DragDivider`, `SaveLayoutPrefs` | settings and panes |
| `OpenView`, `CloseView`, `OpenAttachments`, `AttachmentView`, `AttachmentClose`, `Search`, `CloseInfo`, `CloseHelp` | viewers |
| `OpenAccounts`, `Select`, `EditSelected`, `DeleteSelected`, `AddFromList`, `CloseAccounts` | account manager |
| `Fill`, `SaveOnboarding`, `CancelOnboarding` | the form (`FillIn`, `SaveForm`, `CancelForm` of `AccountForm`) |
| `CommandKey`, `OpenMenu`, `CloseMenu`, `HandleMenuKey`, `RunMenu`, `MouseMenuDown` | commands and the menu bar, by key and mouse |

The message list below the windows, the focus and all texts are left out; `MailView` has the list and the reader.

## 3. What the runs check

The runs of `MailSync` have two folders, one of which is Trash.

| Run | Instance | Question |
|---|---|---|
| `SyncFaults` | one worker; 2 messages, 2 uids, 3 ids; every worker fault; expunges elsewhere | does the cursor ever pass a message that is not stored (`NoGap`), does a sync that ends well catch up (`SyncCatchesUp`) |
| `SyncMoves` | worker and client; sync, move, empty | is mail ever lost (`MailRetained`); is every step one of `FolderMirror` (`MirrorSpec`) |
| `SyncClients` | worker and client; body, flag; keep_on_server off; command and folder failures; one UIDVALIDITY change | do rows and bodies stay those of their message (`RowIdentity`); the inductive invariant `IInv`, which must hold through a renumbering |
| `Refresh` | worker and client that refreshes; flags change elsewhere | `NewMailArrives`, `FlagsCatchUp` |
| `AccountFaults` | two accounts, three workers, two versions, two commands queued beside the one under way, one of them for an account no longer shown; statements and token exchanges fail | one worker per account (`OneWorker`) on current settings (`ConfigIsCurrent`), no orphaned credentials (`SecretsGone`), what shutdown can miss (`ShutdownFindsAll`); TUI and database agree when the commands are done (`AccountsAgree`), failures and late updates excepted |
| `AccountsLive` | the same with one command queued, none late and no faults, under `FairSpec` | where no cancel is lost, commands and shutdown end (`OnlyLostCancelsHang`) |
| `View` | two messages, two ids; bodies, moves, deletes, emptying the trash | the view ends as the store has it (`QuietViewAgrees`), bodies are fetched once (`InFlightIsPending`), the reader mixes messages only when a tick loses the selected one (`OnlyLossMixes`) |
| `ViewFlags` | one message, two ids, two flags; flags and moves | `QuietViewAgrees`, where flags are changed in view, server and store at different times |
| `Pop3` | worker and client; two messages of which the user may send one, two uids, three ids; every command, a failing RETR, crashes, another client that deletes | is a body shown under another message's headers, the causes named apart (`BodiesMatch`); is a message lost that the cursor has passed, through moves in three awaits (`NothingLost`) |
| `Outbox` | one mail from the window, one from an agent, three messages to answer; two grants; SMTP, its answer, database and APPEND fail, the process is killed, the user quits | nobody gets a mail twice (`NeverTwice`), none is forgotten (`NothingForgotten`), everyone hears how it went (`EveryoneIsTold`), replies reach whom they should (`RepliesReachAll`), the token files stay usable (`ExpiryHonest`, `NotLockedOut`) |
| `Tui` | two account ids, two clients, one file, two themes and pane widths; four kinds of session | see section 4: `ModeHasState`, `DraftsInReach`, `AnsweredWhereAsked`, `MailKept`, `FilesAsChosen`, `SentAsSeen`, `SettingsAgree`, `TypedStays`, `SavesWhatItWasOpenedFor`, `CodeIsExchanged` |

Bounds: two messages and two uids per folder give a uid below, at and above
every cursor, a message that moves while another arrives, and an off-by-one that
skips one message; a third id lets a sync be cut short and a message be inserted
under a new id. Ids and uids are used up, so a behaviour ends: an idle worker with
nothing to read stops as the real one does, and deadlock is not checked.
Symmetry is used for ids and messages in runs without liveness. In `SyncClients` the
Inbox may be renumbered and Trash may not (`TrashStays`), and states that differ in flags alone are one
(VIEW `ButFlags`): no guard and neither of its invariants looks at a flag.

`Pop3` stops a behaviour once it has a cause (`Premises`): the cause itself is still checked, what comes
behind it says less or nothing. Rows that differ in being read or not are one (VIEW `ButFlags`), and with keep_on_server
off every behaviour of an account that keeps its mail is there too, up to the first deletion. Two uids in each folder give a cursor in front of, on and behind a message. `Outbox` has two mails and a queue of two, so that a
mail waits behind another, an agent that tries twice, one process at a time, and two grants, hence one rotation;
its fairness (`FairSpec`) is that `command_worker` and the MCP loop go on, for the statements they await end or fail. (SMTP and IMAP without a timeout may
hang: an assumption on the servers, as in the other liveness runs.)
`Tui` is cut into `Sessions`, each of which uses some of the windows in depth and opens up to three drafts, forms or
dialogs: an abandoned edit, the next form and its save, or a draft, the next one and an answer that is late, fit in
that. `MaxTouches` is two fields of a form, any two in any order; `MaxCovers` one window clicked away.
In all three, messages, mails or windows are used up, so deadlock is not checked.
Fairness. `RefreshSpec` assumes that a task that can take a step takes one (weak fairness of each worker and of each command under way): tokio
polls ready tasks and servers answer. It adds strong fairness of the
command "sync this folder" for each folder: the TUI's auto-refresh (every 60 s
unless switched off) queues one again and again, and `command_worker` serves its
queue in order. Nothing is assumed of failures: the liveness runs have none.

`AccountLifecycle!FairSpec` assumes weak fairness of `command_worker`, of `main` and of what a
worker does by itself: a pass ends or fails, a worker that heard a cancel
while it waits ends. That a pass ends is an assumption on the server, which answers or
drops the connection: the code sets no timeout but those of IDLE. Nothing is assumed of `Wakes` (mail may never come) nor of the user.
Its liveness run has no faults and no late command. Its runs have three workers for two accounts, which is enough for each account to have one and for an
update to start another; when they are used up, or the program has exited, nothing more
happens, so deadlock is not checked.

The runs of `MailView` have one command waiting beside the one under way and one event on its
way, which is enough for a change to be shown, carried out and announced in any
order with a reload of its folder; the second id is for a message that is synced
again after its move. They follow a behaviour until the engine refuses what has
been shown (`NotAmiss`). They have no liveness property, and ids are used up,
so deadlock is not checked.

One run ends in a violation of a sentence of the repository:

| Run | The sentence | What happens |
|---|---|---|
| `KeepOff` | `engine.rs:230` "The local copy (with its body) is kept" | a client's sync stores a new message and its body is asked for; the worker's sync, which looked before the row was there, writes it under an id of its own; `set_body` by the old id then changes no row, and the server copy is deleted |

It has a worker and a client without moves, so that this is all it can find. A client that also moves (`"move"` in `Commands`) violates `MailRetained`
in a shorter way, with no second task: see section 4.

## 4. What the models show of the code

The properties hold as they are stated, and many of them name what they except: a
history variable (`causes`, `lapsed`, `flaws`, `amiss`, `astray`) records that the code has done
something its other parts do not expect. Each exception is a behaviour the model
reaches, and worth a look:

Synchronisation

* After the server rebuilds a mailbox (new UIDVALIDITY), `SyncCatchesUp` fails: the
  listing stores the new UIDVALIDITY first, so the comparison that would start a
  full resync compares it with itself, against `account_task.rs:26` "so we don't
  blindly trust the LIST response and skip a needed envelope fetch". Its run, `SyncFaults`, therefore has a
  server that does not renumber.
* With the worker alone (fairness without `ClientsRun`) `NewMailArrives` and
  `FlagsCatchUp` fail: mail that arrives between the SELECT of a sync and IDLE waits for the
  next event, against `README.md:36` "new mail appears instantly without polling", and the
  sync that an IDLE event starts fetches only uids at or above the cursor, so a
  flag changed elsewhere is announced and never read (`DOCUMENTATION.md:74` says
  the worker "on EXISTS/EXPUNGE/FETCH re-syncs"). The TUI's refresh is what heals both.
* A sync that fetched envelopes before a move brings the moved row back, and nothing
  removes it (`engine.rs:335` "Persists the move locally as well.").
* With keep_on_server off, a message whose body was downloaded is in the store alone. A later move finds nothing on the server, which says so with an OK,
  and `move_message` deletes the row (`engine.rs:357`), against `README.md:59` "a message is removed from the server once its body is downloaded,
  while the local copy stays in the client".
* `OnlyLossMixes` says when the reader shows one message's headers above another's body:
  `tick` replaces the list and leaves `current_body`. It does happen, whenever the
  message selected leaves the folder by itself, and a reply then quotes the wrong mail.
* An optimistic change is not taken back when the engine refuses it. `amiss` records
  that, and `QuietViewAgrees` speaks of behaviours without it. (It also records a move
  that the engine has carried out before the TUI, between two statements, has shown it.)
  Trash is compared in one direction, for `empty_trash` announces counts only, and
  what arrived in Trash meanwhile stays in the view.

`NoGap` and `FolderMirror` leave Trash out: `empty_trash` expunges and then clears
the local folder, and a message that arrives and is synced in between loses its
row below the cursor.

POP3

* Numbers are renumbered by anything that deletes: another client, or the account's own keep_on_server = off (cause "removed").
  Bodies then land under other messages' headers and new mail is passed over.
* `select_folder` ignores the path, so a sync of Sent or Trash fills it with the maildrop ("local synced"), against
  `local.rs:7`, which calls these folders local. Moving a message into the Inbox takes a number that the next new message
  would have had ("to inbox"). Two commands that file into a folder together take one uid,
  and so do a move that fails before it has advanced `uid_next` and the next one; `set_flag` may then write the row it
  read before over the message that now has the uid, and a move's `delete_by_uid` (`engine.rs:506`) removes whichever row has the
  uid by then ("occupied").
* A row is opened by its uid on the server even when its body is stored, and rows of Sent and Trash are opened so too: another
  message's body replaces theirs, and with keep_on_server off that message is removed from the maildrop ("local opened"),
  against `engine.rs:394` on the copy of a mail sent, "Persists the body so it is readable.".
  Only the reader's cache stands before it, and it knows no row that was just moved or sent, nor any after a restart.
* An envelope has no flags, so a full listing marks what was read unread again (`FromEnvelope`), and brings rows back
  that were moved out of the Inbox.

Sending and tokens

* `send` deletes the drafts row last and its failure is the command's: the mail is out and the user reads that it failed
  ("row kept"). The same when the answer of SMTP is lost.
* Quitting drops queued commands, though the status has said "Sent" since the key was pressed ("exit").
* Only the account worker freshens tokens, when it connects; IDLE may then outlast them, and commands connect with what is on disk.
  `README.md:203` "The app handles token refresh automatically before each IMAP connection." is not what happens: APPEND to
  Sent or Drafts fails for a dead token, and so does SMTP.
* A rotated refresh token is lost when the answer is, or when the process is killed before the third file is written; two processes that refresh at once lose one as
  well (`lapsed`).
* A display name with a comma cannot be answered. The TUI's reply leaves the own address among the recipients when it is spelt in other
  letters, the MCP server's when it stands in Cc, and the latter ignores Reply-To.

Terminal interface

* A click on the menu bar over the file picker leaves a draft behind that nothing leads back to, and the next one replaces it.
* An AI answer goes into whatever draft is open when it comes; in a forward it replaces the mail enclosed; and files it
  attaches behind an open picker are dropped by its confirmation.
* A draft keeps its sender as an index: an account list that changes while it is open moves it to another account.
* A theme stays on the screen when the dialog is left without saving.
* The edit form of an OAuth2 account starts as a password form, and saved as it is it makes the account one. An account that is
  turned to OAuth2 by an edit never gets a token, and neither does a new one whose client id was changed after the URL was made.
* An edit that is cancelled leaves its id, and the account added next overwrites the one edited. An account edited twice
  is edited from its first settings, since the TUI takes over accounts only when their ids change.

Account life cycle

* An edit that is left with Esc keeps the account's id. If the account is then deleted, the next account saved is sent as an update of the one that is
  gone: the engine writes its row and starts its worker, and no list shows it until the next start (`UpdateNotShown`, `astray`).

* `shutdown` cancels with `notify_waiters`, which wakes only a worker that awaits it just then; one in the middle of a pass comes to IDLE later, never hears
  of it, and the program does not end: `engine.rs:632` "Cancel every running worker and wait for them to exit." An update
  or delete of its account hangs in the same way, with the map locked. `OnlyLostCancelsHang` says that nothing else hangs.

## 5. What is proved

| Theorem | Says |
|---|---|
| `MailSync_proofs!TypeCorrect` | `Spec => []TypeOK` |
| `MailSync_proofs!InductiveInvariant` | `Spec => []IInv` |
| `MailSync_proofs!RowsKeepTheirMessage` | `Spec => []RowIdentity` |
| `MailSync_proofs!NothingBelowTheCursorIsMissing` | `Spec => []NoGap` |
| `MailSync_proofs!KeptMailIsRetained` | `Spec => []MailRetained` where `KeepOnServer`: with it off the statement is false, see `KeepOff` |
| `MirrorProofs!SyncImplementsMirror` | `Spec => MirrorSpec` when the server does not renumber (`MaxValidity = 1`) |
| `MirrorProofs!SyncsCatchUp` | `Spec => SyncCatchesUp` when the server does not renumber: once it does, the statement is false (section 4) |
| `FolderMirror_proofs!MirrorIsComplete` | `FolderMirror` implies that nothing live below a cursor is missing |
| `AccountLifecycle_proofs!LifecycleInvariant` | `Spec => []IInv` (the `IInv` of `AccountLifecycle`) |
| `AccountLifecycle_proofs!NeverTwoWorkers` | `Spec => []OneWorker` |
| `AccountLifecycle_proofs!ShutdownMissesOne` | `Spec => []ShutdownFindsAll` |
| `AccountLifecycle_proofs!SettingsAreCurrent` | `Spec => []ConfigIsCurrent` |
| `AccountLifecycle_proofs!NoOrphanedSecrets` | `Spec => []SecretsGone` |
| `AccountLifecycle_proofs!ShownIsStored` | `Spec => []AccountsAgree`, with faults and late commands; a statement that fails, or an update of an account that is gone, really leaves list and database apart, and so is `astray` |
| `AccountLifecycle_proofs!LifecycleTypes` | `Spec => []TypeOK` |
| `MailView_proofs!BodiesInFlight` | `SnapshotSpec => []InFlightIsPending` |
| `MailView_proofs!ViewBehaves` | `MailView` implements `MailSnapshot` |
| `MailView_proofs!TuiBodiesInFlight` | hence `Spec => []InFlightIsPending` of `MailView` |
| `MailView_proofs!ViewAgrees`, `TuiViewAgrees` | `SnapshotSpec => []QuietViewAgrees`, and hence `Spec => []QuietViewAgrees` |
| `MailView_proofs!LossMixesOnly` | `Spec => OnlyLossMixes` |
| `MailView_proofs!SnapshotTyped`, `ViewTyped` | `SnapshotSpec => []SnapshotTypeOK`, `Spec => []TypeOK` |
| `Outbox_proofs!OutboxTypes` | `Spec => []TypeOK` of `Outbox` |
| `Outbox_proofs!TokensAreSound`, `AccountStaysOpen` | `Spec => []ExpiryHonest`, `Spec => []NotLockedOut` |
| `Outbox_proofs!RepliesAreAimed` | `Spec => []RepliesReachAll` |
| `Outbox_proofs!NothingIsSentTwice` | `Spec => []NeverTwice` |
| `Outbox_proofs!NothingIsForgotten` | `Spec => []NothingForgotten` |
| `Pop3Mail_proofs!MailTypes` | `Spec => []TypeOK` of `Pop3Mail` |
| `Pop3Mail_proofs!BodiesStayTrue` | `Spec => []BodiesMatch` |
| `Pop3Mail_proofs!NothingIsLost` | `Spec => []NothingLost` |
| `Tui_proofs!TuiTypes`, `ModesHaveTheirWindows` | `Spec => []TypeOK`, `Spec => []ModeHasState` |
| `Tui_proofs!DraftsStayInReach`, `AnswersFindTheirDraft`, `TheMailIsKept`, `SendersAreAsShown` | the same for `DraftsInReach`, `AnsweredWhereAsked`, `MailKept`, `SentAsSeen` |
| `Tui_proofs!SettingsStayInForce` | `Spec => []SettingsAgree` |
| `Tui_proofs!TypingIsKept`, `CodesAreExchanged` | `Spec => []TypedStays`, `Spec => []CodeIsExchanged` |
| `Tui_proofs!PickerDoesAsToggled`, `FormsSaveTheirAccount` | the action properties `FilesAsChosen` and `SavesWhatItWasOpenedFor` |

They hold for any folders, accounts, tasks, ids, bounds, commands and faults, under the
assumptions named in the modules (`SyncAssumption`, those of `MailStore`, `LifecycleAssumption`, `SnapshotAssumption`, `ViewAssumption`, `PopAssumption`, `TokenAssumption`, `AddressAssumption`, `OutboxAssumption`, `FormAssumption`, `TuiAssumption`, `NothingAssumption`).

Why `IInv` is needed. In `MailSync`, `NoGap` speaks of the cursor in the table, but cursors are
copied: a worker's listing holds one for each folder, and writes it back later;
every sync holds the one it read and the one it will store. A copy is harmless
only if whatever is live below it is, and stays, in the store, and this is what
`Covered` says of each copy (`FolderCovered`, `ListCovered`, `JobCovered`). It
survives the other tasks because rows of the mirrored folders disappear only
after their message has left the server (`forget`), and new uids are never
below a cursor that is at most UIDNEXT. A sync that has fetched but not written
is covered by the envelopes it still holds. `RowIdentity` needs the same for
message rows: a copy held across an await is still of the message its uid was
given to (`JobSound`), since uids are never handed out twice within a
UIDVALIDITY, and since an id is drawn for one uid only (`minted`), a body
written by id cannot land on another message.

`Stable(f)` guards all of this: after a renumbering none of it is true, and `IInv` only keeps its types.
`MailRetained` rests on less (`Keeping`): with keep_on_server no task reaches the step that deletes, the next uid of a
mailbox is always free, so a move or a delivery overwrites nothing, and a rebuilt mailbox has as many numbers as messages, none
of them used twice, so that each message has one. `SyncCatchesUp` follows from `IInv` once it is known who
writes cursors (`CursorWrites`).

In `AccountLifecycle` the danger is `spawn_task`, which starts the worker before it looks
into the map. That an account never has two rests on three things `IInv` spells
out: an add is of an account that has nothing yet, through however many commands it waits
behind (`AddsAreFresh`); an update or delete has joined the worker it took
out of the map before it goes on (`CommandSound`); and every worker at work is in the
map or in the hand of the one command or of main, whose turns the lock
separates (`Registered`, `MainSound`). The last also says what shutdown
misses: a worker spawned by a command that has yet to put it in the map. `SecretsGone` and `ConfigIsCurrent` follow
because the worker is joined before the row is deleted or replaced in the map.
The proof has one lemma per action; `CommandFrame` says once what every step of a
command leaves alone. One consequence: the replacement branch in `spawn_task`
is never taken (`CommandSound` says so).
`AccountsAgree` is about the queue rather than the tasks: unless the account has gone astray, the last command that waits for it brings
the version the TUI shows, and where none waits the one under way does, or the table has it (`ShownIsDue`).

For `MailSnapshot` the invariant `FlightInv` adds to `InFlightIsPending` only that
each step of a call and of `command_worker` has a command of its kind, so that
a body leaves the set exactly when its command ends. `MailView` inherits the
property through `ViewBehaves`, whose proof shows for each key, refresh and tick
which call of the data source it is.

`QuietViewAgrees` speaks of quiet moments only; its invariant has to say what holds between them. `Base` is about ids, rows and
`command_worker`: an id is of one message in the store, in every list, in the list the event task has read and in what `command_worker` has in hand
(`IdsMeanMail`); rows are as on the server but for the one change that is at the server and not yet stored (`RowsSound`, `WorkSound`). On top of it,
`AllGood` says of every folder and message that the list, or the one the event task is about to write (`Coming`), has what is stored
(`Settled`), or that something on its way will see to that (`Excused`): a list event, a sync to come, a move or an empty that is still ahead or
being stored; and of the flags, that the last event on the way says what is stored, unless a change of them is still ahead
(`LastWord`). That is why the orders of a move, a toggle, a reload and a sync do not matter: whatever overwrites a list leaves an excuse behind,
and an excuse goes only with a list. Two things end it: a change the engine has refused (`amiss`), and one it will refuse because its row is
gone (`Doomed`), which is `amiss` once the command has been taken. When all is quiet no excuse is left,
and two lists that have the same entries newest first are equal (`SameList`).

`OnlyLossMixes` needs of the reader that a body that is due is not shown (`BodyIsDue`), and of the list, which is older than the snapshot,
that its ids still stand for its messages (`ListMeansMail`): an id is given once (`NamesGrow`), so a tick that finds the selected id
again has found the same message.

For the tokens, `TokenInv` says what the order of the three writes is worth. A refresh begins when the stored expiry
is no longer young and writes the access token first; until the new expiry is written the old one still asks for a refresh,
so the expiry is never ahead of its token (`ExpiryMatches`), and a file torn by a kill is empty and asks for one too.
That the account is not locked out needs that two workers never refresh at once (`OneAtATime`): then the endpoint
rotates only while the files hold what it accepted before, and whoever has the new one is about to store it (`RotationKept`).
Both speak up to what `lapsed` records. `Outbox` leaves the tokens alone (`TokensAlone`), so its behaviours inherit them.

For a mail on its way, `Single` says it is in one place: a window that sends closes and does not open again for the
same mail, the queue holds it once, and what `command_worker` works on has left the queue. `UntoldYet` follows: while it may still
be sent nobody has been told anything of it. So a mail that is reported failed was not accepted, and an agent
that tries again sends it for the first time, or its cause is recorded (`Once`). `MailBase` and `JobFits` say for each step
of a process which command it has in hand; `AskedInv` and `CopyInv` are `NothingForgotten` with what a
draft that was saved still owes its row. `AimInv` follows the recipients from the window (`WindowAims`, `AgentAims`) through the text
fields (`ParsedAims`) into the queue and to the process that sends.

In `Pop3Mail` an id, once drawn, lives under one number of one folder, in the tables and in what tasks hold of them (`Homes`);
as long as nothing is removed, a number means in every session what it means in the maildrop (`NumbersStay`). With the two,
the rows of the Inbox, what tasks hold of them and the bodies a RETR brings are of the message with the number (`InboxFits`), and as long as
no local folder is synced, an id of the local folders is about one message (`SyncsInbox`, `IdsAgree`), whose body it has
as long as no body was fetched for a local row (`LocalFits`). Nothing is lost because a move files the copy before it deletes the row: the message then has a row that no
move is about to take (`Stays`, `Copied`), and a cursor passes only what is kept or what its sync has listed and will still
write (`Passed`, `ListsAll`).

In `Tui` the form and the accounts change through `FormNext` alone (`FormSteps`), so `FormInv` is proved once, for the steps of
`AccountForm`: a field the user has touched marks its server as edited, so presets and protocols leave it
(`TouchedIsKept`); a form nobody has told a client shows no OAuth2 (`SignInAsOpened`); and of an account that is edited, what is not touched is
as it was (`FormFits`). For the other windows `Elsewhere` and `LookElsewhere` say what an event that is not theirs leaves
alone. `AnswersDue` counts what the AI still owes against what it was asked for, `PickerFits` holds the picker's choice to
the draft's files, `SenderShown` the sender's index to the account shown, and `LookInv` keeps palette and panes apart, which are
changed and saved on different ways.

Every safety and action property of the runs is proved. Model-checked only: liveness, which with ENABLED is out of the prover's
reach.

## 6. Not modelled
* `move_uid` on a server without MOVE: COPY, STORE \Deleted and an EXPUNGE of all that is marked (`imap.rs:770`); `delete_uid` on a server
  without UIDPLUS, which sends the same EXPUNGE (`imap.rs:840`).
* What only concerns one text or list: MIME building and parsing, snippets, attribution lines, wrapping, threading for display
  (`thread.rs`), search, notifications (`snapshot.rs:155` announces every unseen message of a full fetch again), counts.
* Pure I/O: the CLI's argument parsing, configuration files other than the settings, drawing.
* What a network without timeouts does (`imap.rs:529`): connecting and every command but IDLE may wait for ever, and with it the worker, or
  `command_worker` and all behind it. The liveness runs assume that it does not.
* `has_attachments` (`messages.rs:68` merges it with max), `References` of a reply (`engine.rs:261` looks them up by an id a sync
  may have replaced), the folder that is synced after a draft is saved (`datasource.rs:358` takes the first Drafts folder of any account),
  a worker that ends because no folder was listed (`account_task.rs:183`), and an account whose row stays although its OAuth code was refused (`engine.rs:61`; the model has it): single steps
  about which there is nothing more to say.
* Fetching a body that fails, for ever and every 250 ms (`datasource.rs:385`), and lists that a tick takes for equal although an
  id changed (`app.rs:1052`): in `MailView`, without a property.

## 7. Plan

1. *(done)* `MailStore`, `ImapMailbox`, `MailSync`, `FolderMirror` and their proofs.
2. *(done)* `AccountLifecycle` and its proofs.
3. *(done)* `MailSnapshot`, `MailView` and the proofs about them.
4. *(done)* `Pop3Mail`.
5. *(done)* `Addressing`, `OAuthTokens`, `Outbox`.
6. *(done)* `AccountForm`, `Tui`.
7. *(done)* the proofs about `OAuthTokens`, `Outbox`, `Pop3Mail` and `Tui`.
8. The COPY branch of `move_uid` and the plain EXPUNGE of `delete_uid` in `ImapMailbox`, with the mark \Deleted; `collect_thread` as an operator.
