--------------------------- MODULE AccountLifecycle ---------------------------
(***************************************************************************)
(* Which account workers run: SyncEngine's add_account, update_account,      *)
(* remove_account and shutdown, the worker's reaction to being cancelled,    *)
(* and the two tasks that call the engine: main, which starts the accounts   *)
(* and shuts the engine down, and command_worker, which takes the TUI's      *)
(* commands one after the other.                                             *)
(*                                                                          *)
(* The map of running workers is behind a tokio Mutex, and whoever cancels a *)
(* worker holds it until that worker has ended (the guard of `if let         *)
(* Some(prev) = tasks.lock().await.remove(..)` lives to the end of the       *)
(* block).  Notify::notify_waiters wakes those awaiting notified() then and  *)
(* leaves nothing behind for those who come later.                           *)
(***************************************************************************)
EXTENDS Integers, Sequences, FiniteSets

CONSTANTS
  Accounts,
  Tasks,       \* bound: workers ever spawned
  NoTask,
  MaxVersion,  \* bound: versions of an account's settings
  MaxQueue,    \* bound: commands waiting
  MaxLate,     \* bound: updates and deletes of accounts no longer shown
  Faults       \* bound: what may fail

ASSUME LifecycleAssumption ==
  /\ NoTask \notin Tasks
  /\ MaxVersion \in Nat \ {0}
  /\ MaxQueue \in Nat /\ MaxLate \in Nat
  /\ Faults \subseteq {"database", "exchange"}

VARIABLES
  worker,     \* the spawned workers: account, settings, and where they are
  heard,      \* workers whose notified() the cancel has completed
  cancelled,  \* history: workers cancelled
  tasks,      \* SyncEngine::tasks
  holder,     \* who holds its lock
  table,      \* table accounts: the version of each row, 0 if there is none
  secrets,    \* accounts with stored credentials
  known,      \* history: account ids ever made
  shown,      \* the snapshot's accounts, as table
  late,       \* history: how many updates and deletes came after the account had gone
  astray,     \* history: accounts updated so late, or of which a command failed
  queue,      \* the command channel
  cmd,        \* command_worker: its command and step
  main,       \* where main is
  joining     \* the worker main is waiting for

workerVars == <<worker, heard, cancelled>>
storeVars  == <<table, secrets>>
uiVars     == <<known, shown, late, astray>>
mainVars   == <<main, joining>>
vars == <<workerVars, tasks, holder, storeVars, uiVars, queue, cmd, mainVars>>

Versions == 0 .. MaxVersion

\* At these steps a worker awaits notified() among other things.
Awaiting == {"idle", "backoff", "no folders"}

WorkerStep == {"unborn", "start", "pass", "resync", "ended"} \cup Awaiting

WorkerState == [account : Accounts, version : Versions, at : WorkerStep]

Command == [op : {"add", "update", "delete"}, account : Accounts, version : Versions]

CommandStep == {"recv", "upsert", "remove", "join", "spawn", "insert", "join replaced", "delete"}

Running == [op : {"add", "update", "delete"}, account : Accounts, version : Versions,
            step : CommandStep, task : Tasks \cup {NoTask}]

\* The types of the map, the tables and the tasks.
TypeOK ==
  /\ worker \in [Tasks -> WorkerState]
  /\ heard \subseteq Tasks /\ cancelled \subseteq Tasks
  /\ tasks \in [Accounts -> Tasks \cup {NoTask}]
  /\ holder \in {"none", "commands", "main"}
  /\ table \in [Accounts -> Versions]
  /\ secrets \subseteq Accounts /\ known \subseteq Accounts /\ astray \subseteq Accounts
  /\ shown \in [Accounts -> Versions]
  /\ late \in 0 .. MaxLate
  /\ queue \in Seq(Command)
  /\ cmd \in Running
  /\ main \in {"starting", "running", "shutdown", "drain", "join", "exited"}
  /\ joining \in Tasks \cup {NoTask}

Live(i) == worker[i].at \notin {"unborn", "ended"}

\* The snapshot is read from the database, then every account is started.
Init ==
  /\ table \in [Accounts -> {0, 1}]
  /\ shown = table
  /\ known = {a \in Accounts : table[a] # 0}
  /\ secrets = known /\ astray = {} /\ late = 0
  /\ \E a \in Accounts :
       /\ worker = [i \in Tasks |-> [account |-> a, version |-> 0, at |-> "unborn"]]
       /\ cmd = [op |-> "add", account |-> a, version |-> 0, step |-> "recv", task |-> NoTask]
  /\ heard = {} /\ cancelled = {}
  /\ tasks = [a \in Accounts |-> NoTask]
  /\ holder = "none"
  /\ queue = <<>>
  /\ main = "starting" /\ joining = NoTask

Spawn(i, a, v) ==
  /\ worker[i].at = "unborn"
  /\ worker' = [worker EXCEPT ![i] = [account |-> a, version |-> v, at |-> "start"]]

\* notify_waiters
Cancel(i) ==
  /\ cancelled' = cancelled \cup {i}
  /\ heard' = IF worker[i].at \in Awaiting THEN heard \cup {i} ELSE heard

-----------------------------------------------------------------------------
(* A worker: run, run_once.                                                  *)

WorkerGoes(i, step) == worker' = [worker EXCEPT ![i].at = step]

\* ensure_fresh_tokens may store new tokens; run_once then connects and syncs.
FreshenTokens(i) ==
  /\ worker[i].at = "start"
  /\ \/ WorkerGoes(i, "pass") /\ secrets' = secrets \cup {worker[i].account}
     \/ WorkerGoes(i, "backoff") /\ UNCHANGED secrets
  /\ UNCHANGED <<heard, cancelled, tasks, holder, table, uiVars, queue, cmd, mainVars>>

\* It comes to await notified() only after a whole pass, or an error.
EndsPass(i) ==
  /\ worker[i].at \in {"pass", "resync"}
  /\ \/ WorkerGoes(i, "idle")
     \/ WorkerGoes(i, "backoff")
     \/ worker[i].at = "pass" /\ WorkerGoes(i, "no folders")
  /\ UNCHANGED <<heard, cancelled, tasks, holder, storeVars, uiVars, queue, cmd, mainVars>>

\* The other branch of its select!: of two that are ready, either is taken,
\* and the notification dropped with the future that had it.
Wakes(i) ==
  /\ \/ worker[i].at = "idle" /\ (WorkerGoes(i, "resync") \/ WorkerGoes(i, "backoff"))
     \/ worker[i].at = "backoff" /\ WorkerGoes(i, "start")
     \/ worker[i].at = "no folders" /\ WorkerGoes(i, "ended")
  /\ heard' = heard \ {i}
  /\ UNCHANGED <<cancelled, tasks, holder, storeVars, uiVars, queue, cmd, mainVars>>

\* Slip: being cancelled is one more error to back off from.
HearsCancelSlip(i) ==
  /\ worker[i].at \in Awaiting /\ i \in heard
  /\ WorkerGoes(i, "backoff")
  /\ UNCHANGED <<heard, cancelled, tasks, holder, storeVars, uiVars, queue, cmd, mainVars>>

HearsCancel(i) ==
  /\ worker[i].at \in Awaiting /\ i \in heard
  /\ WorkerGoes(i, "ended")
  /\ UNCHANGED <<heard, cancelled, tasks, holder, storeVars, uiVars, queue, cmd, mainVars>>

WorkerSteps(i) ==
  /\ main # "exited"
  /\ FreshenTokens(i) \/ EndsPass(i) \/ Wakes(i) \/ HearsCancel(i)

-----------------------------------------------------------------------------
(* The TUI's data source: the snapshot changes at once, the rest is queued.  *)

Post(op, a, v) ==
  /\ main = "running" /\ Len(queue) < MaxQueue
  /\ queue' = Append(queue, [op |-> op, account |-> a, version |-> v])
  /\ UNCHANGED <<workerVars, tasks, holder, storeVars, cmd, mainVars>>

Show(a, v) == shown' = [shown EXCEPT ![a] = v]

AddAccount(a) ==
  /\ a \notin known
  /\ known' = known \cup {a}
  /\ Show(a, 1) /\ Post("add", a, 1)
  /\ UNCHANGED <<late, astray>>

UpdateShown(a) ==
  /\ shown[a] # 0 /\ shown[a] < MaxVersion
  /\ Show(a, shown[a] + 1) /\ Post("update", a, shown[a] + 1)
  /\ UNCHANGED <<known, late, astray>>

DeleteShown(a) ==
  /\ shown[a] # 0
  /\ Show(a, 0) /\ Post("delete", a, 0)
  /\ UNCHANGED <<known, late, astray>>

\* The form keeps the id it was opened for, even when it is left with Esc, as
\* the list keeps the one to confirm: the account may be gone by now.
Late(a) ==
  /\ a \in known /\ shown[a] = 0
  /\ late < MaxLate /\ late' = late + 1
  /\ UNCHANGED <<known, shown>>

UpdateNotShown(a) ==
  /\ Late(a)
  /\ \E v \in Versions \ {0} : Post("update", a, v)
  /\ astray' = astray \cup {a}

DeleteNotShown(a) ==
  /\ Late(a)
  /\ Post("delete", a, 0)
  /\ UNCHANGED astray

\* What is not found is not shown, and the command is sent all the same.
UpdateAccount(a) == UpdateShown(a) \/ UpdateNotShown(a)

DeleteAccount(a) == DeleteShown(a) \/ DeleteNotShown(a)

-----------------------------------------------------------------------------
(* command_worker.                                                           *)

At(step) == cmd.step = step /\ main # "exited"

CommandGoes(step, task) == cmd' = [cmd EXCEPT !.step = step, !.task = task]

Receive ==
  /\ At("recv") /\ queue # <<>>
  /\ LET c == Head(queue) IN
       cmd' = [op |-> c.op, account |-> c.account, version |-> c.version,
               step |-> IF c.op = "delete" THEN "remove" ELSE "upsert", task |-> NoTask]
  /\ queue' = Tail(queue)
  /\ UNCHANGED <<workerVars, tasks, holder, storeVars, uiVars, mainVars>>

\* Slip: ON CONFLICT DO NOTHING.
UpsertRowSlip(a, v) == IF table[a] = 0 THEN [table EXCEPT ![a] = v] ELSE table

UpsertRow(a, v) == [table EXCEPT ![a] = v]

\* An update may bring a new password, stored in the same breath.
UpsertAccount ==
  /\ At("upsert")
  /\ table' = UpsertRow(cmd.account, cmd.version)
  /\ \/ UNCHANGED secrets
     \/ cmd.op = "update" /\ secrets' = secrets \cup {cmd.account}
  /\ CommandGoes(IF cmd.op = "add" THEN "spawn" ELSE "remove", NoTask)
  /\ UNCHANGED <<workerVars, tasks, holder, uiVars, queue, mainVars>>

\* The account of a failed add is taken out of the snapshot; if its tokens
\* could not be had, its row stays.
CommandFails ==
  /\ \/ "database" \in Faults /\ At("upsert")
     \/ "exchange" \in Faults /\ At("spawn") /\ cmd.op = "add"
  /\ CommandGoes("recv", NoTask)
  /\ shown' = IF cmd.op = "add" THEN [shown EXCEPT ![cmd.account] = 0] ELSE shown
  /\ astray' = astray \cup {cmd.account}
  /\ UNCHANGED <<workerVars, tasks, holder, storeVars, known, late, queue, mainVars>>

Removed == IF cmd.op = "delete" THEN "delete" ELSE "spawn"

\* The worker leaves the map and is cancelled; the lock is kept until it ends.
RemoveTask ==
  LET a == cmd.account IN
  /\ At("remove") /\ holder = "none"
  /\ IF tasks[a] = NoTask
     THEN CommandGoes(Removed, NoTask) /\ UNCHANGED <<tasks, holder, heard, cancelled>>
     ELSE /\ Cancel(tasks[a])
          /\ tasks' = [tasks EXCEPT ![a] = NoTask]
          /\ holder' = "commands"
          /\ CommandGoes("join", tasks[a])
  /\ UNCHANGED <<worker, storeVars, uiVars, queue, mainVars>>

\* Slip: the handle is not awaited.
EndedSlip(i) == TRUE

Ended(i) == worker[i].at = "ended"

JoinTask ==
  /\ At("join") \/ At("join replaced")
  /\ Ended(cmd.task)
  /\ holder' = "none"
  /\ CommandGoes(IF At("join") THEN Removed ELSE "recv", NoTask)
  /\ UNCHANGED <<workerVars, tasks, storeVars, uiVars, queue, mainVars>>

\* add_account stores the credentials and, like update_account, spawns the
\* worker before it has the lock.
SpawnTask ==
  /\ At("spawn")
  /\ \E i \in Tasks : Spawn(i, cmd.account, cmd.version) /\ CommandGoes("insert", i)
  /\ secrets' = IF cmd.op = "add" THEN secrets \cup {cmd.account} ELSE secrets
  /\ UNCHANGED <<heard, cancelled, tasks, holder, table, uiVars, queue, mainVars>>

\* A worker that is in the map is replaced, and joined like a removed one.
InsertTask ==
  LET prev == tasks[cmd.account] IN
  /\ At("insert") /\ holder = "none"
  /\ tasks' = [tasks EXCEPT ![cmd.account] = cmd.task]
  /\ IF prev = NoTask
     THEN CommandGoes("recv", NoTask) /\ UNCHANGED <<holder, heard, cancelled>>
     ELSE /\ Cancel(prev)
          /\ holder' = "commands"
          /\ CommandGoes("join replaced", prev)
  /\ UNCHANGED <<worker, storeVars, uiVars, queue, mainVars>>

DeleteRow ==
  /\ At("delete")
  /\ secrets' = secrets \ {cmd.account}
  /\ \/ table' = [table EXCEPT ![cmd.account] = 0] /\ UNCHANGED astray
     \/ "database" \in Faults /\ astray' = astray \cup {cmd.account} /\ UNCHANGED table
  /\ CommandGoes("recv", NoTask)
  /\ UNCHANGED <<workerVars, tasks, holder, known, shown, late, queue, mainVars>>

CommandSteps ==
  \/ Receive \/ UpsertAccount \/ CommandFails \/ RemoveTask \/ JoinTask
  \/ SpawnTask \/ InsertTask \/ DeleteRow

-----------------------------------------------------------------------------
(* main: run_tui, and run_mcp, which takes no account commands.              *)

\* The add_account of each account of the database, joined with the others.
StartAccount(a) ==
  /\ main = "starting" /\ table[a] # 0 /\ tasks[a] = NoTask
  /\ \E i \in Tasks : Spawn(i, a, table[a]) /\ tasks' = [tasks EXCEPT ![a] = i]
  /\ secrets' = secrets \cup {a}
  /\ UNCHANGED <<heard, cancelled, holder, table, uiVars, queue, cmd, mainVars>>

\* An account that cannot be started is warned about and left.
Started ==
  /\ main = "starting"
  /\ "database" \notin Faults => \A a \in Accounts : table[a] # 0 => tasks[a] # NoTask
  /\ main' = "running"
  /\ UNCHANGED <<workerVars, tasks, holder, storeVars, uiVars, queue, cmd, joining>>

\* The user quits; commands still queued or under way are not waited for.
Quit ==
  /\ main = "running"
  /\ main' = "shutdown"
  /\ UNCHANGED <<workerVars, tasks, holder, storeVars, uiVars, queue, cmd, joining>>

LockTasks ==
  /\ main = "shutdown" /\ holder = "none"
  /\ holder' = "main"
  /\ main' = "drain"
  /\ UNCHANGED <<workerVars, tasks, storeVars, uiVars, queue, cmd, joining>>

\* One worker after the other: the next is cancelled when this one has ended.
DrainTask(a) ==
  /\ main = "drain" /\ tasks[a] # NoTask
  /\ Cancel(tasks[a])
  /\ tasks' = [tasks EXCEPT ![a] = NoTask]
  /\ joining' = tasks[a]
  /\ main' = "join"
  /\ UNCHANGED <<worker, holder, storeVars, uiVars, queue, cmd>>

JoinDrained ==
  /\ main = "join" /\ Ended(joining)
  /\ joining' = NoTask
  /\ main' = "drain"
  /\ UNCHANGED <<workerVars, tasks, holder, storeVars, uiVars, queue, cmd>>

\* Slip: the first worker is enough.
DrainedSlip == \E a \in Accounts : tasks[a] = NoTask

Drained == \A a \in Accounts : tasks[a] = NoTask

Exit ==
  /\ main = "drain" /\ Drained
  /\ holder' = "none"
  /\ main' = "exited"
  /\ UNCHANGED <<workerVars, tasks, storeVars, uiVars, queue, cmd, joining>>

MainSteps ==
  \/ \E a \in Accounts : StartAccount(a) \/ DrainTask(a)
  \/ Started \/ LockTasks \/ JoinDrained \/ Exit

Next ==
  \/ \E i \in Tasks : WorkerSteps(i)
  \/ \E a \in Accounts : AddAccount(a) \/ UpdateAccount(a) \/ DeleteAccount(a)
  \/ CommandSteps
  \/ Quit
  \/ MainSteps

Spec == Init /\ [][Next]_vars

-----------------------------------------------------------------------------
(* Safety. *)

\* An account never has two workers, connected and writing to the store: the
\* old one has ended before update_account spawns the new one.
OneWorker ==
  \A i, j \in Tasks :
    Live(i) /\ Live(j) /\ worker[i].account = worker[j].account => i = j

\* A worker runs on the settings in the database, but for the time an update
\* or a delete takes to stop it; a deleted account has none.
ConfigIsCurrent ==
  \A i \in Tasks : Live(i) =>
    \/ worker[i].version = table[worker[i].account]
    \/ cmd.account = worker[i].account /\ cmd.step \in {"remove", "join"}

\* No credentials are kept of an account that has been deleted, although its
\* worker stores new ones whenever it refreshes its tokens.
SecretsGone == \A a \in secrets : table[a] # 0

\* Shutdown and the commands find every worker: it is in the map, or whoever
\* took it out or will put it in is about to.
Registered ==
  \A i \in Tasks : Live(i) =>
    \/ tasks[worker[i].account] = i
    \/ cmd.task = i
    \/ joining = i

\* Once the commands have been carried out, the TUI shows of every account what
\* the database has, unless a command of it failed, or one was sent of an
\* account that was no longer shown and has brought it back.
AccountsAgree ==
  queue = <<>> /\ cmd.step = "recv" =>
    \A a \in Accounts \ astray : shown[a] = table[a]

\* When the process exits, the only worker at work is one that a command has
\* spawned and not yet put in the map, where shutdown would have found it.
ShutdownFindsAll ==
  main = "exited" => \A i \in Tasks : Live(i) => cmd.step = "insert" /\ cmd.task = i

-----------------------------------------------------------------------------
(* The inductive invariant. *)

\* The steps of a command that stops a worker, and of one that starts one.
Stopping == {"remove", "join"}
Starting == {"spawn", "insert"}

\* Nothing of the account is in the map, at work, in the table or secret.
Fresh(a) ==
  /\ tasks[a] = NoTask /\ table[a] = 0 /\ a \notin secrets
  /\ \A i \in Tasks : Live(i) => worker[i].account # a

\* The account of an add that waits is new to all but the TUI: spawn_task may
\* spawn before it looks into the map only because of this.
AddsAreFresh ==
  \A k \in 1 .. Len(queue) : queue[k].op = "add" =>
    /\ Fresh(queue[k].account)
    /\ cmd.step # "recv" => cmd.account # queue[k].account
    /\ \A n \in 1 .. k - 1 : queue[n].account # queue[k].account

\* An account that has anything was given out by the TUI or was there before.
OnlyKnown ==
  /\ \A a \in Accounts : a \notin known => Fresh(a) /\ shown[a] = 0
  /\ \A k \in 1 .. Len(queue) : queue[k].account \in known
  /\ cmd.step # "recv" => cmd.account \in known

\* Only a delete goes to version 0.
VersionsGiven ==
  /\ \A k \in 1 .. Len(queue) : queue[k].op # "delete" => queue[k].version # 0
  /\ cmd.step # "recv" /\ cmd.op # "delete" => cmd.version # 0

\* The map holds workers under the account they work for.
MapSound ==
  \A a \in Accounts : tasks[a] # NoTask =>
    worker[tasks[a]].account = a /\ worker[tasks[a]].at # "unborn"

\* Main is alone until the accounts have started, joins under the lock, and
\* leaves with the map empty and free.
MainSound ==
  /\ main = "starting" => queue = <<>> /\ cmd.step = "recv"
  /\ holder = "main" <=> main \in {"drain", "join"}
  /\ joining # NoTask <=> main = "join"
  /\ joining # NoTask =>
       worker[joining].at # "unborn" /\ tasks[worker[joining].account] = NoTask
  /\ main = "exited" => Drained /\ holder = "none"

\* What the command under way knows of its account: from when it has taken the
\* worker out of the map until it is done, no other worker is at work for it.
CommandSound ==
  LET a == cmd.account  t == cmd.task IN
  /\ cmd.step # "join replaced"
  /\ holder = "commands" <=> cmd.step = "join"
  /\ cmd.step = "upsert" => cmd.op # "delete" /\ (cmd.op = "add" => Fresh(a))
  /\ cmd.step \in Stopping => cmd.op # "add" /\ (cmd.op = "update" => table[a] = cmd.version)
  /\ cmd.step \in Starting => cmd.op # "delete" /\ table[a] = cmd.version
  /\ cmd.step = "delete" => cmd.op = "delete"
  /\ cmd.step \in {"join", "delete"} \cup Starting =>
       tasks[a] = NoTask /\ \A i \in Tasks : Live(i) /\ worker[i].account = a => i = t
  /\ IF cmd.step \in {"join", "insert"}
     THEN t # NoTask /\ worker[t].account = a /\ worker[t].at # "unborn"
     ELSE t = NoTask
  /\ cmd.step = "insert" => worker[t].version = table[a]

LiveHaveRows == \A i \in Tasks : Live(i) => table[worker[i].account] # 0

\* Types, the map and its lock, the commands, and the properties themselves.
IInv ==
  /\ TypeOK
  /\ MapSound /\ MainSound /\ CommandSound
  /\ AddsAreFresh /\ OnlyKnown /\ VersionsGiven
  /\ Registered /\ ConfigIsCurrent /\ LiveHaveRows /\ SecretsGone

-----------------------------------------------------------------------------
(* Liveness: tasks that can go on do.                                        *)

FairSpec ==
  /\ Spec
  /\ \A i \in Tasks : WF_vars(main # "exited" /\ (FreshenTokens(i) \/ EndsPass(i) \/ HearsCancel(i)))
  /\ WF_vars(CommandSteps)
  /\ WF_vars(MainSteps)

\* Quitting the program ends it.
ShutdownCompletes == main = "shutdown" ~> main = "exited"

\* A command that restarts or stops a worker comes to its end.
CommandCompletes == cmd.step = "join" ~> cmd.step # "join" \/ main = "exited"

\* A worker that was cancelled while it was not listening, or that took up
\* something else when it was told.
Lost(i) == i \in cancelled /\ i \notin heard /\ worker[i].at # "ended"

\* Nothing but a lost notification keeps a command or the shutdown waiting.
OnlyLostCancelsHang ==
  [](\A i \in Tasks : ~Lost(i)) => CommandCompletes /\ ShutdownCompletes
=============================================================================
