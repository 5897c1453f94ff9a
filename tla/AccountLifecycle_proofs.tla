----------------------- MODULE AccountLifecycle_proofs -----------------------
(***************************************************************************)
(* An account never has two workers, a worker runs on current settings, and  *)
(* a deleted account keeps no credentials: for any accounts, workers, bounds *)
(* and faults.  The proof is of IInv; it comes in three groups of actions,   *)
(* those of the workers, of command_worker (and the data source that feeds   *)
(* it), and of main.                                                         *)
(***************************************************************************)
EXTENDS AccountLifecycle, SequenceTheorems, TLAPS

-----------------------------------------------------------------------------
(* What a step leaves alone. *)

\* Workers keep account and settings, and none comes to life.
Aging ==
  /\ worker' \in [Tasks -> WorkerState]
  /\ \A j \in Tasks :
       /\ worker'[j].account = worker[j].account
       /\ worker'[j].version = worker[j].version
       /\ Live(j)' => Live(j)
       /\ worker[j].at # "unborn" => worker'[j].at # "unborn"

\* Nothing of another account than b is added.
OnlyTouches(b) ==
  \A a \in Accounts \ {b} :
    /\ tasks'[a] = tasks[a] /\ table'[a] = table[a]
    /\ a \in secrets' => a \in secrets
    /\ \A i \in Tasks : Live(i)' /\ worker'[i].account = a => Live(i) /\ worker[i].account = a

\* Another account that is fresh stays so.
LEMMA OthersStayFresh ==
  ASSUME NEW b, OnlyTouches(b)
  PROVE  \A a \in Accounts \ {b} : Fresh(a) => Fresh(a)'
BY DEF OnlyTouches, Fresh

\* A command in the queue is of an account.
LEMMA Queued ==
  ASSUME queue \in Seq(Command), NEW k \in 1 .. Len(queue)
  PROVE  queue[k] \in Command /\ queue[k].account \in Accounts
<1>1. queue[k] \in Command
  BY ElementOfSeq
<1>2. QED
  BY <1>1 DEF Command

\* What AddsAreFresh, OnlyKnown and VersionsGiven need of a step of the
\* command under way.
LEMMA CommandFrame ==
  ASSUME TypeOK, AddsAreFresh, OnlyKnown, VersionsGiven,
         cmd.step # "recv", OnlyTouches(cmd.account),
         UNCHANGED <<queue, known>>,
         \A a \in Accounts \ {cmd.account} : shown'[a] = shown[a],
         cmd'.account = cmd.account, cmd'.op = cmd.op, cmd'.version = cmd.version
  PROVE  AddsAreFresh' /\ OnlyKnown' /\ VersionsGiven'
<1>1. AddsAreFresh'
  <2>1. SUFFICES ASSUME NEW k \in 1 .. Len(queue), queue[k].op = "add"
                 PROVE  /\ Fresh(queue[k].account)'
                        /\ cmd'.account # queue[k].account
                        /\ \A n \in 1 .. k - 1 : queue[n].account # queue[k].account
    BY DEF AddsAreFresh
  <2>2. /\ Fresh(queue[k].account)
        /\ cmd.account # queue[k].account
        /\ \A n \in 1 .. k - 1 : queue[n].account # queue[k].account
    BY <2>1 DEF AddsAreFresh
  <2>3. queue[k].account \in Accounts \ {cmd.account}
    BY <2>2, Queued DEF TypeOK
  <2>4. Fresh(queue[k].account)'
    BY <2>2, <2>3, OthersStayFresh
  <2>5. QED
    BY <2>2, <2>4
<1>2. OnlyKnown'
  BY OthersStayFresh DEF OnlyKnown
<1>3. VersionsGiven'
  BY DEF VersionsGiven
<1>4. QED
  BY <1>1, <1>2, <1>3

\* And of a step that is not one of a command.
LEMMA QuietFrame ==
  ASSUME TypeOK, AddsAreFresh, OnlyKnown, VersionsGiven,
         UNCHANGED <<queue, known, shown, cmd>>,
         \A a \in Accounts : Fresh(a) => Fresh(a)'
  PROVE  AddsAreFresh' /\ OnlyKnown' /\ VersionsGiven'
<1>1. AddsAreFresh'
  <2>1. \A k \in 1 .. Len(queue) : queue[k].op = "add" => Fresh(queue[k].account)'
    <3>1. SUFFICES ASSUME NEW k \in 1 .. Len(queue), queue[k].op = "add"
                   PROVE  Fresh(queue[k].account)'
      OBVIOUS
    <3>2. Fresh(queue[k].account) /\ queue[k].account \in Accounts
      BY <3>1, Queued DEF AddsAreFresh, TypeOK
    <3>3. QED
      BY <3>2
  <2>2. QED
    BY <2>1 DEF AddsAreFresh
<1>2. OnlyKnown'
  BY DEF OnlyKnown
<1>3. VersionsGiven'
  BY DEF VersionsGiven
<1>4. QED
  BY <1>1, <1>2, <1>3

-----------------------------------------------------------------------------
(* The workers. *)

\* Whatever a worker does, only it moves, and it stores tokens while it lives.
LEMMA WorkerAges ==
  ASSUME TypeOK, NEW i \in Tasks, WorkerSteps(i)
  PROVE  /\ Aging
         /\ heard' \subseteq heard
         /\ secrets' = secrets \/ (Live(i) /\ secrets' = secrets \cup {worker[i].account})
         /\ UNCHANGED <<cancelled, tasks, holder, table, uiVars, queue, cmd, mainVars>>
<1>1. /\ worker \in [Tasks -> WorkerState]
      /\ worker[i] \in WorkerState
  BY DEF TypeOK
<1>2. ASSUME NEW step \in WorkerStep \ {"unborn"}, WorkerGoes(i, step), Live(i)
      PROVE  Aging
  <2>1. worker' \in [Tasks -> WorkerState]
    BY <1>1, <1>2 DEF WorkerGoes, WorkerState
  <2>2. ASSUME NEW j \in Tasks
        PROVE  /\ worker'[j].account = worker[j].account
               /\ worker'[j].version = worker[j].version
               /\ j # i => worker'[j] = worker[j]
    BY <1>1, <1>2 DEF WorkerGoes, WorkerState
  <2>3. worker[i].at # "unborn"
    BY <1>2 DEF Live
  <2>4. worker'[i].at # "unborn"
    BY <1>1, <1>2 DEF WorkerGoes
  <2>5. QED
    BY <1>2, <2>1, <2>2, <2>3, <2>4 DEF Aging, Live
<1>3. Aging /\ Live(i)
  <2>1. CASE FreshenTokens(i)
    BY <1>1, <1>2, <2>1 DEF FreshenTokens, Live, WorkerStep, Awaiting
  <2>2. CASE EndsPass(i)
    BY <1>1, <1>2, <2>2 DEF EndsPass, Live, WorkerStep, Awaiting
  <2>3. CASE Wakes(i)
    BY <1>1, <1>2, <2>3 DEF Wakes, Live, WorkerStep, Awaiting
  <2>4. CASE HearsCancel(i)
    BY <1>1, <1>2, <2>4 DEF HearsCancel, Live, WorkerStep, Awaiting
  <2>5. QED
    BY <2>1, <2>2, <2>3, <2>4 DEF WorkerSteps
<1>4. /\ heard' \subseteq heard
      /\ secrets' = secrets \/ secrets' = secrets \cup {worker[i].account}
      /\ UNCHANGED <<cancelled, tasks, holder, table, uiVars, queue, cmd, mainVars>>
  BY DEF WorkerSteps, FreshenTokens, EndsPass, Wakes, HearsCancel, storeVars, uiVars, mainVars
<1>5. QED
  BY <1>3, <1>4

LEMMA WorkerKeeps ==
  ASSUME IInv, NEW i \in Tasks, WorkerSteps(i)
  PROVE  IInv'
<1>1. /\ Aging
      /\ heard' \subseteq heard
      /\ secrets' = secrets \/ (Live(i) /\ secrets' = secrets \cup {worker[i].account})
      /\ UNCHANGED <<cancelled, tasks, holder, table, known, shown, late, astray, queue, cmd, main, joining>>
  BY WorkerAges DEF IInv, uiVars, mainVars
<1>2. TypeOK'
  <2>1. worker[i].account \in Accounts
    BY DEF IInv, TypeOK, WorkerState
  <2>2. QED
    BY <1>1, <2>1 DEF IInv, TypeOK, Aging
<1>3. MapSound'
  BY <1>1 DEF IInv, TypeOK, MapSound, Aging
<1>4. MainSound'
  BY <1>1 DEF IInv, TypeOK, MainSound, Drained, Aging
<1>5. \A a \in Accounts : Fresh(a) => Fresh(a)'
  BY <1>1 DEF Fresh, Aging
<1>6. AddsAreFresh' /\ OnlyKnown' /\ VersionsGiven'
  BY <1>1, <1>5, QuietFrame DEF IInv
<1>7. CommandSound'
  BY <1>1, <1>5 DEF IInv, TypeOK, Running, CommandSound, Aging
<1>8. Registered'
  BY <1>1 DEF IInv, Registered, Aging
<1>9. ConfigIsCurrent' /\ LiveHaveRows' /\ SecretsGone'
  BY <1>1 DEF IInv, ConfigIsCurrent, LiveHaveRows, SecretsGone, Aging
<1>10. QED
  BY <1>2, <1>3, <1>4, <1>6, <1>7, <1>8, <1>9 DEF IInv

-----------------------------------------------------------------------------
(* main. *)

LEMMA StartKeeps ==
  ASSUME IInv, NEW b \in Accounts, StartAccount(b)
  PROVE  IInv'
<1>1. PICK i \in Tasks : Spawn(i, b, table[b]) /\ tasks' = [tasks EXCEPT ![b] = i]
  BY DEF StartAccount
<1>2. /\ main = "starting" /\ table[b] # 0 /\ tasks[b] = NoTask
      /\ secrets' = secrets \cup {b}
      /\ UNCHANGED <<heard, cancelled, holder, table, known, shown, late, astray, queue, cmd, main, joining>>
  BY DEF StartAccount, uiVars, mainVars
<1>3. /\ queue = <<>> /\ cmd.step = "recv" /\ cmd.task = NoTask /\ holder = "none"
      /\ joining = NoTask
  BY <1>2 DEF IInv, TypeOK, MainSound, Drained, CommandSound, Starting
<1>4. /\ worker[i].at = "unborn" /\ ~Live(i)
      /\ worker' \in [Tasks -> WorkerState]
      /\ worker'[i] = [account |-> b, version |-> table[b], at |-> "start"]
      /\ \A j \in Tasks \ {i} : worker'[j] = worker[j]
  BY <1>1 DEF IInv, TypeOK, Spawn, Live, WorkerState, WorkerStep
<1>5. /\ i # NoTask
      /\ tasks'[b] = i
      /\ \A a \in Accounts \ {b} : tasks'[a] = tasks[a]
  BY <1>1, LifecycleAssumption DEF IInv, TypeOK
<1>6. TypeOK'
  BY <1>1, <1>2, <1>4 DEF IInv, TypeOK
<1>7. MapSound'
  BY <1>4, <1>5 DEF IInv, TypeOK, MapSound
<1>8. MainSound'
  BY <1>2, <1>3 DEF IInv, MainSound, Drained
<1>9. CommandSound'
  BY <1>2, <1>3 DEF IInv, CommandSound, Stopping, Starting
<1>10. \A a \in Accounts : Fresh(a) => Fresh(a)'
  <2>1. ~Fresh(b)
    BY <1>2 DEF Fresh
  <2>2. OnlyTouches(b)
    BY <1>2, <1>4, <1>5 DEF OnlyTouches, Live
  <2>3. QED
    BY <2>1, <2>2, OthersStayFresh
<1>11. AddsAreFresh' /\ OnlyKnown' /\ VersionsGiven'
  BY <1>2, <1>10, QuietFrame DEF IInv
<1>12. Registered'
  <2>1. ASSUME NEW j \in Tasks \ {i}, Live(j)'
        PROVE  tasks'[worker'[j].account] = j
    <3>1. Live(j) /\ worker'[j] = worker[j] /\ worker[j].account \in Accounts /\ j # NoTask
      BY <1>4, <2>1, LifecycleAssumption DEF IInv, TypeOK, Live, WorkerState
    <3>2. tasks[worker[j].account] = j
      BY <1>3, <3>1 DEF IInv, Registered
    <3>3. worker[j].account # b
      BY <1>2, <3>1, <3>2
    <3>4. QED
      BY <1>5, <3>1, <3>2, <3>3
  <2>2. tasks'[worker'[i].account] = i
    BY <1>4, <1>5
  <2>3. QED
    BY <2>1, <2>2 DEF Registered
<1>13. ConfigIsCurrent' /\ LiveHaveRows'
  BY <1>2, <1>3, <1>4 DEF IInv, ConfigIsCurrent, LiveHaveRows, Live, Stopping
<1>14. SecretsGone'
  BY <1>2 DEF IInv, SecretsGone
<1>15. QED
  BY <1>6, <1>7, <1>8, <1>9, <1>11, <1>12, <1>13, <1>14 DEF IInv

\* The rest of main only takes workers out of the map.
LEMMA MainKeeps ==
  ASSUME IInv,
         \/ Started \/ Quit \/ LockTasks \/ JoinDrained \/ Exit
         \/ \E b \in Accounts : DrainTask(b)
  PROVE  IInv'
<1>1. /\ UNCHANGED <<worker, table, secrets, known, shown, late, astray, queue, cmd>>
      /\ \A a \in Accounts : tasks[a] = NoTask => tasks'[a] = NoTask
  BY DEF IInv, TypeOK, Started, Quit, LockTasks, JoinDrained, Exit, DrainTask, workerVars, storeVars, uiVars
<1>2. TypeOK'
  BY DEF IInv, TypeOK, Started, Quit, LockTasks, JoinDrained, Exit, DrainTask, Cancel, workerVars, storeVars, uiVars
<1>3. MapSound'
  BY DEF IInv, TypeOK, MapSound, Started, Quit, LockTasks, JoinDrained, Exit, DrainTask, workerVars
<1>4. MainSound'
  <2>1. CASE Started \/ Quit \/ LockTasks \/ JoinDrained \/ Exit
    BY <2>1 DEF IInv, MainSound, Drained, CommandSound, Started, Quit, LockTasks, JoinDrained, Exit, workerVars
  <2>2. CASE \E b \in Accounts : DrainTask(b)
    <3>1. PICK b \in Accounts : DrainTask(b)
      BY <2>2
    <3>2. /\ joining' = tasks[b] /\ joining' # NoTask /\ main' = "join" /\ holder' = holder
          /\ main = "drain" /\ tasks' = [tasks EXCEPT ![b] = NoTask]
      BY <3>1 DEF DrainTask
    <3>3. worker[joining'].account = b /\ worker[joining'].at # "unborn"
      BY <3>2 DEF IInv, MapSound
    <3>4. QED
      BY <1>1, <3>2, <3>3 DEF IInv, TypeOK, MainSound, Drained
  <2>3. QED
    BY <2>1, <2>2
<1>5. CommandSound'
  <2>1. \A a \in Accounts : Fresh(a) => Fresh(a)'
    BY <1>1 DEF Fresh, Live
  <2>2. cmd.account \in Accounts
    BY DEF IInv, TypeOK, Running
  <2>3. holder' = "commands" <=> holder = "commands"
    BY DEF IInv, MainSound, Started, Quit, LockTasks, JoinDrained, Exit, DrainTask
  <2>4. QED
    BY <1>1, <2>1, <2>2, <2>3 DEF IInv, CommandSound, Live, Stopping, Starting
<1>6. AddsAreFresh' /\ OnlyKnown' /\ VersionsGiven'
  <2>1. \A a \in Accounts : Fresh(a) => Fresh(a)'
    BY <1>1 DEF Fresh, Live
  <2>2. QED
    BY <1>1, <2>1, QuietFrame DEF IInv
<1>7. Registered'
  <2>1. CASE Started \/ Quit \/ LockTasks \/ Exit
    BY <2>1 DEF IInv, Registered, Live, Started, Quit, LockTasks, Exit, workerVars
  <2>2. CASE JoinDrained
    BY <2>2 DEF IInv, Registered, Live, JoinDrained, Ended, workerVars
  <2>3. CASE \E b \in Accounts : DrainTask(b)
    <3>1. PICK b \in Accounts : DrainTask(b)
      BY <2>3
    <3>2. joining' = tasks[b] /\ \A a \in Accounts \ {b} : tasks'[a] = tasks[a]
      BY <3>1 DEF IInv, TypeOK, DrainTask
    <3>3. joining = NoTask
      BY <3>1 DEF IInv, MainSound, Drained, DrainTask
    <3>4. \A i \in Tasks : i # NoTask /\ worker[i].account \in Accounts
      BY LifecycleAssumption DEF IInv, TypeOK, WorkerState
    <3>5. QED
      BY <1>1, <3>2, <3>3, <3>4 DEF IInv, Registered, Live
  <2>4. QED
    BY <2>1, <2>2, <2>3
<1>8. ConfigIsCurrent' /\ LiveHaveRows' /\ SecretsGone'
  BY <1>1 DEF IInv, ConfigIsCurrent, LiveHaveRows, SecretsGone, Live
<1>9. QED
  BY <1>2, <1>3, <1>4, <1>5, <1>6, <1>7, <1>8 DEF IInv

-----------------------------------------------------------------------------
(* The data source. *)

\* The data source queues a command of b with version v, which is then shown
\* of b, unless b is no longer shown and has gone astray.
Posted(op, b, v) ==
  /\ Post(op, b, v)
  /\ known' = known \cup {b}
  /\ op = "delete" <=> v = 0
  /\ op = "add" => b \notin known
  /\ shown' \in [Accounts -> Versions]
  /\ \A a \in Accounts \ {b} : shown'[a] = shown[a]
  /\ shown'[b] = v \/ b \in astray'
  /\ astray \subseteq astray' /\ astray' \subseteq Accounts
  /\ late' \in 0 .. MaxLate

\* All the TUI does to accounts is of this kind.
LEMMA SourcePosts ==
  ASSUME IInv, NEW b \in Accounts, AddAccount(b) \/ UpdateAccount(b) \/ DeleteAccount(b)
  PROVE  \E op \in {"add", "update", "delete"}, v \in Versions : Posted(op, b, v)
<1>1. 0 \in Versions /\ 1 \in Versions /\ \A v \in Versions : v < MaxVersion => v + 1 \in Versions \ {0}
  BY LifecycleAssumption DEF Versions
<1>2. /\ shown \in [Accounts -> Versions] /\ shown[b] \in Versions
      /\ shown[b] # 0 => known = known \cup {b}
      /\ astray \subseteq Accounts /\ late \in 0 .. MaxLate
  BY DEF IInv, TypeOK, OnlyKnown
<1>3. ASSUME NEW v \in Versions, Show(b, v)
      PROVE  /\ shown' \in [Accounts -> Versions] /\ shown'[b] = v
             /\ \A a \in Accounts \ {b} : shown'[a] = shown[a]
  BY <1>2, <1>3 DEF Show
<1>4. CASE AddAccount(b)
  <2>1. Posted("add", b, 1)
    BY <1>1, <1>2, <1>3, <1>4 DEF AddAccount, Posted
  <2>2. QED
    BY <1>1, <2>1
<1>5. CASE UpdateShown(b)
  <2>1. shown[b] + 1 \in Versions \ {0}
    BY <1>1, <1>2, <1>5 DEF UpdateShown
  <2>2. Posted("update", b, shown[b] + 1)
    BY <1>2, <1>3, <1>5, <2>1 DEF UpdateShown, Posted
  <2>3. QED
    BY <2>1, <2>2
<1>6. CASE DeleteShown(b)
  <2>1. Posted("delete", b, 0)
    BY <1>1, <1>2, <1>3, <1>6 DEF DeleteShown, Posted
  <2>2. QED
    BY <1>1, <2>1
<1>7. ASSUME Late(b)
      PROVE  /\ known' = known \cup {b} /\ shown' = shown /\ shown[b] = 0
             /\ late' \in 0 .. MaxLate
  BY <1>2, <1>7, LifecycleAssumption DEF Late
<1>8. CASE UpdateNotShown(b)
  <2>1. PICK v \in Versions \ {0} : Post("update", b, v)
    BY <1>8 DEF UpdateNotShown
  <2>2. Posted("update", b, v)
    BY <1>2, <1>7, <1>8, <2>1 DEF UpdateNotShown, Posted
  <2>3. QED
    BY <2>1, <2>2
<1>9. CASE DeleteNotShown(b)
  <2>1. Posted("delete", b, 0)
    BY <1>1, <1>2, <1>7, <1>9 DEF DeleteNotShown, Posted
  <2>2. QED
    BY <1>1, <2>1
<1>10. QED
  BY <1>4, <1>5, <1>6, <1>8, <1>9 DEF UpdateAccount, DeleteAccount

\* Adding to the queue disturbs neither the running command nor the queue.
LEMMA PostKeeps ==
  ASSUME IInv, NEW op \in {"add", "update", "delete"}, NEW b \in Accounts, NEW v \in Versions,
         Posted(op, b, v)
  PROVE  IInv'
<1> DEFINE c == [op |-> op, account |-> b, version |-> v]
<1>1. c \in Command /\ queue \in Seq(Command)
  BY DEF IInv, TypeOK, Command
<1>2. /\ queue' = Append(queue, c)
      /\ main = "running" /\ known' = known \cup {b}
      /\ op # "delete" => v # 0
      /\ op = "add" => b \notin known
  BY DEF Post, Posted
<1>3. /\ queue' \in Seq(Command) /\ Len(queue) \in Nat
      /\ Len(queue') = Len(queue) + 1
      /\ queue'[Len(queue) + 1] = c
      /\ \A k \in 1 .. Len(queue) : queue'[k] = queue[k]
  <2> HIDE DEF c
  <2>1. QED
    BY <1>1, <1>2, AppendProperties, LenProperties
<1>4. /\ UNCHANGED <<worker, heard, cancelled, tasks, holder, table, secrets, cmd, main, joining>>
      /\ shown' \in [Accounts -> Versions] /\ \A a \in Accounts \ {b} : shown'[a] = shown[a]
      /\ astray' \subseteq Accounts /\ late' \in 0 .. MaxLate
  BY DEF Posted, Post, workerVars, storeVars, mainVars
<1>5. TypeOK'
  BY <1>2, <1>3, <1>4 DEF IInv, TypeOK
<1>6. \A a : Fresh(a)' <=> Fresh(a)
  BY <1>4 DEF Fresh, Live
<1>7. MapSound' /\ MainSound'
  BY <1>2, <1>4 DEF IInv, MapSound, MainSound, Drained
<1>8. CommandSound'
  BY <1>4, <1>6 DEF IInv, CommandSound, Live, Stopping, Starting
<1>9. \A k \in 1 .. Len(queue') : k \in 1 .. Len(queue) \/ k = Len(queue) + 1
  BY <1>3
<1>10. \A k \in 1 .. Len(queue) : queue[k].account \in known
  BY DEF IInv, OnlyKnown
<1>11. OnlyKnown'
  <2>1. \A a \in Accounts : a \notin known' => Fresh(a)' /\ shown'[a] = 0
    BY <1>2, <1>4, <1>6 DEF IInv, TypeOK, OnlyKnown
  <2>2. \A k \in 1 .. Len(queue') : queue'[k].account \in known'
    <3>1. TAKE k \in 1 .. Len(queue')
    <3>2. CASE k \in 1 .. Len(queue)
      BY <1>2, <1>3, <1>10, <3>2
    <3>3. CASE k = Len(queue) + 1
      BY <1>2, <1>3, <3>3
    <3>4. QED
      BY <1>9, <3>2, <3>3
  <2>3. QED
    BY <1>2, <1>4, <2>1, <2>2 DEF IInv, OnlyKnown
<1>12. VersionsGiven'
  <2>1. \A k \in 1 .. Len(queue') : queue'[k].op # "delete" => queue'[k].version # 0
    <3>1. TAKE k \in 1 .. Len(queue')
    <3>2. CASE k \in 1 .. Len(queue)
      BY <1>3, <3>2 DEF IInv, VersionsGiven
    <3>3. CASE k = Len(queue) + 1
      BY <1>2, <1>3, <3>3
    <3>4. QED
      BY <1>9, <3>2, <3>3
  <2>2. QED
    BY <1>4, <2>1 DEF IInv, VersionsGiven
<1>13. AddsAreFresh'
  <2>1. SUFFICES ASSUME NEW k \in 1 .. Len(queue'), queue'[k].op = "add"
                 PROVE  /\ Fresh(queue[k].account)'
                        /\ cmd'.step # "recv" => cmd'.account # queue'[k].account
                        /\ \A n \in 1 .. k - 1 : queue'[n].account # queue'[k].account
    BY DEF AddsAreFresh
  <2>2. CASE k \in 1 .. Len(queue)
    <3>1. \A n \in 1 .. k - 1 : n \in 1 .. Len(queue)
      BY <1>3, <2>2
    <3>2. queue'[k] = queue[k] /\ \A n \in 1 .. k - 1 : queue'[n] = queue[n]
      BY <1>3, <2>2, <3>1
    <3>3. /\ Fresh(queue[k].account)
          /\ cmd.step # "recv" => cmd.account # queue[k].account
          /\ \A n \in 1 .. k - 1 : queue[n].account # queue[k].account
      BY <2>1, <2>2, <3>2 DEF IInv, AddsAreFresh
    <3>4. QED
      BY <1>4, <3>2, <3>3 DEF Fresh, Live
  <2>3. CASE k = Len(queue) + 1
    <3>1. queue'[k].account = b /\ op = "add" /\ b \notin known
      BY <1>2, <1>3, <2>1, <2>3
    <3>2. Fresh(b) /\ (cmd.step # "recv" => cmd.account # b)
      BY <3>1 DEF IInv, OnlyKnown
    <3>3. \A n \in 1 .. k - 1 : n \in 1 .. Len(queue)
      BY <1>3, <2>3
    <3>4. \A n \in 1 .. k - 1 : queue'[n].account # b
      BY <1>3, <1>10, <3>1, <3>3
    <3>5. QED
      BY <1>4, <3>1, <3>2, <3>4 DEF Fresh, Live
  <2>4. QED
    BY <1>9, <2>2, <2>3
<1>14. Registered' /\ ConfigIsCurrent' /\ LiveHaveRows' /\ SecretsGone'
  BY <1>4 DEF IInv, Registered, ConfigIsCurrent, LiveHaveRows, SecretsGone, Live
<1>15. QED
  BY <1>5, <1>7, <1>8, <1>11, <1>12, <1>13, <1>14 DEF IInv

LEMMA SourceKeeps ==
  ASSUME IInv, NEW b \in Accounts, AddAccount(b) \/ UpdateAccount(b) \/ DeleteAccount(b)
  PROVE  IInv'
BY SourcePosts, PostKeeps

-----------------------------------------------------------------------------
(* command_worker. *)

LEMMA ReceiveKeeps ==
  ASSUME IInv, Receive
  PROVE  IInv'
<1> DEFINE c == queue[1]
<1>1. queue \in Seq(Command) /\ queue # <<>>
  BY DEF IInv, TypeOK, Receive
<1>2. /\ Len(queue) \in Nat \ {0}
      /\ queue' \in Seq(Command) /\ Len(queue') = Len(queue) - 1
      /\ \A k \in 1 .. Len(queue') : queue'[k] = queue[k + 1]
      /\ Head(queue) = c
  BY <1>1, HeadTailProperties, EmptySeq DEF Receive
<1>3. c \in Command /\ c.account \in Accounts
  BY <1>1, <1>2, Queued
<1>4. /\ cmd.step = "recv" /\ cmd.task = NoTask
      /\ cmd' = [op |-> c.op, account |-> c.account, version |-> c.version,
                 step |-> IF c.op = "delete" THEN "remove" ELSE "upsert", task |-> NoTask]
      /\ UNCHANGED <<worker, heard, cancelled, tasks, holder, table, secrets, known, shown, late, astray, main, joining>>
  BY <1>2 DEF IInv, CommandSound, Receive, At, workerVars, storeVars, uiVars, mainVars
<1>5. TypeOK'
  BY <1>2, <1>3, <1>4 DEF IInv, TypeOK, Running, Command, CommandStep
<1>6. \A a : Fresh(a)' <=> Fresh(a)
  BY <1>4 DEF Fresh, Live
<1>7. MapSound' /\ MainSound'
  BY <1>1, <1>4 DEF IInv, MapSound, MainSound, Drained
<1>8. \A k \in 1 .. Len(queue') : k + 1 \in 1 .. Len(queue)
  BY <1>2
<1>9. /\ c.op = "add" => Fresh(c.account)
      /\ c.account \in known
      /\ c.op # "delete" => c.version # 0
  BY <1>2 DEF IInv, AddsAreFresh, OnlyKnown, VersionsGiven
<1>10. CommandSound'
  <2>2. cmd'.step \in {"remove", "upsert"} /\ holder' # "commands"
    BY <1>4 DEF IInv, CommandSound
  <2>3. cmd'.step = "remove" => cmd'.op = "delete"
    BY <1>4
  <2>4. cmd'.task = NoTask
    BY <1>4
  <2>5. (cmd.step = "upsert" => cmd.op # "delete" /\ (cmd.op = "add" => Fresh(cmd.account)))'
    BY <1>4, <1>9 DEF Fresh, Live
  <2>6. QED
    BY <2>2, <2>3, <2>4, <2>5 DEF CommandSound, Stopping, Starting
<1>11. OnlyKnown'
  <2>1. \A k \in 1 .. Len(queue') : queue'[k].account \in known
    BY <1>2, <1>8 DEF IInv, OnlyKnown
  <2>2. \A a \in Accounts : a \notin known' => Fresh(a)' /\ shown'[a] = 0
    BY <1>4, <1>6 DEF IInv, OnlyKnown
  <2>3. QED
    BY <1>4, <1>9, <2>1, <2>2 DEF OnlyKnown
<1>12. VersionsGiven'
  <2>1. \A k \in 1 .. Len(queue') : queue'[k].op # "delete" => queue'[k].version # 0
    BY <1>2, <1>8 DEF IInv, VersionsGiven
  <2>2. QED
    BY <1>4, <1>9, <2>1 DEF VersionsGiven
<1>13. AddsAreFresh'
  <2>1. SUFFICES ASSUME NEW k \in 1 .. Len(queue'), queue'[k].op = "add"
                 PROVE  /\ Fresh(queue[k].account)'
                        /\ cmd'.account # queue'[k].account
                        /\ \A n \in 1 .. k - 1 : queue'[n].account # queue'[k].account
    BY DEF AddsAreFresh
  <2>2. queue'[k] = queue[k + 1] /\ k + 1 \in 1 .. Len(queue) /\ k \in Nat
    BY <1>2, <1>8
  <2>3. /\ Fresh(queue[k + 1].account)
        /\ \A n \in 1 .. (k + 1) - 1 : queue[n].account # queue[k + 1].account
    BY <2>1, <2>2 DEF IInv, AddsAreFresh
  <2>4. c.account # queue'[k].account
    BY <2>2, <2>3
  <2>5. ASSUME NEW n \in 1 .. k - 1
        PROVE  queue'[n].account # queue'[k].account
    <3>1. n \in 1 .. Len(queue') /\ n + 1 \in 1 .. (k + 1) - 1
      BY <1>2, <2>2
    <3>2. queue'[n] = queue[n + 1]
      BY <1>2, <3>1
    <3>3. QED
      BY <2>2, <2>3, <3>1, <3>2
  <2>6. QED
    BY <1>4, <2>2, <2>3, <2>4, <2>5 DEF Fresh, Live
<1>14. Registered' /\ LiveHaveRows' /\ SecretsGone'
  BY <1>4 DEF IInv, TypeOK, Registered, LiveHaveRows, SecretsGone, Live
<1>15. ConfigIsCurrent'
  BY <1>4 DEF IInv, ConfigIsCurrent, Live
<1>16. QED
  BY <1>5, <1>7, <1>10, <1>11, <1>12, <1>13, <1>14, <1>15 DEF IInv

\* A step of a command keeps what the command is.
LEMMA CommandGoesOn ==
  ASSUME cmd \in Running, NEW step \in CommandStep, NEW t \in Tasks \cup {NoTask}, CommandGoes(step, t)
  PROVE  /\ cmd' \in Running
         /\ cmd'.account = cmd.account /\ cmd'.op = cmd.op /\ cmd'.version = cmd.version
         /\ cmd'.step = step /\ cmd'.task = t
BY DEF CommandGoes, Running

LEMMA UpsertKeeps ==
  ASSUME IInv, UpsertAccount
  PROVE  IInv'
<1> DEFINE a == cmd.account
<1>1. /\ cmd.step = "upsert" /\ cmd \in Running /\ a \in Accounts
      /\ cmd.op \in {"add", "update"} /\ cmd.version \in Versions
      /\ table' = [table EXCEPT ![a] = cmd.version]
      /\ CommandGoes(IF cmd.op = "add" THEN "spawn" ELSE "remove", NoTask)
      /\ secrets' = secrets \/ secrets' = secrets \cup {a}
      /\ UNCHANGED <<worker, heard, cancelled, tasks, holder, known, shown, late, astray, queue, main, joining>>
  BY DEF IInv, TypeOK, CommandSound, Running, UpsertAccount, At, UpsertRow,
         workerVars, uiVars, mainVars
<1>2. /\ cmd' \in Running
      /\ cmd'.account = a /\ cmd'.op = cmd.op /\ cmd'.version = cmd.version
      /\ cmd'.step = (IF cmd.op = "add" THEN "spawn" ELSE "remove")
      /\ cmd'.task = NoTask
  BY <1>1, CommandGoesOn DEF CommandStep
<1>3. /\ table'[a] = cmd.version
      /\ \A b \in Accounts \ {a} : table'[b] = table[b]
  BY <1>1 DEF IInv, TypeOK
<1>4. TypeOK'
  BY <1>1, <1>2 DEF IInv, TypeOK
<1>5. OnlyTouches(a)
  BY <1>1, <1>3 DEF OnlyTouches, Live
<1>6. AddsAreFresh' /\ OnlyKnown' /\ VersionsGiven'
  BY <1>1, <1>2, <1>5, CommandFrame DEF IInv
<1>7. MapSound' /\ MainSound'
  BY <1>1 DEF IInv, MapSound, MainSound, Drained
<1>8. cmd.version # 0
  BY <1>1 DEF IInv, VersionsGiven
<1>9. CommandSound'
  BY <1>1, <1>2, <1>3 DEF IInv, CommandSound, Fresh, Live, Stopping, Starting
<1>10. Registered' /\ SecretsGone' /\ LiveHaveRows'
  BY <1>1, <1>2, <1>3, <1>8 DEF IInv, TypeOK, WorkerState, CommandSound, Registered, SecretsGone, LiveHaveRows, Live, Stopping
<1>11. ConfigIsCurrent'
  BY <1>1, <1>2, <1>3 DEF IInv, TypeOK, WorkerState, CommandSound, Fresh, ConfigIsCurrent, Live
<1>12. QED
  BY <1>4, <1>6, <1>7, <1>9, <1>10, <1>11 DEF IInv

LEMMA FailureKeeps ==
  ASSUME IInv, CommandFails
  PROVE  IInv'
<1>1. /\ cmd.step \in {"upsert", "spawn"} /\ cmd \in Running /\ cmd.account \in Accounts
      /\ CommandGoes("recv", NoTask)
      /\ shown' = IF cmd.op = "add" THEN [shown EXCEPT ![cmd.account] = 0] ELSE shown
      /\ astray' = astray \cup {cmd.account}
      /\ UNCHANGED <<worker, heard, cancelled, tasks, holder, table, secrets, known, late, queue, main, joining>>
  BY DEF IInv, TypeOK, Running, CommandFails, At, workerVars, storeVars, mainVars
<1>2. /\ cmd' \in Running
      /\ cmd'.account = cmd.account /\ cmd'.op = cmd.op /\ cmd'.version = cmd.version
      /\ cmd'.step = "recv" /\ cmd'.task = NoTask
  BY <1>1, CommandGoesOn DEF CommandStep
<1>3. TypeOK'
  <2>1. shown' \in [Accounts -> Versions]
    BY <1>1, LifecycleAssumption DEF IInv, TypeOK, Versions
  <2>2. QED
    BY <1>1, <1>2, <2>1 DEF IInv, TypeOK
<1>4. OnlyTouches(cmd.account)
  BY <1>1 DEF OnlyTouches, Live
<1>5. \A a \in Accounts \ {cmd.account} : shown'[a] = shown[a]
  BY <1>1 DEF IInv, TypeOK
<1>6. AddsAreFresh' /\ OnlyKnown' /\ VersionsGiven'
  BY <1>1, <1>2, <1>4, <1>5, CommandFrame DEF IInv
<1>7. MapSound' /\ MainSound'
  BY <1>1, <1>2 DEF IInv, MapSound, MainSound, Drained
<1>8. CommandSound'
  BY <1>1, <1>2 DEF IInv, CommandSound, Stopping, Starting
<1>9. Registered' /\ SecretsGone' /\ LiveHaveRows'
  BY <1>1, <1>2, LifecycleAssumption DEF IInv, CommandSound, Registered, SecretsGone, LiveHaveRows, Live
<1>10. ConfigIsCurrent'
  BY <1>1, <1>2 DEF IInv, ConfigIsCurrent, Live
<1>11. QED
  BY <1>3, <1>6, <1>7, <1>8, <1>9, <1>10 DEF IInv

\* Whoever takes the free lock finds main neither draining nor joining.
LEMMA MainWaits ==
  ASSUME IInv, holder = "none"
  PROVE  joining = NoTask
BY DEF IInv, MainSound, Drained

LEMMA RemoveKeeps ==
  ASSUME IInv, RemoveTask
  PROVE  IInv'
<1> DEFINE a == cmd.account
<1>1. /\ cmd.step = "remove" /\ cmd \in Running /\ a \in Accounts
      /\ cmd.op \in {"update", "delete"} /\ cmd.task = NoTask
      /\ cmd.op = "update" => table[a] = cmd.version
      /\ holder = "none" /\ joining = NoTask /\ main # "exited"
      /\ UNCHANGED <<worker, table, secrets, known, shown, late, astray, queue, main, joining>>
  BY MainWaits DEF IInv, TypeOK, Running, CommandSound, Stopping, RemoveTask, At, storeVars, uiVars, mainVars
<1>2. \A i \in Tasks : Live(i) /\ worker[i].account = a => tasks[a] = i
  BY <1>1, LifecycleAssumption DEF IInv, Registered
<1>3. CASE tasks[a] = NoTask
  <2>1. /\ CommandGoes(Removed, NoTask)
        /\ UNCHANGED <<tasks, holder, heard, cancelled>>
    BY <1>3 DEF RemoveTask
  <2>2. /\ cmd' \in Running
        /\ cmd'.account = a /\ cmd'.op = cmd.op /\ cmd'.version = cmd.version
        /\ cmd'.step = (IF cmd.op = "delete" THEN "delete" ELSE "spawn") /\ cmd'.task = NoTask
    BY <1>1, <2>1, CommandGoesOn DEF Removed, CommandStep
  <2>3. \A i \in Tasks : Live(i) => worker[i].account # a
    BY <1>2, <1>3, LifecycleAssumption
  <2>4. TypeOK'
    BY <1>1, <2>1, <2>2 DEF IInv, TypeOK
  <2>5. OnlyTouches(a)
    BY <1>1, <2>1 DEF OnlyTouches, Live
  <2>6. AddsAreFresh' /\ OnlyKnown' /\ VersionsGiven'
    BY <1>1, <2>2, <2>5, CommandFrame DEF IInv
  <2>7. MapSound' /\ MainSound'
    BY <1>1, <2>1, <2>2 DEF IInv, MapSound, MainSound, Drained
  <2>8. CommandSound'
    BY <1>1, <1>3, <2>1, <2>2, <2>3 DEF IInv, CommandSound, Live, Stopping, Starting
  <2>9. Registered' /\ SecretsGone' /\ LiveHaveRows'
    BY <1>1, <2>1, <2>2 DEF IInv, Registered, SecretsGone, LiveHaveRows, Live
  <2>10. ConfigIsCurrent'
    BY <1>1, <2>3 DEF IInv, ConfigIsCurrent, Live
  <2>11. QED
    BY <2>4, <2>6, <2>7, <2>8, <2>9, <2>10 DEF IInv
<1>4. CASE tasks[a] # NoTask
  <2> DEFINE t == tasks[a]
  <2>1. /\ Cancel(t)
        /\ tasks' = [tasks EXCEPT ![a] = NoTask]
        /\ holder' = "commands"
        /\ CommandGoes("join", t)
    BY <1>4 DEF RemoveTask
  <2>2. /\ t \in Tasks /\ worker[t].account = a /\ worker[t].at # "unborn"
        /\ tasks'[a] = NoTask
        /\ \A b \in Accounts \ {a} : tasks'[b] = tasks[b]
    BY <1>1, <1>4, <2>1 DEF IInv, TypeOK, MapSound
  <2>3. /\ cmd' \in Running
        /\ cmd'.account = a /\ cmd'.op = cmd.op /\ cmd'.version = cmd.version
        /\ cmd'.step = "join" /\ cmd'.task = t
    BY <1>1, <2>1, <2>2, CommandGoesOn DEF CommandStep
  <2>4. TypeOK'
    BY <1>1, <2>1, <2>2, <2>3 DEF IInv, TypeOK, Cancel
  <2>5. OnlyTouches(a)
    BY <1>1, <2>2 DEF OnlyTouches, Live
  <2>6. AddsAreFresh' /\ OnlyKnown' /\ VersionsGiven'
    BY <1>1, <2>3, <2>5, CommandFrame DEF IInv
  <2>7. MapSound' /\ MainSound'
    BY <1>1, <2>1, <2>2, <2>3 DEF IInv, MapSound, MainSound, Drained
  <2>8. CommandSound'
    BY <1>1, <1>2, <1>4, <2>1, <2>2, <2>3 DEF IInv, CommandSound, Live, Stopping, Starting
  <2>9. Registered'
    BY <1>1, <1>2, <2>2, <2>3, LifecycleAssumption DEF IInv, TypeOK, WorkerState, Registered, Live
  <2>10. SecretsGone' /\ LiveHaveRows'
    BY <1>1 DEF IInv, SecretsGone, LiveHaveRows, Live
  <2>11. ConfigIsCurrent'
    BY <1>1, <2>3 DEF IInv, ConfigIsCurrent, Live
  <2>12. QED
    BY <2>4, <2>6, <2>7, <2>8, <2>9, <2>10, <2>11 DEF IInv
<1>5. QED
  BY <1>3, <1>4

LEMMA JoinKeeps ==
  ASSUME IInv, JoinTask
  PROVE  IInv'
<1> DEFINE a == cmd.account
<1>1. /\ cmd.step = "join" /\ cmd \in Running /\ a \in Accounts
      /\ cmd.op \in {"update", "delete"}
      /\ cmd.op = "update" => table[a] = cmd.version
      /\ tasks[a] = NoTask /\ ~Live(cmd.task)
      /\ \A i \in Tasks : Live(i) /\ worker[i].account = a => i = cmd.task
      /\ holder = "commands" /\ holder' = "none"
      /\ CommandGoes(Removed, NoTask)
      /\ UNCHANGED <<worker, heard, cancelled, tasks, table, secrets, known, shown, late, astray, queue, main, joining>>
  BY DEF IInv, TypeOK, Running, CommandSound, Stopping, JoinTask, Ended, Live, At,
         workerVars, storeVars, uiVars, mainVars
<1>2. /\ cmd' \in Running
      /\ cmd'.account = a /\ cmd'.op = cmd.op /\ cmd'.version = cmd.version
      /\ cmd'.step = (IF cmd.op = "delete" THEN "delete" ELSE "spawn") /\ cmd'.task = NoTask
  BY <1>1, CommandGoesOn DEF Removed, CommandStep
<1>3. \A i \in Tasks : Live(i) => worker[i].account # a
  BY <1>1
<1>4. TypeOK'
  BY <1>1, <1>2 DEF IInv, TypeOK
<1>5. OnlyTouches(a)
  BY <1>1 DEF OnlyTouches, Live
<1>6. AddsAreFresh' /\ OnlyKnown' /\ VersionsGiven'
  BY <1>1, <1>2, <1>5, CommandFrame DEF IInv
<1>7. MapSound' /\ MainSound'
  BY <1>1, <1>2 DEF IInv, MapSound, MainSound, Drained
<1>8. CommandSound'
  BY <1>1, <1>2, <1>3 DEF IInv, CommandSound, Live, Stopping, Starting
<1>9. Registered' /\ SecretsGone' /\ LiveHaveRows'
  BY <1>1, <1>2 DEF IInv, Registered, SecretsGone, LiveHaveRows, Live
<1>10. ConfigIsCurrent'
  BY <1>1, <1>3 DEF IInv, ConfigIsCurrent, Live
<1>11. QED
  BY <1>4, <1>6, <1>7, <1>8, <1>9, <1>10 DEF IInv

\* The account has neither a worker at work nor one in the map, so that the
\* new worker is the only one, although it runs before it is in the map.
LEMMA SpawnKeeps ==
  ASSUME IInv, SpawnTask
  PROVE  IInv'
<1> DEFINE a == cmd.account
<1>1. PICK i \in Tasks : Spawn(i, a, cmd.version) /\ CommandGoes("insert", i)
  BY DEF SpawnTask
<1>2. /\ cmd.step = "spawn" /\ cmd \in Running /\ a \in Accounts /\ cmd.version \in Versions
      /\ cmd.op \in {"add", "update"} /\ table[a] = cmd.version /\ cmd.version # 0
      /\ tasks[a] = NoTask /\ cmd.task = NoTask
      /\ secrets' = IF cmd.op = "add" THEN secrets \cup {a} ELSE secrets
      /\ UNCHANGED <<heard, cancelled, tasks, holder, table, known, shown, late, astray, queue, main, joining>>
  BY DEF IInv, TypeOK, Running, CommandSound, VersionsGiven, Starting, SpawnTask, At, uiVars, mainVars
<1>3. \A j \in Tasks : Live(j) => worker[j].account # a
  BY <1>2, LifecycleAssumption DEF IInv, CommandSound, Starting
<1>4. /\ cmd' \in Running
      /\ cmd'.account = a /\ cmd'.op = cmd.op /\ cmd'.version = cmd.version
      /\ cmd'.step = "insert" /\ cmd'.task = i
  BY <1>1, <1>2, CommandGoesOn DEF CommandStep
<1>5. /\ worker[i].at = "unborn" /\ ~Live(i)
      /\ worker' \in [Tasks -> WorkerState]
      /\ worker'[i] = [account |-> a, version |-> cmd.version, at |-> "start"]
      /\ \A j \in Tasks \ {i} : worker'[j] = worker[j]
  BY <1>1, <1>2 DEF IInv, TypeOK, Spawn, Live, WorkerState, WorkerStep
<1>6. TypeOK'
  BY <1>2, <1>4, <1>5 DEF IInv, TypeOK
<1>7. OnlyTouches(a)
  BY <1>2, <1>5 DEF OnlyTouches, Live
<1>8. AddsAreFresh' /\ OnlyKnown' /\ VersionsGiven'
  BY <1>2, <1>4, <1>7, CommandFrame DEF IInv
<1>9. MapSound'
  BY <1>2, <1>5 DEF IInv, TypeOK, MapSound
<1>10. MainSound'
  BY <1>2, <1>4, <1>5 DEF IInv, TypeOK, MainSound, Drained
<1>11. CommandSound'
  BY <1>2, <1>3, <1>4, <1>5, LifecycleAssumption DEF IInv, CommandSound, Live, Stopping, Starting
<1>12. Registered'
  BY <1>2, <1>4, <1>5, LifecycleAssumption DEF IInv, Registered, Live
<1>13. SecretsGone' /\ LiveHaveRows'
  BY <1>2, <1>5 DEF IInv, SecretsGone, LiveHaveRows, Live
<1>14. ConfigIsCurrent'
  BY <1>2, <1>5 DEF IInv, ConfigIsCurrent, Live
<1>15. QED
  BY <1>6, <1>8, <1>9, <1>10, <1>11, <1>12, <1>13, <1>14 DEF IInv

LEMMA InsertKeeps ==
  ASSUME IInv, InsertTask
  PROVE  IInv'
<1> DEFINE a == cmd.account
<1>1. /\ cmd.step = "insert" /\ cmd \in Running /\ a \in Accounts
      /\ cmd.task \in Tasks /\ worker[cmd.task].account = a /\ worker[cmd.task].at # "unborn"
      /\ tasks[a] = NoTask
      /\ tasks' = [tasks EXCEPT ![a] = cmd.task]
      /\ holder = "none" /\ joining = NoTask /\ main # "exited"
      /\ CommandGoes("recv", NoTask)
      /\ UNCHANGED <<worker, heard, cancelled, holder, table, secrets, known, shown, late, astray, queue, main, joining>>
  BY MainWaits DEF IInv, TypeOK, Running, CommandSound, Starting, InsertTask, At, storeVars, uiVars, mainVars
<1>2. /\ cmd' \in Running
      /\ cmd'.account = a /\ cmd'.op = cmd.op /\ cmd'.version = cmd.version
      /\ cmd'.step = "recv" /\ cmd'.task = NoTask
  BY <1>1, CommandGoesOn DEF CommandStep
<1>3. /\ tasks'[a] = cmd.task
      /\ \A b \in Accounts \ {a} : tasks'[b] = tasks[b]
  BY <1>1 DEF IInv, TypeOK
<1>4. TypeOK'
  BY <1>1, <1>2 DEF IInv, TypeOK
<1>5. OnlyTouches(a)
  BY <1>1, <1>3 DEF OnlyTouches, Live
<1>6. AddsAreFresh' /\ OnlyKnown' /\ VersionsGiven'
  BY <1>1, <1>2, <1>5, CommandFrame DEF IInv
<1>7. MapSound' /\ MainSound'
  BY <1>1, <1>2, <1>3 DEF IInv, MapSound, MainSound, Drained
<1>8. CommandSound'
  BY <1>1, <1>2 DEF IInv, CommandSound, Stopping, Starting
<1>9. Registered'
  BY <1>1, <1>2, <1>3, LifecycleAssumption DEF IInv, TypeOK, WorkerState, Registered, Live
<1>10. SecretsGone' /\ LiveHaveRows'
  BY <1>1 DEF IInv, SecretsGone, LiveHaveRows, Live
<1>11. ConfigIsCurrent'
  BY <1>1 DEF IInv, ConfigIsCurrent, Live
<1>12. QED
  BY <1>4, <1>6, <1>7, <1>8, <1>9, <1>10, <1>11 DEF IInv

\* The worker has been joined: none is left to store tokens again.
LEMMA DeleteKeeps ==
  ASSUME IInv, DeleteRow
  PROVE  IInv'
<1> DEFINE a == cmd.account
<1>a. cmd.step = "delete" /\ cmd \in Running /\ a \in Accounts
  BY DEF IInv, TypeOK, Running, DeleteRow, At
<1>b. cmd.op = "delete" /\ cmd.task = NoTask /\ tasks[a] = NoTask
  BY <1>a DEF IInv, CommandSound
<1>c. /\ secrets' = secrets \ {a}
      /\ table' = [table EXCEPT ![a] = 0] \/ table' = table
      /\ astray' = astray \/ astray' = astray \cup {a}
      /\ CommandGoes("recv", NoTask)
      /\ UNCHANGED <<worker, heard, cancelled, tasks, holder, known, shown, late, queue, main, joining>>
  BY DEF DeleteRow, workerVars, mainVars
<1>1. /\ cmd.step = "delete" /\ cmd \in Running /\ a \in Accounts
      /\ cmd.op = "delete" /\ cmd.task = NoTask /\ tasks[a] = NoTask
      /\ secrets' = secrets \ {a}
      /\ table' = [table EXCEPT ![a] = 0] \/ table' = table
      /\ astray' = astray \/ astray' = astray \cup {a}
      /\ CommandGoes("recv", NoTask)
      /\ UNCHANGED <<worker, heard, cancelled, tasks, holder, known, shown, late, queue, main, joining>>
  BY <1>a, <1>b, <1>c
<1>2. \A i \in Tasks : Live(i) => worker[i].account # a
  BY <1>1, LifecycleAssumption DEF IInv, CommandSound
<1>3. /\ cmd' \in Running
      /\ cmd'.account = a /\ cmd'.op = cmd.op /\ cmd'.version = cmd.version
      /\ cmd'.step = "recv" /\ cmd'.task = NoTask
  BY <1>1, CommandGoesOn DEF CommandStep
<1>4. \A b \in Accounts \ {a} : table'[b] = table[b]
  BY <1>1 DEF IInv, TypeOK
<1>5. TypeOK'
  <2>1. table' \in [Accounts -> Versions]
    BY <1>1, LifecycleAssumption DEF IInv, TypeOK, Versions
  <2>2. QED
    BY <1>1, <1>3, <2>1 DEF IInv, TypeOK
<1>6. OnlyTouches(a)
  BY <1>1, <1>4 DEF OnlyTouches, Live
<1>7. AddsAreFresh' /\ OnlyKnown' /\ VersionsGiven'
  BY <1>1, <1>3, <1>6, CommandFrame DEF IInv
<1>8. MapSound' /\ MainSound'
  BY <1>1, <1>3 DEF IInv, MapSound, MainSound, Drained
<1>9. CommandSound'
  BY <1>1, <1>3 DEF IInv, CommandSound, Stopping, Starting
<1>10. Registered' /\ SecretsGone'
  BY <1>1, <1>3, <1>4 DEF IInv, TypeOK, Registered, SecretsGone, Live
<1>11. LiveHaveRows' /\ ConfigIsCurrent'
  BY <1>1, <1>2, <1>4 DEF IInv, TypeOK, WorkerState, LiveHaveRows, ConfigIsCurrent, Live
<1>12. QED
  BY <1>5, <1>7, <1>8, <1>9, <1>10, <1>11 DEF IInv

-----------------------------------------------------------------------------
(* Together. *)

LEMMA InitKeeps ==
  ASSUME Init
  PROVE  IInv
<1>1. /\ table \in [Accounts -> {0, 1}] /\ shown = table
      /\ known = {a \in Accounts : table[a] # 0} /\ secrets = known /\ astray = {} /\ late = 0
      /\ heard = {} /\ cancelled = {} /\ tasks = [a \in Accounts |-> NoTask]
      /\ holder = "none" /\ queue = <<>> /\ main = "starting" /\ joining = NoTask
  BY DEF Init
<1>2. PICK a \in Accounts :
        /\ worker = [i \in Tasks |-> [account |-> a, version |-> 0, at |-> "unborn"]]
        /\ cmd = [op |-> "add", account |-> a, version |-> 0, step |-> "recv", task |-> NoTask]
  BY DEF Init
<1>3. 0 \in Versions /\ 1 \in Versions
  BY LifecycleAssumption DEF Versions
<1>4. TypeOK
  <2>1. worker \in [Tasks -> WorkerState] /\ cmd \in Running
    BY <1>2, <1>3 DEF WorkerState, WorkerStep, Running, CommandStep
  <2>2. queue \in Seq(Command)
    BY <1>1
  <2>3. late \in 0 .. MaxLate /\ astray \subseteq Accounts
    BY <1>1, LifecycleAssumption
  <2>4. QED
    BY <1>1, <1>3, <2>1, <2>2, <2>3 DEF TypeOK
<1>5. \A i \in Tasks : ~Live(i)
  BY <1>2 DEF Live
<1>6. MapSound /\ MainSound /\ CommandSound
  BY <1>1, <1>2 DEF MapSound, MainSound, Drained, CommandSound, Stopping, Starting
<1>7. AddsAreFresh /\ VersionsGiven
  BY <1>1, <1>2 DEF AddsAreFresh, VersionsGiven
<1>8. OnlyKnown
  BY <1>1, <1>2, <1>5 DEF OnlyKnown, Fresh
<1>9. QED
  BY <1>1, <1>4, <1>5, <1>6, <1>7, <1>8 DEF IInv, Registered, ConfigIsCurrent, LiveHaveRows, SecretsGone

\* The types and the properties below, with what they rest on, hold of the
\* engine's workers, its callers and the accounts in every state.
THEOREM LifecycleInvariant == Spec => []IInv
<1>1. Init => IInv
  BY InitKeeps
<1>2. IInv /\ [Next]_vars => IInv'
  <2>1. SUFFICES ASSUME IInv, [Next]_vars
                 PROVE  IInv'
    OBVIOUS
  <2>2. ASSUME NEW i \in Tasks, WorkerSteps(i)
        PROVE  IInv'
    BY <2>1, <2>2, WorkerKeeps
  <2>3. ASSUME NEW b \in Accounts, AddAccount(b) \/ UpdateAccount(b) \/ DeleteAccount(b)
        PROVE  IInv'
    BY <2>1, <2>3, SourceKeeps
  <2>4. CASE CommandSteps
    BY <2>1, <2>4, ReceiveKeeps, UpsertKeeps, FailureKeeps, RemoveKeeps, JoinKeeps, SpawnKeeps,
       InsertKeeps, DeleteKeeps DEF CommandSteps
  <2>5. CASE Quit
    BY <2>1, <2>5, MainKeeps
  <2>6. CASE MainSteps
    <3>1. ASSUME NEW b \in Accounts, StartAccount(b)
          PROVE  IInv'
      BY <2>1, <3>1, StartKeeps
    <3>2. ASSUME NEW b \in Accounts, DrainTask(b)
          PROVE  IInv'
      BY <2>1, <3>2, MainKeeps
    <3>3. CASE Started \/ LockTasks \/ JoinDrained \/ Exit
      BY <2>1, <3>3, MainKeeps
    <3>4. QED
      BY <2>6, <3>1, <3>2, <3>3 DEF MainSteps
  <2>7. CASE UNCHANGED vars
    <3>1. UNCHANGED <<worker, heard, cancelled, tasks, holder, table, secrets, known, shown, late, astray, queue, cmd, main, joining>>
      BY <2>7 DEF vars, workerVars, storeVars, uiVars, mainVars
    <3>2. TypeOK'
      BY <2>1, <3>1 DEF IInv, TypeOK
    <3>3. MapSound' /\ MainSound'
      BY <2>1, <3>1 DEF IInv, MapSound, MainSound, Drained
    <3>4. CommandSound'
      BY <2>1, <3>1 DEF IInv, CommandSound, Fresh, Live, Stopping, Starting
    <3>5. AddsAreFresh' /\ OnlyKnown' /\ VersionsGiven'
      <4>1. \A a \in Accounts : Fresh(a) => Fresh(a)'
        BY <3>1 DEF Fresh, Live
      <4>2. QED
        BY <2>1, <3>1, <4>1, QuietFrame DEF IInv
    <3>6. Registered' /\ ConfigIsCurrent' /\ LiveHaveRows' /\ SecretsGone'
      BY <2>1, <3>1 DEF IInv, Registered, ConfigIsCurrent, LiveHaveRows, SecretsGone, Live
    <3>7. QED
      BY <3>2, <3>3, <3>4, <3>5, <3>6 DEF IInv
  <2>8. QED
    BY <2>1, <2>2, <2>3, <2>4, <2>5, <2>6, <2>7 DEF Next
<1>3. QED
  BY <1>1, <1>2, PTL DEF Spec

\* No two workers of an account are ever at work: each is in the map, in the
\* hand of the command that carries it there, or the last that was taken out,
\* and of these an account has one.
THEOREM NeverTwoWorkers == Spec => []OneWorker
<1>1. IInv => OneWorker
  <2>1. SUFFICES ASSUME IInv, NEW i \in Tasks, NEW j \in Tasks, Live(i), Live(j),
                        worker[i].account = worker[j].account
                 PROVE  i = j
    BY DEF OneWorker
  <2>2. i # NoTask /\ j # NoTask
    BY LifecycleAssumption
  <2>3. /\ tasks[worker[i].account] = i \/ cmd.task = i \/ joining = i
        /\ tasks[worker[i].account] = j \/ cmd.task = j \/ joining = j
    BY <2>1 DEF IInv, Registered
  <2>4. ASSUME NEW k \in Tasks, cmd.task = k
        PROVE  \A n \in Tasks : Live(n) /\ worker[n].account = worker[k].account => n = k
    BY <2>1, <2>4, LifecycleAssumption DEF IInv, CommandSound, Starting
  <2>5. ASSUME NEW k \in Tasks, joining = k
        PROVE  tasks[worker[k].account] = NoTask
    BY <2>1, <2>5, LifecycleAssumption DEF IInv, MainSound, Drained
  <2>6. QED
    BY <2>1, <2>2, <2>3, <2>4, <2>5
<1>2. QED
  BY <1>1, LifecycleInvariant, PTL

\* A worker that outlives the program is one that had just been spawned by the
\* command under way: at exit the map is empty and main waits for none.
THEOREM ShutdownMissesOne == Spec => []ShutdownFindsAll
<1>1. IInv => ShutdownFindsAll
  <2>1. SUFFICES ASSUME IInv, main = "exited", NEW i \in Tasks, Live(i)
                 PROVE  cmd.step = "insert" /\ cmd.task = i
    BY DEF ShutdownFindsAll
  <2>2. i # NoTask /\ worker[i].account \in Accounts
    BY <2>1, LifecycleAssumption DEF IInv, TypeOK, WorkerState
  <2>3. tasks[worker[i].account] = NoTask /\ joining = NoTask /\ holder = "none"
    BY <2>1, <2>2 DEF IInv, MainSound, Drained
  <2>4. cmd.task = i
    BY <2>1, <2>2, <2>3 DEF IInv, Registered
  <2>5. QED
    BY <2>1, <2>2, <2>3, <2>4 DEF IInv, CommandSound
<1>2. QED
  BY <1>1, LifecycleInvariant, PTL

\* A worker is at work on the settings in the database, unless a command is
\* about to stop it.
THEOREM SettingsAreCurrent == Spec => []ConfigIsCurrent
<1>1. IInv => ConfigIsCurrent
  BY DEF IInv
<1>2. QED
  BY <1>1, LifecycleInvariant, PTL

\* Credentials are kept only of accounts that are in the database.
THEOREM NoOrphanedSecrets == Spec => []SecretsGone
<1>1. IInv => SecretsGone
  BY DEF IInv
<1>2. QED
  BY <1>1, LifecycleInvariant, PTL

\* The map, the tables and the tasks keep their types.
THEOREM LifecycleTypes == Spec => []TypeOK
<1>1. IInv => TypeOK
  BY DEF IInv
<1>2. QED
  BY <1>1, LifecycleInvariant, PTL
-----------------------------------------------------------------------------
(* What the TUI shows is what its commands will have made of the accounts. *)

LastOf(k) == \A n \in k + 1 .. Len(queue) : queue[n].account # queue[k].account

NoneOf(a) == \A k \in 1 .. Len(queue) : queue[k].account # a

\* The last command that waits for an account brings the version shown; if none
\* waits, the one under way does, or has been brought already.  Accounts that
\* have gone astray are left out.
ShownIsDue ==
  /\ \A k \in 1 .. Len(queue) : queue[k].op = "delete" => queue[k].version = 0
  /\ cmd.step # "recv" /\ cmd.op = "delete" => cmd.version = 0
  /\ \A k \in 1 .. Len(queue) : LastOf(k) /\ queue[k].account \notin astray =>
       shown[queue[k].account] = queue[k].version
  /\ \A a \in Accounts \ astray : NoneOf(a) =>
       shown[a] = IF cmd.step # "recv" /\ cmd.account = a THEN cmd.version ELSE table[a]

\* Workers and main touch none of it, nor does a command that has more to do
\* and leaves the table alone.
LEMMA DueStays ==
  ASSUME ShownIsDue, UNCHANGED <<queue, shown, astray, table>>,
         \/ UNCHANGED cmd
         \/ /\ cmd.step # "recv" /\ cmd'.step # "recv"
            /\ cmd'.account = cmd.account /\ cmd'.op = cmd.op /\ cmd'.version = cmd.version
  PROVE  ShownIsDue'
BY DEF ShownIsDue, LastOf, NoneOf

\* A command that is done leaves its account in the table as it is to be; one
\* that has failed leaves it astray.
LEMMA DueDone ==
  ASSUME IInv, ShownIsDue, UNCHANGED queue, cmd.step # "recv", cmd'.step = "recv",
         astray \subseteq astray',
         \A a \in Accounts \ {cmd.account} : shown'[a] = shown[a] /\ table'[a] = table[a],
         \/ cmd.account \in astray'
         \/ shown' = shown /\ table'[cmd.account] = cmd.version
  PROVE  ShownIsDue'
<1>1. ASSUME NEW k \in 1 .. Len(queue), LastOf(k), queue[k].account \notin astray'
      PROVE  shown'[queue[k].account] = queue[k].version
  <2>1. queue[k].account \in Accounts /\ queue[k].account \notin astray
    BY <1>1, Queued DEF IInv, TypeOK
  <2>2. shown[queue[k].account] = queue[k].version
    BY <1>1, <2>1 DEF ShownIsDue
  <2>3. QED
    BY <1>1, <2>1, <2>2
<1>2. ASSUME NEW a \in Accounts \ astray', NoneOf(a)
      PROVE  shown'[a] = table'[a]
  <2>1. shown[a] = IF cmd.account = a THEN cmd.version ELSE table[a]
    BY <1>2 DEF ShownIsDue
  <2>2. QED
    BY <1>2, <2>1
<1>3. QED
  BY <1>1, <1>2 DEF ShownIsDue, LastOf, NoneOf

LEMMA DuePosted ==
  ASSUME IInv, ShownIsDue, NEW op \in {"add", "update", "delete"}, NEW b \in Accounts, NEW v \in Versions,
         Posted(op, b, v)
  PROVE  ShownIsDue'
<1> DEFINE c == [op |-> op, account |-> b, version |-> v]
           N == Len(queue)
<1>1. /\ queue \in Seq(Command) /\ queue' = Append(queue, c) /\ c \in Command
      /\ UNCHANGED <<table, cmd>>
  BY DEF IInv, TypeOK, Posted, Post, Command, storeVars
<1>2. /\ N \in Nat /\ Len(queue') = N + 1 /\ queue'[N + 1] = c
      /\ \A k \in 1 .. N : queue'[k] = queue[k]
  <2> HIDE DEF c
  <2>1. QED
    BY <1>1, AppendProperties, LenProperties
<1>3. /\ shown'[b] = v \/ b \in astray'
      /\ \A a \in Accounts \ {b} : shown'[a] = shown[a]
      /\ astray \subseteq astray'
      /\ op = "delete" => v = 0
  BY DEF Posted
<1>4. \A k \in 1 .. N + 1 : k \in 1 .. N \/ k = N + 1
  BY <1>2
<1>5. ASSUME NEW k \in 1 .. N + 1, LastOf(k)', queue'[k].account \notin astray'
      PROVE  shown'[queue'[k].account] = queue'[k].version
  <2>1. CASE k = N + 1
    BY <1>2, <1>3, <1>5, <2>1
  <2>2. CASE k \in 1 .. N
    <3>1. queue'[k] = queue[k] /\ queue[k].account \in Accounts
      BY <1>1, <1>2, <2>2, Queued
    <3>2. \A n \in k + 1 .. N + 1 : queue'[n].account # queue[k].account
      BY <1>2, <1>5, <3>1 DEF LastOf
    <3>3. queue[k].account # b
      BY <1>2, <2>2, <3>2
    <3>4. LastOf(k)
      BY <1>2, <2>2, <3>2 DEF LastOf
    <3>5. QED
      BY <1>3, <1>5, <2>2, <3>1, <3>3, <3>4 DEF ShownIsDue
  <2>3. QED
    BY <1>4, <2>1, <2>2
<1>6. ASSUME NEW a \in Accounts \ astray', NoneOf(a)'
      PROVE  shown'[a] = IF cmd.step # "recv" /\ cmd.account = a THEN cmd.version ELSE table[a]
  <2>1. a # b /\ NoneOf(a)
    BY <1>2, <1>6 DEF NoneOf
  <2>2. QED
    BY <1>3, <2>1 DEF ShownIsDue
<1>7. \A k \in 1 .. N + 1 : queue'[k].op = "delete" => queue'[k].version = 0
  BY <1>2, <1>3, <1>4 DEF ShownIsDue
<1>8. QED
  BY <1>1, <1>2, <1>5, <1>6, <1>7 DEF ShownIsDue

LEMMA DueReceived ==
  ASSUME IInv, ShownIsDue, Receive
  PROVE  ShownIsDue'
<1> DEFINE c == queue[1]
           N == Len(queue)
<1>1. /\ queue \in Seq(Command) /\ queue # <<>> /\ cmd.step = "recv"
      /\ queue' = Tail(queue) /\ UNCHANGED <<shown, astray, table>>
  BY DEF IInv, TypeOK, Receive, At, storeVars, uiVars
<1>2. /\ N \in Nat \ {0} /\ Len(queue') = N - 1
      /\ \A k \in 1 .. N - 1 : queue'[k] = queue[k + 1]
  BY <1>1
<1>3. /\ cmd'.op = c.op /\ cmd'.account = c.account /\ cmd'.version = c.version /\ cmd'.step # "recv"
  BY <1>1 DEF Receive
<1>4. 1 \in 1 .. N
  BY <1>2
<1>5. ASSUME NEW k \in 1 .. N - 1, LastOf(k)', queue'[k].account \notin astray
      PROVE  shown[queue'[k].account] = queue'[k].version
  <2>1. k + 1 \in 1 .. N /\ queue'[k] = queue[k + 1]
    BY <1>2
  <2>2. ASSUME NEW n \in k + 2 .. N PROVE queue[n].account # queue[k + 1].account
    <3>1. n - 1 \in k + 1 .. N - 1 /\ queue'[n - 1] = queue[n]
      BY <1>2
    <3>2. QED
      BY <1>2, <1>5, <2>1, <3>1 DEF LastOf
  <2>3. (k + 1) + 1 .. N = k + 2 .. N
    BY <1>2
  <2>4. LastOf(k + 1)
    BY <2>2, <2>3 DEF LastOf
  <2>5. QED
    BY <1>5, <2>1, <2>4 DEF ShownIsDue
<1>6. ASSUME NEW a \in Accounts \ astray, NoneOf(a)'
      PROVE  shown[a] = IF c.account = a THEN c.version ELSE table[a]
  <2>1. \A n \in 2 .. N : queue[n].account # a
    <3>1. TAKE n \in 2 .. N
    <3>2. n - 1 \in 1 .. N - 1 /\ queue'[n - 1] = queue[n]
      BY <1>2
    <3>3. QED
      BY <1>2, <1>6, <3>2 DEF NoneOf
  <2>2. CASE c.account = a
    <3>1. LastOf(1)
      BY <2>1, <2>2 DEF LastOf
    <3>2. QED
      BY <1>4, <2>2, <3>1 DEF ShownIsDue
  <2>3. CASE c.account # a
    <3>1. NoneOf(a)
      BY <1>2, <2>1, <2>3 DEF NoneOf
    <3>2. QED
      BY <1>1, <2>3, <3>1 DEF ShownIsDue
  <2>4. QED
    BY <2>2, <2>3
<1>7. /\ \A k \in 1 .. N - 1 : queue'[k].op = "delete" => queue'[k].version = 0
      /\ c.op = "delete" => c.version = 0
  BY <1>2, <1>4 DEF ShownIsDue
<1>8. QED
  BY <1>1, <1>2, <1>3, <1>5, <1>6, <1>7 DEF ShownIsDue

LEMMA DueWorked ==
  ASSUME IInv, ShownIsDue, CommandSteps
  PROVE  ShownIsDue'
<1>1. cmd \in Running /\ cmd.account \in Accounts /\ cmd.task \in Tasks \cup {NoTask}
  BY DEF IInv, TypeOK, Running
<1>s. {"recv", "remove", "join", "spawn", "insert", "delete"} \subseteq CommandStep
  BY Zenon DEF CommandStep
<1>2. ASSUME NEW step \in CommandStep \ {"recv"}, NEW t \in Tasks \cup {NoTask}, CommandGoes(step, t),
             cmd.step # "recv", UNCHANGED <<queue, shown, astray, table>>
      PROVE  ShownIsDue'
  BY <1>1, <1>2, CommandGoesOn, DueStays
<1>3. CASE Receive
  BY <1>3, DueReceived
<1>4. CASE UpsertAccount
  <2>1. /\ cmd.step = "upsert" /\ UNCHANGED <<queue, shown, astray>>
        /\ table' = [table EXCEPT ![cmd.account] = cmd.version]
        /\ cmd'.step # "recv" /\ cmd'.account = cmd.account /\ cmd'.op = cmd.op /\ cmd'.version = cmd.version
    BY <1>1, <1>4, <1>s, CommandGoesOn DEF UpsertAccount, UpsertRow, At, workerVars, uiVars, mainVars
  <2>2. \A a \in Accounts : table'[a] = IF a = cmd.account THEN cmd.version ELSE table[a]
    BY <2>1 DEF IInv, TypeOK
  <2>3. QED
    BY <2>1, <2>2 DEF ShownIsDue, LastOf, NoneOf
<1>5. CASE CommandFails
  <2>1. /\ cmd.step \in {"upsert", "spawn"} /\ CommandGoes("recv", NoTask)
        /\ shown' = IF cmd.op = "add" THEN [shown EXCEPT ![cmd.account] = 0] ELSE shown
        /\ astray' = astray \cup {cmd.account}
        /\ UNCHANGED <<queue, table>>
    BY <1>5, Zenon DEF CommandFails, At, storeVars
  <2>2. cmd'.step = "recv" /\ cmd.step # "recv"
    BY <1>1, <1>s, <2>1, CommandGoesOn
  <2>3. \A a \in Accounts \ {cmd.account} : shown'[a] = shown[a]
    BY <1>1, <2>1 DEF IInv, TypeOK
  <2>4. QED
    BY <2>1, <2>2, <2>3, DueDone
<1>6. CASE RemoveTask
  <2>1. cmd.step = "remove" /\ UNCHANGED <<queue, shown, astray, table>> /\ tasks[cmd.account] \in Tasks \cup {NoTask}
    BY <1>1, <1>6 DEF RemoveTask, At, uiVars, storeVars, mainVars, IInv, TypeOK
  <2>2. \E step \in CommandStep \ {"recv"}, t \in Tasks \cup {NoTask} : CommandGoes(step, t)
    BY <1>6, <1>s, <2>1 DEF RemoveTask, Removed, uiVars, storeVars, mainVars
  <2>3. QED
    BY <1>2, <1>s, <2>1, <2>2
<1>7. CASE JoinTask
  <2>1. cmd.step = "join" /\ main # "exited"
    BY <1>7, Zenon DEF JoinTask, At, IInv, CommandSound
  <2>2. UNCHANGED <<queue, shown, astray, table>> /\ CommandGoes(Removed, NoTask)
    BY <1>7, <2>1, Zenon DEF JoinTask, At, uiVars, storeVars
  <2>3. Removed \in CommandStep \ {"recv"}
    BY <1>s DEF Removed
  <2>4. QED
    BY <1>2, <1>s, <2>1, <2>2, <2>3
<1>8. CASE SpawnTask
  <2>1. cmd.step = "spawn" /\ UNCHANGED <<queue, shown, astray, table>> /\ \E t \in Tasks : CommandGoes("insert", t)
    BY <1>8 DEF SpawnTask, At, uiVars, mainVars
  <2>2. QED
    BY <1>2, <1>s, <2>1
<1>9. CASE InsertTask
  <2>1. /\ cmd.step = "insert" /\ UNCHANGED <<queue, shown, astray, table>>
        /\ table[cmd.account] = cmd.version /\ CommandGoes("recv", NoTask)
    BY <1>9, MainWaits DEF IInv, TypeOK, Running, CommandSound, Starting, InsertTask, At, storeVars, uiVars, mainVars
  <2>2. cmd'.step = "recv"
    BY <1>1, <1>s, <2>1, CommandGoesOn
  <2>3. QED
    BY <2>1, <2>2, DueDone
<1>10. CASE DeleteRow
  <2>1. /\ cmd.step = "delete" /\ cmd.op = "delete" /\ UNCHANGED <<queue, shown>>
        /\ \/ table' = [table EXCEPT ![cmd.account] = 0] /\ astray' = astray
           \/ table' = table /\ astray' = astray \cup {cmd.account}
        /\ CommandGoes("recv", NoTask)
    BY <1>10 DEF DeleteRow, At, workerVars, mainVars, IInv, CommandSound
  <2>2. cmd'.step = "recv" /\ cmd.version = 0
    BY <1>1, <2>1, <1>s, CommandGoesOn DEF ShownIsDue
  <2>3. /\ \A a \in Accounts \ {cmd.account} : table'[a] = table[a]
        /\ cmd.account \in astray' \/ table'[cmd.account] = cmd.version
    BY <1>1, <2>1, <2>2 DEF IInv, TypeOK
  <2>4. QED
    BY <2>1, <2>2, <2>3, DueDone
<1>11. QED
  BY <1>3, <1>4, <1>5, <1>6, <1>7, <1>8, <1>9, <1>10 DEF CommandSteps

\* The TUI shows what the database has as soon as the commands are done,
\* whatever they were and however they waited, of every account none of whose
\* commands failed or came when it was no longer shown: it changes its list when
\* it queues them.
THEOREM ShownIsStored == Spec => []AccountsAgree
<1>1. Init => ShownIsDue
  <2>1. SUFFICES ASSUME Init PROVE ShownIsDue
    OBVIOUS
  <2>2. queue = <<>> /\ cmd.step = "recv" /\ shown = table
    BY <2>1 DEF Init
  <2>3. QED
    BY <2>2 DEF ShownIsDue
<1>2. IInv /\ ShownIsDue /\ [Next]_vars => ShownIsDue'
  <2>1. SUFFICES ASSUME IInv, ShownIsDue, [Next]_vars
                 PROVE  ShownIsDue'
    OBVIOUS
  <2>2. CASE \E i \in Tasks : WorkerSteps(i)
    BY <2>1, <2>2, WorkerAges, DueStays DEF IInv, uiVars
  <2>3. ASSUME NEW b \in Accounts, AddAccount(b) \/ UpdateAccount(b) \/ DeleteAccount(b)
        PROVE  ShownIsDue'
    BY <2>1, <2>3, SourcePosts, DuePosted
  <2>4. CASE CommandSteps
    BY <2>1, <2>4, DueWorked
  <2>5. CASE Quit \/ MainSteps
    <3>1. UNCHANGED <<queue, shown, astray, table, cmd>>
      BY <2>5 DEF Quit, MainSteps, StartAccount, DrainTask, Started, LockTasks, JoinDrained, Exit, storeVars, uiVars
    <3>2. QED
      BY <2>1, <3>1, DueStays
  <2>6. CASE UNCHANGED vars
    BY <2>1, <2>6, DueStays DEF vars, storeVars, uiVars
  <2>7. QED
    BY <2>1, <2>2, <2>3, <2>4, <2>5, <2>6 DEF Next
<1>3. IInv /\ ShownIsDue => AccountsAgree
  <2>1. SUFFICES ASSUME IInv, ShownIsDue, queue = <<>>, cmd.step = "recv", NEW a \in Accounts \ astray
                 PROVE  shown[a] = table[a]
    BY DEF AccountsAgree
  <2>2. NoneOf(a)
    BY <2>1 DEF NoneOf
  <2>3. QED
    BY <2>1, <2>2 DEF ShownIsDue
<1>4. QED
  BY <1>1, <1>2, <1>3, LifecycleInvariant, PTL DEF Spec
=============================================================================
