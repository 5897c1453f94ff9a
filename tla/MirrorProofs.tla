----------------------------- MODULE MirrorProofs -----------------------------
(***************************************************************************)
(* The sync engine implements FolderMirror as long as the server never       *)
(* renumbers a mailbox.  The mapping is that of MailSync's instance Mirror;   *)
(* the inductive invariant supplies what each abstract guard asks for.       *)
(***************************************************************************)
EXTENDS MailSync_proofs

\* The server keeps the UIDVALIDITY it started with.
AllStable == \A f \in Folders : Stable(f)

Hidden == UNCHANGED <<server, rows, folders>>

\* A step that leaves server, rows and cursors alone is a stutter of the mirror.
LEMMA Stutter == Hidden => UNCHANGED Mirror!vars
BY DEF Hidden, Mirror!vars, Stored

\* An empty account maps to an empty mirror.
LEMMA InitMirror == Init => Mirror!Init
<1> SUFFICES ASSUME Init PROVE Mirror!Init
  OBVIOUS
<1>1. \A f \in Mirrored : f \in Folders
  BY DEF Mirrored
<1>2. \A f \in Mirrored : /\ Live(server[f]) = {} /\ server[f].uid_next = 1
                         /\ Stored(rows, f) = {} /\ folders[f].uid_next = 0
  BY <1>1 DEF Init, EmptyMailbox, Live, Stored, NewFolderRow
<1>3. QED
  BY <1>2 DEF Mirror!Init

\* What the server does to a mailbox that it does not renumber.
ServesOne(f) ==
  \/ server'[f].uid_next = server[f].uid_next /\ Live(server'[f]) \subseteq Live(server[f])
  \/ /\ server'[f].uid_next = server[f].uid_next + 1 /\ server[f].uid_next \in UIDs
     /\ Live(server'[f]) \subseteq Live(server[f]) \cup {server[f].uid_next}

\* Every command the backend issues changes one mailbox in one of these ways.
LEMMA ServesOperations ==
  ASSUME TypeOK, NEW f \in Folders
  PROVE  /\ server'[f] = server[f] => ServesOne(f) /\ (Stable(f) => Stable(f)')
         /\ \A S : server'[f] = Remove(server[f], S) => ServesOne(f) /\ (Stable(f) => Stable(f)')
         /\ \A u \in UIDs, seen \in BOOLEAN :
              server'[f] = SetFlags(server[f], u, seen) => ServesOne(f) /\ (Stable(f) => Stable(f)')
         /\ \A m \in Mail :
              HasRoom(server[f]) /\ server'[f] = AppendMail(server[f], m) => ServesOne(f) /\ (Stable(f) => Stable(f)')
<1>0. server[f] \in Mailbox
  BY DEF TypeOK
<1>1. ASSUME server'[f] = server[f] PROVE ServesOne(f) /\ (Stable(f) => Stable(f)')
  BY <1>1 DEF ServesOne, Stable
<1>2. ASSUME NEW S, server'[f] = Remove(server[f], S) PROVE ServesOne(f) /\ (Stable(f) => Stable(f)')
  BY <1>0, <1>2, RemoveType DEF ServesOne, Stable
<1>3. ASSUME NEW u \in UIDs, NEW seen \in BOOLEAN, server'[f] = SetFlags(server[f], u, seen)
      PROVE  ServesOne(f) /\ (Stable(f) => Stable(f)')
  BY <1>0, <1>3, SetFlagsType DEF ServesOne, Stable
<1>4. ASSUME NEW m \in Mail, HasRoom(server[f]), server'[f] = AppendMail(server[f], m)
      PROVE  ServesOne(f) /\ (Stable(f) => Stable(f)')
  BY <1>0, <1>4, AppendMailType DEF ServesOne, Stable
<1>5. QED
  BY <1>1, <1>2, <1>3, <1>4

\* A change of the mailboxes alone is an abstract ServerChanges.
LEMMA ServerChangesStep ==
  ASSUME TypeOK, TypeOK', UNCHANGED <<rows, folders>>, \A f \in Folders : ServesOne(f)
  PROVE  Mirror!ServerChanges
<1> DEFINE arrivals == {f \in Mirrored : server'[f].uid_next = server[f].uid_next + 1}
<1>1. \A f \in Mirrored : f \in Folders
  BY DEF Mirrored
<1>2. \A f \in Folders : server[f].uid_next \in Nat /\ server'[f].uid_next \in Nat
  BY Numbers DEF TypeOK
<1>3. \A f \in Mirrored :
        /\ server'[f].uid_next = IF f \in arrivals THEN server[f].uid_next + 1 ELSE server[f].uid_next
        /\ f \in arrivals => server[f].uid_next \in UIDs
        /\ Live(server'[f]) \subseteq Live(server[f]) \cup (IF f \in arrivals THEN {server[f].uid_next} ELSE {})
  BY <1>1, <1>2 DEF ServesOne
<1>4. Mirrored' = Mirrored
  BY DEF Mirrored
<1>5. \A f \in Mirrored : Live(server'[f]) \subseteq UIDs
  BY LiveUIDs
<1>6. arrivals \in SUBSET Mirrored
  OBVIOUS
<1> HIDE DEF arrivals
<1>7. QED
  BY <1>3, <1>5, <1>6 DEF Mirror!ServerChanges, Stored

\* upsert_envelope of a uid that was handed out is an abstract Mirror.
LEMMA UpsertStep ==
  ASSUME TypeOK, UNCHANGED <<server, folders>>, NEW f \in Folders, NEW u \in UIDs, NEW h \in Row,
         u < server[f].uid_next, rows' = UpsertEnvelope(rows, f, u, h)
  PROVE  [Mirror!Next]_(Mirror!vars)
<1>1. \A g \in Mirrored : Stored(rows', g) = IF g = f THEN Stored(rows, f) \cup {u} ELSE Stored(rows, g)
  <2>1. /\ rows'[f][u] # NoRow
        /\ \A g \in Folders, v \in UIDs : <<g, v>> # <<f, u>> => rows'[g][v] = rows[g][v]
    BY UpsertEnvelopeType DEF TypeOK
  <2>2. \A g \in Folders \ {f}, v \in UIDs : rows'[g][v] = rows[g][v]
    BY <2>1
  <2>3. \A v \in UIDs \ {u} : rows'[f][v] = rows[f][v]
    BY <2>1
  <2>4. QED
    BY <2>1, <2>2, <2>3 DEF Stored, Mirrored
<1>2. CASE f \in Mirrored
  <2>1. Mirror!Mirror(f, u)
    BY <1>1, <1>2 DEF Mirror!Mirror
  <2>2. QED
    BY <1>2, <2>1 DEF Mirror!Next
<1>3. CASE f \notin Mirrored
  BY <1>1, <1>3 DEF Mirror!vars
<1>4. QED
  BY <1>2, <1>3

\* set_body neither adds nor removes a row: a stutter.
LEMMA BodyStep ==
  ASSUME TypeOK, UNCHANGED <<server, folders>>, NEW id, NEW body \in Msgs \cup {NoMsg},
         rows' = SetBody(rows, id, body)
  PROVE  UNCHANGED Mirror!vars
<1>1. \A f \in Folders, u \in UIDs : rows'[f][u] = NoRow <=> rows[f][u] = NoRow
  <2>1. rows \in Table
    BY DEF TypeOK
  <2>2. QED
    BY <2>1, SetBodyType
<1>2. \A f \in Mirrored : Stored(rows', f) = Stored(rows, f)
  BY <1>1 DEF Stored, Mirrored
<1>3. QED
  BY <1>2 DEF Mirror!vars

\* delete_by_uid of a uid gone from the server is an abstract Forget.
LEMMA ForgetsStep ==
  ASSUME TypeOK, UNCHANGED <<server, folders>>, NEW f \in Folders, NEW u \in UIDs,
         u \notin Live(server[f]), rows' = DeleteByUid(rows, f, u)
  PROVE  [Mirror!Next]_(Mirror!vars)
<1>1. \A g \in Mirrored : Stored(rows', g) = IF g = f THEN Stored(rows, f) \ {u} ELSE Stored(rows, g)
  BY DEF DeleteByUid, Stored, Mirrored, TypeOK, Table
<1>2. CASE f \in Mirrored
  <2>1. Mirror!Forget(f, u)
    BY <1>1, <1>2 DEF Mirror!Forget
  <2>2. QED
    BY <1>2, <2>1 DEF Mirror!Next
<1>3. CASE f \notin Mirrored
  BY <1>1, <1>3 DEF Mirror!vars
<1>4. QED
  BY <1>2, <1>3

\* empty_trash clears rows the promise does not cover.
LEMMA ClearStep ==
  ASSUME TypeOK, UNCHANGED <<server, folders>>, rows' = DeleteByFolder(rows, Trash)
  PROVE  UNCHANGED Mirror!vars
<1>1. \A f \in Mirrored : Stored(rows', f) = Stored(rows, f)
  BY DEF DeleteByFolder, Stored, Mirrored, TypeOK, Table
<1>2. QED
  BY <1>1 DEF Mirror!vars

\* A folder row written with a cursor that is covered is an abstract SetCursor.
LEMMA CursorMoves ==
  ASSUME TypeOK, UNCHANGED <<server, rows>>, NEW f \in Folders, NEW row \in FolderRow,
         f \in Mirrored => Covered(f, row.uid_next), folders' = UpsertFolder(folders, f, row)
  PROVE  [Mirror!Next]_(Mirror!vars)
<1>1. \A g \in Folders : folders'[g] = IF g = f THEN row ELSE folders[g]
  BY DEF UpsertFolder, TypeOK
<1>2. \A g \in Mirrored : g \in Folders
  BY DEF Mirrored
<1>3. CASE f \in Mirrored
  <2>1. row.uid_next \in 0 .. server[f].uid_next
    BY <1>3, Numbers DEF Covered, TypeOK
  <2>2. Mirror!Missing(f, row.uid_next) = {}
    BY <1>3, LiveUIDs DEF Covered, Mirror!Missing, Stored
  <2>3. Mirror!SetCursor(f, row.uid_next)
    BY <1>1, <1>2, <1>3, <2>2 DEF Mirror!SetCursor, Covered, Stored
  <2>4. QED
    BY <1>3, <2>1, <2>3 DEF Mirror!Next
<1>4. CASE f \notin Mirrored
  BY <1>1, <1>2, <1>4 DEF Mirror!vars, Stored
<1>5. QED
  BY <1>3, <1>4

\* Every step of the server is one of the abstract server's.
LEMMA ServerRefines ==
  ASSUME MaxValidity = 1, IInv, AllStable, TypeOK', Environment \/ \E c \in Clients : CommandSteps(c),
         UNCHANGED <<rows, folders>>
  PROVE  Mirror!ServerChanges /\ AllStable'
<1>0. TypeOK
  BY DEF IInv, TypeInv
<1> SUFFICES ASSUME NEW g \in Folders PROVE ServesOne(g) /\ (Stable(g) => Stable(g)')
  BY <1>0, ServerChangesStep DEF AllStable
<1>1. CASE server' = server
  BY <1>0, <1>1, ServesOperations
<1>2. ASSUME NEW f \in Folders, NEW m \in Msgs, Deliver(f, m) PROVE ServesOne(g) /\ (Stable(g) => Stable(g)')
  <2>1. [msg |-> m, seen |-> FALSE] \in Mail
    BY DEF Mail
  <2>2. \/ server'[g] = server[g]
        \/ HasRoom(server[g]) /\ server'[g] = AppendMail(server[g], [msg |-> m, seen |-> FALSE])
    BY <1>0, <1>2 DEF Deliver, TypeOK
  <2>3. QED
    BY <1>0, <2>1, <2>2, ServesOperations
<1>3. ASSUME NEW f \in Folders, NEW S, server' = [server EXCEPT ![f] = Remove(@, S)]
      PROVE  ServesOne(g) /\ (Stable(g) => Stable(g)')
  <2>1. server'[g] \in {server[g], Remove(server[g], S)}
    BY <1>0, <1>3 DEF TypeOK
  <2>2. QED
    BY <1>0, <2>1, ServesOperations
<1>4. ASSUME NEW f \in Folders, NEW u \in UIDs, NEW seen \in BOOLEAN, server' = [server EXCEPT ![f] = SetFlags(@, u, seen)]
      PROVE  ServesOne(g) /\ (Stable(g) => Stable(g)')
  <2>1. server'[g] \in {server[g], SetFlags(server[g], u, seen)}
    BY <1>0, <1>4 DEF TypeOK
  <2>2. QED
    BY <1>0, <2>1, ServesOperations
<1>5. CASE Environment
  <2>1. ASSUME NEW f \in Folders, NEW u \in UIDs, OtherClientExpunges(f, u) PROVE ServesOne(g) /\ (Stable(g) => Stable(g)')
    BY <1>3, <2>1 DEF OtherClientExpunges
  <2>2. ASSUME NEW f \in Folders, NEW u \in UIDs, OtherClientFlags(f, u) PROVE ServesOne(g) /\ (Stable(g) => Stable(g)')
    <3>1. (~server[f].mail[u].seen) \in BOOLEAN
      OBVIOUS
    <3>2. QED
      BY <1>4, <2>2, <3>1 DEF OtherClientFlags
  <2>3. \A f \in Folders : ~ServerRenumbers(f)
    BY DEF AllStable, Stable, ServerRenumbers
  <2>4. QED
    BY <1>2, <1>5, <2>1, <2>2, <2>3 DEF Environment
<1>6. ASSUME NEW c \in Clients, CommandSteps(c) PROVE ServesOne(g) /\ (Stable(g) => Stable(g)')
  <2> DEFINE f == job[c].folder  u == job[c].uid  h == job[c].held
  <2>0. f \in Folders /\ HoldsMessage(c)
    BY <1>0, JobFields DEF IInv, TypeInv, TypeOK, Procs
  <2>1. CASE DeleteUidStep(c)
    BY <1>3, <2>0, <2>1 DEF DeleteUidStep
  <2>2. CASE StoreFlagStep(c)
    <3>1. u \in UIDs /\ h.seen \in BOOLEAN
      BY <2>0, <2>2, RowTypes DEF StoreFlagStep, HoldsMessage, MessagePC
    <3>2. QED
      BY <1>4, <2>0, <2>2, <3>1 DEF StoreFlagStep
  <2>3. CASE ExpungeTrashStep(c)
    BY <1>3, <2>3, SyncAssumption DEF ExpungeTrashStep
  <2>4. CASE MoveUidStep(c)
    <3>1. PICK dst \in Folders \ {f} : HasRoom(server[dst]) /\ server' = MoveUid(server, f, u, dst)
      BY <2>4 DEF MoveUidStep
    <3>2. CASE u \in Live(server[f])
      <4>1. server[f].mail[u] \in Mail
        BY <1>0, <2>0, <3>2 DEF Live, Mailbox, TypeOK
      <4>2. \/ server'[g] = server[g]
            \/ server'[g] = Remove(server[g], {u})
            \/ HasRoom(server[g]) /\ server'[g] = AppendMail(server[g], server[f].mail[u])
        BY <1>0, <2>0, <3>1, <3>2 DEF MoveUid, TypeOK
      <4>3. QED
        BY <1>0, <4>1, <4>2, ServesOperations
    <3>3. QED
      BY <1>1, <3>1, <3>2 DEF MoveUid
  <2>5. CASE UNCHANGED serverVars
    BY <1>1, <2>5 DEF serverVars
  <2>6. QED
    BY <1>6, <2>1, <2>2, <2>3, <2>4, <2>5
       DEF CommandSteps, FolderSync, SelectFolderStep, PlanFetch, FetchStep, LookupRow, UpsertRow, FinishSync,
           MarkScanned, FetchBodyStep, BodyMissing, SetBodyStep, UpsertFlagStep, ForgetStep, ClearTrashStep
<1>7. QED
  BY <1>5, <1>6

\* Every step of a folder sync keeps the promise.
LEMMA StoreRefines ==
  ASSUME IInv, AllStable, TypeOK', NEW p \in Procs, FolderSync(p)
  PROVE  [Mirror!Next]_(Mirror!vars)
<1> DEFINE f == job[p].folder  u == job[p].uid  h == job[p].held
<1>0. /\ TypeOK /\ f \in Folders /\ Stable(f) /\ HoldsMessage(p) /\ JobSound(p) /\ JobCovered(p)
      /\ job[p].state \in FolderRow
  BY JobFields DEF IInv, TypeInv, TypeOK, AllStable
<1>1. CASE UpsertRow(p)
  <2>1. u \in UIDs /\ h \in Row /\ u < server[f].uid_next
    BY <1>0, <1>1 DEF UpsertRow, HoldsMessage, JobSound, MessagePC
  <2>2. UNCHANGED <<server, folders>> /\ rows' = UpsertEnvelope(rows, f, u, h)
    BY <1>1 DEF UpsertRow, serverVars
  <2>3. QED
    BY <1>0, <2>1, <2>2, UpsertStep
<1>2. CASE FinishSync(p)
  <2>1. f \in Mirrored => Covered(f, job[p].state.uid_next)
    BY <1>0, <1>2 DEF JobCovered, Covered, FinishSync
  <2>2. UNCHANGED <<server, rows>> /\ folders' = UpsertFolder(folders, f, job[p].state)
    BY <1>2 DEF FinishSync, serverVars
  <2>3. QED
    BY <1>0, <2>1, <2>2, CursorMoves
<1>3. CASE Hidden
  BY <1>3, Stutter
<1>4. QED
  BY <1>1, <1>2, <1>3
     DEF FolderSync, SelectFolderStep, PlanFetch, FetchStep, LookupRow, MarkScanned, Hidden, serverVars, storeVars

\* Every step of the engine is a step of the mirror or a stutter.
LEMMA MirrorStep ==
  ASSUME MaxValidity = 1, IInv, AllStable, [Next]_vars
  PROVE  [Mirror!Next]_(Mirror!vars) /\ AllStable'
<1>0. /\ TypeOK /\ TypeOK' /\ Workers \subseteq Procs /\ Clients \subseteq Procs
      /\ UNCHANGED server => AllStable'
  BY TypeStep DEF IInv, TypeInv, Procs, AllStable, Stable
<1>1. CASE Hidden
  BY <1>0, <1>1, Stutter DEF Hidden
<1>2. CASE Environment
  <2>1. UNCHANGED <<rows, folders>>
    BY <1>2 DEF Environment, Deliver, OtherClientExpunges, OtherClientFlags, ServerRenumbers, storeVars
  <2>2. QED
    BY <1>0, <1>2, <2>1, ServerRefines DEF Mirror!Next
<1>3. ASSUME NEW p \in Procs, FolderSync(p) PROVE [Mirror!Next]_(Mirror!vars) /\ AllStable'
  <2>1. UNCHANGED server
    BY <1>3 DEF FolderSync, SelectFolderStep, PlanFetch, FetchStep, LookupRow, UpsertRow, FinishSync,
                MarkScanned, serverVars
  <2>2. QED
    BY <1>0, <1>3, <2>1, StoreRefines
<1>4. ASSUME NEW w \in Workers, UpsertListed(w) PROVE [Mirror!Next]_(Mirror!vars) /\ AllStable'
  <2>1. PICK f \in Folders : folders' = UpsertFolder(folders, f, listing[w][f])
    BY <1>0, <1>4 DEF UpsertListed, TypeOK
  <2>2. listing[w][f] \in FolderRow /\ (f \in Mirrored => Covered(f, listing[w][f].uid_next))
    <3>1. pc[w] = "upsert folders"
      BY <1>4 DEF UpsertListed
    <3>2. ListCovered(w)
      BY <1>0 DEF IInv
    <3>3. QED
      BY <1>0, <2>1, <3>1, <3>2 DEF ListCovered, AllStable, TypeOK, Mirrored
  <2>3. UNCHANGED <<server, rows>>
    BY <1>4 DEF UpsertListed, serverVars
  <2>4. QED
    BY <1>0, <2>1, <2>2, <2>3, CursorMoves
<1>5. ASSUME NEW c \in Clients, CommandSteps(c) PROVE [Mirror!Next]_(Mirror!vars) /\ AllStable'
  <2> DEFINE f == job[c].folder  u == job[c].uid  h == job[c].held
  <2>0. /\ f \in Folders /\ Stable(f) /\ HoldsMessage(c) /\ JobSound(c)
    BY <1>0, JobFields DEF IInv, TypeInv, TypeOK, AllStable
  <2>1. CASE FolderSync(c)
    BY <1>0, <1>3, <2>1
  <2>2. CASE UNCHANGED <<rows, folders>>
    BY <1>0, <1>5, <2>2, ServerRefines DEF Mirror!Next
  <2>3. CASE SetBodyStep(c)
    <3>1. h.body \in Msgs \cup {NoMsg}
      BY <2>0, <2>3, RowTypes DEF SetBodyStep, HoldsMessage, MessagePC
    <3>2. UNCHANGED <<server, folders>> /\ rows' = SetBody(rows, h.id, h.body)
      BY <2>3 DEF SetBodyStep, serverVars
    <3>3. QED
      BY <1>0, <3>1, <3>2, BodyStep
  <2>4. CASE UpsertFlagStep(c)
    <3>1. u \in UIDs /\ h \in Row /\ u < server[f].uid_next
      BY <2>0, <2>4 DEF UpsertFlagStep, HoldsMessage, JobSound, MessagePC
    <3>2. UNCHANGED <<server, folders>> /\ rows' = UpsertEnvelope(rows, f, u, h)
      BY <2>4 DEF UpsertFlagStep, serverVars
    <3>3. QED
      BY <1>0, <2>0, <3>1, <3>2, UpsertStep
  <2>5. CASE ForgetStep(c)
    <3>1. u \in UIDs /\ u \notin Live(server[f])
      BY <2>0, <2>5 DEF ForgetStep, HoldsMessage, JobSound, MessagePC
    <3>2. UNCHANGED <<server, folders>> /\ rows' = DeleteByUid(rows, f, u)
      BY <2>5 DEF ForgetStep, serverVars
    <3>3. QED
      BY <1>0, <2>0, <3>1, <3>2, ForgetsStep
  <2>6. CASE ClearTrashStep(c)
    <3>1. UNCHANGED <<server, folders>> /\ rows' = DeleteByFolder(rows, Trash)
      BY <2>6 DEF ClearTrashStep, serverVars
    <3>2. QED
      BY <1>0, <3>1, ClearStep
  <2>7. QED
    BY <1>5, <2>1, <2>2, <2>3, <2>4, <2>5, <2>6
       DEF CommandSteps, FetchBodyStep, BodyMissing, DeleteUidStep, StoreFlagStep, MoveUidStep, ExpungeTrashStep, storeVars
<1>6. ASSUME NEW w \in Workers, WorkerSteps(w) \/ FolderFails(w) \/ ConnectionFails(w)
      PROVE  [Mirror!Next]_(Mirror!vars) /\ AllStable'
  <2>1. FolderSync(w) \/ UpsertListed(w) \/ Hidden
    BY <1>6 DEF WorkerSteps, Connect, ListFolders, ListExisting, NextFolder, EnterIdle, IdleEvent,
                FolderFails, ConnectionFails, Hidden, serverVars, storeVars
  <2>2. QED
    BY <1>0, <1>1, <1>3, <1>4, <2>1
<1>7. ASSUME NEW c \in Clients, StartCommand(c) \/ CommandFails(c) PROVE Hidden
  BY <1>7 DEF StartCommand, CommandFails, SyncCommand, FetchBodyCommand, SetFlagCommand, MoveCommand,
              MessageCommand, EmptyTrashCommand, Hidden, serverVars, storeVars
<1>8. CASE UNCHANGED vars
  BY <1>1, <1>8 DEF vars, Hidden, serverVars, storeVars
<1>9. QED
  BY <1>1, <1>2, <1>5, <1>6, <1>7, <1>8 DEF Next

\* While the server keeps its UIDVALIDITY, everything the worker and the
\* engine's commands do to uids and cursors, in any interleaving and with any
\* failures, is a behaviour of the folder mirror.
THEOREM SyncImplementsMirror ==
  ASSUME MaxValidity = 1
  PROVE  Spec => MirrorSpec
<1>1. Init => AllStable
  <2>1. EmptyMailbox.uid_validity = 1
    BY DEF EmptyMailbox
  <2>2. QED
    BY <2>1 DEF Init, AllStable, Stable
<1>2. IInv /\ AllStable /\ [Next]_vars => [Mirror!Next]_(Mirror!vars) /\ AllStable'
  BY MirrorStep
<1>3. QED
  BY <1>1, <1>2, InitMirror, InitIInv, IInvStep, PTL DEF Spec, MirrorSpec, Mirror!Spec

-----------------------------------------------------------------------------
(* A sync that ends well has caught up.                                      *)

\* Only the end of a sync and the listing of a worker write a cursor.
LEMMA CursorWrites ==
  ASSUME Next, folders' # folders
  PROVE  \/ \E p \in Procs : FinishSync(p)
         \/ \E w \in Workers : UpsertListed(w)
<1>0. Workers \subseteq Procs /\ Clients \subseteq Procs
  BY DEF Procs
<1>1. ASSUME NEW p, FolderSync(p), ~ FinishSync(p) PROVE folders' = folders
  <2>1. CASE SelectFolderStep(p) \/ PlanFetch(p) \/ FetchStep(p)
    BY <2>1, Zenon DEF SelectFolderStep, PlanFetch, FetchStep, storeVars
  <2>2. CASE LookupRow(p) \/ UpsertRow(p) \/ MarkScanned(p)
    BY <2>2, Zenon DEF LookupRow, UpsertRow, MarkScanned
  <2>3. QED
    BY <1>1, <2>1, <2>2, Zenon DEF FolderSync
<1>2. CASE Environment
  BY <1>2, Zenon DEF Environment, Deliver, OtherClientExpunges, OtherClientFlags, ServerRenumbers, storeVars
<1>3. ASSUME NEW w \in Workers, WorkerSteps(w) \/ FolderFails(w) \/ ConnectionFails(w),
             ~ UpsertListed(w), ~ FinishSync(w)
      PROVE  folders' = folders
  <2>1. CASE FolderSync(w)
    BY <1>1, <1>3, <2>1, Zenon
  <2>2. CASE ~ FolderSync(w)
    BY <1>3, <2>2, Zenon DEF WorkerSteps, Connect, ListFolders, ListExisting, NextFolder, EnterIdle, IdleEvent,
                             FolderFails, ConnectionFails, storeVars
  <2>3. QED
    BY <2>1, <2>2
<1>4. ASSUME NEW c \in Clients, StartCommand(c) \/ CommandSteps(c) \/ CommandFails(c), ~ FinishSync(c)
      PROVE  folders' = folders
  <2>1. CASE StartCommand(c) \/ CommandFails(c)
    BY <2>1, Zenon DEF StartCommand, SyncCommand, FetchBodyCommand, SetFlagCommand, MoveCommand, MessageCommand,
                       EmptyTrashCommand, CommandFails, storeVars
  <2>2. CASE FolderSync(c)
    BY <1>1, <1>4, <2>2, Zenon
  <2>3. CASE CommandSteps(c) /\ ~ FolderSync(c)
    BY <2>3, Zenon DEF CommandSteps, FetchBodyStep, BodyMissing, SetBodyStep, DeleteUidStep, StoreFlagStep,
                       UpsertFlagStep, MoveUidStep, ForgetStep, ExpungeTrashStep, ClearTrashStep, storeVars
  <2>4. QED
    BY <1>4, <2>1, <2>2, <2>3
<1>5. QED
  BY <1>0, <1>2, <1>3, <1>4, Zenon DEF Next

\* So a sync that has found nothing new leaves the cursors alone.
LEMMA NothingNewWritesNothing ==
  ASSUME TypeInv, [Next]_vars, NEW p \in Procs, pc[p] = "plan", pc'[p] = "next"
  PROVE  folders' = folders
<1>0. pc \in [Procs -> WorkerPC \cup ClientPC] /\ Workers \subseteq Procs
  BY DEF TypeInv, TypeOK, Procs
<1>1. CASE UNCHANGED vars
  BY <1>1, Zenon DEF vars, storeVars
<1>2. ASSUME NEW q \in Procs, FinishSync(q) PROVE FALSE
  <2>1. pc[q] = "lookup" /\ \E step : Goto(q, step)
    BY <1>2, Zenon DEF FinishSync, Leave
  <2>2. p # q
    BY <2>1
  <2>3. pc'[p] = pc[p]
    BY <1>0, <2>1, <2>2 DEF Goto
  <2>4. QED
    BY <2>3
<1>3. ASSUME NEW w \in Workers, UpsertListed(w) PROVE FALSE
  <2>1. pc[w] = "upsert folders" /\ (pc' = pc \/ \E step : Goto(w, step))
    BY <1>3, Zenon DEF UpsertListed
  <2>2. p # w
    BY <2>1, Zenon
  <2>3. pc'[p] = pc[p]
    BY <1>0, <2>1, <2>2, Zenon DEF Goto
  <2>4. QED
    BY <2>3
<1>4. QED
  BY <1>1, <1>2, <1>3, CursorWrites

\* Whatever ends well - the worker that finds nothing new, or either of them
\* that has written what it fetched - leaves below the cursor, which it may
\* have moved, no message on the server without a row of its own.
THEOREM SyncsCatchUp ==
  ASSUME MaxValidity = 1
  PROVE  Spec => SyncCatchesUp
<1>1. Init => AllStable
  <2>1. EmptyMailbox.uid_validity = 1
    BY DEF EmptyMailbox
  <2>2. QED
    BY <2>1 DEF Init, AllStable, Stable
<1>2. IInv /\ AllStable /\ [Next]_vars => AllStable'
  BY MirrorStep
<1>3. IInv /\ AllStable /\ [Next]_vars =>
        \A p \in Procs :
          LET f == job[p].folder IN
          EndsSync(p) /\ f # Trash /\ job[p].state.uid_validity = server[f].uid_validity
            => \A u \in Live(server[f]) : u < folders'[f].uid_next =>
                 rows[f][u] # NoRow /\ rows[f][u].msg = server[f].mail[u].msg
  <2> SUFFICES ASSUME IInv, AllStable, [Next]_vars, NEW p \in Procs, EndsSync(p), job[p].folder # Trash,
                      NEW u \in Live(server[job[p].folder]), u < folders'[job[p].folder].uid_next
               PROVE  /\ rows[job[p].folder][u] # NoRow
                      /\ rows[job[p].folder][u].msg = server[job[p].folder].mail[u].msg
    OBVIOUS
  <2> DEFINE f == job[p].folder
  <2>1. TypeInv /\ f \in Folders /\ f \in Mirrored /\ Stable(f) /\ u \in UIDs
    BY JobFields, LiveUIDs DEF IInv, TypeInv, TypeOK, Mirrored, AllStable
  <2>2. rows[f][u] # NoRow
    <3>1. CASE pc[p] = "plan" /\ pc'[p] = "next"
      <4>1. folders' = folders
        BY <2>1, <3>1, NothingNewWritesNothing
      <4>2. Covered(f, folders[f].uid_next)
        BY <2>1 DEF IInv, FolderCovered
      <4>3. QED
        BY <4>1, <4>2 DEF Covered
    <3>2. CASE pc[p] = "lookup" /\ job[p].envs = {} /\ folders'[f] = job[p].state
      <4>1. JobCovered(p)
        BY DEF IInv
      <4>2. QED
        BY <2>1, <3>2, <4>1 DEF JobCovered
    <3>3. QED
      BY <3>1, <3>2 DEF EndsSync
  <2>3. rows[f][u].msg = assigned[f][u] /\ server[f].mail[u].msg = assigned[f][u]
    BY <2>1, <2>2 DEF IInv, FolderSound, IsMessageAt
  <2>4. QED
    BY <2>2, <2>3
<1>4. QED
  BY <1>1, <1>2, <1>3, InitIInv, IInvStep, PTL DEF Spec, SyncCatchesUp
=============================================================================
