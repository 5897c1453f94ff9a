--------------------------- MODULE Pop3Mail_proofs ---------------------------
(***************************************************************************)
(* Proofs about Pop3Mail: the types, that a body is shown under the headers *)
(* of its own message, and that no message the cursor has passed is lost.   *)
(***************************************************************************)
EXTENDS Pop3Mail, SequenceTheorems, TLAPS

-----------------------------------------------------------------------------
(* The inductive invariant.                                                  *)
(*                                                                           *)
(* What a task holds across its awaits fits the step it is at.               *)

MessagePC == {"retr", "set body", "delete", "set flag", "retr moved"} \cup FilePC

Steps == SyncPC \cup MessagePC \cup {"off", "list", "upsert list", "idle", "ready"}

JobFits(p) ==
  /\ pc[p] \in {"lookup", "upsert"} => job[p].todo \subseteq DOMAIN sessions[p]
  /\ pc[p] = "upsert" => job[p].uid \in DOMAIN sessions[p]
  /\ pc[p] \in MessagePC => job[p].held \in Row
  /\ pc[p] \in MessagePC \ FilePC => job[p].uid \in UIDs
  /\ pc[p] = "set body" => job[p].held.body \in Msgs

Fits ==
  /\ Len(drop) <= MaxUid /\ \A p \in Procs : Len(sessions[p]) <= MaxUid
  /\ \A p \in Procs : pc[p] \in Steps
  /\ pc = [p \in Procs |-> pc[p]]
  /\ \A p \in Procs : JobFits(p)

TypeInv == TypeOK /\ Fits

\* A message id has one place: rows with it are there, and what a task holds
\* with it was read there.
HoldPC == {"upsert", "retr", "set body", "set flag", "retr moved"} \cup FilePC

Holds(p) == pc[p] \in HoldPC /\ job[p].uid \in UIDs /\ job[p].held # NoRow

HeldAt(p, i, f, u) == Holds(p) /\ job[p].held.id = i /\ job[p].folder = f /\ job[p].uid = u

Lives(i, f, u) ==
  \/ rows[f][u] # NoRow /\ rows[f][u].id = i
  \/ \E p \in Procs : HeldAt(p, i, f, u)

Homes ==
  \A i \in Ids, f \in Folders, u \in UIDs : Lives(i, f, u) =>
    /\ i \in minted
    /\ \A g \in Folders, v \in UIDs : Lives(i, g, v) => f = g /\ u = v

\* As long as nothing is removed, a number means in every session what it means
\* in the maildrop.
NumbersStay == Spared({"removed"}) => \A p \in Procs : Continues(sessions[p])

\* As long as nothing is filed into the Inbox either, its rows and what is held
\* of them are about the messages with these numbers.
Numbered(r, n) == n \in DOMAIN drop /\ r.msg = drop[n] /\ Sound(r)

InboxFits ==
  Spared({"removed", "to inbox"}) =>
    /\ \A u \in UIDs : rows[Inbox][u] # NoRow => Numbered(rows[Inbox][u], u)
    /\ \A p \in Procs : Holds(p) /\ job[p].folder = Inbox => Numbered(job[p].held, job[p].uid)
    /\ \A p \in Procs : pc[p] = "set body" => job[p].uid \in DOMAIN drop /\ job[p].held.body = drop[job[p].uid]

\* As long as no local folder is synced, only the Inbox is; and a row filed into
\* the Inbox is on record.
Quiet == Spared({"removed", "to inbox", "local synced", "occupied"})

SyncsInbox ==
  Quiet => \A p \in Procs :
    /\ pc[p] \in SyncPC \cup {"upsert list"} => job[p].folder = Inbox
    /\ pc[p] \in {"forget", "advance"} => job[p].dest # Inbox

\* So an id of the local folders is about one message.
Means(i, m) ==
  \/ \E f \in Local, u \in UIDs : rows[f][u] # NoRow /\ rows[f][u].id = i /\ rows[f][u].msg = m
  \/ \E p \in Procs : Holds(p) /\ job[p].folder \in Local /\ job[p].held.id = i /\ job[p].held.msg = m

IdsAgree == Quiet => \A i \in Ids, m, n \in Msgs : Means(i, m) /\ Means(i, n) => m = n

\* A row of a local folder has its body, and so has what is held of it: a body is
\* only got for the Inbox.  What is filed may still be without.
Whole(r) == r.body = r.msg

LocalFits ==
  causes = {} =>
    /\ \A f \in Local, u \in UIDs : rows[f][u] # NoRow => Whole(rows[f][u])
    /\ \A p \in Procs :
         /\ pc[p] \in {"set body", "retr moved"} => job[p].folder = Inbox
         /\ pc[p] = "set flag" /\ job[p].folder \in Local => Whole(job[p].held)
         /\ pc[p] \in {"destination", "file"} => Sound(job[p].held)

BodiesInv == TypeInv /\ Homes /\ NumbersStay /\ InboxFits /\ SyncsInbox /\ IdsAgree /\ LocalFits

-----------------------------------------------------------------------------
(* For NothingLost. *)

\* A row that a move is about to remove.
Leaving(f, u) ==
  \E c \in Procs : /\ pc[c] = "forget" /\ job[c].folder = f /\ job[c].uid = u
                   /\ f = Inbox \/ rows[f][u].id = job[c].held.id

\* A message that no move is about to take from the store ...
Stays(m) ==
  \/ m \in emptied
  \/ \E f \in Folders, u \in UIDs : rows[f][u] # NoRow /\ rows[f][u].msg = m /\ ~ Leaving(f, u)

\* ... such as one whose copy has just been filed.
Copied == Quiet => \A p \in Procs : pc[p] = "forget" /\ job[p].uid \in UIDs => Stays(job[p].held.msg)

Kept(m) == InSomeFolder(m) \/ m \in emptied

\* What a cursor has passed is kept, and a sync that ends has written all it will pass.
Passed(n) == n <= Len(drop) + 1 /\ \A k \in DOMAIN drop : k < n => Kept(drop[k])

ListsAll(p) ==
  /\ pc[p] \in {"upsert list", "stat", "fetch"} => Passed(job[p].cursor)
  /\ pc[p] \in {"fetch", "lookup", "upsert", "mark"} => job[p].next <= Len(sessions[p]) + 1
  /\ pc[p] \in {"lookup", "upsert", "mark"} =>
       \A k \in DOMAIN drop : k < job[p].next =>
         \/ Kept(drop[k])
         \/ pc[p] # "mark" /\ k \in job[p].todo
         \/ pc[p] = "upsert" /\ k = job[p].uid

Listed == Quiet => Passed(folders[Inbox].uid_next) /\ \A p \in Procs : ListsAll(p)

LossInv == BodiesInv /\ Copied /\ Listed

-----------------------------------------------------------------------------
(* What the operators return. *)

LEMMA RowTypes ==
  /\ NoRow \notin Row
  /\ \A r \in Row : /\ r.id \in Ids /\ r.msg \in Msgs /\ r.body \in Msgs \cup {NoMsg}
                    /\ \A i \in Ids : [r EXCEPT !.id = i] \in Row
                    /\ \A b \in Msgs : [r EXCEPT !.body = b] \in Row
BY StoreAssumption DEF Row

\* upsert_envelope gives one place the row, and leaves it the body it had.
LEMMA UpsertEnvelopeIs ==
  ASSUME NEW t \in Table, NEW f \in Folders, NEW u \in UIDs, NEW m \in Row
  PROVE  /\ UpsertEnvelope(t, f, u, m) \in Table
         /\ \A g \in Folders, v \in UIDs :
              g # f \/ v # u => UpsertEnvelope(t, f, u, m)[g][v] = t[g][v]
         /\ UpsertEnvelope(t, f, u, m)[f][u] # NoRow
         /\ UpsertEnvelope(t, f, u, m)[f][u].id = m.id
         /\ UpsertEnvelope(t, f, u, m)[f][u].msg = m.msg
         /\ UpsertEnvelope(t, f, u, m)[f][u].body = IF t[f][u] = NoRow THEN m.body ELSE t[f][u].body
<1>1. t[f][u] \in Row \cup {NoRow}
  BY DEF Table
<1>2. CASE t[f][u] = NoRow
  BY <1>2, RowTypes DEF UpsertEnvelope, Table
<1>3. CASE t[f][u] # NoRow
  <2>1. [m EXCEPT !.body = t[f][u].body] \in Row
    BY <1>1, <1>3 DEF Row
  <2>2. QED
    BY <1>3, <2>1, RowTypes DEF UpsertEnvelope, Table, Row
<1>4. QED
  BY <1>2, <1>3

\* set_body changes bodies, of the rows with the id.
LEMMA SetBodyIs ==
  ASSUME NEW t \in Table, NEW i, NEW b \in Msgs
  PROVE  /\ SetBody(t, i, b) \in Table
         /\ \A f \in Folders, u \in UIDs :
              /\ (SetBody(t, i, b)[f][u] = NoRow) = (t[f][u] = NoRow)
              /\ t[f][u] # NoRow =>
                   /\ SetBody(t, i, b)[f][u].id = t[f][u].id
                   /\ SetBody(t, i, b)[f][u].msg = t[f][u].msg
                   /\ SetBody(t, i, b)[f][u].body = IF t[f][u].id = i THEN b ELSE t[f][u].body
<1>1. ASSUME NEW f \in Folders, NEW u \in UIDs
      PROVE  /\ SetBody(t, i, b)[f][u] \in Row \cup {NoRow}
             /\ (SetBody(t, i, b)[f][u] = NoRow) = (t[f][u] = NoRow)
             /\ t[f][u] # NoRow =>
                  /\ SetBody(t, i, b)[f][u].id = t[f][u].id
                  /\ SetBody(t, i, b)[f][u].msg = t[f][u].msg
                  /\ SetBody(t, i, b)[f][u].body = IF t[f][u].id = i THEN b ELSE t[f][u].body
  <2>1. t[f][u] \in Row \cup {NoRow}
    BY DEF Table
  <2>2. SetBody(t, i, b)[f][u] = IF t[f][u] # NoRow /\ t[f][u].id = i
                                 THEN [t[f][u] EXCEPT !.body = b] ELSE t[f][u]
    BY DEF SetBody
  <2>3. CASE t[f][u] # NoRow /\ t[f][u].id = i
    <3>1. t[f][u] \in Row /\ [t[f][u] EXCEPT !.body = b] \in Row
      BY <2>1, <2>3, RowTypes
    <3>2. QED
      BY <2>2, <2>3, <3>1, RowTypes DEF Row
  <2>4. CASE ~ (t[f][u] # NoRow /\ t[f][u].id = i)
    BY <2>1, <2>2, <2>4
  <2>5. QED
    BY <2>3, <2>4
<1>2. SetBody(t, i, b) \in Table
  BY <1>1 DEF SetBody, Table
<1>3. QED
  BY <1>1, <1>2

LEMMA DeletesAre ==
  ASSUME NEW t \in Table, NEW f \in Folders
  PROVE  /\ DeleteByFolder(t, f) \in Table
         /\ \A g \in Folders, v \in UIDs :
              DeleteByFolder(t, f)[g][v] = IF g = f THEN NoRow ELSE t[g][v]
         /\ \A u : /\ DeleteByUid(t, f, u) \in Table
                   /\ \A g \in Folders, v \in UIDs :
                        DeleteByUid(t, f, u)[g][v] = IF g = f /\ v = u THEN NoRow ELSE t[g][v]
BY DEF Table, DeleteByFolder, DeleteByUid

\* What is left of a maildrop is a maildrop.
LEMMA WithoutIs ==
  ASSUME drop \in Seq(Msgs), Len(drop) <= MaxUid, NEW m, Contains(drop, m)
  PROVE  Without(m) \in Seq(Msgs) /\ Len(Without(m)) <= MaxUid
<1>1. PICK n \in DOMAIN drop : n = CHOOSE k \in DOMAIN drop : drop[k] = m
  BY DEF Contains
<1>2. n \in 1 .. Len(drop) /\ Len(drop) \in Nat /\ n \in Nat
  BY LenProperties, <1>1
<1>3. /\ SubSeq(drop, 1, n - 1) \in Seq(Msgs) /\ Len(SubSeq(drop, 1, n - 1)) = n - 1
      /\ SubSeq(drop, n + 1, Len(drop)) \in Seq(Msgs)
      /\ Len(SubSeq(drop, n + 1, Len(drop))) = Len(drop) - n
  <2>1. \A k \in 1 .. Len(drop) : drop[k] \in Msgs
    BY ElementOfSeq
  <2>2. /\ SubSeq(drop, 1, n - 1) \in Seq(Msgs)
        /\ Len(SubSeq(drop, 1, n - 1)) = IF 1 <= n - 1 THEN (n - 1) - 1 + 1 ELSE 0
    BY <1>2, <2>1, SubSeqProperties
  <2>3. /\ SubSeq(drop, n + 1, Len(drop)) \in Seq(Msgs)
        /\ Len(SubSeq(drop, n + 1, Len(drop))) =
             IF n + 1 <= Len(drop) THEN Len(drop) - (n + 1) + 1 ELSE 0
    BY <1>2, <2>1, SubSeqProperties
  <2>4. QED
    BY <1>2, <2>2, <2>3
<1>4. Without(m) = SubSeq(drop, 1, n - 1) \o SubSeq(drop, n + 1, Len(drop))
  BY <1>1 DEF Without
<1>5. QED
  BY <1>2, <1>3, <1>4, ConcatProperties, StoreAssumption

LEMMA JobTypes ==
  /\ NoJob \in Job /\ NoJob.held = NoRow /\ NoJob.folder = Inbox /\ NoJob.uid = 0 /\ NoJob.cursor = 0
  /\ \A j \in Job : /\ j.folder \in Folders /\ j.dest \in Folders /\ j.cursor \in Nat
                    /\ j.next \in Nat /\ j.todo \subseteq Nat /\ j.uid \in Nat
                    /\ j.held \in Row \cup {NoRow}
BY PopAssumption DEF Job, NoJob

LEMMA ProcTypes ==
  /\ Workers \subseteq Procs /\ Clients \subseteq Procs
  /\ \A p \in Procs : (p \in Workers) # (p \in Clients)
BY PopAssumption DEF Procs

\* A STAT numbers what the session numbered, or all there is now.
LEMMA StatsAre ==
  ASSUME drop \in Seq(Msgs), NEW list \in Seq(Msgs), NEW s \in Stats(list)
  PROVE  /\ s \in Seq(Msgs)
         /\ s = list \/ (s = drop /\ Continues(list))
BY DEF Stats

-----------------------------------------------------------------------------
(* One task at a time. *)

Turn(p) ==
  /\ pc' = [pc EXCEPT ![p] = pc'[p]]
  /\ job' = [job EXCEPT ![p] = job'[p]]
  /\ sessions' = [sessions EXCEPT ![p] = sessions'[p]]

LEMMA Typed ==
  ASSUME TypeInv
  PROVE  /\ drop \in Seq(Msgs) /\ Len(drop) <= MaxUid /\ Len(drop) \in Nat
         /\ sessions \in [Procs -> Seq(Msgs)] /\ rows \in Table
         /\ folders \in [Folders -> FolderRow] /\ job \in [Procs -> Job]
         /\ pc \in [Procs -> Steps]
         /\ \A p \in Procs : Len(sessions[p]) \in Nat /\ Len(sessions[p]) <= MaxUid
BY LenProperties DEF TypeInv, TypeOK, Fits

LEMMA TurnKeepsOthers ==
  ASSUME TypeInv, NEW p \in Procs, Turn(p)
  PROVE  \A q \in Procs : q # p => pc'[q] = pc[q] /\ job'[q] = job[q] /\ sessions'[q] = sessions[q]
BY Typed DEF Turn

\* How a task ends.
LEMMA Leaves ==
  ASSUME TypeInv, NEW p \in Procs, Leave(p)
  PROVE  /\ Turn(p) /\ job'[p] = NoJob
         /\ pc'[p] = IF p \in Workers THEN "idle" ELSE "ready"
         /\ sessions'[p] \in Seq(Msgs)
         /\ \/ sessions'[p] = <<>> \/ sessions'[p] = sessions[p]
            \/ sessions'[p] = drop /\ Continues(sessions[p])
<1>1. pc' = [pc EXCEPT ![p] = IF p \in Workers THEN "idle" ELSE "ready"]
      /\ job' = [job EXCEPT ![p] = NoJob]
  BY DEF Leave, Hold, Goto
<1>2. PICK s \in Seq(Msgs) : /\ sessions' = [sessions EXCEPT ![p] = s]
                             /\ \/ s = <<>> \/ s = sessions[p]
                                \/ s = drop /\ Continues(sessions[p])
  <2>1. CASE p \in Workers
    BY <2>1, StatsAre, Typed DEF Leave
  <2>2. CASE p \notin Workers
    BY <2>2, EmptySeq DEF Leave
  <2>3. QED
    BY <2>1, <2>2
<1>3. QED
  BY <1>1, <1>2, Typed DEF Turn

-----------------------------------------------------------------------------
(* Types. *)

TablesOK ==
  /\ drop \in Seq(Msgs) /\ Len(drop) <= MaxUid /\ arrived \subseteq Msgs /\ emptied \subseteq Msgs
  /\ rows \in Table /\ folders \in [Folders -> FolderRow]
  /\ scanned \in [Folders -> BOOLEAN] /\ minted \subseteq Ids /\ causes \subseteq Cause

StepsOf(p) ==
  SyncPC \cup (IF p \in Workers THEN {"off", "list", "upsert list", "idle"} ELSE MessagePC \cup {"ready"})

TaskOK(p) ==
  /\ pc[p] \in StepsOf(p) /\ job[p] \in Job
  /\ sessions[p] \in Seq(Msgs) /\ Len(sessions[p]) <= MaxUid
  /\ JobFits(p)

AreFunctions ==
  /\ sessions = [p \in Procs |-> sessions[p]]
  /\ pc = [p \in Procs |-> pc[p]]
  /\ job = [p \in Procs |-> job[p]]

LEMMA TypeInvIs == TypeInv <=> TablesOK /\ AreFunctions /\ \A p \in Procs : TaskOK(p)
<1>1. TypeInv => TablesOK /\ AreFunctions /\ \A p \in Procs : TaskOK(p)
  BY ProcTypes DEF TypeInv, TypeOK, Fits, TablesOK, TaskOK, StepsOf, Procs, MessagePC, AreFunctions
<1>2. ASSUME TablesOK, AreFunctions, \A p \in Procs : TaskOK(p)
      PROVE  TypeInv
  <2>1. Fits
    BY <1>2, ProcTypes DEF TablesOK, TaskOK, StepsOf, Fits, Steps, AreFunctions
  <2>2. /\ \A w \in Workers : pc[w] \in SyncPC \cup {"off", "list", "upsert list", "idle"}
        /\ \A c \in Clients : pc[c] \in SyncPC \cup FilePC \cup
             {"ready", "retr", "set body", "delete", "set flag", "retr moved"}
    BY <1>2, ProcTypes DEF TaskOK, StepsOf, MessagePC
  <2>3. sessions \in [Procs -> Seq(Msgs)] /\ job \in [Procs -> Job]
    BY <1>2 DEF TaskOK, AreFunctions
  <2>4. QED
    BY <1>2, <2>1, <2>2, <2>3 DEF TypeInv, TypeOK, TablesOK
<1>3. QED
  BY <1>1, <1>2

LEMMA TypeInvNext == (TypeInv <=> TablesOK /\ AreFunctions /\ \A p \in Procs : TaskOK(p))'
BY TypeInvIs, PTL

\* A turn that leaves its task in order leaves all in order.
LEMMA TurnTyped ==
  ASSUME TypeInv, NEW p \in Procs, Turn(p), TaskOK(p)', TablesOK'
  PROVE  TypeInv'
<1>1. \A q \in Procs : q # p => TaskOK(q)'
  BY TypeInvIs, TurnKeepsOthers DEF TaskOK, JobFits
<1>2. AreFunctions'
  BY Typed DEF Turn, AreFunctions
<1>3. QED
  BY <1>1, <1>2, TypeInvNext

LEMMA TypesStart == Init => TypeInv
<1> SUFFICES ASSUME Init PROVE TypeInv
  OBVIOUS
<1>1. TablesOK
  BY EmptySeq, StoreAssumption DEF Init, TablesOK, Table, FolderRow, NewFolderRow
<1>2. ASSUME NEW p \in Procs PROVE TaskOK(p)
  BY EmptySeq, StoreAssumption, JobTypes DEF Init, TaskOK, JobFits, StepsOf, SyncPC, MessagePC, FilePC
<1>3. AreFunctions
  BY DEF Init, AreFunctions
<1>4. QED
  BY <1>1, <1>2, <1>3, TypeInvIs

\* What a turn does to the tables it leaves alone.
LEMMA TablesStay ==
  ASSUME TypeInv, UNCHANGED <<drop, arrived, storeVars, emptied, causes>>
  PROVE  TablesOK'
BY TypeInvIs DEF TablesOK, storeVars

\* A task that has ended is in order.
LEMMA LeavesTyped ==
  ASSUME TypeInv, NEW p \in Procs, Leave(p)
  PROVE  Turn(p) /\ TaskOK(p)'
<1>1. /\ Turn(p) /\ job'[p] = NoJob /\ pc'[p] = IF p \in Workers THEN "idle" ELSE "ready"
      /\ sessions'[p] \in Seq(Msgs)
      /\ \/ sessions'[p] = <<>> \/ sessions'[p] = sessions[p]
         \/ sessions'[p] = drop /\ Continues(sessions[p])
  BY Leaves
<1>2. Len(sessions'[p]) <= MaxUid
  BY <1>1, EmptySeq, Typed, StoreAssumption
<1>3. QED
  BY <1>1, <1>2, JobTypes DEF TaskOK, JobFits, StepsOf, SyncPC, MessagePC, FilePC

LEMMA ServerTyped ==
  ASSUME TypeInv, NEW m \in Msgs, Deliver(m) \/ OtherClientRemoves(m)
  PROVE  TypeInv'
<1>1. UNCHANGED <<sessions, storeVars, pc, job, emptied>>
  BY DEF Deliver, OtherClientRemoves
<1>2. /\ drop' \in Seq(Msgs) /\ Len(drop') <= MaxUid
      /\ arrived' \subseteq Msgs /\ causes' \subseteq Cause
  <2>1. CASE Deliver(m)
    <3>1. Len(drop) < MaxUid /\ drop' = Append(drop, m)
      BY <2>1 DEF Deliver
    <3>2. drop' \in Seq(Msgs) /\ Len(drop') = Len(drop) + 1
      BY <3>1, Typed, AppendProperties
    <3>3. Len(drop') <= MaxUid
      BY <3>1, <3>2, Typed, StoreAssumption
    <3>4. QED
      BY <2>1, <3>2, <3>3 DEF Deliver, TypeInv, TypeOK
  <2>2. CASE OtherClientRemoves(m)
    BY <2>2, Typed, WithoutIs DEF OtherClientRemoves, TypeInv, TypeOK, Cause
  <2>3. QED
    BY <2>1, <2>2
<1>3. TablesOK'
  BY <1>1, <1>2, TypeInvIs DEF TablesOK, storeVars
<1>4. \A p \in Procs : TaskOK(p)'
  BY <1>1, TypeInvIs DEF TaskOK, JobFits
<1>5. AreFunctions'
  BY <1>1, TypeInvIs DEF AreFunctions
<1>6. QED
  BY <1>3, <1>4, <1>5, TypeInvNext

\* The steps of the worker outside a folder sync.
LEMMA WorkerTyped ==
  ASSUME TypeInv, NEW w \in Workers,
         \/ Connect(w) \/ ListFolders(w) \/ UpsertListed(w) \/ ReadCursor(w)
         \/ CountChanges(w) \/ SessionEnds(w)
  PROVE  TypeInv'
<1> w \in Procs
  BY ProcTypes
<1> USE DEF Goto, Hold
<1>0. /\ TaskOK(w) /\ TablesOK /\ job[w].cursor \in Nat /\ folders[Inbox].uid_next \in Nat
      /\ \A n \in Nat : [uid_validity |-> 1, uid_next |-> n] \in FolderRow
      /\ \A n \in Nat : [job[w] EXCEPT !.cursor = n] \in Job /\ [NoJob EXCEPT !.cursor = n] \in Job
      /\ \A n \in Nat : [job[w] EXCEPT !.cursor = n].held = job[w].held
  BY TypeInvIs, Typed, JobTypes, PopAssumption DEF TaskOK, FolderRow, Job
<1>1. CASE Connect(w)
  <2>1. Turn(w) /\ pc'[w] = "list" /\ job'[w] = job[w] /\ sessions'[w] = drop
    BY <1>1, Typed DEF Connect, Turn
  <2>2. TaskOK(w)'
    BY <1>0, <2>1, Typed DEF TaskOK, JobFits, StepsOf, SyncPC, MessagePC, FilePC
  <2>3. EnsureLocal \in [Folders -> FolderRow]
    BY <1>0, Typed DEF EnsureLocal
  <2>4. QED
    BY <1>0, <1>1, <2>1, <2>2, <2>3, TurnTyped DEF Connect, TablesOK
<1>2. CASE ListFolders(w)
  <2>1. Turn(w) /\ pc'[w] = "upsert list" /\ job'[w] \in Job
    BY <1>0, <1>2, Typed DEF ListFolders, Turn
  <2>2. sessions'[w] \in Seq(Msgs) /\ Len(sessions'[w]) <= MaxUid
    BY <1>2, Typed, StatsAre DEF ListFolders
  <2>3. TaskOK(w)'
    BY <1>0, <2>1, <2>2 DEF TaskOK, JobFits, StepsOf, SyncPC, MessagePC, FilePC
  <2>4. QED
    BY <1>2, <2>1, <2>3, TurnTyped, TablesStay DEF ListFolders
<1>3. CASE UpsertListed(w)
  <2>1. Turn(w) /\ pc'[w] = "select" /\ job'[w] = job[w] /\ sessions'[w] = sessions[w]
    BY <1>3, Typed DEF UpsertListed, Turn
  <2>2. TaskOK(w)'
    BY <1>0, <2>1 DEF TaskOK, JobFits, StepsOf, SyncPC, MessagePC, FilePC
  <2>3. folders' \in [Folders -> FolderRow]
    BY <1>0, <1>3, Typed DEF UpsertListed, UpsertFolder
  <2>4. QED
    BY <1>0, <1>3, <2>1, <2>2, <2>3, TurnTyped DEF UpsertListed, TablesOK
<1>4. CASE ReadCursor(w)
  <2>1. Turn(w) /\ pc'[w] = "stat" /\ job'[w] \in Job /\ sessions'[w] = sessions[w]
    BY <1>0, <1>4, Typed DEF ReadCursor, Turn
  <2>2. TaskOK(w)'
    BY <1>0, <2>1 DEF TaskOK, JobFits, StepsOf, SyncPC, MessagePC, FilePC
  <2>3. QED
    BY <1>4, <2>1, <2>2, TurnTyped, TablesStay DEF ReadCursor
<1>5. CASE CountChanges(w)
  <2>1. Turn(w) /\ pc'[w] = "list" /\ job'[w] = job[w]
    BY <1>5, Typed DEF CountChanges, Turn
  <2>2. sessions'[w] \in Seq(Msgs) /\ Len(sessions'[w]) <= MaxUid
    BY <1>5, Typed, StatsAre DEF CountChanges
  <2>3. TaskOK(w)'
    BY <1>0, <2>1, <2>2 DEF TaskOK, JobFits, StepsOf, SyncPC, MessagePC, FilePC
  <2>4. QED
    BY <1>5, <2>1, <2>3, TurnTyped, TablesStay DEF CountChanges
<1>6. CASE SessionEnds(w)
  <2>1. Turn(w) /\ pc'[w] = "off" /\ job'[w] = NoJob /\ sessions'[w] = <<>>
    BY <1>6, Typed DEF SessionEnds, Turn
  <2>2. TaskOK(w)'
    BY <2>1, EmptySeq, StoreAssumption, JobTypes
    DEF TaskOK, JobFits, StepsOf, SyncPC, MessagePC, FilePC
  <2>3. QED
    BY <1>6, <2>1, <2>2, TurnTyped, TablesStay DEF SessionEnds
<1>7. QED
  BY <1>1, <1>2, <1>3, <1>4, <1>5, <1>6

\* The row an envelope makes.
LEMMA EnvelopeIs ==
  ASSUME TypeInv, NEW p \in Procs, pc[p] = "upsert", NEW i \in Ids
  PROVE  /\ FromEnvelope(p, i) \in Row
         /\ FromEnvelope(p, i).msg = sessions[p][job[p].uid]
         /\ job[p].held = NoRow => FromEnvelope(p, i).id = i /\ FromEnvelope(p, i).body = NoMsg
         /\ job[p].held # NoRow => /\ FromEnvelope(p, i).id = job[p].held.id
                                   /\ FromEnvelope(p, i).body = job[p].held.body
<1>1. sessions[p][job[p].uid] \in Msgs
  BY Typed, ElementOfSeq, LenProperties DEF TypeInv, Fits, JobFits
<1>2. job[p].held \in Row \cup {NoRow}
  BY Typed, JobTypes
<1>3. CASE job[p].held = NoRow
  BY <1>1, <1>3, RowTypes DEF FromEnvelope, Row
<1>4. CASE job[p].held # NoRow
  BY <1>1, <1>2, <1>4 DEF FromEnvelope, Row
<1>5. QED
  BY <1>3, <1>4

LEMMA UidsOf == ASSUME TypeInv, NEW p \in Procs
                PROVE  DOMAIN sessions[p] \subseteq UIDs /\ DOMAIN drop \subseteq UIDs
BY Typed, LenProperties, StoreAssumption DEF UIDs

\* What an upsert of a sync does to the tables.
LEMMA UpsertIs ==
  ASSUME TypeInv, NEW p \in Procs, Upsert(p)
  PROVE  \E i \in Ids :
           /\ job[p].uid \in UIDs /\ job[p].folder \in Folders /\ FromEnvelope(p, i) \in Row
           /\ rows' = UpsertEnvelope(rows, job[p].folder, job[p].uid, FromEnvelope(p, i))
           /\ \/ job[p].held = NoRow /\ i \notin minted /\ minted' = minted \cup {i}
              \/ job[p].held # NoRow /\ i = job[p].held.id /\ minted' = minted
<1>1. job[p].uid \in UIDs /\ job[p].folder \in Folders /\ job[p].held \in Row \cup {NoRow}
  BY UidsOf, Typed, JobTypes DEF TypeInv, Fits, JobFits, Upsert
<1>2. CASE job[p].held = NoRow
  BY <1>1, <1>2, EnvelopeIs DEF Upsert
<1>3. CASE job[p].held # NoRow
  <2>1. job[p].held.id \in Ids
    BY <1>1, <1>3, RowTypes
  <2>2. QED
    BY <1>1, <1>3, <2>1, EnvelopeIs DEF Upsert
<1>4. QED
  BY <1>2, <1>3

\* The steps of a folder sync.
LEMMA SyncTyped ==
  ASSUME TypeInv, NEW p \in Procs, SyncStep(p)
  PROVE  TypeInv'
<1> USE DEF Goto, Hold
<1>0. /\ TaskOK(p) /\ TablesOK /\ job[p] \in Job /\ job[p].folder \in Folders
      /\ job[p].todo \subseteq Nat
  BY TypeInvIs, Typed, JobTypes DEF TaskOK
<1>1. CASE SelectFolder(p)
  <2>1. PICK s \in Stats(sessions[p]) :
          /\ sessions' = [sessions EXCEPT ![p] = s]
          /\ job' = [job EXCEPT ![p] = [job[p] EXCEPT !.next = Len(s) + 1]]
    BY <1>1 DEF SelectFolder
  <2>2. s \in Seq(Msgs) /\ Len(s) <= MaxUid /\ Len(s) \in Nat
    BY Typed, StatsAre, LenProperties
  <2>3. [job[p] EXCEPT !.next = Len(s) + 1] \in Job
    BY <1>0, <2>2 DEF Job
  <2>4. Turn(p) /\ pc'[p] = "fetch" /\ job'[p] \in Job /\ sessions'[p] = s
    BY <1>1, <2>1, <2>3, Typed DEF SelectFolder, Turn
  <2>5. TaskOK(p)'
    BY <2>2, <2>4 DEF TaskOK, JobFits, StepsOf, SyncPC, MessagePC, FilePC
  <2>6. QED
    BY <1>1, <2>4, <2>5, TurnTyped, TablesStay DEF SelectFolder
<1>2. CASE FetchEnvelopes(p)
  <2>1. TablesOK'
    BY <1>2, TablesStay DEF FetchEnvelopes
  <2>2. CASE Leave(p)
    BY <2>1, <2>2, LeavesTyped, TurnTyped
  <2>3. CASE ~ Leave(p)
    <3>1. PICK s \in Stats(sessions[p]) : \E seqs \in SUBSET DOMAIN s :
            /\ sessions' = [sessions EXCEPT ![p] = s]
            /\ job' = [job EXCEPT ![p] = [job[p] EXCEPT !.todo = seqs]]
            /\ pc' = [pc EXCEPT ![p] = IF seqs = {} THEN "mark" ELSE "lookup"]
      BY <1>2, <2>3 DEF FetchEnvelopes
    <3>2. PICK seqs \in SUBSET DOMAIN s :
            /\ sessions' = [sessions EXCEPT ![p] = s]
            /\ job' = [job EXCEPT ![p] = [job[p] EXCEPT !.todo = seqs]]
            /\ pc' = [pc EXCEPT ![p] = IF seqs = {} THEN "mark" ELSE "lookup"]
      BY <3>1
    <3>3. s \in Seq(Msgs) /\ Len(s) <= MaxUid /\ DOMAIN s \subseteq Nat
      BY Typed, StatsAre, LenProperties
    <3>4. [job[p] EXCEPT !.todo = seqs] \in Job /\ [job[p] EXCEPT !.todo = seqs].todo = seqs
      BY <1>0, <3>3 DEF Job
    <3>5. Turn(p) /\ pc'[p] \in {"mark", "lookup"} /\ job'[p] \in Job /\ job'[p].todo = seqs
          /\ sessions'[p] = s
      BY <3>2, <3>4, Typed DEF Turn
    <3>6. TaskOK(p)'
      BY <3>3, <3>5 DEF TaskOK, JobFits, StepsOf, SyncPC, MessagePC, FilePC
    <3>7. QED
      BY <2>1, <3>5, <3>6, TurnTyped
  <2>4. QED
    BY <2>2, <2>3
<1>3. CASE LookUp(p)
  <2>1. PICK n \in job[p].todo :
          job' = [job EXCEPT ![p] = [job[p] EXCEPT !.uid = n, !.todo = @ \ {n},
                                                   !.held = rows[job[p].folder][n]]]
    BY <1>3 DEF LookUp
  <2>2. pc[p] = "lookup" /\ job[p].todo \subseteq DOMAIN sessions[p]
    BY <1>0, <1>3 DEF TaskOK, JobFits, LookUp
  <2>3. rows[job[p].folder][n] \in Row \cup {NoRow} /\ n \in Nat
    BY <1>0, <2>2, UidsOf, Typed DEF Table
  <2>4. /\ Turn(p) /\ pc'[p] = "upsert" /\ sessions'[p] = sessions[p]
        /\ job'[p] = [job[p] EXCEPT !.uid = n, !.todo = @ \ {n}, !.held = rows[job[p].folder][n]]
    BY <1>3, <2>1, Typed DEF LookUp, Turn
  <2>5. job'[p] \in Job /\ job'[p].uid = n /\ job'[p].todo = job[p].todo \ {n}
    BY <1>0, <2>3, <2>4 DEF Job
  <2>6. TaskOK(p)'
    BY <1>0, <2>2, <2>4, <2>5 DEF TaskOK, JobFits, StepsOf, SyncPC, MessagePC, FilePC
  <2>7. QED
    BY <1>3, <2>4, <2>6, TurnTyped, TablesStay DEF LookUp
<1>4. CASE Upsert(p)
  <2>1. /\ Turn(p) /\ pc'[p] \in {"mark", "lookup"} /\ sessions'[p] = sessions[p]
        /\ job'[p] = job[p]
    BY <1>4, Typed DEF Upsert, Turn
  <2>2. TaskOK(p)'
    BY <1>0, <1>4, <2>1 DEF Upsert, TaskOK, JobFits, StepsOf, SyncPC, MessagePC, FilePC
  <2>3. rows' \in Table /\ minted' \subseteq Ids
    BY <1>0, <1>4, UpsertIs, UpsertEnvelopeIs DEF TablesOK
  <2>4. QED
    BY <1>0, <1>4, <2>1, <2>2, <2>3, TurnTyped DEF Upsert, TablesOK
<1>5. CASE Mark(p)
  <2>1. job[p].next \in Nat /\ [uid_validity |-> 1, uid_next |-> job[p].next] \in FolderRow
    BY <1>0, JobTypes DEF FolderRow
  <2>2. TablesOK'
    BY <1>0, <1>5, <2>1 DEF Mark, UpsertFolder, TablesOK
  <2>3. QED
    BY <1>5, <2>2, LeavesTyped, TurnTyped DEF Mark
<1>6. QED
  BY <1>1, <1>2, <1>3, <1>4, <1>5 DEF SyncStep

LEMMA CellIs ==
  ASSUME TypeInv, NEW f \in Folders, NEW u \in UIDs
  PROVE  rows[f][u] \in Row \cup {NoRow}
BY Typed DEF Table

\* The commands that only read before their next await.
LEMMA CommandStartTyped ==
  ASSUME TypeInv, NEW c \in Clients,
         \/ \E f \in Folders : SyncCommand(c, f)
         \/ \E f \in Folders, u \in UIDs : FetchBodyCommand(c, f, u) \/ SetFlagCommand(c, f, u)
         \/ \E f, dst \in Folders, u \in UIDs : MoveCommand(c, f, u, dst)
         \/ \E m \in Outgoing : SendCommand(c, m)
  PROVE  TypeInv'
<1> c \in Procs
  BY ProcTypes
<1> USE DEF Goto, Hold
<1>0. /\ TaskOK(c) /\ TablesOK /\ c \notin Workers
      /\ drop \in Seq(Msgs) /\ Len(drop) <= MaxUid
      /\ sessions[c] \in Seq(Msgs) /\ Len(sessions[c]) <= MaxUid
      /\ \A u \in UIDs : u \in Nat
  BY TypeInvIs, ProcTypes, Typed, StoreAssumption DEF TaskOK, UIDs
<1>1. ASSUME NEW f \in Folders, SyncCommand(c, f) PROVE TypeInv'
  <2>1. folders[f].uid_next \in Nat
    BY Typed DEF FolderRow
  <2>2. Turn(c) /\ pc'[c] = "stat" /\ sessions'[c] = drop
        /\ job'[c] = [NoJob EXCEPT !.folder = f, !.cursor = folders[f].uid_next]
    BY <1>1, Typed DEF SyncCommand, Turn
  <2>3. job'[c] \in Job
    BY <2>1, <2>2, JobTypes DEF Job
  <2>4. TaskOK(c)'
    BY <1>0, <2>2, <2>3 DEF TaskOK, JobFits, StepsOf, SyncPC, MessagePC, FilePC
  <2>5. TablesOK'
    BY <1>0, <1>1 DEF SyncCommand, TablesOK, storeVars, Cause
  <2>6. QED
    BY <2>2, <2>4, <2>5, TurnTyped
<1>2. ASSUME NEW f \in Folders, NEW u \in UIDs, FetchBodyCommand(c, f, u) \/ SetFlagCommand(c, f, u)
      PROVE  TypeInv'
  <2>1. rows[f][u] \in Row
    BY <1>2, CellIs DEF FetchBodyCommand, SetFlagCommand, Begin
  <2>2. /\ Turn(c) /\ pc'[c] \in {"retr", "set flag"}
        /\ sessions'[c] = drop \/ sessions'[c] = sessions[c]
        /\ job'[c] = [NoJob EXCEPT !.folder = f, !.uid = u, !.held = rows[f][u]]
    BY <1>2, Typed DEF FetchBodyCommand, SetFlagCommand, Begin, Turn
  <2>3. job'[c] \in Job /\ job'[c].held = rows[f][u] /\ job'[c].uid = u
    BY <1>0, <2>1, <2>2, JobTypes DEF Job
  <2>4. TaskOK(c)'
    BY <1>0, <2>1, <2>2, <2>3 DEF TaskOK, JobFits, StepsOf, SyncPC, MessagePC, FilePC
  <2>5. TablesOK'
    BY <1>2, TablesStay DEF FetchBodyCommand, SetFlagCommand, Begin
  <2>6. QED
    BY <2>2, <2>4, <2>5, TurnTyped
<1>3. ASSUME NEW f \in Folders, NEW dst \in Folders, NEW u \in UIDs, MoveCommand(c, f, u, dst)
      PROVE  TypeInv'
  <2>1. rows[f][u] \in Row
    BY <1>3, CellIs DEF MoveCommand
  <2>2. /\ Turn(c) /\ pc'[c] \in {"retr moved", "destination"}
        /\ sessions'[c] = drop \/ sessions'[c] = sessions[c]
        /\ job'[c] = [NoJob EXCEPT !.folder = f, !.uid = u, !.held = rows[f][u], !.dest = dst]
    BY <1>3, Typed DEF MoveCommand, Turn
  <2>3. job'[c] \in Job /\ job'[c].held = rows[f][u] /\ job'[c].uid = u
    BY <1>0, <2>1, <2>2, JobTypes DEF Job
  <2>4. TaskOK(c)'
    BY <1>0, <2>1, <2>2, <2>3 DEF TaskOK, JobFits, StepsOf, SyncPC, MessagePC, FilePC
  <2>5. TablesOK'
    BY <1>3, TablesStay DEF MoveCommand
  <2>6. QED
    BY <2>2, <2>4, <2>5, TurnTyped
<1>4. ASSUME NEW m \in Outgoing, SendCommand(c, m) PROVE TypeInv'
  <2>1. PICK i \in Ids : job' = [job EXCEPT ![c] = [NoJob EXCEPT !.folder = Sent, !.dest = Sent,
                                  !.held = [id |-> i, msg |-> m, seen |-> TRUE, body |-> m]]]
    BY <1>4 DEF SendCommand
  <2>2. [id |-> i, msg |-> m, seen |-> TRUE, body |-> m] \in Row
    BY PopAssumption DEF Row
  <2>3. Turn(c) /\ pc'[c] = "destination" /\ sessions'[c] = sessions[c]
    BY <1>4, Typed DEF SendCommand, Turn
  <2>4. job'[c] \in Job /\ job'[c].held \in Row
    BY <2>1, <2>2, Typed, JobTypes, PopAssumption DEF Job
  <2>5. TaskOK(c)'
    BY <1>0, <2>3, <2>4 DEF TaskOK, JobFits, StepsOf, SyncPC, MessagePC, FilePC
  <2>6. folders' \in [Folders -> FolderRow]
    BY <1>4, Typed DEF SendCommand, EnsureLocal, FolderRow
  <2>7. TablesOK'
    BY <1>0, <1>4, <2>6, PopAssumption DEF SendCommand, TablesOK
  <2>8. QED
    BY <2>3, <2>5, <2>7, TurnTyped
<1>5. QED
  BY <1>1, <1>2, <1>3, <1>4

\* The later steps of a command.
LEMMA CommandTyped ==
  ASSUME TypeInv, NEW c \in Clients,
         \/ Retr(c) \/ StoreBody(c) \/ DeleteFromServer(c) \/ StoreFlag(c) \/ RetrMoved(c)
         \/ ReadDestination(c) \/ File(c) \/ Forget(c) \/ AdvanceDestination(c)
         \/ EmptyTrash(c) \/ CommandFails(c)
  PROVE  TypeInv'
<1> c \in Procs
  BY ProcTypes
<1> USE DEF Goto, Hold
<1>0. /\ TaskOK(c) /\ TablesOK /\ c \notin Workers
      /\ sessions[c] \in Seq(Msgs) /\ Len(sessions[c]) <= MaxUid
      /\ job[c] \in Job /\ job[c].folder \in Folders /\ job[c].dest \in Folders
      /\ job[c].cursor \in Nat
  BY TypeInvIs, ProcTypes, Typed, JobTypes DEF TaskOK
<1>1. ASSUME Retrievable(c, job[c].uid) PROVE sessions[c][job[c].uid] \in Msgs
  BY <1>0, <1>1, ElementOfSeq, LenProperties DEF Retrievable
<1>2. ASSUME NEW b \in Msgs, job[c].held \in Row
      PROVE  /\ [job[c] EXCEPT !.held.body = b] \in Job
             /\ [job[c] EXCEPT !.held.body = b].held \in Row
             /\ [job[c] EXCEPT !.held.body = b].held.body = b
             /\ [job[c] EXCEPT !.held.body = b].uid = job[c].uid
  BY <1>0, <1>2 DEF Job, Row
<1>3. CASE Retr(c)
  <2>1. TablesOK'
    BY <1>0, <1>3 DEF Retr, TablesOK, storeVars, Cause
  <2>2. CASE Leave(c)
    BY <2>1, <2>2, LeavesTyped, TurnTyped
  <2>3. CASE ~ Leave(c)
    <3>1. /\ Turn(c) /\ pc'[c] = "set body" /\ sessions'[c] = sessions[c]
          /\ Retrievable(c, job[c].uid)
          /\ job'[c] = [job[c] EXCEPT !.held.body = sessions[c][job[c].uid]]
      BY <1>3, <2>3, Typed DEF Retr, Turn
    <3>2. job[c].held \in Row /\ job[c].uid \in UIDs
      BY <1>0, <1>3 DEF Retr, TaskOK, JobFits, MessagePC, FilePC
    <3>3. job'[c] \in Job /\ job'[c].held \in Row /\ job'[c].held.body \in Msgs /\ job'[c].uid \in UIDs
      BY <1>1, <1>2, <3>1, <3>2
    <3>4. TaskOK(c)'
      BY <1>0, <3>1, <3>3 DEF TaskOK, JobFits, StepsOf, SyncPC, MessagePC, FilePC
    <3>5. QED
      BY <2>1, <3>1, <3>4, TurnTyped
  <2>4. QED
    BY <2>2, <2>3
<1>4. CASE StoreBody(c)
  <2>1. job[c].held \in Row /\ job[c].uid \in UIDs /\ job[c].held.body \in Msgs
    BY <1>0, <1>4 DEF StoreBody, TaskOK, JobFits, MessagePC, FilePC
  <2>2. TablesOK'
    BY <1>0, <1>4, <2>1, SetBodyIs DEF StoreBody, TablesOK
  <2>3. CASE Leave(c)
    BY <2>2, <2>3, LeavesTyped, TurnTyped
  <2>4. CASE ~ Leave(c)
    <3>1. Turn(c) /\ pc'[c] = "delete" /\ job'[c] = job[c] /\ sessions'[c] = sessions[c]
      BY <1>4, <2>4, Typed DEF StoreBody, Turn
    <3>2. TaskOK(c)'
      BY <1>0, <2>1, <3>1 DEF TaskOK, JobFits, StepsOf, SyncPC, MessagePC, FilePC
    <3>3. QED
      BY <2>2, <3>1, <3>2, TurnTyped
  <2>5. QED
    BY <2>3, <2>4
<1>5. CASE DeleteFromServer(c)
  <2>1. drop' \in Seq(Msgs) /\ Len(drop') <= MaxUid
    BY <1>5, Typed, WithoutIs DEF DeleteFromServer, Retrievable
  <2>2. TablesOK'
    BY <1>0, <1>5, <2>1 DEF DeleteFromServer, TablesOK, storeVars, Cause
  <2>3. QED
    BY <1>5, <2>2, LeavesTyped, TurnTyped DEF DeleteFromServer
<1>6. CASE StoreFlag(c)
  <2>1. job[c].held \in Row /\ job[c].uid \in UIDs /\ [job[c].held EXCEPT !.seen = ~ @] \in Row
    BY <1>0, <1>6 DEF StoreFlag, TaskOK, JobFits, MessagePC, FilePC, Row
  <2>2. rows' \in Table
    BY <1>0, <1>6, <2>1, Typed, UpsertEnvelopeIs DEF StoreFlag
  <2>3. TablesOK'
    BY <1>0, <1>6, <2>2 DEF StoreFlag, TablesOK, Cause
  <2>4. QED
    BY <1>6, <2>3, LeavesTyped, TurnTyped DEF StoreFlag
<1>7. CASE RetrMoved(c)
  <2>1. job[c].held \in Row
    BY <1>0, <1>7 DEF RetrMoved, TaskOK, JobFits, MessagePC, FilePC
  <2>2. Turn(c) /\ pc'[c] = "destination" /\ sessions'[c] = <<>>
    BY <1>7, Typed DEF RetrMoved, Turn
  <2>3. job'[c] \in Job /\ job'[c].held \in Row
    BY <1>0, <1>1, <1>2, <1>7, <2>1, Typed DEF RetrMoved
  <2>4. sessions'[c] \in Seq(Msgs) /\ Len(sessions'[c]) <= MaxUid
    BY <2>2, EmptySeq, StoreAssumption
  <2>5. TaskOK(c)'
    BY <1>0, <2>2, <2>3, <2>4 DEF TaskOK, JobFits, StepsOf, SyncPC, MessagePC, FilePC
  <2>6. QED
    BY <1>7, <2>2, <2>5, TurnTyped, TablesStay DEF RetrMoved
<1>8. CASE ReadDestination(c)
  <2>1. job[c].held \in Row
    BY <1>0, <1>8 DEF ReadDestination, TaskOK, JobFits, MessagePC, FilePC
  <2>2. PICK n \in Nat : job' = [job EXCEPT ![c] = [job[c] EXCEPT !.cursor = n]]
    BY <1>0, <1>8, Typed DEF ReadDestination, FolderRow
  <2>3. /\ Turn(c) /\ pc'[c] = "file" /\ sessions'[c] = sessions[c]
        /\ job'[c] = [job[c] EXCEPT !.cursor = n]
    BY <1>8, <2>2, Typed DEF ReadDestination, Turn
  <2>4. job'[c] \in Job /\ job'[c].held = job[c].held
    BY <1>0, <2>3 DEF Job
  <2>5. TaskOK(c)'
    BY <1>0, <2>1, <2>3, <2>4 DEF TaskOK, JobFits, StepsOf, SyncPC, MessagePC, FilePC
  <2>6. QED
    BY <1>8, <2>3, <2>5, TurnTyped, TablesStay DEF ReadDestination
<1>9. CASE File(c)
  <2>1. job[c].held \in Row /\ job[c].cursor \in UIDs
    BY <1>0, <1>9 DEF File, TaskOK, JobFits, MessagePC, FilePC
  <2>2. PICK i \in Ids \ minted :
          /\ rows' = UpsertEnvelope(rows, job[c].dest, job[c].cursor, [job[c].held EXCEPT !.id = i])
          /\ minted' = minted \cup {i}
    BY <1>9 DEF File
  <2>3. rows' \in Table /\ minted' \subseteq Ids
    BY <1>0, <2>1, <2>2, Typed, UpsertEnvelopeIs, RowTypes DEF TablesOK
  <2>4. TablesOK'
    BY <1>0, <1>9, <2>3 DEF File, TablesOK, Cause
  <2>5. /\ Turn(c) /\ pc'[c] \in {"advance", "forget"} /\ sessions'[c] = sessions[c]
        /\ job'[c] = job[c]
    BY <1>9, Typed DEF File, Turn
  <2>6. TaskOK(c)'
    BY <1>0, <2>1, <2>5 DEF TaskOK, JobFits, StepsOf, SyncPC, MessagePC, FilePC
  <2>7. QED
    BY <2>4, <2>5, <2>6, TurnTyped
<1>10. CASE Forget(c)
  <2>1. job[c].held \in Row
    BY <1>0, <1>10 DEF Forget, TaskOK, JobFits, MessagePC, FilePC
  <2>2. TablesOK'
    BY <1>0, <1>10, Typed, DeletesAre DEF Forget, TablesOK, Cause
  <2>3. Turn(c) /\ pc'[c] = "advance" /\ sessions'[c] = sessions[c] /\ job'[c] = job[c]
    BY <1>10, Typed DEF Forget, Turn
  <2>4. TaskOK(c)'
    BY <1>0, <2>1, <2>3 DEF TaskOK, JobFits, StepsOf, SyncPC, MessagePC, FilePC
  <2>5. QED
    BY <2>2, <2>3, <2>4, TurnTyped
<1>11. CASE AdvanceDestination(c)
  <2>1. [uid_validity |-> 1, uid_next |-> job[c].cursor + 1] \in FolderRow
    BY <1>0 DEF FolderRow
  <2>2. TablesOK'
    BY <1>0, <1>11, <2>1 DEF AdvanceDestination, UpsertFolder, TablesOK
  <2>3. QED
    BY <1>11, <2>2, LeavesTyped, TurnTyped DEF AdvanceDestination
<1>12. CASE EmptyTrash(c)
  <2>1. emptied' \subseteq Msgs
    <3>1. \A u \in Stored(rows, Trash) : rows[Trash][u].msg \in Msgs
      BY CellIs, RowTypes, PopAssumption DEF Stored
    <3>2. QED
      BY <1>0, <1>12, <3>1 DEF EmptyTrash, TablesOK
  <2>2. TablesOK'
    BY <1>0, <1>12, <2>1, Typed, DeletesAre, PopAssumption DEF EmptyTrash, TablesOK
  <2>3. Turn(c) /\ TaskOK(c)'
    BY <1>0, <1>12, Typed DEF EmptyTrash, Turn, TaskOK, JobFits
  <2>4. QED
    BY <2>2, <2>3, TurnTyped
<1>13. CASE CommandFails(c)
  BY <1>13, LeavesTyped, TurnTyped, TablesStay DEF CommandFails
<1>14. QED
  BY <1>3, <1>4, <1>5, <1>6, <1>7, <1>8, <1>9, <1>10, <1>11, <1>12, <1>13

LEMMA TypesStay == TypeInv /\ [Next]_vars => TypeInv'
<1> SUFFICES ASSUME TypeInv, [Next]_vars PROVE TypeInv'
  OBVIOUS
<1>1. CASE UNCHANGED vars
  <2>1. TablesOK' /\ AreFunctions' /\ \A p \in Procs : TaskOK(p)'
    BY <1>1, TypeInvIs DEF vars, storeVars, TablesOK, AreFunctions, TaskOK, JobFits
  <2>2. QED
    BY <2>1, TypeInvNext
<1>2. CASE Next
  BY <1>2, ServerTyped, WorkerTyped, SyncTyped, CommandStartTyped, CommandTyped, ProcTypes
  DEF Next, WorkerStep, ClientStep
<1>3. QED
  BY <1>1, <1>2

\* The tables, sessions, steps and jobs always have their types.
THEOREM MailTypes == Spec => []TypeOK
<1>1. TypeInv => TypeOK
  BY DEF TypeInv
<1>2. QED
  BY <1>1, TypesStart, TypesStay, PTL DEF Spec

-----------------------------------------------------------------------------
(* What a step does to the rows and to what its task holds: rows go, or keep  *)
(* their id, or are the one the task holds and back at its place, or are new. *)

BodyRead(p) ==
  /\ job'[p].uid \in DOMAIN sessions[p]
  /\ job'[p].held.body = sessions[p][job'[p].uid]

SameHold(p) ==
  /\ Holds(p) /\ job'[p].folder = job[p].folder /\ job'[p].uid = job[p].uid
  /\ job'[p].held.id = job[p].held.id /\ job'[p].held.msg = job[p].held.msg
  /\ job'[p].held.body = job[p].held.body \/ BodyRead(p)

ReadHold(p) ==
  /\ job'[p].folder \in Folders /\ job'[p].uid \in UIDs
  /\ rows[job'[p].folder][job'[p].uid] # NoRow
  /\ job'[p].held = rows[job'[p].folder][job'[p].uid]

HoldStep(p) == Holds(p)' => SameHold(p) \/ ReadHold(p)

RowFrom(p, f, u) ==
  \/ rows[f][u] # NoRow /\ rows'[f][u].id = rows[f][u].id
  \/ HeldAt(p, rows'[f][u].id, f, u)

OldRows(p) ==
  /\ minted' = minted
  /\ \A f \in Folders, u \in UIDs : rows'[f][u] # NoRow => RowFrom(p, f, u)

NewRow(p, i, g, v) ==
  /\ minted' = minted \cup {i}
  /\ \A f \in Folders, u \in UIDs : rows'[f][u] # NoRow =>
       RowFrom(p, f, u) \/ (f = g /\ u = v /\ rows'[f][u].id = i)

RowsStep(p) ==
  \/ OldRows(p)
  \/ \E i \in Ids \ minted, g \in Folders, v \in UIDs : NewRow(p, i, g, v)

LEMMA RowsAlone ==
  ASSUME NEW p, UNCHANGED <<rows, minted>>
  PROVE  RowsStep(p)
BY DEF RowsStep, OldRows, RowFrom

LEMMA RowsRemoved ==
  ASSUME NEW p, minted' = minted,
         \A f \in Folders, u \in UIDs : rows'[f][u] # NoRow => rows'[f][u] = rows[f][u]
  PROVE  RowsStep(p)
BY DEF RowsStep, OldRows, RowFrom

LEMMA HoldsNothing ==
  ASSUME NEW p, pc'[p] \notin HoldPC \/ job'[p] = NoJob \/ job'[p].uid \notin UIDs \/ job'[p].held = NoRow
  PROVE  HoldStep(p)
BY JobTypes, StoreAssumption DEF HoldStep, Holds, UIDs

LEMMA WorkerHolds ==
  ASSUME TypeInv, NEW w \in Workers,
         \/ Connect(w) \/ ListFolders(w) \/ UpsertListed(w) \/ ReadCursor(w)
         \/ CountChanges(w) \/ SessionEnds(w)
  PROVE  Turn(w) /\ HoldStep(w) /\ UNCHANGED <<rows, minted, arrived, emptied, causes>>
<1> w \in Procs
  BY ProcTypes
<1> USE DEF Goto, Hold
<1>1. UNCHANGED <<rows, minted, arrived, emptied, causes>>
  BY DEF Connect, ListFolders, UpsertListed, ReadCursor, CountChanges, SessionEnds, storeVars
<1>2. Turn(w) /\ pc'[w] \in {"list", "upsert list", "select", "stat", "off"}
  <2>1. CASE Connect(w)
    BY <2>1, Typed DEF Connect, Turn
  <2>2. CASE ListFolders(w)
    BY <2>2, Typed DEF ListFolders, Turn
  <2>3. CASE UpsertListed(w)
    BY <2>3, Typed DEF UpsertListed, Turn
  <2>4. CASE ReadCursor(w)
    BY <2>4, Typed DEF ReadCursor, Turn
  <2>5. CASE CountChanges(w)
    BY <2>5, Typed DEF CountChanges, Turn
  <2>6. CASE SessionEnds(w)
    BY <2>6, Typed DEF SessionEnds, Turn
  <2>7. QED
    BY <2>1, <2>2, <2>3, <2>4, <2>5, <2>6
<1>3. HoldStep(w)
  BY <1>2, HoldsNothing DEF HoldPC, FilePC
<1>4. QED
  BY <1>1, <1>2, <1>3

\* An id held by a task that upserts is written back where it was read.
LEMMA WritesBack ==
  ASSUME TypeInv, NEW p \in Procs, Holds(p), NEW r \in Row, r.id = job[p].held.id,
         job[p].uid \in UIDs, minted' = minted,
         rows' = UpsertEnvelope(rows, job[p].folder, job[p].uid, r)
  PROVE  RowsStep(p)
<1>1. job[p].folder \in Folders
  BY Typed, JobTypes
<1>2. /\ \A g \in Folders, v \in UIDs :
           g # job[p].folder \/ v # job[p].uid => rows'[g][v] = rows[g][v]
      /\ rows'[job[p].folder][job[p].uid].id = job[p].held.id
  BY <1>1, Typed, UpsertEnvelopeIs
<1>3. QED
  BY <1>2 DEF RowsStep, OldRows, RowFrom, HeldAt

LEMMA WritesNew ==
  ASSUME TypeInv, NEW p \in Procs, NEW r \in Row, NEW g \in Folders, NEW v \in UIDs,
         NEW i \in Ids \ minted, r.id = i, minted' = minted \cup {i},
         rows' = UpsertEnvelope(rows, g, v, r)
  PROVE  RowsStep(p)
<1>1. /\ \A f \in Folders, u \in UIDs : f # g \/ u # v => rows'[f][u] = rows[f][u]
      /\ rows'[g][v].id = i
  BY Typed, UpsertEnvelopeIs
<1>2. NewRow(p, i, g, v)
  BY <1>1 DEF NewRow, RowFrom
<1>3. QED
  BY <1>2 DEF RowsStep

LEMMA SyncHolds ==
  ASSUME TypeInv, NEW p \in Procs, SyncStep(p)
  PROVE  Turn(p) /\ HoldStep(p) /\ RowsStep(p) /\ UNCHANGED <<drop, arrived, emptied, causes>>
<1> USE DEF Goto, Hold
<1>0. UNCHANGED <<drop, arrived, emptied, causes>>
  BY DEF SyncStep, SelectFolder, FetchEnvelopes, LookUp, Upsert, Mark
<1>1. CASE SelectFolder(p)
  <2>1. Turn(p) /\ pc'[p] = "fetch" /\ UNCHANGED <<rows, minted>>
    BY <1>1, Typed DEF SelectFolder, Turn, storeVars
  <2>2. QED
    BY <1>0, <2>1, RowsAlone, HoldsNothing DEF HoldPC, FilePC
<1>2. CASE FetchEnvelopes(p)
  <2>1. UNCHANGED <<rows, minted>>
    BY <1>2 DEF FetchEnvelopes, storeVars
  <2>2. Turn(p) /\ (job'[p] = NoJob \/ pc'[p] \in {"mark", "lookup"})
    <3>1. CASE Leave(p)
      BY <3>1, Leaves
    <3>2. CASE ~ Leave(p)
      BY <1>2, <3>2, Typed DEF FetchEnvelopes, Turn
    <3>3. QED
      BY <3>1, <3>2
  <2>3. QED
    BY <1>0, <2>1, <2>2, RowsAlone, HoldsNothing DEF HoldPC, FilePC
<1>3. CASE LookUp(p)
  <2>1. PICK n \in job[p].todo :
          job' = [job EXCEPT ![p] = [job[p] EXCEPT !.uid = n, !.todo = @ \ {n},
                                                   !.held = rows[job[p].folder][n]]]
    BY <1>3 DEF LookUp
  <2>2. n \in UIDs /\ job[p].folder \in Folders /\ job[p] \in Job
    BY <1>3, UidsOf, Typed, JobTypes DEF TypeInv, Fits, JobFits, LookUp
  <2>3. job'[p].uid = n /\ job'[p].folder = job[p].folder /\ job'[p].held = rows[job[p].folder][n]
    BY <2>1, <2>2, Typed DEF Job
  <2>4. HoldStep(p)
    BY <2>2, <2>3, HoldsNothing DEF HoldStep, ReadHold
  <2>5. Turn(p) /\ UNCHANGED <<rows, minted>>
    BY <1>3, Typed DEF LookUp, Turn, storeVars
  <2>6. QED
    BY <1>0, <2>4, <2>5, RowsAlone
<1>4. CASE Upsert(p)
  <2>1. Turn(p) /\ pc'[p] \in {"mark", "lookup"}
    BY <1>4, Typed DEF Upsert, Turn
  <2>2. HoldStep(p)
    BY <2>1, HoldsNothing DEF HoldPC, FilePC
  <2>3. PICK i \in Ids :
           /\ job[p].uid \in UIDs /\ job[p].folder \in Folders /\ FromEnvelope(p, i) \in Row
           /\ rows' = UpsertEnvelope(rows, job[p].folder, job[p].uid, FromEnvelope(p, i))
           /\ \/ job[p].held = NoRow /\ i \notin minted /\ minted' = minted \cup {i}
              \/ job[p].held # NoRow /\ i = job[p].held.id /\ minted' = minted
    BY <1>4, UpsertIs
  <2>4. pc[p] = "upsert"
    BY <1>4 DEF Upsert
  <2>5. CASE job[p].held = NoRow
    <3>1. FromEnvelope(p, i).id = i
      BY <2>4, <2>5, EnvelopeIs
    <3>2. RowsStep(p)
      BY <2>3, <2>5, <3>1, WritesNew
    <3>3. QED
      BY <1>0, <2>1, <2>2, <3>2
  <2>6. CASE job[p].held # NoRow
    <3>1. Holds(p)
      BY <2>3, <2>4, <2>6 DEF Holds, HoldPC
    <3>2. FromEnvelope(p, i).id = job[p].held.id
      BY <2>4, <2>6, EnvelopeIs
    <3>3. RowsStep(p)
      BY <2>3, <2>6, <3>1, <3>2, WritesBack
    <3>4. QED
      BY <1>0, <2>1, <2>2, <3>3
  <2>7. QED
    BY <2>5, <2>6
<1>5. CASE Mark(p)
  BY <1>0, <1>5, Leaves, RowsAlone, HoldsNothing DEF Mark
<1>6. QED
  BY <1>1, <1>2, <1>3, <1>4, <1>5 DEF SyncStep

LEMMA CommandStartHolds ==
  ASSUME TypeInv, NEW c \in Clients,
         \/ \E f \in Folders : SyncCommand(c, f)
         \/ \E f \in Folders, u \in UIDs : FetchBodyCommand(c, f, u) \/ SetFlagCommand(c, f, u)
         \/ \E f, dst \in Folders, u \in UIDs : MoveCommand(c, f, u, dst)
         \/ \E m \in Outgoing : SendCommand(c, m)
  PROVE  Turn(c) /\ HoldStep(c) /\ UNCHANGED <<rows, minted, drop, emptied>>
<1> c \in Procs
  BY ProcTypes
<1> USE DEF Goto, Hold, storeVars
<1>1. ASSUME NEW f \in Folders, SyncCommand(c, f)
      PROVE  Turn(c) /\ HoldStep(c) /\ UNCHANGED <<rows, minted, drop, emptied>>
  <2>1. Turn(c) /\ pc'[c] = "stat" /\ UNCHANGED <<rows, minted, drop, emptied>>
    BY <1>1, Typed DEF SyncCommand, Turn
  <2>2. QED
    BY <2>1, HoldsNothing DEF HoldPC, FilePC
<1>2. ASSUME NEW f \in Folders, NEW u \in UIDs, FetchBodyCommand(c, f, u) \/ SetFlagCommand(c, f, u)
      PROVE  Turn(c) /\ HoldStep(c) /\ UNCHANGED <<rows, minted, drop, emptied>>
  <2>1. /\ Turn(c) /\ rows[f][u] # NoRow /\ UNCHANGED <<rows, minted, drop, emptied>>
        /\ job'[c] = [NoJob EXCEPT !.folder = f, !.uid = u, !.held = rows[f][u]]
    BY <1>2, Typed DEF FetchBodyCommand, SetFlagCommand, Begin, Turn
  <2>2. job'[c].folder = f /\ job'[c].uid = u /\ job'[c].held = rows[f][u]
    BY <2>1 DEF NoJob
  <2>3. QED
    BY <2>1, <2>2 DEF HoldStep, ReadHold
<1>3. ASSUME NEW f \in Folders, NEW dst \in Folders, NEW u \in UIDs, MoveCommand(c, f, u, dst)
      PROVE  Turn(c) /\ HoldStep(c) /\ UNCHANGED <<rows, minted, drop, emptied>>
  <2>1. /\ Turn(c) /\ rows[f][u] # NoRow /\ UNCHANGED <<rows, minted, drop, emptied>>
        /\ job'[c] = [NoJob EXCEPT !.folder = f, !.uid = u, !.held = rows[f][u], !.dest = dst]
    BY <1>3, Typed DEF MoveCommand, Turn
  <2>2. job'[c].folder = f /\ job'[c].uid = u /\ job'[c].held = rows[f][u]
    BY <2>1 DEF NoJob
  <2>3. QED
    BY <2>1, <2>2 DEF HoldStep, ReadHold
<1>4. ASSUME NEW m \in Outgoing, SendCommand(c, m)
      PROVE  Turn(c) /\ HoldStep(c) /\ UNCHANGED <<rows, minted, drop, emptied>>
  <2>1. Turn(c) /\ UNCHANGED <<rows, minted, drop, emptied>>
    BY <1>4, Typed DEF SendCommand, Turn
  <2>2. PICK i \in Ids : job' = [job EXCEPT ![c] = [NoJob EXCEPT !.folder = Sent, !.dest = Sent,
                                  !.held = [id |-> i, msg |-> m, seen |-> TRUE, body |-> m]]]
    BY <1>4 DEF SendCommand
  <2>3. job'[c].uid = 0
    BY <2>2, Typed DEF NoJob
  <2>4. QED
    BY <2>1, <2>3, HoldsNothing, StoreAssumption DEF UIDs
<1>5. QED
  BY <1>1, <1>2, <1>3, <1>4

\* What a command holds at the steps after its first.
LEMMA Holding ==
  ASSUME TypeInv, NEW c \in Procs, pc[c] \in MessagePC, pc[c] # "delete"
  PROVE  /\ job[c].held \in Row /\ job[c].held # NoRow
         /\ pc[c] \notin FilePC => job[c].uid \in UIDs
         /\ job[c].uid \in UIDs => Holds(c)
<1>1. job[c].held \in Row /\ (pc[c] \notin FilePC => job[c].uid \in UIDs)
  BY DEF TypeInv, Fits, JobFits
<1>2. job[c].held # NoRow
  BY <1>1, RowTypes
<1>3. pc[c] \in HoldPC
  BY DEF HoldPC, MessagePC
<1>4. QED
  BY <1>1, <1>2, <1>3 DEF Holds

\* What is held is a row.
LEMMA HoldsPlace ==
  ASSUME TypeInv, NEW p \in Procs, Holds(p)
  PROVE  /\ job[p].folder \in Folders /\ job[p].uid \in UIDs
         /\ job[p].held \in Row /\ job[p].held.id \in Ids /\ job[p].held.msg \in Msgs
<1>1. job[p].folder \in Folders /\ job[p].uid \in UIDs /\ job[p].held \in Row
  BY Typed, JobTypes DEF Holds
<1>2. job[p].held.id \in Ids /\ job[p].held.msg \in Msgs
  BY <1>1, RowTypes
<1>3. QED
  BY <1>1, <1>2

LEMMA CommandHolds ==
  ASSUME TypeInv, NEW c \in Clients,
         \/ Retr(c) \/ StoreBody(c) \/ DeleteFromServer(c) \/ StoreFlag(c) \/ RetrMoved(c)
         \/ ReadDestination(c) \/ File(c) \/ Forget(c) \/ AdvanceDestination(c)
         \/ EmptyTrash(c) \/ CommandFails(c)
  PROVE  Turn(c) /\ HoldStep(c) /\ RowsStep(c)
<1> c \in Procs
  BY ProcTypes
<1> USE DEF Goto, Hold, storeVars
<1>0. job[c] \in Job /\ job[c].folder \in Folders /\ job[c].dest \in Folders
  BY Typed, JobTypes
<1>1. ASSUME job[c].held \in Row, NEW b
      PROVE  /\ [job[c] EXCEPT !.held.body = b].folder = job[c].folder
             /\ [job[c] EXCEPT !.held.body = b].uid = job[c].uid
             /\ [job[c] EXCEPT !.held.body = b].held.id = job[c].held.id
             /\ [job[c] EXCEPT !.held.body = b].held.msg = job[c].held.msg
             /\ [job[c] EXCEPT !.held.body = b].held.body = b
  BY <1>0, <1>1 DEF Job, Row
<1>2. ASSUME job'[c].folder = job[c].folder, job'[c].uid = job[c].uid, pc[c] \in MessagePC, pc[c] # "delete",
             job'[c].held.id = job[c].held.id, job'[c].held.msg = job[c].held.msg,
             job'[c].held.body = job[c].held.body \/ BodyRead(c)
      PROVE  HoldStep(c)
  BY <1>2, Holding, HoldsNothing DEF HoldStep, SameHold
<1>3. CASE Retr(c)
  <2>1. UNCHANGED <<rows, minted>>
    BY <1>3 DEF Retr
  <2>2. CASE Leave(c)
    BY <2>1, <2>2, Leaves, RowsAlone, HoldsNothing
  <2>3. CASE ~ Leave(c)
    <3>1. /\ Turn(c) /\ job'[c] = [job[c] EXCEPT !.held.body = sessions[c][job[c].uid]]
          /\ job[c].uid \in DOMAIN sessions[c]
      BY <1>3, <2>3, Typed DEF Retr, Turn, Retrievable
    <3>2. pc[c] \in MessagePC /\ pc[c] # "delete" /\ job[c].held \in Row
      BY <1>3, Holding DEF Retr, MessagePC
    <3>3. HoldStep(c)
      BY <1>1, <1>2, <3>1, <3>2, SMTT(20) DEF BodyRead
    <3>4. QED
      BY <2>1, <3>1, <3>3, RowsAlone
  <2>4. QED
    BY <2>2, <2>3
<1>4. CASE StoreBody(c)
  <2>1. job[c].held.body \in Msgs
    BY <1>4 DEF StoreBody, TypeInv, Fits, JobFits
  <2>2. RowsStep(c)
    <3>1. rows' = SetBody(rows, job[c].held.id, job[c].held.body) /\ minted' = minted
      BY <1>4 DEF StoreBody
    <3>2. \A f \in Folders, u \in UIDs :
            rows'[f][u] # NoRow => rows[f][u] # NoRow /\ rows'[f][u].id = rows[f][u].id
      BY <2>1, <3>1, Typed, SetBodyIs
    <3>3. QED
      BY <3>1, <3>2 DEF RowsStep, OldRows, RowFrom
  <2>3. CASE Leave(c)
    BY <2>2, <2>3, Leaves, HoldsNothing
  <2>4. CASE ~ Leave(c)
    <3>1. Turn(c) /\ pc'[c] = "delete"
      BY <1>4, <2>4, Typed DEF StoreBody, Turn
    <3>2. QED
      BY <2>2, <3>1, HoldsNothing DEF HoldPC, FilePC
  <2>5. QED
    BY <2>3, <2>4
<1>5. CASE DeleteFromServer(c)
  BY <1>5, Leaves, HoldsNothing, RowsAlone DEF DeleteFromServer
<1>6. CASE StoreFlag(c)
  <2>1. job[c].held \in Row /\ Holds(c) /\ job[c].uid \in UIDs
    BY <1>6, Holding DEF StoreFlag, MessagePC, FilePC
  <2>2. /\ [job[c].held EXCEPT !.seen = ~ @] \in Row
        /\ [job[c].held EXCEPT !.seen = ~ @].id = job[c].held.id
    BY <2>1 DEF Row
  <2>3. RowsStep(c)
    BY <1>6, <2>1, <2>2, WritesBack DEF StoreFlag
  <2>4. QED
    BY <1>6, <2>3, Leaves, HoldsNothing DEF StoreFlag
<1>7. CASE RetrMoved(c)
  <2>1. /\ Turn(c) /\ UNCHANGED <<rows, minted>>
        /\ \/ job'[c] = job[c]
           \/ /\ job'[c] = [job[c] EXCEPT !.held.body = sessions[c][job[c].uid]]
              /\ job[c].uid \in DOMAIN sessions[c]
    BY <1>7, Typed DEF RetrMoved, Turn, Retrievable
  <2>2. pc[c] \in MessagePC /\ pc[c] # "delete" /\ job[c].held \in Row
    BY <1>7, Holding DEF RetrMoved, MessagePC
  <2>3. CASE job'[c] = job[c]
    BY <1>2, <2>1, <2>2, <2>3, RowsAlone
  <2>4. CASE job'[c] # job[c]
    <3>1. /\ job'[c] = [job[c] EXCEPT !.held.body = sessions[c][job[c].uid]]
          /\ job[c].uid \in DOMAIN sessions[c]
      BY <2>1, <2>4
    <3>2. /\ job'[c].folder = job[c].folder /\ job'[c].uid = job[c].uid
          /\ job'[c].held.id = job[c].held.id /\ job'[c].held.msg = job[c].held.msg
          /\ job'[c].held.body = sessions[c][job[c].uid]
      BY <1>1, <2>2, <3>1
    <3>3. HoldStep(c)
      BY <1>2, <2>2, <3>1, <3>2 DEF BodyRead
    <3>4. QED
      BY <2>1, <3>3, RowsAlone
  <2>5. QED
    BY <2>3, <2>4
<1>8. CASE ReadDestination(c)
  <2>1. PICK n : job' = [job EXCEPT ![c] = [job[c] EXCEPT !.cursor = n]]
    BY <1>8 DEF ReadDestination
  <2>2. Turn(c) /\ UNCHANGED <<rows, minted>> /\ job'[c] = [job[c] EXCEPT !.cursor = n]
    BY <1>8, <2>1, Typed DEF ReadDestination, Turn
  <2>3. pc[c] \in MessagePC /\ pc[c] # "delete"
    BY <1>8 DEF ReadDestination, MessagePC, FilePC
  <2>4. HoldStep(c)
    BY <1>0, <1>2, <2>2, <2>3 DEF Job
  <2>5. QED
    BY <2>2, <2>4, RowsAlone
<1>9. CASE File(c)
  <2>1. job[c].held \in Row /\ job[c].cursor \in UIDs /\ pc[c] \in MessagePC /\ pc[c] # "delete"
    BY <1>9, Holding DEF File, MessagePC, FilePC
  <2>2. PICK i \in Ids \ minted :
          /\ rows' = UpsertEnvelope(rows, job[c].dest, job[c].cursor, [job[c].held EXCEPT !.id = i])
          /\ minted' = minted \cup {i}
    BY <1>9 DEF File
  <2>3. [job[c].held EXCEPT !.id = i] \in Row /\ [job[c].held EXCEPT !.id = i].id = i
    BY <2>1 DEF Row
  <2>4. RowsStep(c)
    BY <1>0, <2>1, <2>2, <2>3, WritesNew
  <2>5. Turn(c) /\ job'[c] = job[c]
    BY <1>9, Typed DEF File, Turn
  <2>6. QED
    BY <1>2, <2>1, <2>4, <2>5
<1>10. CASE Forget(c)
  <2>1. Turn(c) /\ job'[c] = job[c] /\ minted' = minted
    BY <1>10, Typed DEF Forget, Turn
  <2>2. pc[c] \in MessagePC /\ pc[c] # "delete"
    BY <1>10 DEF Forget, MessagePC, FilePC
  <2>3. \A f \in Folders, u \in UIDs : rows'[f][u] # NoRow => rows'[f][u] = rows[f][u]
    BY <1>0, <1>10, Typed, DeletesAre DEF Forget
  <2>4. QED
    BY <1>2, <2>1, <2>2, <2>3, RowsRemoved
<1>11. CASE AdvanceDestination(c)
  BY <1>11, Leaves, HoldsNothing, RowsAlone DEF AdvanceDestination
<1>12. CASE EmptyTrash(c)
  <2>1. Turn(c) /\ pc'[c] = "ready" /\ minted' = minted
    BY <1>12, Typed DEF EmptyTrash, Turn
  <2>2. rows' = DeleteByFolder(rows, Trash) /\ Trash \in Folders
    BY <1>12, PopAssumption DEF EmptyTrash
  <2>3. \A f \in Folders, u \in UIDs : rows'[f][u] # NoRow => rows'[f][u] = rows[f][u]
    BY <2>2, Typed, DeletesAre
  <2>4. QED
    BY <2>1, <2>3, RowsRemoved, HoldsNothing DEF HoldPC, FilePC
<1>13. CASE CommandFails(c)
  BY <1>13, Leaves, HoldsNothing, RowsAlone DEF CommandFails
<1>14. QED
  BY <1>3, <1>4, <1>5, <1>6, <1>7, <1>8, <1>9, <1>10, <1>11, <1>12, <1>13

\* Whose step it is.
TaskStep(p) == (p \in Workers /\ WorkerStep(p)) \/ (p \in Clients /\ ClientStep(p))

LEMMA NextIs ==
  Next => \/ \E m \in Msgs : Deliver(m) \/ OtherClientRemoves(m)
          \/ \E p \in Procs : TaskStep(p)
BY ProcTypes DEF Next, TaskStep

LEMMA TaskHolds ==
  ASSUME TypeInv, NEW p \in Procs, TaskStep(p)
  PROVE  Turn(p) /\ HoldStep(p) /\ RowsStep(p)
BY WorkerHolds, SyncHolds, CommandStartHolds, CommandHolds, RowsAlone
DEF TaskStep, WorkerStep, ClientStep

-----------------------------------------------------------------------------
(* Each id keeps its one place. *)

LEMMA HomesStart == Init => Homes
BY DEF Init, Homes, Lives, HeldAt, Holds, HoldPC, FilePC

LEMMA HomesStay ==
  ASSUME TypeInv, Homes, [Next]_vars
  PROVE  Homes'
<1>1. CASE UNCHANGED <<rows, pc, job, minted>>
  BY <1>1 DEF Homes, Lives, HeldAt, Holds
<1>2. ASSUME NEW p \in Procs, TaskStep(p) PROVE Homes'
  <2>1. Turn(p) /\ HoldStep(p) /\ RowsStep(p)
    BY <1>2, TaskHolds
  <2>2. ASSUME NEW q \in Procs, NEW i \in Ids, NEW f \in Folders, NEW u \in UIDs, HeldAt(q, i, f, u)'
        PROVE  Lives(i, f, u)
    <3>1. CASE q # p
      BY <2>1, <2>2, <3>1, TurnKeepsOthers DEF HeldAt, Holds, Lives
    <3>2. CASE q = p
      BY <2>1, <2>2, <3>2 DEF HoldStep, SameHold, ReadHold, HeldAt, Lives
    <3>3. QED
      BY <3>1, <3>2
  <2>3. ASSUME NEW i \in Ids, NEW f \in Folders, NEW u \in UIDs,
               rows'[f][u] # NoRow, rows'[f][u].id = i, RowFrom(p, f, u)
        PROVE  Lives(i, f, u)
    BY <2>3 DEF RowFrom, Lives
  <2>4. CASE OldRows(p)
    <3>1. \A i \in Ids, f \in Folders, u \in UIDs : Lives(i, f, u)' => Lives(i, f, u)
      BY <2>2, <2>3, <2>4 DEF OldRows, Lives
    <3>2. QED
      BY <2>4, <3>1 DEF OldRows, Homes
  <2>5. ASSUME NEW i \in Ids \ minted, NEW g \in Folders, NEW v \in UIDs, NewRow(p, i, g, v)
        PROVE  Homes'
    <3>1. \A k \in Ids, f \in Folders, u \in UIDs :
            Lives(k, f, u)' => Lives(k, f, u) \/ (k = i /\ f = g /\ u = v)
      BY <2>2, <2>3, <2>5 DEF NewRow, Lives
    <3>2. minted' = minted \cup {i}
      BY <2>5 DEF NewRow
    <3>3. QED
      BY <3>1, <3>2 DEF Homes
  <2>6. QED
    BY <2>1, <2>4, <2>5 DEF RowsStep
<1>3. QED
  BY <1>1, <1>2, NextIs DEF vars, storeVars, Deliver, OtherClientRemoves

-----------------------------------------------------------------------------
(* Numbers. *)

LEMMA SparedBefore ==
  ASSUME NEW S, causes \subseteq causes', Spared(S)'
  PROVE  Spared(S)
BY DEF Spared

\* A session is new, as it was, empty, or begins where the maildrop is; the
\* maildrop is only made smaller with a cause.
SessionStep(p) ==
  /\ sessions'[p] \in {<<>>, sessions[p], drop}
  /\ drop' = drop \/ "removed" \in causes'
  /\ causes \subseteq causes'
  /\ pc'[p] = "set body" => BodyRead(p)

LEMMA EndsSession ==
  ASSUME TypeInv, NEW p \in Procs, Leave(p)
  PROVE  sessions'[p] \in {<<>>, sessions[p], drop} /\ pc'[p] # "set body"
BY Leaves

LEMMA TaskSessions ==
  ASSUME TypeInv, NEW p \in Procs, TaskStep(p)
  PROVE  SessionStep(p)
<1> USE DEF Goto, Hold
<1>1. ASSUME NEW w \in Workers, p = w,
             \/ Connect(w) \/ ListFolders(w) \/ UpsertListed(w) \/ ReadCursor(w)
             \/ CountChanges(w) \/ SessionEnds(w)
      PROVE  SessionStep(p)
  <2>1. CASE Connect(w)
    BY <1>1, <2>1, Typed DEF Connect, SessionStep
  <2>2. CASE ListFolders(w)
    BY <1>1, <2>2, Typed, StatsAre DEF ListFolders, SessionStep
  <2>3. CASE UpsertListed(w)
    BY <1>1, <2>3, Typed DEF UpsertListed, SessionStep
  <2>4. CASE ReadCursor(w)
    BY <1>1, <2>4, Typed DEF ReadCursor, SessionStep
  <2>5. CASE CountChanges(w)
    BY <1>1, <2>5, Typed, StatsAre DEF CountChanges, SessionStep
  <2>6. CASE SessionEnds(w)
    BY <1>1, <2>6, Typed DEF SessionEnds, SessionStep
  <2>7. QED
    BY <1>1, <2>1, <2>2, <2>3, <2>4, <2>5, <2>6
<1>2. CASE SyncStep(p)
  <2>1. CASE SelectFolder(p)
    BY <2>1, Typed, StatsAre DEF SelectFolder, SessionStep
  <2>2. CASE FetchEnvelopes(p)
    <3>1. CASE Leave(p)
      BY <2>2, <3>1, EndsSession DEF FetchEnvelopes, SessionStep
    <3>2. CASE ~ Leave(p)
      BY <2>2, <3>2, Typed, StatsAre DEF FetchEnvelopes, SessionStep
    <3>3. QED
      BY <3>1, <3>2
  <2>3. CASE LookUp(p)
    BY <2>3, Typed DEF LookUp, SessionStep
  <2>4. CASE Upsert(p)
    BY <2>4, Typed DEF Upsert, SessionStep
  <2>5. CASE Mark(p)
    BY <2>5, EndsSession DEF Mark, SessionStep
  <2>6. QED
    BY <1>2, <2>1, <2>2, <2>3, <2>4, <2>5 DEF SyncStep
<1>3. ASSUME NEW c \in Clients, p = c,
             \/ \E f \in Folders : SyncCommand(c, f)
             \/ \E f \in Folders, u \in UIDs : FetchBodyCommand(c, f, u) \/ SetFlagCommand(c, f, u)
             \/ \E f, dst \in Folders, u \in UIDs : MoveCommand(c, f, u, dst)
             \/ \E m \in Outgoing : SendCommand(c, m)
      PROVE  SessionStep(p)
  <2>1. ASSUME NEW f \in Folders, SyncCommand(c, f) PROVE SessionStep(p)
    BY <1>3, <2>1, Typed DEF SyncCommand, SessionStep
  <2>2. ASSUME NEW f \in Folders, NEW u \in UIDs, FetchBodyCommand(c, f, u) \/ SetFlagCommand(c, f, u)
        PROVE  SessionStep(p)
    BY <1>3, <2>2, Typed DEF FetchBodyCommand, SetFlagCommand, Begin, SessionStep
  <2>3. ASSUME NEW f \in Folders, NEW dst \in Folders, NEW u \in UIDs, MoveCommand(c, f, u, dst)
        PROVE  SessionStep(p)
    BY <1>3, <2>3, Typed DEF MoveCommand, SessionStep
  <2>4. ASSUME NEW m \in Outgoing, SendCommand(c, m) PROVE SessionStep(p)
    BY <1>3, <2>4, Typed DEF SendCommand, SessionStep
  <2>5. QED
    BY <1>3, <2>1, <2>2, <2>3, <2>4
<1>4. ASSUME NEW c \in Clients, p = c,
             \/ Retr(c) \/ StoreBody(c) \/ DeleteFromServer(c) \/ StoreFlag(c) \/ RetrMoved(c)
             \/ ReadDestination(c) \/ File(c) \/ Forget(c) \/ AdvanceDestination(c)
             \/ EmptyTrash(c) \/ CommandFails(c)
      PROVE  SessionStep(p)
  <2>1. CASE Retr(c)
    <3>1. CASE Leave(c)
      BY <1>4, <2>1, <3>1, EndsSession DEF Retr, SessionStep
    <3>2. CASE ~ Leave(c)
      <4>1. job'[c] = [job[c] EXCEPT !.held.body = sessions[c][job[c].uid]]
            /\ job[c] \in Job /\ job[c].held \in Row /\ job[c].uid \in DOMAIN sessions[c]
        BY <1>4, <2>1, <3>2, Typed, Holding DEF Retr, Retrievable, MessagePC
      <4>2. BodyRead(c)
        BY <4>1 DEF BodyRead, Job, Row
      <4>3. QED
        BY <1>4, <2>1, <3>2, <4>2, Typed DEF Retr, SessionStep
    <3>3. QED
      BY <3>1, <3>2
  <2>2. CASE StoreBody(c)
    <3>1. CASE Leave(c)
      BY <1>4, <2>2, <3>1, EndsSession DEF StoreBody, SessionStep
    <3>2. CASE ~ Leave(c)
      BY <1>4, <2>2, <3>2, Typed DEF StoreBody, SessionStep
    <3>3. QED
      BY <3>1, <3>2
  <2>3. CASE DeleteFromServer(c)
    BY <1>4, <2>3, EndsSession DEF DeleteFromServer, SessionStep
  <2>4. CASE StoreFlag(c)
    BY <1>4, <2>4, EndsSession DEF StoreFlag, SessionStep
  <2>5. CASE RetrMoved(c)
    BY <1>4, <2>5, Typed DEF RetrMoved, SessionStep
  <2>6. CASE ReadDestination(c)
    BY <1>4, <2>6, Typed DEF ReadDestination, SessionStep
  <2>7. CASE File(c)
    BY <1>4, <2>7, Typed DEF File, SessionStep
  <2>8. CASE Forget(c)
    BY <1>4, <2>8, Typed DEF Forget, SessionStep
  <2>9. CASE AdvanceDestination(c)
    BY <1>4, <2>9, EndsSession DEF AdvanceDestination, SessionStep
  <2>10. CASE EmptyTrash(c)
    BY <1>4, <2>10, Typed DEF EmptyTrash, SessionStep
  <2>11. CASE CommandFails(c)
    BY <1>4, <2>11, EndsSession DEF CommandFails, SessionStep
  <2>12. QED
    BY <1>4, <2>1, <2>2, <2>3, <2>4, <2>5, <2>6, <2>7, <2>8, <2>9, <2>10, <2>11
<1>5. QED
  BY <1>1, <1>2, <1>3, <1>4 DEF TaskStep, WorkerStep, ClientStep

\* What an arriving message leaves as it was.
LEMMA Delivered ==
  ASSUME TypeInv, NEW m \in Msgs, Deliver(m)
  PROVE  /\ UNCHANGED <<sessions, storeVars, pc, job, emptied, causes>>
         /\ DOMAIN drop \subseteq DOMAIN drop' /\ Len(drop) <= Len(drop')
         /\ \A n \in DOMAIN drop : drop'[n] = drop[n]
         /\ \A n \in DOMAIN drop' : n \in DOMAIN drop \/ n = Len(drop) + 1
<1>1. UNCHANGED <<sessions, storeVars, pc, job, emptied, causes>> /\ drop' = Append(drop, m)
  BY DEF Deliver
<1>2. /\ drop' \in Seq(Msgs) /\ Len(drop') = Len(drop) + 1 /\ Len(drop) \in Nat
      /\ \A n \in 1 .. Len(drop) : drop'[n] = drop[n]
  BY <1>1, Typed, AppendProperties
<1>3. DOMAIN drop = 1 .. Len(drop) /\ DOMAIN drop' = 1 .. Len(drop')
  BY <1>2, Typed, LenProperties
<1>4. QED
  BY <1>1, <1>2, <1>3

LEMMA RemovedBy ==
  ASSUME NEW m, OtherClientRemoves(m)
  PROVE  /\ UNCHANGED <<sessions, storeVars, pc, job, emptied>>
         /\ causes' = causes \cup {"removed"}
BY DEF OtherClientRemoves

LEMMA NumbersStart == Init => NumbersStay
BY EmptySeq DEF Init, NumbersStay, Continues

LEMMA NumbersStayed ==
  ASSUME TypeInv, NumbersStay, [Next]_vars
  PROVE  NumbersStay'
<1>1. CASE UNCHANGED vars
  BY <1>1 DEF vars, NumbersStay, Continues, Spared
<1>2. ASSUME NEW m \in Msgs, Deliver(m) PROVE NumbersStay'
  <2> SUFFICES ASSUME Spared({"removed"}), NEW p \in Procs PROVE Continues(sessions[p])'
    BY <1>2, Delivered DEF NumbersStay, Spared
  <2>1. Continues(sessions[p]) /\ Len(sessions[p]) \in Nat /\ Len(drop) \in Nat
    BY Typed DEF NumbersStay
  <2>2. DOMAIN sessions[p] = 1 .. Len(sessions[p]) /\ DOMAIN drop = 1 .. Len(drop)
    BY Typed, LenProperties
  <2>3. \A n \in DOMAIN sessions[p] : n \in DOMAIN drop
    BY <2>1, <2>2 DEF Continues
  <2>4. drop' \in Seq(Msgs)
    BY <1>2, ServerTyped DEF TypeInv, TypeOK
  <2>5. Len(drop') \in Nat /\ Len(drop) <= Len(drop') /\ sessions' = sessions
    BY <1>2, <2>4, Delivered, LenProperties
  <2>6. Len(sessions[p]) <= Len(drop')
    BY <2>1, <2>5 DEF Continues
  <2>7. \A n \in DOMAIN sessions[p] : sessions[p][n] = drop'[n]
    BY <1>2, <2>1, <2>3, Delivered DEF Continues
  <2>8. QED
    BY <2>5, <2>6, <2>7 DEF Continues
<1>3. ASSUME NEW m \in Msgs, OtherClientRemoves(m) PROVE NumbersStay'
  BY <1>3, RemovedBy DEF NumbersStay, Spared
<1>4. ASSUME NEW p \in Procs, TaskStep(p) PROVE NumbersStay'
  <2> SUFFICES ASSUME Spared({"removed"})', NEW q \in Procs PROVE Continues(sessions[q])'
    BY DEF NumbersStay
  <2>1. SessionStep(p) /\ Turn(p)
    BY <1>4, TaskSessions, TaskHolds
  <2>2. Spared({"removed"}) /\ drop' = drop
    BY <2>1, SparedBefore DEF SessionStep, Spared
  <2>3. Continues(sessions[q])
    BY <2>2 DEF NumbersStay
  <2>4. CASE q # p
    BY <2>1, <2>2, <2>3, <2>4, TurnKeepsOthers DEF Continues
  <2>5. CASE q = p
    <3>1. sessions'[q] \in {<<>>, sessions[q], drop}
      BY <2>1, <2>5 DEF SessionStep
    <3>2. Continues(<<>>) /\ Continues(drop)
      BY Typed, EmptySeq DEF Continues
    <3>3. QED
      BY <2>2, <2>3, <3>1, <3>2 DEF Continues
  <2>6. QED
    BY <2>4, <2>5
<1>5. QED
  BY <1>1, <1>2, <1>3, <1>4, NextIs

-----------------------------------------------------------------------------
(* The Inbox. *)

\* The steps that write to the store's messages.
LEMMA RowsChange ==
  ASSUME TypeInv, NEW p \in Procs, TaskStep(p)
  PROVE  \/ UNCHANGED rows
         \/ Upsert(p)
         \/ p \in Clients /\ (StoreBody(p) \/ StoreFlag(p) \/ File(p) \/ Forget(p) \/ EmptyTrash(p))
BY DEF TaskStep, WorkerStep, ClientStep, SyncStep, Connect, ListFolders, UpsertListed, ReadCursor,
   CountChanges, SessionEnds, SelectFolder, FetchEnvelopes, LookUp, Mark, SyncCommand,
   FetchBodyCommand, SetFlagCommand, Begin, MoveCommand, SendCommand, Retr, DeleteFromServer,
   RetrMoved, ReadDestination, AdvanceDestination, CommandFails, storeVars

LEMMA Removals ==
  ASSUME TypeInv, NEW c \in Clients, Forget(c) \/ EmptyTrash(c)
  PROVE  \A f \in Folders, u \in UIDs : rows'[f][u] # NoRow => rows'[f][u] = rows[f][u]
<1>1. c \in Procs /\ job[c].folder \in Folders /\ Trash \in Folders /\ rows \in Table
  BY ProcTypes, Typed, JobTypes, PopAssumption
<1>2. rows' = DeleteByUid(rows, job[c].folder, job[c].uid) \/ rows' = DeleteByFolder(rows, Trash)
  BY DEF Forget, EmptyTrash
<1>3. QED
  BY <1>1, <1>2, DeletesAre

\* What a message read from a session is.
LEMMA SessionReads ==
  ASSUME NEW p \in Procs, NumbersStay, Spared({"removed"}), NEW n \in DOMAIN sessions[p], TypeInv
  PROVE  n \in DOMAIN drop /\ sessions[p][n] = drop[n]
<1>1. Continues(sessions[p])
  BY DEF NumbersStay
<1>2. DOMAIN sessions[p] = 1 .. Len(sessions[p]) /\ DOMAIN drop = 1 .. Len(drop)
      /\ Len(sessions[p]) \in Nat /\ Len(drop) \in Nat
  BY Typed, LenProperties
<1>3. QED
  BY <1>1, <1>2 DEF Continues

\* Where StoreBody and StoreFlag write.
LEMMA StoreBodyIs ==
  ASSUME TypeInv, NEW c \in Clients, StoreBody(c)
  PROVE  /\ c \in Procs /\ Holds(c) /\ job[c].held.body \in Msgs /\ job[c].held.id \in Ids
         /\ job[c].folder \in Folders /\ job[c].uid \in UIDs
         /\ \A f \in Folders, u \in UIDs : rows[f][u] # NoRow => rows'[f][u] # NoRow
         /\ \A f \in Folders, u \in UIDs : rows'[f][u] # NoRow =>
              /\ rows[f][u] # NoRow /\ rows'[f][u].id = rows[f][u].id
              /\ rows'[f][u].msg = rows[f][u].msg
              /\ rows'[f][u].body = IF rows[f][u].id = job[c].held.id
                                    THEN job[c].held.body ELSE rows[f][u].body
<1>1. c \in Procs /\ pc[c] = "set body" /\ rows' = SetBody(rows, job[c].held.id, job[c].held.body)
  BY ProcTypes DEF StoreBody
<1>2. /\ Holds(c) /\ job[c].held.body \in Msgs /\ job[c].held \in Row /\ job[c].folder \in Folders
      /\ job[c].uid \in UIDs /\ rows \in Table
  BY <1>1, Holding, Typed, JobTypes DEF TypeInv, Fits, JobFits, MessagePC, FilePC
<1>3. job[c].held.id \in Ids
  BY <1>2, RowTypes
<1>4. \A f \in Folders, u \in UIDs :
        /\ (rows'[f][u] = NoRow) = (rows[f][u] = NoRow)
        /\ rows[f][u] # NoRow =>
             /\ rows'[f][u].id = rows[f][u].id
             /\ rows'[f][u].msg = rows[f][u].msg
             /\ rows'[f][u].body = IF rows[f][u].id = job[c].held.id
                                   THEN job[c].held.body ELSE rows[f][u].body
  <2> DEFINE b == job[c].held.body
             i == job[c].held.id
  <2>1. b \in Msgs /\ rows \in Table /\ rows' = SetBody(rows, i, b)
    BY <1>1, <1>2
  <2> HIDE DEF b, i
  <2>2. \A f \in Folders, u \in UIDs :
          /\ (rows'[f][u] = NoRow) = (rows[f][u] = NoRow)
          /\ rows[f][u] # NoRow =>
               /\ rows'[f][u].id = rows[f][u].id
               /\ rows'[f][u].msg = rows[f][u].msg
               /\ rows'[f][u].body = IF rows[f][u].id = i THEN b ELSE rows[f][u].body
    BY <2>1, SetBodyIs
  <2>3. QED
    BY <2>2 DEF b, i
<1>5. QED
  BY <1>1, <1>2, <1>3, <1>4

LEMMA StoreFlagIs ==
  ASSUME TypeInv, NEW c \in Clients, StoreFlag(c)
  PROVE  /\ c \in Procs /\ Holds(c) /\ job[c].folder \in Folders /\ job[c].uid \in UIDs
         /\ \A f \in Folders, u \in UIDs :
              f # job[c].folder \/ u # job[c].uid => rows'[f][u] = rows[f][u]
         /\ LET row == rows[job[c].folder][job[c].uid]
                new == rows'[job[c].folder][job[c].uid]
            IN  /\ new # NoRow /\ new.id = job[c].held.id /\ new.msg = job[c].held.msg
                /\ new.body = IF row = NoRow THEN job[c].held.body ELSE row.body
<1>1. c \in Procs /\ pc[c] = "set flag"
      /\ rows' = UpsertEnvelope(rows, job[c].folder, job[c].uid, [job[c].held EXCEPT !.seen = ~ @])
  BY ProcTypes DEF StoreFlag
<1>2. Holds(c) /\ job[c].held \in Row /\ job[c].uid \in UIDs /\ job[c].folder \in Folders /\ rows \in Table
  BY <1>1, Holding, Typed, JobTypes DEF MessagePC, FilePC
<1>3. /\ [job[c].held EXCEPT !.seen = ~ @] \in Row
      /\ [job[c].held EXCEPT !.seen = ~ @].id = job[c].held.id
      /\ [job[c].held EXCEPT !.seen = ~ @].msg = job[c].held.msg
      /\ [job[c].held EXCEPT !.seen = ~ @].body = job[c].held.body
  BY <1>2 DEF Row
<1> DEFINE r == [job[c].held EXCEPT !.seen = ~ @]
<1>4. r \in Row /\ rows' = UpsertEnvelope(rows, job[c].folder, job[c].uid, r)
  BY <1>1, <1>3
<1>5. r.id = job[c].held.id /\ r.msg = job[c].held.msg /\ r.body = job[c].held.body
  BY <1>3
<1> HIDE DEF r
<1> DEFINE f == job[c].folder
           u == job[c].uid
<1>6. f \in Folders /\ u \in UIDs /\ rows' = UpsertEnvelope(rows, f, u, r)
  BY <1>2, <1>4
<1> HIDE DEF f, u
<1>7. /\ \A g \in Folders, v \in UIDs : g # f \/ v # u => rows'[g][v] = rows[g][v]
      /\ rows'[f][u] # NoRow /\ rows'[f][u].id = r.id /\ rows'[f][u].msg = r.msg
      /\ rows'[f][u].body = IF rows[f][u] = NoRow THEN r.body ELSE rows[f][u].body
  BY <1>2, <1>4, <1>6, UpsertEnvelopeIs, SMTT(20)
<1>8. QED
  BY <1>1, <1>2, <1>5, <1>7 DEF f, u

LEMMA FileIs ==
  ASSUME TypeInv, NEW c \in Clients, File(c)
  PROVE  /\ c \in Procs /\ job[c].dest \in Folders /\ job[c].cursor \in UIDs
         /\ job[c].held \in Row /\ job[c].held # NoRow
         /\ \A f \in Folders, u \in UIDs :
              f # job[c].dest \/ u # job[c].cursor => rows'[f][u] = rows[f][u]
         /\ LET row == rows[job[c].dest][job[c].cursor]
                new == rows'[job[c].dest][job[c].cursor]
            IN  /\ new # NoRow /\ new.id \in Ids \ minted /\ new.msg = job[c].held.msg
                /\ new.body = IF row = NoRow THEN job[c].held.body ELSE row.body
<1>1. c \in Procs /\ pc[c] = "file" /\ job[c].cursor \in UIDs
  BY ProcTypes DEF File
<1>2. PICK i \in Ids \ minted :
        rows' = UpsertEnvelope(rows, job[c].dest, job[c].cursor, [job[c].held EXCEPT !.id = i])
  BY DEF File
<1>3. job[c].held \in Row /\ job[c].held # NoRow /\ job[c].dest \in Folders /\ rows \in Table
  BY <1>1, Holding, Typed, JobTypes DEF MessagePC, FilePC
<1>4. /\ [job[c].held EXCEPT !.id = i] \in Row
      /\ [job[c].held EXCEPT !.id = i].id = i
      /\ [job[c].held EXCEPT !.id = i].msg = job[c].held.msg
      /\ [job[c].held EXCEPT !.id = i].body = job[c].held.body
  BY <1>3 DEF Row
<1> DEFINE r == [job[c].held EXCEPT !.id = i]
<1>5. r \in Row /\ rows' = UpsertEnvelope(rows, job[c].dest, job[c].cursor, r)
  BY <1>2, <1>4
<1>6. r.id = i /\ r.msg = job[c].held.msg /\ r.body = job[c].held.body
  BY <1>4
<1> HIDE DEF r
<1>7. QED
  BY <1>1, <1>2, <1>3, <1>5, <1>6, UpsertEnvelopeIs

LEMMA UpsertWrites ==
  ASSUME TypeInv, NEW p \in Procs, Upsert(p)
  PROVE  /\ job[p].folder \in Folders /\ job[p].uid \in UIDs /\ job[p].uid \in DOMAIN sessions[p]
         /\ job[p].held # NoRow => Holds(p)
         /\ \A f \in Folders, u \in UIDs :
              f # job[p].folder \/ u # job[p].uid => rows'[f][u] = rows[f][u]
         /\ LET row == rows[job[p].folder][job[p].uid]
                new == rows'[job[p].folder][job[p].uid]
            IN  /\ new # NoRow /\ new.msg = sessions[p][job[p].uid]
                /\ new.body = IF row # NoRow THEN row.body
                              ELSE IF job[p].held = NoRow THEN NoMsg ELSE job[p].held.body
<1>1. pc[p] = "upsert" /\ rows \in Table
  BY Typed DEF Upsert
<1>2. PICK i \in Ids :
           /\ job[p].uid \in UIDs /\ job[p].folder \in Folders /\ FromEnvelope(p, i) \in Row
           /\ rows' = UpsertEnvelope(rows, job[p].folder, job[p].uid, FromEnvelope(p, i))
  BY UpsertIs
<1>3. /\ FromEnvelope(p, i).msg = sessions[p][job[p].uid]
      /\ FromEnvelope(p, i).body = IF job[p].held = NoRow THEN NoMsg ELSE job[p].held.body
  BY <1>1, EnvelopeIs
<1>4. job[p].uid \in DOMAIN sessions[p] /\ (job[p].held # NoRow => Holds(p))
  <2>1. job[p].uid \in UIDs
    BY <1>2
  <2>2. QED
    BY <1>1, <2>1 DEF TypeInv, Fits, JobFits, Holds, HoldPC
<1>5. QED
  BY <1>1, <1>2, <1>3, <1>4, UpsertEnvelopeIs

LEMMA InboxWritten ==
  ASSUME TypeInv, Homes, NumbersStay, InboxFits, NEW p \in Procs, TaskStep(p),
         Spared({"removed", "to inbox"}), "to inbox" \notin causes'
  PROVE  \A u \in UIDs : rows'[Inbox][u] # NoRow => Numbered(rows'[Inbox][u], u)
<1> SUFFICES ASSUME NEW u \in UIDs, rows'[Inbox][u] # NoRow PROVE Numbered(rows'[Inbox][u], u)
  OBVIOUS
<1>0. Inbox \in Folders /\ Spared({"removed"})
  BY PopAssumption DEF Spared
<1>1. /\ rows[Inbox][u] # NoRow => Numbered(rows[Inbox][u], u)
      /\ \A q \in Procs : Holds(q) /\ job[q].folder = Inbox => Numbered(job[q].held, job[q].uid)
      /\ \A q \in Procs : pc[q] = "set body" => job[q].uid \in DOMAIN drop /\ job[q].held.body = drop[job[q].uid]
  BY DEF InboxFits
<1>2. CASE rows'[Inbox][u] = rows[Inbox][u]
  BY <1>1, <1>2
<1>3. CASE Upsert(p)
  <2>1. CASE job[p].folder = Inbox /\ job[p].uid = u
    <3>1. u \in DOMAIN drop /\ sessions[p][u] = drop[u]
      BY <1>0, <1>3, <2>1, UpsertWrites, SessionReads
    <3>2. /\ rows'[Inbox][u].msg = drop[u]
          /\ rows'[Inbox][u].body = IF rows[Inbox][u] # NoRow THEN rows[Inbox][u].body
                                    ELSE IF job[p].held = NoRow THEN NoMsg ELSE job[p].held.body
      BY <1>3, <2>1, <3>1, UpsertWrites
    <3>3. rows'[Inbox][u].body \in {NoMsg, drop[u]}
      BY <1>1, <1>3, <2>1, <3>2, UpsertWrites DEF Numbered, Sound
    <3>4. QED
      BY <3>1, <3>2, <3>3 DEF Numbered, Sound
  <2>2. CASE job[p].folder # Inbox \/ job[p].uid # u
    <3>1. \A f \in Folders, v \in UIDs :
            f # job[p].folder \/ v # job[p].uid => rows'[f][v] = rows[f][v]
      BY <1>3, UpsertWrites
    <3>2. rows'[Inbox][u] = rows[Inbox][u]
      BY <1>0, <2>2, <3>1
    <3>3. QED
      BY <1>2, <3>2
  <2>3. QED
    BY <2>1, <2>2
<1>4. CASE p \in Clients /\ StoreBody(p)
  <2>1. /\ rows[Inbox][u] # NoRow /\ rows'[Inbox][u].msg = rows[Inbox][u].msg
        /\ rows'[Inbox][u].body = IF rows[Inbox][u].id = job[p].held.id
                                  THEN job[p].held.body ELSE rows[Inbox][u].body
    BY <1>0, <1>4, StoreBodyIs
  <2>2. CASE rows[Inbox][u].id = job[p].held.id
    <3>1. Lives(job[p].held.id, Inbox, u) /\ Lives(job[p].held.id, job[p].folder, job[p].uid)
      BY <1>0, <1>4, <2>1, <2>2, StoreBodyIs DEF Lives, HeldAt
    <3>2. job[p].held.id \in Ids /\ job[p].folder \in Folders /\ job[p].uid \in UIDs
      BY <1>4, StoreBodyIs
    <3>3. u = job[p].uid
      BY <1>0, <3>1, <3>2 DEF Homes
    <3>4. job[p].held.body = drop[u]
      BY <1>1, <1>4, <3>3 DEF StoreBody
    <3>5. QED
      BY <1>1, <2>1, <2>2, <3>4 DEF Numbered, Sound
  <2>3. CASE rows[Inbox][u].id # job[p].held.id
    BY <1>1, <2>1, <2>3 DEF Numbered, Sound
  <2>4. QED
    BY <2>2, <2>3
<1>5. CASE p \in Clients /\ StoreFlag(p)
  <2>1. CASE job[p].folder = Inbox /\ job[p].uid = u
    <3>1. Numbered(job[p].held, u) /\ job[p].held # NoRow
      BY <1>1, <1>5, <2>1, StoreFlagIs DEF Holds
    <3>2. /\ rows'[Inbox][u].msg = drop[u] /\ u \in DOMAIN drop
          /\ rows'[Inbox][u].body = IF rows[Inbox][u] = NoRow THEN job[p].held.body
                                    ELSE rows[Inbox][u].body
      BY <1>5, <2>1, <3>1, StoreFlagIs DEF Numbered
    <3>3. QED
      BY <1>1, <3>1, <3>2 DEF Numbered, Sound
  <2>2. QED
    BY <1>0, <1>2, <1>5, <2>1, StoreFlagIs
<1>6. CASE p \in Clients /\ File(p)
  <2>1. job[p].dest # Inbox
    BY <1>6 DEF File
  <2>2. QED
    BY <1>0, <1>2, <1>6, <2>1, FileIs
<1>7. CASE p \in Clients /\ (Forget(p) \/ EmptyTrash(p))
  BY <1>0, <1>2, <1>7, Removals
<1>8. QED
  BY <1>2, <1>3, <1>4, <1>5, <1>6, <1>7, RowsChange

LEMMA InboxStart == Init => InboxFits
<1> SUFFICES ASSUME Init PROVE InboxFits
  OBVIOUS
<1>1. Inbox \in Folders /\ \A f \in Folders, u \in UIDs : rows[f][u] = NoRow
  BY PopAssumption DEF Init
<1>2. \A p \in Procs : pc[p] \notin HoldPC /\ pc[p] # "set body"
  BY DEF Init, HoldPC, FilePC
<1>3. QED
  BY <1>1, <1>2 DEF InboxFits, Holds

LEMMA InboxStays ==
  ASSUME TypeInv, Homes, NumbersStay, InboxFits, [Next]_vars
  PROVE  InboxFits'
<1>1. CASE UNCHANGED vars
  BY <1>1 DEF vars, storeVars, InboxFits, Spared, Numbered, Holds
<1>2. ASSUME NEW m \in Msgs, Deliver(m) PROVE InboxFits'
  <2>1. UNCHANGED <<rows, pc, job, causes>>
    BY <1>2, Delivered DEF storeVars
  <2>2. \A r, n : Numbered(r, n) => Numbered(r, n)'
    BY <1>2, Delivered DEF Numbered, Sound
  <2>3. \A n : n \in DOMAIN drop => n \in DOMAIN drop' /\ drop'[n] = drop[n]
    BY <1>2, Delivered
  <2>4. QED
    BY <2>1, <2>2, <2>3 DEF InboxFits, Spared, Numbered, Sound, Holds
<1>3. ASSUME NEW m \in Msgs, OtherClientRemoves(m) PROVE InboxFits'
  BY <1>3, RemovedBy DEF InboxFits, Spared
<1>4. ASSUME NEW p \in Procs, TaskStep(p) PROVE InboxFits'
  <2> SUFFICES ASSUME Spared({"removed", "to inbox"})' PROVE InboxFits'
    BY DEF InboxFits
  <2>1. SessionStep(p) /\ Turn(p) /\ HoldStep(p)
    BY <1>4, TaskSessions, TaskHolds
  <2>2. /\ Spared({"removed", "to inbox"}) /\ "to inbox" \notin causes' /\ "removed" \notin causes'
        /\ Spared({"removed"}) /\ drop' = drop
    BY <2>1, SparedBefore DEF SessionStep, Spared
  <2>3. \A u \in UIDs : rows'[Inbox][u] # NoRow => Numbered(rows'[Inbox][u], u)
    BY <1>4, <2>2, InboxWritten
  <2>4. /\ \A u \in UIDs : rows[Inbox][u] # NoRow => Numbered(rows[Inbox][u], u)
        /\ \A q \in Procs : Holds(q) /\ job[q].folder = Inbox => Numbered(job[q].held, job[q].uid)
        /\ \A q \in Procs : pc[q] = "set body" => job[q].uid \in DOMAIN drop /\ job[q].held.body = drop[job[q].uid]
    BY <2>2 DEF InboxFits
  <2>5. BodyRead(p) => job'[p].uid \in DOMAIN drop /\ job'[p].held.body = drop[job'[p].uid]
    BY <2>2, SessionReads DEF BodyRead
  <2>6. \A q \in Procs : q # p => pc'[q] = pc[q] /\ job'[q] = job[q]
    BY <2>1, TurnKeepsOthers
  <2>7. ASSUME NEW q \in Procs, Holds(q)', job'[q].folder = Inbox
        PROVE  Numbered(job'[q].held, job'[q].uid)
    <3>1. CASE q # p
      BY <2>4, <2>6, <2>7, <3>1 DEF Holds
    <3>2. CASE q = p /\ SameHold(p)
      BY <2>4, <2>5, <2>7, <3>2 DEF SameHold, Numbered, Sound, Holds
    <3>3. CASE q = p /\ ReadHold(p)
      BY <2>4, <2>7, <3>3 DEF ReadHold
    <3>4. QED
      BY <2>1, <2>7, <3>1, <3>2, <3>3 DEF HoldStep
  <2>8. ASSUME NEW q \in Procs, pc'[q] = "set body"
        PROVE  job'[q].uid \in DOMAIN drop /\ job'[q].held.body = drop[job'[q].uid]
    BY <2>1, <2>4, <2>5, <2>6, <2>8 DEF SessionStep
  <2>9. QED
    BY <2>2, <2>3, <2>7, <2>8 DEF InboxFits, Numbered, Sound
<1>5. QED
  BY <1>1, <1>2, <1>3, <1>4, NextIs

-----------------------------------------------------------------------------
(* What is synced, and the ids of the local folders. *)

LEMMA QuietIs ==
  ASSUME Quiet
  PROVE  /\ Spared({"removed"}) /\ Spared({"removed", "to inbox"})
         /\ "removed" \notin causes /\ "to inbox" \notin causes
         /\ "local synced" \notin causes /\ "occupied" \notin causes
BY DEF Quiet, Spared

LEMMA QuietNext == (Quiet => "removed" \notin causes /\ "to inbox" \notin causes
                             /\ "local synced" \notin causes /\ "occupied" \notin causes)'
BY QuietIs, PTL

\* Where a task syncs, and where a move puts its row.
SyncsStep(p) ==
  /\ pc'[p] \in SyncPC \cup {"upsert list"} =>
       \/ job'[p].folder = Inbox
       \/ pc[p] \in SyncPC \cup {"upsert list"} /\ job'[p].folder = job[p].folder
       \/ "local synced" \in causes'
  /\ pc'[p] \in {"forget", "advance"} =>
       \/ pc[p] \in {"forget", "advance"} /\ job'[p].dest = job[p].dest
       \/ job'[p].dest # Inbox
       \/ "to inbox" \in causes'

LEMMA SyncsElsewhere ==
  ASSUME NEW p, pc'[p] \notin SyncPC \cup {"upsert list", "forget", "advance"} \/ job'[p] = NoJob,
         pc'[p] \notin FilePC
  PROVE  SyncsStep(p)
BY JobTypes DEF SyncsStep, FilePC

LEMMA LeavesSyncs ==
  ASSUME TypeInv, NEW p \in Procs, Leave(p)
  PROVE  SyncsStep(p)
BY Leaves, SyncsElsewhere DEF FilePC

LEMMA TaskSyncs ==
  ASSUME TypeInv, NEW p \in Procs, TaskStep(p)
  PROVE  SyncsStep(p)
<1> USE DEF Goto, Hold
<1>0. /\ job[p] \in Job /\ pc \in [Procs -> Steps] /\ job \in [Procs -> Job]
      /\ \A n \in Nat : [NoJob EXCEPT !.cursor = n].folder = Inbox
      /\ \A n \in Nat : [job[p] EXCEPT !.cursor = n].folder = job[p].folder
      /\ folders[Inbox].uid_next \in Nat
  BY Typed, JobTypes, PopAssumption DEF Job, NoJob, FolderRow
<1>1. ASSUME NEW w \in Workers, p = w,
             \/ Connect(w) \/ ListFolders(w) \/ UpsertListed(w) \/ ReadCursor(w)
             \/ CountChanges(w) \/ SessionEnds(w)
      PROVE  SyncsStep(p)
  <2>1. CASE Connect(w) \/ CountChanges(w) \/ SessionEnds(w)
    <3>1. pc'[p] \in {"list", "off"}
      BY <1>0, <1>1, <2>1 DEF Connect, CountChanges, SessionEnds
    <3>2. QED
      BY <3>1, SyncsElsewhere DEF SyncPC, FilePC
  <2>2. CASE ListFolders(w)
    <3>1. pc'[p] = "upsert list" /\ job'[p] = [NoJob EXCEPT !.cursor = folders[Inbox].uid_next]
      BY <1>0, <1>1, <2>2 DEF ListFolders
    <3>2. job'[p].folder = Inbox
      BY <1>0, <3>1
    <3>3. QED
      BY <3>1, <3>2 DEF SyncsStep
  <2>3. CASE UpsertListed(w)
    <3>1. pc'[p] = "select" /\ job'[p] = job[p] /\ pc[p] = "upsert list"
      BY <1>0, <1>1, <2>3 DEF UpsertListed
    <3>2. QED
      BY <3>1 DEF SyncsStep
  <2>4. CASE ReadCursor(w)
    <3>1. /\ pc'[p] = "stat" /\ pc[p] = "select"
          /\ job'[p] = [job[p] EXCEPT !.cursor = folders[Inbox].uid_next]
      BY <1>0, <1>1, <2>4 DEF ReadCursor
    <3>2. job'[p].folder = job[p].folder
      BY <1>0, <3>1
    <3>3. QED
      BY <3>1, <3>2 DEF SyncsStep, SyncPC
  <2>5. QED
    BY <1>1, <2>1, <2>2, <2>3, <2>4
<1>2. ASSUME SyncStep(p) PROVE SyncsStep(p)
  <2>1. CASE Leave(p)
    BY <2>1, LeavesSyncs
  <2>2. CASE ~ Leave(p)
    <3>1. pc[p] \in SyncPC /\ pc'[p] \in SyncPC
      BY <1>0, <1>2, <2>2 DEF SyncStep, SelectFolder, FetchEnvelopes, LookUp, Upsert, Mark, SyncPC
    <3>2. job'[p].folder = job[p].folder
      <4>1. CASE SelectFolder(p)
        <5>1. PICK n : job' = [job EXCEPT ![p] = [job[p] EXCEPT !.next = n]]
          BY <4>1 DEF SelectFolder
        <5>2. QED
          BY <1>0, <5>1 DEF Job
      <4>2. CASE FetchEnvelopes(p)
        <5>1. PICK n : job' = [job EXCEPT ![p] = [job[p] EXCEPT !.todo = n]]
          BY <2>2, <4>2 DEF FetchEnvelopes
        <5>2. QED
          BY <1>0, <5>1 DEF Job
      <4>3. CASE LookUp(p)
        <5>1. PICK n : job' = [job EXCEPT ![p] = [job[p] EXCEPT !.uid = n, !.todo = @ \ {n},
                                                   !.held = rows[job[p].folder][n]]]
          BY <4>3 DEF LookUp
        <5>2. QED
          BY <1>0, <5>1 DEF Job
      <4>4. CASE Upsert(p)
        BY <4>4 DEF Upsert
      <4>5. QED
        BY <1>2, <2>2, <4>1, <4>2, <4>3, <4>4 DEF SyncStep, Mark
    <3>3. QED
      BY <3>1, <3>2 DEF SyncsStep, SyncPC
  <2>3. QED
    BY <2>1, <2>2
<1>3. ASSUME NEW c \in Clients, p = c, NEW f \in Folders, SyncCommand(c, f)
      PROVE  SyncsStep(p)
  <2>1. /\ pc'[p] = "stat" /\ job'[p] = [NoJob EXCEPT !.folder = f, !.cursor = folders[f].uid_next]
        /\ f = Inbox \/ "local synced" \in causes'
    BY <1>0, <1>3 DEF SyncCommand
  <2>2. job'[p].folder = f
    BY <2>1 DEF NoJob
  <2>3. QED
    BY <2>1, <2>2 DEF SyncsStep
<1>4. ASSUME NEW c \in Clients, p = c,
             \/ \E f \in Folders, u \in UIDs : FetchBodyCommand(c, f, u) \/ SetFlagCommand(c, f, u)
             \/ \E f, dst \in Folders, u \in UIDs : MoveCommand(c, f, u, dst)
             \/ \E m \in Outgoing : SendCommand(c, m)
             \/ RetrMoved(c) \/ ReadDestination(c) \/ EmptyTrash(c)
      PROVE  SyncsStep(p)
  <2>1. pc'[p] \in {"retr", "set flag", "retr moved", "destination", "file", "ready"}
    BY <1>0, <1>4 DEF FetchBodyCommand, SetFlagCommand, Begin, MoveCommand, SendCommand,
                      RetrMoved, ReadDestination, EmptyTrash
  <2>2. QED
    BY <2>1 DEF SyncsStep, SyncPC
<1>5. ASSUME NEW c \in Clients, p = c,
             \/ Retr(c) \/ StoreBody(c) \/ DeleteFromServer(c) \/ StoreFlag(c)
             \/ AdvanceDestination(c) \/ CommandFails(c)
      PROVE  SyncsStep(p)
  <2>1. CASE Leave(p)
    BY <2>1, LeavesSyncs
  <2>2. CASE ~ Leave(p)
    <3>1. pc'[p] \in {"set body", "delete"}
      BY <1>0, <1>5, <2>2 DEF Retr, StoreBody, DeleteFromServer, StoreFlag, AdvanceDestination, CommandFails
    <3>2. QED
      BY <3>1, SyncsElsewhere DEF SyncPC, FilePC
  <2>3. QED
    BY <2>1, <2>2
<1>6. ASSUME NEW c \in Clients, p = c, File(c) PROVE SyncsStep(p)
  <2>1. pc'[p] \in {"forget", "advance"} /\ job' = job
        /\ (job[p].dest = Inbox => "to inbox" \in causes')
    BY <1>0, <1>6 DEF File
  <2>2. QED
    BY <2>1 DEF SyncsStep, SyncPC
<1>7. ASSUME NEW c \in Clients, p = c, Forget(c) PROVE SyncsStep(p)
  <2>1. pc[p] = "forget" /\ pc'[p] = "advance" /\ job' = job
    BY <1>0, <1>7 DEF Forget
  <2>2. QED
    BY <2>1 DEF SyncsStep, SyncPC
<1>8. QED
  BY <1>1, <1>2, <1>3, <1>4, <1>5, <1>6, <1>7 DEF TaskStep, WorkerStep, ClientStep

LEMMA SyncsStart == Init => SyncsInbox
BY DEF Init, SyncsInbox, SyncPC

LEMMA SyncsStay ==
  ASSUME TypeInv, SyncsInbox, [Next]_vars
  PROVE  SyncsInbox'
<1>1. CASE UNCHANGED <<pc, job>> /\ (Quiet' => Quiet)
  BY <1>1 DEF SyncsInbox
<1>2. CASE UNCHANGED vars
  BY <1>1, <1>2 DEF vars, Quiet, Spared
<1>3. ASSUME NEW m \in Msgs, Deliver(m) \/ OtherClientRemoves(m) PROVE SyncsInbox'
  BY <1>1, <1>3 DEF Deliver, OtherClientRemoves, Quiet, Spared
<1>4. ASSUME NEW p \in Procs, TaskStep(p) PROVE SyncsInbox'
  <2> SUFFICES ASSUME Quiet', NEW q \in Procs
               PROVE  /\ pc'[q] \in SyncPC \cup {"upsert list"} => job'[q].folder = Inbox
                      /\ pc'[q] \in {"forget", "advance"} => job'[q].dest # Inbox
    BY DEF SyncsInbox
  <2>1. SyncsStep(p) /\ Turn(p) /\ causes \subseteq causes'
    BY <1>4, TaskSyncs, TaskHolds, TaskSessions DEF SessionStep
  <2>2. Quiet
    BY <2>1, SparedBefore DEF Quiet
  <2>3. CASE q # p
    BY <2>1, <2>2, <2>3, TurnKeepsOthers DEF SyncsInbox
  <2>4. CASE q = p
    BY <2>1, <2>2, <2>4, QuietNext DEF SyncsInbox, SyncsStep
  <2>5. QED
    BY <2>3, <2>4
<1>5. QED
  BY <1>2, <1>3, <1>4, NextIs

\* The rows of the local folders mean what their ids did, or are new.
LEMMA LocalRows ==
  ASSUME TypeInv, SyncsInbox, Quiet, NEW p \in Procs, TaskStep(p)
  PROVE  \A f \in Local, u \in UIDs : rows'[f][u] # NoRow =>
           \/ rows[f][u] # NoRow /\ rows'[f][u].id = rows[f][u].id /\ rows'[f][u].msg = rows[f][u].msg
           \/ /\ Holds(p) /\ job[p].folder = f /\ job[p].uid = u
              /\ rows'[f][u].id = job[p].held.id /\ rows'[f][u].msg = job[p].held.msg
           \/ rows'[f][u].id \notin minted /\ p \in Clients /\ File(p)
<1> SUFFICES ASSUME NEW f \in Local, NEW u \in UIDs, rows'[f][u] # NoRow
             PROVE  \/ rows[f][u] # NoRow /\ rows'[f][u].id = rows[f][u].id /\ rows'[f][u].msg = rows[f][u].msg
                    \/ /\ Holds(p) /\ job[p].folder = f /\ job[p].uid = u
                       /\ rows'[f][u].id = job[p].held.id /\ rows'[f][u].msg = job[p].held.msg
                    \/ rows'[f][u].id \notin minted /\ p \in Clients /\ File(p)
  OBVIOUS
<1>0. f \in Folders /\ f # Inbox
  BY DEF Local
<1>1. CASE rows'[f][u] = rows[f][u]
  BY <1>1
<1>2. CASE Upsert(p)
  <2>1. job[p].folder = Inbox
    BY <1>2 DEF SyncsInbox, Upsert, SyncPC
  <2>2. QED
    BY <1>0, <1>1, <1>2, <2>1, UpsertWrites
<1>3. CASE p \in Clients /\ StoreBody(p)
  BY <1>0, <1>3, StoreBodyIs
<1>4. CASE p \in Clients /\ StoreFlag(p)
  <2>1. CASE f = job[p].folder /\ u = job[p].uid
    BY <1>4, <2>1, StoreFlagIs
  <2>2. CASE f # job[p].folder \/ u # job[p].uid
    BY <1>0, <1>1, <1>4, <2>2, StoreFlagIs
  <2>3. QED
    BY <2>1, <2>2
<1>5. CASE p \in Clients /\ File(p)
  <2>1. CASE f = job[p].dest /\ u = job[p].cursor
    BY <1>5, <2>1, FileIs
  <2>2. CASE f # job[p].dest \/ u # job[p].cursor
    BY <1>0, <1>1, <1>5, <2>2, FileIs
  <2>3. QED
    BY <2>1, <2>2
<1>6. CASE p \in Clients /\ (Forget(p) \/ EmptyTrash(p))
  BY <1>0, <1>1, <1>6, Removals
<1>7. QED
  BY <1>1, <1>2, <1>3, <1>4, <1>5, <1>6, RowsChange

LEMMA MeansStep ==
  ASSUME TypeInv, SyncsInbox, Quiet, NEW p \in Procs, TaskStep(p), NEW i, NEW m, Means(i, m)'
  PROVE  \/ Means(i, m)
         \/ /\ i \notin minted
            /\ \E f \in Local, u \in UIDs : rows'[f][u] # NoRow /\ rows'[f][u].id = i /\ rows'[f][u].msg = m
<1>1. Turn(p) /\ HoldStep(p)
  BY TaskHolds
<1>2. CASE \E f \in Local, u \in UIDs : rows'[f][u] # NoRow /\ rows'[f][u].id = i /\ rows'[f][u].msg = m
  <2>1. PICK f \in Local, u \in UIDs : rows'[f][u] # NoRow /\ rows'[f][u].id = i /\ rows'[f][u].msg = m
    BY <1>2
  <2>2. QED
    BY <2>1, LocalRows DEF Means
<1>3. CASE \E q \in Procs : Holds(q)' /\ job'[q].folder \in Local /\ job'[q].held.id = i /\ job'[q].held.msg = m
  <2>1. PICK q \in Procs : Holds(q)' /\ job'[q].folder \in Local /\ job'[q].held.id = i /\ job'[q].held.msg = m
    BY <1>3
  <2>2. CASE q # p
    BY <1>1, <2>1, <2>2, TurnKeepsOthers DEF Means, Holds
  <2>3. CASE q = p /\ SameHold(p)
    BY <2>1, <2>3 DEF SameHold, Means
  <2>4. CASE q = p /\ ReadHold(p)
    BY <2>1, <2>4 DEF ReadHold, Means
  <2>5. QED
    BY <1>1, <2>1, <2>2, <2>3, <2>4 DEF HoldStep
<1>4. QED
  BY <1>2, <1>3 DEF Means

\* What an id means is about a row or a hold of it.
LEMMA MeansLives ==
  ASSUME TypeInv, Homes, NEW i \in Ids, NEW m, Means(i, m)
  PROVE  i \in minted
<1>1. \E f \in Folders, u \in UIDs : Lives(i, f, u)
  <2>1. CASE \E f \in Local, u \in UIDs : rows[f][u] # NoRow /\ rows[f][u].id = i
    BY <2>1 DEF Lives, Local
  <2>2. CASE \E p \in Procs : Holds(p) /\ job[p].folder \in Local /\ job[p].held.id = i
    <3>1. PICK p \in Procs : Holds(p) /\ job[p].folder \in Local /\ job[p].held.id = i
      BY <2>2
    <3>2. job[p].uid \in UIDs
      BY <3>1, HoldsPlace
    <3>3. QED
      BY <3>1, <3>2 DEF Lives, HeldAt, Local
  <2>3. QED
    BY <2>1, <2>2 DEF Means
<1>2. QED
  BY <1>1 DEF Homes

LEMMA IdsStart == Init => IdsAgree
<1> SUFFICES ASSUME Init PROVE IdsAgree
  OBVIOUS
<1>1. \A f \in Folders, u \in UIDs : rows[f][u] = NoRow
  BY DEF Init
<1>2. \A p \in Procs : ~ Holds(p)
  BY DEF Init, Holds, HoldPC, FilePC
<1>3. QED
  BY <1>1, <1>2 DEF IdsAgree, Means, Local

LEMMA IdsStay ==
  ASSUME TypeInv, Homes, SyncsInbox, IdsAgree, [Next]_vars, Homes'
  PROVE  IdsAgree'
<1>1. CASE UNCHANGED <<pc, job, rows>> /\ (Quiet' => Quiet)
  BY <1>1 DEF IdsAgree, Means, Holds
<1>2. CASE UNCHANGED vars
  BY <1>1, <1>2 DEF vars, storeVars, Quiet, Spared
<1>3. ASSUME NEW m \in Msgs, Deliver(m) \/ OtherClientRemoves(m) PROVE IdsAgree'
  BY <1>1, <1>3 DEF Deliver, OtherClientRemoves, storeVars, Quiet, Spared
<1>4. ASSUME NEW p \in Procs, TaskStep(p) PROVE IdsAgree'
  <2> SUFFICES ASSUME Quiet', NEW i \in Ids, NEW m \in Msgs, NEW n \in Msgs, Means(i, m)', Means(i, n)'
               PROVE  m = n
    BY DEF IdsAgree
  <2>1. Quiet
    BY <1>4, TaskSessions, SparedBefore DEF Quiet, SessionStep
  <2>2. CASE i \in minted
    BY <1>4, <2>1, <2>2, MeansStep DEF IdsAgree
  <2>3. CASE i \notin minted
    <3>1. ~ Means(i, m) /\ ~ Means(i, n)
      BY <2>3, MeansLives
    <3>2. PICK f \in Local, u \in UIDs : rows'[f][u] # NoRow /\ rows'[f][u].id = i /\ rows'[f][u].msg = m
      BY <1>4, <2>1, <3>1, MeansStep
    <3>3. PICK g \in Local, v \in UIDs : rows'[g][v] # NoRow /\ rows'[g][v].id = i /\ rows'[g][v].msg = n
      BY <1>4, <2>1, <3>1, MeansStep
    <3>4. Lives(i, f, u)' /\ Lives(i, g, v)' /\ f \in Folders /\ g \in Folders
      BY <3>2, <3>3 DEF Lives, Local
    <3>5. f = g /\ u = v
      BY <3>4 DEF Homes
    <3>6. QED
      BY <3>2, <3>3, <3>5
  <2>4. QED
    BY <2>2, <2>3
<1>5. QED
  BY <1>2, <1>3, <1>4, NextIs

-----------------------------------------------------------------------------
(* The local folders. *)

LEMMA PremisesQuiet ==
  ASSUME causes = {}
  PROVE  Quiet /\ Spared({"removed", "to inbox"}) /\ Spared({"removed"})
BY DEF Quiet, Spared

LEMMA LocalWritten ==
  ASSUME TypeInv, Homes, SyncsInbox, IdsAgree, LocalFits, causes = {}, causes' = {},
         NEW p \in Procs, TaskStep(p)
  PROVE  \A f \in Local, u \in UIDs : rows'[f][u] # NoRow => Whole(rows'[f][u])
<1> SUFFICES ASSUME NEW f \in Local, NEW u \in UIDs, rows'[f][u] # NoRow PROVE Whole(rows'[f][u])
  OBVIOUS
<1>0. f \in Folders /\ f # Inbox /\ Quiet
  BY PremisesQuiet DEF Local
<1>1. /\ rows[f][u] # NoRow => Whole(rows[f][u])
      /\ \A q \in Procs :
           /\ pc[q] \in {"set body", "retr moved"} => job[q].folder = Inbox
           /\ pc[q] = "set flag" /\ job[q].folder \in Local => Whole(job[q].held)
           /\ pc[q] \in {"destination", "file"} => Sound(job[q].held)
  BY DEF LocalFits
<1>2. CASE rows'[f][u] = rows[f][u]
  BY <1>1, <1>2
<1>3. CASE Upsert(p)
  <2>1. job[p].folder = Inbox
    BY <1>0, <1>3 DEF SyncsInbox, Upsert, SyncPC
  <2>2. QED
    BY <1>0, <1>2, <1>3, <2>1, UpsertWrites
<1>4. CASE p \in Clients /\ StoreBody(p)
  <2>1. rows[f][u] # NoRow /\ rows'[f][u].msg = rows[f][u].msg
        /\ rows'[f][u].body = IF rows[f][u].id = job[p].held.id
                              THEN job[p].held.body ELSE rows[f][u].body
    BY <1>0, <1>4, StoreBodyIs
  <2>2. job[p].folder = Inbox
    BY <1>1, <1>4 DEF StoreBody
  <2>3. rows[f][u].id # job[p].held.id
    <3>1. SUFFICES ASSUME rows[f][u].id = job[p].held.id PROVE FALSE
      OBVIOUS
    <3>2. Lives(job[p].held.id, f, u) /\ Lives(job[p].held.id, job[p].folder, job[p].uid)
      BY <1>4, <2>1, <3>1, StoreBodyIs DEF Lives, HeldAt
    <3>3. job[p].held.id \in Ids /\ job[p].folder \in Folders /\ job[p].uid \in UIDs
      BY <1>4, StoreBodyIs
    <3>4. QED
      BY <1>0, <2>2, <3>2, <3>3 DEF Homes
  <2>4. QED
    BY <1>1, <2>1, <2>3 DEF Whole
<1>5. CASE p \in Clients /\ StoreFlag(p)
  <2>1. CASE job[p].folder = f /\ job[p].uid = u
    <3>1. /\ Holds(p) /\ rows'[f][u].msg = job[p].held.msg
          /\ rows'[f][u].body = IF rows[f][u] = NoRow THEN job[p].held.body ELSE rows[f][u].body
      BY <1>5, <2>1, StoreFlagIs
    <3>2. Whole(job[p].held)
      BY <1>1, <1>5, <2>1 DEF StoreFlag
    <3>3. CASE rows[f][u] = NoRow
      BY <3>1, <3>2, <3>3 DEF Whole
    <3>4. CASE rows[f][u] # NoRow
      <4>1. rows[f][u].id = job[p].held.id
        BY <1>0, <1>5, <2>1, <3>4 DEF StoreFlag, Overwrites
      <4>2. Means(job[p].held.id, rows[f][u].msg) /\ Means(job[p].held.id, job[p].held.msg)
        BY <2>1, <3>1, <3>4, <4>1 DEF Means
      <4>3. rows[f][u].msg \in Msgs /\ job[p].held.msg \in Msgs /\ job[p].held.id \in Ids
        BY <1>0, <3>1, <3>4, HoldsPlace, CellIs, RowTypes
      <4>4. rows[f][u].msg = job[p].held.msg
        BY <1>0, <4>2, <4>3 DEF IdsAgree
      <4>5. QED
        BY <1>1, <3>1, <3>4, <4>4 DEF Whole
    <3>5. QED
      BY <3>3, <3>4
  <2>2. CASE job[p].folder # f \/ job[p].uid # u
    BY <1>0, <1>2, <1>5, <2>2, StoreFlagIs
  <2>3. QED
    BY <2>1, <2>2
<1>6. CASE p \in Clients /\ File(p)
  <2>1. CASE job[p].dest = f /\ job[p].cursor = u
    <3>1. /\ rows'[f][u].msg = job[p].held.msg /\ job[p].held # NoRow
          /\ rows'[f][u].body = IF rows[f][u] = NoRow THEN job[p].held.body ELSE rows[f][u].body
      BY <1>6, <2>1, FileIs
    <3>2. rows[f][u] = NoRow /\ job[p].held.body # NoMsg /\ pc[p] = "file"
      BY <1>6, <2>1 DEF File
    <3>3. QED
      BY <1>1, <3>1, <3>2 DEF Sound, Whole
  <2>2. CASE job[p].dest # f \/ job[p].cursor # u
    BY <1>0, <1>2, <1>6, <2>2, FileIs
  <2>3. QED
    BY <2>1, <2>2
<1>7. CASE p \in Clients /\ (Forget(p) \/ EmptyTrash(p))
  BY <1>0, <1>2, <1>7, Removals
<1>8. QED
  BY <1>2, <1>3, <1>4, <1>5, <1>6, <1>7, RowsChange

\* What LocalFits says of one task.
LocalJob(p) ==
  /\ pc[p] \in {"set body", "retr moved"} => job[p].folder = Inbox
  /\ pc[p] = "set flag" /\ job[p].folder \in Local => Whole(job[p].held)
  /\ pc[p] \in {"destination", "file"} => Sound(job[p].held)

LEMMA LocalHolds ==
  ASSUME BodiesInv, causes = {}, causes' = {}, NEW p \in Procs, TaskStep(p)
  PROVE  LocalJob(p)'
<1> USE DEF Goto, Hold
<1>0. /\ TypeInv /\ LocalJob(p) /\ pc \in [Procs -> Steps] /\ job \in [Procs -> Job] /\ job[p] \in Job
      /\ rows \in Table /\ sessions \in [Procs -> Seq(Msgs)]
  BY Typed DEF BodiesInv, LocalFits, LocalJob
<1>1. ASSUME pc'[p] \notin {"retr", "set body", "retr moved", "set flag", "destination", "file"}
      PROVE  LocalJob(p)'
  BY <1>1 DEF LocalJob
<1>2. ASSUME Leave(p) PROVE LocalJob(p)'
  BY <1>0, <1>1, <1>2, Leaves
\* A row read is whole, or of the Inbox and sound.
<1>3. ASSUME NEW f \in Folders, NEW u \in UIDs, rows[f][u] # NoRow
      PROVE  /\ f # Inbox => Whole(rows[f][u]) /\ rows[f][u].body # NoMsg
             /\ Sound(rows[f][u])
  <2>1. rows[f][u] \in Row /\ rows[f][u].msg # NoMsg
    BY <1>0, <1>3, CellIs, RowTypes, StoreAssumption
  <2>2. CASE f = Inbox
    BY <1>3, <2>2, PremisesQuiet DEF BodiesInv, InboxFits, Numbered
  <2>3. CASE f # Inbox
    <3>1. Whole(rows[f][u])
      BY <1>3, <2>3 DEF BodiesInv, LocalFits, Local
    <3>2. QED
      BY <2>1, <2>3, <3>1 DEF Whole, Sound
  <2>4. QED
    BY <2>2, <2>3
<1>4. ASSUME NEW w \in Workers, p = w,
             \/ Connect(w) \/ ListFolders(w) \/ UpsertListed(w) \/ ReadCursor(w)
             \/ CountChanges(w) \/ SessionEnds(w)
      PROVE  LocalJob(p)'
  <2>1. pc'[p] \in {"list", "upsert list", "select", "stat", "off"}
    BY <1>0, <1>4 DEF Connect, ListFolders, UpsertListed, ReadCursor, CountChanges, SessionEnds
  <2>2. QED
    BY <1>1, <2>1
<1>5. ASSUME SyncStep(p) PROVE LocalJob(p)'
  <2>1. CASE Leave(p)
    BY <1>2, <2>1
  <2>2. CASE ~ Leave(p)
    <3>1. pc'[p] \in SyncPC
      BY <1>0, <1>5, <2>2 DEF SyncStep, SelectFolder, FetchEnvelopes, LookUp, Upsert, Mark, SyncPC
    <3>2. QED
      BY <1>1, <3>1 DEF SyncPC
  <2>3. QED
    BY <2>1, <2>2
<1>6. ASSUME NEW c \in Clients, p = c,
             \/ \E f \in Folders : SyncCommand(c, f)
             \/ Forget(c) \/ EmptyTrash(c) \/ File(c)
      PROVE  LocalJob(p)'
  <2>1. pc'[p] \in {"stat", "advance", "ready", "forget"}
    BY <1>0, <1>6 DEF SyncCommand, Forget, EmptyTrash, File
  <2>2. QED
    BY <1>1, <2>1
<1>7. ASSUME NEW c \in Clients, p = c, NEW f \in Folders, NEW u \in UIDs,
             FetchBodyCommand(c, f, u) \/ SetFlagCommand(c, f, u)
      PROVE  LocalJob(p)'
  <2>1. /\ job'[p] = [NoJob EXCEPT !.folder = f, !.uid = u, !.held = rows[f][u]]
        /\ rows[f][u] # NoRow
        /\ \/ pc'[p] = "retr"
           \/ pc'[p] = "set flag"
    BY <1>0, <1>7 DEF FetchBodyCommand, SetFlagCommand, Begin
  <2>2. job'[p].folder = f /\ job'[p].held = rows[f][u]
    BY <2>1 DEF NoJob
  <2>3. QED
    BY <1>3, <2>1, <2>2 DEF LocalJob, Local
<1>8. ASSUME NEW c \in Clients, p = c, NEW f \in Folders, NEW dst \in Folders, NEW u \in UIDs,
             MoveCommand(c, f, u, dst)
      PROVE  LocalJob(p)'
  <2>1. /\ job'[p] = [NoJob EXCEPT !.folder = f, !.uid = u, !.held = rows[f][u], !.dest = dst]
        /\ rows[f][u] # NoRow
        /\ \/ pc'[p] = "retr moved" /\ rows[f][u].body = NoMsg
           \/ pc'[p] = "destination"
    BY <1>0, <1>8 DEF MoveCommand
  <2>2. job'[p].folder = f /\ job'[p].held = rows[f][u]
    BY <2>1 DEF NoJob
  <2>3. QED
    BY <1>3, <2>1, <2>2 DEF LocalJob, Sound
<1>9. ASSUME NEW c \in Clients, p = c, NEW m \in Outgoing, SendCommand(c, m) PROVE LocalJob(p)'
  <2>1. PICK i \in Ids : job' = [job EXCEPT ![c] = [NoJob EXCEPT !.folder = Sent, !.dest = Sent,
                                  !.held = [id |-> i, msg |-> m, seen |-> TRUE, body |-> m]]]
    BY <1>9 DEF SendCommand
  <2>2. job'[p].held = [id |-> i, msg |-> m, seen |-> TRUE, body |-> m]
    BY <1>0, <1>9, <2>1 DEF NoJob
  <2>3. Sound(job'[p].held) /\ pc'[p] = "destination"
    BY <1>0, <1>9, <2>2 DEF Sound, SendCommand
  <2>4. QED
    BY <2>3 DEF LocalJob, Sound
<1>10. ASSUME NEW c \in Clients, p = c, Retr(c) PROVE LocalJob(p)'
  <2>1. CASE Leave(p)
    BY <1>2, <2>1
  <2>2. CASE ~ Leave(p)
    <3>1. /\ pc'[p] = "set body" /\ pc[p] = "retr"
          /\ job'[p] = [job[p] EXCEPT !.held.body = sessions[p][job[p].uid]]
          /\ job[p].folder = Inbox
      BY <1>0, <1>10, <2>2 DEF Retr
    <3>2. job'[p].folder = job[p].folder
      BY <1>0, <3>1 DEF Job
    <3>3. QED
      BY <1>0, <3>1, <3>2 DEF LocalJob
  <2>3. QED
    BY <2>1, <2>2
<1>11. ASSUME NEW c \in Clients, p = c,
              \/ StoreBody(c) \/ DeleteFromServer(c) \/ StoreFlag(c)
              \/ AdvanceDestination(c) \/ CommandFails(c)
       PROVE  LocalJob(p)'
  <2>1. Leave(p) \/ pc'[p] = "delete"
    BY <1>0, <1>11 DEF StoreBody, DeleteFromServer, StoreFlag, AdvanceDestination, CommandFails
  <2>2. QED
    BY <1>1, <1>2, <2>1
<1>12. ASSUME NEW c \in Clients, p = c, RetrMoved(c) PROVE LocalJob(p)'
  <2>1. pc[p] = "retr moved" /\ pc'[p] = "destination"
        /\ \/ job'[p] = job[p]
           \/ /\ job'[p] = [job[p] EXCEPT !.held.body = sessions[p][job[p].uid]]
              /\ job[p].uid \in DOMAIN sessions[p]
    BY <1>0, <1>12 DEF RetrMoved, Retrievable
  <2>2. Holds(p) /\ job[p].held \in Row /\ job[p].folder = Inbox
    BY <1>0, <2>1, Holding DEF MessagePC, FilePC, LocalJob
  <2>3. Numbered(job[p].held, job[p].uid)
    BY <2>2, PremisesQuiet DEF BodiesInv, InboxFits
  <2>4. Sound(job'[p].held)
    <3>1. CASE job'[p] = job[p]
      BY <2>3, <3>1 DEF Numbered
    <3>2. CASE job'[p] # job[p]
      <4>1. /\ job'[p] = [job[p] EXCEPT !.held.body = sessions[p][job[p].uid]]
            /\ job[p].uid \in DOMAIN sessions[p]
        BY <2>1, <3>2
      <4>2. job'[p].held.msg = job[p].held.msg /\ job'[p].held.body = sessions[p][job[p].uid]
        BY <1>0, <2>2, <4>1 DEF Job, Row
      <4>3. sessions[p][job[p].uid] = drop[job[p].uid]
        BY <1>0, <4>1, SessionReads, PremisesQuiet DEF BodiesInv
      <4>4. QED
        BY <2>3, <4>2, <4>3 DEF Numbered, Sound
    <3>3. QED
      BY <3>1, <3>2
  <2>5. QED
    BY <2>1, <2>4 DEF LocalJob, Sound
<1>13. ASSUME NEW c \in Clients, p = c, ReadDestination(c) PROVE LocalJob(p)'
  <2>1. PICK n : job' = [job EXCEPT ![c] = [job[c] EXCEPT !.cursor = n]]
    BY <1>13 DEF ReadDestination
  <2>2. job'[p].held = job[p].held
    BY <1>0, <1>13, <2>1 DEF Job
  <2>3. pc[p] = "destination" /\ pc'[p] = "file"
    BY <1>0, <1>13 DEF ReadDestination
  <2>4. QED
    BY <1>0, <2>2, <2>3 DEF LocalJob, Sound
<1>14. QED
  BY <1>4, <1>5, <1>6, <1>7, <1>8, <1>9, <1>10, <1>11, <1>12, <1>13
  DEF TaskStep, WorkerStep, ClientStep

LEMMA LocalStart == Init => LocalFits
<1> SUFFICES ASSUME Init PROVE LocalFits
  OBVIOUS
<1>1. \A f \in Folders, u \in UIDs : rows[f][u] = NoRow
  BY DEF Init
<1>2. \A p \in Procs : pc[p] \in {"off", "ready"}
  BY DEF Init
<1>3. QED
  BY <1>1, <1>2 DEF LocalFits, Local

LEMMA LocalStays ==
  ASSUME BodiesInv, [Next]_vars
  PROVE  LocalFits'
<1>1. CASE UNCHANGED <<pc, job, rows>> /\ (causes' = {} => causes = {})
  BY <1>1 DEF BodiesInv, LocalFits, Whole, Sound
<1>2. CASE UNCHANGED vars
  BY <1>1, <1>2 DEF vars, storeVars
<1>3. ASSUME NEW m \in Msgs, Deliver(m) \/ OtherClientRemoves(m) PROVE LocalFits'
  BY <1>1, <1>3 DEF Deliver, OtherClientRemoves, storeVars
<1>4. ASSUME NEW p \in Procs, TaskStep(p) PROVE LocalFits'
  <2> SUFFICES ASSUME causes' = {} PROVE LocalFits'
    BY DEF LocalFits
  <2>1. TypeInv /\ Homes /\ SyncsInbox /\ IdsAgree /\ LocalFits
    BY DEF BodiesInv
  <2>2. causes = {} /\ Turn(p)
    BY <1>4, <2>1, TaskSessions, TaskHolds DEF SessionStep
  <2>3. \A f \in Local, u \in UIDs : rows'[f][u] # NoRow => Whole(rows'[f][u])
    BY <1>4, <2>1, <2>2, LocalWritten
  <2>4. ASSUME NEW q \in Procs PROVE LocalJob(q)'
    <3>1. CASE q = p
      BY <1>4, <2>2, <3>1, LocalHolds
    <3>2. CASE q # p
      <4>1. LocalJob(q)
        BY <2>1, <2>2 DEF LocalFits, LocalJob
      <4>2. pc'[q] = pc[q] /\ job'[q] = job[q]
        BY <2>1, <2>2, <3>2, TurnKeepsOthers
      <4>3. QED
        BY <4>1, <4>2 DEF LocalJob, Whole, Sound
    <3>3. QED
      BY <3>1, <3>2
  <2>5. QED
    BY <2>3, <2>4 DEF LocalFits, LocalJob, Whole
<1>5. QED
  BY <1>2, <1>3, <1>4, NextIs

LEMMA BodiesStart == Init => BodiesInv
BY TypesStart, HomesStart, NumbersStart, InboxStart, SyncsStart, IdsStart, LocalStart DEF BodiesInv

LEMMA BodiesStay == BodiesInv /\ [Next]_vars => BodiesInv'
<1> SUFFICES ASSUME BodiesInv, [Next]_vars PROVE BodiesInv'
  OBVIOUS
<1>1. TypeInv /\ Homes /\ NumbersStay /\ InboxFits /\ SyncsInbox /\ IdsAgree
  BY DEF BodiesInv
<1>2. TypeInv' /\ Homes'
  BY <1>1, TypesStay, HomesStay
<1>3. NumbersStay' /\ InboxFits'
  BY <1>1, NumbersStayed, InboxStays
<1>4. SyncsInbox' /\ IdsAgree'
  BY <1>1, <1>2, SyncsStay, IdsStay
<1>5. LocalFits'
  BY LocalStays
<1>6. QED
  BY <1>2, <1>3, <1>4, <1>5 DEF BodiesInv

\* A body is shown under the headers of its own message: in the Inbox as long as
\* nothing is removed from the maildrop or filed into the Inbox, in a local folder
\* as long as none of the recorded causes has come about.
THEOREM BodiesStayTrue == Spec => []BodiesMatch
<1>1. BodiesInv => BodiesMatch
  <2> SUFFICES ASSUME BodiesInv PROVE BodiesMatch
    OBVIOUS
  <2>1. Spared({"removed", "to inbox"}) => \A u \in UIDs : Sound(rows[Inbox][u])
    BY DEF BodiesInv, InboxFits, Numbered, Sound
  <2>2. causes = {} => \A f \in Local, u \in UIDs : Sound(rows[f][u])
    BY DEF BodiesInv, LocalFits, Whole, Sound
  <2>3. QED
    BY <2>1, <2>2 DEF BodiesMatch
<1>2. QED
  BY <1>1, BodiesStart, BodiesStay, PTL DEF Spec

-----------------------------------------------------------------------------
(* What is kept. *)

LEMMA QuietBefore ==
  ASSUME TypeInv, Quiet', NEW p \in Procs, TaskStep(p)
  PROVE  Quiet /\ drop' = drop
BY TaskSessions, SparedBefore, QuietNext DEF Quiet, SessionStep

\* A row that is moved is the one the task holds.
LEMMA MovedMeans ==
  ASSUME BodiesInv, Quiet, NEW c \in Procs, pc[c] \in {"set flag", "file", "forget"},
         NEW f \in Folders, NEW u \in UIDs, job[c].folder = f, job[c].uid = u,
         rows[f][u] # NoRow, f = Inbox \/ rows[f][u].id = job[c].held.id
  PROVE  rows[f][u].msg = job[c].held.msg
<1>1. TypeInv /\ Holds(c)
  BY Holding DEF BodiesInv, MessagePC, FilePC
<1>2. CASE f = Inbox
  BY <1>1, <1>2, QuietIs DEF BodiesInv, InboxFits, Numbered
<1>3. CASE f # Inbox
  <2>1. f \in Local
    BY <1>3 DEF Local
  <2>2. Means(job[c].held.id, rows[f][u].msg) /\ Means(job[c].held.id, job[c].held.msg)
    BY <1>1, <1>3, <2>1 DEF Means
  <2>3. rows[f][u].msg \in Msgs /\ job[c].held.msg \in Msgs /\ job[c].held.id \in Ids
    BY <1>1, HoldsPlace, CellIs, RowTypes
  <2>4. QED
    BY <2>2, <2>3 DEF BodiesInv, IdsAgree
<1>4. QED
  BY <1>2, <1>3

\* A row stays, and stays about its message, unless a move or the Trash takes it.
LEMMA RowsKeep ==
  ASSUME BodiesInv, Quiet, Quiet', NEW p \in Procs, TaskStep(p),
         NEW f \in Folders, NEW u \in UIDs, rows[f][u] # NoRow
  PROVE  \/ /\ rows'[f][u] # NoRow /\ rows'[f][u].msg = rows[f][u].msg
            /\ f # Inbox => rows'[f][u].id = rows[f][u].id
         \/ /\ p \in Clients /\ Forget(p) /\ job[p].folder = f /\ job[p].uid = u
            /\ f = Inbox \/ rows[f][u].id = job[p].held.id
         \/ p \in Clients /\ EmptyTrash(p) /\ rows[f][u].msg \in emptied'
<1>0. TypeInv /\ Spared({"removed"}) /\ "occupied" \notin causes'
  BY QuietIs, QuietNext DEF BodiesInv
<1>1. CASE rows'[f][u] = rows[f][u]
  BY <1>1
<1>2. CASE Upsert(p)
  <2>1. job[p].folder = Inbox
    BY <1>2 DEF BodiesInv, SyncsInbox, Upsert, SyncPC
  <2>2. CASE f = Inbox /\ u = job[p].uid
    <3>1. rows[f][u].msg = drop[u]
      BY <2>2, QuietIs DEF BodiesInv, InboxFits, Numbered
    <3>2. rows'[f][u] # NoRow /\ rows'[f][u].msg = sessions[p][u] /\ u \in DOMAIN sessions[p]
      BY <1>0, <1>2, <2>1, <2>2, UpsertWrites
    <3>3. sessions[p][u] = drop[u]
      BY <1>0, <3>2, SessionReads DEF BodiesInv
    <3>4. QED
      BY <2>2, <3>1, <3>2, <3>3
  <2>3. CASE f # Inbox \/ u # job[p].uid
    <3>1. rows'[f][u] = rows[f][u]
      BY <1>0, <1>2, <2>1, <2>3, UpsertWrites
    <3>2. QED
      BY <1>1, <3>1
  <2>4. QED
    BY <2>2, <2>3
<1>3. CASE p \in Clients /\ StoreBody(p)
  <2>1. rows'[f][u] # NoRow
    BY <1>0, <1>3, StoreBodyIs
  <2>2. rows'[f][u].msg = rows[f][u].msg /\ rows'[f][u].id = rows[f][u].id
    BY <1>0, <1>3, <2>1, StoreBodyIs
  <2>3. QED
    BY <2>1, <2>2
<1>4. CASE p \in Clients /\ StoreFlag(p)
  <2>1. CASE job[p].folder = f /\ job[p].uid = u
    <3>1. rows'[f][u] # NoRow /\ rows'[f][u].msg = job[p].held.msg /\ rows'[f][u].id = job[p].held.id
      BY <1>0, <1>4, <2>1, StoreFlagIs
    <3>2. pc[p] = "set flag" /\ (f = Inbox \/ rows[f][u].id = job[p].held.id)
      BY <1>0, <1>4, <2>1 DEF StoreFlag, Overwrites
    <3>3. rows[f][u].msg = job[p].held.msg
      BY <2>1, <3>2, MovedMeans
    <3>4. QED
      BY <3>1, <3>2, <3>3
  <2>2. CASE job[p].folder # f \/ job[p].uid # u
    BY <1>0, <1>1, <1>4, <2>2, StoreFlagIs
  <2>3. QED
    BY <2>1, <2>2
<1>5. CASE p \in Clients /\ File(p)
  <2>1. job[p].dest # f \/ job[p].cursor # u
    BY <1>0, <1>5 DEF File
  <2>2. QED
    BY <1>0, <1>1, <1>5, <2>1, FileIs
<1>6. CASE p \in Clients /\ Forget(p)
  <2>1. CASE job[p].folder = f /\ job[p].uid = u
    BY <1>0, <1>6, <2>1 DEF Forget, Overwrites
  <2>2. CASE job[p].folder # f \/ job[p].uid # u
    <3>1. rows' = DeleteByUid(rows, job[p].folder, job[p].uid) /\ job[p].folder \in Folders /\ rows \in Table
      BY <1>0, <1>6, Typed, JobTypes DEF Forget
    <3>2. rows'[f][u] = rows[f][u]
      BY <2>2, <3>1, DeletesAre
    <3>3. QED
      BY <1>1, <3>2
  <2>3. QED
    BY <2>1, <2>2
<1>7. CASE p \in Clients /\ EmptyTrash(p)
  <2>1. CASE f = Trash
    BY <1>7, <2>1 DEF EmptyTrash, Stored
  <2>2. CASE f # Trash
    <3>1. rows' = DeleteByFolder(rows, Trash) /\ Trash \in Folders /\ rows \in Table
      BY <1>0, <1>7, Typed, PopAssumption DEF EmptyTrash
    <3>2. rows'[f][u] = rows[f][u]
      BY <2>2, <3>1, DeletesAre
    <3>3. QED
      BY <1>1, <3>2
  <2>3. QED
    BY <2>1, <2>2
<1>8. QED
  BY <1>0, <1>1, <1>2, <1>3, <1>4, <1>5, <1>6, <1>7, RowsChange

\* A task comes to remove a row only by filing its copy.
LEMMA ForgetNext ==
  ASSUME TypeInv, NEW p \in Procs, TaskStep(p), pc'[p] = "forget"
  PROVE  p \in Clients /\ File(p) /\ job' = job /\ pc[p] = "file"
<1>0. pc \in [Procs -> Steps] /\ (p \in Workers => p \notin Clients)
  BY Typed, ProcTypes
<1>1. ~ Leave(p)
  BY Leaves
<1>2. ~ SyncStep(p)
  BY <1>0, <1>1 DEF SyncStep, SelectFolder, FetchEnvelopes, LookUp, Upsert, Mark, Goto
<1>3. ~ (Connect(p) \/ ListFolders(p) \/ UpsertListed(p) \/ ReadCursor(p) \/ CountChanges(p) \/ SessionEnds(p))
  BY <1>0 DEF Connect, ListFolders, UpsertListed, ReadCursor, CountChanges, SessionEnds, Goto
<1>4. p \in Clients /\ ClientStep(p)
  BY <1>2, <1>3 DEF TaskStep, WorkerStep
<1>5. ~ \E f \in Folders : SyncCommand(p, f)
  BY <1>0 DEF SyncCommand, Goto
<1>6. ~ \E f \in Folders, u \in UIDs : FetchBodyCommand(p, f, u) \/ SetFlagCommand(p, f, u)
  BY <1>0 DEF FetchBodyCommand, SetFlagCommand, Begin, Goto
<1>7. ~ \E f, dst \in Folders, u \in UIDs : MoveCommand(p, f, u, dst)
  BY <1>0 DEF MoveCommand, Goto
<1>8. ~ \E m \in Outgoing : SendCommand(p, m)
  BY <1>0 DEF SendCommand, Goto
<1>9. ~ (Retr(p) \/ StoreBody(p) \/ DeleteFromServer(p) \/ StoreFlag(p) \/ RetrMoved(p)
         \/ ReadDestination(p) \/ Forget(p) \/ AdvanceDestination(p) \/ EmptyTrash(p) \/ CommandFails(p))
  BY <1>0, <1>1 DEF Retr, StoreBody, DeleteFromServer, StoreFlag, RetrMoved, ReadDestination, Forget,
                    AdvanceDestination, EmptyTrash, CommandFails, Goto
<1>10. File(p)
  BY <1>2, <1>4, <1>5, <1>6, <1>7, <1>8, <1>9 DEF ClientStep
<1>11. QED
  BY <1>4, <1>10 DEF File

\* A row comes to leave only by its copy being filed.
LEMMA LeavingStep ==
  ASSUME TypeInv, NEW p \in Procs, TaskStep(p), NEW f \in Folders, NEW u \in UIDs, Leaving(f, u)',
         f # Inbox => rows'[f][u].id = rows[f][u].id
  PROVE  \/ Leaving(f, u)
         \/ /\ p \in Clients /\ File(p) /\ job[p].folder = f /\ job[p].uid = u
            /\ f = Inbox \/ rows[f][u].id = job[p].held.id
<1>1. PICK c \in Procs : /\ pc'[c] = "forget" /\ job'[c].folder = f /\ job'[c].uid = u
                         /\ f = Inbox \/ rows'[f][u].id = job'[c].held.id
  BY DEF Leaving
<1>2. CASE c # p
  <2>1. pc'[c] = pc[c] /\ job'[c] = job[c]
    BY <1>2, TaskHolds, TurnKeepsOthers
  <2>2. QED
    BY <1>1, <2>1 DEF Leaving
<1>3. CASE c = p
  <2>1. p \in Clients /\ File(p) /\ job' = job
    BY <1>1, <1>3, ForgetNext
  <2>2. QED
    BY <1>1, <1>3, <2>1
<1>4. QED
  BY <1>2, <1>3

\* A copy that is filed has an id of its own, so no move is about to remove it.
LEMMA FiledStays ==
  ASSUME BodiesInv, Quiet', NEW p \in Clients, File(p)
  PROVE  Stays(job[p].held.msg)'
<1>0. TypeInv /\ p \in Procs /\ job' = job /\ "to inbox" \notin causes'
  BY QuietNext, ProcTypes DEF BodiesInv, File
<1>1. PICK g \in Folders, v \in UIDs :
        /\ g = job[p].dest /\ v = job[p].cursor
        /\ rows'[g][v] # NoRow /\ rows'[g][v].msg = job[p].held.msg /\ rows'[g][v].id \notin minted
  BY <1>0, FileIs
<1>2. g # Inbox
  BY <1>0, <1>1 DEF File
<1>3. ASSUME NEW c \in Procs, pc'[c] = "forget", job'[c].uid \in UIDs
      PROVE  job'[c].held.id \in minted
  <2>1. pc[c] \in {"file", "forget"}
    BY <1>0, <1>3, Typed DEF File, Goto
  <2>2. Holds(c)
    BY <1>0, <1>3, <2>1, Holding DEF MessagePC, FilePC
  <2>3. job[c].folder \in Folders /\ job[c].uid \in UIDs /\ job[c].held.id \in Ids
    BY <1>0, <2>2, HoldsPlace
  <2>4. Lives(job[c].held.id, job[c].folder, job[c].uid)
    BY <2>2 DEF Lives, HeldAt
  <2>5. QED
    BY <1>0, <2>3, <2>4 DEF BodiesInv, Homes
<1>4. ~ Leaving(g, v)'
  <2> SUFFICES ASSUME NEW c \in Procs, pc'[c] = "forget", job'[c].uid = v, rows'[g][v].id = job'[c].held.id
               PROVE  FALSE
    BY <1>0, <1>2 DEF Leaving
  <2>1. QED
    BY <1>1, <1>3
<1>5. job'[p].held.msg = rows'[g][v].msg
  BY <1>0, <1>1
<1>6. \E f \in Folders, u \in UIDs :
        rows'[f][u] # NoRow /\ rows'[f][u].msg = job'[p].held.msg /\ ~ Leaving(f, u)'
  BY <1>1, <1>4, <1>5
<1>7. QED
  BY <1>6 DEF Stays

LEMMA EmptiedGrows ==
  ASSUME NEW p \in Procs, TaskStep(p)
  PROVE  emptied \subseteq emptied'
BY DEF TaskStep, WorkerStep, ClientStep, SyncStep, Connect, ListFolders, UpsertListed, ReadCursor,
   CountChanges, SessionEnds, SelectFolder, FetchEnvelopes, LookUp, Upsert, Mark, SyncCommand,
   FetchBodyCommand, SetFlagCommand, Begin, MoveCommand, SendCommand, Retr, StoreBody,
   DeleteFromServer, StoreFlag, RetrMoved, ReadDestination, File, Forget, AdvanceDestination,
   EmptyTrash, CommandFails

LEMMA StaysStep ==
  ASSUME BodiesInv, Quiet', NEW p \in Procs, TaskStep(p), NEW m, Stays(m)
  PROVE  Stays(m)'
<1>0. TypeInv /\ Quiet
  BY QuietBefore DEF BodiesInv
<1>1. CASE m \in emptied
  BY <1>1, EmptiedGrows DEF Stays
<1>2. CASE m \notin emptied
  <2>1. PICK f \in Folders, u \in UIDs : rows[f][u] # NoRow /\ rows[f][u].msg = m /\ ~ Leaving(f, u)
    BY <1>2 DEF Stays
  <2>2. CASE /\ rows'[f][u] # NoRow /\ rows'[f][u].msg = m
             /\ f # Inbox => rows'[f][u].id = rows[f][u].id
    <3>1. CASE ~ Leaving(f, u)'
      BY <2>2, <3>1 DEF Stays
    <3>2. CASE Leaving(f, u)'
      <4>1. /\ p \in Clients /\ File(p) /\ job[p].folder = f /\ job[p].uid = u
            /\ f = Inbox \/ rows[f][u].id = job[p].held.id
        BY <1>0, <2>1, <2>2, <3>2, LeavingStep
      <4>2. m = job[p].held.msg /\ job' = job
        BY <1>0, <2>1, <4>1, MovedMeans DEF File
      <4>3. Stays(job[p].held.msg)'
        BY <4>1, FiledStays
      <4>4. QED
        BY <4>2, <4>3 DEF Stays
    <3>3. QED
      BY <3>1, <3>2
  <2>3. CASE /\ p \in Clients /\ Forget(p) /\ job[p].folder = f /\ job[p].uid = u
             /\ f = Inbox \/ rows[f][u].id = job[p].held.id
    BY <2>1, <2>3 DEF Leaving, Forget
  <2>4. CASE m \in emptied'
    BY <2>4 DEF Stays
  <2>5. QED
    BY <1>0, <2>1, <2>2, <2>3, <2>4, RowsKeep
<1>3. QED
  BY <1>1, <1>2

\* What is in the store at all also has a row that stays.
LEMMA KeptStays ==
  ASSUME BodiesInv, Copied, Quiet, NEW m, Kept(m)
  PROVE  Stays(m)
<1>1. CASE m \in emptied
  BY <1>1 DEF Stays
<1>2. CASE InSomeFolder(m)
  <2>1. PICK f \in Folders, u \in UIDs : rows[f][u] # NoRow /\ rows[f][u].msg = m
    BY <1>2 DEF InSomeFolder
  <2>2. CASE Leaving(f, u)
    <3>1. PICK c \in Procs : /\ pc[c] = "forget" /\ job[c].folder = f /\ job[c].uid = u
                             /\ f = Inbox \/ rows[f][u].id = job[c].held.id
      BY <2>2 DEF Leaving
    <3>2. m = job[c].held.msg
      BY <2>1, <3>1, MovedMeans
    <3>3. QED
      BY <3>1, <3>2 DEF Copied
  <2>3. CASE ~ Leaving(f, u)
    BY <2>1, <2>3 DEF Stays
  <2>4. QED
    BY <2>2, <2>3
<1>3. QED
  BY <1>1, <1>2 DEF Kept

LEMMA KeptStep ==
  ASSUME BodiesInv, Copied, Quiet', NEW p \in Procs, TaskStep(p), NEW m, Kept(m)
  PROVE  Kept(m)'
<1>1. Quiet
  BY QuietBefore DEF BodiesInv
<1>2. Stays(m)
  BY <1>1, KeptStays
<1>3. Stays(m)'
  BY <1>2, StaysStep
<1>4. QED
  BY <1>3 DEF Stays, Kept, InSomeFolder

LEMMA CopiedStart == Init => Copied
BY DEF Init, Copied

LEMMA CopiedStays ==
  ASSUME BodiesInv, Copied, [Next]_vars
  PROVE  Copied'
<1>1. CASE UNCHANGED <<pc, job, rows, emptied>> /\ (Quiet' => Quiet)
  BY <1>1 DEF Copied, Stays, Leaving
<1>2. CASE UNCHANGED vars
  BY <1>1, <1>2 DEF vars, storeVars, Quiet, Spared
<1>3. ASSUME NEW m \in Msgs, Deliver(m) \/ OtherClientRemoves(m) PROVE Copied'
  BY <1>1, <1>3 DEF Deliver, OtherClientRemoves, storeVars, Quiet, Spared
<1>4. ASSUME NEW p \in Procs, TaskStep(p) PROVE Copied'
  <2> SUFFICES ASSUME Quiet', NEW q \in Procs, pc'[q] = "forget", job'[q].uid \in UIDs
               PROVE  Stays(job[q].held.msg)' 
    BY DEF Copied
  <2>0. TypeInv /\ Quiet
    BY <1>4, QuietBefore DEF BodiesInv
  <2>1. CASE q = p
    <3>1. p \in Clients /\ File(p)
      BY <1>4, <2>0, <2>1, ForgetNext
    <3>2. QED
      BY <2>1, <3>1, FiledStays
  <2>2. CASE q # p
    <3>1. pc'[q] = pc[q] /\ job'[q] = job[q]
      BY <1>4, <2>0, <2>2, TaskHolds, TurnKeepsOthers
    <3>2. Stays(job[q].held.msg)
      BY <2>0, <3>1 DEF Copied
    <3>3. \A m : Stays(m) => Stays(m)'
      BY <1>4, StaysStep
    <3>4. QED
      BY <3>1, <3>2, <3>3 DEF Stays
  <2>3. QED
    BY <2>1, <2>2
<1>5. QED
  BY <1>2, <1>3, <1>4, NextIs

-----------------------------------------------------------------------------
(* What a cursor has passed. *)

\* A cursor's past is kept by a step of a task.
LEMMA PassedStep ==
  ASSUME BodiesInv, Copied, Quiet', NEW p \in Procs, TaskStep(p), NEW n, Passed(n)
  PROVE  Passed(n)'
<1>1. drop' = drop
  BY QuietBefore DEF BodiesInv
<1>2. \A k \in DOMAIN drop : k < n => Kept(drop[k])'
  <2>1. \A m : Kept(m) => Kept(m)'
    BY KeptStep
  <2>2. QED
    BY <1>1, <2>1 DEF Passed, Kept, InSomeFolder
<1>3. QED
  BY <1>1, <1>2 DEF Passed, Kept, InSomeFolder

\* What the step of a sync reads and finds.
LEMMA DomainsAre ==
  ASSUME TypeInv, NEW s \in Seq(Msgs)
  PROVE  DOMAIN s = 1 .. Len(s) /\ Len(s) \in Nat /\ DOMAIN drop = 1 .. Len(drop) /\ Len(drop) \in Nat
BY Typed, LenProperties

\* seqs_for leaves nothing out between the cursor and the next uid.
LEMMA SeqsForIs ==
  ASSUME TypeInv, NEW p \in Procs, NEW scan \in BOOLEAN, NEW s \in Seq(Msgs),
         NEW k \in Nat, 1 <= k, job[p].cursor <= k, k < job[p].next, job[p].next <= Len(s) + 1
  PROVE  k \in SeqsFor(p, scan, Len(s)) \cap DOMAIN s
<1>1. job[p].cursor \in Nat /\ job[p].next \in Nat /\ Len(s) \in Nat /\ DOMAIN s = 1 .. Len(s)
  BY Typed, JobTypes, LenProperties
<1>2. k \in DOMAIN s
  BY <1>1
<1>3. k \in SeqsFor(p, scan, Len(s))
  BY <1>1 DEF SeqsFor
<1>4. QED
  BY <1>2, <1>3

LEMMA FetchLists ==
  ASSUME LossInv, Quiet, Quiet', NEW p \in Procs, FetchEnvelopes(p), ~ Leave(p)
  PROVE  ListsAll(p)'
<1>0. /\ TypeInv /\ pc[p] = "fetch" /\ pc \in [Procs -> Steps] /\ job \in [Procs -> Job]
      /\ sessions \in [Procs -> Seq(Msgs)] /\ job[p] \in Job
      /\ UNCHANGED <<rows, emptied, drop>>
  BY Typed DEF LossInv, BodiesInv, FetchEnvelopes, storeVars
<1>1. Passed(job[p].cursor) /\ job[p].next <= Len(sessions[p]) + 1
  BY <1>0 DEF LossInv, Listed, ListsAll
<1>2. PICK scan \in BOOLEAN, s \in Stats(sessions[p]) :
        /\ sessions' = [sessions EXCEPT ![p] = s]
        /\ job' = [job EXCEPT ![p] = [job[p] EXCEPT !.todo = SeqsFor(p, scan, Len(s)) \cap DOMAIN s]]
        /\ pc' = [pc EXCEPT ![p] = IF SeqsFor(p, scan, Len(s)) \cap DOMAIN s = {} THEN "mark" ELSE "lookup"]
  BY DEF FetchEnvelopes, Hold, Goto
<1> DEFINE seqs == SeqsFor(p, scan, Len(s)) \cap DOMAIN s
<1>3. /\ sessions'[p] = s /\ job'[p] = [job[p] EXCEPT !.todo = seqs]
      /\ pc'[p] = IF seqs = {} THEN "mark" ELSE "lookup"
  BY <1>0, <1>2
<1>4. job'[p].todo = seqs /\ job'[p].next = job[p].next
  BY <1>0, <1>3 DEF Job
<1>5. s \in Seq(Msgs) /\ (s = sessions[p] \/ (s = drop /\ Continues(sessions[p])))
  BY <1>0, StatsAre, Typed
<1>6. job[p].next <= Len(s) + 1 /\ job[p].next \in Nat /\ Len(s) \in Nat /\ job[p].cursor \in Nat
  BY <1>0, <1>1, <1>5, Typed, JobTypes, LenProperties DEF Continues
<1>7. \A k \in DOMAIN drop : k < job[p].next => Kept(drop[k]) \/ k \in seqs
  <2> SUFFICES ASSUME NEW k \in DOMAIN drop, k < job[p].next PROVE Kept(drop[k]) \/ k \in seqs
    OBVIOUS
  <2>1. k \in Nat /\ 1 <= k
    BY <1>0, Typed, LenProperties
  <2>2. CASE k < job[p].cursor
    BY <1>1, <2>2 DEF Passed
  <2>3. CASE ~ (k < job[p].cursor)
    <3>1. job[p].cursor <= k
      BY <1>6, <2>1, <2>3
    <3>2. k \in SeqsFor(p, scan, Len(s)) \cap DOMAIN s
      BY <1>0, <1>5, <1>6, <2>1, <3>1, SeqsForIs
    <3>3. QED
      BY <3>2
  <2>4. QED
    BY <2>2, <2>3
<1> HIDE DEF seqs
<1>8. \A m : Kept(m) => Kept(m)'
  BY <1>0 DEF Kept, InSomeFolder
<1>9. \A k \in DOMAIN drop' : k < job'[p].next => Kept(drop[k])' \/ k \in job'[p].todo
  BY <1>0, <1>4, <1>7, <1>8 DEF Kept, InSomeFolder
<1>10. job'[p].next <= Len(sessions'[p]) + 1
  BY <1>3, <1>4, <1>6
<1>11. pc'[p] \in {"mark", "lookup"} /\ (pc'[p] = "mark" => job'[p].todo = {})
  BY <1>3, <1>4
<1>12. QED
  BY <1>9, <1>10, <1>11 DEF ListsAll, Kept, InSomeFolder

ListPC == {"upsert list", "stat", "fetch", "lookup", "upsert", "mark"}

LEMMA ListsNothing ==
  ASSUME NEW p, pc'[p] \notin ListPC
  PROVE  ListsAll(p)'
BY DEF ListPC, ListsAll

LEMMA SyncLists ==
  ASSUME LossInv, Quiet', NEW p \in Procs, SyncStep(p), TaskStep(p)
  PROVE  ListsAll(p)'
<1> USE DEF Goto, Hold
<1>0. /\ BodiesInv /\ Copied /\ TypeInv /\ Quiet /\ drop' = drop /\ ListsAll(p)
      /\ pc \in [Procs -> Steps] /\ job \in [Procs -> Job] /\ sessions \in [Procs -> Seq(Msgs)]
      /\ job[p] \in Job
  BY QuietBefore, Typed DEF LossInv, BodiesInv, Listed
<1>1. ASSUME Leave(p) PROVE ListsAll(p)'
  BY <1>0, <1>1, Leaves, ListsNothing DEF ListPC
<1>2. CASE SelectFolder(p)
  <2>1. PICK s \in Stats(sessions[p]) :
          /\ sessions' = [sessions EXCEPT ![p] = s]
          /\ job' = [job EXCEPT ![p] = [job[p] EXCEPT !.next = Len(s) + 1]]
    BY <1>2 DEF SelectFolder
  <2>2. pc[p] = "stat" /\ pc'[p] = "fetch" /\ sessions'[p] = s
        /\ job'[p] = [job[p] EXCEPT !.next = Len(s) + 1]
    BY <1>0, <1>2, <2>1 DEF SelectFolder
  <2>3. job'[p].cursor = job[p].cursor /\ job'[p].next = Len(s) + 1
    BY <1>0, <2>2 DEF Job
  <2>4. Passed(job[p].cursor)
    BY <1>0, <2>2 DEF ListsAll
  <2>5. \A n : Passed(n) => Passed(n)'
    BY <1>0, PassedStep
  <2>6. Passed(job[p].cursor)'
    BY <2>3, <2>4, <2>5 DEF Passed
  <2>7. s \in Seq(Msgs) /\ Len(s) \in Nat
    BY <1>0, Typed, StatsAre, LenProperties
  <2>8. job'[p].next <= Len(sessions'[p]) + 1
    BY <2>2, <2>3, <2>7
  <2>9. QED
    BY <2>2, <2>6, <2>8 DEF ListsAll
<1>3. CASE FetchEnvelopes(p)
  BY <1>0, <1>1, <1>3, FetchLists
<1>4. CASE LookUp(p)
  <2>1. PICK n \in job[p].todo :
          job' = [job EXCEPT ![p] = [job[p] EXCEPT !.uid = n, !.todo = @ \ {n},
                                                   !.held = rows[job[p].folder][n]]]
    BY <1>4 DEF LookUp
  <2>2. /\ pc[p] = "lookup" /\ pc'[p] = "upsert" /\ sessions' = sessions
        /\ job'[p] = [job[p] EXCEPT !.uid = n, !.todo = @ \ {n}, !.held = rows[job[p].folder][n]]
        /\ UNCHANGED <<rows, emptied>>
    BY <1>0, <1>4, <2>1 DEF LookUp, storeVars
  <2>3. job'[p].next = job[p].next /\ job'[p].todo = job[p].todo \ {n} /\ job'[p].uid = n
    BY <1>0, <2>2 DEF Job
  <2>4. job'[p].next <= Len(sessions'[p]) + 1
    BY <1>0, <2>2, <2>3 DEF ListsAll
  <2>5. \A k \in DOMAIN drop : k < job'[p].next => Kept(drop[k]) \/ k \in job'[p].todo \/ k = job'[p].uid
    BY <1>0, <2>2, <2>3 DEF ListsAll
  <2>6. QED
    BY <1>0, <2>2, <2>4, <2>5 DEF ListsAll, Kept, InSomeFolder
<1>5. CASE Upsert(p)
  <2>1. /\ pc[p] = "upsert" /\ sessions' = sessions /\ job' = job
        /\ pc'[p] = IF job[p].todo = {} THEN "mark" ELSE "lookup"
    BY <1>0, <1>5 DEF Upsert
  <2>2. job'[p].next <= Len(sessions'[p]) + 1
    BY <1>0, <2>1 DEF ListsAll
  <2>3. \A k \in DOMAIN drop : k < job[p].next => Kept(drop[k]) \/ k \in job[p].todo \/ k = job[p].uid
    BY <1>0, <2>1 DEF ListsAll
  <2>4. \A m : Kept(m) => Kept(m)'
    BY <1>0, KeptStep
  <2>5. ASSUME NEW k \in DOMAIN drop, k = job[p].uid PROVE Kept(drop[k])'
    <3>1. job[p].folder \in Folders /\ k \in UIDs /\ rows'[job[p].folder][k] # NoRow
          /\ rows'[job[p].folder][k].msg = sessions[p][k] /\ k \in DOMAIN sessions[p]
      BY <1>0, <1>5, <2>5, UpsertWrites
    <3>2. sessions[p][k] = drop[k]
      BY <1>0, <3>1, SessionReads, QuietIs DEF BodiesInv
    <3>3. QED
      BY <1>0, <3>1, <3>2 DEF Kept, InSomeFolder
  <2>6. \A k \in DOMAIN drop : k < job[p].next => Kept(drop[k])' \/ k \in job[p].todo
    BY <1>0, <2>3, <2>4, <2>5 DEF Kept, InSomeFolder
  <2>7. pc'[p] \in {"mark", "lookup"} /\ (pc'[p] = "mark" => job[p].todo = {})
    BY <2>1
  <2>8. QED
    BY <1>0, <2>1, <2>2, <2>6, <2>7 DEF ListsAll, Kept, InSomeFolder
<1>6. CASE Mark(p)
  BY <1>1, <1>6 DEF Mark
<1>7. QED
  BY <1>2, <1>3, <1>4, <1>5, <1>6 DEF SyncStep

LEMMA TaskLists ==
  ASSUME LossInv, Quiet', NEW p \in Procs, TaskStep(p)
  PROVE  ListsAll(p)'
<1> USE DEF Goto, Hold
<1>0. /\ BodiesInv /\ Copied /\ TypeInv /\ Quiet /\ drop' = drop /\ Passed(folders[Inbox].uid_next)
      /\ pc \in [Procs -> Steps] /\ job \in [Procs -> Job] /\ job[p] \in Job
      /\ folders[Inbox].uid_next \in Nat
  BY QuietBefore, Typed, PopAssumption DEF LossInv, BodiesInv, Listed, FolderRow
<1>1. ASSUME Leave(p) PROVE ListsAll(p)'
  BY <1>0, <1>1, Leaves, ListsNothing DEF ListPC
<1>2. ASSUME pc'[p] \in {"upsert list", "stat"}, job'[p].cursor = folders[Inbox].uid_next
      PROVE  ListsAll(p)'
  <2>1. \A n : Passed(n) => Passed(n)'
    BY <1>0, PassedStep
  <2>2. Passed(job[p].cursor)'
    BY <1>0, <1>2, <2>1 DEF Passed
  <2>3. QED
    BY <1>2, <2>2 DEF ListsAll
<1>3. ASSUME NEW w \in Workers, p = w,
             \/ Connect(w) \/ ListFolders(w) \/ UpsertListed(w) \/ ReadCursor(w)
             \/ CountChanges(w) \/ SessionEnds(w)
      PROVE  ListsAll(p)'
  <2>1. CASE Connect(w) \/ UpsertListed(w) \/ CountChanges(w) \/ SessionEnds(w)
    <3>1. pc'[p] \in {"list", "select", "off"}
      BY <1>0, <1>3, <2>1 DEF Connect, UpsertListed, CountChanges, SessionEnds
    <3>2. QED
      BY <3>1, ListsNothing DEF ListPC
  <2>2. CASE ListFolders(w)
    <3>1. pc'[p] = "upsert list" /\ job'[p] = [NoJob EXCEPT !.cursor = folders[Inbox].uid_next]
      BY <1>0, <1>3, <2>2 DEF ListFolders
    <3>2. QED
      BY <1>2, <3>1 DEF NoJob
  <2>3. CASE ReadCursor(w)
    <3>1. pc'[p] = "stat" /\ job'[p] = [job[p] EXCEPT !.cursor = folders[Inbox].uid_next]
      BY <1>0, <1>3, <2>3 DEF ReadCursor
    <3>2. job'[p].cursor = folders[Inbox].uid_next
      BY <1>0, <3>1 DEF Job
    <3>3. QED
      BY <1>2, <3>1, <3>2
  <2>4. QED
    BY <1>3, <2>1, <2>2, <2>3
<1>4. ASSUME NEW c \in Clients, p = c, NEW f \in Folders, SyncCommand(c, f) PROVE ListsAll(p)'
  <2>1. /\ pc'[p] = "stat" /\ job'[p] = [NoJob EXCEPT !.folder = f, !.cursor = folders[f].uid_next]
        /\ f = Inbox
    BY <1>0, <1>4, QuietNext DEF SyncCommand
  <2>2. QED
    BY <1>2, <2>1 DEF NoJob
<1>5. ASSUME NEW c \in Clients, p = c,
             \/ \E f \in Folders, u \in UIDs : FetchBodyCommand(c, f, u) \/ SetFlagCommand(c, f, u)
             \/ \E f, dst \in Folders, u \in UIDs : MoveCommand(c, f, u, dst)
             \/ \E m \in Outgoing : SendCommand(c, m)
             \/ RetrMoved(c) \/ ReadDestination(c) \/ EmptyTrash(c) \/ File(c) \/ Forget(c)
      PROVE  ListsAll(p)'
  <2>1. pc'[p] \in {"retr", "set flag", "retr moved", "destination", "file", "ready", "forget", "advance"}
    BY <1>0, <1>5 DEF FetchBodyCommand, SetFlagCommand, Begin, MoveCommand, SendCommand,
                      RetrMoved, ReadDestination, EmptyTrash, File, Forget
  <2>2. QED
    BY <2>1, ListsNothing DEF ListPC
<1>6. ASSUME NEW c \in Clients, p = c,
             \/ Retr(c) \/ StoreBody(c) \/ DeleteFromServer(c) \/ StoreFlag(c)
             \/ AdvanceDestination(c) \/ CommandFails(c)
      PROVE  ListsAll(p)'
  <2>1. Leave(p) \/ pc'[p] \in {"set body", "delete"}
    BY <1>0, <1>6 DEF Retr, StoreBody, DeleteFromServer, StoreFlag, AdvanceDestination, CommandFails
  <2>2. QED
    BY <1>1, <2>1, ListsNothing DEF ListPC
<1>7. QED
  BY <1>3, <1>4, <1>5, <1>6, SyncLists DEF TaskStep, WorkerStep, ClientStep

\* Who writes the Inbox's cursor.
LEMMA CursorWrites ==
  ASSUME TypeInv, NEW p \in Procs, TaskStep(p)
  PROVE  \/ folders'[Inbox] = folders[Inbox]
         \/ pc[p] = "upsert list" /\ folders'[Inbox].uid_next = job[p].cursor
         \/ pc[p] = "mark" /\ folders'[Inbox].uid_next = job[p].next
         \/ pc[p] = "advance" /\ job[p].dest = Inbox
<1>0. Inbox \in Folders /\ folders \in [Folders -> FolderRow]
  BY PopAssumption, Typed
<1>1. CASE UNCHANGED folders
  BY <1>1
<1>2. CASE folders' = EnsureLocal
  BY <1>0, <1>2 DEF EnsureLocal, Local
<1>3. CASE UpsertListed(p)
  BY <1>0, <1>3 DEF UpsertListed, UpsertFolder
<1>4. CASE Mark(p)
  BY <1>0, <1>4 DEF Mark, UpsertFolder
<1>5. CASE AdvanceDestination(p)
  BY <1>0, <1>5 DEF AdvanceDestination, UpsertFolder
<1>6. QED
  BY <1>1, <1>2, <1>3, <1>4, <1>5
  DEF TaskStep, WorkerStep, ClientStep, SyncStep, Connect, ListFolders, ReadCursor,
      CountChanges, SessionEnds, SelectFolder, FetchEnvelopes, LookUp, Upsert, SyncCommand,
      FetchBodyCommand, SetFlagCommand, Begin, MoveCommand, SendCommand, Retr, StoreBody,
      DeleteFromServer, StoreFlag, RetrMoved, ReadDestination, File, Forget,
      EmptyTrash, CommandFails, storeVars

LEMMA ListedStart == Init => Listed
<1> SUFFICES ASSUME Init PROVE Listed
  OBVIOUS
<1>1. drop = <<>> /\ folders[Inbox].uid_next = 0
  BY PopAssumption DEF Init, NewFolderRow
<1>2. Len(drop) = 0 /\ DOMAIN drop = {}
  BY <1>1, EmptySeq
<1>3. \A p \in Procs : pc[p] \in {"off", "ready"}
  BY DEF Init
<1>4. Passed(folders[Inbox].uid_next)
  BY <1>1, <1>2 DEF Passed
<1>5. \A p \in Procs : ListsAll(p)
  BY <1>3 DEF ListsAll
<1>6. QED
  BY <1>4, <1>5 DEF Listed

LEMMA ListedStays ==
  ASSUME LossInv, [Next]_vars, BodiesInv'
  PROVE  Listed'
<1>0. BodiesInv /\ Copied /\ Listed /\ TypeInv /\ TypeInv' /\ NumbersStay
  BY DEF LossInv, BodiesInv
<1>1. CASE UNCHANGED vars
  <2>1. UNCHANGED <<drop, sessions, rows, folders, pc, job, emptied, causes>>
    BY <1>1 DEF vars, storeVars
  <2>2. \A m : Kept(m) <=> Kept(m)'
    BY <2>1 DEF Kept, InSomeFolder
  <2>3. \A n : Passed(n) => Passed(n)'
    BY <2>1, <2>2 DEF Passed, Kept, InSomeFolder
  <2>4. ASSUME NEW p \in Procs, ListsAll(p) PROVE ListsAll(p)'
    <3>1. pc[p] \in {"upsert list", "stat", "fetch"} => Passed(job[p].cursor)'
      BY <2>1, <2>3, <2>4 DEF ListsAll, Passed
    <3>2. \A k \in DOMAIN drop : Kept(drop[k]) => Kept(drop[k])'
      BY <2>1, <2>2 DEF Kept, InSomeFolder
    <3>3. QED
      BY <2>1, <2>4, <3>1, <3>2 DEF ListsAll
  <2>5. Quiet' => Quiet
    BY <2>1 DEF Quiet, Spared
  <2>6. QED
    BY <1>0, <2>1, <2>3, <2>4, <2>5 DEF Listed, Passed
<1>2. ASSUME NEW m \in Msgs, Deliver(m) PROVE Listed'
  <2>1. UNCHANGED <<sessions, rows, folders, pc, job, emptied, causes>>
    BY <1>0, <1>2, Delivered DEF storeVars
  <2> SUFFICES ASSUME Quiet PROVE Passed(folders[Inbox].uid_next)' /\ \A p \in Procs : ListsAll(p)'
    BY <2>1 DEF Listed, Quiet, Spared
  <2>2. Passed(folders[Inbox].uid_next) /\ \A p \in Procs : ListsAll(p)
    BY <1>0 DEF Listed
  <2>3. /\ Len(drop) \in Nat /\ Len(drop') \in Nat /\ Len(drop) <= Len(drop')
        /\ \A k \in DOMAIN drop : drop'[k] = drop[k]
        /\ \A k \in DOMAIN drop' : k \in DOMAIN drop \/ k = Len(drop) + 1
    <3>1. drop' \in Seq(Msgs)
      BY <1>0, Typed DEF TypeInv, TypeOK
    <3>2. Len(drop') \in Nat /\ Len(drop) \in Nat
      BY <1>0, <3>1, Typed, LenProperties
    <3>3. QED
      BY <1>0, <1>2, <3>2, Delivered
  <2>4. \A x : Kept(x) => Kept(x)'
    BY <2>1 DEF Kept, InSomeFolder
  <2>5. \A n \in Nat : Passed(n) => n <= Len(drop') + 1 /\ \A k \in DOMAIN drop' : k < n => Kept(drop[k])
    BY <2>3 DEF Passed
  <2>6. ASSUME NEW n \in Nat, Passed(n) PROVE Passed(n)'
    <3>1. \A k \in DOMAIN drop' : k < n => k \in DOMAIN drop
      BY <2>3, <2>6 DEF Passed
    <3>2. \A k \in DOMAIN drop' : k < n => Kept(drop'[k])
      BY <2>3, <2>5, <2>6, <3>1
    <3>3. \A k \in DOMAIN drop' : k < n => Kept(drop[k])'
      BY <2>1, <3>2 DEF Kept, InSomeFolder
    <3>4. QED
      BY <2>5, <2>6, <3>3 DEF Passed
  <2>7. folders[Inbox].uid_next \in Nat
    BY <1>0, Typed, PopAssumption DEF FolderRow
  <2>8. Passed(folders[Inbox].uid_next)'
    BY <2>1, <2>2, <2>6, <2>7 DEF Passed
  <2>9. ASSUME NEW p \in Procs PROVE ListsAll(p)'
    <3>1. ListsAll(p) /\ job[p].cursor \in Nat /\ job[p].next \in Nat
      BY <1>0, <2>2, Typed, JobTypes
    <3>2. pc[p] \in {"upsert list", "stat", "fetch"} => Passed(job[p].cursor)'
      BY <2>1, <2>6, <3>1 DEF ListsAll, Passed
    <3>3. ASSUME pc[p] \in {"lookup", "upsert", "mark"}, NEW k \in DOMAIN drop', k < job[p].next
          PROVE  \/ Kept(drop[k])'
                 \/ pc[p] # "mark" /\ k \in job[p].todo
                 \/ pc[p] = "upsert" /\ k = job[p].uid
      <4>1. job[p].next <= Len(sessions[p]) + 1
        BY <3>1, <3>3 DEF ListsAll
      <4>2. Len(sessions[p]) <= Len(drop) /\ Len(sessions[p]) \in Nat
        BY <1>0, QuietIs, Typed DEF NumbersStay, Continues
      <4>3. k \in DOMAIN drop
        BY <2>3, <3>1, <3>3, <4>1, <4>2
      <4>4. \/ Kept(drop[k])
            \/ pc[p] # "mark" /\ k \in job[p].todo
            \/ pc[p] = "upsert" /\ k = job[p].uid
        BY <3>1, <3>3, <4>3 DEF ListsAll
      <4>5. Kept(drop[k]) => Kept(drop[k])'
        BY <2>1, <2>3, <4>3 DEF Kept, InSomeFolder
      <4>6. QED
        BY <4>4, <4>5
    <3>4. QED
      BY <2>1, <3>1, <3>2, <3>3 DEF ListsAll
  <2>10. QED
    BY <2>8, <2>9
<1>3. ASSUME NEW m \in Msgs, OtherClientRemoves(m) PROVE Listed'
  BY <1>3, RemovedBy, QuietNext DEF Listed
<1>4. ASSUME NEW p \in Procs, TaskStep(p) PROVE Listed'
  <2> SUFFICES ASSUME Quiet' PROVE Passed(folders[Inbox].uid_next)' /\ \A q \in Procs : ListsAll(q)'
    BY DEF Listed
  <2>1. Quiet /\ drop' = drop /\ Turn(p)
    BY <1>0, <1>4, QuietBefore, TaskHolds
  <2>2. Passed(folders[Inbox].uid_next) /\ \A q \in Procs : ListsAll(q)
    BY <1>0, <2>1 DEF Listed
  <2>3. \A n : Passed(n) => Passed(n)'
    BY <1>0, <1>4, PassedStep
  <2>4. Passed(folders'[Inbox].uid_next)
    <3>1. CASE folders'[Inbox] = folders[Inbox]
      BY <2>2, <3>1
    <3>2. CASE pc[p] = "upsert list" /\ folders'[Inbox].uid_next = job[p].cursor
      BY <2>2, <3>2 DEF ListsAll
    <3>3. CASE pc[p] = "mark" /\ folders'[Inbox].uid_next = job[p].next
      <4>1. /\ job[p].next <= Len(sessions[p]) + 1
            /\ \A k \in DOMAIN drop : k < job[p].next => Kept(drop[k])
        BY <2>2, <3>3 DEF ListsAll
      <4>2. Len(sessions[p]) <= Len(drop) /\ Len(sessions[p]) \in Nat /\ Len(drop) \in Nat /\ job[p].next \in Nat
        BY <1>0, <2>1, QuietIs, Typed, JobTypes DEF NumbersStay, Continues
      <4>3. job[p].next <= Len(drop) + 1
        BY <4>1, <4>2
      <4>4. QED
        BY <3>3, <4>1, <4>3 DEF Passed
    <3>4. CASE pc[p] = "advance" /\ job[p].dest = Inbox
      BY <1>0, <2>1, <3>4 DEF BodiesInv, SyncsInbox
    <3>5. QED
      BY <1>0, <1>4, <3>1, <3>2, <3>3, <3>4, CursorWrites
  <2>5. Passed(folders[Inbox].uid_next)'
    BY <2>3, <2>4 DEF Passed
  <2>6. ASSUME NEW q \in Procs, q # p PROVE ListsAll(q)'
    <3>1. ListsAll(q) /\ pc'[q] = pc[q] /\ job'[q] = job[q] /\ sessions'[q] = sessions[q]
      BY <1>0, <2>1, <2>2, <2>6, TurnKeepsOthers
    <3>2. \A x : Kept(x) => Kept(x)'
      BY <1>0, <1>4, KeptStep
    <3>3. pc[q] \in {"upsert list", "stat", "fetch"} => Passed(job[q].cursor)'
      BY <2>3, <3>1 DEF ListsAll, Passed
    <3>4. \A k \in DOMAIN drop : Kept(drop[k]) => Kept(drop[k])'
      BY <2>1, <3>2 DEF Kept, InSomeFolder
    <3>5. QED
      BY <2>1, <3>1, <3>3, <3>4 DEF ListsAll
  <2>7. QED
    BY <1>4, <2>5, <2>6, TaskLists
<1>5. QED
  BY <1>1, <1>2, <1>3, <1>4, NextIs

LEMMA LossStays == LossInv /\ [Next]_vars => LossInv'
<1> SUFFICES ASSUME LossInv, [Next]_vars PROVE LossInv'
  OBVIOUS
<1>1. BodiesInv /\ Copied
  BY DEF LossInv
<1>2. BodiesInv'
  BY <1>1, BodiesStay
<1>3. Copied' /\ Listed'
  BY <1>1, <1>2, CopiedStays, ListedStays
<1>4. QED
  BY <1>2, <1>3 DEF LossInv

\* What the cursor of the Inbox has passed is in some folder or was emptied with the
\* Trash, at every step of every move: the copy is filed before the row is removed,
\* and no other task's move or write takes it, as long as nothing is removed from
\* the maildrop, filed into the Inbox, synced into a local folder or written over.
THEOREM NothingIsLost == Spec => []NothingLost
<1>1. Init => LossInv
  BY BodiesStart, CopiedStart, ListedStart DEF LossInv
<1>2. LossInv => NothingLost
  <2> SUFFICES ASSUME LossInv, Quiet, NEW n \in DOMAIN drop, n < folders[Inbox].uid_next
               PROVE  InSomeFolder(drop[n]) \/ drop[n] \in emptied
    BY DEF NothingLost, Quiet
  <2>1. Passed(folders[Inbox].uid_next)
    BY DEF LossInv, Listed
  <2>2. QED
    BY <2>1 DEF Passed, Kept
<1>3. QED
  BY <1>1, <1>2, LossStays, PTL DEF Spec
=============================================================================
