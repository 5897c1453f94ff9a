--------------------------- MODULE MailSync_proofs ---------------------------
(***************************************************************************)
(* Theorems about MailSync, for any sets of folders, messages, ids, workers  *)
(* and clients and every bound.                                              *)
(***************************************************************************)
EXTENDS MailSync, FiniteSetTheorems, TLAPS

-----------------------------------------------------------------------------
(* What the operators of the store and of the mailbox return.                *)

\* The fields of a row; the absent row is not one.
LEMMA RowTypes ==
  /\ NoRow \notin Row
  /\ \A r \in Row : r.id \in Ids /\ r.msg \in Msgs /\ r.seen \in BOOLEAN /\ r.body \in Msgs \cup {NoMsg}
BY StoreAssumption DEF Row

\* upsert_envelope touches one row, and leaves a row there.
LEMMA UpsertEnvelopeType ==
  ASSUME NEW t \in Table, NEW f \in Folders, NEW u \in UIDs, NEW m \in Row
  PROVE  /\ UpsertEnvelope(t, f, u, m) \in Table
         /\ \A g \in Folders, v \in UIDs :
              <<g, v>> # <<f, u>> => UpsertEnvelope(t, f, u, m)[g][v] = t[g][v]
         /\ UpsertEnvelope(t, f, u, m)[f][u] # NoRow
         /\ UpsertEnvelope(t, f, u, m)[f][u].id = m.id
         /\ UpsertEnvelope(t, f, u, m)[f][u].msg = m.msg
         /\ UpsertEnvelope(t, f, u, m)[f][u].body = IF t[f][u] = NoRow THEN m.body ELSE t[f][u].body
<1>1. t[f][u] \in Row \cup {NoRow}
  BY DEF Table
<1>2. CASE t[f][u] = NoRow
  BY <1>2, RowTypes DEF UpsertEnvelope, Table
<1>3. CASE t[f][u] # NoRow
  <2>1. [m EXCEPT !.body = t[f][u].body] \in Row
    BY <1>1, <1>3 DEF Row
  <2>2. QED
    BY <1>3, <2>1, RowTypes DEF UpsertEnvelope, Table, Row
<1>4. QED
  BY <1>2, <1>3

\* set_body changes nothing but bodies.
LEMMA SetBodyType ==
  ASSUME NEW t \in Table, NEW id, NEW body \in Msgs \cup {NoMsg}
  PROVE  /\ SetBody(t, id, body) \in Table
         /\ \A f \in Folders, u \in UIDs :
              \/ SetBody(t, id, body)[f][u] = t[f][u]
              \/ /\ t[f][u] # NoRow /\ t[f][u].id = id
                 /\ SetBody(t, id, body)[f][u] # NoRow
                 /\ SetBody(t, id, body)[f][u].id = id
                 /\ SetBody(t, id, body)[f][u].msg = t[f][u].msg
                 /\ SetBody(t, id, body)[f][u].body = body
<1> DEFINE new(f, u) == [t[f][u] EXCEPT !.body = body]
<1>1. ASSUME NEW f \in Folders, NEW u \in UIDs, t[f][u] # NoRow
      PROVE  /\ new(f, u) \in Row /\ new(f, u).id = t[f][u].id
             /\ new(f, u).msg = t[f][u].msg /\ new(f, u).body = body
  <2>1. t[f][u] \in Row
    BY <1>1 DEF Table
  <2>2. QED
    BY <2>1 DEF Row
<1>2. QED
  BY <1>1, RowTypes DEF SetBody, Table

\* The deletions leave a table.
LEMMA DeleteTypes ==
  ASSUME NEW t \in Table, NEW f \in Folders, NEW u \in UIDs
  PROVE  /\ DeleteByUid(t, f, u) \in Table
         /\ DeleteByUid(t, f, u)[f][u] = NoRow
         /\ \A g \in Folders, v \in UIDs :
              <<g, v>> # <<f, u>> => DeleteByUid(t, f, u)[g][v] = t[g][v]
         /\ DeleteByFolder(t, f) \in Table
         /\ \A g \in Folders \ {f} : DeleteByFolder(t, f)[g] = t[g]
         /\ \A v \in UIDs : DeleteByFolder(t, f)[f][v] = NoRow
BY DEF DeleteByUid, DeleteByFolder, Table

\* The fields of a message on the server; a free uid is not one.
LEMMA MailTypes ==
  /\ NoMail \notin Mail
  /\ \A m \in Mail : m.msg \in Msgs /\ m.seen \in BOOLEAN
BY StoreAssumption DEF Mail, NoMail

\* What APPEND, a delivery or a move does to a mailbox with room.
LEMMA AppendMailType ==
  ASSUME NEW box \in Mailbox, NEW m \in Mail, HasRoom(box)
  PROVE  /\ AppendMail(box, m) \in Mailbox
         /\ AppendMail(box, m).uid_validity = box.uid_validity
         /\ AppendMail(box, m).uid_next = box.uid_next + 1
         /\ box.uid_next \in UIDs
         /\ Live(AppendMail(box, m)) = Live(box) \cup {box.uid_next}
         /\ \A u \in UIDs : AppendMail(box, m).mail[u] = IF u = box.uid_next THEN m ELSE box.mail[u]
<1>1. box.uid_next \in UIDs
  BY StoreAssumption DEF Mailbox, HasRoom, UIDs
<1> DEFINE mail == [u \in UIDs |-> IF u = box.uid_next THEN m ELSE box.mail[u]]
<1>2. mail \in [UIDs -> Mail \cup {NoMail}]
  BY DEF Mailbox
<1>3. /\ AppendMail(box, m) \in Mailbox
      /\ AppendMail(box, m).mail = mail
      /\ AppendMail(box, m).uid_validity = box.uid_validity
      /\ AppendMail(box, m).uid_next = box.uid_next + 1
  <2>1. box.uid_validity \in Nat /\ box.uid_next + 1 \in Nat \ {0}
    BY DEF Mailbox
  <2>2. QED
    BY <1>2, <2>1 DEF AppendMail, Mailbox
<1>4. Live(AppendMail(box, m)) = Live(box) \cup {box.uid_next}
  BY <1>1, <1>3, MailTypes DEF Live
<1>5. QED
  BY <1>1, <1>3, <1>4

\* What EXPUNGE does to a mailbox.
LEMMA RemoveType ==
  ASSUME NEW box \in Mailbox, NEW S
  PROVE  /\ Remove(box, S) \in Mailbox
         /\ Remove(box, S).uid_validity = box.uid_validity
         /\ Remove(box, S).uid_next = box.uid_next
         /\ Live(Remove(box, S)) = Live(box) \ S
         /\ \A u \in Live(Remove(box, S)) : Remove(box, S).mail[u] = box.mail[u]
BY MailTypes DEF Remove, Mailbox, Live

\* What UID STORE does to a mailbox.
LEMMA SetFlagsType ==
  ASSUME NEW box \in Mailbox, NEW u \in UIDs, NEW seen \in BOOLEAN
  PROVE  /\ SetFlags(box, u, seen) \in Mailbox
         /\ SetFlags(box, u, seen).uid_validity = box.uid_validity
         /\ SetFlags(box, u, seen).uid_next = box.uid_next
         /\ Live(SetFlags(box, u, seen)) = Live(box)
         /\ \A v \in Live(box) : SetFlags(box, u, seen).mail[v].msg = box.mail[v].msg
<1>1. CASE u \notin Live(box)
  BY <1>1 DEF SetFlags
<1>2. CASE u \in Live(box)
  <2> DEFINE new == [box EXCEPT !.mail[u].seen = seen]
  <2>1. box.mail[u] \in Mail
    BY <1>2 DEF Live, Mailbox
  <2>2. /\ [box.mail[u] EXCEPT !.seen = seen] \in Mail
        /\ [box.mail[u] EXCEPT !.seen = seen].msg = box.mail[u].msg
    BY <2>1 DEF Mail
  <2>3. /\ new.mail = [box.mail EXCEPT ![u] = [box.mail[u] EXCEPT !.seen = seen]]
        /\ new.uid_validity = box.uid_validity /\ new.uid_next = box.uid_next
        /\ new \in Mailbox
    BY <2>2, <1>2 DEF Mailbox
  <2>4. \A v \in UIDs : new.mail[v] = IF v = u THEN [box.mail[u] EXCEPT !.seen = seen] ELSE box.mail[v]
    BY <2>3 DEF Mailbox
  <2>5. Live(new) = Live(box)
    BY <2>4, <2>2, <1>2, MailTypes DEF Live
  <2>6. QED
    BY <1>2, <2>2, <2>3, <2>4, <2>5 DEF SetFlags, Live
<1>3. QED
  BY <1>1, <1>2

\* A rebuilt mailbox is a mailbox, under another UIDVALIDITY.
LEMMA RenumberType ==
  ASSUME NEW box \in Mailbox, NEW order \in Orders(box)
  PROVE  /\ Renumber(box, order) \in Mailbox
         /\ Renumber(box, order).uid_validity = box.uid_validity + 1
         /\ \A i \in DOMAIN order : order[i] \in Live(box) /\ box.mail[order[i]] \in Mail
<1>1. IsFiniteSet(UIDs)
  BY StoreAssumption, FS_Interval DEF UIDs
<1>2. Cardinality(Live(box)) \in Nat
  BY <1>1, FS_Subset, FS_CardinalityType DEF Live
<1>3. \A i \in DOMAIN order : order[i] \in Live(box) /\ box.mail[order[i]] \in Mail
  BY DEF Orders, Live, Mailbox
<1>4. QED
  BY <1>2, <1>3 DEF Renumber, Mailbox

\* UID FETCH answers with envelopes of live messages, as they are.
LEMMA FetchEnvelopesType ==
  ASSUME NEW box \in Mailbox, NEW uids \in SUBSET UIDs
  PROVE  /\ FetchEnvelopes(box, uids) \subseteq Envelope
         /\ \A e \in FetchEnvelopes(box, uids) : e.uid \in Live(box) /\ e.msg = box.mail[e.uid].msg
         /\ \A u \in uids \cap Live(box) : \E e \in FetchEnvelopes(box, uids) : e.uid = u
<1>1. \A u \in Live(box) : u \in UIDs /\ box.mail[u] \in Mail
  BY DEF Live, Mailbox
<1> DEFINE env(u) == [uid |-> u, msg |-> box.mail[u].msg, seen |-> box.mail[u].seen]
<1>2. \A u \in Live(box) : env(u) \in Envelope /\ env(u).uid = u /\ env(u).msg = box.mail[u].msg
  BY <1>1, MailTypes DEF Envelope
<1>3. FetchEnvelopes(box, uids) = {env(u) : u \in uids \cap Live(box)}
  BY DEF FetchEnvelopes
<1> HIDE DEF env
<1>4. QED
  BY <1>2, <1>3

-----------------------------------------------------------------------------
(* Type correctness.                                                         *)

\* The empty job and the empty listing.
LEMMA JobTypes ==
  /\ NoJob \in Job /\ NoHeld \in Held /\ NewFolderRow \in FolderRow
  /\ NoListing \in [Folders -> FolderRow]
  /\ Row \subseteq Held
  /\ UIDs \subseteq 0 .. MaxUid
BY SyncAssumption, StoreAssumption
   DEF NoJob, NoHeld, NewFolderRow, NoListing, Job, Held, Row, FolderRow, UIDs

\* The initial state is well typed.
LEMMA InitType == Init => TypeInv
<1> SUFFICES ASSUME Init PROVE TypeInv
  OBVIOUS
<1>1. EmptyMailbox \in Mailbox
  BY DEF EmptyMailbox, Mailbox
<1>2. QED
  BY <1>1, JobTypes, SyncAssumption
  DEF Init, TypeInv, HoldsMessage, MessagePC, TypeOK, Table, NewFolderRow, FolderRow, Procs, WorkerPC, ClientPC

\* So is the state after a step of the server.
LEMMA EnvironmentType == TypeInv /\ Environment => TypeInv'
<1> SUFFICES ASSUME TypeInv, Environment PROVE TypeInv'
  OBVIOUS
<1> USE DEF storeVars, workerVars, TypeOK, TypeInv, HoldsMessage
<1>1. ASSUME NEW f \in Folders, NEW m \in Msgs, Deliver(f, m) PROVE TypeInv'
  <2>1. [msg |-> m, seen |-> FALSE] \in Mail
    BY DEF Mail
  <2>2. AppendMail(server[f], [msg |-> m, seen |-> FALSE]) \in Mailbox
    BY <1>1, <2>1, AppendMailType DEF Deliver
  <2>3. QED
    BY <1>1, <2>2 DEF Deliver, Announce
<1>2. ASSUME NEW f \in Folders, NEW u \in UIDs, OtherClientExpunges(f, u) PROVE TypeInv'
  <2>1. Remove(server[f], {u}) \in Mailbox
    BY RemoveType
  <2>2. server[f].mail[u].msg \in Msgs
    BY <1>2, MailTypes DEF OtherClientExpunges, Live, Mailbox
  <2>3. QED
    BY <1>2, <2>1, <2>2 DEF OtherClientExpunges, Announce
<1>3. ASSUME NEW f \in Folders, NEW u \in UIDs, OtherClientFlags(f, u) PROVE TypeInv'
  <2>1. server[f].mail[u].seen \in BOOLEAN
    BY <1>3, MailTypes DEF OtherClientFlags, Live, Mailbox
  <2>2. SetFlags(server[f], u, ~server[f].mail[u].seen) \in Mailbox
    BY SetFlagsType
  <2>3. QED
    BY <1>3, <2>2 DEF OtherClientFlags, Announce
<1>4. ASSUME NEW f \in Folders, ServerRenumbers(f) PROVE TypeInv'
  <2>1. PICK order \in Orders(server[f]) :
          /\ server' = [server EXCEPT ![f] = Renumber(@, order)]
          /\ assigned' = [assigned EXCEPT ![f] =
               [u \in UIDs |-> IF u \in DOMAIN order THEN server[f].mail[order[u]].msg ELSE NoMsg]]
    BY <1>4 DEF ServerRenumbers
  <2>2. /\ Renumber(server[f], order) \in Mailbox
        /\ \A u \in DOMAIN order : server[f].mail[order[u]].msg \in Msgs
    BY RenumberType, MailTypes
  <2>3. QED
    BY <1>4, <2>1, <2>2 DEF ServerRenumbers
<1>5. QED
  BY <1>1, <1>2, <1>3, <1>4 DEF Environment

\* What a step does to the task it belongs to.
LEMMA JobStep ==
  ASSUME TypeInv, NEW p \in Procs, NEW j \in Job, NEW step \in WorkerPC \cup ClientPC,
         p \in Workers => step \in WorkerPC, p \in Clients => step \in ClientPC,
         step \in MessagePC => j.uid \in UIDs /\ j.held \in Row,
         job' = [job EXCEPT ![p] = j], Goto(p, step)
  PROVE  /\ job' \in [Procs -> Job] /\ pc' \in [Procs -> WorkerPC \cup ClientPC]
         /\ \A w \in Workers : pc'[w] \in WorkerPC
         /\ \A c \in Clients : pc'[c] \in ClientPC
         /\ \A q \in Procs : HoldsMessage(q)'
BY DEF TypeInv, TypeOK, HoldsMessage, Goto, Procs

\* What a step does that changes where a task is and nothing it holds.
LEMMA OnlyPCStep ==
  ASSUME TypeInv, NEW p \in Procs, NEW step \in WorkerPC \cup ClientPC,
         p \in Workers => step \in WorkerPC, p \in Clients => step \in ClientPC,
         step \in MessagePC => job[p].uid \in UIDs /\ job[p].held \in Row,
         UNCHANGED job, Goto(p, step)
  PROVE  /\ job' \in [Procs -> Job] /\ pc' \in [Procs -> WorkerPC \cup ClientPC]
         /\ \A w \in Workers : pc'[w] \in WorkerPC
         /\ \A c \in Clients : pc'[c] \in ClientPC
         /\ \A q \in Procs : HoldsMessage(q)'
BY DEF TypeInv, TypeOK, HoldsMessage, Goto, Procs

\* A step of a folder sync preserves types.
LEMMA FolderSyncType ==
  ASSUME TypeInv, NEW p \in Procs, FolderSync(p)
  PROVE  TypeInv'
<1> USE DEF serverVars, workerVars, TypeOK, TypeInv
<1> DEFINE f == job[p].folder
<1>1. job[p] \in Job /\ f \in Folders
  BY DEF Job
<1>0. SyncPC \subseteq WorkerPC \cap ClientPC /\ "next" \in WorkerPC /\ "ready" \in ClientPC
  BY DEF WorkerPC, ClientPC, SyncPC
<1>2. CASE SelectFolderStep(p)
  <2>1. SelectFolder(server[f]) \in FolderRow
    BY <1>1 DEF SelectFolder, Mailbox, FolderRow
  <2>2. [job[p] EXCEPT !.state = SelectFolder(server[f])] \in Job
    BY <1>1, <2>1 DEF Job
  <2>3. QED
    BY <1>0, <1>2, <2>2, JobStep DEF SelectFolderStep, storeVars, SyncPC, MessagePC
<1>3. CASE PlanFetch(p)
  <2> DEFINE scan == ~scanned[f]
             range == IF p \in Workers THEN WorkerRange(job[p].stored, job[p].state, scan)
                                       ELSE CommandRange(job[p].stored, job[p].state, scan)
             j == [job[p] EXCEPT !.scan = scan, !.range = range]
  <2>1. range \subseteq UIDs /\ scan \in BOOLEAN
    BY <1>1 DEF WorkerRange, CommandRange
  <2> HIDE DEF scan, range
  <2>2. j \in Job
    BY <1>1, <2>1 DEF Job
  <2>3. CASE job' = [job EXCEPT ![p] = j] /\ Goto(p, "fetch")
    BY <1>0, <1>3, <2>2, <2>3, JobStep DEF PlanFetch, storeVars, SyncPC, MessagePC
  <2>4. CASE Leave(p, "next") /\ p \in Workers
    BY <1>0, <1>3, <2>4, JobStep, JobTypes, SyncAssumption DEF PlanFetch, storeVars, MessagePC, Leave
  <2>5. QED
    BY <1>1, <1>3, <2>3, <2>4 DEF PlanFetch, scan, range
<1>4. CASE FetchStep(p)
  <2>1. FetchEnvelopes(server[f], job[p].range) \subseteq Envelope
    BY <1>1, FetchEnvelopesType DEF Job
  <2>2. [job[p] EXCEPT !.envs = FetchEnvelopes(server[f], job[p].range)] \in Job
    BY <1>1, <2>1 DEF Job
  <2>3. QED
    BY <1>0, <1>4, <2>2, JobStep DEF FetchStep, storeVars, SyncPC, MessagePC
<1>5. CASE LookupRow(p)
  <2>1. PICK e \in job[p].envs :
          IF rows[f][e.uid] # NoRow
          THEN /\ job' = [job EXCEPT ![p].envs = @ \ {e}, ![p].uid = e.uid,
                            ![p].held = Merge(rows[f][e.uid], e)]
               /\ UNCHANGED minted
          ELSE \E i \in Ids :
               /\ minted' = [minted EXCEPT ![i] = <<f, e.uid>>]
               /\ job' = [job EXCEPT ![p].envs = @ \ {e}, ![p].uid = e.uid,
                            ![p].held = [id |-> i, msg |-> e.msg, seen |-> e.seen, body |-> NoMsg]]
    BY <1>5 DEF LookupRow
  <2>2. e.uid \in UIDs /\ e.msg \in Msgs /\ e.seen \in BOOLEAN
    BY <1>1 DEF Job, Envelope
  <2>3. ASSUME NEW h \in Row
        PROVE [job[p] EXCEPT !.envs = @ \ {e}, !.uid = e.uid, !.held = h] \in Job
    <3>1. /\ job[p].envs \ {e} \subseteq Envelope /\ e.uid \in 0 .. MaxUid /\ h \in Held
      BY <1>1, <2>2, JobTypes DEF Job
    <3>2. QED
      BY <1>1, <3>1 DEF Job
  <2> DEFINE j(h) == [job[p] EXCEPT !.envs = @ \ {e}, !.uid = e.uid, !.held = h]
  <2>4. ASSUME NEW h \in Row PROVE j(h).uid = e.uid /\ j(h).held = h
    BY <1>1 DEF Job
  <2>5. PICK h \in Row : job' = [job EXCEPT ![p] = j(h)] /\ minted' \in [Ids -> (Folders \X UIDs) \cup {NoRow}]
    <3>1. CASE rows[f][e.uid] # NoRow
      <4>1. rows[f][e.uid] \in Row
        BY <1>1, <2>2, <3>1 DEF Table
      <4>2. Merge(rows[f][e.uid], e) \in Row
        BY <2>2, <4>1 DEF Merge, Row
      <4>3. QED
        BY <2>1, <3>1, <4>2
    <3>2. CASE rows[f][e.uid] = NoRow
      <4>1. ASSUME NEW i \in Ids PROVE [id |-> i, msg |-> e.msg, seen |-> e.seen, body |-> NoMsg] \in Row
        BY <2>2 DEF Row
      <4>2. PICK i \in Ids :
              /\ minted' = [minted EXCEPT ![i] = <<f, e.uid>>]
              /\ job' = [job EXCEPT ![p] = j([id |-> i, msg |-> e.msg, seen |-> e.seen, body |-> NoMsg])]
        BY <2>1, <3>2
      <4>3. minted' \in [Ids -> (Folders \X UIDs) \cup {NoRow}]
        BY <1>1, <2>2, <4>2
      <4> HIDE DEF j
      <4>4. QED
        BY <4>1, <4>2, <4>3
    <3>3. QED
      BY <3>1, <3>2
  <2>6. j(h) \in Job /\ j(h).uid \in UIDs /\ j(h).held \in Row
    BY <2>2, <2>3, <2>4
  <2> HIDE DEF j
  <2>7. QED
    BY <1>0, <1>5, <2>5, <2>6, JobStep DEF LookupRow, SyncPC
<1>6. CASE UpsertRow(p)
  <2>1. UpsertEnvelope(rows, f, job[p].uid, job[p].held) \in Table
    BY <1>1, <1>6, UpsertEnvelopeType DEF UpsertRow, HoldsMessage, MessagePC
  <2>2. [job[p] EXCEPT !.uid = 0, !.held = NoHeld] \in Job
    <3>1. 0 \in 0 .. MaxUid /\ NoHeld \in Held
      BY JobTypes, StoreAssumption
    <3>2. QED
      BY <1>1, <3>1 DEF Job
  <2>3. QED
    BY <1>0, <1>6, <2>1, <2>2, JobStep DEF UpsertRow, SyncPC, MessagePC
<1>7. CASE FinishSync(p)
  <2>1. folders' \in [Folders -> FolderRow]
    BY <1>1, <1>7 DEF FinishSync, UpsertFolder, Job
  <2>2. CASE Goto(p, "mark") /\ UNCHANGED job
    BY <1>0, <1>1, <1>7, <2>1, <2>2, JobStep DEF FinishSync, SyncPC, MessagePC
  <2>3. CASE Leave(p, Home(p))
    BY <1>0, <1>7, <2>1, <2>3, JobStep, JobTypes, SyncAssumption DEF FinishSync, Leave, Home, Procs, MessagePC
  <2>4. QED
    BY <1>7, <2>2, <2>3 DEF FinishSync
<1>8. CASE MarkScanned(p)
  BY <1>0, <1>1, <1>8, JobStep, JobTypes, SyncAssumption DEF MarkScanned, Leave, Home, Procs, MessagePC
<1>9. QED
  BY <1>2, <1>3, <1>4, <1>5, <1>6, <1>7, <1>8 DEF FolderSync

\* A step of a worker preserves types.
LEMMA WorkerType ==
  ASSUME TypeInv, NEW w \in Workers, WorkerSteps(w) \/ FolderFails(w) \/ ConnectionFails(w)
  PROVE  TypeInv'
<1> USE DEF serverVars, TypeOK, TypeInv
<1>0. w \in Procs /\ w \notin Clients /\ job[w] \in Job
  BY SyncAssumption DEF Procs
<1>1. WorkerPC \subseteq WorkerPC \cup ClientPC /\ {"connect", "list", "existing", "upsert folders", "next", "idle", "select"} \subseteq WorkerPC \ MessagePC
  BY DEF WorkerPC, ClientPC, SyncPC, MessagePC
<1>2. CASE FolderSync(w)
  BY <1>0, <1>2, FolderSyncType
<1>3. CASE Connect(w)
  BY <1>0, <1>1, <1>3, OnlyPCStep DEF Connect, storeVars
<1>4. CASE ListFolders(w)
  <2>1. listing' \in [Workers -> [Folders -> FolderRow]]
    <3>1. PICK failed \in SUBSET Folders :
            listing' = [listing EXCEPT ![w] =
              [f \in Folders |-> IF f \in failed THEN NewFolderRow ELSE SelectFolder(server[f])]]
      BY <1>4 DEF ListFolders
    <3>2. \A f \in Folders : SelectFolder(server[f]) \in FolderRow
      BY DEF SelectFolder, Mailbox, FolderRow
    <3>3. QED
      BY <3>1, <3>2, JobTypes
  <2>2. QED
    BY <1>0, <1>1, <1>4, <2>1, OnlyPCStep DEF ListFolders, storeVars
<1>5. CASE ListExisting(w)
  <2>1. \A r \in FolderRow, e \in FolderRow : ToFolder(r, e) \in FolderRow
    BY DEF ToFolder, FolderRow
  <2>2. QED
    BY <1>0, <1>1, <1>5, <2>1, OnlyPCStep DEF ListExisting, storeVars
<1>6. CASE UpsertListed(w)
  <2>1. PICK f \in unlisted[w] :
          /\ folders' = UpsertFolder(folders, f, listing[w][f])
          /\ unlisted' = [unlisted EXCEPT ![w] = @ \ {f}]
          /\ IF unlisted[w] = {f}
             THEN Goto(w, "next") /\ listing' = [listing EXCEPT ![w] = NoListing]
             ELSE UNCHANGED <<pc, listing>>
    BY <1>6 DEF UpsertListed
  <2>2. folders' \in [Folders -> FolderRow] /\ unlisted' \in [Workers -> SUBSET Folders]
    BY <2>1 DEF UpsertFolder
  <2>3. listing' \in [Workers -> [Folders -> FolderRow]]
    BY <2>1, JobTypes
  <2>4. CASE UNCHANGED pc
    <3>1. \A q \in Procs : HoldsMessage(q)'
      BY <1>6, <2>4 DEF UpsertListed, HoldsMessage
    <3>2. QED
      BY <1>6, <2>2, <2>3, <2>4, <3>1 DEF UpsertListed
  <2>5. CASE Goto(w, "next")
    BY <1>0, <1>1, <1>6, <2>2, <2>3, <2>5, OnlyPCStep DEF UpsertListed
  <2>6. QED
    BY <2>1, <2>4, <2>5
<1>7. CASE NextFolder(w)
  <2>1. PICK f \in queue[w] :
          /\ queue' = [queue EXCEPT ![w] = @ \ {f}]
          /\ job' = [job EXCEPT ![w].folder = f, ![w].stored = folders[f]]
    BY <1>7 DEF NextFolder
  <2>2. [job[w] EXCEPT !.folder = f, !.stored = folders[f]] \in Job
    BY <1>0 DEF Job
  <2>3. QED
    BY <1>0, <1>1, <1>7, <2>1, <2>2, JobStep DEF NextFolder, storeVars
<1>8. CASE EnterIdle(w)
  BY <1>0, <1>1, <1>8, OnlyPCStep DEF EnterIdle, storeVars, workerVars
<1>9. CASE IdleEvent(w)
  <2>1. queue' \in [Workers -> SUBSET Folders]
    BY <1>9, SyncAssumption DEF IdleEvent
  <2>2. QED
    BY <1>0, <1>1, <1>9, <2>1, OnlyPCStep DEF IdleEvent, storeVars
<1>10. CASE FolderFails(w)
  BY <1>0, <1>1, <1>10, JobStep, JobTypes DEF FolderFails, storeVars, workerVars, Leave
<1>11. CASE ConnectionFails(w)
  BY <1>0, <1>1, <1>11, JobStep, JobTypes DEF ConnectionFails, storeVars, Leave
<1>12. QED
  BY <1>2, <1>3, <1>4, <1>5, <1>6, <1>7, <1>8, <1>9, <1>10, <1>11 DEF WorkerSteps

\* The start of a command preserves types.
LEMMA StartCommandType ==
  ASSUME TypeInv, NEW c \in Clients, StartCommand(c)
  PROVE  TypeInv'
<1> USE DEF serverVars, storeVars, workerVars, TypeOK, TypeInv
<1>0. c \in Procs /\ c \notin Workers /\ job[c] \in Job
  BY SyncAssumption DEF Procs
<1>1. ClientPC \subseteq WorkerPC \cup ClientPC /\ {"select", "body", "store", "move", "expunge"} \subseteq ClientPC
      /\ {"select", "expunge"} \cap MessagePC = {}
  BY DEF WorkerPC, ClientPC, SyncPC, MessagePC
<1>2. ASSUME NEW f \in Folders, SyncCommand(c, f) PROVE TypeInv'
  <2>1. [job[c] EXCEPT !.folder = f, !.stored = folders[f]] \in Job
    BY <1>0 DEF Job
  <2>2. QED
    BY <1>0, <1>1, <1>2, <2>1, JobStep DEF SyncCommand
<1>3. ASSUME NEW f \in Folders, NEW u \in UIDs, NEW held \in Row, NEW step \in {"body", "store", "move"}, NEW command,
             MessageCommand(c, command, step, f, u, held)
      PROVE TypeInv'
  <2> DEFINE j == [job[c] EXCEPT !.folder = f, !.uid = u, !.held = held]
  <2>1. u \in 0 .. MaxUid /\ held \in Held
    BY JobTypes
  <2>2. j \in Job /\ j.uid = u /\ j.held = held
    BY <1>0, <2>1 DEF Job
  <2>3. job' = [job EXCEPT ![c] = j]
    BY <1>3 DEF MessageCommand
  <2> HIDE DEF j
  <2>4. QED
    BY <1>0, <1>1, <1>3, <2>2, <2>3, JobStep DEF MessageCommand
<1>4. ASSUME NEW f \in Folders, NEW u \in UIDs, rows[f][u] # NoRow, NEW seen \in BOOLEAN
      PROVE rows[f][u] \in Row /\ [rows[f][u] EXCEPT !.seen = seen] \in Row
  <2>1. rows[f][u] \in Row
    BY <1>4 DEF Table
  <2>2. QED
    BY <2>1 DEF Row
<1>5. ASSUME NEW f \in Folders, NEW u \in UIDs,
             \/ FetchBodyCommand(c, f, u) \/ MoveCommand(c, f, u)
             \/ \E seen \in BOOLEAN : SetFlagCommand(c, f, u, seen)
      PROVE TypeInv'
  <2>1. rows[f][u] # NoRow
    BY <1>5 DEF FetchBodyCommand, MoveCommand, SetFlagCommand, MessageCommand
  <2>2. CASE FetchBodyCommand(c, f, u)
    BY <1>3, <1>4, <2>1, <2>2 DEF FetchBodyCommand
  <2>3. CASE MoveCommand(c, f, u)
    BY <1>3, <1>4, <2>1, <2>3 DEF MoveCommand
  <2>4. ASSUME NEW seen \in BOOLEAN, SetFlagCommand(c, f, u, seen) PROVE TypeInv'
    BY <1>3, <1>4, <2>1, <2>4 DEF SetFlagCommand
  <2>5. QED
    BY <1>5, <2>2, <2>3, <2>4
<1>6. CASE EmptyTrashCommand(c)
  <2>1. [job[c] EXCEPT !.folder = Trash] \in Job
    BY <1>0, SyncAssumption DEF Job
  <2>2. QED
    BY <1>0, <1>1, <1>6, <2>1, JobStep DEF EmptyTrashCommand
<1>7. QED
  BY <1>2, <1>5, <1>6 DEF StartCommand

\* A step of a command preserves types.
LEMMA CommandType ==
  ASSUME TypeInv, NEW c \in Clients, CommandSteps(c) \/ CommandFails(c)
  PROVE  TypeInv'
<1> USE DEF workerVars, TypeOK, TypeInv
<1> DEFINE f == job[c].folder  u == job[c].uid  h == job[c].held
<1>0. c \in Procs /\ c \notin Workers /\ job[c] \in Job /\ f \in Folders /\ u \in 0 .. MaxUid /\ h \in Held
  BY SyncAssumption DEF Procs, Job
<1>1. /\ ClientPC \subseteq WorkerPC \cup ClientPC
      /\ {"ready", "set body", "delete", "set flag", "forget", "clear"} \subseteq ClientPC
      /\ {"ready", "delete", "clear"} \cap MessagePC = {}
  BY DEF WorkerPC, ClientPC, SyncPC, MessagePC
<1>2. pc[c] \in MessagePC => u \in UIDs /\ h \in Row
  BY <1>0 DEF HoldsMessage
<1>3. h.seen \in BOOLEAN /\ h.body \in Msgs \cup {NoMsg}
  BY <1>0 DEF Held
<1>4. ASSUME Leave(c, "ready")
      PROVE  /\ job' \in [Procs -> Job] /\ pc' \in [Procs -> WorkerPC \cup ClientPC]
             /\ \A w \in Workers : pc'[w] \in WorkerPC
             /\ \A d \in Clients : pc'[d] \in ClientPC
             /\ \A q \in Procs : HoldsMessage(q)'
  BY <1>0, <1>1, <1>4, JobStep, JobTypes DEF Leave
<1>5. CASE FolderSync(c)
  BY <1>0, <1>5, FolderSyncType
<1>6. CASE FetchBodyStep(c)
  <2> DEFINE j == [job[c] EXCEPT !.held.body = server[f].mail[u].msg]
  <2>1. server[f].mail[u].msg \in Msgs
    <3>1. u \in Live(server[f])
      BY <1>6 DEF FetchBody, FetchBodyStep
    <3>2. server[f].mail[u] \in Mail
      BY <1>0, <3>1 DEF Live, Mailbox
    <3>3. QED
      BY <3>2, MailTypes
  <2>2. /\ [h EXCEPT !.body = server[f].mail[u].msg] \in Row
        /\ u \in UIDs
    BY <1>2, <1>6, <2>1 DEF FetchBody, FetchBodyStep, MessagePC, Row
  <2>3. j \in Job /\ j.uid = u /\ j.held = [h EXCEPT !.body = server[f].mail[u].msg]
    BY <1>0, <2>2, JobTypes DEF Job
  <2>4. job' = [job EXCEPT ![c] = j]
    BY <1>6 DEF FetchBody, FetchBodyStep
  <2> HIDE DEF j
  <2>5. QED
    BY <1>0, <1>1, <1>6, <2>2, <2>3, <2>4, JobStep DEF FetchBody, FetchBodyStep, serverVars, storeVars
<1>7. CASE SetBodyStep(c)
  <2>1. rows' \in Table
    <3>1. SetBody(rows, h.id, h.body) \in Table
      BY <1>3, SetBodyType
    <3>2. QED
      BY <1>7, <3>1 DEF SetBodyStep
  <2>2. CASE Leave(c, "ready")
    BY <1>4, <1>7, <2>1, <2>2 DEF SetBodyStep, serverVars
  <2>3. CASE Goto(c, "delete") /\ UNCHANGED job
    BY <1>0, <1>1, <1>7, <2>1, <2>3, OnlyPCStep DEF SetBodyStep, serverVars
  <2>4. QED
    BY <1>7, <2>2, <2>3 DEF SetBodyStep
<1>8. CASE DeleteUidStep(c)
  <2>1. server' \in [Folders -> Mailbox]
    BY <1>0, <1>8, RemoveType DEF DeleteUidStep
  <2>2. QED
    BY <1>4, <1>8, <2>1 DEF DeleteUidStep, Announce, storeVars
<1>9. CASE StoreFlagStep(c)
  <2>1. u \in UIDs /\ h \in Row
    BY <1>2, <1>9 DEF StoreFlagStep, MessagePC
  <2>2. SetFlags(server[f], u, h.seen) \in Mailbox
    BY <1>0, <1>3, <2>1, SetFlagsType
  <2>3. server' \in [Folders -> Mailbox]
    BY <1>0, <1>9, <2>2 DEF StoreFlagStep
  <2>4. QED
    BY <1>0, <1>1, <1>9, <2>1, <2>3, OnlyPCStep DEF StoreFlagStep, Announce, storeVars
<1>10. CASE UpsertFlagStep(c)
  <2>1. rows' \in Table
    BY <1>0, <1>2, <1>10, UpsertEnvelopeType DEF UpsertFlagStep, MessagePC
  <2>2. QED
    BY <1>4, <1>10, <2>1 DEF UpsertFlagStep, serverVars
<1>11. CASE MoveUidStep(c)
  <2>1. PICK dst \in Folders \ {f} :
          /\ HasRoom(server[dst])
          /\ server' = MoveUid(server, f, u, dst)
          /\ assigned' = IF u \in Live(server[f])
                         THEN [assigned EXCEPT ![dst] = [v \in UIDs |->
                                 IF v = server[dst].uid_next THEN server[f].mail[u].msg ELSE @[v]]]
                         ELSE assigned
          /\ Announce({f, dst})
    BY <1>11 DEF MoveUidStep
  <2>2. server' \in [Folders -> Mailbox] /\ assigned' \in [Folders -> [UIDs -> Msgs \cup {NoMsg}]]
    <3>1. CASE u \notin Live(server[f])
      BY <2>1, <3>1 DEF MoveUid
    <3>2. CASE u \in Live(server[f])
      <4>1. server[f].mail[u] \in Mail
        BY <1>0, <3>2 DEF Live, Mailbox
      <4>2. AppendMail(server[dst], server[f].mail[u]) \in Mailbox /\ Remove(server[f], {u}) \in Mailbox
        BY <1>0, <2>1, <4>1, AppendMailType, RemoveType
      <4>3. QED
        BY <1>0, <2>1, <3>2, <4>1, <4>2, MailTypes DEF MoveUid
    <3>3. QED
      BY <3>1, <3>2
  <2>3. news' \in [Workers -> BOOLEAN]
    BY <2>1 DEF Announce
  <2>4. u \in UIDs /\ h \in Row
    BY <1>2, <1>11 DEF MoveUidStep, MessagePC
  <2>5. QED
    BY <1>0, <1>1, <1>11, <2>2, <2>3, <2>4, OnlyPCStep DEF MoveUidStep, storeVars
<1>12. CASE ForgetStep(c)
  <2>1. u \in UIDs
    BY <1>2, <1>12 DEF ForgetStep, MessagePC
  <2>2. rows' \in Table
    BY <1>0, <1>12, <2>1, DeleteTypes DEF ForgetStep
  <2>3. QED
    BY <1>0, <1>4, <1>12, <2>1, <2>2 DEF ForgetStep, serverVars
<1>13. CASE ExpungeTrashStep(c)
  <2>1. server' \in [Folders -> Mailbox]
    BY <1>13, RemoveType, SyncAssumption DEF ExpungeTrashStep
  <2>2. \A v \in Live(server[Trash]) : server[Trash].mail[v].msg \in Msgs
    BY MailTypes, SyncAssumption DEF Live, Mailbox
  <2>3. discarded' \subseteq Msgs /\ news' \in [Workers -> BOOLEAN]
    BY <1>13, <2>2 DEF ExpungeTrashStep, Announce
  <2>4. QED
    BY <1>0, <1>1, <1>13, <2>1, <2>3, OnlyPCStep DEF ExpungeTrashStep, storeVars
<1>14. CASE ClearTrashStep(c)
  <2>1. rows' \in Table
    BY <1>14 DEF ClearTrashStep, DeleteByFolder, Table
  <2>2. QED
    BY <1>4, <1>14, <2>1 DEF ClearTrashStep, serverVars
<1>15. CASE CommandFails(c)
  BY <1>4, <1>15 DEF CommandFails, serverVars, storeVars
<1>16. CASE BodyMissing(c)
  BY <1>4, <1>16 DEF BodyMissing, serverVars, storeVars
<1>17. QED
  BY <1>5, <1>6, <1>7, <1>8, <1>9, <1>10, <1>11, <1>12, <1>13, <1>14, <1>15, <1>16 DEF CommandSteps

\* Every step preserves types.
LEMMA TypeStep == TypeInv /\ [Next]_vars => TypeInv'
<1> SUFFICES ASSUME TypeInv, [Next]_vars PROVE TypeInv'
  OBVIOUS
<1>1. CASE UNCHANGED vars
  BY <1>1 DEF vars, serverVars, storeVars, workerVars, TypeInv, TypeOK, HoldsMessage
<1>2. CASE Next
  BY <1>2, EnvironmentType, WorkerType, StartCommandType, CommandType DEF Next
<1>3. QED
  BY <1>1, <1>2

\* No task ever writes a row that is not one, whatever it held across an
\* await: the types of the store, of the server and of every task's job.
THEOREM TypeCorrect == Spec => []TypeOK
<1>1. TypeInv => TypeOK
  BY DEF TypeInv
<1>2. QED
  BY <1>1, InitType, TypeStep, PTL DEF Spec

-----------------------------------------------------------------------------
(* The inductive invariant.  A step either changes the server or the store,  *)
(* never both, and moves one task at most: the two lemmas ServerStep and     *)
(* StoreStep say what such a step leaves alone, so that each action has only *)
(* to account for the task it moves.                                         *)

\* What any step may do to a mailbox: uids are handed out upwards and keep
\* their message; a mailbox renumbered never counts as stable again.
ServerGrows(f) ==
  Stable(f)' =>
    /\ Stable(f)
    /\ server[f].uid_next <= server'[f].uid_next
    /\ \A u \in UIDs : u < server[f].uid_next => assigned'[f][u] = assigned[f][u]
    /\ \A u \in Live(server'[f]) :
         /\ u \in Live(server[f]) \/ server[f].uid_next <= u
         /\ u < server'[f].uid_next
         /\ server'[f].mail[u].msg = assigned'[f][u]

\* What any step may do to a row: leave it, remove it when the message is
\* gone or in the trash, or write a row of the message the uid belongs to.
RowStep(f, u) ==
  \/ rows'[f][u] = rows[f][u]
  \/ rows'[f][u] = NoRow /\ (f = Trash \/ (Stable(f) => u \notin Live(server[f])))
  \/ /\ rows'[f][u] # NoRow
     /\ minted[rows'[f][u].id] = <<f, u>>
     /\ Stable(f) => u < server[f].uid_next /\ IsMessageAt(rows'[f][u], f, u)

\* An id that was drawn stays drawn.
MintedStep == \A i \in Ids : minted[i] # NoRow => minted'[i] = minted[i]

\* Live uids are uids.
LEMMA LiveUIDs == \A box : Live(box) \subseteq UIDs
BY DEF Live

\* Uids, cursors and UIDVALIDITYs are numbers.
LEMMA Numbers ==
  /\ MaxUid \in Nat /\ UIDs \subseteq Nat \ {0}
  /\ \A r \in FolderRow : r.uid_next \in Nat /\ r.uid_validity \in Nat
  /\ \A b \in Mailbox : b.uid_next \in Nat \ {0} /\ b.uid_validity \in Nat \ {0}
BY StoreAssumption DEF UIDs, FolderRow, Mailbox

\* Order on the naturals, kept apart from the rest for the provers' sake.
LEMMA Transitive ==
  \A a, b, c \in Nat : b <= c => (a <= b => a <= c) /\ (a < b => a < c)
OBVIOUS

\* The fields of a job.
LEMMA JobFields ==
  ASSUME NEW j \in Job
  PROVE  /\ j.folder \in Folders /\ j.stored \in FolderRow /\ j.state \in FolderRow
         /\ j.range \in SUBSET UIDs /\ j.envs \in SUBSET Envelope /\ j.uid \in Nat
         /\ j.stored.uid_next \in Nat /\ j.state.uid_next \in Nat
         /\ \A e \in j.envs : e.uid \in UIDs /\ e.uid \in Nat /\ e.msg \in Msgs
<1>1. 0 .. MaxUid \subseteq Nat
  BY StoreAssumption
<1>2. \A e \in Envelope : e.uid \in UIDs /\ e.msg \in Msgs
  BY DEF Envelope
<1>3. QED
  BY <1>1, <1>2, Numbers DEF Job

\* A cursor that is covered stays so whatever the server does.
LEMMA CoveredGrows ==
  ASSUME TypeOK, NEW f \in Folders, NEW c \in Nat, server' \in [Folders -> Mailbox],
         Stable(f)', ServerGrows(f), UNCHANGED rows, Covered(f, c)
  PROVE  Covered(f, c)'
<1>1. server[f].uid_next \in Nat /\ server'[f].uid_next \in Nat
  BY Numbers DEF TypeOK
<1>2. \A u \in Live(server'[f]) : u \in Nat /\ (u \in Live(server[f]) \/ server[f].uid_next <= u)
  BY LiveUIDs, Numbers DEF ServerGrows
<1>3. c <= server[f].uid_next /\ server[f].uid_next <= server'[f].uid_next
  BY DEF Covered, ServerGrows
<1>4. \A u \in Live(server'[f]) : u < c => u \in Live(server[f])
  BY <1>1, <1>2, <1>3
<1>5. c <= server'[f].uid_next
  BY <1>1, <1>3
<1>6. QED
  BY <1>4, <1>5 DEF Covered

\* And whatever lawful change the rows undergo.
LEMMA CoveredKept ==
  ASSUME TypeOK, NEW f \in Mirrored, NEW c \in Nat, UNCHANGED server, Stable(f),
         \A u \in UIDs : RowStep(f, u), Covered(f, c)
  PROVE  Covered(f, c)'
BY LiveUIDs DEF Covered, RowStep, Mirrored

\* What is left of the invariant for a step of the server.
LEMMA ServerStep ==
  ASSUME IInv, TypeInv', UNCHANGED storeVars, UNCHANGED listing,
         \A f \in Folders : ServerGrows(f)
  PROVE  /\ \A f \in Folders : FolderSound(f)'
         /\ \A f \in Mirrored : FolderCovered(f)'
         /\ \A p \in Procs : UNCHANGED <<pc[p], job[p]>> => JobSound(p)' /\ JobCovered(p)'
         /\ \A p \in Procs : UNCHANGED pc[p] /\ (p \in Workers => UNCHANGED listing[p]) => ListCovered(p)'
<1> USE DEF storeVars
<1>1. ASSUME NEW f \in Folders PROVE FolderSound(f)'
  <2>1. FolderSound(f) /\ ServerGrows(f)
    BY DEF IInv
  <2>2. server[f].uid_next \in Nat /\ server'[f].uid_next \in Nat
    BY Numbers DEF IInv, TypeInv, TypeOK
  <2>3. QED
    BY <2>1, <2>2, Numbers DEF FolderSound, ServerGrows, IsMessageAt
<1>2. ASSUME NEW f \in Mirrored PROVE FolderCovered(f)'
  <2>1. FolderCovered(f) /\ ServerGrows(f) /\ f \in Folders
    BY DEF IInv, Mirrored
  <2>2. TypeOK /\ server' \in [Folders -> Mailbox]
    BY DEF IInv, TypeInv, TypeOK
  <2>3. folders[f].uid_next \in Nat
    BY <2>1, <2>2, Numbers DEF TypeOK
  <2>4. QED
    BY <2>1, <2>2, <2>3, CoveredGrows DEF FolderCovered, ServerGrows
<1>3. ASSUME NEW p \in Procs, UNCHANGED <<pc[p], job[p]>> PROVE JobSound(p)' /\ JobCovered(p)'
  <2> DEFINE f == job[p].folder
  <2>1. TypeOK /\ server' \in [Folders -> Mailbox] /\ HoldsMessage(p)
    BY DEF IInv, TypeInv, TypeOK
  <2>2. job[p] \in Job /\ f \in Folders
    BY <2>1, JobFields DEF TypeOK
  <2>3. JobSound(p) /\ JobCovered(p) /\ ServerGrows(f)
    BY <2>2 DEF IInv
  <2>4. server[f].uid_next \in Nat /\ server'[f].uid_next \in Nat
    BY <2>1, <2>2, Numbers DEF TypeOK
  <2>0. pc'[p] = pc[p] /\ job'[p] = job[p]
    BY <1>3
  <2>5. JobSound(p)'
    <3>1. CASE ~Stable(f)'
      BY <2>0, <2>3, <3>1 DEF JobSound
    <3>2. CASE Stable(f)'
      <4>1. \A u \in UIDs : u < server[f].uid_next =>
              /\ u < server'[f].uid_next /\ assigned'[f][u] = assigned[f][u]
              /\ u \notin Live(server[f]) => u \notin Live(server'[f])
        <5> SUFFICES ASSUME NEW u \in UIDs, u < server[f].uid_next
                     PROVE  /\ u < server'[f].uid_next /\ assigned'[f][u] = assigned[f][u]
                            /\ u \notin Live(server[f]) => u \notin Live(server'[f])
          OBVIOUS
        <5>1. u \in Nat /\ server[f].uid_next <= server'[f].uid_next
          BY <2>3, <3>2, Numbers DEF ServerGrows
        <5>2. u \in Live(server'[f]) => u \in Live(server[f]) \/ server[f].uid_next <= u
          BY <2>3, <3>2 DEF ServerGrows
        <5>3. assigned'[f][u] = assigned[f][u]
          BY <2>3, <3>2 DEF ServerGrows
        <5>4. QED
          BY <2>4, <5>1, <5>2, <5>3
      <4>2. Stable(f)
        BY <2>3, <3>2 DEF ServerGrows
      <4>3. \A e \in job[p].envs : e.uid < server'[f].uid_next /\ e.msg = assigned'[f][e.uid]
        BY <2>2, <2>3, <4>1, <4>2, JobFields DEF JobSound
      <4>4. pc[p] \in MessagePC =>
              /\ job[p].uid < server'[f].uid_next /\ IsMessageAt(job[p].held, f, job[p].uid)'
              /\ pc[p] = "forget" => job[p].uid \notin Live(server'[f])
        BY <2>0, <2>1, <2>3, <4>1, <4>2 DEF JobSound, IsMessageAt, HoldsMessage
      <4>5. QED
        BY <2>0, <2>3, <4>3, <4>4 DEF JobSound, MessagePC
    <3>3. QED
      BY <3>1, <3>2
  <2>6. JobCovered(p)'
    <3> SUFFICES ASSUME Stable(f)', f \in Mirrored PROVE JobCovered(p)'
      BY <2>0 DEF JobCovered
    <3>1. Covered(f, job[p].stored.uid_next)'
      BY <2>0, <2>1, <2>2, <2>3, CoveredGrows, JobFields DEF JobCovered, ServerGrows
    <3>2. job[p].state.uid_next <= server'[f].uid_next
      BY <2>2, <2>3, <2>4, JobFields DEF JobCovered, ServerGrows
    <3>3. \A u \in Live(server'[f]) : u < job[p].state.uid_next => u \in Live(server[f])
      BY <2>2, <2>3, <2>4, JobFields, LiveUIDs, Numbers DEF JobCovered, ServerGrows
    <3>4. QED
      BY <2>0, <2>3, <3>1, <3>2, <3>3 DEF JobCovered, ServerGrows
  <2>7. QED
    BY <2>5, <2>6
<1>4. ASSUME NEW p \in Procs, UNCHANGED pc[p], p \in Workers => UNCHANGED listing[p] PROVE ListCovered(p)'
  <2> SUFFICES ASSUME p \in Workers, pc[p] = "upsert folders", NEW f \in Mirrored, Stable(f)'
               PROVE  Covered(f, listing[p][f].uid_next)'
    BY <1>4 DEF ListCovered
  <2>1. TypeOK /\ server' \in [Folders -> Mailbox] /\ f \in Folders /\ ServerGrows(f)
    BY DEF IInv, TypeInv, TypeOK, Mirrored
  <2>2. listing[p][f].uid_next \in Nat
    <3>1. listing[p] \in [Folders -> FolderRow]
      BY <2>1 DEF TypeOK
    <3>2. QED
      BY <2>1, <3>1, Numbers
  <2>3. Covered(f, listing[p][f].uid_next)
    BY <2>1 DEF IInv, ListCovered, ServerGrows
  <2>4. QED
    BY <1>4, <2>1, <2>2, <2>3, CoveredGrows
<1>5. QED
  BY <1>1, <1>2, <1>3, <1>4

\* What is left of the invariant for a lawful change of the rows.
LEMMA StoreStep ==
  ASSUME IInv, TypeInv', UNCHANGED serverVars, MintedStep,
         \A f \in Folders, u \in UIDs : RowStep(f, u)
  PROVE  /\ \A f \in Folders : FolderSound(f)'
         /\ \A f \in Mirrored, c \in Nat : Stable(f) /\ Covered(f, c) => Covered(f, c)'
         /\ UNCHANGED folders => \A f \in Mirrored : FolderCovered(f)'
         /\ \A p \in Procs : UNCHANGED <<pc[p], job[p]>> => JobSound(p)' /\ JobCovered(p)'
         /\ \A p \in Procs : UNCHANGED pc[p] /\ (p \in Workers => UNCHANGED listing[p]) => ListCovered(p)'
<1> USE DEF serverVars
<1>0. TypeOK /\ NoRow \notin Folders \X UIDs
  BY SyncAssumption DEF IInv, TypeInv
<1>1. ASSUME NEW f \in Folders PROVE FolderSound(f)'
  <2>1. FolderSound(f) /\ \A u \in UIDs : RowStep(f, u)
    BY DEF IInv
  <2>2. \A u \in UIDs : (rows[f][u] # NoRow => rows[f][u].id \in Ids) /\ (rows'[f][u] # NoRow => rows'[f][u].id \in Ids)
    BY RowTypes DEF IInv, TypeInv, TypeOK, Table
  <2>3. \A u \in UIDs : rows'[f][u] # NoRow => minted'[rows'[f][u].id] = <<f, u>>
    <3>1. ASSUME NEW u \in UIDs, rows'[f][u] # NoRow PROVE minted[rows'[f][u].id] = <<f, u>>
      BY <2>1, <3>1 DEF FolderSound, RowStep
    <3>2. \A u \in UIDs : <<f, u>> # NoRow
      BY <1>0
    <3>3. QED
      BY <2>2, <3>1, <3>2 DEF MintedStep
  <2>4. QED
    BY <2>1, <2>3 DEF FolderSound, RowStep, Stable, IsMessageAt
<1>2. ASSUME NEW f \in Mirrored, NEW c \in Nat, Stable(f), Covered(f, c) PROVE Covered(f, c)'
  BY <1>0, <1>2, CoveredKept DEF Mirrored
<1>3. ASSUME UNCHANGED folders, NEW f \in Mirrored PROVE FolderCovered(f)'
  <2>1. FolderCovered(f) /\ f \in Folders
    BY DEF IInv, Mirrored
  <2>2. folders[f].uid_next \in Nat
    BY <1>0, <2>1, Numbers DEF TypeOK
  <2>3. QED
    BY <1>2, <1>3, <2>1, <2>2 DEF FolderCovered, Stable
<1>4. ASSUME NEW p \in Procs, UNCHANGED <<pc[p], job[p]>> PROVE JobSound(p)' /\ JobCovered(p)'
  <2> DEFINE f == job[p].folder
  <2>0. pc'[p] = pc[p] /\ job'[p] = job[p]
    BY <1>4
  <2>1. job[p] \in Job /\ f \in Folders /\ HoldsMessage(p)
    BY <1>0, JobFields DEF TypeOK, IInv, TypeInv
  <2>2. JobSound(p) /\ JobCovered(p)
    BY <2>1 DEF IInv
  <2>3. pc[p] \in MessagePC => job[p].held.id \in Ids /\ minted[job[p].held.id] # NoRow
    <3> SUFFICES ASSUME pc[p] \in MessagePC PROVE job[p].held.id \in Ids /\ minted[job[p].held.id] # NoRow
      OBVIOUS
    <3>1. job[p].uid \in UIDs /\ job[p].held.id \in Ids
      BY <2>1, RowTypes DEF HoldsMessage
    <3>2. minted[job[p].held.id] = <<f, job[p].uid>>
      BY <2>2 DEF JobSound
    <3>3. QED
      BY <1>0, <2>1, <3>1, <3>2
  <2>4. JobSound(p)'
    BY <2>0, <2>2, <2>3 DEF JobSound, MintedStep, Stable, IsMessageAt
  <2>5. JobCovered(p)'
    <3> SUFFICES ASSUME Stable(f), f \in Mirrored PROVE JobCovered(p)'
      BY <2>0 DEF JobCovered, Stable
    <3>1. Covered(f, job[p].stored.uid_next)'
      BY <1>2, <2>0, <2>1, <2>2, JobFields DEF JobCovered
    <3>2. \A u \in Live(server[f]) : rows[f][u] # NoRow => rows'[f][u] # NoRow
      BY LiveUIDs DEF RowStep, Mirrored
    <3>3. QED
      BY <2>0, <2>2, <3>1, <3>2 DEF JobCovered
  <2>6. QED
    BY <2>4, <2>5
<1>5. ASSUME NEW p \in Procs, UNCHANGED pc[p], p \in Workers => UNCHANGED listing[p] PROVE ListCovered(p)'
  <2> SUFFICES ASSUME p \in Workers, pc[p] = "upsert folders", NEW f \in Mirrored, Stable(f)
               PROVE  Covered(f, listing[p][f].uid_next)'
    BY <1>5 DEF ListCovered, Stable
  <2>1. listing[p][f].uid_next \in Nat
    <3>1. listing[p] \in [Folders -> FolderRow] /\ f \in Folders
      BY <1>0 DEF TypeOK, Mirrored
    <3>2. QED
      BY <3>1, Numbers
  <2>2. Covered(f, listing[p][f].uid_next)
    BY DEF IInv, ListCovered
  <2>3. QED
    BY <1>2, <1>5, <2>1, <2>2
<1>6. QED
  BY <1>1, <1>2, <1>3, <1>4, <1>5

\* Every command the server executes lets a mailbox grow in this sense.
LEMMA Growth ==
  ASSUME IInv, NEW f \in Folders
  PROVE  /\ server'[f] = server[f] /\ assigned'[f] = assigned[f] => ServerGrows(f)
         /\ \A S : server'[f] = Remove(server[f], S) /\ assigned'[f] = assigned[f] => ServerGrows(f)
         /\ \A u \in UIDs, seen \in BOOLEAN :
              server'[f] = SetFlags(server[f], u, seen) /\ assigned'[f] = assigned[f] => ServerGrows(f)
         /\ \A m \in Mail :
              /\ HasRoom(server[f])
              /\ server'[f] = AppendMail(server[f], m)
              /\ assigned'[f] = [u \in UIDs |-> IF u = server[f].uid_next THEN m.msg ELSE assigned[f][u]]
              => ServerGrows(f)
         /\ \A order \in Orders(server[f]) : server'[f] = Renumber(server[f], order) => ServerGrows(f)
<1>0. /\ server[f] \in Mailbox /\ server[f].uid_next \in Nat /\ server[f].uid_validity \in Nat \ {0}
      /\ FolderSound(f)
  BY Numbers DEF IInv, TypeInv, TypeOK
<1>1. Stable(f) => \A u \in Live(server[f]) : u < server[f].uid_next /\ server[f].mail[u].msg = assigned[f][u]
  BY <1>0 DEF FolderSound
<1>2. ASSUME server'[f] = server[f], assigned'[f] = assigned[f] PROVE ServerGrows(f)
  BY <1>0, <1>1, <1>2 DEF ServerGrows, Stable
<1>3. ASSUME NEW S, server'[f] = Remove(server[f], S), assigned'[f] = assigned[f] PROVE ServerGrows(f)
  BY <1>0, <1>1, <1>3, RemoveType DEF ServerGrows, Stable
<1>4. ASSUME NEW u \in UIDs, NEW seen \in BOOLEAN, server'[f] = SetFlags(server[f], u, seen), assigned'[f] = assigned[f]
      PROVE  ServerGrows(f)
  BY <1>0, <1>1, <1>4, SetFlagsType DEF ServerGrows, Stable
<1>5. ASSUME NEW m \in Mail, HasRoom(server[f]), server'[f] = AppendMail(server[f], m),
             assigned'[f] = [u \in UIDs |-> IF u = server[f].uid_next THEN m.msg ELSE assigned[f][u]]
      PROVE  ServerGrows(f)
  <2>1. /\ server'[f].uid_validity = server[f].uid_validity
        /\ server'[f].uid_next = server[f].uid_next + 1
        /\ Live(server'[f]) = Live(server[f]) \cup {server[f].uid_next}
        /\ \A u \in UIDs : server'[f].mail[u] = IF u = server[f].uid_next THEN m ELSE server[f].mail[u]
    BY <1>0, <1>5, AppendMailType
  <2>2. \A u \in UIDs : assigned'[f][u] = IF u = server[f].uid_next THEN m.msg ELSE assigned[f][u]
    BY <1>5
  <2>3. \A u \in Live(server[f]) : u \in UIDs /\ u \in Nat
    BY LiveUIDs, Numbers
  <2>4. server[f].uid_next \in UIDs
    BY <1>0, <1>5, AppendMailType
  <2>5. QED
    BY <1>0, <1>1, <2>1, <2>2, <2>3, <2>4 DEF ServerGrows, Stable
<1>6. ASSUME NEW order \in Orders(server[f]), server'[f] = Renumber(server[f], order) PROVE ServerGrows(f)
  BY <1>0, <1>6, RenumberType DEF ServerGrows, Stable
<1>7. QED
  BY <1>2, <1>3, <1>4, <1>5, <1>6

\* A task at rest holds nothing that could be wrong.
LEMMA RestingSound ==
  ASSUME TypeInv', NEW p \in Procs, job'[p] = NoJob, pc'[p] \in Resting
  PROVE  JobSound(p)' /\ JobCovered(p)'
<1>1. /\ server'[Inbox].uid_next \in Nat /\ 0 <= server'[Inbox].uid_next
      /\ \A u \in Live(server'[Inbox]) : ~(u < 0)
  <2>1. server'[Inbox] \in Mailbox
    BY SyncAssumption DEF TypeInv, TypeOK
  <2>2. server'[Inbox].uid_next \in Nat /\ \A u \in Live(server'[Inbox]) : u \in Nat
    BY <2>1, Numbers, LiveUIDs
  <2>3. QED
    BY <2>2
<1>2. pc'[p] \notin MessagePC \cup {"fetch", "lookup", "upsert"}
  BY DEF Resting, MessagePC
<1>3. NoJob.envs = {} /\ NoJob.folder = Inbox /\ NoJob.stored.uid_next = 0 /\ NoJob.state.uid_next = 0
  BY DEF NoJob, NewFolderRow
<1>4. JobSound(p)'
  BY <1>2, <1>3 DEF JobSound, MessagePC
<1>5. JobCovered(p)'
  BY <1>1, <1>2, <1>3 DEF JobCovered, Covered
<1>6. QED
  BY <1>4, <1>5

\* The invariant holds of an empty account.
LEMMA InitIInv == Init => IInv
<1> SUFFICES ASSUME Init PROVE IInv
  OBVIOUS
<1>1. \A f \in Folders : Live(server[f]) = {} /\ server[f].uid_next = 1 /\ \A u \in UIDs : rows[f][u] = NoRow
  BY DEF Init, EmptyMailbox, Live
<1>2. \A f \in Folders : FolderSound(f)
  BY <1>1 DEF FolderSound
<1>3. ASSUME NEW p \in Procs PROVE JobSound(p) /\ JobCovered(p)
  <2>1. job[p] = NoJob /\ pc[p] \in {"connect", "ready"}
    BY DEF Init
  <2>2. NoJob.envs = {} /\ NoJob.folder = Inbox /\ NoJob.stored.uid_next = 0 /\ NoJob.state.uid_next = 0
    BY DEF NoJob, NewFolderRow
  <2>3. JobSound(p)
    BY <2>1, <2>2 DEF JobSound, MessagePC
  <2>4. JobCovered(p)
    BY <1>1, <2>1, <2>2, SyncAssumption DEF JobCovered, Covered
  <2>5. QED
    BY <2>3, <2>4
<1>4. ASSUME NEW f \in Mirrored PROVE FolderCovered(f)
  <2>1. f \in Folders /\ folders[f].uid_next = 0 /\ \A w \in Workers : listing[w][f].uid_next = 0
    BY DEF Init, Mirrored, NoListing, NewFolderRow
  <2>2. QED
    BY <1>1, <2>1 DEF FolderCovered, Covered
<1>5. QED
  <2>1. \A p \in Procs : ListCovered(p)
    BY DEF Init, ListCovered
  <2>2. QED
    BY <1>2, <1>3, <1>4, <2>1, InitType DEF IInv

\* A step of the server or of its other users preserves the invariant.
LEMMA EnvironmentIInv == IInv /\ Environment => IInv'
<1> SUFFICES ASSUME IInv, Environment PROVE IInv'
  OBVIOUS
<1>1. TypeOK /\ TypeInv'
  BY EnvironmentType DEF IInv, TypeInv
<1>2. /\ UNCHANGED storeVars /\ UNCHANGED listing
      /\ \A p \in Procs : UNCHANGED <<pc[p], job[p]>>
  BY DEF Environment, Deliver, OtherClientExpunges, OtherClientFlags, ServerRenumbers, workerVars
<1>3. \A f \in Folders : ServerGrows(f)
  <2>1. ASSUME NEW f \in Folders, NEW m \in Msgs, Deliver(f, m), NEW g \in Folders PROVE ServerGrows(g)
    <3>1. /\ [msg |-> m, seen |-> FALSE] \in Mail /\ [msg |-> m, seen |-> FALSE].msg = m
      BY DEF Mail
    <3>2. CASE g = f
      <4>1. /\ server'[f] = AppendMail(server[f], [msg |-> m, seen |-> FALSE]) /\ HasRoom(server[f])
            /\ assigned'[f] = [u \in UIDs |-> IF u = server[f].uid_next THEN m ELSE assigned[f][u]]
        BY <1>1, <2>1 DEF Deliver, TypeOK
      <4>2. QED
        BY <3>1, <3>2, <4>1, Growth
    <3>3. CASE g # f
      BY <1>1, <2>1, <3>3, Growth DEF Deliver, TypeOK
    <3>4. QED
      BY <3>2, <3>3
  <2>2. ASSUME NEW f \in Folders, NEW u \in UIDs, OtherClientExpunges(f, u), NEW g \in Folders PROVE ServerGrows(g)
    <3>1. assigned' = assigned /\ server'[g] = IF g = f THEN Remove(server[f], {u}) ELSE server[g]
      BY <1>1, <2>2 DEF OtherClientExpunges, TypeOK
    <3>2. QED
      BY <3>1, Growth
  <2>3. ASSUME NEW f \in Folders, NEW u \in UIDs, OtherClientFlags(f, u), NEW g \in Folders PROVE ServerGrows(g)
    <3>1. assigned' = assigned /\ server'[g] = IF g = f THEN SetFlags(server[f], u, ~server[f].mail[u].seen) ELSE server[g]
      BY <1>1, <2>3 DEF OtherClientFlags, TypeOK
    <3>2. (~server[f].mail[u].seen) \in BOOLEAN
      OBVIOUS
    <3>3. QED
      BY <3>1, <3>2, Growth
  <2>4. ASSUME NEW f \in Folders, ServerRenumbers(f), NEW g \in Folders PROVE ServerGrows(g)
    <3>1. PICK order \in Orders(server[f]) :
            /\ server' = [server EXCEPT ![f] = Renumber(@, order)]
            /\ assigned' = [assigned EXCEPT ![f] =
                 [u \in UIDs |-> IF u \in DOMAIN order THEN server[f].mail[order[u]].msg ELSE NoMsg]]
      BY <2>4 DEF ServerRenumbers
    <3>2. /\ g = f => server'[g] = Renumber(server[g], order)
          /\ g # f => server'[g] = server[g] /\ assigned'[g] = assigned[g]
      BY <1>1, <3>1 DEF TypeOK
    <3>3. QED
      BY <3>2, Growth
  <2>5. QED
    BY <2>1, <2>2, <2>3, <2>4 DEF Environment
<1>4. QED
  BY <1>1, <1>2, <1>3, ServerStep DEF IInv

\* What is left of the invariant for a step of one task that leaves the
\* server alone, changes rows lawfully, and touches no cursor.
LEMMA TaskStep ==
  ASSUME IInv, TypeInv', NEW p \in Procs, UNCHANGED serverVars, MintedStep,
         \A f \in Folders, u \in UIDs : RowStep(f, u),
         \A q \in Procs \ {p} : UNCHANGED <<pc[q], job[q]>>,
         UNCHANGED <<folders, listing>>, pc'[p] # "upsert folders", JobSound(p)', JobCovered(p)'
  PROVE  IInv'
<1>1. ListCovered(p)'
  BY DEF ListCovered
<1>2. QED
  BY <1>1, StoreStep DEF IInv

\* A task leaves the others where they are.
LEMMA OthersStay ==
  ASSUME TypeOK, NEW p \in Procs, NEW step, Goto(p, step), NEW j, job' = [job EXCEPT ![p] = j] \/ UNCHANGED job
  PROVE  /\ \A q \in Procs \ {p} : UNCHANGED <<pc[q], job[q]>>
         /\ pc'[p] = step
         /\ job' = [job EXCEPT ![p] = j] => job'[p] = j
BY DEF Goto, TypeOK

\* Not touching the rows, or the ids, is lawful.
LEMMA NoRowStep ==
  /\ UNCHANGED rows => \A f \in Folders, u \in UIDs : RowStep(f, u)
  /\ UNCHANGED minted => MintedStep
BY DEF RowStep, MintedStep

\* A task that drops what it holds preserves the invariant.
LEMMA LeavingStep ==
  ASSUME IInv, TypeInv', NEW p \in Procs, NEW step \in Resting \ {"upsert folders"}, Leave(p, step),
         UNCHANGED serverVars, MintedStep, \A f \in Folders, u \in UIDs : RowStep(f, u),
         UNCHANGED <<folders, listing>>
  PROVE  IInv'
<1>1. job' = [job EXCEPT ![p] = NoJob] /\ Goto(p, step) /\ TypeOK
  BY DEF Leave, IInv, TypeInv
<1>2. job'[p] = NoJob /\ pc'[p] = step /\ \A q \in Procs \ {p} : UNCHANGED <<pc[q], job[q]>>
  BY <1>1, OthersStay
<1>3. JobSound(p)' /\ JobCovered(p)'
  BY <1>2, RestingSound
<1>4. QED
  BY <1>2, <1>3, TaskStep

\* A fetched envelope, a stored row, and a message body, are of the message
\* the uid was given to.
LEMMA WhatIsRead ==
  ASSUME IInv, NEW f \in Folders
  PROVE  /\ \A u \in UIDs : rows[f][u] # NoRow =>
              /\ rows[f][u] \in Row /\ minted[rows[f][u].id] = <<f, u>>
              /\ Stable(f) => u < server[f].uid_next /\ IsMessageAt(rows[f][u], f, u)
         /\ Stable(f) => \A u \in Live(server[f]) :
              u < server[f].uid_next /\ server[f].mail[u].msg = assigned[f][u]
         /\ server[f] \in Mailbox /\ server[f].uid_next \in Nat
BY Numbers DEF IInv, TypeInv, TypeOK, FolderSound, Table

\* Writing a sound row back, however late, is a lawful change of the store.
LEMMA UpsertSound ==
  ASSUME IInv, NEW f \in Folders, NEW u \in UIDs, NEW h \in Row,
         minted[h.id] = <<f, u>>,
         Stable(f) => u < server[f].uid_next /\ IsMessageAt(h, f, u),
         rows' = UpsertEnvelope(rows, f, u, h)
  PROVE  /\ \A g \in Folders, v \in UIDs : RowStep(g, v)
         /\ rows'[f][u] # NoRow
         /\ \A g \in Folders, v \in UIDs : rows[g][v] # NoRow => rows'[g][v] # NoRow
<1>1. rows \in Table
  BY DEF IInv, TypeInv, TypeOK
<1>2. /\ \A g \in Folders, v \in UIDs : <<g, v>> # <<f, u>> => rows'[g][v] = rows[g][v]
      /\ rows'[f][u] # NoRow /\ rows'[f][u].id = h.id /\ rows'[f][u].msg = h.msg
      /\ rows'[f][u].body = IF rows[f][u] = NoRow THEN h.body ELSE rows[f][u].body
  BY <1>1, UpsertEnvelopeType
<1>3. rows[f][u] # NoRow /\ Stable(f) => IsMessageAt(rows[f][u], f, u)
  BY WhatIsRead
<1>4. RowStep(f, u)
  BY <1>2, <1>3 DEF RowStep, IsMessageAt
<1>5. QED
  BY <1>2, <1>4 DEF RowStep

\* Each step of a folder sync preserves the invariant.
LEMMA FolderSyncIInv ==
  ASSUME IInv, NEW p \in Procs, FolderSync(p)
  PROVE  IInv'
<1> DEFINE f == job[p].folder  j == job[p]
<1>0. /\ TypeOK /\ TypeInv' /\ HoldsMessage(p) /\ JobSound(p) /\ JobCovered(p)
      /\ j \in Job /\ f \in Folders
  BY FolderSyncType, JobFields DEF IInv, TypeInv, TypeOK
<1>1. Home(p) \in Resting \ {"upsert folders"}
  BY DEF Home, Resting
<1>2. CASE SelectFolderStep(p)
  <2> DEFINE k == [j EXCEPT !.state = SelectFolder(server[f])]
  <2>1. /\ k.folder = f /\ k.stored = j.stored /\ k.envs = j.envs
        /\ k.state.uid_next = server[f].uid_next
    BY <1>0 DEF Job, SelectFolder
  <2>2. job' = [job EXCEPT ![p] = k] /\ Goto(p, "plan")
    BY <1>2 DEF SelectFolderStep
  <2> HIDE DEF k
  <2>3. job'[p] = k /\ pc'[p] = "plan" /\ \A q \in Procs \ {p} : UNCHANGED <<pc[q], job[q]>>
    BY <1>0, <2>2, OthersStay
  <2>4. JobSound(p)'
    BY <1>0, <1>2, <2>1, <2>3 DEF JobSound, SelectFolderStep, MessagePC, Resting, Stable, serverVars
  <2>5. JobCovered(p)'
    <3>1. server[f].uid_next <= server[f].uid_next
      BY <1>0, WhatIsRead
    <3>2. QED
      BY <1>0, <1>2, <2>1, <2>3, <3>1 DEF JobCovered, Covered, SelectFolderStep, Stable, serverVars, storeVars
  <2>6. QED
    BY <1>0, <1>2, <2>3, <2>4, <2>5, NoRowStep, TaskStep DEF SelectFolderStep, storeVars, workerVars
<1>3. CASE PlanFetch(p)
  <2> DEFINE scan == ~scanned[f]
             range == IF p \in Workers THEN WorkerRange(j.stored, j.state, scan)
                                       ELSE CommandRange(j.stored, j.state, scan)
             k == [j EXCEPT !.scan = scan, !.range = range]
  <2>1. CASE job' = [job EXCEPT ![p] = k] /\ Goto(p, "fetch")
    <3>1. \A u \in UIDs : j.stored.uid_next <= u /\ u < j.state.uid_next => u \in range
      BY <1>0, JobFields, Numbers DEF WorkerRange, CommandRange
    <3> HIDE DEF scan, range
    <3>2. k.folder = f /\ k.stored = j.stored /\ k.envs = j.envs /\ k.state = j.state /\ k.range = range
      BY <1>0 DEF Job
    <3> HIDE DEF k
    <3>3. job'[p] = k /\ pc'[p] = "fetch" /\ \A q \in Procs \ {p} : UNCHANGED <<pc[q], job[q]>>
      BY <1>0, <2>1, OthersStay
    <3>4. JobSound(p)'
      BY <1>0, <1>3, <3>2, <3>3 DEF JobSound, PlanFetch, MessagePC, Resting, Stable, serverVars
    <3>5. JobCovered(p)'
      BY <1>0, <1>3, <3>1, <3>2, <3>3 DEF JobCovered, Covered, PlanFetch, Stable, serverVars, storeVars
    <3>6. QED
      BY <1>0, <1>3, <3>3, <3>4, <3>5, NoRowStep, TaskStep DEF PlanFetch, storeVars, workerVars
  <2>2. CASE Leave(p, "next")
    BY <1>0, <1>3, <2>2, NoRowStep, LeavingStep DEF PlanFetch, storeVars, workerVars, Resting
  <2>3. QED
    BY <1>3, <2>1, <2>2 DEF PlanFetch
<1>4. CASE FetchStep(p)
  <2> DEFINE envs == FetchEnvelopes(server[f], j.range)
             k == [j EXCEPT !.envs = envs]
  <2>1. /\ \A e \in envs : e.uid \in Live(server[f]) /\ e.msg = server[f].mail[e.uid].msg
        /\ \A u \in j.range \cap Live(server[f]) : \E e \in envs : e.uid = u
    BY <1>0, JobFields, FetchEnvelopesType, WhatIsRead
  <2> HIDE DEF envs
  <2>2. k.folder = f /\ k.stored = j.stored /\ k.envs = envs /\ k.state = j.state
    BY <1>0 DEF Job
  <2>3. job' = [job EXCEPT ![p] = k] /\ Goto(p, "lookup")
    BY <1>4 DEF FetchStep, envs
  <2> HIDE DEF k
  <2>4. job'[p] = k /\ pc'[p] = "lookup" /\ \A q \in Procs \ {p} : UNCHANGED <<pc[q], job[q]>>
    BY <1>0, <2>3, OthersStay
  <2>5. JobSound(p)'
    <3>1. Stable(f) => \A e \in envs : e.uid < server[f].uid_next /\ e.msg = assigned[f][e.uid]
      BY <1>0, <2>1, WhatIsRead
    <3>2. QED
      BY <1>4, <2>2, <2>4, <3>1 DEF JobSound, FetchStep, MessagePC, Resting, Stable, serverVars
  <2>6. JobCovered(p)'
    <3> SUFFICES ASSUME Stable(f), f \in Mirrored PROVE JobCovered(p)'
      BY <1>4, <2>2, <2>4 DEF JobCovered, FetchStep, Stable, serverVars
    <3>1. \A u \in Live(server[f]) : u < j.state.uid_next => rows[f][u] # NoRow \/ \E e \in envs : e.uid = u
      <4>1. SUFFICES ASSUME NEW u \in Live(server[f]), u < j.state.uid_next
                     PROVE  rows[f][u] # NoRow \/ \E e \in envs : e.uid = u
        OBVIOUS
      <4>2. u \in UIDs /\ u \in Nat /\ j.stored.uid_next \in Nat
        BY <1>0, LiveUIDs, Numbers, JobFields
      <4>3. CASE u < j.stored.uid_next
        BY <1>0, <4>3 DEF JobCovered, Covered
      <4>4. CASE j.stored.uid_next <= u
        BY <1>0, <1>4, <2>1, <4>1, <4>2, <4>4 DEF JobCovered, FetchStep
      <4>5. QED
        BY <4>2, <4>3, <4>4
    <3>2. QED
      BY <1>0, <1>4, <2>2, <2>4, <3>1 DEF JobCovered, Covered, FetchStep, serverVars, storeVars
  <2>7. QED
    BY <1>0, <1>4, <2>4, <2>5, <2>6, NoRowStep, TaskStep DEF FetchStep, storeVars, workerVars
<1>5. CASE LookupRow(p)
  <2>1. PICK e \in j.envs :
          IF rows[f][e.uid] # NoRow
          THEN /\ job' = [job EXCEPT ![p].envs = @ \ {e}, ![p].uid = e.uid,
                            ![p].held = Merge(rows[f][e.uid], e)]
               /\ UNCHANGED minted
          ELSE \E i \in Ids :
               /\ minted[i] = NoRow
               /\ minted' = [minted EXCEPT ![i] = <<f, e.uid>>]
               /\ job' = [job EXCEPT ![p].envs = @ \ {e}, ![p].uid = e.uid,
                            ![p].held = [id |-> i, msg |-> e.msg, seen |-> e.seen, body |-> NoMsg]]
    BY <1>5 DEF LookupRow
  <2> DEFINE k(h) == [j EXCEPT !.envs = @ \ {e}, !.uid = e.uid, !.held = h]
  <2>2. /\ e.uid \in UIDs
        /\ Stable(f) => e.uid < server[f].uid_next /\ e.msg = assigned[f][e.uid]
    BY <1>0, JobFields DEF JobSound
  <2>3. ASSUME NEW h
        PROVE  /\ k(h).folder = f /\ k(h).stored = j.stored /\ k(h).state = j.state
               /\ k(h).envs = j.envs \ {e} /\ k(h).uid = e.uid /\ k(h).held = h
    BY <1>0 DEF Job
  <2>4. PICK h : /\ job' = [job EXCEPT ![p] = k(h)]
                 /\ MintedStep
                 /\ minted'[h.id] = <<f, e.uid>>
                 /\ h.msg = e.msg
                 /\ Stable(f) => h.body \in {NoMsg, assigned[f][e.uid]}
    <3>1. CASE rows[f][e.uid] # NoRow
      <4> DEFINE r == rows[f][e.uid]  h == Merge(r, e)
      <4>1. /\ r \in Row /\ minted[r.id] = <<f, e.uid>>
            /\ Stable(f) => IsMessageAt(r, f, e.uid)
        BY <1>0, <2>2, <3>1, WhatIsRead
      <4>2. h.id = r.id /\ h.msg = e.msg /\ h.body = r.body
        BY <4>1 DEF Merge, Row
      <4>3. job' = [job EXCEPT ![p] = k(h)] /\ UNCHANGED minted
        BY <2>1, <3>1
      <4> HIDE DEF h, k
      <4>4. QED
        BY <4>1, <4>2, <4>3, NoRowStep DEF IsMessageAt
    <3>2. CASE rows[f][e.uid] = NoRow
      <4>1. PICK i \in Ids :
              /\ minted[i] = NoRow /\ minted' = [minted EXCEPT ![i] = <<f, e.uid>>]
              /\ job' = [job EXCEPT ![p] = k([id |-> i, msg |-> e.msg, seen |-> e.seen, body |-> NoMsg])]
        BY <2>1, <3>2
      <4>2. MintedStep /\ minted'[i] = <<f, e.uid>>
        BY <1>0, <4>1 DEF MintedStep, TypeOK
      <4> DEFINE h == [id |-> i, msg |-> e.msg, seen |-> e.seen, body |-> NoMsg]
      <4>3. h.id = i /\ h.msg = e.msg /\ h.body = NoMsg
        OBVIOUS
      <4>4. job' = [job EXCEPT ![p] = k(h)]
        BY <4>1
      <4> HIDE DEF h, k
      <4>5. QED
        BY <4>2, <4>3, <4>4
    <3>3. QED
      BY <3>1, <3>2
  <2> HIDE DEF k
  <2>5. Goto(p, "upsert")
    BY <1>5 DEF LookupRow
  <2>6. job'[p] = k(h) /\ pc'[p] = "upsert" /\ \A q \in Procs \ {p} : UNCHANGED <<pc[q], job[q]>>
    BY <1>0, <2>4, <2>5, OthersStay
  <2>7. UNCHANGED <<serverVars, rows, folders, listing>>
    BY <1>5 DEF LookupRow, workerVars
  <2>8. JobSound(p)'
    <3>1. /\ job'[p].folder = f /\ job'[p].uid = e.uid /\ job'[p].held = h
          /\ job'[p].envs \subseteq j.envs
      BY <2>3, <2>6
    <3>2. Stable(f) => IsMessageAt(h, f, e.uid)
      BY <2>2, <2>4 DEF IsMessageAt
    <3>3. QED
      BY <1>0, <2>2, <2>4, <2>6, <2>7, <3>1, <3>2 DEF JobSound, IsMessageAt, Resting, Stable, serverVars
  <2>9. JobCovered(p)'
    <3>1. Stable(f) /\ f \in Mirrored =>
            \A u \in Live(server[f]) : u < j.state.uid_next =>
              rows[f][u] # NoRow \/ (\E d \in j.envs \ {e} : d.uid = u) \/ u = e.uid
      BY <1>0, <1>5 DEF JobCovered, LookupRow
    <3>2. QED
      BY <1>0, <2>3, <2>6, <2>7, <3>1 DEF JobCovered, Covered, Stable, serverVars
  <2>10. QED
    BY <1>0, <2>4, <2>6, <2>7, <2>8, <2>9, NoRowStep, TaskStep
<1>6. CASE UpsertRow(p)
  <2> DEFINE u == j.uid  h == j.held  k == [j EXCEPT !.uid = 0, !.held = NoHeld]
  <2>1. /\ u \in UIDs /\ h \in Row /\ minted[h.id] = <<f, u>>
        /\ Stable(f) => u < server[f].uid_next /\ IsMessageAt(h, f, u)
    BY <1>0, <1>6 DEF UpsertRow, JobSound, HoldsMessage, MessagePC
  <2>2. k.folder = f /\ k.stored = j.stored /\ k.state = j.state /\ k.envs = j.envs
    BY <1>0 DEF Job
  <2>3. job' = [job EXCEPT ![p] = k] /\ Goto(p, "lookup")
    BY <1>6 DEF UpsertRow
  <2> HIDE DEF k
  <2>4. job'[p] = k /\ pc'[p] = "lookup" /\ \A q \in Procs \ {p} : UNCHANGED <<pc[q], job[q]>>
    BY <1>0, <2>3, OthersStay
  <2>5. UNCHANGED <<serverVars, folders, minted, listing>>
    BY <1>6 DEF UpsertRow, workerVars
  <2>6. /\ \A g \in Folders, v \in UIDs : RowStep(g, v)
        /\ rows'[f][u] # NoRow
        /\ \A v \in UIDs : rows[f][v] # NoRow => rows'[f][v] # NoRow
    <3>1. rows' = UpsertEnvelope(rows, f, u, h)
      BY <1>6 DEF UpsertRow
    <3>2. QED
      BY <1>0, <2>1, <3>1, UpsertSound
  <2>7. JobSound(p)'
    BY <1>0, <2>2, <2>4, <2>5 DEF JobSound, MessagePC, Resting, Stable, serverVars
  <2>8. JobCovered(p)'
    <3> SUFFICES ASSUME Stable(f), f \in Mirrored PROVE JobCovered(p)'
      BY <2>2, <2>4, <2>5 DEF JobCovered, Stable, serverVars
    <3>1. \A v \in Live(server[f]) : v < j.state.uid_next => rows'[f][v] # NoRow \/ \E e \in j.envs : e.uid = v
      BY <1>0, <1>6, <2>6, LiveUIDs DEF JobCovered, UpsertRow
    <3>2. Covered(f, j.stored.uid_next)'
      BY <1>0, <2>4, <2>2, <2>5, <2>6, LiveUIDs DEF JobCovered, Covered, serverVars
    <3>3. QED
      BY <1>0, <2>2, <2>4, <2>5, <3>1, <3>2 DEF JobCovered, serverVars
  <2>9. QED
    BY <1>0, <2>4, <2>5, <2>6, <2>7, <2>8, NoRowStep, TaskStep
<1>7. CASE FinishSync(p)
  <2>1. UNCHANGED <<serverVars, rows, minted, listing>> /\ folders' = [folders EXCEPT ![f] = j.state]
    BY <1>7 DEF FinishSync, workerVars, UpsertFolder
  <2>2. f \in Mirrored /\ Stable(f) => Covered(f, j.state.uid_next)
    BY <1>0, <1>7 DEF JobCovered, Covered, FinishSync
  <2>3. ASSUME NEW g \in Mirrored PROVE FolderCovered(g)'
    <3>1. FolderCovered(g) /\ g \in Folders
      BY DEF IInv, Mirrored
    <3>2. folders'[g] = IF g = f THEN j.state ELSE folders[g]
      BY <1>0, <2>1, <3>1 DEF TypeOK
    <3>3. QED
      BY <2>1, <2>2, <3>1, <3>2 DEF FolderCovered, Covered, Stable, serverVars
  <2>4. /\ \A g \in Folders : FolderSound(g)'
        /\ \A q \in Procs : UNCHANGED <<pc[q], job[q]>> => JobSound(q)' /\ JobCovered(q)' /\ ListCovered(q)'
    BY <1>0, <2>1, NoRowStep, StoreStep
  <2>5. CASE Goto(p, "mark") /\ UNCHANGED job
    <3>1. job'[p] = j /\ pc'[p] = "mark" /\ \A q \in Procs \ {p} : UNCHANGED <<pc[q], job[q]>>
      BY <1>0, <2>5, OthersStay
    <3>2. JobSound(p)' /\ JobCovered(p)'
      BY <1>0, <2>1, <3>1 DEF JobSound, JobCovered, Covered, MessagePC, Resting, Stable, serverVars
    <3>3. ListCovered(p)'
      BY <3>1 DEF ListCovered
    <3>4. QED
      BY <1>0, <2>3, <2>4, <3>1, <3>2, <3>3 DEF IInv
  <2>6. CASE Leave(p, Home(p))
    <3>1. job'[p] = NoJob /\ pc'[p] = Home(p) /\ \A q \in Procs \ {p} : UNCHANGED <<pc[q], job[q]>>
      BY <1>0, <2>6, OthersStay DEF Leave
    <3>2. JobSound(p)' /\ JobCovered(p)'
      BY <1>0, <1>1, <3>1, RestingSound
    <3>3. ListCovered(p)'
      BY <3>1 DEF ListCovered, Home
    <3>4. QED
      BY <1>0, <2>3, <2>4, <3>1, <3>2, <3>3 DEF IInv
  <2>7. QED
    BY <1>7, <2>5, <2>6 DEF FinishSync
<1>8. CASE MarkScanned(p)
  BY <1>0, <1>1, <1>8, NoRowStep, LeavingStep DEF MarkScanned, workerVars
<1>9. QED
  BY <1>2, <1>3, <1>4, <1>5, <1>6, <1>7, <1>8 DEF FolderSync

\* A step between two resting places, or back to one.
LEMMA RestingStep ==
  ASSUME IInv, TypeInv', NEW p \in Procs, NEW step \in Resting,
         \/ Leave(p, step)
         \/ pc[p] \in Resting /\ Goto(p, step) /\ UNCHANGED job,
         UNCHANGED <<serverVars, rows, minted>>, \A f \in Mirrored : FolderCovered(f)',
         \A q \in Workers \ {p} : UNCHANGED listing[q],
         step = "upsert folders" => ListCovered(p)'
  PROVE  IInv'
<1>1. TypeOK /\ JobSound(p)
  BY DEF IInv, TypeInv
<1>2. CASE Leave(p, step)
  <2>1. job'[p] = NoJob /\ pc'[p] = step /\ \A q \in Procs \ {p} : UNCHANGED <<pc[q], job[q]>>
    BY <1>1, <1>2, OthersStay DEF Leave
  <2>2. QED
    <3>1. ListCovered(p)'
      BY <2>1 DEF ListCovered
    <3>2. QED
      BY <2>1, <3>1, RestingSound, StoreStep, NoRowStep DEF IInv
<1>3. CASE pc[p] \in Resting /\ Goto(p, step) /\ UNCHANGED job
  <2>1. job'[p] = NoJob /\ pc'[p] = step /\ \A q \in Procs \ {p} : UNCHANGED <<pc[q], job[q]>>
    BY <1>1, <1>3 DEF Goto, TypeOK, JobSound
  <2>2. QED
    <3>1. ListCovered(p)'
      BY <2>1 DEF ListCovered
    <3>2. QED
      BY <2>1, <3>1, RestingSound, StoreStep, NoRowStep DEF IInv
<1>4. QED
  BY <1>2, <1>3

\* The cursors of the store stay where they are, or one is set to what a
\* worker listed.
LEMMA CursorStep ==
  ASSUME IInv, UNCHANGED <<server, rows>>, NEW f \in Mirrored,
         \/ folders'[f].uid_next = folders[f].uid_next
         \/ \E w \in Workers : pc[w] = "upsert folders" /\ folders'[f].uid_next = listing[w][f].uid_next
  PROVE  FolderCovered(f)'
<1>1. FolderCovered(f) /\ \A w \in Workers : ListCovered(w)
  BY DEF IInv, Procs
<1>2. QED
  BY <1>1 DEF FolderCovered, ListCovered, Covered, Stable

\* A task about to sync f has read a cursor that may be stored.
LEMMA StartSync ==
  ASSUME IInv, NEW p \in Procs, NEW f \in Folders, job[p] = NoJob,
         job' = [job EXCEPT ![p].folder = f, ![p].stored = folders[f]],
         Goto(p, "select"), UNCHANGED <<server, rows>>
  PROVE  /\ JobSound(p)' /\ JobCovered(p)' /\ pc'[p] = "select"
         /\ \A q \in Procs \ {p} : UNCHANGED <<pc[q], job[q]>>
<1> DEFINE k == [NoJob EXCEPT !.folder = f, !.stored = folders[f]]
<1>1. k.folder = f /\ k.stored = folders[f] /\ k.envs = {} /\ k.state.uid_next = 0
  BY DEF NoJob, NewFolderRow
<1>2. TypeOK /\ job' = [job EXCEPT ![p] = k]
  BY DEF IInv, TypeInv
<1> HIDE DEF k
<1>3. job'[p] = k /\ pc'[p] = "select" /\ \A q \in Procs \ {p} : UNCHANGED <<pc[q], job[q]>>
  BY <1>2 DEF Goto, TypeOK
<1>4. f \in Mirrored => FolderCovered(f)
  BY DEF IInv
<1>5. 0 <= server[f].uid_next
  BY WhatIsRead
<1>6. JobSound(p)'
  BY <1>1, <1>3 DEF JobSound, MessagePC, Resting
<1>7. JobCovered(p)'
  BY <1>1, <1>3, <1>4, <1>5 DEF JobCovered, FolderCovered, Covered, Stable
<1>8. QED
  BY <1>3, <1>6, <1>7

\* Each step of a worker preserves the invariant.
LEMMA WorkerIInv ==
  ASSUME IInv, NEW w \in Workers, WorkerSteps(w) \/ FolderFails(w) \/ ConnectionFails(w)
  PROVE  IInv'
<1>0. /\ TypeOK /\ TypeInv' /\ w \in Procs /\ JobSound(w)
      /\ {"connect", "list", "existing", "upsert folders", "next", "idle"} \subseteq Resting
      /\ Mirrored \subseteq Folders
  BY WorkerType DEF IInv, TypeInv, Procs, Resting, Mirrored
<1>1. UNCHANGED <<server, rows, folders>> => \A f \in Mirrored : FolderCovered(f)'
  BY CursorStep
<1>2. CASE FolderSync(w)
  BY <1>0, <1>2, FolderSyncIInv
<1>3. CASE Connect(w)
  BY <1>0, <1>1, <1>3, RestingStep DEF Connect, serverVars, storeVars
<1>4. CASE ListFolders(w)
  <2>1. /\ UNCHANGED <<serverVars, server, rows, minted, folders, job>> /\ Goto(w, "existing") /\ pc[w] = "list"
        /\ \A q \in Workers \ {w} : UNCHANGED listing[q]
    BY <1>0, <1>4 DEF ListFolders, serverVars, storeVars, TypeOK
  <2>2. QED
    BY <1>0, <1>1, <2>1, RestingStep
<1>5. CASE ListExisting(w)
  <2>1. /\ UNCHANGED <<serverVars, server, rows, minted, folders, job>>
        /\ Goto(w, "upsert folders") /\ pc[w] = "existing"
        /\ listing' = [listing EXCEPT ![w] = [f \in Folders |-> ToFolder(listing[w][f], folders[f])]]
    BY <1>5 DEF ListExisting, serverVars, storeVars
  <2>2. \A f \in Mirrored : listing'[w][f].uid_next = folders[f].uid_next
    <3>1. \A r \in FolderRow, e \in FolderRow : ToFolder(r, e).uid_next = e.uid_next
      BY DEF ToFolder, FolderRow
    <3>2. QED
      BY <1>0, <2>1, <3>1 DEF TypeOK
  <2>3. ListCovered(w)'
    BY <1>0, <2>1, <2>2 DEF IInv, ListCovered, FolderCovered, Covered, Stable
  <2>4. \A q \in Workers \ {w} : UNCHANGED listing[q]
    BY <1>0, <2>1 DEF TypeOK
  <2>5. QED
    BY <1>0, <1>1, <2>1, <2>3, <2>4, RestingStep
<1>6. CASE UpsertListed(w)
  <2>1. PICK f \in unlisted[w] :
          /\ folders' = UpsertFolder(folders, f, listing[w][f])
          /\ \/ Goto(w, "next") /\ listing' = [listing EXCEPT ![w] = NoListing]
             \/ UNCHANGED <<pc, listing>>
    BY <1>6 DEF UpsertListed
  <2>2. UNCHANGED <<serverVars, server, rows, minted, job>> /\ pc[w] = "upsert folders"
    BY <1>6 DEF UpsertListed, serverVars
  <2>3. \A g \in Mirrored : folders'[g].uid_next \in {folders[g].uid_next, listing[w][g].uid_next}
    BY <1>0, <2>1 DEF UpsertFolder, TypeOK
  <2>4. \A g \in Mirrored : FolderCovered(g)'
    BY <2>2, <2>3, CursorStep
  <2>5. CASE Goto(w, "next") /\ listing' = [listing EXCEPT ![w] = NoListing]
    <3>1. \A q \in Workers \ {w} : UNCHANGED listing[q]
      BY <1>0, <2>5 DEF TypeOK
    <3>2. QED
      BY <1>0, <2>2, <2>4, <2>5, <3>1, RestingStep
  <2>6. CASE UNCHANGED <<pc, listing>>
    BY <1>0, <2>2, <2>4, <2>6, StoreStep, NoRowStep DEF IInv
  <2>7. QED
    BY <2>1, <2>5, <2>6
<1>7. CASE NextFolder(w)
  <2>1. PICK f \in queue[w] : job' = [job EXCEPT ![w].folder = f, ![w].stored = folders[f]]
    BY <1>7 DEF NextFolder
  <2>2. f \in Folders /\ job[w] = NoJob /\ pc'[w] = "select"
    BY <1>0, <1>7, <2>1 DEF NextFolder, TypeOK, JobSound, Goto
  <2>3. JobSound(w)' /\ JobCovered(w)' /\ \A q \in Procs \ {w} : UNCHANGED <<pc[q], job[q]>>
    BY <1>0, <1>7, <2>1, <2>2, StartSync DEF NextFolder, serverVars, storeVars
  <2>4. QED
    BY <1>0, <1>7, <2>2, <2>3, TaskStep, NoRowStep DEF NextFolder, storeVars, workerVars
<1>8. CASE EnterIdle(w)
  BY <1>0, <1>1, <1>8, RestingStep DEF EnterIdle, serverVars, storeVars, workerVars
<1>9. CASE IdleEvent(w)
  BY <1>0, <1>1, <1>9, RestingStep DEF IdleEvent, serverVars, storeVars
<1>10. CASE FolderFails(w)
  <2>1. Leave(w, "next") /\ UNCHANGED <<serverVars, server, rows, minted, folders, listing>>
    BY <1>10 DEF FolderFails, serverVars, storeVars, workerVars
  <2>2. QED
    BY <1>0, <1>1, <2>1, RestingStep
<1>11. CASE ConnectionFails(w)
  <2>1. /\ Leave(w, "connect") /\ UNCHANGED <<serverVars, server, rows, minted, folders>>
        /\ \A q \in Workers \ {w} : UNCHANGED listing[q]
    BY <1>0, <1>11 DEF ConnectionFails, serverVars, storeVars, TypeOK
  <2>2. QED
    BY <1>0, <1>1, <2>1, RestingStep
<1>12. QED
  BY <1>2, <1>3, <1>4, <1>5, <1>6, <1>7, <1>8, <1>9, <1>10, <1>11 DEF WorkerSteps

\* The start of a command preserves the invariant.
LEMMA StartCommandIInv ==
  ASSUME IInv, NEW c \in Clients, StartCommand(c)
  PROVE  IInv'
<1>0. TypeOK /\ TypeInv' /\ c \in Procs /\ JobSound(c) /\ JobCovered(c) /\ "ready" \in Resting
  BY StartCommandType DEF IInv, TypeInv, Procs, Resting
<1>1. UNCHANGED <<serverVars, rows, minted, folders, listing>> /\ pc[c] = "ready"
  BY DEF StartCommand, SyncCommand, FetchBodyCommand, MoveCommand, SetFlagCommand, MessageCommand,
         EmptyTrashCommand, storeVars, workerVars
<1>2. job[c] = NoJob
  BY <1>0, <1>1 DEF JobSound
<1>3. ASSUME NEW f \in Folders, SyncCommand(c, f) PROVE IInv'
  <2>1. /\ JobSound(c)' /\ JobCovered(c)' /\ pc'[c] = "select"
        /\ \A q \in Procs \ {c} : UNCHANGED <<pc[q], job[q]>>
    BY <1>0, <1>1, <1>2, <1>3, StartSync DEF SyncCommand, serverVars
  <2>2. QED
    BY <1>0, <1>1, <2>1, TaskStep, NoRowStep
<1>4. ASSUME NEW f \in Folders, NEW u \in UIDs, NEW h, NEW step \in {"body", "store", "move"}, NEW command,
             MessageCommand(c, command, step, f, u, h),
             h.id = rows[f][u].id, h.msg = rows[f][u].msg, h.body = rows[f][u].body
      PROVE IInv'
  <2> DEFINE k == [NoJob EXCEPT !.folder = f, !.uid = u, !.held = h]
  <2>1. /\ k.folder = f /\ k.uid = u /\ k.held = h /\ k.envs = {}
        /\ k.stored.uid_next = 0 /\ k.state.uid_next = 0
    BY DEF NoJob, NewFolderRow
  <2>2. job' = [job EXCEPT ![c] = k] /\ Goto(c, step) /\ rows[f][u] # NoRow
    BY <1>2, <1>4 DEF MessageCommand
  <2> HIDE DEF k
  <2>3. job'[c] = k /\ pc'[c] = step /\ \A q \in Procs \ {c} : UNCHANGED <<pc[q], job[q]>>
    BY <1>0, <2>2, OthersStay
  <2>4. /\ minted[h.id] = <<f, u>>
        /\ Stable(f) => u < server[f].uid_next /\ IsMessageAt(h, f, u)
    BY <1>4, <2>2, WhatIsRead DEF IsMessageAt
  <2>5. JobSound(c)'
    BY <1>1, <2>1, <2>3, <2>4 DEF JobSound, IsMessageAt, Resting, Stable, serverVars
  <2>6. JobCovered(c)'
    <3>1. /\ 0 <= server[f].uid_next
          /\ \A v \in Live(server[f]) : ~(v < 0)
      <4>1. server[f].uid_next \in Nat
        BY WhatIsRead
      <4>2. \A v \in Live(server[f]) : v \in Nat
        BY LiveUIDs, Numbers
      <4>3. QED
        BY <4>1, <4>2
    <3>2. QED
      BY <1>1, <2>1, <2>3, <3>1 DEF JobCovered, Covered, serverVars
  <2>7. QED
    BY <1>0, <1>1, <2>3, <2>5, <2>6, TaskStep, NoRowStep
<1>5. ASSUME NEW f \in Folders, NEW u \in UIDs,
             \/ FetchBodyCommand(c, f, u) \/ MoveCommand(c, f, u)
             \/ \E seen \in BOOLEAN : SetFlagCommand(c, f, u, seen)
      PROVE IInv'
  <2>1. rows[f][u] \in Row
    <3>1. rows[f][u] # NoRow
      BY <1>5 DEF FetchBodyCommand, MoveCommand, SetFlagCommand, MessageCommand
    <3>2. QED
      BY <3>1, WhatIsRead
  <2>2. CASE FetchBodyCommand(c, f, u)
    BY <1>4, <2>2 DEF FetchBodyCommand
  <2>3. CASE MoveCommand(c, f, u)
    BY <1>4, <2>3 DEF MoveCommand
  <2>4. ASSUME NEW seen \in BOOLEAN, SetFlagCommand(c, f, u, seen) PROVE IInv'
    <3> DEFINE h == [rows[f][u] EXCEPT !.seen = seen]
    <3>1. h.id = rows[f][u].id /\ h.msg = rows[f][u].msg /\ h.body = rows[f][u].body
      BY <2>1 DEF Row
    <3>2. MessageCommand(c, "flag", "store", f, u, h)
      BY <2>4 DEF SetFlagCommand
    <3> HIDE DEF h
    <3>3. QED
      BY <1>4, <3>1, <3>2
  <2>5. QED
    BY <1>5, <2>2, <2>3, <2>4
<1>6. CASE EmptyTrashCommand(c)
  <2> DEFINE k == [NoJob EXCEPT !.folder = Trash]
  <2>1. k.folder = Trash /\ k.envs = {}
    BY DEF NoJob
  <2>2. job' = [job EXCEPT ![c] = k] /\ Goto(c, "expunge")
    BY <1>2, <1>6 DEF EmptyTrashCommand
  <2> HIDE DEF k
  <2>3. job'[c] = k /\ pc'[c] = "expunge" /\ \A q \in Procs \ {c} : UNCHANGED <<pc[q], job[q]>>
    BY <1>0, <2>2, OthersStay
  <2>4. JobSound(c)' /\ JobCovered(c)'
    BY <2>1, <2>3 DEF JobSound, JobCovered, MessagePC, Resting, Mirrored
  <2>5. QED
    BY <1>0, <1>1, <2>3, <2>4, TaskStep, NoRowStep
<1>7. QED
  BY <1>3, <1>5, <1>6 DEF StartCommand

\* A command goes on after the server has acted: what it holds is as sound
\* as it was.
LEMMA ServerMove ==
  ASSUME IInv, TypeInv', NEW c \in Procs, UNCHANGED <<storeVars, listing, job>>,
         \A f \in Folders : ServerGrows(f),
         NEW step \in {"set flag", "forget", "clear"}, Goto(c, step),
         step \in MessagePC => pc[c] \in MessagePC,
         step = "forget" /\ Stable(job[c].folder)' => job[c].uid \notin Live(server'[job[c].folder])
  PROVE  IInv'
<1> DEFINE f == job[c].folder  j == job[c]
<1>0. /\ TypeOK /\ HoldsMessage(c) /\ JobSound(c) /\ JobCovered(c) /\ j \in Job /\ f \in Folders
      /\ ServerGrows(f) /\ server[f].uid_next \in Nat /\ server'[f].uid_next \in Nat
      /\ server' \in [Folders -> Mailbox]
  BY JobFields, Numbers DEF IInv, TypeInv, TypeOK
<1>1. job'[c] = j /\ pc'[c] = step /\ \A q \in Procs \ {c} : UNCHANGED <<pc[q], job[q]>>
  BY <1>0 DEF Goto, TypeOK
<1>2. JobSound(c)'
  <2>1. ASSUME Stable(f)'
        PROVE  /\ \A e \in j.envs : e.uid < server'[f].uid_next /\ e.msg = assigned'[f][e.uid]
               /\ step \in MessagePC => j.uid < server'[f].uid_next /\ IsMessageAt(j.held, f, j.uid)'
    <3>1. \A u \in UIDs : u < server[f].uid_next => u < server'[f].uid_next /\ assigned'[f][u] = assigned[f][u]
      <4>1. /\ server[f].uid_next <= server'[f].uid_next
            /\ \A u \in UIDs : u < server[f].uid_next => assigned'[f][u] = assigned[f][u]
        BY <1>0, <2>1 DEF ServerGrows
      <4>2. QED
        <5>1. server[f].uid_next \in Nat /\ server'[f].uid_next \in Nat /\ \A u \in UIDs : u \in Nat
          BY <1>0, Numbers
        <5>2. QED
          BY <4>1, <5>1, Transitive
    <3>2. Stable(f)
      BY <1>0, <2>1 DEF ServerGrows
    <3>3. \A e \in j.envs : e.uid < server'[f].uid_next /\ e.msg = assigned'[f][e.uid]
      BY <1>0, <3>1, <3>2, JobFields DEF JobSound
    <3>4. step \in MessagePC => j.uid < server'[f].uid_next /\ IsMessageAt(j.held, f, j.uid)'
      BY <1>0, <1>1, <3>1, <3>2 DEF JobSound, HoldsMessage, IsMessageAt
    <3>5. QED
      BY <3>3, <3>4
  <2>2. step \in MessagePC => minted'[j.held.id] = <<f, j.uid>>
    BY <1>0 DEF JobSound, storeVars
  <2>3. QED
    BY <1>1, <2>1, <2>2 DEF JobSound, Resting
<1>3. JobCovered(c)'
  <2> SUFFICES ASSUME Stable(f)', f \in Mirrored PROVE JobCovered(c)'
    BY <1>1 DEF JobCovered
  <2>1. Covered(f, j.stored.uid_next)'
    BY <1>0, <1>1, CoveredGrows, JobFields DEF JobCovered, ServerGrows, storeVars
  <2>2. j.state.uid_next <= server'[f].uid_next
    <3>1. j.state.uid_next <= server[f].uid_next /\ server[f].uid_next <= server'[f].uid_next
      BY <1>0 DEF JobCovered, ServerGrows
    <3>2. server[f].uid_next \in Nat /\ server'[f].uid_next \in Nat /\ j.state.uid_next \in Nat
      BY <1>0, JobFields
    <3>3. QED
      BY <3>1, <3>2, Transitive
  <2>3. QED
    BY <1>1, <2>1, <2>2 DEF JobCovered
<1>4. QED
  <2>1. ListCovered(c)'
    BY <1>1 DEF ListCovered
  <2>2. QED
    BY <1>0, <1>1, <1>2, <1>3, <2>1, ServerStep DEF IInv

\* Each step of a command preserves the invariant.
LEMMA CommandIInv ==
  ASSUME IInv, NEW c \in Clients, CommandSteps(c) \/ CommandFails(c)
  PROVE  IInv'
<1> DEFINE f == job[c].folder  j == job[c]  u == job[c].uid  h == job[c].held
<1>0. /\ TypeOK /\ TypeInv' /\ c \in Procs /\ HoldsMessage(c) /\ JobSound(c) /\ JobCovered(c)
      /\ j \in Job /\ f \in Folders /\ "ready" \in Resting
  BY CommandType, JobFields DEF IInv, TypeInv, TypeOK, Procs, Resting
<1>1. CASE FolderSync(c)
  BY <1>0, <1>1, FolderSyncIInv
<1>2. CASE FetchBodyStep(c)
  <2> DEFINE k == [j EXCEPT !.held.body = server[f].mail[u].msg]
  <2>1. /\ u \in UIDs /\ h \in Row /\ minted[h.id] = <<f, u>> /\ u \in Live(server[f])
        /\ Stable(f) => u < server[f].uid_next /\ IsMessageAt(h, f, u) /\ server[f].mail[u].msg = assigned[f][u]
    BY <1>0, <1>2, WhatIsRead DEF FetchBody, FetchBodyStep, HoldsMessage, JobSound, MessagePC
  <2>2. /\ k.folder = f /\ k.stored = j.stored /\ k.state = j.state /\ k.envs = j.envs /\ k.uid = u
        /\ k.held = [h EXCEPT !.body = server[f].mail[u].msg]
    BY <1>0 DEF Job
  <2>3. k.held.id = h.id /\ k.held.msg = h.msg /\ k.held.body = server[f].mail[u].msg
    BY <2>1, <2>2 DEF Row
  <2>4. job' = [job EXCEPT ![c] = k] /\ Goto(c, "set body")
    BY <1>2 DEF FetchBody, FetchBodyStep
  <2>5. UNCHANGED <<serverVars, rows, minted, folders, listing>>
    BY <1>2 DEF FetchBody, FetchBodyStep, storeVars, workerVars
  <2> HIDE DEF k
  <2>6. job'[c] = k /\ pc'[c] = "set body" /\ \A q \in Procs \ {c} : UNCHANGED <<pc[q], job[q]>>
    BY <1>0, <2>4, OthersStay
  <2>7. JobSound(c)'
    BY <1>0, <2>1, <2>2, <2>3, <2>5, <2>6 DEF JobSound, IsMessageAt, Resting, Stable, serverVars
  <2>8. JobCovered(c)'
    BY <1>0, <2>2, <2>5, <2>6 DEF JobCovered, Covered, Stable, serverVars
  <2>9. QED
    BY <1>0, <2>5, <2>6, <2>7, <2>8, NoRowStep, TaskStep
<1>3. CASE SetBodyStep(c)
  <2>1. /\ UNCHANGED <<serverVars, minted, folders, listing>>
        /\ rows' = SetBody(rows, h.id, h.body)
    BY <1>3 DEF SetBodyStep, workerVars
  <2>2. /\ u \in UIDs /\ h \in Row /\ minted[h.id] = <<f, u>>
        /\ Stable(f) => IsMessageAt(h, f, u)
    BY <1>0, <1>3 DEF SetBodyStep, HoldsMessage, JobSound, MessagePC
  <2>3. ASSUME NEW g \in Folders, NEW v \in UIDs PROVE RowStep(g, v)
    <3>1. h.body \in Msgs \cup {NoMsg} /\ rows \in Table
      BY <1>0, <2>2, RowTypes DEF TypeOK
    <3>2. \/ rows'[g][v] = rows[g][v]
          \/ /\ rows[g][v] # NoRow /\ rows[g][v].id = h.id
             /\ rows'[g][v] # NoRow /\ rows'[g][v].id = h.id
             /\ rows'[g][v].msg = rows[g][v].msg /\ rows'[g][v].body = h.body
      BY <2>1, <3>1, SetBodyType
    <3>3. rows[g][v] # NoRow =>
            /\ minted[rows[g][v].id] = <<g, v>>
            /\ Stable(g) => v < server[g].uid_next /\ IsMessageAt(rows[g][v], g, v)
      BY WhatIsRead
    <3>4. CASE rows'[g][v] = rows[g][v]
      BY <3>4 DEF RowStep
    <3>5. CASE rows'[g][v] # rows[g][v]
      <4>1. <<g, v>> = <<f, u>>
        BY <2>2, <3>2, <3>3, <3>5
      <4>2. g = f /\ v = u
        BY <4>1
      <4>3. QED
        BY <2>2, <3>2, <3>3, <3>5, <4>2 DEF RowStep, IsMessageAt
    <3>6. QED
      BY <3>4, <3>5
  <2>4. CASE Leave(c, "ready")
    BY <1>0, <2>1, <2>3, <2>4, NoRowStep, LeavingStep
  <2>5. CASE Goto(c, "delete") /\ UNCHANGED job
    <3>1. job'[c] = j /\ pc'[c] = "delete" /\ \A q \in Procs \ {c} : UNCHANGED <<pc[q], job[q]>>
      BY <1>0, <2>5 DEF Goto, TypeOK
    <3>2. JobSound(c)'
      BY <1>0, <2>1, <3>1 DEF JobSound, MessagePC, Resting, Stable, serverVars
    <3>3. JobCovered(c)'
      <4>1. Stable(f) /\ f \in Mirrored => Covered(f, j.stored.uid_next)'
        BY <1>0, <2>1, <2>3, <3>1, JobFields, StoreStep, NoRowStep DEF JobCovered
      <4>2. QED
        BY <1>0, <2>1, <3>1, <4>1 DEF JobCovered, Stable, serverVars
    <3>4. QED
      BY <1>0, <2>1, <2>3, <3>1, <3>2, <3>3, NoRowStep, TaskStep
  <2>6. QED
    BY <1>3, <2>4, <2>5 DEF SetBodyStep
<1>4. CASE UpsertFlagStep(c)
  <2>1. /\ UNCHANGED <<serverVars, minted, folders, listing>> /\ Leave(c, "ready")
        /\ rows' = UpsertEnvelope(rows, f, u, h)
    BY <1>4 DEF UpsertFlagStep, workerVars
  <2>2. /\ u \in UIDs /\ h \in Row /\ minted[h.id] = <<f, u>>
        /\ Stable(f) => u < server[f].uid_next /\ IsMessageAt(h, f, u)
    BY <1>0, <1>4 DEF UpsertFlagStep, HoldsMessage, JobSound, MessagePC
  <2>3. \A g \in Folders, v \in UIDs : RowStep(g, v)
    BY <1>0, <2>1, <2>2, UpsertSound
  <2>4. QED
    BY <1>0, <2>1, <2>3, NoRowStep, LeavingStep
<1>5. CASE ForgetStep(c)
  <2>1. /\ UNCHANGED <<serverVars, minted, folders, listing>> /\ Leave(c, "ready")
        /\ rows' = DeleteByUid(rows, f, u)
    BY <1>5 DEF ForgetStep, workerVars
  <2>2. u \in UIDs /\ (Stable(f) => u \notin Live(server[f]))
    BY <1>0, <1>5 DEF ForgetStep, HoldsMessage, JobSound, MessagePC
  <2>3. \A g \in Folders, v \in UIDs : RowStep(g, v)
    <3>1. /\ rows'[f][u] = NoRow
          /\ \A g \in Folders, v \in UIDs : <<g, v>> # <<f, u>> => rows'[g][v] = rows[g][v]
      <4>1. rows \in Table /\ f \in Folders /\ u \in UIDs
        BY <1>0, <2>2 DEF TypeOK
      <4>2. QED
        <5>1. /\ DeleteByUid(rows, f, u)[f][u] = NoRow
              /\ \A g \in Folders, v \in UIDs : <<g, v>> # <<f, u>> => DeleteByUid(rows, f, u)[g][v] = rows[g][v]
          BY <4>1, DeleteTypes
        <5>2. QED
          BY <2>1, <5>1
    <3>2. QED
      BY <2>2, <3>1 DEF RowStep
  <2>4. QED
    BY <1>0, <2>1, <2>3, NoRowStep, LeavingStep
<1>6. CASE ClearTrashStep(c)
  <2>1. /\ UNCHANGED <<serverVars, minted, folders, listing>> /\ Leave(c, "ready")
        /\ rows' = DeleteByFolder(rows, Trash)
    BY <1>6 DEF ClearTrashStep, workerVars
  <2>2. \A g \in Folders, v \in UIDs : RowStep(g, v)
    <3>1. /\ \A g \in Folders \ {Trash} : rows'[g] = rows[g]
          /\ \A v \in UIDs : rows'[Trash][v] = NoRow
      BY <1>0, <2>1, DeleteTypes, SyncAssumption DEF TypeOK, DeleteByFolder, Table
    <3>2. QED
      BY <3>1 DEF RowStep
  <2>3. QED
    BY <1>0, <2>1, <2>2, NoRowStep, LeavingStep
<1>7. CASE CommandFails(c)
  <2>1. UNCHANGED <<serverVars, rows, minted, folders, listing>> /\ Leave(c, "ready")
    BY <1>7 DEF CommandFails, storeVars, workerVars
  <2>2. QED
    BY <1>0, <2>1, NoRowStep, LeavingStep
<1>8. CASE DeleteUidStep(c)
  <2>1. /\ UNCHANGED <<assigned, storeVars, listing>> /\ Leave(c, "ready")
        /\ server' = [server EXCEPT ![f] = Remove(@, {u})]
    BY <1>8 DEF DeleteUidStep, workerVars
  <2>2. ASSUME NEW g \in Folders PROVE ServerGrows(g)
    <3>1. server'[g] = IF g = f THEN Remove(server[f], {u}) ELSE server[g]
      BY <1>0, <2>1 DEF TypeOK
    <3>2. QED
      BY <2>1, <3>1, Growth
  <2>3. job'[c] = NoJob /\ pc'[c] = "ready" /\ \A q \in Procs \ {c} : UNCHANGED <<pc[q], job[q]>>
    BY <1>0, <2>1 DEF Leave, Goto, TypeOK
  <2>4. QED
    <3>1. ListCovered(c)'
      BY <2>3 DEF ListCovered
    <3>2. QED
      BY <1>0, <2>1, <2>2, <2>3, <3>1, RestingSound, ServerStep DEF IInv
<1>9. CASE StoreFlagStep(c)
  <2>1. /\ UNCHANGED <<assigned, storeVars, listing, job>> /\ Goto(c, "set flag")
        /\ server' = [server EXCEPT ![f] = SetFlags(@, u, h.seen)]
    BY <1>9 DEF StoreFlagStep, workerVars
  <2>2. u \in UIDs /\ h \in Row /\ h.seen \in BOOLEAN
    BY <1>0, <1>9, RowTypes DEF StoreFlagStep, HoldsMessage, MessagePC
  <2>3. ASSUME NEW g \in Folders PROVE ServerGrows(g)
    <3>1. server'[g] = IF g = f THEN SetFlags(server[f], u, h.seen) ELSE server[g]
      BY <1>0, <2>1 DEF TypeOK
    <3>2. QED
      BY <2>1, <2>2, <3>1, Growth
  <2>4. pc[c] = "store"
    BY <1>9 DEF StoreFlagStep
  <2>5. QED
    BY <1>0, <2>1, <2>3, <2>4, ServerMove DEF MessagePC
<1>10. CASE MoveUidStep(c)
  <2>1. /\ UNCHANGED <<storeVars, listing, job>> /\ Goto(c, "forget") /\ pc[c] = "move"
        /\ u \in UIDs
    BY <1>0, <1>10 DEF MoveUidStep, workerVars, HoldsMessage, MessagePC
  <2>2. PICK dst \in Folders \ {f} :
          /\ HasRoom(server[dst])
          /\ server' = MoveUid(server, f, u, dst)
          /\ assigned' = IF u \in Live(server[f])
                         THEN [assigned EXCEPT ![dst] = [v \in UIDs |->
                                 IF v = server[dst].uid_next THEN server[f].mail[u].msg ELSE @[v]]]
                         ELSE assigned
    BY <1>10 DEF MoveUidStep
  <2>3. CASE u \in Live(server[f])
    <3>1. /\ server[f].mail[u] \in Mail /\ server[f] \in Mailbox
          /\ server' = [server EXCEPT ![f] = Remove(@, {u}), ![dst] = AppendMail(@, server[f].mail[u])]
      BY <1>0, <2>1, <2>2, <2>3 DEF Live, Mailbox, MoveUid, TypeOK
    <3>2. server'[f] = Remove(server[f], {u}) /\ assigned'[f] = assigned[f]
      BY <1>0, <2>2, <2>3, <3>1 DEF TypeOK
    <3>3. /\ server'[dst] = AppendMail(server[dst], server[f].mail[u])
          /\ assigned'[dst] = [v \in UIDs |-> IF v = server[dst].uid_next THEN server[f].mail[u].msg ELSE assigned[dst][v]]
      BY <1>0, <2>2, <2>3, <3>1 DEF TypeOK
    <3>4. \A g \in Folders \ {f, dst} : server'[g] = server[g] /\ assigned'[g] = assigned[g]
      BY <1>0, <2>2, <2>3, <3>1 DEF TypeOK
    <3>5. \A g \in Folders : ServerGrows(g)
      BY <1>0, <2>2, <3>1, <3>2, <3>3, <3>4, Growth
    <3>6. u \notin Live(server'[f])
      BY <3>1, <3>2, RemoveType
    <3>7. QED
      BY <1>0, <2>1, <3>5, <3>6, ServerMove DEF MessagePC
  <2>4. CASE u \notin Live(server[f])
    <3>1. server' = server /\ assigned' = assigned
      BY <2>2, <2>4 DEF MoveUid
    <3>2. \A g \in Folders : ServerGrows(g)
      BY <3>1, Growth
    <3>3. QED
      BY <1>0, <2>1, <2>4, <3>1, <3>2, ServerMove DEF MessagePC
  <2>5. QED
    BY <2>3, <2>4
<1>11. CASE ExpungeTrashStep(c)
  <2>1. /\ UNCHANGED <<assigned, storeVars, listing, job>> /\ Goto(c, "clear")
        /\ server' = [server EXCEPT ![Trash] = Remove(@, UIDs)]
    BY <1>11 DEF ExpungeTrashStep, workerVars
  <2>2. ASSUME NEW g \in Folders PROVE ServerGrows(g)
    <3>1. server'[g] = IF g = Trash THEN Remove(server[Trash], UIDs) ELSE server[g]
      BY <1>0, <2>1 DEF TypeOK
    <3>2. QED
      BY <2>1, <3>1, Growth
  <2>3. QED
    BY <1>0, <2>1, <2>2, ServerMove DEF MessagePC
<1>12. CASE BodyMissing(c)
  <2>1. UNCHANGED <<serverVars, rows, minted, folders, listing>> /\ Leave(c, "ready")
    BY <1>12 DEF BodyMissing, storeVars, workerVars
  <2>2. QED
    BY <1>0, <2>1, NoRowStep, LeavingStep
<1>13. QED
  BY <1>1, <1>2, <1>3, <1>4, <1>5, <1>6, <1>7, <1>8, <1>9, <1>10, <1>11, <1>12 DEF CommandSteps

-----------------------------------------------------------------------------
(* Safety.                                                                   *)

\* Every step preserves the invariant.
LEMMA IInvStep == IInv /\ [Next]_vars => IInv'
<1> SUFFICES ASSUME IInv, [Next]_vars PROVE IInv'
  OBVIOUS
<1>1. CASE UNCHANGED vars
  <2>1. /\ TypeInv' /\ UNCHANGED <<serverVars, folders, listing, rows, minted>>
        /\ \A p \in Procs : UNCHANGED <<pc[p], job[p]>>
    BY <1>1, TypeStep DEF IInv, vars, storeVars, workerVars
  <2>2. QED
    BY <2>1, StoreStep, NoRowStep DEF IInv
<1>2. CASE Next
  BY <1>2, EnvironmentIInv, WorkerIInv, StartCommandIInv, CommandIInv DEF Next
<1>3. QED
  BY <1>1, <1>2

\* The store, every cursor and whatever a task holds across an await stay
\* sound: what the two theorems below follow from.
THEOREM InductiveInvariant == Spec => []IInv
BY InitIInv, IInvStep, PTL DEF Spec

\* The headers and the body stored under (folder, uid) are those of the
\* message the server gave that uid to, whichever of the worker, another
\* process's worker, set_flag or fetch_body wrote them, and whenever: the id
\* a stale copy brings back was drawn for the same uid.
THEOREM RowsKeepTheirMessage == Spec => []RowIdentity
<1>1. IInv => RowIdentity
  BY DEF IInv, FolderSound, IsMessageAt, RowIdentity
<1>2. QED
  BY <1>1, InductiveInvariant, PTL

\* No message the server still has below the stored cursor is without its
\* row, however many tasks sync the folder at once and whatever fails.
THEOREM NothingBelowTheCursorIsMissing == Spec => []NoGap
<1>1. IInv => NoGap
  BY DEF IInv, FolderCovered, Covered, NoGap, Mirrored
<1>2. QED
  BY <1>1, InductiveInvariant, PTL

-----------------------------------------------------------------------------
(* Retention.  With keep_on_server nothing takes a message off the server    *)
(* but those who mean to: it stays in some mailbox.                          *)

\* The next uid is free.
Below(box) == \A u \in Live(box) : u < box.uid_next

\* The message is in the mailbox; in some mailbox.
InMailbox(f, m) == \E u \in Live(server[f]) : server[f].mail[u].msg = m

AtServer(m) == \E f \in Folders : InMailbox(f, m)

\* No task is about to delete what it has downloaded, and what was not
\* discarded is in a mailbox.
Keeping ==
  /\ \A p \in Procs : pc[p] # "delete"
  /\ \A f \in Folders : Below(server[f])
  /\ \A m \in arrived \ discarded : AtServer(m)

\* A message in a mailbox stays in one unless it is discarded.
KeptOrDiscarded(f) ==
  \A m \in Msgs : InMailbox(f, m) => m \in discarded' \/ AtServer(m)'

\* What a step that keeps the server's mail does.
KeepStep ==
  /\ \A f \in Folders : KeptOrDiscarded(f) /\ Below(server'[f])
  /\ discarded \subseteq discarded' /\ \A m \in arrived' \ arrived : AtServer(m)'

\* What is in a mailbox that keeps its mail stays where it is.
LEMMA StaysHere ==
  ASSUME NEW f \in Folders, Live(server[f]) \subseteq Live(server'[f]),
         \A u \in Live(server[f]) : server'[f].mail[u].msg = server[f].mail[u].msg
  PROVE  KeptOrDiscarded(f)
BY DEF KeptOrDiscarded, AtServer, InMailbox

\* A message given the next uid pushes nothing out.
LEMMA AppendKeeps ==
  ASSUME NEW box \in Mailbox, NEW m \in Mail, HasRoom(box), Below(box)
  PROVE  /\ Below(AppendMail(box, m))
         /\ box.uid_next \in Live(AppendMail(box, m)) /\ AppendMail(box, m).mail[box.uid_next] = m
         /\ \A u \in Live(box) : u \in Live(AppendMail(box, m)) /\ AppendMail(box, m).mail[u] = box.mail[u]
<1>1. box.uid_next \in Nat /\ \A u \in Live(box) : u \in UIDs /\ u \in Nat
  BY LiveUIDs, Numbers DEF Mailbox
<1>2. \A u \in Live(box) : u < box.uid_next + 1 /\ u # box.uid_next
  BY <1>1 DEF Below
<1>3. QED
  BY <1>1, <1>2, AppendMailType DEF Below

\* A rebuilt mailbox has a place for every message: the numbers are as many
\* as the messages, and no two are of the same one.
LEMMA RenumberKeeps ==
  ASSUME NEW box \in Mailbox, NEW order \in Orders(box)
  PROVE  /\ \A u \in Live(box) :
              \E v \in Live(Renumber(box, order)) : Renumber(box, order).mail[v] = box.mail[u]
         /\ Below(Renumber(box, order))
<1> DEFINE n == Cardinality(Live(box))
           new == Renumber(box, order)
<1>1. IsFiniteSet(UIDs) /\ Cardinality(UIDs) = MaxUid
  BY StoreAssumption, FS_Interval DEF UIDs
<1>2. IsFiniteSet(Live(box)) /\ n \in Nat /\ n <= MaxUid
  BY <1>1, LiveUIDs, FS_Subset, FS_CardinalityType
<1>3. IsFiniteSet(1 .. n) /\ Cardinality(1 .. n) = n
  BY <1>2, FS_Interval
<1>4. order \in [1 .. n -> Live(box)] /\ \A i, j \in 1 .. n : i # j => order[i] # order[j]
  BY DEF Orders
<1>5. order \in Injection(1 .. n, Live(box))
  BY <1>4 DEF Injection, IsInjective
<1>6. order \in Surjection(1 .. n, Live(box))
  BY <1>2, <1>3, <1>5, FS_Injection
<1>7. 1 .. n \subseteq UIDs
  BY <1>2, StoreAssumption DEF UIDs
<1>8. /\ \A v \in 1 .. n : new.mail[v] = box.mail[order[v]]
      /\ \A v \in UIDs \ (1 .. n) : new.mail[v] = NoMail
      /\ new.uid_next = n + 1
  BY <1>4, <1>7 DEF Renumber
<1> HIDE DEF new
<1>9. ASSUME NEW u \in Live(box) PROVE \E v \in Live(new) : new.mail[v] = box.mail[u]
  <2>1. PICK v \in 1 .. n : order[v] = u
    BY <1>6 DEF Surjection
  <2>2. new.mail[v] = box.mail[u] /\ v \in Live(new)
    BY <1>7, <1>8, <2>1 DEF Live
  <2>3. QED
    BY <2>2
<1>10. \A v \in Live(new) : v \in 1 .. n
  BY <1>8 DEF Live
<1>11. Below(new)
  <2> HIDE DEF n
  <2>1. \A v \in 1 .. n : v < n + 1
    BY <1>2
  <2>2. QED
    BY <1>8, <1>10, <2>1 DEF Below
<1>12. QED
  BY <1>9, <1>11 DEF new

\* Other users discard what they expunge; the server keeps the rest.
LEMMA EnvironmentKeeps ==
  ASSUME TypeInv, Keeping, Environment
  PROVE  KeepStep
<1>0. server \in [Folders -> Mailbox] /\ \A f \in Folders : Below(server[f])
  BY DEF TypeInv, TypeOK, Keeping
<1>1. ASSUME NEW f \in Folders, NEW m \in Msgs, Deliver(f, m) PROVE KeepStep
  <2> DEFINE new == [msg |-> m, seen |-> FALSE]
  <2>1. new \in Mail /\ new.msg = m
    BY DEF Mail
  <2>2. /\ HasRoom(server[f]) /\ server' = [server EXCEPT ![f] = AppendMail(server[f], new)]
        /\ arrived' = arrived \cup {m} /\ discarded' = discarded
    BY <1>1 DEF Deliver
  <2> HIDE DEF new
  <2>3. server'[f] = AppendMail(server[f], new) /\ \A g \in Folders \ {f} : server'[g] = server[g]
    BY <1>0, <2>2
  <2>4. /\ Below(server'[f])
        /\ server[f].uid_next \in Live(server'[f]) /\ server'[f].mail[server[f].uid_next].msg = m
        /\ \A u \in Live(server[f]) : u \in Live(server'[f]) /\ server'[f].mail[u] = server[f].mail[u]
    BY <1>0, <2>1, <2>2, <2>3, AppendKeeps
  <2>5. \A g \in Folders : KeptOrDiscarded(g) /\ Below(server'[g])
    BY <1>0, <2>3, <2>4, StaysHere
  <2>6. AtServer(m)'
    BY <2>4 DEF AtServer, InMailbox
  <2>7. QED
    BY <2>2, <2>5, <2>6 DEF KeepStep
<1>2. ASSUME NEW f \in Folders, NEW u \in UIDs, OtherClientExpunges(f, u) PROVE KeepStep
  <2>1. /\ server' = [server EXCEPT ![f] = Remove(server[f], {u})] /\ arrived' = arrived
        /\ discarded' = discarded \cup {server[f].mail[u].msg}
    BY <1>2 DEF OtherClientExpunges
  <2>2. server'[f] = Remove(server[f], {u}) /\ \A g \in Folders \ {f} : server'[g] = server[g]
    BY <1>0, <2>1
  <2>3. /\ Live(server'[f]) = Live(server[f]) \ {u} /\ server'[f].uid_next = server[f].uid_next
        /\ \A v \in Live(server'[f]) : server'[f].mail[v] = server[f].mail[v]
    BY <1>0, <2>2, RemoveType
  <2>4. KeptOrDiscarded(f)
    BY <2>1, <2>3 DEF KeptOrDiscarded, AtServer, InMailbox
  <2>5. Below(server'[f])
    BY <1>0, <2>3 DEF Below
  <2>6. QED
    BY <1>0, <2>1, <2>2, <2>4, <2>5, StaysHere DEF KeepStep
<1>3. ASSUME NEW f \in Folders, NEW u \in UIDs, OtherClientFlags(f, u) PROVE KeepStep
  <2> DEFINE seen == ~ server[f].mail[u].seen
  <2>1. /\ server' = [server EXCEPT ![f] = SetFlags(server[f], u, seen)]
        /\ arrived' = arrived /\ discarded' = discarded /\ seen \in BOOLEAN
    BY <1>3 DEF OtherClientFlags
  <2> HIDE DEF seen
  <2>2. server'[f] = SetFlags(server[f], u, seen) /\ \A g \in Folders \ {f} : server'[g] = server[g]
    BY <1>0, <2>1
  <2>3. QED
    BY <1>0, <2>1, <2>2, SetFlagsType, StaysHere DEF KeepStep, Below
<1>4. ASSUME NEW f \in Folders, ServerRenumbers(f) PROVE KeepStep
  <2>1. PICK order \in Orders(server[f]) : server' = [server EXCEPT ![f] = Renumber(server[f], order)]
    BY <1>4 DEF ServerRenumbers
  <2>2. arrived' = arrived /\ discarded' = discarded
    BY <1>4 DEF ServerRenumbers
  <2>3. server'[f] = Renumber(server[f], order) /\ \A g \in Folders \ {f} : server'[g] = server[g]
    BY <1>0, <2>1
  <2>4. /\ \A u \in Live(server[f]) : \E v \in Live(server'[f]) : server'[f].mail[v] = server[f].mail[u]
        /\ Below(server'[f])
    BY <1>0, <2>3, RenumberKeeps
  <2>5. KeptOrDiscarded(f)
    BY <2>4 DEF KeptOrDiscarded, AtServer, InMailbox
  <2>6. QED
    BY <1>0, <2>2, <2>3, <2>4, <2>5, StaysHere DEF KeepStep
<1>5. QED
  BY <1>1, <1>2, <1>3, <1>4 DEF Environment

\* A move that finds the message leaves it in the destination.
LEMMA MoveKeeps ==
  ASSUME TypeInv, Keeping, NEW c \in Clients, MoveUidStep(c)
  PROVE  KeepStep
<1> DEFINE f == job[c].folder
           u == job[c].uid
<1>0. server \in [Folders -> Mailbox] /\ (\A g \in Folders : Below(server[g])) /\ f \in Folders
  BY JobFields DEF TypeInv, TypeOK, Keeping, Procs
<1>1. arrived' = arrived /\ discarded' = discarded
  BY DEF MoveUidStep
<1>2. PICK dst \in Folders \ {f} : HasRoom(server[dst]) /\ server' = MoveUid(server, f, u, dst)
  BY DEF MoveUidStep
<1> HIDE DEF f, u
<1>3. CASE u \notin Live(server[f])
  BY <1>0, <1>1, <1>2, <1>3, StaysHere DEF MoveUid, KeepStep
<1>4. CASE u \in Live(server[f])
  <2> DEFINE m == server[f].mail[u]
  <2>1. m \in Mail
    BY <1>0, <1>4 DEF Live, Mailbox
  <2>2. /\ server'[f] = Remove(server[f], {u}) /\ server'[dst] = AppendMail(server[dst], m)
        /\ \A g \in Folders \ {f, dst} : server'[g] = server[g]
    BY <1>0, <1>2, <1>4 DEF MoveUid
  <2>3. /\ Below(server'[dst])
        /\ server[dst].uid_next \in Live(server'[dst]) /\ server'[dst].mail[server[dst].uid_next] = m
        /\ \A v \in Live(server[dst]) : v \in Live(server'[dst]) /\ server'[dst].mail[v] = server[dst].mail[v]
    BY <1>0, <1>2, <2>1, <2>2, AppendKeeps
  <2>4. /\ Live(server'[f]) = Live(server[f]) \ {u} /\ server'[f].uid_next = server[f].uid_next
        /\ \A v \in Live(server'[f]) : server'[f].mail[v] = server[f].mail[v]
    BY <1>0, <2>2, RemoveType
  <2>5. ASSUME NEW n \in Msgs, InMailbox(f, n) PROVE AtServer(n)'
    <3>1. PICK v \in Live(server[f]) : server[f].mail[v].msg = n
      BY <2>5 DEF InMailbox
    <3>2. CASE v = u
      BY <2>3, <3>1, <3>2 DEF AtServer, InMailbox
    <3>3. CASE v # u
      BY <1>0, <2>4, <3>1, <3>3 DEF AtServer, InMailbox
    <3>4. QED
      BY <3>2, <3>3
  <2>6. KeptOrDiscarded(f)
    BY <2>5 DEF KeptOrDiscarded
  <2>7. KeptOrDiscarded(dst)
    BY <2>3, StaysHere
  <2>8. Below(server'[f])
    BY <1>0, <2>4 DEF Below
  <2>9. \A g \in Folders : KeptOrDiscarded(g) /\ Below(server'[g])
    BY <1>0, <2>2, <2>3, <2>6, <2>7, <2>8, StaysHere
  <2>10. QED
    BY <1>1, <2>9 DEF KeepStep
<1>5. QED
  BY <1>3, <1>4

\* A folder sync only reads the server.
LEMMA SyncLeavesServer ==
  ASSUME NEW p, FolderSync(p)
  PROVE  UNCHANGED serverVars
<1>1. CASE SelectFolderStep(p) \/ PlanFetch(p) \/ FetchStep(p)
  BY <1>1 DEF SelectFolderStep, PlanFetch, FetchStep
<1>2. CASE LookupRow(p) \/ UpsertRow(p)
  BY <1>2, Zenon DEF LookupRow, UpsertRow
<1>3. CASE FinishSync(p) \/ MarkScanned(p)
  BY <1>3 DEF FinishSync, MarkScanned
<1>4. QED
  BY <1>1, <1>2, <1>3 DEF FolderSync

\* The other commands leave the mail where it is, but for those that throw it
\* away: the Trash is emptied on purpose, and nothing is deleted after its
\* download unless the account says so.
LEMMA CommandKeeps ==
  ASSUME TypeInv, Keeping, NEW c \in Clients, CommandSteps(c)
  PROVE  KeepStep
<1> DEFINE f == job[c].folder
           u == job[c].uid
<1>0. server \in [Folders -> Mailbox] /\ (\A g \in Folders : Below(server[g])) /\ job[c] \in Job /\ c \in Procs
  BY DEF TypeInv, TypeOK, Keeping, Procs
<1>1. CASE UNCHANGED serverVars
  BY <1>0, <1>1, StaysHere DEF KeepStep, serverVars
<1>2. CASE DeleteUidStep(c)
  BY <1>0, <1>2 DEF Keeping, DeleteUidStep
<1>3. CASE StoreFlagStep(c)
  <2>1. /\ server' = [server EXCEPT ![f] = SetFlags(server[f], u, job[c].held.seen)]
        /\ arrived' = arrived /\ discarded' = discarded
    BY <1>3, Zenon DEF StoreFlagStep
  <2>2. f \in Folders /\ u \in UIDs /\ job[c].held.seen \in BOOLEAN
    <3>1. f \in Folders
      BY <1>0, JobFields
    <3>2. pc[c] \in MessagePC
      BY <1>3, Zenon DEF StoreFlagStep, MessagePC
    <3>3. u \in UIDs /\ job[c].held \in Row
      BY <1>0, <3>2 DEF TypeInv, HoldsMessage
    <3>4. QED
      BY <3>1, <3>3, RowTypes
  <2>3. server'[f] = SetFlags(server[f], u, job[c].held.seen) /\ \A g \in Folders \ {f} : server'[g] = server[g]
    BY <1>0, <2>1, <2>2
  <2> HIDE DEF f, u
  <2>4. QED
    BY <1>0, <2>1, <2>2, <2>3, SetFlagsType, StaysHere DEF KeepStep, Below
<1>4. CASE MoveUidStep(c)
  BY <1>4, MoveKeeps
<1>5. CASE ExpungeTrashStep(c)
  <2>1. /\ server' = [server EXCEPT ![Trash] = Remove(server[Trash], UIDs)] /\ arrived' = arrived
        /\ discarded' = discarded \cup {server[Trash].mail[v].msg : v \in Live(server[Trash])}
    BY <1>5 DEF ExpungeTrashStep
  <2>2. /\ server'[Trash] = Remove(server[Trash], UIDs) /\ Trash \in Folders
        /\ \A g \in Folders \ {Trash} : server'[g] = server[g]
    BY <1>0, <2>1, SyncAssumption
  <2>3. Live(server'[Trash]) = {}
    BY <1>0, <2>2, LiveUIDs, RemoveType
  <2>4. QED
    BY <1>0, <2>1, <2>2, <2>3, StaysHere DEF KeepStep, KeptOrDiscarded, InMailbox, Below
<1>6. CASE FolderSync(c)
  BY <1>1, <1>6, SyncLeavesServer
<1>7. CASE \/ FetchBodyStep(c) \/ BodyMissing(c) \/ SetBodyStep(c)
           \/ UpsertFlagStep(c) \/ ForgetStep(c) \/ ClearTrashStep(c)
  BY <1>1, <1>7, Zenon DEF FetchBodyStep, BodyMissing, SetBodyStep, UpsertFlagStep, ForgetStep, ClearTrashStep
<1>8. QED
  BY <1>2, <1>3, <1>4, <1>5, <1>6, <1>7 DEF CommandSteps

\* With keep_on_server no task gets to the step that deletes.
LEMMA NeverDeletes ==
  ASSUME KeepOnServer, TypeInv, Keeping, [Next]_vars, NEW p \in Procs
  PROVE  pc'[p] # "delete"
<1>0. pc \in [Procs -> WorkerPC \cup ClientPC] /\ pc[p] # "delete"
  BY DEF TypeInv, TypeOK, Keeping
<1>1. CASE p \in Workers
  <2>1. pc'[p] \in WorkerPC
    BY <1>1, TypeStep DEF TypeInv, TypeOK
  <2>2. QED
    BY <2>1, Zenon DEF WorkerPC, SyncPC
<1>2. ASSUME NEW q \in Procs, pc' = pc \/ \E step : step # "delete" /\ Goto(q, step) PROVE pc'[p] # "delete"
  BY <1>0, <1>2 DEF Goto
<1>3. ASSUME NEW c \in Clients, StartCommand(c) \/ CommandSteps(c) \/ CommandFails(c) PROVE pc'[p] # "delete"
  <2>0. c \in Procs /\ c \notin Workers
    BY SyncAssumption DEF Procs
  <2>1. Home(c) # "delete"
    BY DEF Home
  <2>2. CASE StartCommand(c)
    <3>1. Goto(c, "select") \/ Goto(c, "body") \/ Goto(c, "move") \/ Goto(c, "store") \/ Goto(c, "expunge")
      BY <2>2, Zenon DEF StartCommand, SyncCommand, FetchBodyCommand, SetFlagCommand, MoveCommand,
                  MessageCommand, EmptyTrashCommand
    <3>2. QED
      BY <1>2, <2>0, <3>1
  <2>3. CASE FolderSync(c)
    <3>1. CASE SelectFolderStep(c) \/ PlanFetch(c) \/ FetchStep(c)
      <4>1. Goto(c, "plan") \/ Goto(c, "next") \/ Goto(c, "fetch") \/ Goto(c, "lookup")
        BY <3>1 DEF SelectFolderStep, PlanFetch, FetchStep, Leave
      <4>2. QED
        BY <1>2, <2>0, <4>1
    <3>2. CASE LookupRow(c) \/ UpsertRow(c) \/ FinishSync(c) \/ MarkScanned(c)
      <4>1. Goto(c, "upsert") \/ Goto(c, "lookup") \/ Goto(c, "mark") \/ Goto(c, Home(c))
        BY <3>2, Zenon DEF LookupRow, UpsertRow, FinishSync, MarkScanned, Leave
      <4>2. QED
        BY <1>2, <2>0, <2>1, <4>1
    <3>3. QED
      BY <2>3, <3>1, <3>2 DEF FolderSync
  <2>4. CASE CommandSteps(c) /\ ~ FolderSync(c)
    <3>1. \/ SetBodyStep(c) \/ Goto(c, "ready") \/ Goto(c, "clear")
          \/ Goto(c, "set body") \/ Goto(c, "set flag") \/ Goto(c, "forget")
      BY <2>4, Zenon DEF CommandSteps, FetchBodyStep, BodyMissing, DeleteUidStep, StoreFlagStep, UpsertFlagStep,
                         MoveUidStep, ForgetStep, ExpungeTrashStep, ClearTrashStep, Leave
    <3>2. SetBodyStep(c) => Goto(c, "ready")
      BY Zenon DEF SetBodyStep, Leave
    <3>3. QED
      <4>1. \A step : step # "delete" /\ Goto(c, step) => pc'[p] # "delete"
        BY <1>2, <2>0
      <4>2. QED
        BY <3>1, <3>2, <4>1, Zenon
  <2>5. CASE CommandFails(c)
    BY <1>2, <2>0, <2>5 DEF CommandFails, Leave
  <2>6. QED
    BY <1>3, <2>2, <2>3, <2>4, <2>5
<1>4. ASSUME NEW w \in Workers, WorkerSteps(w) \/ FolderFails(w) \/ ConnectionFails(w) PROVE pc'[p] # "delete"
  <2>1. p \notin Workers => p # w
    OBVIOUS
  <2>2. (\E step : Goto(w, step)) \/ pc' = pc
    BY <1>4, Zenon DEF WorkerSteps, Connect, ListFolders, ListExisting, UpsertListed, NextFolder, EnterIdle, IdleEvent,
                FolderFails, ConnectionFails, FolderSync, SelectFolderStep, PlanFetch, FetchStep, LookupRow,
                UpsertRow, FinishSync, MarkScanned, Leave
  <2>3. QED
    BY <1>0, <1>1, <2>1, <2>2 DEF Goto
<1>5. CASE Environment
  BY <1>0, <1>5 DEF Environment, Deliver, OtherClientExpunges, OtherClientFlags, ServerRenumbers
<1>6. CASE UNCHANGED vars
  BY <1>0, <1>6 DEF vars
<1>7. QED
  BY <1>3, <1>4, <1>5, <1>6 DEF Next

\* Every step keeps the server's mail.
LEMMA KeepingStep ==
  ASSUME KeepOnServer, TypeInv, Keeping, [Next]_vars
  PROVE  Keeping'
<1>1. KeepStep
  <2>0. UNCHANGED serverVars => KeepStep
    BY StaysHere DEF KeepStep, serverVars, Keeping
  <2>1. CASE Environment
    BY <2>1, EnvironmentKeeps
  <2>2. ASSUME NEW w \in Workers, WorkerSteps(w) \/ FolderFails(w) \/ ConnectionFails(w) PROVE KeepStep
    <3>1. CASE FolderSync(w)
      BY <2>0, <3>1, SyncLeavesServer
    <3>2. CASE Connect(w) \/ ListFolders(w) \/ ListExisting(w) \/ UpsertListed(w)
      BY <2>0, <3>2, Zenon DEF Connect, ListFolders, ListExisting, UpsertListed
    <3>3. CASE NextFolder(w) \/ EnterIdle(w) \/ IdleEvent(w) \/ FolderFails(w) \/ ConnectionFails(w)
      BY <2>0, <3>3 DEF NextFolder, EnterIdle, IdleEvent, FolderFails, ConnectionFails
    <3>4. QED
      BY <2>2, <3>1, <3>2, <3>3 DEF WorkerSteps
  <2>3. ASSUME NEW c \in Clients, StartCommand(c) \/ CommandFails(c) PROVE KeepStep
    <3>1. UNCHANGED serverVars
      BY <2>3, Zenon DEF StartCommand, SyncCommand, FetchBodyCommand, SetFlagCommand, MoveCommand, MessageCommand,
                  EmptyTrashCommand, CommandFails
    <3>2. QED
      BY <2>0, <3>1
  <2>4. ASSUME NEW c \in Clients, CommandSteps(c) PROVE KeepStep
    BY <2>4, CommandKeeps
  <2>5. CASE UNCHANGED vars
    BY <2>0, <2>5 DEF vars
  <2>6. QED
    BY <2>1, <2>2, <2>3, <2>4, <2>5 DEF Next
<1>2. ASSUME NEW m \in arrived' \ discarded' PROVE AtServer(m)'
  <2>1. CASE m \notin arrived
    BY <1>1, <1>2, <2>1 DEF KeepStep
  <2>2. CASE m \in arrived
    <3>1. m \in Msgs /\ m \notin discarded
      BY <1>1, <1>2, <2>2 DEF KeepStep, TypeInv, TypeOK
    <3>2. PICK f \in Folders : InMailbox(f, m)
      BY <2>2, <3>1 DEF Keeping, AtServer
    <3>3. QED
      BY <1>1, <1>2, <3>1, <3>2 DEF KeepStep, KeptOrDiscarded
  <2>3. QED
    BY <2>1, <2>2
<1>3. QED
  BY <1>1, <1>2, NeverDeletes DEF Keeping, KeepStep

\* An account that keeps its mail on the server loses none of it: whatever is
\* synced, moved, flagged or renumbered, by however many processes at once and
\* whatever fails, a message nobody discarded is in a mailbox.
THEOREM KeptMailIsRetained ==
  ASSUME KeepOnServer
  PROVE  Spec => []MailRetained
<1>1. Init => Keeping
  BY SyncAssumption DEF Init, Keeping, Procs, Below, Live, EmptyMailbox
<1>2. TypeInv /\ Keeping /\ [Next]_vars => Keeping'
  BY KeepingStep
<1>3. TypeInv /\ Keeping => MailRetained
  <2> SUFFICES ASSUME TypeInv, Keeping, NEW m \in arrived \ discarded PROVE m \in OnServer
    BY DEF MailRetained
  <2>0. PICK f \in Folders : \E u \in Live(server[f]) : server[f].mail[u].msg = m
    BY DEF Keeping, AtServer, InMailbox
  <2>1. PICK u \in Live(server[f]) : server[f].mail[u].msg = m
    BY <2>0
  <2>2. u \in UIDs /\ m \in Msgs
    BY LiveUIDs DEF TypeInv, TypeOK
  <2>3. QED
    BY <2>1, <2>2, StoreAssumption DEF OnServer
<1>4. QED
  BY <1>1, <1>2, <1>3, InitType, TypeStep, PTL DEF Spec
=============================================================================
