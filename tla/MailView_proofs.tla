--------------------------- MODULE MailView_proofs ---------------------------
(***************************************************************************)
(* Proofs about MailSnapshot and MailView.                                   *)
(*                                                                          *)
(* A body in flight is being fetched by one command (FlightInv).  When all   *)
(* is quiet, the lists of the snapshot are those of the store: Base says     *)
(* what rows, lists and command_worker have to do with one another, AllGood  *)
(* what is still to come for a list that is not as stored.  The TUI does     *)
(* nothing to the snapshot but call the data source, and what its list and   *)
(* its reader show belongs together (AppInv).                                *)
(***************************************************************************)
EXTENDS MailView, FiniteSetTheorems, SequenceTheorems, TLAPS

-----------------------------------------------------------------------------
(* The inductive invariant: besides the property, the commands are commands, *)
(* and each step of a call and of command_worker has one it is for.          *)

Steps == {"recv", "server", "store", "put", "release"}

CallIsFor ==
  /\ call.at \in {"none", "move", "send", "ask"} /\ call.cmd \in Command
  /\ call.at = "ask" => call.cmd.op = "body"
  /\ call.at = "move" => call.cmd.op = "move"
  /\ call.at = "send" => call.cmd.op # "body"

WorkIsFor ==
  /\ work = [cmd |-> work.cmd, row |-> work.row, at |-> work.at]
  /\ work.at \in Steps /\ work.cmd \in Command
  /\ work.at \in {"put", "release"} => work.cmd.op = "body"

FlightInv ==
  /\ lastId \in 0 .. MaxId
  /\ commands \in Seq(Command)
  /\ CallIsFor /\ WorkIsFor
  /\ InFlightIsPending

LEMMA BodyCommand ==
  ASSUME NEW c \in Command, c.op = "body"
  PROVE  c.id \in Ids /\ c = FetchBody(c.id)
BY DEF Command, FetchBody

LEMMA BodyCommandsDiffer ==
  ASSUME NEW i \in Ids, NEW k \in Ids
  PROVE  /\ FetchBody(i) \in Command /\ FetchBody(i).op = "body" /\ FetchBody(i).id = i
         /\ FetchBody(i) = FetchBody(k) => i = k
BY DEF Command, FetchBody

LEMMA EmptyIsCommand == EmptyTrash(Trash) \in Command /\ EmptyTrash(Trash).op # "body"
BY SnapshotAssumption DEF Command, EmptyTrash

\* A step that leaves the channel, the set and command_worker's fetch alone.
LEMMA NothingInFlightMoves ==
  ASSUME InFlightIsPending, UNCHANGED <<inFlight, commands>>,
         \A i \in Ids : Fetching(i)' <=> Fetching(i)
  PROVE  InFlightIsPending'
<1>1. \A i \in Ids : Waiting(i)' = Waiting(i)
  BY DEF Waiting
<1>2. QED
  BY <1>1 DEF InFlightIsPending

\* A command that is no body's joins the channel.
LEMMA OtherCommandSent ==
  ASSUME FlightInv, NEW c \in Command, c.op # "body", Send(c), UNCHANGED <<inFlight, work>>
  PROVE  commands' \in Seq(Command) /\ InFlightIsPending'
<1>1. /\ commands \in Seq(Command) /\ commands' = Append(commands, c)
      /\ commands' \in Seq(Command)
  BY DEF FlightInv, Send
<1>2. ASSUME NEW i \in Ids PROVE Waiting(i)' = Waiting(i)
  <2>1. c # FetchBody(i)
    BY BodyCommandsDiffer
  <2>2. QED
    BY <1>1, <2>1 DEF Waiting
<1>3. \A i \in Ids : Fetching(i)' <=> Fetching(i)
  BY DEF Fetching
<1>4. QED
  BY <1>1, <1>2, <1>3 DEF InFlightIsPending, FlightInv

-----------------------------------------------------------------------------

LEMMA FlightInit == SnapshotInit => FlightInv
<1> SUFFICES ASSUME SnapshotInit PROVE FlightInv
  OBVIOUS
<1>1. lastId \in 0 .. MaxId
  <2>1. PICK at \in [Mail -> Folders \cup {Nowhere}] :
          /\ lastId = Cardinality({m \in Mail : at[m] # Nowhere}) /\ lastId <= MaxId
    BY DEF SnapshotInit
  <2>2. IsFiniteSet({m \in Mail : at[m] # Nowhere})
    BY FS_Subset, SnapshotAssumption
  <2>3. QED
    BY <2>1, <2>2, FS_CardinalityType, SnapshotAssumption
<1>2. commands \in Seq(Command) /\ CallIsFor /\ WorkIsFor
  BY EmptyIsCommand DEF SnapshotInit, NoCall, Idle, CallIsFor, WorkIsFor, Steps
<1>3. InFlightIsPending
  <2>1. \A i \in Ids : Waiting(i) = {} /\ ~Fetching(i) /\ i \notin inFlight
    BY DEF SnapshotInit, Waiting, Fetching, Idle
  <2>2. QED
    BY <2>1 DEF InFlightIsPending
<1>4. QED
  BY <1>1, <1>2, <1>3 DEF FlightInv

LEMMA FlightReceive == FlightInv /\ Receive => FlightInv'
<1> SUFFICES ASSUME FlightInv, Receive PROVE FlightInv'
  OBVIOUS
<1>1. /\ commands \in Seq(Command) /\ commands # <<>>
      /\ commands' = Tail(commands) /\ work.at = "recv"
      /\ work' = [cmd |-> Head(commands), row |-> NoRow, at |-> "server"]
      /\ UNCHANGED <<lastId, inFlight, call>>
  BY DEF FlightInv, Receive, storeVars
<1>2. /\ commands' \in Seq(Command) /\ Head(commands) \in Command
      /\ Len(commands) \in Nat /\ Len(commands) > 0
      /\ DOMAIN commands' = 1 .. Len(commands) - 1
      /\ \A n \in 1 .. Len(commands) - 1 : commands'[n] = commands[n + 1]
      /\ DOMAIN commands = 1 .. Len(commands) /\ Head(commands) = commands[1]
  BY <1>1
<1>3. WorkIsFor' /\ CallIsFor'
  BY <1>1, <1>2 DEF FlightInv, WorkIsFor, CallIsFor, Steps
<1>4. ASSUME NEW i \in Ids
      PROVE  /\ i \in inFlight' <=> (Waiting(i)' # {} \/ Fetching(i)')
             /\ Waiting(i)' # {} => ~Fetching(i)'
             /\ \A n, k \in Waiting(i)' : n = k
  <2>1. /\ i \in inFlight <=> Waiting(i) # {}
        /\ \A n, k \in Waiting(i) : n = k
    BY <1>1 DEF FlightInv, InFlightIsPending, Fetching
  <2>2. Fetching(i)' <=> 1 \in Waiting(i)
    BY <1>1, <1>2 DEF Fetching, Waiting
  <2>3. \A n : n \in Waiting(i)' => n \in Nat /\ n > 0 /\ n + 1 \in Waiting(i)
    BY <1>1, <1>2 DEF Waiting
  <2>4. \A n \in Waiting(i) : n = 1 \/ n - 1 \in Waiting(i)'
    BY <1>1, <1>2 DEF Waiting
  <2>5. QED
    BY <1>1, <2>1, <2>2, <2>3, <2>4
<1>5. QED
  BY <1>1, <1>2, <1>3, <1>4 DEF FlightInv, InFlightIsPending

LEMMA FlightAskBody == FlightInv /\ AskBody => FlightInv'
<1> SUFFICES ASSUME FlightInv, AskBody PROVE FlightInv'
  OBVIOUS
<1> DEFINE b == call.cmd.id
<1>1. /\ call.cmd = FetchBody(b) /\ b \in Ids
      /\ call' = NoCall /\ UNCHANGED <<lastId, work>>
      /\ commands \in Seq(Command)
  BY BodyCommand DEF FlightInv, CallIsFor, AskBody, storeVars, taskVars
<1>2. WorkIsFor' /\ CallIsFor' /\ lastId' \in 0 .. MaxId
  BY <1>1, EmptyIsCommand DEF FlightInv, WorkIsFor, CallIsFor, NoCall
<1>3. \A i \in Ids : Fetching(i)' <=> Fetching(i)
  BY <1>1 DEF Fetching
<1>4. CASE b \in inFlight
  <2>1. UNCHANGED <<inFlight, commands>>
    BY <1>4 DEF AskBody
  <2>2. InFlightIsPending'
    BY <2>1, <1>3, NothingInFlightMoves DEF FlightInv
  <2>3. QED
    BY <1>1, <1>2, <2>1, <2>2 DEF FlightInv
<1>5. CASE b \notin inFlight
  <2>1. /\ inFlight' = inFlight \cup {b} /\ commands' = Append(commands, FetchBody(b))
        /\ commands' \in Seq(Command)
    BY <1>1, <1>5, BodyCommandsDiffer DEF AskBody, Send
  <2>2. Waiting(b) = {} /\ ~Fetching(b)
    BY <1>1, <1>5 DEF FlightInv, InFlightIsPending
  <2>3. ASSUME NEW i \in Ids
        PROVE  Waiting(i)' = IF i = b THEN {Len(commands) + 1} ELSE Waiting(i)
    <3>1. FetchBody(i) = FetchBody(b) <=> i = b
      BY <1>1, BodyCommandsDiffer
    <3>2. QED
      BY <1>1, <2>1, <2>2, <3>1 DEF Waiting
  <2>4. InFlightIsPending'
    <3>1. ASSUME NEW i \in Ids
          PROVE  /\ i \in inFlight' <=> (Waiting(i)' # {} \/ Fetching(i)')
                 /\ Waiting(i)' # {} => ~Fetching(i)'
                 /\ \A n, k \in Waiting(i)' : n = k
      <4>1. CASE i = b
        BY <1>3, <2>1, <2>2, <2>3, <4>1
      <4>2. CASE i # b
        <5>1. Waiting(i)' = Waiting(i)
          BY <2>3, <4>2
        <5>2. i \in inFlight' <=> i \in inFlight
          BY <2>1, <4>2
        <5>3. QED
          BY <1>3, <5>1, <5>2 DEF FlightInv, InFlightIsPending
      <4>3. QED
        BY <4>1, <4>2
    <3>2. QED
      BY <3>1 DEF InFlightIsPending
  <2>5. QED
    BY <1>2, <2>1, <2>4 DEF FlightInv
<1>6. QED
  BY <1>4, <1>5

LEMMA FlightRelease == FlightInv /\ Release => FlightInv'
<1> SUFFICES ASSUME FlightInv, Release PROVE FlightInv'
  OBVIOUS
<1> DEFINE b == work.cmd.id
<1>1. /\ work.cmd = FetchBody(b) /\ b \in Ids /\ work.at = "release"
      /\ inFlight' = inFlight \ {b} /\ work' = Idle
      /\ UNCHANGED <<lastId, commands, call>>
  BY BodyCommand DEF FlightInv, WorkIsFor, Release, storeVars
<1>2. WorkIsFor' /\ CallIsFor'
  BY <1>1, EmptyIsCommand DEF FlightInv, WorkIsFor, CallIsFor, Idle, Steps
<1>3. \A i \in Ids : /\ Waiting(i)' = Waiting(i) /\ ~Fetching(i)'
                     /\ Fetching(i) <=> i = b
  BY <1>1, BodyCommandsDiffer DEF Waiting, Fetching, Idle
<1>4. InFlightIsPending'
  BY <1>1, <1>3 DEF FlightInv, InFlightIsPending
<1>5. QED
  BY <1>1, <1>2, <1>4 DEF FlightInv

WorkGoesOn ==
  \E row, at : /\ work' = [cmd |-> work.cmd, row |-> row, at |-> at]
               /\ work.at # "recv" /\ at \in Steps \ {"recv"}
               /\ at \in {"put", "release"} => work.cmd.op = "body"

\* What command_worker and the event task do besides.
LEMMA FlightWork ==
  ASSUME FlightInv, UNCHANGED <<lastId, inFlight, commands, call>>,
         \/ UNCHANGED work
         \/ /\ work.at \in {"server", "store"} /\ work.cmd.op # "body" /\ work' = Idle
         \/ WorkGoesOn
  PROVE  FlightInv'
<1>1. WorkIsFor' /\ CallIsFor'
  BY EmptyIsCommand DEF FlightInv, WorkIsFor, CallIsFor, Idle, Steps, WorkGoesOn
<1>2. \A i \in Ids : Fetching(i)' <=> Fetching(i)
  BY BodyCommandsDiffer DEF Fetching, Idle, Steps, WorkGoesOn
<1>3. InFlightIsPending'
  BY <1>2, NothingInFlightMoves DEF FlightInv
<1>4. QED
  BY <1>1, <1>3 DEF FlightInv

LEMMA FlightWorker == FlightInv /\ CommandWorker => FlightInv'
<1> SUFFICES ASSUME FlightInv, CommandWorker PROVE FlightInv'
  OBVIOUS
<1> USE DEF storeVars, snapVars, chanVars, WorkerGoes
<1>w. /\ work = [cmd |-> work.cmd, row |-> work.row, at |-> work.at]
  BY DEF FlightInv, WorkIsFor
<1>e. \A s : [work EXCEPT !.at = s] = [cmd |-> work.cmd, row |-> work.row, at |-> s]
  BY <1>w
<1>1. CASE Receive
  BY <1>1, FlightReceive
<1>2. CASE AtServer
  <2>1. /\ work.at = "server" /\ UNCHANGED <<lastId, inFlight, commands, call>>
        /\ \E row : work' = [cmd |-> work.cmd, row |-> row, at |-> "store"]
    BY <1>2, <1>w, <1>e DEF AtServer
  <2>2. QED
    <3>1. PICK row : work' = [cmd |-> work.cmd, row |-> row, at |-> "store"]
      BY <2>1
    <3>2. WorkGoesOn
      <4>1. /\ work.at # "recv" /\ "store" \in Steps \ {"recv"}
            /\ "store" \in {"put", "release"} => work.cmd.op = "body"
        BY <2>1 DEF Steps
      <4>2. QED
        BY <3>1, <4>1, Zenon DEF WorkGoesOn
    <3>3. QED
      BY <2>1, <3>2, FlightWork
<1>3. CASE CommandFails
  BY <1>3, <1>e, FlightWork DEF CommandFails, Steps, WorkGoesOn
<1>4. CASE StoreBody
  BY <1>4, <1>e, FlightWork, ZenonT(40) DEF StoreBody, Steps, WorkGoesOn
<1>5. CASE StoreFlag
  BY <1>5, FlightWork DEF StoreFlag
<1>6. CASE ForgetMoved
  BY <1>6, FlightWork DEF ForgetMoved
<1>7. CASE ClearFolder
  BY <1>7, FlightWork DEF ClearFolder
<1>8. CASE PutBody
  <2>1. work.cmd.op = "body"
    BY <1>8 DEF FlightInv, WorkIsFor, PutBody
  <2>2. QED
    BY <1>8, <1>e, <2>1, FlightWork, ZenonT(40) DEF PutBody, Steps, WorkGoesOn
<1>9. CASE Release
  BY <1>9, FlightRelease
<1>10. QED
  BY <1>1, <1>2, <1>3, <1>4, <1>5, <1>6, <1>7, <1>8, <1>9 DEF CommandWorker

LEMMA FlightEvents == FlightInv /\ EventTask => FlightInv'
<1> SUFFICES ASSUME FlightInv, EventTask PROVE FlightInv'
  OBVIOUS
<1>1. UNCHANGED <<lastId, inFlight, commands, call, work>>
  BY DEF EventTask, ReadFolder, WriteFolder, WriteFlags, CacheFetched, storeVars, chanVars
<1>2. QED
  BY <1>1, FlightWork

LEMMA FlightSync == FlightInv /\ Sync => FlightInv'
<1> SUFFICES ASSUME FlightInv, Sync PROVE FlightInv'
  OBVIOUS
<1>1. UNCHANGED <<inFlight, commands, call, work>>
  BY DEF Sync, StoreEnvelope, chanVars
<1>2. lastId' \in 0 .. MaxId
  BY SnapshotAssumption DEF Sync, StoreEnvelope, FlightInv
<1>3. \A i \in Ids : Fetching(i)' <=> Fetching(i)
  BY <1>1 DEF Fetching
<1>4. InFlightIsPending'
  BY <1>1, <1>3, NothingInFlightMoves DEF FlightInv
<1>5. QED
  BY <1>1, <1>2, <1>4 DEF FlightInv, WorkIsFor, CallIsFor

\* A call begins, or changes the view, and leaves what is in flight alone.
LEMMA FlightCall ==
  ASSUME FlightInv, UNCHANGED <<lastId, inFlight, commands, work>>, CallIsFor'
  PROVE  FlightInv'
<1>1. \A i \in Ids : Fetching(i)' <=> Fetching(i)
  BY DEF Fetching
<1>2. InFlightIsPending'
  BY <1>1, NothingInFlightMoves DEF FlightInv
<1>3. QED
  BY <1>2 DEF FlightInv, WorkIsFor

LEMMA FlightDataSource == FlightInv /\ DataSource => FlightInv'
<1> SUFFICES ASSUME FlightInv, DataSource PROVE FlightInv'
  OBVIOUS
<1> USE DEF storeVars, snapVars, chanVars, taskVars
<1>0. NoCall.at = "none" /\ NoCall.cmd \in Command
  BY EmptyIsCommand DEF NoCall
<1>1. CASE MoveShown
  BY <1>0, <1>1, FlightCall DEF MoveShown, CallIsFor
<1>2. CASE SendCommand
  <2>1. call.cmd \in Command /\ call.cmd.op # "body" /\ UNCHANGED <<inFlight, work, lastId>>
    BY <1>2 DEF SendCommand, FlightInv, CallIsFor
  <2>2. commands' \in Seq(Command) /\ InFlightIsPending'
    BY <1>2, <2>1, OtherCommandSent DEF SendCommand
  <2>3. CallIsFor'
    BY <1>0, <1>2 DEF SendCommand, CallIsFor
  <2>4. QED
    BY <2>1, <2>2, <2>3 DEF FlightInv, WorkIsFor
<1>3. CASE AskBody
  BY <1>3, FlightAskBody
<1>4. CASE EmptyTrashCall
  BY <1>4, EmptyIsCommand, FlightCall DEF EmptyTrashCall, CallIsFor
<1>5. ASSUME NEW i \in 1 .. lastId, NEW d \in Folders, MoveMessage(i, d) PROVE FlightInv'
  <2>1. Move(i, d) \in Command /\ Move(i, d).op = "move"
    BY <1>5, SnapshotAssumption DEF Command, Move, FlightInv, Ids
  <2>2. commands' \in Seq(Command) /\ InFlightIsPending'
    BY <1>5, <2>1, OtherCommandSent DEF MoveMessage
  <2>3. CallIsFor' /\ UNCHANGED <<lastId, work>>
    BY <1>5, <2>1 DEF MoveMessage, CallIsFor
  <2>4. QED
    BY <2>2, <2>3 DEF FlightInv, WorkIsFor
<1>6. ASSUME NEW i \in 1 .. lastId, NEW flag, NEW add \in BOOLEAN, ChangeFlag(i, flag, add) PROVE FlightInv'
  <2>1. SetFlag(i, flag, add) \in Command /\ SetFlag(i, flag, add).op # "body"
    <3>0. flag \in Flags
      BY <1>6, Zenon DEF ChangeFlag
    <3>1. i \in Ids /\ flag \in Flags
      BY <3>0, SnapshotAssumption DEF FlightInv, Ids
    <3>2. SetFlag(i, flag, add).op # "body"
      BY DEF SetFlag
    <3>3. SetFlag(i, flag, add) \in [op : {"flag"}, id : Ids, flag : Flags, add : BOOLEAN]
      BY <3>1, <1>6, Zenon DEF SetFlag
    <3>4. QED
      BY <3>2, <3>3 DEF Command
  <2>2. CallIsFor' /\ UNCHANGED <<lastId, inFlight, commands, work>>
    BY <1>6, <2>1 DEF ChangeFlag, CallIsFor
  <2>3. QED
    BY <2>2, FlightCall
<1>7. ASSUME NEW i \in 1 .. lastId, MissBody(i) PROVE FlightInv'
  <2>1. FetchBody(i) \in Command /\ FetchBody(i).op = "body"
    BY SnapshotAssumption DEF Command, FetchBody, FlightInv, Ids
  <2>2. CallIsFor' /\ UNCHANGED <<lastId, inFlight, commands, work>>
    BY <1>7, <2>1 DEF MissBody, CallIsFor
  <2>3. QED
    BY <2>2, FlightCall
<1>8. ASSUME NEW i \in 1 .. lastId, ToggleFlag(i) PROVE FlightInv'
  <2>1. \E add \in BOOLEAN : ChangeFlag(i, "flagged", add)
    BY <1>8 DEF ToggleFlag
  <2>2. QED
    BY <1>6, <2>1
<1>9. ASSUME NEW i \in 1 .. lastId, DeleteMessage(i) PROVE FlightInv'
  BY <1>5, <1>9, SnapshotAssumption DEF DeleteMessage
<1>10. ASSUME NEW i \in 1 .. lastId, NEW seen \in BOOLEAN, SetSeen(i, seen) PROVE FlightInv'
  BY <1>6, <1>10 DEF SetSeen
<1>11. QED
  BY <1>1, <1>2, <1>3, <1>4, <1>5, <1>7, <1>8, <1>9, <1>10 DEF DataSource, CallGoesOn

-----------------------------------------------------------------------------
(* Lists.                                                                    *)

Once(l, i) == \E n \in DOMAIN l : l[n].id = i /\ \A k \in DOMAIN l : l[k].id = i => k = n
Flagged(l, i, flags) == \A n \in DOMAIN l : l[n].id = i => l[n].flags = flags
Sorted(l) == \A i, k \in DOMAIN l : i < k => l[i].mail >= l[k].mail

LEMMA RemoveAtIs ==
  ASSUME NEW S, NEW l \in Seq(S), NEW n \in DOMAIN l
  PROVE  /\ RemoveAt(l, n) \in Seq(S) /\ DOMAIN RemoveAt(l, n) = 1 .. Len(l) - 1
         /\ \A k \in 1 .. Len(l) - 1 : RemoveAt(l, n)[k] = l[IF k < n THEN k ELSE k + 1]
<1>1. Len(l) \in Nat /\ n \in 1 .. Len(l) /\ \A k \in 1 .. Len(l) : l[k] \in S
  BY LenProperties, ElementOfSeq
<1> DEFINE p == SubSeq(l, 1, n - 1)
           q == SubSeq(l, n + 1, Len(l))
<1>2. /\ p \in Seq(S) /\ Len(p) = n - 1
      /\ \A k \in 1 .. n - 1 : p[k] = l[k]
  <2>1. \A k \in 1 .. n - 1 : l[k] \in S
    BY <1>1
  <2>2. p \in Seq(S) /\ Len(p) = IF 1 <= n - 1 THEN (n - 1) - 1 + 1 ELSE 0
    BY <1>1, <2>1, SubSeqProperties
  <2>3. \A k \in 1 .. (n - 1) - 1 + 1 : p[k] = l[1 + k - 1]
    BY <1>1, <2>1, SubSeqProperties
  <2>4. QED
    BY <1>1, <2>2, <2>3
<1>3. /\ q \in Seq(S) /\ Len(q) = Len(l) - n
      /\ \A k \in 1 .. Len(l) - n : q[k] = l[n + k]
  <2>1. \A k \in n + 1 .. Len(l) : l[k] \in S
    BY <1>1
  <2>2. q \in Seq(S) /\ Len(q) = IF n + 1 <= Len(l) THEN Len(l) - (n + 1) + 1 ELSE 0
    BY <1>1, <2>1, SubSeqProperties
  <2>3. \A k \in 1 .. Len(l) - (n + 1) + 1 : q[k] = l[(n + 1) + k - 1]
    BY <1>1, <2>1, SubSeqProperties
  <2>4. QED
    BY <1>1, <2>2, <2>3
<1>4. RemoveAt(l, n) = p \o q
  BY DEF RemoveAt
<1> HIDE DEF p, q
<1>5. /\ p \o q \in Seq(S) /\ Len(p \o q) = Len(p) + Len(q)
      /\ \A k \in 1 .. Len(p) + Len(q) : (p \o q)[k] = IF k <= Len(p) THEN p[k] ELSE q[k - Len(p)]
  BY <1>2, <1>3, ConcatProperties
<1>6. DOMAIN (p \o q) = 1 .. Len(l) - 1
  BY <1>1, <1>2, <1>3, <1>5, LenProperties
<1>7. ASSUME NEW k \in 1 .. Len(l) - 1 PROVE (p \o q)[k] = l[IF k < n THEN k ELSE k + 1]
  <2>1. CASE k < n
    <3>1. k \in 1 .. Len(p) + Len(q) /\ k <= Len(p) /\ k \in 1 .. n - 1
      BY <2>1, <1>1, <1>2, <1>3
    <3>2. (p \o q)[k] = p[k] /\ p[k] = l[k]
      BY <1>2, <1>5, <3>1
    <3>3. QED
      BY <2>1, <3>2
  <2>2. CASE ~(k < n)
    <3>0. k \in 1 .. Len(p) + Len(q) /\ ~(k <= Len(p))
      BY <2>2, <1>1, <1>2, <1>3
    <3>1. (p \o q)[k] = q[k - (n - 1)]
      BY <3>0, <1>2, <1>5
    <3>2. k - (n - 1) \in 1 .. Len(l) - n /\ n + (k - (n - 1)) = k + 1
      BY <2>2, <1>1
    <3>3. QED
      BY <2>2, <3>1, <3>2, <1>3
  <2>3. QED
    BY <2>1, <2>2
<1>8. QED
  BY <1>4, <1>5, <1>6, <1>7

LEMMA InsertAtIs ==
  ASSUME NEW l \in Seq(Entry), NEW e \in Entry, NEW n \in 1 .. Len(l) + 1
  PROVE  /\ InsertAt(l, n, e) \in Seq(Entry) /\ DOMAIN InsertAt(l, n, e) = 1 .. Len(l) + 1
         /\ \A k \in 1 .. Len(l) + 1 :
              InsertAt(l, n, e)[k] = IF k < n THEN l[k] ELSE IF k = n THEN e ELSE l[k - 1]
<1>1. Len(l) \in Nat /\ \A k \in 1 .. Len(l) : l[k] \in Entry
  BY LenProperties, ElementOfSeq
<1> DEFINE p == SubSeq(l, 1, n - 1)
           q == SubSeq(l, n, Len(l))
<1>2. /\ p \in Seq(Entry) /\ Len(p) = n - 1
      /\ \A k \in 1 .. n - 1 : p[k] = l[k]
  <2>1. \A k \in 1 .. n - 1 : l[k] \in Entry
    BY <1>1
  <2>2. p \in Seq(Entry) /\ Len(p) = IF 1 <= n - 1 THEN (n - 1) - 1 + 1 ELSE 0
    BY <1>1, <2>1, SubSeqProperties
  <2>3. \A k \in 1 .. (n - 1) - 1 + 1 : p[k] = l[1 + k - 1]
    BY <1>1, <2>1, SubSeqProperties
  <2>4. QED
    BY <1>1, <2>2, <2>3
<1>3. /\ q \in Seq(Entry) /\ Len(q) = Len(l) + 1 - n
      /\ \A k \in 1 .. Len(l) + 1 - n : q[k] = l[n + k - 1]
  <2>1. \A k \in n .. Len(l) : l[k] \in Entry
    BY <1>1
  <2>2. q \in Seq(Entry) /\ Len(q) = IF n <= Len(l) THEN Len(l) - n + 1 ELSE 0
    BY <1>1, <2>1, SubSeqProperties
  <2>3. \A k \in 1 .. Len(l) - n + 1 : q[k] = l[n + k - 1]
    BY <1>1, <2>1, SubSeqProperties
  <2>4. QED
    BY <1>1, <2>2, <2>3
<1>4. InsertAt(l, n, e) = (p \o <<e>>) \o q
  BY DEF InsertAt
<1> HIDE DEF p, q
<1> DEFINE t == p \o <<e>>
<1>5. /\ t \in Seq(Entry) /\ Len(t) = n /\ \A k \in 1 .. n : t[k] = IF k < n THEN l[k] ELSE e
  <2>1. <<e>> \in Seq(Entry) /\ Len(<<e>>) = 1 /\ <<e>>[1] = e
    OBVIOUS
  <2> DEFINE o == <<e>>
  <2> HIDE DEF o
  <2>2. /\ p \o o \in Seq(Entry) /\ Len(p \o o) = Len(p) + Len(o)
        /\ \A k \in 1 .. Len(p) + Len(o) : (p \o o)[k] = IF k <= Len(p) THEN p[k] ELSE o[k - Len(p)]
    BY <1>2, <2>1, ConcatProperties DEF o
  <2>3. ASSUME NEW k \in 1 .. n PROVE (p \o o)[k] = IF k < n THEN l[k] ELSE e
    BY <1>2, <2>1, <2>2 DEF o
  <2>4. Len(p \o o) = n
    BY <1>2, <2>1, <2>2 DEF o
  <2>5. QED
    BY <2>2, <2>3, <2>4 DEF o
<1> HIDE DEF t
<1>6. /\ t \o q \in Seq(Entry) /\ Len(t \o q) = Len(t) + Len(q)
      /\ \A k \in 1 .. Len(t) + Len(q) : (t \o q)[k] = IF k <= Len(t) THEN t[k] ELSE q[k - Len(t)]
  BY <1>3, <1>5, ConcatProperties
<1>7. DOMAIN (t \o q) = 1 .. Len(l) + 1
  BY <1>1, <1>3, <1>5, <1>6, LenProperties
<1>8. ASSUME NEW k \in 1 .. Len(l) + 1
      PROVE  (t \o q)[k] = IF k < n THEN l[k] ELSE IF k = n THEN e ELSE l[k - 1]
  <2>1. CASE k <= n
    BY <2>1, <1>1, <1>3, <1>5, <1>6
  <2>2. CASE ~(k <= n)
    <3>1. (t \o q)[k] = q[k - n]
      BY <2>2, <1>1, <1>3, <1>5, <1>6
    <3>2. k - n \in 1 .. Len(l) + 1 - n /\ n + (k - n) - 1 = k - 1
      BY <2>2, <1>1
    <3>3. QED
      BY <2>2, <3>1, <3>2, <1>3
  <2>3. QED
    BY <2>1, <2>2
<1>9. QED
  BY <1>4, <1>6, <1>7, <1>8 DEF t

\* Taking an entry out of a list, or putting one in, does not disturb those of another id.
LEMMA RemoveKeeps ==
  ASSUME NEW l \in Seq(Entry), NEW n \in DOMAIN l
  PROVE  /\ RemoveAt(l, n) \in Seq(Entry)
         /\ \A k \in DOMAIN RemoveAt(l, n) : \E j \in DOMAIN l : RemoveAt(l, n)[k] = l[j]
         /\ \A i : i # l[n].id /\ Once(l, i) => Once(RemoveAt(l, n), i)
         /\ Sorted(l) => Sorted(RemoveAt(l, n))
<1> DEFINE t == RemoveAt(l, n)
<1>1. /\ t \in Seq(Entry) /\ DOMAIN t = 1 .. Len(l) - 1
      /\ \A k \in 1 .. Len(l) - 1 : t[k] = l[IF k < n THEN k ELSE k + 1]
  BY RemoveAtIs
<1>2. Len(l) \in Nat /\ n \in 1 .. Len(l) /\ DOMAIN l = 1 .. Len(l)
  BY LenProperties
<1> HIDE DEF t
<1> DEFINE old(k) == IF k < n THEN k ELSE k + 1
<1>3. \A k \in DOMAIN t : old(k) \in DOMAIN l /\ t[k] = l[old(k)]
  BY <1>1, <1>2
<1>4. \A j \in DOMAIN l : j # n => \E k \in DOMAIN t : old(k) = j
  <2> SUFFICES ASSUME NEW j \in DOMAIN l, j # n PROVE \E k \in DOMAIN t : old(k) = j
    OBVIOUS
  <2>1. CASE j < n
    BY <2>1, <1>1, <1>2
  <2>2. CASE ~(j < n)
    <3>1. j - 1 \in DOMAIN t /\ old(j - 1) = j
      BY <2>2, <1>1, <1>2
    <3>2. QED
      BY <3>1
  <2>3. QED
    BY <2>1, <2>2
<1>5. \A k, j \in DOMAIN t : (old(k) = old(j) => k = j) /\ (k < j => old(k) < old(j))
  BY <1>1, <1>2
<1> HIDE DEF old
<1>6. ASSUME NEW i, i # l[n].id, Once(l, i) PROVE Once(t, i)
  <2>1. PICK j \in DOMAIN l : l[j].id = i /\ \A k \in DOMAIN l : l[k].id = i => k = j
    BY <1>6 DEF Once
  <2>2. PICK k \in DOMAIN t : old(k) = j
    BY <1>4, <1>6, <2>1
  <2>3. QED
    BY <1>3, <1>5, <2>1, <2>2 DEF Once
<1>7. Sorted(l) => Sorted(t)
  BY <1>3, <1>5 DEF Sorted
<1>8. QED
  BY <1>1, <1>3, <1>6, <1>7 DEF t

LEMMA InsertKeeps ==
  ASSUME NEW l \in Seq(Entry), NEW e \in Entry, NEW t \in Insertions(l, e), Mail \subseteq Nat
  PROVE  /\ t \in Seq(Entry)
         /\ \A k \in DOMAIN t : t[k] = e \/ \E j \in DOMAIN l : t[k] = l[j]
         /\ \A i : i # e.id /\ Once(l, i) => Once(t, i)
         /\ Sorted(l) => Sorted(t)
<1>1. PICK n \in 1 .. Len(l) + 1 :
        /\ t = InsertAt(l, n, e)
        /\ \A k \in 1 .. n - 1 : ~Newer(e, l[k])
        /\ \A k \in n .. Len(l) : ~Newer(l[k], e)
  BY DEF Insertions
<1>2. /\ t \in Seq(Entry) /\ DOMAIN t = 1 .. Len(l) + 1
      /\ \A k \in 1 .. Len(l) + 1 : t[k] = IF k < n THEN l[k] ELSE IF k = n THEN e ELSE l[k - 1]
  <2>1. l \in Seq(Entry) /\ e \in Entry /\ n \in 1 .. Len(l) + 1
    BY <1>1
  <2>2. /\ InsertAt(l, n, e) \in Seq(Entry) /\ DOMAIN InsertAt(l, n, e) = 1 .. Len(l) + 1
        /\ \A k \in 1 .. Len(l) + 1 :
             InsertAt(l, n, e)[k] = IF k < n THEN l[k] ELSE IF k = n THEN e ELSE l[k - 1]
    BY ONLY <2>1, InsertAtIs
  <2>3. QED
    BY <1>1, <2>2, Zenon
<1>3. Len(l) \in Nat /\ DOMAIN l = 1 .. Len(l) /\ e.mail \in Nat /\ \A j \in DOMAIN l : l[j].mail \in Nat
  <2>1. Len(l) \in Nat /\ DOMAIN l = 1 .. Len(l) /\ \A j \in 1 .. Len(l) : l[j] \in Entry
    BY LenProperties, ElementOfSeq
  <2>2. \A x \in Entry : x.mail \in Nat
    BY DEF Entry
  <2>3. QED
    BY <2>1, <2>2
<1> DEFINE old(k) == IF k < n THEN k ELSE k - 1
<1>4. t[n] = e /\ n \in DOMAIN t /\ \A k \in DOMAIN t : k # n => old(k) \in DOMAIN l /\ t[k] = l[old(k)]
  BY <1>2, <1>3
<1>5. \A j \in DOMAIN l : \E k \in DOMAIN t : k # n /\ old(k) = j
  <2> SUFFICES ASSUME NEW j \in DOMAIN l PROVE \E k \in DOMAIN t : k # n /\ old(k) = j
    OBVIOUS
  <2>1. CASE j < n
    BY <2>1, <1>2, <1>3
  <2>2. CASE ~(j < n)
    <3>1. j + 1 \in DOMAIN t /\ j + 1 # n /\ old(j + 1) = j
      BY <2>2, <1>2, <1>3
    <3>2. QED
      BY <3>1
  <2>3. QED
    BY <2>1, <2>2
<1>6. \A k, j \in DOMAIN t : k # n /\ j # n => (old(k) = old(j) => k = j) /\ (k < j => old(k) < old(j))
  BY <1>2, <1>3
<1>7. /\ \A k \in DOMAIN t : k < n => old(k) \in 1 .. n - 1
      /\ \A k \in DOMAIN t : k > n => old(k) \in n .. Len(l)
  BY <1>2, <1>3
<1> HIDE DEF old
<1>8. ASSUME NEW i, i # e.id, Once(l, i) PROVE Once(t, i)
  <2>1. PICK j \in DOMAIN l : l[j].id = i /\ \A k \in DOMAIN l : l[k].id = i => k = j
    BY <1>8 DEF Once
  <2>2. PICK k \in DOMAIN t : k # n /\ old(k) = j
    BY <1>5, <2>1
  <2>3. QED
    BY <1>4, <1>6, <1>8, <2>1, <2>2 DEF Once
<1>9. ASSUME Sorted(l), NEW i \in DOMAIN t, NEW k \in DOMAIN t, i < k PROVE t[i].mail >= t[k].mail
  <2>1. CASE i # n /\ k # n
    BY <1>9, <2>1, <1>4, <1>6 DEF Sorted
  <2>2. CASE i = n
    <3>1. k # n /\ k > n
      BY <1>2, <1>9, <2>2
    <3>2. ~Newer(l[old(k)], e) /\ t[k] = l[old(k)] /\ old(k) \in DOMAIN l
      BY <1>1, <1>4, <1>7, <3>1
    <3>3. QED
      BY <1>3, <1>4, <2>2, <3>2 DEF Newer
  <2>3. CASE k = n
    <3>1. i # n /\ i < n
      BY <1>2, <1>9, <2>3
    <3>2. ~Newer(e, l[old(i)]) /\ t[i] = l[old(i)] /\ old(i) \in DOMAIN l
      BY <1>1, <1>4, <1>7, <3>1
    <3>3. QED
      BY <1>3, <1>4, <2>3, <3>2 DEF Newer
  <2>4. QED
    BY <2>1, <2>2, <2>3
<1>10. QED
  BY <1>2, <1>4, <1>8, <1>9 DEF Sorted

-----------------------------------------------------------------------------
(* The list of a folder.                                                     *)

\* Of each message at most one row in a folder.
RowsDiffer == \A r, q \in rows : r.id = q.id \/ (r.folder = q.folder /\ r.mail = q.mail) => r = q

EntryOf(r) == [id |-> r.id, mail |-> r.mail, flags |-> r.flags]

LEMMA StoredIs ==
  ASSUME rows \subseteq Row, NEW f
  PROVE  /\ Stored(f) \subseteq Entry
         /\ \A r \in rows : r.folder = f => EntryOf(r) \in Stored(f)
         /\ \A e \in Stored(f) : \E r \in rows : r.folder = f /\ e = EntryOf(r)
BY DEF Stored, Row, Entry, EntryOf

\* Sets of entries of which no two are of one message.
Above(S, e) == {o \in S : Newer(o, e)}
OneEach(S) == /\ \A e \in S : e.mail \in Mail
              /\ \A e, o \in S : e.mail = o.mail => e = o

LEMMA OneEachFinite ==
  ASSUME NEW S, OneEach(S)
  PROVE  IsFiniteSet(S)
<1> DEFINE g == [e \in S |-> e.mail]
<1>1. g \in Injection(S, Mail)
  BY DEF Injection, IsInjective, OneEach
<1>2. QED
  BY <1>1, FS_Injection, SnapshotAssumption

LEMMA RanksDiffer ==
  ASSUME NEW S, OneEach(S), NEW e \in S, NEW o \in S, Newer(e, o)
  PROVE  /\ Cardinality(Above(S, e)) \in Nat /\ Cardinality(Above(S, o)) \in Nat
         /\ Cardinality(Above(S, e)) < Cardinality(Above(S, o))
<1>1. IsFiniteSet(Above(S, o)) /\ IsFiniteSet(Above(S, e))
  BY OneEachFinite, FS_Subset DEF Above
<1>2. Above(S, e) \in SUBSET Above(S, o) /\ e \in Above(S, o) /\ e \notin Above(S, e)
  <2>1. \A x \in S : x.mail \in Nat
    BY SnapshotAssumption DEF OneEach
  <2>2. QED
    BY <2>1 DEF Above, Newer
<1>3. /\ Cardinality(Above(S, e)) <= Cardinality(Above(S, o))
      /\ Cardinality(Above(S, o)) # Cardinality(Above(S, e))
  BY <1>1, <1>2, FS_Subset
<1>4. QED
  BY <1>1, <1>3, FS_CardinalityType

\* The ranks of the entries are 0, 1, and so on.
LEMMA RanksFill ==
  ASSUME NEW S, OneEach(S)
  PROVE  /\ Cardinality(S) \in Nat
         /\ \A e \in S : Cardinality(Above(S, e)) \in 0 .. Cardinality(S) - 1
         /\ \A n \in 1 .. Cardinality(S) : \E e \in S : Cardinality(Above(S, e)) = n - 1
         /\ \A e, o \in S : Cardinality(Above(S, e)) = Cardinality(Above(S, o)) => e = o
<1> DEFINE N == Cardinality(S)
           rank == [e \in S |-> Cardinality(Above(S, e))]
<1>1. IsFiniteSet(S) /\ N \in Nat
  BY OneEachFinite, FS_CardinalityType
<1>2. ASSUME NEW e \in S PROVE Cardinality(Above(S, e)) \in 0 .. N - 1
  <2>0. e.mail \in Nat
    BY SnapshotAssumption DEF OneEach
  <2>1. Above(S, e) \in SUBSET S /\ e \notin Above(S, e)
    BY <2>0 DEF Above, Newer
  <2>2. IsFiniteSet(Above(S, e)) /\ Cardinality(Above(S, e)) <= N /\ N # Cardinality(Above(S, e))
    <3>1. /\ IsFiniteSet(Above(S, e)) /\ Cardinality(Above(S, e)) <= Cardinality(S)
          /\ Cardinality(S) = Cardinality(Above(S, e)) => S = Above(S, e)
      BY <1>1, <2>1, FS_Subset
    <3>2. S # Above(S, e)
      BY <2>1
    <3>3. QED
      BY <3>1, <3>2
  <2>3. Cardinality(Above(S, e)) \in Nat
    BY <2>2, FS_CardinalityType
  <2> DEFINE c == Cardinality(Above(S, e))
  <2> HIDE DEF c, N
  <2>4. c \in Nat /\ c <= N /\ N # c
    BY <2>2, <2>3 DEF c
  <2>5. c \in 0 .. N - 1
    BY <1>1, <2>4
  <2>6. QED
    BY <2>5 DEF c
<1>3. ASSUME NEW e \in S, NEW o \in S, Cardinality(Above(S, e)) = Cardinality(Above(S, o)) PROVE e = o
  <2>1. e.mail \in Nat /\ o.mail \in Nat
    BY SnapshotAssumption DEF OneEach
  <2>2. ~Newer(e, o) /\ ~Newer(o, e)
    BY <1>3, RanksDiffer
  <2>3. QED
    BY <2>1, <2>2 DEF Newer, OneEach
<1>4. rank \in Injection(S, 0 .. N - 1)
  BY <1>2, <1>3 DEF Injection, IsInjective
<1>5. IsFiniteSet(0 .. N - 1) /\ Cardinality(0 .. N - 1) = N
  <2> HIDE DEF N
  <2>1. /\ IsFiniteSet(0 .. N - 1)
        /\ Cardinality(0 .. N - 1) = IF 0 > N - 1 THEN 0 ELSE (N - 1) - 0 + 1
    BY <1>1, FS_Interval
  <2>2. QED
    BY <1>1, <2>1
<1>6. rank \in Surjection(S, 0 .. N - 1)
  <2> HIDE DEF rank
  <2>1. QED
    BY <1>4, <1>5, FS_Injection
<1>7. \A n \in 1 .. N : \E e \in S : Cardinality(Above(S, e)) = n - 1
  <2> TAKE n \in 1 .. N
  <2>1. n - 1 \in 0 .. N - 1
    BY <1>1
  <2>2. \E e \in S : rank[e] = n - 1
    <3> HIDE DEF rank
    <3>1. QED
      BY <1>6, <2>1 DEF Surjection
  <2>3. QED
    BY <2>2
<1>8. QED
  BY <1>1, <1>2, <1>3, <1>7

\* What is in the list: of each stored message one entry, newest first.
LEMMA ListedIs ==
  ASSUME rows \subseteq Row, RowsDiffer, NEW f
  PROVE  /\ Listed(f) \in Seq(Entry)
         /\ OneEach(Stored(f)) /\ DOMAIN Listed(f) = 1 .. Cardinality(Stored(f))
         /\ \A n \in DOMAIN Listed(f) :
              Listed(f)[n] \in Stored(f) /\ Cardinality(Above(Stored(f), Listed(f)[n])) = n - 1
         /\ \A n, k \in DOMAIN Listed(f) : n < k => Newer(Listed(f)[n], Listed(f)[k])
         /\ \A e \in Stored(f) : \E n \in DOMAIN Listed(f) : Listed(f)[n] = e
<1> DEFINE S == Stored(f)
           N == Cardinality(S)
           l == Listed(f)
<1>1. S \subseteq Entry
  BY StoredIs
<1>2. OneEach(S)
  <2>1. \A e \in S : e.mail \in Mail
    BY <1>1 DEF Entry
  <2>2. ASSUME NEW e \in S, NEW o \in S, e.mail = o.mail PROVE e = o
    <3>1. PICK r \in rows : r.folder = f /\ e = EntryOf(r)
      BY StoredIs
    <3>2. PICK q \in rows : q.folder = f /\ o = EntryOf(q)
      BY StoredIs
    <3>3. r.mail = q.mail
      BY <2>2, <3>1, <3>2 DEF EntryOf
    <3>4. QED
      BY <3>1, <3>2, <3>3 DEF RowsDiffer
  <2>3. QED
    BY <2>1, <2>2 DEF OneEach
<1>3. /\ N \in Nat
      /\ \A e \in S : Cardinality(Above(S, e)) \in 0 .. N - 1
      /\ \A n \in 1 .. N : \E e \in S : Cardinality(Above(S, e)) = n - 1
      /\ \A e, o \in S : Cardinality(Above(S, e)) = Cardinality(Above(S, o)) => e = o
  BY <1>2, RanksFill
<1>4. l = [n \in 1 .. N |-> CHOOSE e \in S : Cardinality(Above(S, e)) = n - 1]
  BY DEF Listed, Above
<1>5. DOMAIN l = 1 .. N /\ \A n \in 1 .. N : l[n] = CHOOSE e \in S : Cardinality(Above(S, e)) = n - 1
  BY <1>4
<1> HIDE DEF l, N, S
<1>6. \A n \in 1 .. N : l[n] \in S /\ Cardinality(Above(S, l[n])) = n - 1
  BY <1>3, <1>5
<1>7. l \in Seq(Entry)
  <2>1. l = [n \in 1 .. N |-> l[n]] /\ \A n \in 1 .. N : l[n] \in Entry
    BY <1>1, <1>4, <1>5, <1>6
  <2>2. l \in [1 .. N -> Entry]
    BY <2>1
  <2>3. QED
    BY <1>3, <2>2, SeqDef
<1>8. ASSUME NEW n \in 1 .. N, NEW k \in 1 .. N, n < k PROVE Newer(l[n], l[k])
  <2>1. l[n] \in S /\ l[k] \in S /\ Cardinality(Above(S, l[n])) = n - 1 /\ Cardinality(Above(S, l[k])) = k - 1
    BY <1>6
  <2>2. l[n] # l[k]
    BY <1>3, <1>8, <2>1
  <2>3. ~Newer(l[k], l[n])
    <3>1. ASSUME Newer(l[k], l[n]) PROVE FALSE
      <4>1. Cardinality(Above(S, l[k])) < Cardinality(Above(S, l[n]))
        BY <1>2, <2>1, <3>1, RanksDiffer
      <4>2. k - 1 < n - 1
        BY <2>1, <4>1
      <4>3. QED
        BY <1>3, <1>8, <4>2
    <3>2. QED
      BY <3>1
  <2>4. l[n].mail \in Nat /\ l[k].mail \in Nat /\ l[n].mail # l[k].mail
    BY <1>2, <2>1, <2>2, SnapshotAssumption DEF OneEach
  <2>5. QED
    BY <2>3, <2>4 DEF Newer
<1>9. ASSUME NEW e \in S PROVE \E n \in 1 .. N : l[n] = e
  <2> DEFINE c == Cardinality(Above(S, e))
  <2>1. c \in 0 .. N - 1
    BY <1>3
  <2> HIDE DEF c
  <2>2. c + 1 \in 1 .. N /\ (c + 1) - 1 = c
    BY <1>3, <2>1
  <2>3. l[c + 1] \in S /\ Cardinality(Above(S, l[c + 1])) = c
    BY <1>6, <2>2
  <2>4. l[c + 1] = e
    BY <1>3, <2>3 DEF c
  <2>5. QED
    BY <2>2, <2>4
<1>10. QED
  BY <1>2, <1>5, <1>6, <1>7, <1>8, <1>9 DEF l, N, S

\* A list with the same entries in the same order is that list.
LEMMA SameList ==
  ASSUME rows \subseteq Row, RowsDiffer, NEW f, NEW l \in Seq(Entry),
         \A n \in DOMAIN l : l[n] \in Stored(f),
         \A e \in Stored(f) : \E n \in DOMAIN l : l[n] = e,
         \A n, k \in DOMAIN l : n < k => Newer(l[n], l[k])
  PROVE  l = Listed(f)
<1> DEFINE S == Stored(f)
           M == Listed(f)
<1>1. /\ M \in Seq(Entry) /\ OneEach(S)
      /\ DOMAIN M = 1 .. Cardinality(S)
      /\ \A n \in DOMAIN M : M[n] \in S /\ Cardinality(Above(S, M[n])) = n - 1
  BY ListedIs
<1>2. /\ Len(l) \in Nat /\ DOMAIN l = 1 .. Len(l)
      /\ \A n \in 1 .. Len(l) : l[n] \in Entry /\ l[n].mail \in Nat
  <2>1. \A e \in Entry : e.mail \in Nat
    BY SnapshotAssumption DEF Entry
  <2>2. QED
    BY <2>1, LenProperties, ElementOfSeq
<1> HIDE DEF S, M
<1>3. /\ \A n \in 1 .. Len(l) : l[n] \in S
      /\ \A e \in S : \E n \in 1 .. Len(l) : l[n] = e
      /\ \A n, k \in 1 .. Len(l) : n < k => Newer(l[n], l[k])
  BY <1>2 DEF S
<1>4. \A n, k \in 1 .. Len(l) : l[n] = l[k] => n = k
  <2> SUFFICES ASSUME NEW n \in 1 .. Len(l), NEW k \in 1 .. Len(l), l[n] = l[k] PROVE n = k
    OBVIOUS
  <2>1. ~(n < k) /\ ~(k < n)
    BY <1>2, <1>3 DEF Newer
  <2>2. QED
    BY <1>2, <2>1
<1> DEFINE First(n) == {l[k] : k \in 1 .. n}
<1>5. ASSUME NEW n \in 0 .. Len(l) PROVE Cardinality(First(n)) = n
  <2> DEFINE T == First(n)
             g == [k \in 1 .. n |-> l[k]]
  <2>1. \A k \in 1 .. n : k \in 1 .. Len(l)
    BY <1>2
  <2>2. g \in Bijection(1 .. n, T)
    BY <1>4, <2>1 DEF Bijection, Injection, Surjection, IsInjective
  <2> HIDE DEF g, T
  <2>3. ExistsBijection(1 .. n, T)
    BY <2>2 DEF ExistsBijection
  <2>4. n \in Nat
    BY <1>2
  <2>5. Cardinality(T) = n
    BY <2>3, <2>4, FS_CountingElements
  <2>6. QED
    BY <2>5 DEF T
<1>6. Cardinality(S) = Len(l)
  <2>1. S = First(Len(l))
    BY <1>3
  <2>2. Len(l) \in 0 .. Len(l)
    BY <1>2
  <2> HIDE DEF First
  <2>3. QED
    BY <1>5, <2>1, <2>2
<1>7. ASSUME NEW n \in 1 .. Len(l) PROVE l[n] = M[n]
  <2>1. Above(S, l[n]) = First(n - 1)
    <3>1. ASSUME NEW e \in S, Newer(e, l[n]) PROVE \E k \in 1 .. n - 1 : e = l[k]
      <4>1. PICK k \in 1 .. Len(l) : l[k] = e
        BY <1>3
      <4>2. ~(n < k) /\ n # k
        BY <1>2, <1>3, <3>1, <4>1 DEF Newer
      <4>3. k \in 1 .. n - 1
        BY <1>2, <4>2
      <4>4. QED
        BY <4>1, <4>3
    <3>2. ASSUME NEW k \in 1 .. n - 1 PROVE l[k] \in S /\ Newer(l[k], l[n])
      BY <1>2, <1>3
    <3>3. QED
      BY <3>1, <3>2 DEF Above
  <2>2. n - 1 \in 0 .. Len(l)
    BY <1>2
  <2> HIDE DEF First
  <2>3. Cardinality(Above(S, l[n])) = n - 1
    BY <1>5, <2>1, <2>2
  <2>4. n \in DOMAIN M /\ M[n] \in S /\ Cardinality(Above(S, M[n])) = n - 1
    BY <1>1, <1>6
  <2>5. QED
    BY <1>1, <1>3, <2>3, <2>4, RanksFill
<1>8. Len(M) = Len(l)
  <2>1. DOMAIN M = 1 .. Len(M) /\ Len(M) \in Nat
    BY <1>1, LenProperties
  <2>2. QED
    BY <1>1, <1>2, <1>6, <2>1
<1>9. QED
  <2>1. l \in Seq(Entry) /\ M \in Seq(Entry) /\ Len(l) = Len(M) /\ \A n \in 1 .. Len(l) : l[n] = M[n]
    BY <1>1, <1>7, <1>8
  <2>2. l = M
    BY <2>1, SeqEqual
  <2>3. QED
    BY <2>2 DEF M

-----------------------------------------------------------------------------
(* Events.                                                                   *)

FlagsIn(q, i) == {n \in DOMAIN q : q[n].op = "flags" /\ q[n].id = i}
ListIn(q, f)  == \E n \in DOMAIN q : q[n].op = "list" /\ q[n].folder = f

\* The last word on the flags of i, if there is one, is flags.
LastIn(q, i, flags) ==
  \A n \in FlagsIn(q, i) : (\A k \in FlagsIn(q, i) : k <= n) => q[n].flags = flags

LEMMA AnEvent ==
  ASSUME NEW e \in Event
  PROVE  /\ e.op \in {"list", "flags", "fetched"}
         /\ e.op = "list" => e.folder \in Folders
         /\ e.op = "flags" => e.id \in Ids /\ e.flags \in SUBSET Flags
         /\ e.op = "fetched" => e.id \in Ids
BY DEF Event

LEMMA PostedIs ==
  ASSUME events \in Seq(Event), NEW e \in Event, Post(e)
  PROVE  /\ events' \in Seq(Event)
         /\ DOMAIN events = 1 .. Len(events) /\ DOMAIN events' = 1 .. Len(events) + 1
         /\ Len(events) \in Nat
         /\ \A n \in 1 .. Len(events) : events'[n] = events[n]
         /\ events'[Len(events) + 1] = e
<1>1. events' = Append(events, e)
  BY DEF Post
<1>2. /\ events' \in Seq(Event) /\ Len(events') = Len(events) + 1
      /\ \A n \in 1 .. Len(events) : events'[n] = events[n]
      /\ events'[Len(events) + 1] = e
  BY <1>1, AppendProperties
<1>3. QED
  BY <1>2, LenProperties

LEMMA PostedMeans ==
  ASSUME events \in Seq(Event), NEW e \in Event, Post(e)
  PROVE  /\ \A f : ListIn(events', f) <=> ListIn(events, f) \/ (e.op = "list" /\ e.folder = f)
         /\ \A i : ~(e.op = "flags" /\ e.id = i) =>
              /\ FlagsIn(events', i) = FlagsIn(events, i)
              /\ \A flags : LastIn(events, i, flags) => LastIn(events', i, flags)
         /\ e.op = "flags" => FlagsIn(events', e.id) # {} /\ LastIn(events', e.id, e.flags)
<1> DEFINE N == Len(events)
<1>1. /\ DOMAIN events = 1 .. N /\ DOMAIN events' = 1 .. N + 1
      /\ N \in Nat
      /\ \A n \in 1 .. N : events'[n] = events[n]
      /\ events'[N + 1] = e
  BY PostedIs
<1> HIDE DEF N
<1>2. \A f : ListIn(events', f) <=> ListIn(events, f) \/ (e.op = "list" /\ e.folder = f)
  BY <1>1 DEF ListIn
<1>3. ASSUME NEW i, ~(e.op = "flags" /\ e.id = i)
      PROVE  /\ FlagsIn(events', i) = FlagsIn(events, i)
             /\ \A flags : LastIn(events, i, flags) => LastIn(events', i, flags)
  <2>1. FlagsIn(events', i) = FlagsIn(events, i)
    BY <1>1, <1>3 DEF FlagsIn
  <2>2. \A n \in FlagsIn(events, i) : events'[n] = events[n]
    BY <1>1 DEF FlagsIn
  <2>3. QED
    BY <2>1, <2>2 DEF LastIn
<1>4. ASSUME e.op = "flags" PROVE FlagsIn(events', e.id) # {} /\ LastIn(events', e.id, e.flags)
  <2>1. N + 1 \in FlagsIn(events', e.id)
    BY <1>1, <1>4 DEF FlagsIn
  <2>2. \A n \in FlagsIn(events', e.id) : n \in 1 .. N + 1
    BY <1>1 DEF FlagsIn
  <2>3. \A n \in FlagsIn(events', e.id) : (\A k \in FlagsIn(events', e.id) : k <= n) => n = N + 1
    BY <1>1, <2>1, <2>2
  <2>4. QED
    BY <1>1, <2>1, <2>3 DEF LastIn
<1>5. QED
  BY <1>2, <1>3, <1>4

LEMMA TakenMeans ==
  ASSUME events \in Seq(Event), events # <<>>, events' = Tail(events)
  PROVE  /\ events' \in Seq(Event) /\ Head(events) \in Event
         /\ \A f : ListIn(events, f) =>
              ListIn(events', f) \/ (Head(events).op = "list" /\ Head(events).folder = f)
         /\ \A i : FlagsIn(events, i) # {} =>
              FlagsIn(events', i) # {} \/ (Head(events).op = "flags" /\ Head(events).id = i)
         /\ \A i, flags : LastIn(events, i, flags) => LastIn(events', i, flags)
         /\ \A i, flags : LastIn(events, i, flags) /\ FlagsIn(events', i) = {}
              /\ Head(events).op = "flags" /\ Head(events).id = i => Head(events).flags = flags
         /\ \A n \in DOMAIN events' : n + 1 \in DOMAIN events /\ events'[n] = events[n + 1]
<1> DEFINE N == Len(events)
<1>1. /\ DOMAIN events = 1 .. N /\ DOMAIN events' = 1 .. N - 1
      /\ N \in Nat /\ N > 0
      /\ \A n \in 1 .. N - 1 : events'[n] = events[n + 1]
      /\ Head(events) = events[1]
      /\ events' \in Seq(Event) /\ Head(events) \in Event
  <2>1. DOMAIN events = 1 .. N /\ N \in Nat /\ N > 0
    BY LenProperties, EmptySeq
  <2>2. /\ Head(events) \in Event
        /\ events' \in Seq(Event)
        /\ Len(events') = N - 1
        /\ \A n \in 1 .. Len(events') : events'[n] = events[n + 1]
    BY HeadTailProperties
  <2>3. DOMAIN events' = 1 .. N - 1
    BY <2>2, LenProperties
  <2>4. Head(events) = events[1]
    OBVIOUS
  <2>5. QED
    BY <2>1, <2>2, <2>3, <2>4
<1> HIDE DEF N
<1> DEFINE h == Head(events)
<1>2. h = events[1]
  BY <1>1
<1> HIDE DEF h
<1>3. \A n \in 1 .. N : n = 1 \/ (n - 1 \in 1 .. N - 1 /\ (n - 1) + 1 = n)
  BY <1>1
<1>4. \A n \in 1 .. N - 1 : n + 1 \in 1 .. N
  BY <1>1
<1>5. \A f : ListIn(events, f) => ListIn(events', f) \/ (h.op = "list" /\ h.folder = f)
  <2> TAKE f
  <2> HAVE ListIn(events, f)
  <2>1. PICK n \in 1 .. N : events[n].op = "list" /\ events[n].folder = f
    BY <1>1 DEF ListIn
  <2>2. CASE n = 1
    BY <1>2, <2>1, <2>2
  <2>3. CASE n - 1 \in 1 .. N - 1 /\ (n - 1) + 1 = n
    BY <1>1, <2>1, <2>3 DEF ListIn
  <2>4. QED
    BY <1>3, <2>2, <2>3
<1>6. \A i : \A n \in FlagsIn(events, i) : n \in 1 .. N /\ (n = 1 \/ n - 1 \in FlagsIn(events', i))
  <2> TAKE i
  <2> TAKE n \in FlagsIn(events, i)
  <2>1. n \in 1 .. N /\ events[n].op = "flags" /\ events[n].id = i
    BY <1>1 DEF FlagsIn
  <2>2. CASE n - 1 \in 1 .. N - 1 /\ (n - 1) + 1 = n
    BY <1>1, <2>1, <2>2 DEF FlagsIn
  <2>3. QED
    BY <1>3, <2>1, <2>2
<1>7. \A i : FlagsIn(events, i) # {} => FlagsIn(events', i) # {} \/ (h.op = "flags" /\ h.id = i)
  <2> TAKE i
  <2> HAVE FlagsIn(events, i) # {}
  <2>1. PICK n \in FlagsIn(events, i) : TRUE
    OBVIOUS
  <2>2. CASE n = 1
    BY <1>2, <2>1, <2>2 DEF FlagsIn
  <2>3. QED
    BY <1>6, <2>1, <2>2
<1>8. \A i : \A n \in FlagsIn(events', i) : n \in 1 .. N - 1 /\ n + 1 \in FlagsIn(events, i)
  BY <1>1, <1>4 DEF FlagsIn
<1>9. ASSUME NEW i, NEW flags, LastIn(events, i, flags) PROVE LastIn(events', i, flags)
  <2> SUFFICES ASSUME NEW n \in FlagsIn(events', i), \A k \in FlagsIn(events', i) : k <= n
               PROVE  events'[n].flags = flags
    BY DEF LastIn
  <2>1. n + 1 \in FlagsIn(events, i) /\ n \in 1 .. N - 1
    BY <1>8
  <2>2. ASSUME NEW k \in FlagsIn(events, i) PROVE k <= n + 1
    <3>1. k \in 1 .. N
      BY <1>6
    <3>2. CASE k = 1
      BY <1>1, <2>1, <3>2
    <3>3. CASE k - 1 \in FlagsIn(events', i)
      <4>1. k - 1 <= n
        BY <3>3
      <4>2. QED
        BY <1>1, <2>1, <3>1, <4>1
    <3>4. QED
      BY <1>6, <3>2, <3>3
  <2>3. events[n + 1].flags = flags
    BY <1>9, <2>1, <2>2 DEF LastIn
  <2>4. QED
    BY <1>1, <2>1, <2>3
<1>10. ASSUME NEW i, NEW flags, LastIn(events, i, flags), FlagsIn(events', i) = {}, h.op = "flags", h.id = i
       PROVE  h.flags = flags
  <2>1. 1 \in FlagsIn(events, i)
    BY <1>1, <1>2, <1>10 DEF FlagsIn
  <2>2. \A k \in FlagsIn(events, i) : k = 1
    BY <1>6, <1>10
  <2>3. events[1].flags = flags
    BY <1>10, <2>1, <2>2 DEF LastIn
  <2>4. QED
    BY <1>2, <2>3
<1>11. \A n \in DOMAIN events' : n + 1 \in DOMAIN events /\ events'[n] = events[n + 1]
  BY <1>1, <1>4
<1>12. QED
  BY <1>1, <1>5, <1>7, <1>9, <1>10, <1>11 DEF h

-----------------------------------------------------------------------------
(* What a change to the lists leaves alone.                                  *)

\* The entries of t that are not of id i are those of l.
KeepsOthers(l, t, i) ==
  /\ \A k \in DOMAIN t : t[k].id # i => \E j \in DOMAIN l : t[k] = l[j]
  /\ \A j : j # i /\ Once(l, j) => Once(t, j)

NamedIn(l, i, m) == \E n \in DOMAIN l : l[n].id = i /\ l[n].mail = m

\* A list as Reflagged has it.
Reflag(l, i, new) ==
  [n \in DOMAIN l |-> IF n \in Position(l, i) THEN [l[n] EXCEPT !.flags = new[@]] ELSE l[n]]

Reflags(l, t, i, new) ==
  /\ DOMAIN t = DOMAIN l
  /\ \A n \in DOMAIN l : t[n].id = l[n].id /\ t[n].mail = l[n].mail
  /\ \A n \in DOMAIN l : l[n].id # i => t[n] = l[n]
  /\ \A j : Once(l, j) => Once(t, j)
  /\ Once(l, i) => \A n \in DOMAIN l : l[n].id = i => t[n].flags = new[l[n].flags]
  /\ KeepsOthers(l, t, i)

LEMMA ReflagIs ==
  ASSUME NEW l \in Seq(Entry), NEW i, NEW new \in [SUBSET Flags -> SUBSET Flags]
  PROVE  /\ Reflag(l, i, new) \in Seq(Entry)
         /\ Reflags(l, Reflag(l, i, new), i, new)
         /\ Sorted(l) => Sorted(Reflag(l, i, new))
<1> DEFINE t == Reflag(l, i, new)
<1>1. Len(l) \in Nat /\ DOMAIN l = 1 .. Len(l) /\ \A n \in DOMAIN l : l[n] \in Entry
  BY LenProperties, ElementOfSeq
<1>2. t = [n \in DOMAIN l |->
             IF n \in Position(l, i) THEN [l[n] EXCEPT !.flags = new[l[n].flags]] ELSE l[n]]
  BY DEF Reflag
<1> HIDE DEF t
<1>3. ASSUME NEW n \in DOMAIN l
      PROVE  /\ t[n] \in Entry /\ t[n].id = l[n].id /\ t[n].mail = l[n].mail
             /\ n \in Position(l, i) => t[n].flags = new[l[n].flags]
             /\ n \notin Position(l, i) => t[n] = l[n]
  <2>1. CASE n \in Position(l, i)
    <3>1. t[n] = [l[n] EXCEPT !.flags = new[l[n].flags]]
      BY <1>2, <2>1
    <3>2. l[n] \in Entry
      BY <1>1
    <3>3. \A e \in Entry : \A g \in SUBSET Flags :
         /\ [e EXCEPT !.flags = g] \in Entry
         /\ [e EXCEPT !.flags = g].id = e.id /\ [e EXCEPT !.flags = g].mail = e.mail
         /\ [e EXCEPT !.flags = g].flags = g
      BY DEF Entry
    <3>4. new[l[n].flags] \in SUBSET Flags
      BY <3>2 DEF Entry
    <3> DEFINE e == l[n]
               g == new[l[n].flags]
    <3>5. t[n] = [e EXCEPT !.flags = g] /\ e \in Entry /\ g \in SUBSET Flags
      BY <3>1, <3>2, <3>4
    <3> HIDE DEF e, g
    <3>6. t[n] \in Entry /\ t[n].id = e.id /\ t[n].mail = e.mail /\ t[n].flags = g
      <4>1. /\ [e EXCEPT !.flags = g] \in Entry
         /\ [e EXCEPT !.flags = g].id = e.id /\ [e EXCEPT !.flags = g].mail = e.mail
         /\ [e EXCEPT !.flags = g].flags = g
        BY <3>3, <3>5, Zenon
      <4>2. QED
        BY <3>5, <4>1, Zenon
    <3>7. QED
      BY <2>1, <3>6 DEF e, g
  <2>2. CASE n \notin Position(l, i)
    BY <1>1, <1>2, <2>2
  <2>3. QED
    BY <2>1, <2>2
<1>4. DOMAIN t = DOMAIN l
  BY <1>2
<1>5. t \in Seq(Entry)
  <2>0. t = [n \in 1 .. Len(l) |-> t[n]]
    BY <1>1, <1>2
  <2>1. t \in [1 .. Len(l) -> Entry]
    BY <1>1, <1>3, <2>0
  <2> DEFINE N == Len(l)
  <2>2. N \in Nat /\ t \in [1 .. N -> Entry]
    BY <1>1, <2>1
  <2> HIDE DEF N
  <2>3. QED
    BY <2>2, SeqDef
<1>6. \A n \in DOMAIN l : l[n].id # i => t[n] = l[n]
  BY <1>3 DEF Position
<1>7. \A j : Once(l, j) => Once(t, j)
  BY <1>3, <1>4 DEF Once
<1>8. ASSUME Once(l, i), NEW n \in DOMAIN l, l[n].id = i PROVE t[n].flags = new[l[n].flags]
  <2>1. \A k \in DOMAIN l : l[k].id = i => k = n
    BY <1>8 DEF Once
  <2>2. \A k \in 1 .. n - 1 : k \in DOMAIN l /\ k # n
    BY <1>1
  <2>3. n \in Position(l, i)
    BY <1>8, <2>1, <2>2 DEF Position
  <2>4. QED
    BY <1>3, <2>3
<1>9. KeepsOthers(l, t, i)
  BY <1>3, <1>4, <1>6, <1>7 DEF KeepsOthers
<1>10. Sorted(l) => Sorted(t)
  BY <1>3, <1>4 DEF Sorted
<1>11. QED
  BY <1>3, <1>4, <1>5, <1>6, <1>7, <1>8, <1>9, <1>10 DEF t, Reflags

\* The moved entry leaves one list for another.
LEMMA MovedIs ==
  ASSUME view \in [Folders -> Seq(Entry)], \A f \in Folders : Sorted(view[f]),
         call.cmd.dest \in Folders, MoveShown
  PROVE  /\ view' \in [Folders -> Seq(Entry)]
         /\ \A f \in Folders :
              /\ Sorted(view'[f])
              /\ KeepsOthers(view[f], view'[f], call.cmd.id)
              /\ f # call.cmd.dest => \A k \in DOMAIN view'[f] : \E j \in DOMAIN view[f] : view'[f][k] = view[f][j]
              /\ \A k \in DOMAIN view'[f] :
                   \E g \in Folders : \E j \in DOMAIN view[g] : view'[f][k] = view[g][j]
<1> DEFINE i == call.cmd.id
           d == call.cmd.dest
<1>1. CASE UNCHANGED view
  BY <1>1 DEF KeepsOthers
<1>2. CASE \E f \in Folders : \E n \in Position(view[f], i) :
             LET rest == [view EXCEPT ![f] = RemoveAt(@, n)] IN
             \E l \in Insertions(rest[d], view[f][n]) : view' = [rest EXCEPT ![d] = l]
  <2>0. PICK g \in Folders : \E n \in Position(view[g], i) :
             LET rest == [view EXCEPT ![g] = RemoveAt(@, n)] IN
             \E l \in Insertions(rest[d], view[g][n]) : view' = [rest EXCEPT ![d] = l]
    BY <1>2
  <2>1. PICK n \in Position(view[g], i) :
             LET rest == [view EXCEPT ![g] = RemoveAt(@, n)] IN
             \E l \in Insertions(rest[d], view[g][n]) : view' = [rest EXCEPT ![d] = l]
    BY <2>0
  <2> DEFINE rest == [view EXCEPT ![g] = RemoveAt(@, n)]
             e == view[g][n]
  <2>2. PICK l \in Insertions(rest[d], e) : view' = [rest EXCEPT ![d] = l]
    BY <2>1
  <2>3. n \in DOMAIN view[g] /\ e.id = i /\ view[g] \in Seq(Entry) /\ e \in Entry
    <3>1. n \in DOMAIN view[g] /\ e.id = i /\ view[g] \in Seq(Entry)
      BY DEF Position
    <3>2. DOMAIN view[g] = 1 .. Len(view[g])
      BY <3>1, LenProperties
    <3>3. QED
      BY <3>1, <3>2, ElementOfSeq
  <2> DEFINE t == RemoveAt(view[g], n)
  <2>4. /\ t \in Seq(Entry)
        /\ \A k \in DOMAIN t : \E j \in DOMAIN view[g] : t[k] = view[g][j]
        /\ \A j : j # i /\ Once(view[g], j) => Once(t, j)
        /\ Sorted(t)
    BY <2>3, RemoveKeeps
  <2>5. /\ rest \in [Folders -> Seq(Entry)]
        /\ \A f \in Folders : rest[f] = IF f = g THEN t ELSE view[f]
    BY <2>4
  <2> HIDE DEF t, rest
  <2>6. /\ rest[d] \in Seq(Entry) /\ Sorted(rest[d])
        /\ \A k \in DOMAIN rest[d] : \E j \in DOMAIN view[d] : rest[d][k] = view[d][j]
        /\ \A j : j # i /\ Once(view[d], j) => Once(rest[d], j)
    BY <2>4, <2>5
  <2> HIDE DEF e
  <2>7. /\ l \in Seq(Entry)
        /\ \A k \in DOMAIN l : l[k] = e \/ \E j \in DOMAIN rest[d] : l[k] = rest[d][j]
        /\ \A j : j # e.id /\ Once(rest[d], j) => Once(l, j)
        /\ Sorted(l)
    BY <2>2, <2>3, <2>6, InsertKeeps, SnapshotAssumption
  <2>8. /\ view' \in [Folders -> Seq(Entry)]
        /\ \A f \in Folders : view'[f] = IF f = d THEN l ELSE rest[f]
    BY <2>2, <2>5, <2>7
  <2>9. e.id = i
    BY <2>3
  <2>10. ASSUME NEW f \in Folders, f = d
         PROVE  /\ Sorted(view'[f]) /\ KeepsOthers(view[f], view'[f], i)
                /\ \A k \in DOMAIN view'[f] : \E h \in Folders : \E j \in DOMAIN view[h] : view'[f][k] = view[h][j]
    <3>1. view'[f] = l
      BY <2>8, <2>10
    <3>2. \A k \in DOMAIN l : l[k] = e \/ \E j \in DOMAIN view[f] : l[k] = view[f][j]
      BY <2>6, <2>7, <2>10
    <3>3. \A j : j # i /\ Once(view[f], j) => Once(l, j)
      BY <2>6, <2>7, <2>9, <2>10
    <3>4. KeepsOthers(view[f], l, i)
      BY <2>9, <3>2, <3>3 DEF KeepsOthers
    <3>5. \A k \in DOMAIN l : \E h \in Folders : \E j \in DOMAIN view[h] : l[k] = view[h][j]
      BY <2>3, <3>2 DEF e
    <3>6. QED
      BY <2>7, <3>1, <3>4, <3>5
  <2>11. ASSUME NEW f \in Folders, f # d
         PROVE  /\ Sorted(view'[f]) /\ KeepsOthers(view[f], view'[f], i)
                /\ \A k \in DOMAIN view'[f] : \E j \in DOMAIN view[f] : view'[f][k] = view[f][j]
    <3>1. view'[f] = IF f = g THEN t ELSE view[f]
      BY <2>5, <2>8, <2>11
    <3>2. CASE f = g
      BY <2>4, <3>1, <3>2 DEF KeepsOthers
    <3>3. CASE f # g
      BY <3>1, <3>3 DEF KeepsOthers
    <3>4. QED
      BY <3>2, <3>3
  <2>12. QED
    BY <2>8, <2>10, <2>11
<1>3. QED
  BY <1>1, <1>2 DEF MoveShown

-----------------------------------------------------------------------------
(* What the rows, the lists and command_worker have to do with each other.   *)

\* The change of command_worker is at the server and not yet in the store.
Storing(op) == work.at = "store" /\ work.cmd.op = op
NotStoring  == work.at # "store" \/ work.cmd.op = "body"

\* Somewhere id i stands for message m.
Named(i, m) ==
  \/ \E r \in rows : r.id = i /\ r.mail = m
  \/ \E f \in Folders : NamedIn(view[f], i, m)
  \/ NamedIn(update.list, i, m)
  \/ work.row.id = i /\ work.row.mail = m

\* An id is of one message, wherever it is.
IdsMeanMail ==
  \A i \in Ids, m \in Mail : Named(i, m) => i <= lastId /\ \A k \in Mail : Named(i, k) => k = m

\* Commands and events are of ids that were given.
Lawful(c)    == IF c.op = "empty" THEN c.folder = Trash ELSE c.id <= lastId
AllLawful    == Lawful(call.cmd) /\ Lawful(work.cmd) /\ \A n \in DOMAIN commands : Lawful(commands[n])
EventsLawful == \A n \in DOMAIN events : events[n].op = "flags" => events[n].id <= lastId

ListsSorted == (\A f \in Folders : Sorted(view[f])) /\ Sorted(update.list)

\* Rows are as on the server, but for the change command_worker is storing.
RowsSound ==
  /\ \A r \in rows :
       \/ r.folder = server[r.mail].folder
       \/ Storing("move") /\ r.folder = work.row.folder /\ r.mail = work.row.mail
       \/ Storing("empty") /\ r.folder = Trash
  /\ \A r \in rows : r.flags = server[r.mail].flags \/ (Storing("flag") /\ r.id = work.cmd.id)

NewFlags == IF work.cmd.add THEN work.row.flags \cup {work.cmd.flag} ELSE work.row.flags \ {work.cmd.flag}

WorkSound ==
  /\ Storing("flag") \/ Storing("move") =>
       /\ work.row \in Row /\ work.row.id = work.cmd.id
       /\ \E r \in rows : r.id = work.row.id /\ r.folder = work.row.folder /\ r.mail = work.row.mail
  /\ Storing("flag") => server[work.row.mail].flags = NewFlags
  /\ Storing("empty") => \A m \in Mail : server[m].folder # Trash

ServerTyped == server \in [Mail -> [folder : Folders \cup {Nowhere}, flags : SUBSET Flags]]
ListsTyped  == /\ view \in [Folders -> Seq(Entry)]
               /\ update.list \in Seq(Entry) /\ update.folder \in Folders \cup {Nowhere}
OtherTyped  == /\ cache \subseteq Ids /\ inFlight \subseteq Ids
               /\ work.row \in Row \cup {NoRow} /\ amiss \in BOOLEAN

Base ==
  /\ FlightInv /\ ServerTyped /\ rows \subseteq Row /\ ListsTyped /\ OtherTyped
  /\ events \in Seq(Event)
  /\ AllLawful /\ EventsLawful /\ ListsSorted
  /\ IdsMeanMail /\ RowsDiffer /\ RowsSound /\ WorkSound

\* The same after a step, which gave other ids no other message.
NamesGrow == /\ lastId <= lastId'
             /\ \A i \in Ids, m \in Mail : Named(i, m)' => Named(i, m) \/ lastId < i
BaseGoes  == Base' /\ NamesGrow

LEMMA BaseTyped == Base => SnapshotTypeOK
BY DEF Base, FlightInv, CallIsFor, WorkIsFor, Steps, ServerTyped, ListsTyped, OtherTyped, SnapshotTypeOK

LEMMA ACommand ==
  ASSUME NEW c \in Command
  PROVE  /\ c.op \in {"body", "flag", "move", "empty"}
         /\ c.op # "empty" => c.id \in Ids
         /\ c.op = "flag" => c.flag \in Flags /\ c.add \in BOOLEAN
         /\ c.op = "move" => c.dest \in Folders
BY DEF Command

LEMMA IdleIs ==
  /\ Idle.at = "recv" /\ Idle.row = NoRow /\ NoRow.id = 0 /\ NoRow \in Row \cup {NoRow}
  /\ Lawful(Idle.cmd) /\ Lawful(NoCall.cmd)
  /\ NoCall.at = "none" /\ NoCall.cmd = EmptyTrash(Trash) /\ Idle.cmd = EmptyTrash(Trash)
  /\ NoUpdate.folder = Nowhere /\ NoUpdate.list = <<>>
BY DEF Idle, NoCall, NoRow, Lawful, EmptyTrash, NoUpdate

LEMMA WorkGoesIs ==
  ASSUME WorkIsFor, NEW s, work' = [work EXCEPT !.at = s]
  PROVE  work'.cmd = work.cmd /\ work'.row = work.row /\ work'.at = s
<1>1. work = [cmd |-> work.cmd, row |-> work.row, at |-> work.at]
  BY DEF WorkIsFor
<1>2. QED
  BY <1>1

\* The store is left alone, and what is being stored.
LEMMA BaseKept ==
  ASSUME Base, FlightInv', UNCHANGED <<server, rows, lastId>>,
         work' = work \/ (NotStoring /\ NotStoring'),
         ListsTyped', OtherTyped', events' \in Seq(Event),
         AllLawful', EventsLawful', ListsSorted',
         \A i \in Ids, m \in Mail : Named(i, m)' => Named(i, m)
  PROVE  BaseGoes
<1>1. IdsMeanMail'
  BY DEF Base, IdsMeanMail
<1>2. \A op \in {"flag", "move", "empty"} :
        (Storing(op)' <=> Storing(op)) /\ (Storing(op) => work' = work)
  BY DEF Storing, NotStoring
<1>3. RowsSound'
  <2>1. \A r \in rows :
       \/ r.folder = server'[r.mail].folder
       \/ Storing("move")' /\ r.folder = work'.row.folder /\ r.mail = work'.row.mail
       \/ Storing("empty")' /\ r.folder = Trash
    BY <1>2 DEF Base, RowsSound
  <2>2. \A r \in rows : r.flags = server'[r.mail].flags \/ (Storing("flag")' /\ r.id = work'.cmd.id)
    BY <1>2 DEF Base, RowsSound
  <2>3. QED
    BY <2>1, <2>2 DEF RowsSound
<1>4. WorkSound'
  <2>1. CASE work' = work
    BY <2>1 DEF Base, WorkSound, Storing, NewFlags
  <2>2. CASE NotStoring'
    BY <2>2 DEF WorkSound, Storing, NotStoring
  <2>3. QED
    BY <2>1, <2>2
<1>5. ServerTyped' /\ rows' \subseteq Row /\ RowsDiffer'
  BY DEF Base, ServerTyped, RowsDiffer
<1>6. NamesGrow
  BY DEF NamesGrow, Base, FlightInv
<1>7. QED
  BY <1>1, <1>3, <1>4, <1>5, <1>6 DEF Base, BaseGoes

-----------------------------------------------------------------------------

\* A step that leaves the lists and the rows alone.
LEMMA NamesKept ==
  ASSUME UNCHANGED <<rows, view, update>>, work' = work \/ work'.row = work.row \/ work'.row = NoRow
  PROVE  /\ \A i \in Ids, m \in Mail : Named(i, m)' => Named(i, m)
         /\ Base => ListsTyped' /\ ListsSorted'
<1>1. NoRow.id \notin Ids
  BY IdleIs DEF Ids
<1>2. \A i \in Ids, m \in Mail : Named(i, m)' => Named(i, m)
  BY <1>1 DEF Named
<1>3. QED
  BY <1>2 DEF Base, ListsTyped, ListsSorted

LEMMA BaseStutters ==
  ASSUME Base, UNCHANGED snapshotVars
  PROVE  BaseGoes
<1> USE DEF snapshotVars, storeVars, snapVars, chanVars, taskVars
<1>1. FlightInv' /\ AllLawful' /\ EventsLawful' /\ OtherTyped' /\ events' \in Seq(Event)
  <2>1. FlightInv'
    BY FlightWork DEF Base
  <2>2. QED
    BY <2>1 DEF Base, AllLawful, Lawful, EventsLawful, OtherTyped
<1>2. QED
  BY <1>1, NamesKept, BaseKept

LEMMA BaseReceive == Base /\ FlightInv' /\ Receive => BaseGoes
<1> SUFFICES ASSUME Base, FlightInv', Receive PROVE BaseGoes
  OBVIOUS
<1>1. /\ work.at = "recv" /\ commands \in Seq(Command) /\ commands # <<>> /\ commands' = Tail(commands)
      /\ work' = [cmd |-> Head(commands), row |-> NoRow, at |-> "server"]
      /\ UNCHANGED <<server, rows, lastId, view, cache, inFlight, events, update, amiss, call>>
  BY DEF Receive, storeVars, snapVars, Base, FlightInv
<1>2. /\ DOMAIN commands = 1 .. Len(commands) /\ Len(commands) \in Nat /\ Len(commands) > 0
      /\ DOMAIN commands' = 1 .. Len(commands) - 1
      /\ \A n \in 1 .. Len(commands) - 1 : commands'[n] = commands[n + 1]
      /\ Head(commands) = commands[1]
  BY <1>1
<1>3. AllLawful'
  <2>1. \A n \in DOMAIN commands : Lawful(commands[n])
    BY DEF Base, AllLawful
  <2>2. 1 \in DOMAIN commands /\ \A n \in DOMAIN commands' : n + 1 \in DOMAIN commands /\ commands'[n] = commands[n + 1]
    BY <1>2
  <2>3. \A n \in DOMAIN commands' : Lawful(commands'[n])
    BY <2>1, <2>2
  <2>4. Lawful(work'.cmd) /\ Lawful(call.cmd)
    BY <1>1, <1>2, <2>1, <2>2 DEF Base, AllLawful
  <2>5. QED
    BY <1>1, <2>3, <2>4 DEF AllLawful, Lawful
<1>4. NotStoring /\ NotStoring'
  BY <1>1 DEF NotStoring
<1>5. EventsLawful' /\ OtherTyped' /\ events' \in Seq(Event)
  BY <1>1, IdleIs DEF Base, EventsLawful, OtherTyped
<1>6. QED
  BY <1>1, <1>3, <1>4, <1>5, NamesKept, BaseKept

\* command_worker goes on, is idle again or nothing of it changes, and so for the events.
LEMMA BaseWork ==
  ASSUME Base, FlightInv', UNCHANGED <<server, rows, lastId, view, update, commands, call>>,
         \/ work' = work
         \/ NotStoring /\ \/ work' = Idle
                          \/ \E s \in {"put", "release"} : work' = [work EXCEPT !.at = s],
         cache' \subseteq Ids, inFlight' \subseteq Ids, amiss' \in BOOLEAN,
         events' \in Seq(Event), EventsLawful'
  PROVE  BaseGoes
<1>1. \/ work' = work
      \/ /\ NotStoring /\ NotStoring' /\ Lawful(work'.cmd)
         /\ work'.row = work.row \/ work'.row = NoRow
  <2>1. CASE work' = Idle
    BY <2>1, IdleIs DEF NotStoring
  <2>2. ASSUME NEW s \in {"put", "release"}, work' = [work EXCEPT !.at = s], NotStoring
        PROVE  NotStoring' /\ Lawful(work'.cmd) /\ work'.row = work.row
    <3>1. work'.cmd = work.cmd /\ work'.row = work.row /\ work'.at = s
      BY <2>2, WorkGoesIs DEF Base, FlightInv
    <3>2. QED
      BY <2>2, <3>1 DEF NotStoring, Base, AllLawful
  <2>3. QED
    BY <2>1, <2>2
<1>2. AllLawful'
  BY <1>1 DEF Base, AllLawful, Lawful
<1>3. OtherTyped'
  BY <1>1, IdleIs DEF Base, OtherTyped
<1>4. work' = work \/ (NotStoring /\ NotStoring')
  BY <1>1
<1>5. work' = work \/ work'.row = work.row \/ work'.row = NoRow
  BY <1>1
<1>6. QED
  BY <1>2, <1>3, <1>4, <1>5, NamesKept, BaseKept

LEMMA BaseCommandFails == Base /\ FlightInv' /\ CommandFails => BaseGoes
<1> SUFFICES ASSUME Base, FlightInv', CommandFails PROVE BaseGoes
  OBVIOUS
<1>1. /\ work.at = "server"
      /\ work' = Idle \/ \E s \in {"put", "release"} : work' = [work EXCEPT !.at = s]
      /\ amiss' \in BOOLEAN
      /\ UNCHANGED <<server, rows, lastId, view, update, commands, call, cache, inFlight, events>>
  BY DEF CommandFails, WorkerGoes, storeVars, snapVars, chanVars, Base, OtherTyped
<1>2. NotStoring
  BY <1>1 DEF NotStoring
<1>3. EventsLawful' /\ events' \in Seq(Event) /\ cache' \subseteq Ids /\ inFlight' \subseteq Ids
  BY <1>1 DEF Base, EventsLawful, OtherTyped
<1>4. QED
  BY <1>1, <1>2, <1>3, BaseWork

LEMMA BaseStoreBody == Base /\ FlightInv' /\ StoreBody => BaseGoes
<1> SUFFICES ASSUME Base, FlightInv', StoreBody PROVE BaseGoes
  OBVIOUS
<1> DEFINE e == [op |-> "fetched", id |-> work.cmd.id]
<1>1. /\ work.at = "store" /\ work.cmd.op = "body" /\ Post(e)
      /\ work' = [work EXCEPT !.at = "put"]
      /\ UNCHANGED <<server, rows, lastId, view, update, commands, call, cache, inFlight, amiss>>
  BY DEF StoreBody, WorkerGoes, storeVars, snapVars, chanVars
<1>2. e \in Event
  <2>1. work.cmd.id \in Ids
    BY <1>1, ACommand DEF Base, FlightInv, WorkIsFor
  <2>2. QED
    BY <2>1 DEF Event
<1>3. events' \in Seq(Event) /\ EventsLawful'
  <2>1. /\ events' \in Seq(Event)
        /\ DOMAIN events = 1 .. Len(events) /\ DOMAIN events' = 1 .. Len(events) + 1
        /\ Len(events) \in Nat
        /\ \A n \in 1 .. Len(events) : events'[n] = events[n]
        /\ events'[Len(events) + 1] = e
    BY <1>1, <1>2, PostedIs DEF Base
  <2>2. \A n \in DOMAIN events' : n \in DOMAIN events \/ events'[n].op # "flags"
    BY <2>1
  <2>3. QED
    BY <1>1, <2>1, <2>2 DEF Base, EventsLawful
<1>4. NotStoring
  BY <1>1 DEF NotStoring
<1>5. cache' \subseteq Ids /\ inFlight' \subseteq Ids /\ amiss' \in BOOLEAN
  BY <1>1 DEF Base, OtherTyped
<1>6. QED
  BY <1>1, <1>3, <1>4, <1>5, BaseWork

LEMMA BasePutRelease == Base /\ FlightInv' /\ (PutBody \/ Release) => BaseGoes
<1> SUFFICES ASSUME Base, FlightInv', PutBody \/ Release PROVE BaseGoes
  OBVIOUS
<1>1. /\ work.at \in {"put", "release"}
      /\ work' = Idle \/ \E s \in {"put", "release"} : work' = [work EXCEPT !.at = s]
      /\ cache' \subseteq cache \cup {work.cmd.id} /\ inFlight' \subseteq inFlight
      /\ UNCHANGED <<server, rows, lastId, view, update, commands, call, events, amiss>>
  BY DEF PutBody, Release, WorkerGoes, storeVars, snapVars, chanVars
<1>2. work.cmd.id \in Ids
  BY <1>1, ACommand DEF Base, FlightInv, WorkIsFor
<1>3. NotStoring
  BY <1>1 DEF NotStoring
<1>4. cache' \subseteq Ids /\ inFlight' \subseteq Ids /\ amiss' \in BOOLEAN /\ events' \in Seq(Event)
  BY <1>1, <1>2 DEF Base, OtherTyped
<1>5. EventsLawful'
  BY <1>1 DEF Base, EventsLawful
<1>6. QED
  BY <1>1, <1>3, <1>4, <1>5, BaseWork

LEMMA TakenLawful ==
  ASSUME Base, events # <<>>, events' = Tail(events), UNCHANGED lastId
  PROVE  events' \in Seq(Event) /\ EventsLawful' /\ Head(events) \in Event
<1>1. /\ events' \in Seq(Event) /\ Head(events) \in Event
      /\ \A n \in DOMAIN events' : n + 1 \in DOMAIN events /\ events'[n] = events[n + 1]
  BY TakenMeans DEF Base
<1>2. \A n \in DOMAIN events' : events'[n].op = "flags" => events'[n].id <= lastId
  BY <1>1 DEF Base, EventsLawful
<1>3. QED
  BY <1>1, <1>2 DEF EventsLawful

LEMMA BaseCacheFetched == Base /\ FlightInv' /\ CacheFetched => BaseGoes
<1> SUFFICES ASSUME Base, FlightInv', CacheFetched PROVE BaseGoes
  OBVIOUS
<1>1. /\ events # <<>> /\ events' = Tail(events)
      /\ cache' = cache \cup {r.id : r \in {q \in rows : q.id = Head(events).id}}
      /\ UNCHANGED <<server, rows, lastId, view, update, commands, call, inFlight, work, amiss>>
  BY DEF CacheFetched, storeVars, chanVars
<1>2. \A r \in rows : r.id \in Ids
  BY DEF Base, Row
<1>3. cache' \subseteq Ids /\ inFlight' \subseteq Ids /\ amiss' \in BOOLEAN
  BY <1>1, <1>2 DEF Base, OtherTyped
<1>4. events' \in Seq(Event) /\ EventsLawful'
  BY <1>1, TakenLawful
<1>5. QED
  BY <1>1, <1>3, <1>4, BaseWork

\* The lists change, and besides them at most what the TUI asks for.
LEMMA BaseLists ==
  ASSUME Base, FlightInv', UNCHANGED <<server, rows, lastId, cache, work, amiss>>,
         inFlight' \subseteq Ids, AllLawful', events' \in Seq(Event), EventsLawful',
         ListsTyped', ListsSorted',
         \A f \in Folders, i \in Ids, m \in Mail : NamedIn(view[f], i, m)' => Named(i, m),
         \A i \in Ids, m \in Mail : NamedIn(update.list, i, m)' => Named(i, m)
  PROVE  BaseGoes
<1>1. \A i \in Ids, m \in Mail : Named(i, m)' => Named(i, m)
  BY DEF Named
<1>2. OtherTyped'
  BY DEF Base, OtherTyped
<1>3. QED
  BY <1>1, <1>2, BaseKept

LEMMA ListedSorted ==
  ASSUME rows \subseteq Row, RowsDiffer, NEW f
  PROVE  /\ Listed(f) \in Seq(Entry) /\ Sorted(Listed(f))
         /\ \A n \in DOMAIN Listed(f) : \E r \in rows : r.folder = f /\ Listed(f)[n] = EntryOf(r)
         /\ \A r \in rows : r.folder = f => \E n \in DOMAIN Listed(f) : Listed(f)[n] = EntryOf(r)
<1>1. /\ Listed(f) \in Seq(Entry)
      /\ \A n \in DOMAIN Listed(f) : Listed(f)[n] \in Stored(f)
      /\ \A n, k \in DOMAIN Listed(f) : n < k => Newer(Listed(f)[n], Listed(f)[k])
      /\ \A e \in Stored(f) : \E n \in DOMAIN Listed(f) : Listed(f)[n] = e
  BY ListedIs
<1>2. \A n \in DOMAIN Listed(f) : Listed(f)[n].mail \in Nat
  <2>1. \A e \in Stored(f) : e.mail \in Nat
    <3>1. \A e \in Entry : e.mail \in Nat
      BY SnapshotAssumption DEF Entry
    <3>2. QED
      BY <3>1, StoredIs
  <2>2. QED
    BY <1>1, <2>1
<1>3. Sorted(Listed(f))
  BY <1>1, <1>2 DEF Sorted, Newer
<1>4. QED
  BY <1>1, <1>3, StoredIs

LEMMA BaseReadFolder == Base /\ FlightInv' /\ ReadFolder => BaseGoes
<1> SUFFICES ASSUME Base, FlightInv', ReadFolder PROVE BaseGoes
  OBVIOUS
<1> DEFINE f == Head(events).folder
<1>1. /\ events # <<>> /\ events' = Tail(events) /\ Head(events).op = "list"
      /\ update' = [folder |-> f, list |-> Listed(f)]
      /\ UNCHANGED <<server, rows, lastId, view, cache, commands, call, inFlight, work, amiss>>
  BY DEF ReadFolder, storeVars, snapVars, chanVars
<1>2. events' \in Seq(Event) /\ EventsLawful' /\ Head(events) \in Event
  BY <1>1, TakenLawful
<1>3. f \in Folders
  BY <1>1, <1>2, AnEvent
<1>4. /\ Listed(f) \in Seq(Entry) /\ Sorted(Listed(f))
      /\ \A n \in DOMAIN Listed(f) : \E r \in rows : Listed(f)[n] = EntryOf(r)
  BY ListedSorted DEF Base
<1>5. update'.list = Listed(f) /\ update'.folder = f
  BY <1>1
<1> HIDE DEF f
<1>6. ListsTyped' /\ ListsSorted'
  BY <1>1, <1>3, <1>4, <1>5 DEF Base, ListsTyped, ListsSorted
<1>7. \A g \in Folders, i \in Ids, m \in Mail : NamedIn(view[g], i, m)' => Named(i, m)
  BY <1>1 DEF Named
<1>8. ASSUME NEW i \in Ids, NEW m \in Mail, NamedIn(update.list, i, m)' PROVE Named(i, m)
  <2>1. PICK n \in DOMAIN Listed(f) : Listed(f)[n].id = i /\ Listed(f)[n].mail = m
    BY <1>5, <1>8 DEF NamedIn
  <2>2. PICK r \in rows : Listed(f)[n] = EntryOf(r)
    BY <1>4, <2>1
  <2>3. r.id = i /\ r.mail = m
    BY <2>1, <2>2 DEF EntryOf
  <2>4. QED
    BY <2>3 DEF Named
<1>9. AllLawful' /\ inFlight' \subseteq Ids
  BY <1>1 DEF Base, AllLawful, Lawful, OtherTyped
<1>10. QED
  BY <1>1, <1>2, <1>6, <1>7, <1>8, <1>9, BaseLists

LEMMA WrittenIs ==
  ASSUME Base, WriteFolder
  PROVE  /\ view' \in [Folders -> Seq(Entry)]
         /\ \A f \in Folders : view'[f] = IF f = update.folder THEN update.list ELSE view[f]
<1>1. view' = [view EXCEPT ![update.folder] = update.list]
  BY DEF WriteFolder
<1>2. view \in [Folders -> Seq(Entry)] /\ update.list \in Seq(Entry)
  BY DEF Base, ListsTyped
<1>3. QED
  BY <1>1, <1>2

LEMMA BaseWriteFolder == Base /\ FlightInv' /\ WriteFolder => BaseGoes
<1> SUFFICES ASSUME Base, FlightInv', WriteFolder PROVE BaseGoes
  OBVIOUS
<1>1. /\ update' = NoUpdate
      /\ UNCHANGED <<server, rows, lastId, cache, commands, call, inFlight, work, amiss, events>>
  BY DEF WriteFolder, storeVars, chanVars
<1>2. /\ view' \in [Folders -> Seq(Entry)]
      /\ \A f \in Folders : view'[f] = IF f = update.folder THEN update.list ELSE view[f]
  BY WrittenIs
<1>3. update'.list = <<>> /\ update'.folder = Nowhere
  BY <1>1, IdleIs
<1>4. ListsTyped' /\ ListsSorted'
  <2>1. \A f \in Folders : Sorted(view'[f])
    BY <1>2 DEF Base, ListsSorted
  <2>2. Sorted(update'.list)
    BY <1>3 DEF Sorted
  <2>3. QED
    BY <1>2, <1>3, <2>1, <2>2 DEF ListsTyped, ListsSorted
<1>5. \A g \in Folders, i \in Ids, m \in Mail : NamedIn(view[g], i, m)' => Named(i, m)
  BY <1>2 DEF Named, NamedIn
<1>6. \A i \in Ids, m \in Mail : NamedIn(update.list, i, m)' => Named(i, m)
  BY <1>3 DEF NamedIn
<1>7. AllLawful' /\ inFlight' \subseteq Ids /\ events' \in Seq(Event) /\ EventsLawful'
  BY <1>1 DEF Base, AllLawful, Lawful, OtherTyped, EventsLawful
<1>8. QED
  BY <1>1, <1>4, <1>5, <1>6, <1>7, BaseLists

\* The view only loses entries, or changes flags.
LEMMA BaseView ==
  ASSUME Base, FlightInv', UNCHANGED <<server, rows, lastId, cache, work, update>>,
         inFlight' \subseteq Ids, amiss' \in BOOLEAN, AllLawful', events' \in Seq(Event), EventsLawful',
         view' \in [Folders -> Seq(Entry)], \A f \in Folders : Sorted(view'[f]),
         \A f \in Folders : \A k \in DOMAIN view'[f] :
            \E g \in Folders : \E j \in DOMAIN view[g] :
               view'[f][k].id = view[g][j].id /\ view'[f][k].mail = view[g][j].mail
  PROVE  BaseGoes
<1>1. ListsTyped' /\ ListsSorted'
  BY DEF Base, ListsTyped, ListsSorted
<1>2. \A i \in Ids, m \in Mail : Named(i, m)' => Named(i, m)
  BY DEF Named, NamedIn
<1>3. OtherTyped'
  BY DEF Base, OtherTyped
<1>4. QED
  BY <1>1, <1>2, <1>3, BaseKept

LEMMA ViewReflagged ==
  ASSUME Base, NEW i, NEW new \in [SUBSET Flags -> SUBSET Flags], view' = Reflagged(i, new)
  PROVE  /\ view' \in [Folders -> Seq(Entry)]
         /\ \A f \in Folders : Sorted(view'[f]) /\ Reflags(view[f], view'[f], i, new)
<1>1. view \in [Folders -> Seq(Entry)] /\ \A f \in Folders : Sorted(view[f])
  BY DEF Base, ListsTyped, ListsSorted
<1>2. view' = [f \in Folders |-> Reflag(view[f], i, new)]
  BY DEF Reflagged, Reflag
<1>3. \A f \in Folders : view'[f] = Reflag(view[f], i, new) /\ view[f] \in Seq(Entry) /\ Sorted(view[f])
  BY <1>1, <1>2
<1>4. \A f \in Folders : view'[f] \in Seq(Entry) /\ Sorted(view'[f]) /\ Reflags(view[f], view'[f], i, new)
  <2>1. \A f \in Folders : /\ Reflag(view[f], i, new) \in Seq(Entry) /\ Sorted(Reflag(view[f], i, new))
                           /\ Reflags(view[f], Reflag(view[f], i, new), i, new)
    BY <1>1, ReflagIs
  <2>2. QED
    BY <1>3, <2>1
<1>5. view' \in [Folders -> Seq(Entry)]
  BY <1>2, <1>3, <1>4
<1>6. QED
  BY <1>4, <1>5

LEMMA BaseReflagged ==
  ASSUME Base, FlightInv', UNCHANGED <<server, rows, lastId, cache, work, update, amiss>>,
         inFlight' \subseteq Ids, AllLawful', events' \in Seq(Event), EventsLawful',
         NEW i, NEW new \in [SUBSET Flags -> SUBSET Flags], view' = Reflagged(i, new)
  PROVE  BaseGoes
<1>1. /\ view' \in [Folders -> Seq(Entry)]
      /\ \A f \in Folders : Sorted(view'[f])
      /\ \A f \in Folders : \A k \in DOMAIN view'[f] :
           \E g \in Folders : \E j \in DOMAIN view[g] :
              view'[f][k].id = view[g][j].id /\ view'[f][k].mail = view[g][j].mail
  <2>1. /\ view' \in [Folders -> Seq(Entry)]
        /\ \A f \in Folders : Sorted(view'[f]) /\ Reflags(view[f], view'[f], i, new)
    BY ViewReflagged
  <2>2. \A f \in Folders : \A k \in DOMAIN view'[f] :
          k \in DOMAIN view[f] /\ view'[f][k].id = view[f][k].id /\ view'[f][k].mail = view[f][k].mail
    BY <2>1 DEF Reflags
  <2>3. QED
    BY <2>1, <2>2, Zenon
<1>2. amiss' \in BOOLEAN
  BY DEF Base, OtherTyped
<1>3. QED
  BY <1>1, <1>2, BaseView

LEMMA BaseWriteFlags == Base /\ FlightInv' /\ WriteFlags => BaseGoes
<1> SUFFICES ASSUME Base, FlightInv', WriteFlags PROVE BaseGoes
  OBVIOUS
<1>1. /\ events # <<>> /\ events' = Tail(events) /\ Head(events).op = "flags"
      /\ view' = Reflagged(Head(events).id, [old \in SUBSET Flags |-> Head(events).flags])
      /\ UNCHANGED <<server, rows, lastId, cache, commands, call, inFlight, work, amiss, update>>
  BY DEF WriteFlags, storeVars, chanVars
<1>2. events' \in Seq(Event) /\ EventsLawful' /\ Head(events) \in Event
  BY <1>1, TakenLawful
<1>3. [old \in SUBSET Flags |-> Head(events).flags] \in [SUBSET Flags -> SUBSET Flags]
  <2>1. Head(events).flags \in SUBSET Flags
    BY <1>1, <1>2, AnEvent
  <2>2. QED
    BY <2>1
<1>4. AllLawful' /\ inFlight' \subseteq Ids
  BY <1>1 DEF Base, AllLawful, Lawful, OtherTyped
<1>5. QED
  BY <1>1, <1>2, <1>3, <1>4, BaseReflagged

-----------------------------------------------------------------------------

LEMMA SentLawful ==
  ASSUME commands \in Seq(Command), NEW c \in Command, Send(c)
  PROVE  /\ DOMAIN commands' = DOMAIN commands \cup {Len(commands) + 1}
         /\ \A n \in DOMAIN commands : commands'[n] = commands[n]
         /\ commands'[Len(commands) + 1] = c
<1>1. commands' = Append(commands, c)
  BY DEF Send
<1>2. QED
  BY <1>1

\* A call that leaves the lists alone.
LEMMA BaseAsks ==
  ASSUME Base, FlightInv', UNCHANGED <<storeVars, snapVars, taskVars>>,
         inFlight' \subseteq Ids, AllLawful'
  PROVE  BaseGoes
<1> USE DEF storeVars, snapVars, taskVars
<1>1. OtherTyped' /\ EventsLawful' /\ events' \in Seq(Event)
  BY DEF Base, OtherTyped, EventsLawful
<1>2. QED
  BY <1>1, NamesKept, BaseKept

LEMMA CommandsLawful ==
  ASSUME Base, NEW c \in Command, Lawful(c), Lawful(call'.cmd), UNCHANGED <<lastId, work>>,
         UNCHANGED commands \/ Send(c)
  PROVE  AllLawful'
<1>1. \A n \in DOMAIN commands' : Lawful(commands'[n])
  <2>1. CASE UNCHANGED commands
    BY <2>1 DEF Base, AllLawful
  <2>2. CASE Send(c)
    BY <2>2, SentLawful DEF Base, FlightInv, AllLawful
  <2>3. QED
    BY <2>1, <2>2
<1>2. QED
  BY <1>1 DEF Base, AllLawful, Lawful

LEMMA BaseCallEnds == Base /\ FlightInv' /\ (SendCommand \/ AskBody) => BaseGoes
<1> SUFFICES ASSUME Base, FlightInv', SendCommand \/ AskBody PROVE BaseGoes
  OBVIOUS
<1> DEFINE c == call.cmd
<1>1. /\ call' = NoCall /\ (UNCHANGED commands \/ Send(c))
      /\ UNCHANGED <<storeVars, snapVars, taskVars>>
      /\ UNCHANGED inFlight \/ (call.at = "ask" /\ inFlight' = inFlight \cup {c.id})
  BY DEF SendCommand, AskBody
<1>2. c \in Command /\ Lawful(c) /\ (call.at = "ask" => c.op = "body")
  BY DEF Base, FlightInv, CallIsFor, AllLawful
<1>3. AllLawful'
  <2>1. Lawful(call'.cmd)
    <3>1. call'.cmd = EmptyTrash(Trash)
      BY DEF SendCommand, AskBody, NoCall
    <3>2. QED
      BY <3>1 DEF Lawful, EmptyTrash
  <2>2. UNCHANGED <<lastId, work>>
    BY <1>1 DEF storeVars, taskVars
  <2>3. UNCHANGED commands \/ Send(c)
    BY <1>1
  <2> HIDE DEF c
  <2>4. QED
    BY <1>2, <2>1, <2>2, <2>3, CommandsLawful
<1>4. inFlight' \subseteq Ids
  BY <1>1, <1>2, ACommand DEF Base, OtherTyped
<1>5. QED
  BY <1>1, <1>3, <1>4, BaseAsks

LEMMA BaseCalls ==
  ASSUME Base, FlightInv', NEW i \in 1 .. lastId,
         MissBody(i) \/ (\E d \in Folders : MoveMessage(i, d))
  PROVE  BaseGoes
<1>1. ASSUME MissBody(i) PROVE BaseGoes
  <2>1. call' = [at |-> "ask", cmd |-> FetchBody(i)] /\ UNCHANGED <<storeVars, snapVars, chanVars, taskVars>>
    BY <1>1 DEF MissBody
  <2>2. FetchBody(i) \in Command /\ Lawful(FetchBody(i))
    BY SnapshotAssumption DEF Base, FlightInv, Ids, Command, FetchBody, Lawful
  <2>3. AllLawful' /\ inFlight' \subseteq Ids
    BY <2>1, <2>2, CommandsLawful DEF Base, OtherTyped, storeVars, chanVars, taskVars
  <2>4. QED
    BY <2>1, <2>3, BaseAsks
<1>2. ASSUME NEW d \in Folders, MoveMessage(i, d) PROVE BaseGoes
  <2>1. /\ call' = [at |-> "move", cmd |-> Move(i, d)] /\ Send(Move(i, d))
        /\ UNCHANGED <<storeVars, snapVars, inFlight, taskVars>>
    BY <1>2 DEF MoveMessage
  <2>2. Move(i, d) \in Command /\ Lawful(Move(i, d))
    BY SnapshotAssumption DEF Base, FlightInv, Ids, Command, Move, Lawful
  <2>3. AllLawful'
    BY <2>1, <2>2, CommandsLawful DEF storeVars, taskVars
  <2>4. inFlight' \subseteq Ids
    BY <2>1 DEF Base, OtherTyped
  <2>5. QED
    BY <2>1, <2>3, <2>4, BaseAsks
<1>3. QED
  BY <1>1, <1>2

LEMMA ASetFlag ==
  ASSUME Base, NEW i \in 1 .. lastId, NEW flag \in Flags, NEW add \in BOOLEAN
  PROVE  /\ SetFlag(i, flag, add) \in Command /\ Lawful(SetFlag(i, flag, add))
         /\ SetFlag(i, flag, add).op = "flag" /\ SetFlag(i, flag, add).id = i
<1>1. i \in Ids /\ i <= lastId
  BY SnapshotAssumption DEF Base, FlightInv, Ids
<1>2. SetFlag(i, flag, add).op = "flag" /\ SetFlag(i, flag, add).id = i
  BY DEF SetFlag
<1>3. SetFlag(i, flag, add) \in [op : {"flag"}, id : Ids, flag : Flags, add : BOOLEAN]
  BY <1>1, Zenon DEF SetFlag
<1>4. QED
  BY <1>1, <1>2, <1>3 DEF Command, Lawful

LEMMA BaseChangeFlag ==
  ASSUME Base, FlightInv', NEW i \in 1 .. lastId, NEW flag, NEW add \in BOOLEAN, ChangeFlag(i, flag, add)
  PROVE  BaseGoes
<1> DEFINE new == [old \in SUBSET Flags |-> IF add THEN old \cup {flag} ELSE old \ {flag}]
<1>1. /\ view' = Reflagged(i, new)
      /\ call' = [at |-> "send", cmd |-> SetFlag(i, flag, add)] /\ flag \in Flags
      /\ UNCHANGED <<server, rows, lastId, cache, commands, inFlight, work, amiss, update, events>>
  BY Zenon DEF ChangeFlag, storeVars, chanVars, taskVars
<1>2. new \in [SUBSET Flags -> SUBSET Flags]
  BY <1>1
<1>3. AllLawful'
  BY <1>1, ASetFlag, CommandsLawful
<1>4. inFlight' \subseteq Ids /\ events' \in Seq(Event) /\ EventsLawful'
  BY <1>1 DEF Base, OtherTyped, EventsLawful
<1> HIDE DEF new
<1>5. QED
  BY <1>1, <1>2, <1>3, <1>4, BaseReflagged

LEMMA BaseEmptyTrashCall == Base /\ FlightInv' /\ EmptyTrashCall => BaseGoes
<1> SUFFICES ASSUME Base, FlightInv', EmptyTrashCall PROVE BaseGoes
  OBVIOUS
<1>1. /\ view' = [view EXCEPT ![Trash] = <<>>] /\ call' = [at |-> "send", cmd |-> EmptyTrash(Trash)]
      /\ UNCHANGED <<server, rows, lastId, cache, commands, inFlight, work, amiss, update, events>>
  BY DEF EmptyTrashCall, storeVars, chanVars, taskVars
<1>2. view \in [Folders -> Seq(Entry)] /\ \A f \in Folders : Sorted(view[f])
  BY DEF Base, ListsTyped, ListsSorted
<1>3. view' \in [Folders -> Seq(Entry)] /\ \A f \in Folders : view'[f] = IF f = Trash THEN <<>> ELSE view[f]
  <2>1. <<>> \in Seq(Entry)
    BY EmptySeq
  <2>2. QED
    BY <1>1, <1>2, <2>1
<1>4. \A f \in Folders : Sorted(view'[f])
  BY <1>2, <1>3 DEF Sorted
<1>5. AllLawful'
  BY <1>1, EmptyIsCommand, IdleIs, CommandsLawful
<1>6. inFlight' \subseteq Ids /\ events' \in Seq(Event) /\ EventsLawful' /\ amiss' \in BOOLEAN
  BY <1>1 DEF Base, OtherTyped, EventsLawful
<1>7. QED
  BY <1>1, <1>3, <1>4, <1>5, <1>6, BaseView

LEMMA MovesSomewhere == Base /\ call.at = "move" => call.cmd \in Command /\ call.cmd.op = "move" /\ call.cmd.dest \in Folders
BY ACommand DEF Base, FlightInv, CallIsFor

LEMMA BaseMoveShown == Base /\ FlightInv' /\ MoveShown => BaseGoes
<1> SUFFICES ASSUME Base, FlightInv', MoveShown PROVE BaseGoes
  OBVIOUS
<1>1. /\ call' = NoCall /\ amiss' \in BOOLEAN
      /\ UNCHANGED <<server, rows, lastId, cache, commands, inFlight, work, update, events>>
  BY DEF MoveShown, storeVars, chanVars, Base, OtherTyped
<1>2. /\ view' \in [Folders -> Seq(Entry)]
      /\ \A f \in Folders : Sorted(view'[f])
      /\ \A f \in Folders : \A k \in DOMAIN view'[f] :
           \E g \in Folders : \E j \in DOMAIN view[g] : view'[f][k] = view[g][j]
  <2>1. call.cmd.dest \in Folders
    BY MovesSomewhere DEF MoveShown
  <2>2. QED
    BY <2>1, MovedIs DEF Base, ListsTyped, ListsSorted
<1>3. AllLawful'
  BY <1>1, IdleIs, EmptyIsCommand, CommandsLawful
<1>4. inFlight' \subseteq Ids /\ events' \in Seq(Event) /\ EventsLawful'
  BY <1>1 DEF Base, OtherTyped, EventsLawful
<1>5. QED
  BY <1>1, <1>2, <1>3, <1>4, BaseView

-----------------------------------------------------------------------------
(* The steps that change the store or the server.                            *)

\* What an envelope does to the rows: it replaces the row of its message, or is a row of a new id.
Enveloped(new, old) ==
  /\ new \in Row /\ new.folder = server[new.mail].folder /\ new.flags = server[new.mail].flags
  /\ old \subseteq rows /\ rows' = (rows \ old) \cup {new}
  /\ \A r \in rows : r \in old <=> r.folder = new.folder /\ r.mail = new.mail
  /\ \/ old = {} /\ new.id = lastId + 1 /\ lastId' = lastId + 1
     \/ lastId' = lastId /\ \E q \in rows : old = {q} /\ new.id = q.id

LEMMA EnvelopeIs ==
  ASSUME Base, NEW m \in Mail, StoreEnvelope(m)
  PROVE  /\ \E new, old : new.mail = m /\ Enveloped(new, old) /\ Post([op |-> "list", folder |-> new.folder])
         /\ UNCHANGED <<server, view, cache, inFlight, commands, update, work, amiss, call>>
<1> DEFINE f == server[m].folder
           old == {r \in rows : r.folder = f /\ r.mail = m}
           given == IF old = {} THEN lastId + 1 ELSE (CHOOSE r \in old : TRUE).id
           new == [folder |-> f, mail |-> m, flags |-> server[m].flags, id |-> given]
<1>1. /\ f # Nowhere /\ given <= MaxId /\ rows' = (rows \ old) \cup {new}
      /\ lastId' = IF old = {} THEN lastId + 1 ELSE lastId
      /\ Post([op |-> "list", folder |-> f])
      /\ UNCHANGED <<server, view, cache, inFlight, commands, update, work, amiss, call>>
  BY DEF StoreEnvelope, snapVars, chanVars
<1>2. f \in Folders /\ server[m].flags \in SUBSET Flags
  BY <1>1 DEF Base, ServerTyped
<1>3. lastId \in Nat /\ lastId <= MaxId
  BY SnapshotAssumption DEF Base, FlightInv
<1>4. \/ old = {} /\ given = lastId + 1
      \/ \E q \in rows : old = {q} /\ given = q.id
  <2>1. CASE old = {}
    BY <2>1
  <2>2. CASE old # {}
    <3>1. PICK q \in rows : q \in old
      BY <2>2
    <3>2. old = {q}
      BY <3>1 DEF Base, RowsDiffer
    <3>3. (CHOOSE r \in old : TRUE) = q
      BY <3>2
    <3>4. QED
      BY <2>2, <3>2, <3>3
  <2>3. QED
    BY <2>1, <2>2
<1> HIDE DEF given
<1>5. given \in Ids
  <2>1. \A q \in rows : q.id \in Ids
    BY DEF Base, Row
  <2>2. lastId + 1 <= MaxId => lastId + 1 \in Ids
    BY <1>3 DEF Ids
  <2>3. QED
    BY <1>1, <1>4, <2>1, <2>2
<1>6. new \in Row /\ new.mail = m /\ new.folder = f /\ new.flags = server[m].flags /\ new.id = given
  BY <1>2, <1>5 DEF Row
<1>7. \A r \in rows : r \in old <=> r.folder = f /\ r.mail = m
  OBVIOUS
<1>8. Enveloped(new, old)
  <2>1. old \subseteq rows /\ rows' = (rows \ old) \cup {new}
    BY <1>1
  <2> HIDE DEF new, old
  <2>2. \/ old = {} /\ new.id = lastId + 1 /\ lastId' = lastId + 1
        \/ lastId' = lastId /\ \E q \in rows : old = {q} /\ new.id = q.id
    BY <1>1, <1>4, <1>6
  <2>3. QED
    BY <1>6, <1>7, <2>1, <2>2 DEF Enveloped
<1> HIDE DEF new, old, f
<1>9. QED
  BY <1>1, <1>6, <1>8

LEMMA BaseStoreEnvelope ==
  ASSUME Base, FlightInv', NEW m \in Mail, StoreEnvelope(m)
  PROVE  BaseGoes
<1>1. PICK new, old : new.mail = m /\ Enveloped(new, old) /\ Post([op |-> "list", folder |-> new.folder])
  BY EnvelopeIs
<1>2. UNCHANGED <<server, view, cache, inFlight, commands, update, work, amiss, call>>
  BY EnvelopeIs
<1>3. /\ new \in Row /\ new.folder = server[m].folder /\ new.flags = server[m].flags /\ new.mail = m
      /\ old \subseteq rows /\ rows' = (rows \ old) \cup {new}
      /\ \A r \in rows : r \in old <=> r.folder = new.folder /\ r.mail = m
  BY <1>1 DEF Enveloped
<1>4. lastId \in Nat /\ lastId' \in Nat /\ lastId <= lastId' /\ new.id <= lastId' /\ new.id \in Ids /\ new.folder \in Folders
  <2>1. lastId \in Nat /\ new.id \in Ids /\ new.folder \in Folders
    BY <1>3, SnapshotAssumption DEF Base, FlightInv, Row
  <2>2. \A q \in rows : q.id <= lastId /\ q.id \in Ids
    <3>1. \A q \in rows : q.id \in Ids /\ q.mail \in Mail
      BY DEF Base, Row
    <3>2. \A q \in rows : Named(q.id, q.mail)
      BY DEF Named
    <3>3. QED
      BY <3>1, <3>2 DEF Base, IdsMeanMail
  <2>3. QED
    BY <1>1, <2>1, <2>2 DEF Enveloped
<1>5. \A q \in rows : q.id \in Ids /\ q.mail \in Mail /\ q.id <= lastId /\ Named(q.id, q.mail)
  <2>1. \A q \in rows : q.id \in Ids /\ q.mail \in Mail
    BY DEF Base, Row
  <2>2. \A q \in rows : Named(q.id, q.mail)
    BY DEF Named
  <2>3. QED
    BY <2>1, <2>2 DEF Base, IdsMeanMail
<1>6. \/ old = {} /\ new.id = lastId + 1
      \/ \E q \in old : old = {q} /\ new.id = q.id /\ Named(new.id, m) /\ q.folder = new.folder /\ q.mail = m
  BY <1>1, <1>3, <1>5 DEF Enveloped
<1>7. \A i \in Ids, k \in Mail : Named(i, k)' => Named(i, k) \/ (i = new.id /\ k = m)
  BY <1>2, <1>3 DEF Named
<1>8. IdsMeanMail'
  <2> SUFFICES ASSUME NEW i \in Ids, NEW k \in Mail, Named(i, k)'
               PROVE  i <= lastId' /\ \A j \in Mail : Named(i, j)' => j = k
    BY DEF IdsMeanMail
  <2>1. CASE old = {} /\ new.id = lastId + 1
    <3>1. \A j \in Mail : ~Named(new.id, j)
      BY <1>4, <2>1 DEF Base, IdsMeanMail
    <3>2. CASE i = new.id
      BY <1>4, <1>7, <3>1, <3>2
    <3>3. CASE i # new.id
      <4>1. Named(i, k) /\ \A j \in Mail : Named(i, j)' => Named(i, j)
        BY <1>7, <3>3
      <4>2. i <= lastId /\ \A j \in Mail : Named(i, j) => j = k
        BY <4>1 DEF Base, IdsMeanMail
      <4>3. QED
        BY <1>4, <4>1, <4>2 DEF Ids
    <3>4. QED
      BY <3>2, <3>3
  <2>2. CASE Named(new.id, m)
    <3>1. Named(i, k) /\ \A j \in Mail : Named(i, j)' => Named(i, j)
      BY <1>7, <2>2
    <3>2. i <= lastId /\ \A j \in Mail : Named(i, j) => j = k
      BY <3>1 DEF Base, IdsMeanMail
    <3>3. QED
      BY <1>4, <3>1, <3>2 DEF Ids
  <2>3. QED
    BY <1>6, <2>1, <2>2
<1>9. rows' \subseteq Row
  BY <1>3 DEF Base
<1>10. RowsDiffer'
  <2>1. ASSUME NEW r \in rows', NEW q \in rows', r.id = q.id \/ (r.folder = q.folder /\ r.mail = q.mail)
        PROVE  r = q
    <3>1. \A x \in rows : x \notin old => x.id # new.id /\ ~(x.folder = new.folder /\ x.mail = m)
      <4>1. CASE old = {} /\ new.id = lastId + 1
        BY <1>3, <1>4, <1>5, <4>1 DEF Ids
      <4>2. CASE \E y \in old : old = {y} /\ new.id = y.id
        BY <1>3, <4>2 DEF Base, RowsDiffer
      <4>3. QED
        BY <1>6, <4>1, <4>2
    <3>2. CASE r \in rows /\ q \in rows
      BY <2>1, <3>2 DEF Base, RowsDiffer
    <3>3. CASE r = new \/ q = new
      BY <1>3, <2>1, <3>1, <3>3
    <3>4. QED
      BY <1>3, <3>2, <3>3
  <2>2. QED
    BY <2>1 DEF RowsDiffer
<1>11. RowsSound'
  <2>1. \A r \in rows' :
       \/ r.folder = server[r.mail].folder
       \/ Storing("move") /\ r.folder = work.row.folder /\ r.mail = work.row.mail
       \/ Storing("empty") /\ r.folder = Trash
    BY <1>3 DEF Base, RowsSound
  <2>2. \A r \in rows' : r.flags = server[r.mail].flags \/ (Storing("flag") /\ r.id = work.cmd.id)
    BY <1>3 DEF Base, RowsSound
  <2>3. QED
    BY <1>2, <2>1, <2>2 DEF RowsSound, Storing
<1>12. WorkSound'
  <2>1. \A r \in rows : \E q \in rows' : q.id = r.id /\ q.folder = r.folder /\ q.mail = r.mail
    BY <1>3, <1>6
  <2>2. QED
    BY <1>2, <2>1 DEF Base, WorkSound, Storing, NewFlags
<1>13. ListsTyped' /\ OtherTyped' /\ ListsSorted' /\ ServerTyped'
  BY <1>2 DEF Base, ListsTyped, OtherTyped, ListsSorted, ServerTyped
<1>14. AllLawful'
  <2>1. \A c \in Command : Lawful(c) => Lawful(c)'
    <3>1. \A c \in Command : c.op # "empty" => c.id \in Nat
      BY ACommand DEF Ids
    <3>2. QED
      BY <1>4, <3>1 DEF Lawful
  <2>2. call.cmd \in Command /\ work.cmd \in Command /\ \A n \in DOMAIN commands : commands[n] \in Command
    BY DEF Base, FlightInv, CallIsFor, WorkIsFor
  <2>3. QED
    BY <1>2, <2>1, <2>2 DEF Base, AllLawful, Lawful
<1>15. events' \in Seq(Event) /\ EventsLawful'
  <2> DEFINE e == [op |-> "list", folder |-> new.folder]
  <2>1. e \in Event /\ e.op = "list"
    BY <1>4 DEF Event
  <2> HIDE DEF e
  <2>2. /\ events' \in Seq(Event)
        /\ DOMAIN events = 1 .. Len(events) /\ DOMAIN events' = 1 .. Len(events) + 1
        /\ Len(events) \in Nat
        /\ \A n \in 1 .. Len(events) : events'[n] = events[n]
        /\ events'[Len(events) + 1] = e
    BY <1>1, <2>1, PostedIs DEF Base, e
  <2>3. \A n \in DOMAIN events' : (n \in DOMAIN events /\ events'[n] = events[n]) \/ events'[n].op = "list"
    BY <2>1, <2>2
  <2>4. \A n \in DOMAIN events : events[n].op = "flags" => events[n].id \in Nat /\ events[n].id <= lastId
    <3>1. \A n \in DOMAIN events : events[n] \in Event
      BY DEF Base
    <3>2. QED
      BY <3>1, AnEvent DEF Base, EventsLawful, Ids
  <2>5. QED
    BY <1>4, <2>2, <2>3, <2>4 DEF EventsLawful
<1>16. NamesGrow
  <2>1. \A i \in Ids, k \in Mail : Named(i, k)' => Named(i, k) \/ (i = new.id /\ new.id = lastId + 1)
    BY <1>6, <1>7
  <2>2. QED
    BY <1>4, <2>1 DEF NamesGrow
<1>17. QED
  BY <1>8, <1>9, <1>10, <1>11, <1>12, <1>13, <1>14, <1>15, <1>16 DEF Base, BaseGoes

\* What the server does with the command: to the Trash, or to the message of the row of its id.
ServedIs(r) ==
  /\ r \in rows /\ r.id = work.cmd.id /\ work.cmd.op # "empty"
  /\ work'.row = r
  /\ \A m \in Mail : m # r.mail => server'[m] = server[m]
  /\ work.cmd.op = "body" => server'[r.mail] = server[r.mail]
  /\ work.cmd.op = "flag" =>
       /\ server'[r.mail].folder = server[r.mail].folder
       /\ server'[r.mail].flags = IF work.cmd.add THEN server[r.mail].flags \cup {work.cmd.flag}
                                  ELSE server[r.mail].flags \ {work.cmd.flag}
  /\ work.cmd.op = "move" =>
       /\ server'[r.mail].flags = server[r.mail].flags
       /\ server'[r.mail].folder = work.cmd.dest

TrashEmptied ==
  /\ work.cmd.op = "empty" /\ work'.row = work.row
  /\ \A m \in Mail : /\ server'[m].flags = server[m].flags
                     /\ server'[m].folder = IF server[m].folder = Trash THEN Nowhere ELSE server[m].folder

LEMMA AtServerIs ==
  ASSUME Base, AtServer
  PROVE  /\ work.at = "server" /\ work'.at = "store" /\ work'.cmd = work.cmd
         /\ UNCHANGED <<rows, lastId, view, cache, inFlight, commands, events, update, amiss, call>>
         /\ ServerTyped'
         /\ TrashEmptied \/ \E r \in rows : ServedIs(r)
<1> DEFINE c == work.cmd
           Place == [folder : Folders \cup {Nowhere}, flags : SUBSET Flags]
<1>1. /\ work.at = "server"
      /\ UNCHANGED <<rows, lastId, view, cache, inFlight, commands, events, update, amiss, call>>
  BY DEF AtServer, snapVars, chanVars
<1>2. work = [cmd |-> work.cmd, row |-> work.row, at |-> work.at] /\ c \in Command
  BY DEF Base, FlightInv, WorkIsFor
<1>3. server \in [Mail -> Place]
  BY DEF Base, ServerTyped
<1>4. CASE /\ c.op = "empty"
           /\ server' = [m \in Mail |-> IF server[m].folder = c.folder
                                        THEN [server[m] EXCEPT !.folder = Nowhere] ELSE server[m]]
           /\ WorkerGoes("store")
  <2>1. work'.at = "store" /\ work'.cmd = work.cmd /\ work'.row = work.row
    BY <1>2, <1>4, WorkGoesIs DEF WorkerGoes, WorkIsFor, Base, FlightInv
  <2>2. c.folder = Trash
    BY <1>4 DEF Base, AllLawful, Lawful
  <2>3. ASSUME NEW m \in Mail
        PROVE  /\ server'[m] \in Place /\ server'[m].flags = server[m].flags
               /\ server'[m].folder = IF server[m].folder = Trash THEN Nowhere ELSE server[m].folder
    <3> DEFINE s == server[m]
    <3>1. s \in Place /\ server'[m] = IF s.folder = Trash THEN [s EXCEPT !.folder = Nowhere] ELSE s
      BY <1>3, <1>4, <2>2
    <3> HIDE DEF s
    <3>2. /\ server'[m] \in Place /\ server'[m].flags = s.flags
          /\ server'[m].folder = IF s.folder = Trash THEN Nowhere ELSE s.folder
      BY <3>1
    <3>3. QED
      BY <3>2 DEF s
  <2>4. server' \in [Mail -> Place]
    BY <1>4, <2>3
  <2>5. TrashEmptied
    BY <1>4, <2>1, <2>3 DEF TrashEmptied
  <2>6. QED
    BY <1>1, <2>1, <2>4, <2>5 DEF ServerTyped
<1>5. ASSUME c.op # "empty", NEW r \in rows, r.id = c.id,
             work' = [work EXCEPT !.at = "store", !.row = r],
             server' = [server EXCEPT ![r.mail] = Served(c, @)]
      PROVE  /\ work'.at = "store" /\ work'.cmd = work.cmd /\ ServerTyped' /\ ServedIs(r)
  <2>1. work'.at = "store" /\ work'.cmd = work.cmd /\ work'.row = r
    BY <1>2, <1>5
  <2> DEFINE s == server[r.mail]
             t == Served(c, s)
  <2>2. r.mail \in Mail /\ s \in Place
    BY <1>3 DEF Base, Row
  <2>3. server'[r.mail] = t /\ \A m \in Mail : m # r.mail => server'[m] = server[m]
    BY <1>3, <1>5, <2>2
  <2>4. c.op \in {"body", "flag", "move"}
    BY <1>2, <1>5, ACommand
  <2> HIDE DEF s
  <2>5. /\ t \in Place
        /\ c.op = "body" => t = s
        /\ c.op = "flag" => /\ t.folder = s.folder
                            /\ t.flags = IF c.add THEN s.flags \cup {c.flag} ELSE s.flags \ {c.flag}
        /\ c.op = "move" => t.flags = s.flags /\ t.folder = c.dest
    <3>1. CASE c.op = "body"
      BY <2>2, <3>1 DEF Served
    <3>2. CASE c.op = "flag"
      <4>1. c.flag \in Flags
        BY <1>2, <3>2, ACommand
      <4> DEFINE g == IF c.add THEN s.flags \cup {c.flag} ELSE s.flags \ {c.flag}
      <4>2. t = [s EXCEPT !.flags = g]
        BY <3>2 DEF Served
      <4>3. g \in SUBSET Flags
        BY <2>2, <4>1
      <4> HIDE DEF g, t
      <4>4. t \in Place /\ t.folder = s.folder /\ t.flags = g
        BY <2>2, <4>2, <4>3
      <4>5. QED
        BY <3>2, <4>4 DEF g
    <3>3. CASE c.op = "move"
      <4>1. c.dest \in Folders
        BY <1>2, <3>3, ACommand
      <4>2. t = [s EXCEPT !.folder = c.dest]
        BY <3>3 DEF Served
      <4> HIDE DEF t
      <4>3. t \in Place /\ t.flags = s.flags /\ t.folder = c.dest
        BY <2>2, <4>1, <4>2
      <4>4. QED
        BY <3>3, <4>3
    <3>4. QED
      BY <2>4, <3>1, <3>2, <3>3
  <2> HIDE DEF t
  <2>6. server' \in [Mail -> Place]
    BY <1>3, <1>5, <2>2, <2>5 DEF t, s
  <2>7. ServedIs(r)
    BY <1>5, <2>1, <2>3, <2>5 DEF ServedIs, s
  <2>8. QED
    BY <2>1, <2>6, <2>7 DEF ServerTyped
<1>6. QED
  <2>1. CASE \E r \in rows :
               /\ c.op # "empty" /\ r.id = c.id
               /\ work' = [work EXCEPT !.at = "store", !.row = r]
               /\ server' = [server EXCEPT ![r.mail] = Served(c, @)]
    <3>1. PICK r \in rows :
               /\ c.op # "empty" /\ r.id = c.id
               /\ work' = [work EXCEPT !.at = "store", !.row = r]
               /\ server' = [server EXCEPT ![r.mail] = Served(c, @)]
      BY <2>1
    <3>2. work'.at = "store" /\ work'.cmd = work.cmd /\ ServerTyped' /\ ServedIs(r)
      BY <1>5, <3>1
    <3>3. QED
      BY <1>1, <3>2
  <2>2. QED
    BY <1>4, <2>1, Zenon DEF AtServer

LEMMA BaseAtServer == Base /\ FlightInv' /\ AtServer => BaseGoes
<1> SUFFICES ASSUME Base, FlightInv', AtServer PROVE BaseGoes
  OBVIOUS
<1>1. /\ work.at = "server" /\ work'.at = "store" /\ work'.cmd = work.cmd
      /\ UNCHANGED <<rows, lastId, view, cache, inFlight, commands, events, update, amiss, call>>
      /\ ServerTyped'
      /\ TrashEmptied \/ \E r \in rows : ServedIs(r)
  BY AtServerIs
<1>2. \A r \in rows : r.folder = server[r.mail].folder /\ r.flags = server[r.mail].flags /\ r.mail \in Mail /\ r \in Row
  BY <1>1 DEF Base, RowsSound, Storing, Row
<1>3. work'.row = work.row \/ \E r \in rows : work'.row = r
  BY <1>1 DEF TrashEmptied, ServedIs
<1>4. \A i \in Ids, m \in Mail : Named(i, m)' => Named(i, m)
  BY <1>1, <1>3 DEF Named
<1>5. IdsMeanMail' /\ NamesGrow
  <2>1. IdsMeanMail'
    BY <1>1, <1>4 DEF Base, IdsMeanMail
  <2>2. NamesGrow
    BY <1>1, <1>4 DEF Base, FlightInv, NamesGrow
  <2>3. QED
    BY <2>1, <2>2
<1>6. ListsTyped' /\ OtherTyped' /\ ListsSorted' /\ AllLawful' /\ EventsLawful' /\ RowsDiffer'
  <2>1. work'.row \in Row \cup {NoRow}
    BY <1>2, <1>3 DEF Base, OtherTyped
  <2>2. QED
    BY <1>1, <2>1 DEF Base, ListsTyped, OtherTyped, ListsSorted, AllLawful, Lawful, EventsLawful, RowsDiffer
<1>7. CASE TrashEmptied
  <2>1. /\ work.cmd.op = "empty"
        /\ \A m \in Mail : server'[m].flags = server[m].flags /\
             server'[m].folder = IF server[m].folder = Trash THEN Nowhere ELSE server[m].folder
    BY <1>7 DEF TrashEmptied
  <2>2. RowsSound'
    BY <1>1, <1>2, <2>1 DEF RowsSound, Storing
  <2>3. WorkSound'
    <3>1. \A m \in Mail : server'[m].folder # Trash
      BY <2>1, SnapshotAssumption
    <3>2. QED
      BY <1>1, <2>1, <3>1 DEF WorkSound, Storing
  <2>4. QED
    BY <1>1, <1>5, <1>6, <2>2, <2>3 DEF Base, BaseGoes
<1>8. ASSUME NEW r \in rows, ServedIs(r) PROVE BaseGoes
  <2>1. /\ r.id = work.cmd.id /\ work.cmd.op # "empty" /\ work'.row = r
        /\ \A m \in Mail : m # r.mail => server'[m] = server[m]
        /\ work.cmd.op = "body" => server'[r.mail] = server[r.mail]
        /\ work.cmd.op = "flag" =>
             /\ server'[r.mail].folder = server[r.mail].folder
             /\ server'[r.mail].flags = IF work.cmd.add THEN server[r.mail].flags \cup {work.cmd.flag}
                                        ELSE server[r.mail].flags \ {work.cmd.flag}
        /\ work.cmd.op = "move" =>
             /\ server'[r.mail].flags = server[r.mail].flags
             /\ server'[r.mail].folder = work.cmd.dest
    BY <1>8 DEF ServedIs
  <2>2. \A q \in rows : q.mail = r.mail => q = r
    BY <1>2 DEF Base, RowsDiffer
  <2>3. work.cmd.op \in {"body", "flag", "move"}
    BY <2>1, ACommand DEF Base, FlightInv, WorkIsFor
  <2>4. \A q \in rows : \/ q.folder = server'[q.mail].folder
                        \/ work.cmd.op = "move" /\ q = r
    BY <1>2, <2>1, <2>2, <2>3
  <2>5. \A q \in rows : \/ q.flags = server'[q.mail].flags
                        \/ work.cmd.op = "flag" /\ q.id = work.cmd.id
    BY <1>2, <2>1, <2>2, <2>3
  <2>6. RowsSound'
    BY <1>1, <2>1, <2>4, <2>5 DEF RowsSound, Storing
  <2>7. WorkSound'
    BY <1>1, <1>2, <2>1 DEF WorkSound, Storing, NewFlags
  <2>8. QED
    BY <1>1, <1>5, <1>6, <2>6, <2>7 DEF Base, BaseGoes
<1>9. QED
  BY <1>1, <1>7, <1>8

-----------------------------------------------------------------------------

\* The row command_worker has read gets its new flags.
FlagStored(q, new) ==
  /\ q \in rows /\ new \in Row /\ rows' = (rows \ {q}) \cup {new}
  /\ q.id = work.cmd.id /\ q.mail = work.row.mail
  /\ new.id = q.id /\ new.folder = q.folder /\ new.mail = q.mail /\ new.flags = NewFlags

LEMMA StoreFlagIs ==
  ASSUME Base, StoreFlag
  PROVE  /\ \E q, new \in Row : FlagStored(q, new)
         /\ work.at = "store" /\ work.cmd.op = "flag" /\ work.cmd.id \in Ids /\ NewFlags \in SUBSET Flags
         /\ Post([op |-> "flags", id |-> work.cmd.id, flags |-> NewFlags])
         /\ work' = Idle
         /\ UNCHANGED <<server, lastId, view, cache, inFlight, commands, update, amiss, call>>
<1> DEFINE hit == {r \in rows : r.folder = work.row.folder /\ r.mail = work.row.mail}
           new == [work.row EXCEPT !.flags = NewFlags]
<1>1. /\ work.at = "store" /\ work.cmd.op = "flag"
      /\ rows' = (rows \ hit) \cup {new}
      /\ Post([op |-> "flags", id |-> work.cmd.id, flags |-> NewFlags])
      /\ work' = Idle
      /\ UNCHANGED <<server, lastId, view, cache, inFlight, commands, update, amiss, call>>
  BY DEF StoreFlag, snapVars, chanVars, NewFlags
<1>2. work.row \in Row /\ work.row.id = work.cmd.id
  BY <1>1 DEF Base, WorkSound, Storing
<1>3. PICK q \in rows : q.id = work.row.id /\ q.folder = work.row.folder /\ q.mail = work.row.mail
  BY <1>1 DEF Base, WorkSound, Storing
<1>4. hit = {q}
  BY <1>3 DEF Base, RowsDiffer
<1>5. work.cmd \in Command /\ work.cmd.flag \in Flags /\ work.cmd.id \in Ids
  BY <1>1, ACommand DEF Base, FlightInv, WorkIsFor
<1>6. NewFlags \in SUBSET Flags
  <2>1. work.row.flags \in SUBSET Flags
    BY <1>2 DEF Row
  <2>2. QED
    BY <1>5, <2>1 DEF NewFlags
<1>7. /\ new \in Row /\ new.id = work.row.id /\ new.folder = work.row.folder
      /\ new.mail = work.row.mail /\ new.flags = NewFlags
  BY <1>2, <1>6 DEF Row
<1>8. q \in Row
  BY DEF Base
<1> HIDE DEF new, hit
<1>9. FlagStored(q, new)
  BY <1>1, <1>2, <1>3, <1>4, <1>7 DEF FlagStored
<1>10. QED
  BY <1>1, <1>5, <1>6, <1>7, <1>8, <1>9

\* command_worker is done with what it stored: the rows are some of those
\* that were there, or have other flags, and are as on the server.
LEMMA BaseStored ==
  ASSUME Base, FlightInv', work' = Idle,
         UNCHANGED <<server, lastId, view, cache, inFlight, commands, update, amiss, call>>,
         events' \in Seq(Event), EventsLawful',
         rows' \subseteq Row,
         \A r \in rows' : \E q \in rows : r.id = q.id /\ r.folder = q.folder /\ r.mail = q.mail,
         RowsDiffer',
         \A r \in rows' : r.folder = server[r.mail].folder /\ r.flags = server[r.mail].flags
  PROVE  BaseGoes
<1>1. \A i \in Ids, m \in Mail : Named(i, m)' => Named(i, m)
  <2>1. NoRow.id \notin Ids
    BY IdleIs DEF Ids
  <2>2. QED
    BY <2>1, IdleIs DEF Named
<1>2. IdsMeanMail'
  BY <1>1 DEF Base, IdsMeanMail
<1>3. RowsSound' /\ WorkSound'
  BY IdleIs DEF RowsSound, WorkSound, Storing
<1>4. ListsTyped' /\ OtherTyped' /\ ListsSorted' /\ AllLawful' /\ ServerTyped'
  BY IdleIs DEF Base, ListsTyped, OtherTyped, ListsSorted, AllLawful, Lawful, ServerTyped
<1>5. NamesGrow
  BY <1>1 DEF NamesGrow, Base, FlightInv
<1>6. QED
  BY <1>2, <1>3, <1>4, <1>5 DEF Base, BaseGoes

LEMMA BaseStoreFlag == Base /\ FlightInv' /\ StoreFlag => BaseGoes
<1> SUFFICES ASSUME Base, FlightInv', StoreFlag PROVE BaseGoes
  OBVIOUS
<1> DEFINE e == [op |-> "flags", id |-> work.cmd.id, flags |-> NewFlags]
<1>1. /\ \E q, new \in Row : FlagStored(q, new)
      /\ work.at = "store" /\ work.cmd.op = "flag" /\ work.cmd.id \in Ids /\ NewFlags \in SUBSET Flags
      /\ Post(e) /\ work' = Idle
      /\ UNCHANGED <<server, lastId, view, cache, inFlight, commands, update, amiss, call>>
  BY StoreFlagIs
<1>2. PICK q \in Row, new \in Row : FlagStored(q, new)
  BY <1>1
<1>3. /\ q \in rows /\ rows' = (rows \ {q}) \cup {new}
      /\ q.id = work.cmd.id /\ q.mail = work.row.mail
      /\ new.id = q.id /\ new.folder = q.folder /\ new.mail = q.mail /\ new.flags = NewFlags
  BY <1>2 DEF FlagStored
<1>4. /\ \A r \in rows : r.folder = server[r.mail].folder /\ (r.flags = server[r.mail].flags \/ r.id = work.cmd.id)
      /\ server[work.row.mail].flags = NewFlags
  BY <1>1 DEF Base, RowsSound, WorkSound, Storing
<1>5. \A r \in rows' : r.folder = server[r.mail].folder /\ r.flags = server[r.mail].flags
  <2>1. \A r \in rows : r.id = q.id => r = q
    BY <1>3 DEF Base, RowsDiffer
  <2>2. QED
    BY <1>3, <1>4, <2>1
<1>6. /\ rows' \subseteq Row
      /\ \A r \in rows' : \E x \in rows : r.id = x.id /\ r.folder = x.folder /\ r.mail = x.mail
  BY <1>2, <1>3 DEF Base
<1>7. RowsDiffer'
  BY <1>3 DEF Base, RowsDiffer
<1>8. events' \in Seq(Event) /\ EventsLawful'
  <2>1. e \in Event /\ e.id = work.cmd.id
    BY <1>1 DEF Event
  <2>2. e.id <= lastId
    BY <1>1, <2>1 DEF Base, AllLawful, Lawful
  <2> HIDE DEF e
  <2>3. /\ events' \in Seq(Event)
        /\ DOMAIN events = 1 .. Len(events) /\ DOMAIN events' = 1 .. Len(events) + 1
        /\ Len(events) \in Nat
        /\ \A n \in 1 .. Len(events) : events'[n] = events[n]
        /\ events'[Len(events) + 1] = e
    BY <1>1, <2>1, PostedIs DEF Base
  <2>4. \A n \in DOMAIN events' : (n \in DOMAIN events /\ events'[n] = events[n]) \/ events'[n] = e
    BY <2>3
  <2>5. QED
    BY <1>1, <2>2, <2>3, <2>4 DEF Base, EventsLawful
<1>9. QED
  BY <1>1, <1>5, <1>6, <1>7, <1>8, BaseStored

\* The rows are gone that are not where the server has them.
LEMMA BaseForget ==
  ASSUME Base, FlightInv', work' = Idle, rows' \subseteq rows,
         UNCHANGED <<server, lastId, view, cache, inFlight, commands, update, amiss, call>>,
         events' \in Seq(Event), EventsLawful',
         \A r \in rows' : r.folder = server[r.mail].folder /\ r.flags = server[r.mail].flags
  PROVE  BaseGoes
<1>1. rows' \subseteq Row
  BY DEF Base
<1>2. RowsDiffer'
  BY DEF Base, RowsDiffer
<1>3. QED
  BY <1>1, <1>2, BaseStored

LEMMA BaseForgetMoved == Base /\ FlightInv' /\ ForgetMoved => BaseGoes
<1> SUFFICES ASSUME Base, FlightInv', ForgetMoved PROVE BaseGoes
  OBVIOUS
<1> DEFINE e == [op |-> "list", folder |-> work.row.folder]
<1>1. /\ work.at = "store" /\ work.cmd.op = "move"
      /\ rows' = {r \in rows : ~(r.folder = work.row.folder /\ r.mail = work.row.mail)}
      /\ Post(e) /\ work' = Idle
      /\ UNCHANGED <<server, lastId, view, cache, inFlight, commands, update, amiss, call>>
  BY DEF ForgetMoved, snapVars, chanVars
<1>2. \A r \in rows' : r.folder = server[r.mail].folder /\ r.flags = server[r.mail].flags
  BY <1>1 DEF Base, RowsSound, Storing
<1>3. events' \in Seq(Event) /\ EventsLawful'
  <2>1. e \in Event /\ e.op = "list"
    BY <1>1 DEF Base, WorkSound, Storing, Row, Event
  <2> HIDE DEF e
  <2>2. /\ events' \in Seq(Event)
        /\ DOMAIN events = 1 .. Len(events) /\ DOMAIN events' = 1 .. Len(events) + 1
        /\ Len(events) \in Nat
        /\ \A n \in 1 .. Len(events) : events'[n] = events[n]
        /\ events'[Len(events) + 1] = e
    BY <1>1, <2>1, PostedIs DEF Base
  <2>3. \A n \in DOMAIN events' : (n \in DOMAIN events /\ events'[n] = events[n]) \/ events'[n].op = "list"
    BY <2>1, <2>2
  <2>4. QED
    BY <1>1, <2>2, <2>3 DEF Base, EventsLawful
<1>4. QED
  BY <1>1, <1>2, <1>3, BaseForget

LEMMA BaseClearFolder == Base /\ FlightInv' /\ ClearFolder => BaseGoes
<1> SUFFICES ASSUME Base, FlightInv', ClearFolder PROVE BaseGoes
  OBVIOUS
<1>1. /\ work.at = "store" /\ work.cmd.op = "empty" /\ work' = Idle
      /\ rows' = {r \in rows : r.folder # work.cmd.folder}
      /\ UNCHANGED <<server, lastId, view, cache, inFlight, commands, update, amiss, call, events>>
  BY DEF ClearFolder, snapVars, chanVars
<1>2. work.cmd.folder = Trash
  BY <1>1 DEF Base, AllLawful, Lawful
<1>3. \A r \in rows' : r.folder = server[r.mail].folder /\ r.flags = server[r.mail].flags
  BY <1>1, <1>2 DEF Base, RowsSound, Storing
<1>4. events' \in Seq(Event) /\ EventsLawful'
  BY <1>1 DEF Base, EventsLawful
<1>5. QED
  BY <1>1, <1>3, <1>4, BaseForget

LEMMA InitialRows ==
  ASSUME SnapshotInit
  PROVE  /\ ServerTyped /\ rows \subseteq Row /\ RowsDiffer
         /\ \A r \in rows : r.id <= lastId /\ r.folder = server[r.mail].folder /\ r.flags = server[r.mail].flags
<1>1. PICK at \in [Mail -> Folders \cup {Nowhere}] :
        LET stored == {m \in Mail : at[m] # Nowhere} IN
          /\ server = [m \in Mail |-> [folder |-> IF m \in stored THEN at[m] ELSE Inbox, flags |-> {}]]
          /\ lastId = Cardinality(stored) /\ lastId <= MaxId
          /\ rows = {[folder |-> at[m], id |-> Cardinality({k \in stored : k <= m}),
                      mail |-> m, flags |-> {}] : m \in stored}
  BY DEF SnapshotInit
<1> DEFINE stored == {m \in Mail : at[m] # Nowhere}
           rank(m) == Cardinality({k \in stored : k <= m})
           row(m) == [folder |-> at[m], id |-> rank(m), mail |-> m, flags |-> {}]
<1>2. /\ server = [m \in Mail |-> [folder |-> IF m \in stored THEN at[m] ELSE Inbox, flags |-> {}]]
      /\ lastId = Cardinality(stored) /\ lastId <= MaxId
      /\ rows = {row(m) : m \in stored}
  BY <1>1
<1>3. stored \subseteq Mail /\ Mail \subseteq Nat /\ IsFiniteSet(stored) /\ \A m \in stored : at[m] \in Folders
  BY FS_Subset, SnapshotAssumption
<1> HIDE DEF stored
<1>4. \A m \in stored : m \in Nat
  BY <1>3
<1>5. ASSUME NEW m \in stored PROVE rank(m) \in Ids /\ rank(m) <= lastId
  <2> DEFINE S == {k \in stored : k <= m}
  <2>1. IsFiniteSet(S) /\ Cardinality(S) <= Cardinality(stored) /\ Cardinality(S) \in Nat
    BY <1>3, FS_Subset, FS_CardinalityType
  <2>2. S # {}
    BY <1>4
  <2>3. Cardinality(S) # 0
    BY <2>1, <2>2, FS_EmptySet
  <2> HIDE DEF S
  <2>4. Cardinality(S) \in 1 .. MaxId /\ Cardinality(S) <= lastId
    <3>1. lastId \in Nat
      BY <1>2, <1>3, FS_CardinalityType
    <3>2. QED
      BY <1>2, <2>1, <2>3, <3>1, SnapshotAssumption
  <2>5. QED
    BY <2>4 DEF S, Ids
<1>6. ASSUME NEW m \in stored, NEW n \in stored, m < n PROVE rank(m) # rank(n)
  <2> DEFINE S == {k \in stored : k <= m}
             T == {k \in stored : k <= n}
  <2>1. S \in SUBSET T /\ n \in T /\ n \notin S
    BY <1>4, <1>6
  <2>2. IsFiniteSet(T)
    BY <1>3, FS_Subset
  <2> HIDE DEF S, T
  <2>3. Cardinality(T) # Cardinality(S)
    BY <2>1, <2>2, FS_Subset
  <2>4. QED
    BY <2>3 DEF S, T
<1> HIDE DEF rank
<1>7. \A m, n \in stored : rank(m) = rank(n) => m = n
  BY <1>4, <1>6
<1>8. \A m \in stored : /\ row(m) \in Row /\ row(m).id = rank(m) /\ row(m).mail = m
                        /\ row(m).folder = at[m] /\ row(m).flags = {}
  BY <1>3, <1>5 DEF Row
<1>9. \A m \in stored : server[m].folder = at[m] /\ server[m].flags = {}
  BY <1>2, <1>3
<1> HIDE DEF row
<1>10. \A r \in rows : \E m \in stored : r = row(m)
  BY <1>2
<1>11. ASSUME NEW r \in rows PROVE r \in Row /\ r.id <= lastId
  <2>1. PICK m \in stored : r = row(m)
    BY <1>10
  <2>2. QED
    BY <1>5, <1>8, <2>1
<1>12. \A r \in rows : r.folder = server[r.mail].folder /\ r.flags = server[r.mail].flags
  <2> TAKE r \in rows
  <2>1. PICK m \in stored : r = row(m)
    BY <1>10
  <2>2. r.mail = m /\ r.folder = at[m] /\ r.flags = {}
    BY <1>8, <2>1
  <2>3. server[m].folder = at[m] /\ server[m].flags = {}
    BY <1>9
  <2>4. QED
    BY <2>2, <2>3
<1>13. RowsDiffer
  BY <1>7, <1>8, <1>10 DEF RowsDiffer
<1>14. ServerTyped
  <2>1. \A m \in Mail : [folder |-> IF m \in stored THEN at[m] ELSE Inbox, flags |-> {}]
                          \in [folder : Folders \cup {Nowhere}, flags : SUBSET Flags]
    BY <1>3, SnapshotAssumption
  <2>2. QED
    BY <1>2, <2>1 DEF ServerTyped
<1>15. QED
  BY <1>11, <1>12, <1>13, <1>14

LEMMA BaseInit == SnapshotInit => Base
<1> SUFFICES ASSUME SnapshotInit PROVE Base
  OBVIOUS
<1>1. /\ ServerTyped /\ rows \subseteq Row /\ RowsDiffer
      /\ \A r \in rows : r.id <= lastId /\ r.folder = server[r.mail].folder /\ r.flags = server[r.mail].flags
  BY InitialRows
<1>2. /\ view = [f \in Folders |-> Listed(f)]
      /\ cache = {} /\ inFlight = {} /\ commands = <<>> /\ call = NoCall
      /\ events = <<>> /\ update = NoUpdate /\ work = Idle /\ amiss = FALSE
  BY DEF SnapshotInit
<1>3. \A f \in Folders :
        /\ Listed(f) \in Seq(Entry) /\ Sorted(Listed(f))
        /\ \A n \in DOMAIN Listed(f) : \E r \in rows : r.folder = f /\ Listed(f)[n] = EntryOf(r)
  BY <1>1, ListedSorted
<1>4. ListsTyped /\ ListsSorted
  <2>1. <<>> \in Seq(Entry) /\ Sorted(<<>>)
    BY EmptySeq DEF Sorted
  <2>2. view \in [Folders -> Seq(Entry)] /\ \A f \in Folders : Sorted(view[f])
    BY <1>2, <1>3
  <2>3. QED
    BY <1>2, <2>1, <2>2, IdleIs DEF ListsTyped, ListsSorted
<1>5. OtherTyped /\ events \in Seq(Event) /\ EventsLawful
  <2>1. <<>> \in Seq(Event) /\ <<>> \in Seq(Command) /\ \A n \in DOMAIN <<>> : FALSE
    BY EmptySeq
  <2>2. events \in Seq(Event) /\ EventsLawful
    BY <1>2, <2>1 DEF EventsLawful
  <2>3. OtherTyped
    BY <1>2, <2>1, IdleIs DEF OtherTyped
  <2>4. QED
    BY <2>2, <2>3
<1>6. AllLawful
  BY <1>2, IdleIs DEF AllLawful
<1>7. ASSUME NEW i \in Ids, NEW m \in Mail, Named(i, m) PROVE \E r \in rows : r.id = i /\ r.mail = m
  <2>1. NoRow.id \notin Ids
    BY IdleIs DEF Ids
  <2>2. ~NamedIn(update.list, i, m) /\ ~(work.row.id = i)
    BY <1>2, <2>1, IdleIs DEF NamedIn
  <2>3. ASSUME NEW f \in Folders, NamedIn(view[f], i, m) PROVE \E r \in rows : r.id = i /\ r.mail = m
    <3>1. PICK n \in DOMAIN Listed(f) : Listed(f)[n].id = i /\ Listed(f)[n].mail = m
      BY <1>2, <2>3 DEF NamedIn
    <3>2. PICK r \in rows : Listed(f)[n] = EntryOf(r)
      BY <1>3, <3>1
    <3>3. QED
      BY <3>1, <3>2 DEF EntryOf
  <2>4. QED
    BY <1>7, <2>2, <2>3 DEF Named
<1>8. IdsMeanMail
  BY <1>1, <1>7 DEF IdsMeanMail, RowsDiffer
<1>9. RowsSound /\ WorkSound
  BY <1>1, <1>2, IdleIs DEF RowsSound, WorkSound, Storing
<1>10. QED
  BY <1>1, <1>4, <1>5, <1>6, <1>8, <1>9, FlightInit DEF Base

LEMMA FlightNext == FlightInv /\ [SnapshotNext]_snapshotVars => FlightInv'
<1> SUFFICES ASSUME FlightInv, [SnapshotNext]_snapshotVars PROVE FlightInv'
  OBVIOUS
<1>1. CASE UNCHANGED snapshotVars
  BY <1>1, FlightWork DEF snapshotVars, storeVars, chanVars, taskVars
<1>2. QED
  BY <1>1, FlightSync, FlightEvents, FlightWorker, FlightDataSource DEF SnapshotNext

LEMMA BaseNext == Base /\ [SnapshotNext]_snapshotVars => BaseGoes
<1> SUFFICES ASSUME Base, [SnapshotNext]_snapshotVars PROVE BaseGoes
  OBVIOUS
<1>1. FlightInv'
  BY FlightNext DEF Base
<1>2. CASE UNCHANGED snapshotVars
  BY <1>2, BaseStutters
<1>3. CASE Sync
  BY <1>1, <1>3, BaseStoreEnvelope DEF Sync
<1>4. CASE EventTask
  BY <1>1, <1>4, BaseReadFolder, BaseWriteFolder, BaseWriteFlags, BaseCacheFetched DEF EventTask
<1>5. CASE CommandWorker
  BY <1>1, <1>5, BaseReceive, BaseAtServer, BaseCommandFails, BaseStoreBody, BaseStoreFlag,
     BaseForgetMoved, BaseClearFolder, BasePutRelease DEF CommandWorker
<1>6. CASE DataSource
  <2>1. CASE CallGoesOn \/ EmptyTrashCall
    BY <1>1, <2>1, BaseMoveShown, BaseCallEnds, BaseEmptyTrashCall DEF CallGoesOn
  <2>2. ASSUME NEW i \in 1 .. lastId,
               \/ DeleteMessage(i) \/ ToggleFlag(i) \/ MissBody(i)
               \/ \E d \in Folders : MoveMessage(i, d)
               \/ \E seen \in BOOLEAN : SetSeen(i, seen)
        PROVE  BaseGoes
    <3>1. CASE DeleteMessage(i) \/ MissBody(i) \/ \E d \in Folders : MoveMessage(i, d)
      BY <1>1, <3>1, BaseCalls, SnapshotAssumption DEF DeleteMessage
    <3>2. CASE ToggleFlag(i) \/ \E seen \in BOOLEAN : SetSeen(i, seen)
      <4>1. \E flag, add : add \in BOOLEAN /\ ChangeFlag(i, flag, add)
        BY <3>2 DEF ToggleFlag, SetSeen
      <4>2. QED
        BY <1>1, <4>1, BaseChangeFlag
    <3>3. QED
      BY <2>2, <3>1, <3>2
  <2>3. QED
    BY <1>6, <2>1, <2>2 DEF DataSource
<1>7. QED
  BY <1>2, <1>3, <1>4, <1>5, <1>6 DEF SnapshotNext

-----------------------------------------------------------------------------
(* What is still to come for the lists.                                      *)

\* The command has been given and the engine has not begun with it.
Ahead(c) == StillToDo(c) \/ (call.at = "send" /\ call.cmd = c)

\* The engine will refuse a change, or is done with one that is not shown yet.
Doomed ==
  \/ \E c \in Command : Ahead(c) /\ c.op \in {"flag", "move"} /\ \A r \in rows : r.id # c.id
  \/ call.at = "move" /\ ~StillToDo(call.cmd)

FlagPending(i) ==
  \/ \E c \in Command : Ahead(c) /\ c.op = "flag" /\ c.id = i
  \/ Storing("flag") /\ work.cmd.id = i
EmptyPending == Storing("empty") \/ \E c \in Command : Ahead(c) /\ c.op = "empty"
MovePending(f, m) ==
  \/ \E c \in Command : /\ Ahead(c) /\ c.op = "move"
                        /\ \E r \in rows : r.id = c.id /\ r.mail = m /\ f \in {r.folder, c.dest}
  \/ Storing("move") /\ work.row.mail = m /\ work.row.folder = f

\* A list of f, or a sync, is to come for m.
Excused(f, m) ==
  \/ ListIn(events, f) \/ MovePending(f, m)
  \/ f = server[m].folder /\ \A r \in rows : ~(r.folder = f /\ r.mail = m)
  \/ f = Trash /\ EmptyPending

\* The list of f once the event task has written.
Coming(f) == IF update.folder = f THEN update.list ELSE view[f]

Placed(r) ==
  /\ Once(Coming(r.folder), r.id)
  /\ \/ Flagged(Coming(r.folder), r.id, r.flags)
     \/ FlagPending(r.id)
     \/ FlagsIn(events, r.id) # {}

NoStray(f, m) ==
  \A n \in DOMAIN Coming(f) : Coming(f)[n].mail = m =>
    \E r \in rows : r.folder = f /\ r.mail = m /\ r.id = Coming(f)[n].id

\* That list has what is stored of m in f.
Settled(f, m) ==
  /\ \A r \in rows : r.folder = f /\ r.mail = m => Placed(r)
  /\ f # Trash => NoStray(f, m)

LastWord(r) == FlagPending(r.id) \/ LastIn(events, r.id, r.flags)

\* Every message of every folder is settled, or something is to come that will
\* settle it; and unless its flags are yet to be changed at the server, the last
\* event on the way says what is stored of them.
Good == /\ \A f \in Folders, m \in Mail : Excused(f, m) \/ Settled(f, m)
        /\ \A r \in rows : LastWord(r)

AllGood == amiss \/ Doomed \/ Good

-----------------------------------------------------------------------------
(* What is to come, stays.                                                   *)

AheadStays   == \A c \in Command : c.op # "body" /\ Ahead(c) => Ahead(c)'
StoringStays == \A op \in {"flag", "move", "empty"} : Storing(op) => work' = work

LEMMA PendingStays ==
  ASSUME AheadStays, StoringStays
  PROVE  /\ \A i : FlagPending(i) => FlagPending(i)'
         /\ EmptyPending => EmptyPending'
         /\ UNCHANGED rows => \A f, m : MovePending(f, m) => MovePending(f, m)'
<1>1. \A op \in {"flag", "move", "empty"} : Storing(op) => Storing(op)' /\ work' = work
  BY DEF StoringStays, Storing
<1>2. \A i : FlagPending(i) => FlagPending(i)'
  <2> SUFFICES ASSUME NEW i, FlagPending(i) PROVE FlagPending(i)'
    OBVIOUS
  <2>1. CASE Storing("flag") /\ work.cmd.id = i
    BY <1>1, <2>1 DEF FlagPending
  <2>2. CASE \E c \in Command : Ahead(c) /\ c.op = "flag" /\ c.id = i
    BY <2>2 DEF AheadStays, FlagPending
  <2>3. QED
    BY <2>1, <2>2 DEF FlagPending
<1>3. EmptyPending => EmptyPending'
  BY <1>1 DEF AheadStays, EmptyPending
<1>4. ASSUME UNCHANGED rows, NEW f, NEW m, MovePending(f, m) PROVE MovePending(f, m)'
  <2>1. CASE Storing("move") /\ work.row.mail = m /\ work.row.folder = f
    BY <1>1, <2>1 DEF MovePending
  <2>2. CASE \E c \in Command : /\ Ahead(c) /\ c.op = "move"
                                /\ \E r \in rows : r.id = c.id /\ r.mail = m /\ f \in {r.folder, c.dest}
    BY <1>4, <2>2 DEF AheadStays, MovePending
  <2>3. QED
    BY <1>4, <2>1, <2>2 DEF MovePending
<1>5. QED
  BY <1>2, <1>3, <1>4

LEMMA ExcuseStays ==
  ASSUME UNCHANGED <<rows, server>>, AheadStays, StoringStays,
         NEW f, NEW m, Excused(f, m), ListIn(events, f) => ListIn(events', f)
  PROVE  Excused(f, m)'
BY PendingStays DEF Excused

LEMMA PlacedStays ==
  ASSUME AheadStays, StoringStays, NEW r, Placed(r), Coming(r.folder)' = Coming(r.folder),
         FlagsIn(events, r.id) # {} => FlagsIn(events', r.id) # {}
  PROVE  Placed(r)'
BY PendingStays DEF Placed

LEMMA SettledStays ==
  ASSUME UNCHANGED rows, AheadStays, StoringStays, NEW f, NEW m, Settled(f, m), Coming(f)' = Coming(f),
         \A i : FlagsIn(events, i) # {} => FlagsIn(events', i) # {}
  PROVE  Settled(f, m)'
<1>1. \A r \in rows : r.folder = f /\ r.mail = m => Placed(r)'
  <2> TAKE r \in rows
  <2> HAVE r.folder = f /\ r.mail = m
  <2>1. Placed(r) /\ Coming(r.folder)' = Coming(r.folder)
    BY DEF Settled
  <2>2. QED
    BY <2>1, PlacedStays
<1>2. NoStray(f, m) => NoStray(f, m)'
  BY DEF NoStray
<1>3. QED
  BY <1>1, <1>2 DEF Settled

LEMMA LastWordStays ==
  ASSUME AheadStays, StoringStays, NEW r, LastWord(r),
         LastIn(events, r.id, r.flags) => LastIn(events', r.id, r.flags)
  PROVE  LastWord(r)'
BY PendingStays DEF LastWord

\* The queue of events loses nothing the lists wait for.
EventsStay ==
  /\ \A f : ListIn(events, f) => ListIn(events', f)
  /\ \A i : FlagsIn(events, i) # {} => FlagsIn(events', i) # {}
  /\ \A i, flags : LastIn(events, i, flags) => LastIn(events', i, flags)

LEMMA Onward ==
  ASSUME Good, UNCHANGED <<rows, server>>, AheadStays, StoringStays, EventsStay,
         \A f \in Folders : Coming(f)' = Coming(f)
  PROVE  Good'
<1>1. ASSUME NEW f \in Folders, NEW m \in Mail PROVE Excused(f, m)' \/ Settled(f, m)'
  <2>1. CASE Excused(f, m)
    BY <2>1, ExcuseStays DEF EventsStay
  <2>2. CASE Settled(f, m)
    BY <2>2, SettledStays DEF EventsStay
  <2>3. QED
    BY <2>1, <2>2 DEF Good
<1>2. \A r \in rows : LastWord(r)'
  BY LastWordStays DEF Good, EventsStay
<1>3. QED
  BY <1>1, <1>2 DEF Good

\* A change that will be refused stays one.
LEMMA DoomStays ==
  ASSUME Doomed,
         \A c \in Command : c.op \in {"flag", "move"} /\ Ahead(c) /\ (\A r \in rows : r.id # c.id) => Ahead(c)',
         \A c \in Command : Ahead(c) /\ c.op \in {"flag", "move"} /\ (\A r \in rows : r.id # c.id)
                            => \A r \in rows' : r.id # c.id,
         call.at = "move" /\ ~StillToDo(call.cmd) => amiss' \/ (call' = call /\ ~StillToDo(call.cmd)')
  PROVE  amiss' \/ Doomed'
<1>1. CASE \E c \in Command : Ahead(c) /\ c.op \in {"flag", "move"} /\ \A r \in rows : r.id # c.id
  <2>1. PICK c \in Command : Ahead(c) /\ c.op \in {"flag", "move"} /\ \A r \in rows : r.id # c.id
    BY <1>1
  <2>2. Ahead(c)' /\ \A r \in rows' : r.id # c.id
    BY <2>1
  <2>3. QED
    BY <2>1, <2>2 DEF Doomed
<1>2. CASE call.at = "move" /\ ~StillToDo(call.cmd)
  BY <1>2 DEF Doomed
<1>3. QED
  BY <1>1, <1>2 DEF Doomed

-----------------------------------------------------------------------------
(* Where the commands go.                                                    *)

LEMMA AheadUnmoved ==
  ASSUME UNCHANGED <<commands, call>>, work' = work \/ work.at # "server"
  PROVE  AheadStays
BY DEF AheadStays, Ahead, StillToDo

LEMMA AheadSent ==
  ASSUME Base, UNCHANGED work, UNCHANGED commands \/ (\E c \in Command : Send(c)),
         call.at = "send" => Send(call.cmd)
  PROVE  AheadStays
<1>1. ASSUME NEW c \in Command, Send(c)
      PROVE  /\ \A n \in DOMAIN commands : n \in DOMAIN commands' /\ commands'[n] = commands[n]
             /\ \E n \in DOMAIN commands' : commands'[n] = c
  BY <1>1, SentLawful DEF Base, FlightInv
<1>2. \A c \in Command : StillToDo(c) => StillToDo(c)'
  BY <1>1 DEF StillToDo
<1>3. ASSUME NEW c \in Command, call.at = "send", call.cmd = c PROVE StillToDo(c)'
  BY <1>1, <1>3 DEF StillToDo
<1>4. QED
  BY <1>2, <1>3 DEF AheadStays, Ahead

LEMMA AheadReceived ==
  ASSUME Base, Receive
  PROVE  \A c \in Command : StillToDo(c)' <=> StillToDo(c)
<1>1. /\ work.at = "recv" /\ commands # <<>> /\ commands' = Tail(commands) /\ commands \in Seq(Command)
      /\ work' = [cmd |-> Head(commands), row |-> NoRow, at |-> "server"]
  BY DEF Receive, Base, FlightInv
<1>2. /\ DOMAIN commands = 1 .. Len(commands) /\ Len(commands) \in Nat /\ Len(commands) > 0
      /\ DOMAIN commands' = 1 .. Len(commands) - 1
      /\ \A n \in 1 .. Len(commands) - 1 : commands'[n] = commands[n + 1]
      /\ Head(commands) = commands[1]
  BY <1>1
<1>3. work'.at = "server" /\ work'.cmd = commands[1]
  BY <1>1, <1>2
<1>4. \A n \in DOMAIN commands : n = 1 \/ (n - 1 \in DOMAIN commands' /\ commands'[n - 1] = commands[n])
  <2> TAKE n \in DOMAIN commands
  <2>1. n = 1 \/ (n - 1 \in 1 .. Len(commands) - 1 /\ (n - 1) + 1 = n)
    BY <1>2
  <2>2. QED
    BY <1>2, <2>1
<1>5. \A n \in DOMAIN commands' : n + 1 \in DOMAIN commands /\ commands'[n] = commands[n + 1]
  BY <1>2
<1>6. 1 \in DOMAIN commands
  BY <1>2
<1>7. ASSUME NEW c \in Command
      PROVE  /\ StillToDo(c) <=> \E n \in DOMAIN commands : commands[n] = c
             /\ StillToDo(c)' <=> (\E n \in DOMAIN commands' : commands'[n] = c) \/ commands[1] = c
  BY <1>1, <1>3 DEF StillToDo
<1>8. ASSUME NEW c \in Command
      PROVE  (\E n \in DOMAIN commands : commands[n] = c) <=>
               ((\E n \in DOMAIN commands' : commands'[n] = c) \/ commands[1] = c)
  BY <1>4, <1>5, <1>6
<1>9. QED
  BY <1>7, <1>8

-----------------------------------------------------------------------------
(* The steps that leave the rows and the server alone.                       *)

\* What there is to show that a step that keeps what is to come is all right.
LEMMA GoesOn ==
  ASSUME AllGood, amiss => amiss', UNCHANGED <<rows, server>>, AheadStays, StoringStays, EventsStay,
         \A f \in Folders : Coming(f)' = Coming(f),
         call.at = "move" /\ ~StillToDo(call.cmd) => amiss' \/ (call' = call /\ ~StillToDo(call.cmd)')
  PROVE  AllGood'
<1>1. CASE amiss
  BY <1>1 DEF AllGood
<1>2. CASE Doomed
  BY <1>2, DoomStays DEF AllGood, AheadStays
<1>3. CASE Good
  BY <1>3, Onward DEF AllGood
<1>4. QED
  BY <1>1, <1>2, <1>3 DEF AllGood

LEMMA ComingKept == UNCHANGED <<view, update>> => \A f : Coming(f)' = Coming(f)
BY DEF Coming

LEMMA EventsKept == UNCHANGED events => EventsStay
BY DEF EventsStay

LEMMA StoringKept == UNCHANGED work \/ NotStoring => StoringStays
BY DEF StoringStays, Storing, NotStoring

LEMMA GoodStutters == AllGood /\ UNCHANGED snapshotVars => AllGood'
<1> SUFFICES ASSUME AllGood, UNCHANGED snapshotVars PROVE AllGood'
  OBVIOUS
<1>1. UNCHANGED <<rows, server, view, update, events, commands, call, work, amiss>>
  BY DEF snapshotVars, storeVars, snapVars, chanVars, taskVars
<1>2. AheadStays /\ StoringStays /\ EventsStay
  BY <1>1, AheadUnmoved, StoringKept, EventsKept
<1>3. ~StillToDo(call.cmd) => ~StillToDo(call.cmd)'
  BY <1>1 DEF StillToDo
<1>4. QED
  BY <1>1, <1>2, <1>3, ComingKept, GoesOn

LEMMA GoodReceive == Base /\ AllGood /\ Receive => AllGood'
<1> SUFFICES ASSUME Base, AllGood, Receive PROVE AllGood'
  OBVIOUS
<1>1. work.at = "recv" /\ UNCHANGED <<rows, server, view, update, events, call, amiss>>
  BY DEF Receive, storeVars, snapVars
<1>2. \A c \in Command : StillToDo(c)' <=> StillToDo(c)
  BY AheadReceived
<1>3. AheadStays
  BY <1>1, <1>2 DEF AheadStays, Ahead
<1>4. StoringStays /\ EventsStay
  BY <1>1, StoringKept, EventsKept DEF NotStoring
<1>5. ~StillToDo(call.cmd) => ~StillToDo(call.cmd)'
  <2> DEFINE c == call.cmd
  <2>1. c \in Command /\ call'.cmd = c
    BY <1>1 DEF Base, FlightInv, CallIsFor
  <2>2. StillToDo(call.cmd)' <=> StillToDo(c)'
    BY <2>1 DEF StillToDo
  <2>3. QED
    BY <1>2, <2>1, <2>2
<1>6. QED
  BY <1>1, <1>3, <1>4, <1>5, ComingKept, GoesOn

\* command_worker goes on with a body.
LEMMA GoodBody ==
  ASSUME Base, AllGood, UNCHANGED <<rows, server, view, update, commands, call, amiss>>, EventsStay,
         work.cmd.op = "body", work'.at # "server"
  PROVE  AllGood'
<1>1. AheadStays
  BY DEF AheadStays, Ahead, StillToDo
<1>2. StoringStays
  BY StoringKept DEF NotStoring
<1>3. ~StillToDo(call.cmd) => ~StillToDo(call.cmd)'
  BY DEF StillToDo
<1>4. QED
  BY <1>1, <1>2, <1>3, ComingKept, GoesOn

LEMMA GoodCommandFails == Base /\ AllGood /\ CommandFails => AllGood'
<1> SUFFICES ASSUME Base, AllGood, CommandFails PROVE AllGood'
  OBVIOUS
<1>1. CASE work.cmd.op = "body"
  <2>1. /\ UNCHANGED <<rows, server, view, update, commands, call, amiss, events>>
        /\ work' = [work EXCEPT !.at = "release"]
    BY <1>1 DEF CommandFails, WorkerGoes, storeVars, snapVars, chanVars
  <2>2. work'.at # "server"
    BY <2>1, WorkGoesIs DEF Base, FlightInv
  <2>3. QED
    BY <1>1, <2>1, <2>2, EventsKept, GoodBody
<1>2. CASE work.cmd.op # "body"
  BY <1>2 DEF CommandFails, AllGood
<1>3. QED
  BY <1>1, <1>2

LEMMA GoodStoreBody == Base /\ AllGood /\ StoreBody => AllGood'
<1> SUFFICES ASSUME Base, AllGood, StoreBody PROVE AllGood'
  OBVIOUS
<1> DEFINE e == [op |-> "fetched", id |-> work.cmd.id]
<1>1. /\ work.at = "store" /\ work.cmd.op = "body" /\ Post(e)
      /\ work' = [work EXCEPT !.at = "put"]
      /\ UNCHANGED <<rows, server, view, update, commands, call, amiss>>
  BY DEF StoreBody, WorkerGoes, storeVars, snapVars, chanVars
<1>2. work'.at # "server"
  BY <1>1, WorkGoesIs DEF Base, FlightInv
<1>3. EventsStay
  <2>1. e \in Event /\ e.op = "fetched"
    <3>1. work.cmd.id \in Ids
      BY <1>1, ACommand DEF Base, FlightInv, WorkIsFor
    <3>2. QED
      BY <3>1 DEF Event
  <2> HIDE DEF e
  <2>2. QED
    BY <1>1, <2>1, PostedMeans DEF Base, EventsStay
<1>4. QED
  BY <1>1, <1>2, <1>3, GoodBody

LEMMA GoodPutRelease == Base /\ AllGood /\ (PutBody \/ Release) => AllGood'
<1> SUFFICES ASSUME Base, AllGood, PutBody \/ Release PROVE AllGood'
  OBVIOUS
<1>1. /\ work.at \in {"put", "release"}
      /\ work' = Idle \/ work' = [work EXCEPT !.at = "release"]
      /\ UNCHANGED <<rows, server, view, update, commands, call, events, amiss>>
  BY DEF PutBody, Release, WorkerGoes, storeVars, snapVars, chanVars
<1>2. work'.at # "server" /\ work.cmd.op = "body"
  BY <1>1, IdleIs, WorkGoesIs DEF Base, FlightInv, WorkIsFor
<1>3. QED
  BY <1>1, <1>2, EventsKept, GoodBody

\* The queue after the event task has taken an event that is of no flags and no list.
LEMMA GoodCacheFetched == Base /\ AllGood /\ CacheFetched => AllGood'
<1> SUFFICES ASSUME Base, AllGood, CacheFetched PROVE AllGood'
  OBVIOUS
<1>1. /\ events # <<>> /\ events' = Tail(events) /\ Head(events).op = "fetched"
      /\ UNCHANGED <<rows, server, view, update, commands, call, work, amiss>>
  BY DEF CacheFetched, storeVars, chanVars
<1>2. EventsStay
  BY <1>1, TakenMeans DEF Base, EventsStay
<1>3. AheadStays /\ StoringStays
  BY <1>1, AheadUnmoved, StoringKept
<1>4. ~StillToDo(call.cmd) => ~StillToDo(call.cmd)'
  BY <1>1 DEF StillToDo
<1>5. QED
  BY <1>1, <1>2, <1>3, <1>4, ComingKept, GoesOn

LEMMA GoodWriteFolder == Base /\ AllGood /\ WriteFolder => AllGood'
<1> SUFFICES ASSUME Base, AllGood, WriteFolder PROVE AllGood'
  OBVIOUS
<1>1. update' = NoUpdate /\ UNCHANGED <<rows, server, events, commands, call, work, amiss>>
  BY DEF WriteFolder, storeVars, chanVars
<1>2. \A f \in Folders : view'[f] = IF f = update.folder THEN update.list ELSE view[f]
  BY WrittenIs
<1>3. \A f \in Folders : Coming(f)' = Coming(f)
  BY <1>1, <1>2, IdleIs, SnapshotAssumption DEF Coming
<1>4. AheadStays /\ StoringStays /\ EventsStay
  BY <1>1, AheadUnmoved, StoringKept, EventsKept
<1>5. ~StillToDo(call.cmd) => ~StillToDo(call.cmd)'
  BY <1>1 DEF StillToDo
<1>6. QED
  BY <1>1, <1>3, <1>4, <1>5, GoesOn

\* A call that leaves the lists alone.
LEMMA GoodAsks ==
  ASSUME Base, AllGood, UNCHANGED <<storeVars, snapVars, taskVars>>, call.at # "move",
         UNCHANGED commands \/ (\E c \in Command : Send(c)),
         call.at = "send" => Send(call.cmd)
  PROVE  AllGood'
<1>1. UNCHANGED <<rows, server, view, update, events, work, amiss>>
  BY DEF storeVars, snapVars, taskVars
<1>2. AheadStays
  BY <1>1, AheadSent
<1>3. StoringStays /\ EventsStay
  BY <1>1, StoringKept, EventsKept
<1>4. QED
  BY <1>1, <1>2, <1>3, ComingKept, GoesOn

LEMMA GoodCallEnds == Base /\ AllGood /\ (SendCommand \/ AskBody) => AllGood'
<1> SUFFICES ASSUME Base, AllGood, SendCommand \/ AskBody PROVE AllGood'
  OBVIOUS
<1>1. /\ UNCHANGED commands \/ Send(call.cmd)
      /\ UNCHANGED <<storeVars, snapVars, taskVars>>
      /\ call.at \in {"send", "ask"} /\ (call.at = "send" => Send(call.cmd))
  BY DEF SendCommand, AskBody
<1>2. call.cmd \in Command
  BY DEF Base, FlightInv, CallIsFor
<1>3. QED
  BY <1>1, <1>2, GoodAsks

LEMMA GoodCalls ==
  ASSUME Base, AllGood, NEW i \in 1 .. lastId,
         MissBody(i) \/ (\E d \in Folders : MoveMessage(i, d))
  PROVE  AllGood'
<1>1. ASSUME MissBody(i) PROVE AllGood'
  <2>1. call = NoCall /\ UNCHANGED <<storeVars, snapVars, chanVars, taskVars>>
    BY <1>1 DEF MissBody
  <2>2. QED
    BY <2>1, IdleIs, GoodAsks DEF chanVars
<1>2. ASSUME NEW d \in Folders, MoveMessage(i, d) PROVE AllGood'
  <2>1. call = NoCall /\ Send(Move(i, d)) /\ UNCHANGED <<storeVars, snapVars, taskVars>>
    BY <1>2 DEF MoveMessage
  <2>2. Move(i, d) \in Command
    BY SnapshotAssumption DEF Base, FlightInv, Ids, Command, Move
  <2>3. QED
    BY <2>1, <2>2, IdleIs, GoodAsks
<1>3. QED
  BY <1>1, <1>2

-----------------------------------------------------------------------------
(* The steps that change the lists.                                          *)

LEMMA ListedSettled ==
  ASSUME rows \subseteq Row, RowsDiffer, NEW f
  PROVE  /\ \A r \in rows : r.folder = f => Once(Listed(f), r.id) /\ Flagged(Listed(f), r.id, r.flags)
         /\ \A n \in DOMAIN Listed(f) :
              \E r \in rows : r.folder = f /\ r.mail = Listed(f)[n].mail /\ r.id = Listed(f)[n].id
<1> DEFINE l == Listed(f)
<1>0. ASSUME NEW r \in rows, r.folder = f PROVE \E n \in DOMAIN l : l[n] = EntryOf(r)
  BY <1>0, ListedSorted, Zenon
<1>1. \A n \in DOMAIN l : \E r \in rows : r.folder = f /\ l[n] = EntryOf(r)
  BY ListedSorted
<1>2. /\ \A n, k \in DOMAIN l : n < k => Newer(l[n], l[k])
      /\ DOMAIN l = 1 .. Cardinality(Stored(f)) /\ OneEach(Stored(f))
  BY ListedIs
<1>3. \A n, k \in DOMAIN l : l[n] = l[k] => n = k
  <2> SUFFICES ASSUME NEW n \in DOMAIN l, NEW k \in DOMAIN l, l[n] = l[k] PROVE n = k
    OBVIOUS
  <2>1. Cardinality(Stored(f)) \in Nat
    BY <1>2, RanksFill
  <2>2. n \in Nat /\ k \in Nat
    BY <1>2, <2>1
  <2>3. l[n].mail \in Nat
    <3>1. PICK r \in rows : l[n] = EntryOf(r)
      BY <1>1
    <3>2. l[n].mail = r.mail /\ r.mail \in Mail
      BY <3>1 DEF EntryOf, Row
    <3>3. QED
      BY <3>2, SnapshotAssumption
  <2>4. ~(n < k) /\ ~(k < n)
    BY <1>2, <2>3 DEF Newer
  <2>5. QED
    BY <2>2, <2>4
<1> HIDE DEF l
<1>4. ASSUME NEW r \in rows, r.folder = f PROVE Once(l, r.id) /\ Flagged(l, r.id, r.flags)
  <2>1. PICK n \in DOMAIN l : l[n] = EntryOf(r)
    BY <1>0, <1>4
  <2>2. ASSUME NEW k \in DOMAIN l, l[k].id = r.id PROVE k = n /\ l[k].flags = r.flags
    <3>1. PICK q \in rows : l[k] = EntryOf(q)
      BY <1>1
    <3>2. q = r
      BY <2>2, <3>1 DEF EntryOf, RowsDiffer
    <3>3. QED
      BY <1>3, <2>1, <3>1, <3>2 DEF EntryOf
  <2>3. l[n].id = r.id
    BY <2>1 DEF EntryOf
  <2>4. QED
    BY <2>2, <2>3 DEF Once, Flagged
<1>5. ASSUME NEW n \in DOMAIN l
      PROVE  \E r \in rows : r.folder = f /\ r.mail = l[n].mail /\ r.id = l[n].id
  <2>1. PICK r \in rows : r.folder = f /\ l[n] = EntryOf(r)
    BY <1>1
  <2>2. QED
    BY <2>1 DEF EntryOf
<1>6. QED
  BY <1>4, <1>5 DEF l

LEMMA GoodReadFolder == Base /\ AllGood /\ ReadFolder => AllGood'
<1> SUFFICES ASSUME Base, AllGood, ReadFolder PROVE AllGood'
  OBVIOUS
<1>0. PICK f : f = Head(events).folder
  OBVIOUS
<1>1. /\ update = NoUpdate /\ events # <<>> /\ events' = Tail(events) /\ Head(events).op = "list"
      /\ update' = [folder |-> f, list |-> Listed(f)]
      /\ UNCHANGED <<server, rows, view, commands, call, work, amiss>>
  BY <1>0 DEF ReadFolder, storeVars, snapVars, chanVars
<1>2. update'.list = Listed(f) /\ update'.folder = f
  BY <1>1
<1>3. /\ \A g : g # f /\ ListIn(events, g) => ListIn(events', g)
      /\ \A i : FlagsIn(events, i) # {} => FlagsIn(events', i) # {}
      /\ \A i, flags : LastIn(events, i, flags) => LastIn(events', i, flags)
  BY <1>0, <1>1, TakenMeans DEF Base
<1>4. AheadStays /\ StoringStays
  BY <1>1, AheadUnmoved, StoringKept
<1>5. /\ Coming(f)' = Listed(f)
      /\ \A g \in Folders : g # f => Coming(g)' = Coming(g)
  BY <1>1, <1>2, IdleIs, SnapshotAssumption DEF Coming
<1>6. /\ \A r \in rows : r.folder = f => Once(Listed(f), r.id) /\ Flagged(Listed(f), r.id, r.flags)
      /\ \A n \in DOMAIN Listed(f) :
           \E r \in rows : r.folder = f /\ r.mail = Listed(f)[n].mail /\ r.id = Listed(f)[n].id
  BY ListedSettled DEF Base
<1>7. ASSUME NEW m PROVE Settled(f, m)'
  <2>1. \A r \in rows : r.folder = f => Placed(r)'
    BY <1>5, <1>6 DEF Placed
  <2>2. NoStray(f, m)'
    BY <1>1, <1>5, <1>6 DEF NoStray
  <2>3. QED
    BY <1>1, <2>1, <2>2 DEF Settled
<1>8. CASE Good
  <2>1. ASSUME NEW g \in Folders, NEW m \in Mail, g # f PROVE Excused(g, m)' \/ Settled(g, m)'
    <3>1. CASE Excused(g, m)
      BY <1>1, <1>3, <1>4, <2>1, <3>1, ExcuseStays
    <3>2. CASE Settled(g, m)
      BY <1>1, <1>3, <1>4, <1>5, <2>1, <3>2, SettledStays
    <3>3. QED
      BY <1>8, <3>1, <3>2 DEF Good
  <2>2. \A r \in rows : LastWord(r)'
    BY <1>3, <1>4, <1>8, LastWordStays DEF Good
  <2>3. Good'
    BY <1>1, <1>7, <2>1, <2>2 DEF Good
  <2>4. QED
    BY <2>3 DEF AllGood
<1>9. CASE Doomed
  <2>1. ~StillToDo(call.cmd) => ~StillToDo(call.cmd)'
    BY <1>1 DEF StillToDo
  <2>2. amiss' \/ Doomed'
    BY <1>1, <1>4, <1>9, <2>1, DoomStays DEF AheadStays
  <2>3. QED
    BY <2>2 DEF AllGood
<1>10. QED
  BY <1>1, <1>8, <1>9 DEF AllGood

\* Flags change in the lists, first entry of id i.
LEMMA SettledReflagged ==
  ASSUME AheadStays, StoringStays, UNCHANGED <<rows, update>>, NEW i, NEW new, NEW f, NEW m, Settled(f, m),
         Reflags(view[f], view'[f], i, new),
         \A j : j # i /\ FlagsIn(events, j) # {} => FlagsIn(events', j) # {},
         \A r \in rows : r.folder = f /\ r.id = i /\ Placed(r) =>
            Flagged(Coming(f)', i, r.flags) \/ FlagPending(i)' \/ FlagsIn(events', i) # {}
  PROVE  Settled(f, m)'
<1> DEFINE l == Coming(f)
           t == Coming(f)'
<1>1. /\ DOMAIN t = DOMAIN l
      /\ \A n \in DOMAIN l : t[n].id = l[n].id /\ t[n].mail = l[n].mail
      /\ \A n \in DOMAIN l : l[n].id # i => t[n] = l[n]
      /\ \A j : Once(l, j) => Once(t, j)
  BY DEF Coming, Reflags
<1>2. ASSUME NEW r \in rows, r.folder = f, r.mail = m PROVE Placed(r)'
  <2>1. Placed(r)
    BY <1>2 DEF Settled
  <2>2. Once(t, r.id)
    BY <1>1, <1>2, <2>1 DEF Placed
  <2>3. CASE r.id = i
    BY <1>2, <2>1, <2>2, <2>3 DEF Placed
  <2>4. CASE r.id # i
    <3>1. Flagged(l, r.id, r.flags) => Flagged(t, r.id, r.flags)
      BY <1>1, <2>4 DEF Flagged
    <3>2. FlagPending(r.id) => FlagPending(r.id)'
      BY PendingStays
    <3> HIDE DEF l, t
    <3>3. Coming(r.folder) = l /\ Coming(r.folder)' = t
      BY <1>2 DEF l, t
    <3>4. QED
      BY <2>1, <2>2, <2>4, <3>1, <3>2, <3>3 DEF Placed
  <2>5. QED
    BY <2>3, <2>4
<1>3. NoStray(f, m) => NoStray(f, m)'
  BY <1>1 DEF NoStray
<1>4. QED
  BY <1>2, <1>3 DEF Settled

LEMMA GoodWriteFlags == Base /\ AllGood /\ WriteFlags => AllGood'
<1> SUFFICES ASSUME Base, AllGood, WriteFlags PROVE AllGood'
  OBVIOUS
<1>0. PICK h : h = Head(events)
  OBVIOUS
<1> DEFINE new == [old \in SUBSET Flags |-> h.flags]
<1>1. /\ update = NoUpdate /\ events # <<>> /\ events' = Tail(events) /\ h.op = "flags"
      /\ view' = Reflagged(h.id, new)
      /\ UNCHANGED <<server, rows, commands, call, work, amiss, update>>
  BY <1>0 DEF WriteFlags, storeVars, chanVars
<1>2. /\ h \in Event
      /\ \A g : ListIn(events, g) => ListIn(events', g)
      /\ \A i : i # h.id /\ FlagsIn(events, i) # {} => FlagsIn(events', i) # {}
      /\ \A i, flags : LastIn(events, i, flags) => LastIn(events', i, flags)
      /\ \A flags : LastIn(events, h.id, flags) /\ FlagsIn(events', h.id) = {} => h.flags = flags
  BY <1>0, <1>1, TakenMeans DEF Base
<1>3. h.flags \in SUBSET Flags
  BY <1>1, <1>2, AnEvent
<1>4. new \in [SUBSET Flags -> SUBSET Flags]
  BY <1>3
<1>5. view \in [Folders -> Seq(Entry)] /\ \A f \in Folders : Reflags(view[f], view'[f], h.id, new)
  BY <1>1, <1>4, ViewReflagged DEF Base, ListsTyped
<1>6. AheadStays /\ StoringStays
  BY <1>1, AheadUnmoved, StoringKept
<1>7. \A f \in Folders : Coming(f) = view[f] /\ Coming(f)' = view'[f]
  BY <1>1, IdleIs, SnapshotAssumption DEF Coming
<1>8. CASE Good
  <2>1. ASSUME NEW f \in Folders, NEW r \in rows, r.folder = f, r.id = h.id, Placed(r)
        PROVE  Flagged(Coming(f)', h.id, r.flags) \/ FlagPending(h.id)' \/ FlagsIn(events', h.id) # {}
    <3>1. CASE FlagPending(h.id)
      BY <1>6, <3>1, PendingStays
    <3>2. CASE LastIn(events, h.id, r.flags) /\ FlagsIn(events', h.id) = {}
      <4>1. h.flags = r.flags
        BY <1>2, <3>2
      <4>2. Once(view[f], h.id)
        BY <1>7, <2>1 DEF Placed
      <4>3. \A n \in DOMAIN view[f] : view[f][n].flags \in SUBSET Flags
        <5>1. \A n \in DOMAIN view[f] : view[f][n] \in Entry
          BY <1>5
        <5>2. QED
          BY <5>1 DEF Entry
      <4>4. /\ DOMAIN view'[f] = DOMAIN view[f]
            /\ \A n \in DOMAIN view[f] : view'[f][n].id = view[f][n].id
            /\ \A n \in DOMAIN view[f] : view[f][n].id = h.id => view'[f][n].flags = new[view[f][n].flags]
        BY <1>5, <4>2 DEF Reflags
      <4>5. Flagged(view'[f], h.id, r.flags)
        BY <4>1, <4>3, <4>4 DEF Flagged
      <4>6. QED
        BY <1>7, <4>5
    <3>3. QED
      BY <1>8, <2>1, <3>1, <3>2 DEF Good, LastWord
  <2>2. ASSUME NEW f \in Folders, NEW m \in Mail PROVE Excused(f, m)' \/ Settled(f, m)'
    <3>1. CASE Excused(f, m)
      BY <1>1, <1>2, <1>6, <3>1, ExcuseStays
    <3>2. CASE Settled(f, m)
      <4> HIDE DEF new
      <4>1. QED
        BY <1>1, <1>2, <1>5, <1>6, <2>1, <3>2, SettledReflagged
    <3>3. QED
      BY <1>8, <3>1, <3>2 DEF Good
  <2>3. \A r \in rows : LastWord(r)'
    BY <1>2, <1>6, <1>8, LastWordStays DEF Good
  <2>4. Good'
    BY <1>1, <2>2, <2>3 DEF Good
  <2>5. QED
    BY <2>4 DEF AllGood
<1>9. CASE Doomed
  <2>1. ~StillToDo(call.cmd) => ~StillToDo(call.cmd)'
    BY <1>1 DEF StillToDo
  <2>2. amiss' \/ Doomed'
    BY <1>1, <1>6, <1>9, <2>1, DoomStays DEF AheadStays
  <2>3. QED
    BY <2>2 DEF AllGood
<1>10. QED
  BY <1>1, <1>8, <1>9 DEF AllGood

LEMMA GoodChangeFlag ==
  ASSUME Base, AllGood, NEW i \in 1 .. lastId, NEW flag, NEW add \in BOOLEAN, ChangeFlag(i, flag, add)
  PROVE  AllGood'
<1> DEFINE new == [old \in SUBSET Flags |-> IF add THEN old \cup {flag} ELSE old \ {flag}]
           c == SetFlag(i, flag, add)
<1>1. /\ call = NoCall /\ view' = Reflagged(i, new)
      /\ call' = [at |-> "send", cmd |-> c] /\ flag \in Flags
      /\ UNCHANGED <<server, rows, commands, work, amiss, update, events>>
  BY Zenon DEF ChangeFlag, storeVars, chanVars, taskVars
<1>2. new \in [SUBSET Flags -> SUBSET Flags]
  BY <1>1
<1> HIDE DEF new
<1>3. \A f \in Folders : Reflags(view[f], view'[f], i, new)
  BY <1>1, <1>2, ViewReflagged
<1>4. c \in Command /\ c.op = "flag" /\ c.id = i
  BY <1>1, ASetFlag
<1> HIDE DEF c
<1>5. call.at = "none" /\ call'.at = "send" /\ call'.cmd = c
  BY <1>1, IdleIs
<1>6. AheadStays /\ StoringStays /\ EventsStay
  BY <1>1, <1>5, AheadSent, StoringKept, EventsKept
<1>7. FlagPending(i)'
  BY <1>4, <1>5 DEF FlagPending, Ahead
<1>8. CASE Good
  <2>1. ASSUME NEW f \in Folders, NEW m \in Mail PROVE Excused(f, m)' \/ Settled(f, m)'
    <3>1. CASE Excused(f, m)
      BY <1>1, <1>6, <3>1, ExcuseStays DEF EventsStay
    <3>2. CASE Settled(f, m)
      BY <1>1, <1>3, <1>6, <1>7, <3>2, SettledReflagged DEF EventsStay
    <3>3. QED
      BY <1>8, <3>1, <3>2 DEF Good
  <2>2. \A r \in rows : LastWord(r)'
    BY <1>6, <1>8, LastWordStays DEF Good, EventsStay
  <2>3. Good'
    BY <1>1, <2>1, <2>2 DEF Good
  <2>4. QED
    BY <2>3 DEF AllGood
<1>9. CASE Doomed
  BY <1>1, <1>5, <1>6, <1>9, DoomStays DEF AheadStays, AllGood
<1>10. QED
  BY <1>1, <1>8, <1>9 DEF AllGood

LEMMA GoodEmptyTrashCall == Base /\ AllGood /\ EmptyTrashCall => AllGood'
<1> SUFFICES ASSUME Base, AllGood, EmptyTrashCall PROVE AllGood'
  OBVIOUS
<1>1. /\ call = NoCall /\ view' = [view EXCEPT ![Trash] = <<>>]
      /\ call' = [at |-> "send", cmd |-> EmptyTrash(Trash)]
      /\ UNCHANGED <<server, rows, commands, work, amiss, update, events>>
  BY DEF EmptyTrashCall, storeVars, chanVars, taskVars
<1>2. \A f \in Folders : f # Trash => Coming(f)' = Coming(f)
  BY <1>1 DEF Coming, Base, ListsTyped
<1>3. call.at = "none" /\ call'.at = "send" /\ call'.cmd = EmptyTrash(Trash)
  BY <1>1, IdleIs
<1>4. AheadStays /\ StoringStays /\ EventsStay
  BY <1>1, <1>3, AheadSent, StoringKept, EventsKept
<1>5. EmptyPending'
  <2>1. EmptyTrash(Trash).op = "empty"
    BY DEF EmptyTrash
  <2>2. QED
    BY <1>3, <2>1, EmptyIsCommand DEF EmptyPending, Ahead
<1>6. CASE Good
  <2>1. ASSUME NEW f \in Folders, NEW m \in Mail PROVE Excused(f, m)' \/ Settled(f, m)'
    <3>1. CASE Excused(f, m)
      BY <1>1, <1>4, <3>1, ExcuseStays DEF EventsStay
    <3>2. CASE Settled(f, m) /\ f # Trash
      BY <1>1, <1>2, <1>4, <3>2, SettledStays DEF EventsStay
    <3>3. CASE f = Trash
      BY <1>5, <3>3 DEF Excused
    <3>4. QED
      BY <1>6, <3>1, <3>2, <3>3 DEF Good
  <2>2. \A r \in rows : LastWord(r)'
    BY <1>4, <1>6, LastWordStays DEF Good, EventsStay
  <2>3. Good'
    BY <1>1, <2>1, <2>2 DEF Good
  <2>4. QED
    BY <2>3 DEF AllGood
<1>7. CASE Doomed
  BY <1>1, <1>3, <1>4, <1>7, DoomStays DEF AheadStays, AllGood
<1>8. QED
  BY <1>1, <1>6, <1>7 DEF AllGood

\* Ids in the lists are of the message of the row of that id.
LEMMA RowOfId ==
  ASSUME Base, NEW r \in rows
  PROVE  /\ r.id \in Ids /\ r.mail \in Mail /\ r.folder \in Folders /\ r.id <= lastId
         /\ \A f \in Folders : \A n \in DOMAIN view[f] : view[f][n].id = r.id => view[f][n].mail = r.mail
<1>1. r.id \in Ids /\ r.mail \in Mail /\ r.folder \in Folders
  BY DEF Base, Row
<1>2. Named(r.id, r.mail)
  BY DEF Named
<1>3. ASSUME NEW f \in Folders, NEW n \in DOMAIN view[f], view[f][n].id = r.id
      PROVE  view[f][n].mail = r.mail
  <2>1. view[f][n] \in Entry
    <3>1. view[f] \in Seq(Entry)
      BY DEF Base, ListsTyped
    <3>2. QED
      BY <3>1, ElementOfSeq, LenProperties
  <2>2. view[f][n].mail \in Mail
    BY <2>1 DEF Entry
  <2>3. Named(r.id, view[f][n].mail)
    BY <1>3 DEF Named, NamedIn
  <2>4. QED
    BY <1>1, <1>2, <2>2, <2>3 DEF Base, IdsMeanMail
<1>4. r.id <= lastId
  BY <1>1, <1>2 DEF Base, IdsMeanMail
<1>5. QED
  BY <1>1, <1>3, <1>4

LEMMA GoodMoveShown == Base /\ AllGood /\ MoveShown => AllGood'
<1> SUFFICES ASSUME Base, AllGood, MoveShown PROVE AllGood'
  OBVIOUS
<1>0. PICK c \in Command : c = call.cmd
  BY DEF Base, FlightInv, CallIsFor
<1>1. /\ call.at = "move" /\ call' = NoCall /\ c.op = "move" /\ c.dest \in Folders
      /\ amiss' = (amiss \/ ~StillToDo(c))
      /\ UNCHANGED <<server, rows, commands, work, update, events>>
  BY <1>0, MovesSomewhere DEF MoveShown, storeVars, chanVars, StillToDo
<1>2. /\ view \in [Folders -> Seq(Entry)] /\ view' \in [Folders -> Seq(Entry)]
      /\ \A f \in Folders : KeepsOthers(view[f], view'[f], c.id)
      /\ \A f \in Folders : f # c.dest =>
           \A k \in DOMAIN view'[f] : \E j \in DOMAIN view[f] : view'[f][k] = view[f][j]
      /\ \A f \in Folders : \A k \in DOMAIN view'[f] :
           \E g \in Folders : \E j \in DOMAIN view[g] : view'[f][k] = view[g][j]
  BY <1>0, <1>1, MovedIs DEF Base, ListsTyped, ListsSorted
<1>3. \A x \in Command : Ahead(x) => Ahead(x)'
  BY <1>1 DEF Ahead, StillToDo
<1>4. AheadStays /\ StoringStays /\ EventsStay
  BY <1>1, <1>3, StoringKept, EventsKept DEF AheadStays
<1>5. CASE amiss'
  BY <1>5 DEF AllGood
<1>6. CASE Doomed
  <2>1. ~StillToDo(call.cmd) => amiss'
    BY <1>0, <1>1
  <2>2. QED
    BY <1>1, <1>3, <1>6, <2>1, DoomStays DEF AllGood
<1>7. CASE Good /\ ~Doomed /\ ~amiss'
  <2>1. Ahead(c)
    BY <1>1, <1>7 DEF Ahead
  <2>2. PICK r \in rows : r.id = c.id
    BY <1>1, <1>7, <2>1 DEF Doomed
  <2>3. r.mail \in Mail /\ \A f \in Folders : \A n \in DOMAIN view[f] : view[f][n].id = r.id => view[f][n].mail = r.mail
    BY RowOfId
  <2>4. MovePending(r.folder, r.mail)' /\ MovePending(c.dest, r.mail)'
    BY <1>1, <1>3, <2>1, <2>2 DEF MovePending
  <2>5. ASSUME NEW f \in Folders, NEW m \in Mail, Settled(f, m), update.folder # f,
               m # r.mail \/ f \notin {r.folder, c.dest}
        PROVE  Settled(f, m)'
    <3> DEFINE l == view[f]
               t == view'[f]
    <3>1. Coming(f) = l /\ Coming(f)' = t
      BY <1>1, <2>5 DEF Coming
    <3>2. /\ \A k \in DOMAIN t : t[k].id # c.id => \E j \in DOMAIN l : t[k] = l[j]
          /\ \A j : j # c.id /\ Once(l, j) => Once(t, j)
      BY <1>2 DEF KeepsOthers
    <3>3. \A k \in DOMAIN t : t[k].mail = m => \E j \in DOMAIN l : t[k] = l[j]
      <4> TAKE k \in DOMAIN t
      <4> HAVE t[k].mail = m
      <4>1. CASE f # c.dest
        BY <1>2, <4>1
      <4>2. CASE m # r.mail
        <5>1. PICK g \in Folders : \E j \in DOMAIN view[g] : t[k] = view[g][j]
          BY <1>2
        <5>2. t[k].id # c.id
          BY <2>2, <2>3, <4>2, <5>1
        <5>3. QED
          BY <3>2, <5>2
      <4>3. QED
        BY <2>5, <4>1, <4>2
    <3> HIDE DEF l, t
    <3>4. ASSUME NEW q \in rows, q.folder = f, q.mail = m PROVE Placed(q)'
      <4>1. Placed(q)
        BY <2>5, <3>4 DEF Settled
      <4>2. q.id # c.id
        BY <2>2, <2>5, <3>4 DEF Base, RowsDiffer
      <4>3. Once(t, q.id) /\ (Flagged(l, q.id, q.flags) => Flagged(t, q.id, q.flags))
        BY <3>1, <3>2, <3>4, <4>1, <4>2 DEF Placed, Flagged
      <4>4. FlagPending(q.id) => FlagPending(q.id)'
        BY <1>4, PendingStays
      <4>5. Coming(q.folder) = l /\ Coming(q.folder)' = t
        BY <3>1, <3>4
      <4>6. QED
        BY <1>1, <4>1, <4>3, <4>4, <4>5 DEF Placed
    <3>5. NoStray(f, m) => NoStray(f, m)'
      BY <1>1, <3>1, <3>3 DEF NoStray
    <3>6. QED
      BY <1>1, <2>5, <3>4, <3>5 DEF Settled
  <2>6. ASSUME NEW f \in Folders, NEW m \in Mail PROVE Excused(f, m)' \/ Settled(f, m)'
    <3>1. CASE Excused(f, m)
      BY <1>1, <1>4, <3>1, ExcuseStays
    <3>2. CASE m = r.mail /\ f \in {r.folder, c.dest}
      BY <2>4, <3>2 DEF Excused
    <3>3. CASE Settled(f, m) /\ update.folder = f
      <4>1. Coming(f)' = Coming(f)
        BY <1>1, <3>3 DEF Coming
      <4>2. QED
        BY <1>1, <1>4, <3>3, <4>1, SettledStays
    <3>4. QED
      BY <1>7, <2>5, <3>1, <3>2, <3>3 DEF Good
  <2>7. \A q \in rows : LastWord(q)'
    BY <1>1, <1>4, <1>7, LastWordStays DEF Good
  <2>8. Good'
    BY <1>1, <2>6, <2>7 DEF Good
  <2>9. QED
    BY <2>8 DEF AllGood
<1>8. QED
  BY <1>1, <1>5, <1>6, <1>7 DEF AllGood

-----------------------------------------------------------------------------
(* The steps that change the store or the server.                            *)

LEMMA GoodAtServer == Base /\ AllGood /\ AtServer => AllGood'
<1> SUFFICES ASSUME Base, AllGood, AtServer PROVE AllGood'
  OBVIOUS
<1>1. /\ work.at = "server" /\ work'.at = "store" /\ work'.cmd = work.cmd /\ work.cmd \in Command
      /\ UNCHANGED <<rows, commands, events, update, view, amiss, call>>
      /\ TrashEmptied \/ \E r \in rows : ServedIs(r)
  BY AtServerIs DEF Base, FlightInv, WorkIsFor
<1>2. \A c \in Command : Ahead(c) => Ahead(c)' \/ (c = work.cmd /\ Storing(c.op)')
  BY <1>1 DEF Ahead, StillToDo, Storing
<1>3. \A op : ~Storing(op)
  BY <1>1 DEF Storing
<1>4. \A r \in rows : r.folder = server[r.mail].folder /\ r.mail \in Mail
  BY <1>3 DEF Base, RowsSound, Row
<1>5. \A f : Coming(f)' = Coming(f)
  BY <1>1 DEF Coming
<1>6. \A i : FlagPending(i) => FlagPending(i)'
  <2> SUFFICES ASSUME NEW i, FlagPending(i) PROVE FlagPending(i)'
    OBVIOUS
  <2>1. PICK c \in Command : Ahead(c) /\ c.op = "flag" /\ c.id = i
    BY <1>3 DEF FlagPending
  <2>2. QED
    BY <1>1, <1>2, <2>1 DEF FlagPending
<1>7. EmptyPending => EmptyPending'
  BY <1>2, <1>3 DEF EmptyPending
<1>8. ASSUME NEW f, NEW m, Settled(f, m) PROVE Settled(f, m)'
  <2>1. \A r \in rows : Placed(r) => Placed(r)'
    BY <1>1, <1>5, <1>6 DEF Placed
  <2>2. NoStray(f, m) => NoStray(f, m)'
    BY <1>1, <1>5 DEF NoStray
  <2>3. QED
    BY <1>1, <1>8, <2>1, <2>2 DEF Settled
<1>9. \A r \in rows : LastWord(r) => LastWord(r)'
  BY <1>1, <1>6 DEF LastWord
<1>10. CASE Doomed
  <2>1. \A c \in Command : c.op \in {"flag", "move"} /\ Ahead(c) /\ (\A r \in rows : r.id # c.id) => Ahead(c)'
    BY <1>1, <1>2 DEF TrashEmptied, ServedIs
  <2>2. ~StillToDo(call.cmd) => ~StillToDo(call.cmd)'
    BY <1>1 DEF StillToDo
  <2>3. QED
    BY <1>1, <1>10, <2>1, <2>2, DoomStays DEF AllGood
<1>11. CASE Good /\ TrashEmptied
  <2>1. /\ work.cmd.op = "empty"
        /\ \A m \in Mail : server'[m].folder = IF server[m].folder = Trash THEN Nowhere ELSE server[m].folder
    BY <1>11 DEF TrashEmptied
  <2>2. EmptyPending'
    BY <1>1, <2>1 DEF EmptyPending, Storing
  <2>3. ASSUME NEW f \in Folders, NEW m \in Mail, Excused(f, m) PROVE Excused(f, m)'
    <3>1. MovePending(f, m) => MovePending(f, m)'
      BY <1>1, <1>2, <1>3, <2>1 DEF MovePending
    <3>2. f # Trash /\ f = server[m].folder => f = server'[m].folder
      BY <2>1
    <3>3. QED
      BY <1>1, <2>2, <2>3, <3>1, <3>2 DEF Excused
  <2>4. QED
    BY <1>1, <1>8, <1>9, <1>11, <2>3 DEF Good, AllGood
<1>12. ASSUME Good, NEW r \in rows, ServedIs(r) PROVE AllGood'
  <2>1. /\ r.id = work.cmd.id /\ work'.row = r
        /\ \A m \in Mail : m # r.mail => server'[m] = server[m]
        /\ work.cmd.op \in {"body", "flag"} => server'[r.mail].folder = server[r.mail].folder
        /\ work.cmd.op = "move" => server'[r.mail].folder = work.cmd.dest
        /\ work.cmd.op \in {"body", "flag", "move"}
    BY <1>1, <1>12, ACommand DEF ServedIs
  <2>2. \A q \in rows : q.id = r.id \/ q.mail = r.mail => q = r
    BY <1>4 DEF Base, RowsDiffer
  <2>3. ASSUME NEW f \in Folders, NEW m \in Mail, Excused(f, m) PROVE Excused(f, m)'
    <3>1. CASE work.cmd.op = "move" /\ m = r.mail /\ f = r.folder
      BY <1>1, <2>1, <3>1 DEF Excused, MovePending, Storing
    <3>2. CASE work.cmd.op = "move" /\ m = r.mail /\ f = work.cmd.dest /\ f # r.folder
      <4>1. \A q \in rows : ~(q.folder = f /\ q.mail = m)
        BY <2>2, <3>2
      <4>2. QED
        BY <1>1, <2>1, <3>2, <4>1 DEF Excused
    <3>3. CASE ~(work.cmd.op = "move" /\ m = r.mail /\ f \in {r.folder, work.cmd.dest})
      <4>1. MovePending(f, m) => MovePending(f, m)'
        <5> SUFFICES ASSUME MovePending(f, m) PROVE MovePending(f, m)'
          OBVIOUS
        <5>1. PICK c \in Command : Ahead(c) /\ c.op = "move"
                                   /\ \E q \in rows : q.id = c.id /\ q.mail = m /\ f \in {q.folder, c.dest}
          BY <1>3 DEF MovePending
        <5>2. PICK q \in rows : q.id = c.id /\ q.mail = m /\ f \in {q.folder, c.dest}
          BY <5>1
        <5>3. c # work.cmd
          BY <2>1, <2>2, <3>3, <5>1, <5>2
        <5>4. QED
          BY <1>1, <1>2, <5>1, <5>2, <5>3 DEF MovePending
      <4>2. f = server[m].folder /\ (\A q \in rows : ~(q.folder = f /\ q.mail = m)) => f = server'[m].folder
        BY <1>4, <2>1, <3>3
      <4>3. QED
        BY <1>1, <1>7, <2>3, <4>1, <4>2 DEF Excused
    <3>4. QED
      BY <3>1, <3>2, <3>3
  <2>4. QED
    BY <1>1, <1>8, <1>9, <1>12, <2>3 DEF Good, AllGood
<1>13. QED
  BY <1>1, <1>10, <1>11, <1>12 DEF AllGood

\* command_worker has stored a change: what is ahead stays ahead.
LEMMA StoredThen ==
  ASSUME work.at = "store", work' = Idle, UNCHANGED <<commands, call, view, update>>
  PROVE  /\ \A c \in Command : Ahead(c)' <=> Ahead(c)
         /\ \A op : ~Storing(op)'
         /\ call' = call /\ (~StillToDo(call.cmd) => ~StillToDo(call.cmd)')
         /\ \A f : Coming(f)' = Coming(f)
<1>1. work'.at = "recv"
  BY IdleIs
<1>2. \A c : StillToDo(c)' <=> StillToDo(c)
  BY <1>1 DEF StillToDo
<1>3. ~StillToDo(call.cmd) => ~StillToDo(call.cmd)'
  BY <1>1 DEF StillToDo
<1>4. QED
  BY <1>1, <1>2, <1>3 DEF Ahead, Storing, Coming

\* What will be refused still will, when rows only go.
LEMMA DoomStored ==
  ASSUME Doomed, work.at = "store", work' = Idle, UNCHANGED <<commands, call, view, update>>,
         \A x \in rows' : \E r \in rows : x.id = r.id
  PROVE  Doomed' \/ amiss'
BY StoredThen, DoomStays

LEMMA GoodStoreFlag == Base /\ AllGood /\ StoreFlag => AllGood'
<1> SUFFICES ASSUME Base, AllGood, StoreFlag PROVE AllGood'
  OBVIOUS
<1> DEFINE e == [op |-> "flags", id |-> work.cmd.id, flags |-> NewFlags]
<1>1. /\ \E q, new \in Row : FlagStored(q, new)
      /\ work.at = "store" /\ work.cmd.op = "flag" /\ work.cmd.id \in Ids /\ NewFlags \in SUBSET Flags
      /\ Post(e) /\ work' = Idle
      /\ UNCHANGED <<server, view, commands, update, amiss, call>>
  BY StoreFlagIs
<1>2. PICK q \in Row, new \in Row : FlagStored(q, new)
  BY <1>1
<1>3. /\ q \in rows /\ rows' = (rows \ {q}) \cup {new} /\ q.id = work.cmd.id
      /\ new.id = q.id /\ new.folder = q.folder /\ new.mail = q.mail /\ new.flags = NewFlags
  BY <1>2 DEF FlagStored
<1>4. /\ \A f : ListIn(events, f) => ListIn(events', f)
      /\ \A i : i # q.id => /\ FlagsIn(events', i) = FlagsIn(events, i)
                            /\ \A flags : LastIn(events, i, flags) => LastIn(events', i, flags)
      /\ FlagsIn(events', q.id) # {} /\ LastIn(events', q.id, new.flags)
  <2>1. e \in Event /\ e.op = "flags" /\ e.id = q.id /\ e.flags = new.flags
    BY <1>1, <1>3 DEF Event
  <2> HIDE DEF e
  <2>2. QED
    BY <1>1, <2>1, PostedMeans DEF Base
<1>5. /\ \A c \in Command : Ahead(c)' <=> Ahead(c)
      /\ \A op : ~Storing(op)'
      /\ \A f : Coming(f)' = Coming(f)
  BY <1>1, StoredThen
<1>6. ~Storing("move") /\ ~Storing("empty")
  BY <1>1 DEF Storing
<1>7. \A i : i # q.id /\ FlagPending(i) => FlagPending(i)'
  BY <1>3, <1>5 DEF FlagPending
<1>8. \A x \in rows : x # q => x \in rows' /\ x.id # q.id
  BY <1>3 DEF Base, RowsDiffer
<1>9. \A x \in rows' : x = new \/ (x \in rows /\ x # q)
  BY <1>3
<1>10. \A x \in rows : \E y \in rows' : y.id = x.id /\ y.folder = x.folder /\ y.mail = x.mail
  BY <1>3, <1>8
<1>11. \A y \in rows' : \E x \in rows : y.id = x.id /\ y.folder = x.folder /\ y.mail = x.mail
  BY <1>3, <1>9
<1>12. CASE Good
  <2>1. ASSUME NEW f \in Folders, NEW m \in Mail, Excused(f, m) PROVE Excused(f, m)'
    <3>1. MovePending(f, m) => MovePending(f, m)'
      BY <1>5, <1>6, <1>10 DEF MovePending
    <3>2. EmptyPending => EmptyPending'
      BY <1>5, <1>6 DEF EmptyPending
    <3>3. (\A x \in rows : ~(x.folder = f /\ x.mail = m)) => \A y \in rows' : ~(y.folder = f /\ y.mail = m)
      BY <1>11
    <3>4. QED
      BY <1>1, <1>4, <2>1, <3>1, <3>2, <3>3 DEF Excused
  <2>2. Placed(q) => Placed(new)'
    BY <1>3, <1>4, <1>5 DEF Placed
  <2>3. ASSUME NEW x \in rows, x # q, Placed(x) PROVE Placed(x)'
    BY <1>4, <1>5, <1>7, <1>8, <2>3 DEF Placed
  <2>4. ASSUME NEW f \in Folders, NEW m \in Mail, Settled(f, m) PROVE Settled(f, m)'
    <3>1. ASSUME NEW y \in rows', y.folder = f, y.mail = m PROVE Placed(y)'
      BY <1>3, <1>9, <2>2, <2>3, <2>4, <3>1 DEF Settled
    <3>2. NoStray(f, m) => NoStray(f, m)'
      <4> SUFFICES ASSUME NoStray(f, m), NEW n \in DOMAIN Coming(f), Coming(f)[n].mail = m
                   PROVE  \E y \in rows' : y.folder = f /\ y.mail = m /\ y.id = Coming(f)[n].id
        BY <1>5 DEF NoStray
      <4>1. PICK x \in rows : x.folder = f /\ x.mail = m /\ x.id = Coming(f)[n].id
        BY DEF NoStray
      <4>2. QED
        BY <1>10, <4>1
    <3>3. QED
      BY <2>4, <3>1, <3>2 DEF Settled
  <2>5. \A y \in rows' : LastWord(y)'
    <3>1. LastWord(new)'
      BY <1>3, <1>4 DEF LastWord
    <3>2. ASSUME NEW x \in rows, x # q PROVE LastWord(x)'
      BY <1>4, <1>7, <1>8, <1>12, <3>2 DEF Good, LastWord
    <3>3. QED
      BY <1>9, <3>1, <3>2
  <2>6. Good'
    BY <1>12, <2>1, <2>4, <2>5 DEF Good
  <2>7. QED
    BY <2>6 DEF AllGood
<1>13. CASE Doomed
  BY <1>1, <1>11, <1>13, DoomStored DEF AllGood
<1>14. QED
  BY <1>1, <1>12, <1>13 DEF AllGood

\* Rows are gone: of folder f, or those of one message in it, or a list of f is to come.
LEMMA GoodForget ==
  ASSUME Base, AllGood, work.at = "store", work.cmd.op \in {"move", "empty"}, work' = Idle,
         UNCHANGED <<server, view, commands, call, update, amiss>>,
         rows' \subseteq rows, EventsStay,
         NEW g, \A r \in rows : r.folder # g => r \in rows',
         Storing("move") => g = work.row.folder, Storing("empty") => g = Trash,
         ListIn(events', g) \/ (g = Trash /\ \A r \in rows' : r.folder # g)
  PROVE  AllGood'
<1>1. /\ \A c \in Command : Ahead(c)' <=> Ahead(c)
      /\ \A op : ~Storing(op)'
      /\ \A f : Coming(f)' = Coming(f)
  BY StoredThen
<1>2. ~Storing("flag")
  BY DEF Storing
<1>3. \A i : FlagPending(i) => FlagPending(i)'
  BY <1>1, <1>2 DEF FlagPending
<1>4. CASE Doomed
  BY <1>4, DoomStored DEF AllGood
<1>5. CASE Good /\ ~Doomed'
  <2>1. ASSUME NEW f \in Folders, NEW m \in Mail, f # g, MovePending(f, m) PROVE MovePending(f, m)'
    <3>1. ~(Storing("move") /\ work.row.folder = f)
      BY <2>1
    <3>2. PICK c \in Command : Ahead(c) /\ c.op = "move"
                               /\ \E r \in rows : r.id = c.id /\ r.mail = m /\ f \in {r.folder, c.dest}
      BY <2>1, <3>1 DEF MovePending
    <3>3. PICK r \in rows : r.id = c.id /\ r.mail = m /\ f \in {r.folder, c.dest}
      BY <3>2
    <3>4. PICK x \in rows' : x.id = c.id
      BY <1>1, <1>5, <3>2 DEF Doomed
    <3>5. x = r
      BY <3>3, <3>4 DEF Base, RowsDiffer
    <3>6. QED
      BY <1>1, <3>2, <3>3, <3>4, <3>5 DEF MovePending
  <2>2. ASSUME NEW f \in Folders, NEW m \in Mail, f # g, Excused(f, m) PROVE Excused(f, m)'
    <3>1. f = Trash /\ EmptyPending => EmptyPending'
      BY <1>1, <2>2 DEF EmptyPending
    <3>2. QED
      BY <2>1, <2>2, <3>1 DEF Excused, EventsStay
  <2>3. \A r \in rows : Placed(r) => Placed(r)'
    BY <1>1, <1>3 DEF Placed, EventsStay
  <2>4. ASSUME NEW f \in Folders, NEW m \in Mail, f # g, Settled(f, m) PROVE Settled(f, m)'
    <3>1. \A r \in rows' : r.folder = f /\ r.mail = m => Placed(r)'
      BY <2>3, <2>4 DEF Settled
    <3>2. NoStray(f, m) => NoStray(f, m)'
      <4> SUFFICES ASSUME NoStray(f, m), NEW n \in DOMAIN Coming(f), Coming(f)[n].mail = m
                   PROVE  \E y \in rows' : y.folder = f /\ y.mail = m /\ y.id = Coming(f)[n].id
        BY <1>1 DEF NoStray
      <4>1. PICK x \in rows : x.folder = f /\ x.mail = m /\ x.id = Coming(f)[n].id
        BY DEF NoStray
      <4>2. QED
        BY <2>4, <4>1
    <3>3. QED
      BY <2>4, <3>1, <3>2 DEF Settled
  <2>5. ASSUME NEW m \in Mail PROVE Excused(g, m)' \/ Settled(g, m)'
    BY DEF Excused, Settled
  <2>6. \A r \in rows' : LastWord(r)'
    BY <1>3, <1>5 DEF Good, LastWord, EventsStay
  <2>7. Good'
    BY <1>5, <2>2, <2>4, <2>5, <2>6 DEF Good
  <2>8. QED
    BY <2>7 DEF AllGood
<1>6. QED
  BY <1>4, <1>5 DEF AllGood

LEMMA GoodForgetMoved == Base /\ AllGood /\ ForgetMoved => AllGood'
<1> SUFFICES ASSUME Base, AllGood, ForgetMoved PROVE AllGood'
  OBVIOUS
<1>0. PICK g : g = work.row.folder
  OBVIOUS
<1> DEFINE e == [op |-> "list", folder |-> g]
<1>1. /\ work.at = "store" /\ work.cmd.op = "move"
      /\ rows' = {r \in rows : ~(r.folder = g /\ r.mail = work.row.mail)}
      /\ Post(e) /\ work' = Idle
      /\ UNCHANGED <<server, view, commands, update, amiss, call>>
  BY <1>0 DEF ForgetMoved, snapVars, chanVars
<1>2. e \in Event /\ e.op = "list" /\ e.folder = g
  BY <1>0, <1>1 DEF Base, WorkSound, Storing, Row, Event
<1> HIDE DEF e
<1>3. EventsStay /\ ListIn(events', g)
  BY <1>1, <1>2, PostedMeans DEF Base, EventsStay
<1>4. ~Storing("empty") /\ rows' \subseteq rows /\ \A r \in rows : r.folder # g => r \in rows'
  BY <1>1 DEF Storing
<1>5. QED
  BY <1>0, <1>1, <1>3, <1>4, GoodForget

LEMMA GoodClearFolder == Base /\ AllGood /\ ClearFolder => AllGood'
<1> SUFFICES ASSUME Base, AllGood, ClearFolder PROVE AllGood'
  OBVIOUS
<1>1. /\ work.at = "store" /\ work.cmd.op = "empty" /\ work' = Idle
      /\ rows' = {r \in rows : r.folder # work.cmd.folder}
      /\ UNCHANGED <<server, view, commands, update, amiss, call, events>>
  BY DEF ClearFolder, snapVars, chanVars
<1>2. work.cmd.folder = Trash
  BY <1>1 DEF Base, AllLawful, Lawful
<1>3. EventsStay /\ ~Storing("move")
  BY <1>1, EventsKept DEF Storing
<1>4. rows' \subseteq rows /\ (\A r \in rows : r.folder # Trash => r \in rows') /\ \A r \in rows' : r.folder # Trash
  BY <1>1, <1>2
<1>5. QED
  BY <1>1, <1>3, <1>4, GoodForget

LEMMA GoodStoreEnvelope ==
  ASSUME Base, AllGood, NEW m \in Mail, StoreEnvelope(m)
  PROVE  AllGood'
<1>1. PICK new, old : new.mail = m /\ Enveloped(new, old) /\ Post([op |-> "list", folder |-> new.folder])
  BY EnvelopeIs
<1>2. UNCHANGED <<server, view, commands, update, work, amiss, call>>
  BY EnvelopeIs
<1> DEFINE g == new.folder
<1>3. /\ g \in Folders /\ new.flags = server[m].flags
      /\ old \subseteq rows /\ rows' = (rows \ old) \cup {new}
      /\ \A r \in rows : r \in old <=> r.folder = g /\ r.mail = m
      /\ \/ old = {} /\ new.id = lastId + 1
         \/ \E q \in rows : old = {q} /\ new.id = q.id
  BY <1>1 DEF Enveloped, Row
<1>4. EventsStay /\ ListIn(events', g)
  <2> DEFINE e == [op |-> "list", folder |-> g]
  <2>1. e \in Event /\ e.op = "list" /\ e.folder = g
    BY <1>3 DEF Event
  <2>2. Post(e)
    BY <1>1
  <2> HIDE DEF e
  <2>3. QED
    BY <2>1, <2>2, PostedMeans DEF Base, EventsStay
<1> HIDE DEF g
<1>5. AheadStays /\ StoringStays /\ \A f : Coming(f)' = Coming(f)
  BY <1>2, AheadUnmoved, StoringKept, ComingKept
<1>6. ~StillToDo(call.cmd) => ~StillToDo(call.cmd)'
  BY <1>2 DEF StillToDo
<1>7. lastId \in Nat
  BY SnapshotAssumption DEF Base, FlightInv
<1>8. \A r \in rows : r.folder # g => r \in rows'
  BY <1>3
<1>9. \A r \in rows' : r.folder # g => r \in rows
  BY <1>3 DEF g
<1>10. CASE Doomed
  <2>1. ASSUME NEW c \in Command, Ahead(c), c.op \in {"flag", "move"}, \A r \in rows : r.id # c.id
        PROVE  \A r \in rows' : r.id # c.id
    <3>1. c.id \in Nat /\ c.id <= lastId
      <4>1. Lawful(c)
        BY <2>1 DEF Ahead, StillToDo, Base, AllLawful
      <4>2. QED
        BY <2>1, <4>1, ACommand DEF Lawful, Ids
    <3>2. new.id # c.id
      BY <1>3, <1>7, <2>1, <3>1
    <3>3. QED
      BY <1>3, <2>1, <3>2
  <2>2. QED
    BY <1>2, <1>5, <1>6, <1>10, <2>1, DoomStays DEF AheadStays, AllGood
<1>11. CASE Good
  <2>1. ASSUME NEW f \in Folders, NEW k \in Mail, f # g, MovePending(f, k) PROVE MovePending(f, k)'
    <3>1. CASE Storing("move") /\ work.row.mail = k /\ work.row.folder = f
      BY <1>2, <3>1 DEF MovePending, Storing
    <3>2. CASE \E c \in Command : /\ Ahead(c) /\ c.op = "move"
                                  /\ \E r \in rows : r.id = c.id /\ r.mail = k /\ f \in {r.folder, c.dest}
      <4>1. PICK c \in Command : /\ Ahead(c) /\ c.op = "move"
                                 /\ \E r \in rows : r.id = c.id /\ r.mail = k /\ f \in {r.folder, c.dest}
        BY <3>2
      <4>2. PICK r \in rows : r.id = c.id /\ r.mail = k /\ f \in {r.folder, c.dest}
        BY <4>1
      <4>3. \E x \in rows' : x.id = r.id /\ x.mail = r.mail /\ x.folder = r.folder
        BY <1>1, <1>3 DEF g
      <4>4. Ahead(c)'
        BY <1>5, <4>1 DEF AheadStays
      <4>5. QED
        BY <4>1, <4>2, <4>3, <4>4 DEF MovePending
    <3>3. QED
      BY <2>1, <3>1, <3>2 DEF MovePending
  <2>2. ASSUME NEW f \in Folders, NEW k \in Mail, f # g, Excused(f, k) PROVE Excused(f, k)'
    BY <1>2, <1>4, <1>5, <1>9, <2>1, <2>2, PendingStays DEF Excused, EventsStay
  <2>3. ASSUME NEW f \in Folders, NEW k \in Mail, f # g, Settled(f, k) PROVE Settled(f, k)'
    <3>1. \A r \in rows' : r.folder = f /\ r.mail = k => Placed(r)'
      <4> TAKE r \in rows'
      <4> HAVE r.folder = f /\ r.mail = k
      <4>1. Placed(r)
        BY <1>9, <2>3 DEF Settled
      <4>2. QED
        BY <1>4, <1>5, <4>1, PlacedStays DEF EventsStay
    <3>2. NoStray(f, k) => NoStray(f, k)'
      <4> SUFFICES ASSUME NoStray(f, k), NEW n \in DOMAIN Coming(f), Coming(f)[n].mail = k
                   PROVE  \E y \in rows' : y.folder = f /\ y.mail = k /\ y.id = Coming(f)[n].id
        BY <1>5 DEF NoStray
      <4>1. PICK x \in rows : x.folder = f /\ x.mail = k /\ x.id = Coming(f)[n].id
        BY DEF NoStray
      <4>2. QED
        BY <1>8, <2>3, <4>1
    <3>3. QED
      BY <2>3, <3>1, <3>2 DEF Settled
  <2>4. ASSUME NEW k \in Mail PROVE Excused(g, k)'
    BY <1>4 DEF Excused
  <2>5. LastWord(new)'
    <3>1. CASE old = {} /\ new.id = lastId + 1
      <4>1. FlagsIn(events, new.id) = {}
        <5>1. ASSUME NEW n \in FlagsIn(events, new.id) PROVE FALSE
          <6>1. n \in DOMAIN events /\ events[n].op = "flags" /\ events[n].id = lastId + 1
            BY <3>1, <5>1 DEF FlagsIn
          <6>2. lastId + 1 <= lastId
            BY <6>1 DEF Base, EventsLawful
          <6>3. QED
            BY <1>7, <6>2
        <5>2. QED
          BY <5>1
      <4>2. LastIn(events, new.id, new.flags)
        BY <4>1 DEF LastIn
      <4>3. QED
        BY <1>4, <4>2 DEF LastWord, EventsStay
    <3>2. CASE \E q \in rows : old = {q} /\ new.id = q.id
      <4>1. PICK q \in rows : old = {q} /\ new.id = q.id
        BY <3>2
      <4>2. q.mail = m /\ LastWord(q)
        BY <1>3, <1>11, <4>1 DEF Good
      <4>3. q.flags = new.flags \/ FlagPending(new.id)
        BY <1>3, <4>1, <4>2 DEF Base, RowsSound, FlagPending
      <4>4. FlagPending(new.id) => FlagPending(new.id)'
        BY <1>5, PendingStays
      <4>5. LastIn(events, new.id, new.flags) \/ FlagPending(new.id)
        BY <4>1, <4>2, <4>3 DEF LastWord
      <4>6. QED
        BY <1>4, <4>4, <4>5 DEF LastWord, EventsStay
    <3>3. QED
      BY <1>3, <3>1, <3>2
  <2>6. \A r \in rows' : LastWord(r)'
    <3>1. ASSUME NEW r \in rows PROVE LastWord(r)'
      BY <1>4, <1>5, <1>11, LastWordStays DEF Good, EventsStay
    <3>2. QED
      BY <1>3, <2>5, <3>1
  <2>7. Good'
    BY <1>11, <2>2, <2>3, <2>4, <2>6 DEF Good
  <2>8. QED
    BY <2>7 DEF AllGood
<1>12. QED
  BY <1>2, <1>10, <1>11 DEF AllGood

-----------------------------------------------------------------------------

LEMMA GoodInit == SnapshotInit => AllGood
<1> SUFFICES ASSUME SnapshotInit PROVE Good
  BY DEF AllGood
<1>1. Base
  BY BaseInit
<1>2. view = [f \in Folders |-> Listed(f)] /\ events = <<>> /\ update = NoUpdate
  BY DEF SnapshotInit
<1>3. \A f \in Folders : Coming(f) = Listed(f)
  BY <1>2, IdleIs, SnapshotAssumption DEF Coming
<1>4. ASSUME NEW f \in Folders, NEW m \in Mail PROVE Settled(f, m)
  <2>1. /\ \A r \in rows : r.folder = f => Once(Listed(f), r.id) /\ Flagged(Listed(f), r.id, r.flags)
        /\ \A n \in DOMAIN Listed(f) :
             \E r \in rows : r.folder = f /\ r.mail = Listed(f)[n].mail /\ r.id = Listed(f)[n].id
    BY <1>1, ListedSettled DEF Base
  <2>2. QED
    BY <1>3, <2>1 DEF Settled, Placed, NoStray
<1>5. \A r \in rows : LastWord(r)
  BY <1>2 DEF LastWord, LastIn, FlagsIn
<1>6. QED
  BY <1>4, <1>5 DEF Good

LEMMA GoodNext == Base /\ AllGood /\ [SnapshotNext]_snapshotVars => AllGood'
<1> SUFFICES ASSUME Base, AllGood, [SnapshotNext]_snapshotVars PROVE AllGood'
  OBVIOUS
<1>1. CASE UNCHANGED snapshotVars
  BY <1>1, GoodStutters
<1>2. CASE Sync
  BY <1>2, GoodStoreEnvelope DEF Sync
<1>3. CASE EventTask
  BY <1>3, GoodReadFolder, GoodWriteFolder, GoodWriteFlags, GoodCacheFetched DEF EventTask
<1>4. CASE CommandWorker
  BY <1>4, GoodReceive, GoodAtServer, GoodCommandFails, GoodStoreBody, GoodStoreFlag,
     GoodForgetMoved, GoodClearFolder, GoodPutRelease DEF CommandWorker
<1>5. CASE DataSource
  <2>1. CASE CallGoesOn \/ EmptyTrashCall
    BY <2>1, GoodMoveShown, GoodCallEnds, GoodEmptyTrashCall DEF CallGoesOn
  <2>2. ASSUME NEW i \in 1 .. lastId,
               \/ DeleteMessage(i) \/ ToggleFlag(i) \/ MissBody(i)
               \/ \E d \in Folders : MoveMessage(i, d)
               \/ \E seen \in BOOLEAN : SetSeen(i, seen)
        PROVE  AllGood'
    <3>1. CASE DeleteMessage(i) \/ MissBody(i) \/ \E d \in Folders : MoveMessage(i, d)
      BY <3>1, GoodCalls, SnapshotAssumption DEF DeleteMessage
    <3>2. CASE ToggleFlag(i) \/ \E seen \in BOOLEAN : SetSeen(i, seen)
      <4>1. \E flag, add : add \in BOOLEAN /\ ChangeFlag(i, flag, add)
        BY <3>2 DEF ToggleFlag, SetSeen
      <4>2. QED
        BY <4>1, GoodChangeFlag
    <3>3. QED
      BY <2>2, <3>1, <3>2
  <2>3. QED
    BY <1>5, <2>1, <2>2 DEF DataSource
<1>6. QED
  BY <1>1, <1>2, <1>3, <1>4, <1>5 DEF SnapshotNext

-----------------------------------------------------------------------------

\* When all is quiet there is nothing to wait for.
LEMMA QuietIs ==
  ASSUME Base, AllGood, Quiet, ~amiss
  PROVE  /\ \A f \in Folders, m \in Mail : Settled(f, m)
         /\ \A i : ~FlagPending(i) /\ FlagsIn(events, i) = {}
         /\ \A f \in Folders : Coming(f) = view[f]
<1>1. /\ commands = <<>> /\ work.at = "recv" /\ call.at \notin {"move", "send"}
      /\ events = <<>> /\ update = NoUpdate
      /\ \A m \in Mail : server[m].folder # Nowhere =>
           \E r \in rows : r.mail = m /\ r.folder = server[m].folder
  BY DEF Quiet
<1>2. \A c \in Command : ~Ahead(c)
  BY <1>1 DEF Ahead, StillToDo
<1>3. \A op : ~Storing(op)
  BY <1>1 DEF Storing
<1>4. Good
  BY <1>1, <1>2 DEF AllGood, Doomed
<1>5. \A i : ~FlagPending(i) /\ FlagsIn(events, i) = {}
  BY <1>1, <1>2, <1>3 DEF FlagPending, FlagsIn
<1>6. \A f \in Folders, m \in Mail : ~Excused(f, m)
  BY <1>1, <1>2, <1>3, SnapshotAssumption DEF Excused, MovePending, EmptyPending, ListIn
<1>7. \A f \in Folders : Coming(f) = view[f]
  BY <1>1, IdleIs, SnapshotAssumption DEF Coming
<1>8. QED
  BY <1>4, <1>5, <1>6, <1>7 DEF Good

LEMMA QuietAgrees == Base /\ AllGood => QuietViewAgrees
<1> SUFFICES ASSUME Base, AllGood, Quiet, ~amiss
             PROVE  /\ \A f \in Folders \ {Trash} : view[f] = Listed(f)
                    /\ \A n \in DOMAIN Listed(Trash) :
                         \E k \in DOMAIN view[Trash] : view[Trash][k] = Listed(Trash)[n]
  BY DEF QuietViewAgrees
<1>1. /\ \A f \in Folders, m \in Mail : Settled(f, m)
      /\ \A i : ~FlagPending(i) /\ FlagsIn(events, i) = {}
      /\ \A f \in Folders : Coming(f) = view[f]
  BY QuietIs
<1>2. /\ view \in [Folders -> Seq(Entry)] /\ rows \subseteq Row /\ RowsDiffer
      /\ \A f \in Folders : Sorted(view[f])
  BY DEF Base, ListsTyped, ListsSorted
<1>3. ASSUME NEW r \in rows
      PROVE  \E k \in DOMAIN view[r.folder] :
               /\ view[r.folder][k] = EntryOf(r)
               /\ \A j \in DOMAIN view[r.folder] : view[r.folder][j].id = r.id => j = k
  <2>1. /\ r.folder \in Folders /\ r.mail \in Mail
        /\ \A f \in Folders : \A n \in DOMAIN view[f] : view[f][n].id = r.id => view[f][n].mail = r.mail
    BY RowOfId
  <2>2. Placed(r)
    BY <1>1, <2>1 DEF Settled
  <2> DEFINE l == view[r.folder]
  <2>3. Once(l, r.id) /\ Flagged(l, r.id, r.flags)
    BY <1>1, <2>1, <2>2 DEF Placed
  <2>4. PICK k \in DOMAIN l : l[k].id = r.id /\ \A j \in DOMAIN l : l[j].id = r.id => j = k
    BY <2>3 DEF Once
  <2>5. l[k] \in Entry
    <3>1. l \in Seq(Entry)
      BY <1>2, <2>1
    <3>2. QED
      BY <3>1, ElementOfSeq, LenProperties
  <2>6. l[k].mail = r.mail /\ l[k].flags = r.flags
    BY <2>1, <2>3, <2>4 DEF Flagged
  <2>7. l[k] = EntryOf(r)
    <3> HIDE DEF l
    <3>1. QED
      BY <2>4, <2>5, <2>6 DEF Entry, EntryOf
  <2>8. QED
    BY <2>4, <2>7
<1>4. ASSUME NEW f \in Folders, f # Trash PROVE view[f] = Listed(f)
  <2> DEFINE l == view[f]
  <2>1. l \in Seq(Entry) /\ Sorted(l)
    BY <1>2
  <2>2. Len(l) \in Nat /\ DOMAIN l = 1 .. Len(l) /\ \A n \in DOMAIN l : l[n] \in Entry
    BY <2>1, LenProperties, ElementOfSeq
  <2>3. ASSUME NEW n \in DOMAIN l
        PROVE  \E r \in rows : /\ r.folder = f /\ l[n] = EntryOf(r)
                               /\ \A j \in DOMAIN l : l[j].id = r.id => j = n
    <3>1. l[n].mail \in Mail
      BY <2>2 DEF Entry
    <3>2. NoStray(f, l[n].mail)
      BY <1>1, <1>4, <3>1 DEF Settled
    <3>3. PICK r \in rows : r.folder = f /\ r.id = l[n].id
      BY <1>1, <3>2 DEF NoStray
    <3>4. QED
      BY <1>3, <3>3
  <2>4. \A n \in DOMAIN l : l[n] \in Stored(f)
    BY <1>2, <2>3, StoredIs
  <2>5. \A e \in Stored(f) : \E n \in DOMAIN l : l[n] = e
    BY <1>2, <1>3, StoredIs
  <2>6. \A n, k \in DOMAIN l : n < k => Newer(l[n], l[k])
    <3> SUFFICES ASSUME NEW n \in DOMAIN l, NEW k \in DOMAIN l, n < k PROVE Newer(l[n], l[k])
      OBVIOUS
    <3>1. l[n].mail >= l[k].mail
      BY <2>1 DEF Sorted
    <3>2. PICK r \in rows : r.folder = f /\ l[n] = EntryOf(r) /\ \A j \in DOMAIN l : l[j].id = r.id => j = n
      BY <2>3
    <3>3. PICK q \in rows : q.folder = f /\ l[k] = EntryOf(q) /\ \A j \in DOMAIN l : l[j].id = q.id => j = k
      BY <2>3
    <3>4. k # n
      BY <2>2
    <3>5. r # q
      BY <3>2, <3>3, <3>4 DEF EntryOf
    <3>6. r.mail # q.mail /\ r.mail \in Nat /\ q.mail \in Nat
      BY <1>2, <3>2, <3>3, <3>5, SnapshotAssumption DEF RowsDiffer, Row
    <3>7. l[n].mail = r.mail /\ l[k].mail = q.mail
      BY <3>2, <3>3 DEF EntryOf
    <3>8. QED
      BY <3>1, <3>6, <3>7 DEF Newer
  <2> HIDE DEF l
  <2>7. l = Listed(f)
    BY <1>2, <2>1, <2>4, <2>5, <2>6, SameList
  <2>8. QED
    BY <2>7 DEF l
<1>5. ASSUME NEW n \in DOMAIN Listed(Trash)
      PROVE  \E k \in DOMAIN view[Trash] : view[Trash][k] = Listed(Trash)[n]
  <2>1. PICK r \in rows : r.folder = Trash /\ Listed(Trash)[n] = EntryOf(r)
    BY <1>2, ListedSorted
  <2>2. QED
    BY <1>3, <2>1
<1>6. QED
  BY <1>4, <1>5

-----------------------------------------------------------------------------
(* The list and the reader.                                                  *)

AppTyped ==
  /\ folder \in Folders /\ list \in Seq(Entry)
  /\ selected \in DOMAIN list \/ (list = <<>> /\ selected = 1) \/ due = "list"
  /\ body \in Mail \cup {NoMail} /\ moving \in Ids \cup {NoId}
  /\ due \in {"nothing", "tick", "list", "body"}

\* What is due to be shown is not shown yet; and the ids in the list stand for
\* its messages still, wherever they are now.
BodyIsDue == due = "body" => body = NoMail
ListMeansMail ==
  \A n \in DOMAIN list :
    list[n].id <= lastId /\ \A k \in Mail : Named(list[n].id, k) => k = list[n].mail

AppInv == Base /\ AppTyped /\ BodyIsDue /\ ListMeansMail

LEMMA ViewStep == [Next]_vars => [SnapshotNext]_snapshotVars
<1> SUFFICES ASSUME [Next]_vars PROVE SnapshotNext \/ UNCHANGED snapshotVars
  OBVIOUS
<1>1. CASE Key
  <2>1. ASSUME NEW i, DeleteMessage(i) \/ ToggleFlag(i) \/ MissBody(i) PROVE SnapshotNext
    BY <2>1 DEF SnapshotNext, DataSource, DeleteMessage, MoveMessage, ToggleFlag, ChangeFlag, MissBody, Given
  <2>2. ASSUME NEW i, NEW d \in Folders, MoveMessage(i, d) PROVE SnapshotNext
    BY <2>2 DEF SnapshotNext, DataSource, MoveMessage, Given
  <2>3. ASSUME NEW i, NEW seen \in BOOLEAN, SetSeen(i, seen) PROVE SnapshotNext
    BY <2>3 DEF SnapshotNext, DataSource, SetSeen, ChangeFlag, Given
  <2>4. CASE Delete \/ ToggleFlagged
    BY <2>1, <2>4 DEF Delete, ToggleFlagged
  <2>5. CASE MarkSeen(TRUE) \/ ToggleRead
    <3>1. PICK seen \in BOOLEAN : MarkSeen(seen)
      BY <2>5 DEF ToggleRead
    <3>2. QED
      BY <2>3, <3>1 DEF MarkSeen
  <2>6. CASE \E d \in Folders : MoveSelect(d)
    BY <2>2, <2>6 DEF MoveSelect
  <2>7. CASE EmptyTrashKey
    BY <2>7 DEF EmptyTrashKey, SnapshotNext, DataSource
  <2>8. CASE \/ OpenMoveModal \/ MoveCancel
             \/ \E f \in Folders : ChooseFolder(f)
             \/ \E n \in DOMAIN list : Select(n)
    BY <2>8 DEF OpenMoveModal, MoveCancel, ChooseFolder, Select
  <2>9. QED
    BY <1>1, <2>4, <2>5, <2>6, <2>7, <2>8 DEF Key
<1>2. CASE Refreshes
  <2>1. ASSUME NEW i, MissBody(i) PROVE SnapshotNext
    BY <2>1 DEF SnapshotNext, DataSource, MissBody, Given
  <2>2. QED
    BY <1>2, <2>1 DEF Refreshes, RefreshMessages, ShowBody
<1>3. CASE Tick
  BY <1>3 DEF Tick
<1>4. CASE DwellMarksRead
  BY <1>4 DEF DwellMarksRead, SnapshotNext, DataSource, SetSeen, ChangeFlag, Given
<1>5. CASE Behind
  BY <1>5 DEF Behind, SnapshotNext, DataSource
<1>6. CASE UNCHANGED vars
  BY <1>6 DEF vars
<1>7. QED
  BY <1>1, <1>2, <1>3, <1>4, <1>5, <1>6 DEF Next

\* Position finds an entry of that id if there is one.
LEMMA PositionFinds ==
  ASSUME NEW l \in Seq(Entry), NEW i, Position(l, i) = {}
  PROVE  \A n \in DOMAIN l : l[n].id # i
<1> SUFFICES ASSUME NEW n \in DOMAIN l, l[n].id = i PROVE FALSE
  OBVIOUS
<1> DEFINE S == {k \in DOMAIN l : l[k].id = i}
<1>1. S \subseteq Nat /\ n \in S /\ \A k \in S : k \in DOMAIN l /\ l[k].id = i /\ \A j \in 1 .. k - 1 : j \in DOMAIN l
  OBVIOUS
<1>2. \A k \in DOMAIN l : l[k].id = i => k \in S
  OBVIOUS
<1> HIDE DEF S
<1>3. PICK k \in S : \A j \in S : <<j, k>> \notin OpToRel(<, Nat)
  BY <1>1, WFMin, NatLessThanWellFounded, Zenon
<1>4. \A j \in S : ~(j < k)
  BY <1>1, <1>3, Zenon DEF OpToRel
<1>5. ASSUME NEW j \in 1 .. k - 1 PROVE l[j].id # i
  <2>1. j \in DOMAIN l /\ j < k
    BY <1>1, <1>5
  <2>2. QED
    BY <1>2, <1>4, <2>1
<1>6. k \in Position(l, i)
  BY <1>1, <1>5 DEF Position
<1>7. QED
  BY <1>6

LEMMA ListNamed ==
  ASSUME Base, NEW f \in Folders, NEW n \in DOMAIN view[f]
  PROVE  /\ view[f][n].id \in Ids /\ view[f][n].mail \in Mail
         /\ view[f][n].id <= lastId
         /\ \A k \in Mail : Named(view[f][n].id, k) => k = view[f][n].mail
<1>1. view[f][n].id \in Ids /\ view[f][n].mail \in Mail
  <2>1. view[f] \in Seq(Entry)
    BY DEF Base, ListsTyped
  <2>2. view[f][n] \in Entry
    BY <2>1
  <2>3. QED
    BY <2>2 DEF Entry
<1>2. Named(view[f][n].id, view[f][n].mail)
  BY DEF Named, NamedIn
<1>3. QED
  BY <1>1, <1>2 DEF Base, IdsMeanMail

\* The snapshot goes on and the list stays.
LEMMA ListStays ==
  ASSUME AppInv, BaseGoes, UNCHANGED list
  PROVE  ListMeansMail'
<1> SUFFICES ASSUME NEW n \in DOMAIN list
             PROVE  list[n].id <= lastId' /\ \A k \in Mail : Named(list[n].id, k)' => k = list[n].mail
  BY DEF ListMeansMail
<1>1. /\ list[n].id \in Ids /\ list[n].id <= lastId
      /\ \A k \in Mail : Named(list[n].id, k) => k = list[n].mail
  <2>1. list[n] \in Entry
    BY DEF AppInv, AppTyped
  <2>2. list[n].id \in Ids
    BY <2>1 DEF Entry
  <2>3. QED
    BY <2>2 DEF AppInv, ListMeansMail
<1>2. lastId \in Nat /\ lastId' \in Nat /\ lastId <= lastId'
  BY SnapshotAssumption DEF BaseGoes, NamesGrow, AppInv, Base, FlightInv
<1>3. \A k \in Mail : Named(list[n].id, k)' => Named(list[n].id, k) \/ lastId < list[n].id
  BY <1>1 DEF BaseGoes, NamesGrow
<1>4. QED
  BY <1>1, <1>2, <1>3 DEF Ids

\* The list is read from the snapshot.
LEMMA ListRead ==
  ASSUME AppInv, UNCHANGED snapshotVars, list' = view[folder]
  PROVE  ListMeansMail' /\ list' \in Seq(Entry)
<1>1. view' = view /\ lastId' = lastId /\ \A i, k : Named(i, k)' <=> Named(i, k)
  BY DEF snapshotVars, storeVars, snapVars, taskVars, Named
<1>2. folder \in Folders
  BY DEF AppInv, AppTyped
<1>3. ListMeansMail'
  <2>1. \A n \in DOMAIN view[folder] :
          /\ view[folder][n].id <= lastId
          /\ \A k \in Mail : Named(view[folder][n].id, k) => k = view[folder][n].mail
    BY <1>2, ListNamed DEF AppInv
  <2>2. QED
    BY <1>1, <2>1 DEF ListMeansMail
<1>4. list' \in Seq(Entry)
  BY <1>2 DEF AppInv, Base, ListsTyped
<1>5. QED
  BY <1>3, <1>4

LEMMA AppKept ==
  ASSUME AppInv, BaseGoes, UNCHANGED list, AppTyped', BodyIsDue'
  PROVE  AppInv'
BY ListStays DEF AppInv, BaseGoes

LEMMA CurrentIs ==
  ASSUME AppTyped, HasCurrent
  PROVE  Current.id \in Ids /\ Current.mail \in Mail
<1>1. list[selected] \in Entry
  BY DEF AppTyped, HasCurrent
<1>2. QED
  BY <1>1 DEF Current, Entry

\* A key that reads nothing.
LEMMA AppKey == AppInv /\ BaseGoes /\ Key => AppInv'
<1> SUFFICES ASSUME AppInv, BaseGoes, Key PROVE AppInv'
  OBVIOUS
<1>1. AppTyped /\ BodyIsDue
  BY DEF AppInv
<1>2. CASE Delete \/ ToggleFlagged \/ EmptyTrashKey \/ MarkSeen(TRUE) \/ ToggleRead
  <2>1. UNCHANGED <<folder, list, selected, body, moving>> /\ due' = "list"
    <3>1. Calling => UNCHANGED <<folder, list, selected, body, moving>> /\ due' = "list"
      BY DEF Calling, AppKeeps
    <3>2. QED
      BY <1>2, <3>1, Zenon DEF Delete, ToggleFlagged, EmptyTrashKey, ToggleRead, MarkSeen
  <2>2. AppTyped' /\ BodyIsDue'
    BY <1>1, <2>1 DEF AppTyped, BodyIsDue
  <2>3. QED
    BY <2>1, <2>2, AppKept
<1>3. CASE \E d \in Folders : MoveSelect(d)
  <2>1. UNCHANGED <<folder, list, selected, body>> /\ due' = "list" /\ moving' = NoId
    BY <1>3 DEF MoveSelect, AppKeeps
  <2>2. AppTyped' /\ BodyIsDue'
    BY <1>1, <2>1 DEF AppTyped, BodyIsDue
  <2>3. QED
    BY <2>1, <2>2, AppKept
<1>4. CASE OpenMoveModal \/ MoveCancel
  <2>1. UNCHANGED <<folder, list, selected, body, due>> /\ moving' \in Ids \cup {NoId}
    <3>1. HasCurrent => Current.id \in Ids
      BY <1>1, CurrentIs
    <3>2. QED
      BY <1>4, <3>1 DEF OpenMoveModal, MoveCancel, AppKeeps
  <2>2. AppTyped' /\ BodyIsDue'
    BY <1>1, <2>1 DEF AppTyped, BodyIsDue
  <2>3. QED
    BY <2>1, <2>2, AppKept
<1>5. ASSUME NEW f \in Folders, ChooseFolder(f) PROVE AppInv'
  <2>1. UNCHANGED <<list, body, moving>> /\ due' = "list" /\ folder' = f
    BY <1>5 DEF ChooseFolder
  <2>2. AppTyped' /\ BodyIsDue'
    BY <1>1, <2>1 DEF AppTyped, BodyIsDue
  <2>3. QED
    BY <2>1, <2>2, AppKept
<1>6. ASSUME NEW n \in DOMAIN list, Select(n) PROVE AppInv'
  <2>1. UNCHANGED <<folder, list, moving>> /\ selected' = n /\ body' = NoMail /\ due' = "body"
    BY <1>6 DEF Select
  <2>2. AppTyped' /\ BodyIsDue'
    BY <1>1, <2>1 DEF AppTyped, BodyIsDue
  <2>3. QED
    BY <2>1, <2>2, AppKept
<1>7. QED
  BY <1>2, <1>3, <1>4, <1>5, <1>6 DEF Key

LEMMA AppRefreshes == AppInv /\ BaseGoes /\ Refreshes => AppInv'
<1> SUFFICES ASSUME AppInv, BaseGoes, Refreshes PROVE AppInv'
  OBVIOUS
<1>1. AppTyped /\ BodyIsDue
  BY DEF AppInv
<1>2. CASE RefreshMessages
  <2>1. /\ UNCHANGED <<snapshotVars, folder, moving>> /\ due' = "body" /\ body' = NoMail
        /\ list' = view[folder] /\ selected' = Clamped(selected, view[folder])
    BY <1>2 DEF RefreshMessages, AppKeeps
  <2>2. ListMeansMail' /\ list' \in Seq(Entry)
    BY <2>1, ListRead
  <2>3. selected' \in DOMAIN list' \/ (list' = <<>> /\ selected' = 1)
    BY <2>1, <2>2 DEF Clamped
  <2>4. AppTyped' /\ BodyIsDue'
    BY <1>1, <2>1, <2>2, <2>3 DEF AppTyped, BodyIsDue
  <2>5. QED
    BY <2>2, <2>4 DEF AppInv, BaseGoes
<1>3. CASE ShowBody
  <2>1. UNCHANGED <<folder, list, selected, moving>> /\ due' = "nothing" /\ due = "body"
    BY <1>3 DEF ShowBody, AppKeeps
  <2>2. body' \in Mail \cup {NoMail}
    <3>1. HasCurrent => Current.mail \in Mail
      BY <1>1, CurrentIs
    <3>2. body' = body \/ (HasCurrent /\ body' \in {NoMail, Current.mail})
      BY <1>3 DEF ShowBody
    <3>3. QED
      BY <1>1, <3>1, <3>2 DEF AppTyped
  <2>3. AppTyped' /\ BodyIsDue'
    BY <1>1, <2>1, <2>2 DEF AppTyped, BodyIsDue
  <2>4. QED
    BY <2>1, <2>3, AppKept
<1>4. QED
  BY <1>2, <1>3 DEF Refreshes

\* A tick takes the list it reads, with what was selected in it if that is there.
LEMMA TickIs ==
  ASSUME AppInv, Tick
  PROVE  /\ UNCHANGED <<snapshotVars, folder, body, moving>>
         /\ due' = (IF body = NoMail THEN "body" ELSE "nothing") /\ due \in {"nothing", "tick"}
         /\ view[folder] \in Seq(Entry)
         /\ \/ UNCHANGED <<list, selected>>
            \/ /\ list' = view[folder]
               /\ \/ selected' = 1 /\ (HasCurrent => \A n \in DOMAIN list' : list'[n].id # Current.id)
                  \/ HasCurrent /\ selected' \in DOMAIN list' /\ list'[selected'].id = Current.id
<1>1. view[folder] \in Seq(Entry)
  BY DEF AppInv, AppTyped, Base, ListsTyped
<1>2. /\ UNCHANGED <<snapshotVars, folder, body, moving>>
      /\ due' = (IF body = NoMail THEN "body" ELSE "nothing") /\ due \in {"nothing", "tick"}
  BY DEF Tick, AppKeeps
<1> DEFINE at == IF HasCurrent THEN Position(view[folder], Current.id) ELSE {}
<1>3. \/ UNCHANGED <<list, selected>>
      \/ list' = view[folder] /\ selected' \in (IF at = {} THEN {1} ELSE at)
  BY DEF Tick
<1>4. CASE UNCHANGED <<list, selected>>
  BY <1>1, <1>2, <1>4
<1>5. CASE list' = view[folder] /\ at = {} /\ selected' = 1
  <2>1. HasCurrent => \A n \in DOMAIN view[folder] : view[folder][n].id # Current.id
    BY <1>1, <1>5, PositionFinds
  <2>2. QED
    BY <1>1, <1>2, <1>5, <2>1
<1>6. CASE list' = view[folder] /\ at # {} /\ selected' \in at
  <2>1. HasCurrent /\ selected' \in Position(view[folder], Current.id)
    BY <1>6
  <2>2. selected' \in DOMAIN view[folder] /\ view[folder][selected'].id = Current.id
    BY <2>1 DEF Position
  <2>3. QED
    BY <1>1, <1>2, <1>6, <2>1, <2>2
<1>7. QED
  BY <1>3, <1>4, <1>5, <1>6

LEMMA AppTick == AppInv /\ BaseGoes /\ Tick => AppInv'
<1> SUFFICES ASSUME AppInv, BaseGoes, Tick PROVE AppInv'
  OBVIOUS
<1>1. AppTyped /\ BodyIsDue
  BY DEF AppInv
<1>2. /\ UNCHANGED <<snapshotVars, folder, body, moving>>
      /\ due' = (IF body = NoMail THEN "body" ELSE "nothing") /\ due \in {"nothing", "tick"}
  BY TickIs
<1>3. BodyIsDue'
  BY <1>2 DEF BodyIsDue
<1>4. CASE UNCHANGED <<list, selected>>
  <2>1. AppTyped'
    BY <1>1, <1>2, <1>4 DEF AppTyped
  <2>2. QED
    BY <1>3, <1>4, <2>1, AppKept
<1>5. CASE list' = view[folder] /\ (selected' = 1 \/ selected' \in DOMAIN list')
  <2>1. ListMeansMail' /\ list' \in Seq(Entry)
    BY <1>2, <1>5, ListRead
  <2>2. selected' \in DOMAIN list' \/ (list' = <<>> /\ selected' = 1)
    BY <1>5, <2>1
  <2>3. AppTyped'
    BY <1>1, <1>2, <2>1, <2>2 DEF AppTyped
  <2>4. QED
    BY <1>3, <2>1, <2>3 DEF AppInv, BaseGoes
<1>6. QED
  BY <1>4, <1>5, TickIs

LEMMA AppInit == Init => AppInv
<1> SUFFICES ASSUME Init PROVE AppInv
  OBVIOUS
<1>1. Base
  BY BaseInit DEF Init
<1>2. folder = Inbox /\ Inbox \in Folders /\ list = view[Inbox] /\ selected = 1 /\ body = NoMail /\ moving = NoId /\ due = "body"
  BY SnapshotAssumption DEF Init
<1>3. view[Inbox] \in Seq(Entry)
  BY <1>1, <1>2 DEF Base, ListsTyped
<1>4. AppTyped /\ BodyIsDue
  BY <1>2, <1>3 DEF AppTyped, BodyIsDue
<1>5. ListMeansMail
  BY <1>1, <1>2, ListNamed DEF ListMeansMail
<1>6. QED
  BY <1>1, <1>4, <1>5 DEF AppInv

LEMMA AppNext == AppInv /\ [Next]_vars => AppInv'
<1> SUFFICES ASSUME AppInv, [Next]_vars PROVE AppInv'
  OBVIOUS
<1>1. BaseGoes
  BY ViewStep, BaseNext DEF AppInv
<1>2. AppTyped /\ BodyIsDue
  BY DEF AppInv
<1>3. CASE DwellMarksRead
  <2>1. UNCHANGED <<folder, list, selected, body, moving>> /\ due' = "tick" /\ due = "nothing"
    BY <1>3 DEF DwellMarksRead, AppKeeps, Free
  <2>2. AppTyped' /\ BodyIsDue'
    BY <1>2, <2>1 DEF AppTyped, BodyIsDue
  <2>3. QED
    BY <1>1, <2>1, <2>2, AppKept
<1>4. CASE Behind \/ UNCHANGED vars
  <2>1. UNCHANGED appVars
    BY <1>4 DEF Behind, vars
  <2>2. AppTyped' /\ BodyIsDue' /\ UNCHANGED list
    BY <1>2, <2>1 DEF AppTyped, BodyIsDue, appVars
  <2>3. QED
    BY <1>1, <2>2, AppKept
<1>5. QED
  BY <1>1, <1>3, <1>4, AppKey, AppRefreshes, AppTick DEF Next

-----------------------------------------------------------------------------

LEMMA LossMixes ==
  AppInv /\ [Next]_vars =>
    (Mixed' => Mixed \/ (Tick /\ (HasCurrent => \A n \in DOMAIN list' : list'[n].id # Current.id)))
<1> SUFFICES ASSUME AppInv, [Next]_vars, Mixed', ~Mixed
             PROVE  Tick /\ (HasCurrent => \A n \in DOMAIN list' : list'[n].id # Current.id)
  OBVIOUS
<1>1. due' \in {"nothing", "tick"} /\ selected' \in DOMAIN list' /\ body' \notin {NoMail, list'[selected'].mail}
  BY DEF Mixed, HasCurrent, Current
<1>2. AppTyped /\ BodyIsDue
  BY DEF AppInv
<1>3. UNCHANGED <<list, selected, body>> => due \notin {"nothing", "tick"}
  BY <1>1 DEF Mixed, HasCurrent, Current
<1>4. ~DwellMarksRead
  BY <1>3 DEF DwellMarksRead, AppKeeps, Free
<1>5. ~Behind /\ ~UNCHANGED vars
  BY <1>1, <1>3 DEF Behind, vars, appVars
<1>6. ~Key
  <2>1. ~Calling
    BY <1>1 DEF Calling
  <2>2. ~Delete /\ ~ToggleFlagged /\ ~EmptyTrashKey /\ ~MarkSeen(TRUE) /\ ~ToggleRead
    BY <2>1, Zenon DEF Delete, ToggleFlagged, EmptyTrashKey, ToggleRead, MarkSeen
  <2>3. ~OpenMoveModal /\ ~MoveCancel
    BY <1>1, <1>3 DEF OpenMoveModal, MoveCancel, AppKeeps
  <2>4. (\A d \in Folders : ~MoveSelect(d)) /\ (\A f \in Folders : ~ChooseFolder(f)) /\ \A n \in DOMAIN list : ~Select(n)
    BY <1>1 DEF MoveSelect, ChooseFolder, Select
  <2>5. QED
    BY <2>2, <2>3, <2>4 DEF Key
<1>7. ~Refreshes
  <2>1. ~RefreshMessages
    BY <1>1 DEF RefreshMessages
  <2>2. ASSUME ShowBody PROVE FALSE
    <3>1. UNCHANGED <<list, selected>> /\ due = "body" /\ body = NoMail
      BY <1>2, <2>2 DEF ShowBody, AppKeeps, BodyIsDue
    <3>2. body' = body \/ body' \in {NoMail, list[selected].mail}
      BY <2>2 DEF ShowBody, Current
    <3>3. QED
      BY <1>1, <3>1, <3>2
  <2>3. QED
    BY <2>1, <2>2 DEF Refreshes
<1>8. Tick
  BY <1>4, <1>5, <1>6, <1>7 DEF Next
<1>9. ASSUME HasCurrent, list' = view[folder], selected' \in DOMAIN list', list'[selected'].id = Current.id PROVE FALSE
  <2>1. /\ folder \in Folders /\ selected' \in DOMAIN view[folder]
        /\ view[folder][selected'].id = Current.id
    BY <1>2, <1>9 DEF AppTyped
  <2>2. view[folder][selected'].mail \in Mail /\ Named(Current.id, view[folder][selected'].mail)
    <3>1. Named(view[folder][selected'].id, view[folder][selected'].mail)
      BY <2>1 DEF Named, NamedIn
    <3>2. QED
      BY <2>1, <3>1, ListNamed DEF AppInv
  <2>3. list'[selected'].mail = Current.mail
    BY <1>9, <2>2 DEF AppInv, ListMeansMail, HasCurrent, Current
  <2>4. body' = body /\ due \in {"nothing", "tick"}
    BY <1>8, TickIs
  <2>5. QED
    BY <1>1, <1>9, <2>3, <2>4 DEF Mixed
<1>10. QED
  BY <1>3, <1>8, <1>9, TickIs

-----------------------------------------------------------------------------
(* The theorems.                                                             *)

\* Whatever the TUI asks for and whatever fails, a body in flight is being
\* fetched by one command, and a body not in flight by none.
THEOREM BodiesInFlight == SnapshotSpec => []InFlightIsPending
<1>1. FlightInv => InFlightIsPending
  BY DEF FlightInv
<1>2. QED
  BY FlightInit, FlightNext, <1>1, PTL DEF SnapshotSpec

\* The snapshot, the commands, the events and command_worker are of their types.
THEOREM SnapshotTyped == SnapshotSpec => []SnapshotTypeOK
<1>1. Base /\ [SnapshotNext]_snapshotVars => Base'
  BY BaseNext DEF BaseGoes
<1>2. QED
  BY <1>1, BaseInit, BaseTyped, PTL DEF SnapshotSpec

\* When every command is done, every event applied and every message synced, and
\* the engine has refused nothing, the lists of the snapshot are those of the
\* store: a change shown ahead of the engine, and the events that met it on the
\* way, in whatever order, leave no trace.  Only Trash may show more.
THEOREM ViewAgrees == SnapshotSpec => []QuietViewAgrees
<1>1. SnapshotInit => Base /\ AllGood
  BY BaseInit, GoodInit
<1>2. (Base /\ AllGood) /\ [SnapshotNext]_snapshotVars => (Base /\ AllGood)'
  BY BaseNext, GoodNext DEF BaseGoes
<1>3. QED
  BY <1>1, <1>2, QuietAgrees, PTL DEF SnapshotSpec

\* The TUI only calls the data source: with its list, its reader and its keys,
\* every behaviour is one of the snapshot and its callers.
THEOREM ViewBehaves == Spec => SnapshotSpec
<1>1. Init => SnapshotInit
  BY DEF Init
<1>2. QED
  BY <1>1, ViewStep, PTL DEF Spec, SnapshotSpec

\* So the TUI never asks for a body twice, nor waits for one that nobody fetches.
THEOREM TuiBodiesInFlight == Spec => []InFlightIsPending
BY BodiesInFlight, ViewBehaves, PTL

\* Nor do its lists drift from the store, on whatever keys and ticks.
THEOREM TuiViewAgrees == Spec => []QuietViewAgrees
BY ViewAgrees, ViewBehaves, PTL

\* The list and the reader are of their types, with an index that is in the list
\* whenever no refresh of the list is due.
THEOREM ViewTyped == Spec => []TypeOK
<1>1. AppInv => TypeOK
  BY BaseTyped DEF AppInv, AppTyped, TypeOK
<1>2. QED
  BY <1>1, AppInit, AppNext, PTL DEF Spec

\* The reader comes to show the headers of one message with the body of another
\* in one way only: a tick takes a list from which the selected message is gone.
THEOREM LossMixesOnly == Spec => OnlyLossMixes
<1>1. Spec => []AppInv
  BY AppInit, AppNext, PTL DEF Spec
<1>2. QED
  BY <1>1, LossMixes, PTL DEF Spec, OnlyLossMixes
=============================================================================
