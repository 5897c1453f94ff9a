------------------------------- MODULE MailView -------------------------------
(***************************************************************************)
(* The list and the reader of the TUI (imt-tui App): the copy it keeps of    *)
(* the snapshot's list of one folder, what is selected in it and the body    *)
(* shown, and the keys and ticks that read the data source and call it.      *)
(*                                                                          *)
(* A key calls the data source and then refreshes the list, the list then    *)
(* the body; the snapshot may change before each of these, but no other key  *)
(* and no tick comes in between.                                             *)
(***************************************************************************)
EXTENDS MailSnapshot

CONSTANTS NoId, NoMail

ASSUME ViewAssumption == NoId \notin Ids /\ NoMail \notin Mail

VARIABLES
  folder,    \* the folder selected in the sidebar
  list,      \* messages
  selected,  \* message_idx, from 1
  body,      \* the message whose body is current_body
  moving,    \* move_state: the message to move, while the modal is open
  due        \* what the key or tick is still to refresh

appVars == <<folder, list, selected, body, moving, due>>
vars == <<snapshotVars, appVars>>

Free == call = NoCall /\ due = "nothing"
AtKey == Free /\ moving = NoId

Current == list[selected]
HasCurrent == selected \in DOMAIN list

\* What is not in changed stays as it is.
AppKeeps(changed) ==
  /\ "folder" \in changed \/ UNCHANGED folder
  /\ "list" \in changed \/ UNCHANGED <<list, selected>>
  /\ "body" \in changed \/ UNCHANGED body
  /\ "moving" \in changed \/ UNCHANGED moving

-----------------------------------------------------------------------------
(* Keys.                                                                     *)

\* A key that calls the data source goes on to refresh_messages.
Calling == due' = "list" /\ AppKeeps({})

\* delete_current
Delete ==
  /\ AtKey /\ HasCurrent
  /\ DeleteMessage(Current.id)
  /\ Calling

\* toggle_read_current, mark_read
MarkSeen(seen) ==
  /\ AtKey /\ HasCurrent
  /\ SetSeen(Current.id, seen)
  /\ Calling

ToggleRead == HasCurrent /\ MarkSeen("seen" \notin Current.flags)

\* toggle_flag
ToggleFlagged ==
  /\ AtKey /\ HasCurrent
  /\ ToggleFlag(Current.id)
  /\ Calling

EmptyTrashKey ==
  /\ AtKey /\ folder = Trash
  /\ EmptyTrashCall
  /\ Calling

\* The modal remembers the message while ticks go on.
OpenMoveModal ==
  /\ AtKey /\ HasCurrent /\ "move" \in Calls
  /\ moving' = Current.id
  /\ UNCHANGED <<snapshotVars, due>> /\ AppKeeps({"moving"})

MoveSelect(d) ==
  /\ Free /\ moving # NoId /\ d # folder
  /\ MoveMessage(moving, d)
  /\ moving' = NoId /\ due' = "list"
  /\ AppKeeps({"moving"})

MoveCancel ==
  /\ Free /\ moving # NoId
  /\ moving' = NoId
  /\ UNCHANGED <<snapshotVars, due>> /\ AppKeeps({"moving"})

\* The sidebar; a click also goes to the top of the list.
ChooseFolder(f) ==
  /\ AtKey
  /\ folder' = f /\ due' = "list"
  /\ selected' \in {selected, 1}
  /\ UNCHANGED <<snapshotVars, list, body, moving>>

\* Arrows, pages and clicks in the list, and opening a message.
\* Slip: the body is not refreshed.
SelectSlip(n) ==
  /\ AtKey /\ n \in DOMAIN list
  /\ selected' = n
  /\ UNCHANGED <<snapshotVars, folder, list, body, moving, due>>

Select(n) ==
  /\ AtKey /\ n \in DOMAIN list
  /\ selected' = n
  /\ body' = NoMail /\ due' = "body"
  /\ UNCHANGED <<snapshotVars, folder, list, moving>>

-----------------------------------------------------------------------------
(* Refreshes.                                                                *)

Clamped(n, l) == IF n \in DOMAIN l THEN n ELSE IF l = <<>> THEN 1 ELSE Len(l)

\* refresh_messages, which goes on to refresh_body.
\* Slip: the index is left as it is.
RefreshMessagesSlip ==
  /\ call = NoCall /\ due = "list"
  /\ list' = view[folder] /\ UNCHANGED selected
  /\ body' = NoMail /\ due' = "body"
  /\ UNCHANGED snapshotVars /\ AppKeeps({"list", "body"})

RefreshMessages ==
  /\ call = NoCall /\ due = "list"
  /\ list' = view[folder] /\ selected' = Clamped(selected, view[folder])
  /\ body' = NoMail /\ due' = "body"
  /\ UNCHANGED snapshotVars /\ AppKeeps({"list", "body"})

\* The body is in the cache; or it is asked for, and what is shown until it
\* comes is the body the row had when the list was read, if it had one.
ShowBody ==
  /\ due = "body" /\ due' = "nothing"
  /\ \/ UNCHANGED <<snapshotVars, body>> /\ (~HasCurrent \/ "body" \notin Calls)
     \/ /\ HasCurrent /\ Current.id \in cache /\ call = NoCall
        /\ body' = Current.mail /\ UNCHANGED snapshotVars
     \/ /\ HasCurrent /\ MissBody(Current.id)
        /\ body' \in {NoMail, Current.mail}
  /\ AppKeeps({"body"})

\* tick: what tells it that the list has changed.
Differs(new) ==
  \/ Len(new) # Len(list)
  \/ new # <<>> /\ new[1].id # list[1].id
  \/ \E n \in DOMAIN new : new[n].flags # list[n].flags

Tick ==
  LET new == view[folder]
      at  == IF HasCurrent THEN Position(new, Current.id) ELSE {}
  IN /\ call = NoCall /\ due \in {"nothing", "tick"}
     /\ IF Differs(new)
        THEN list' = new /\ selected' \in (IF at = {} THEN {1} ELSE at)
        ELSE UNCHANGED <<list, selected>>
     /\ due' = IF body = NoMail THEN "body" ELSE "nothing"
     /\ UNCHANGED snapshotVars /\ AppKeeps({"list"})

\* maybe_mark_read_after_dwell, at the beginning of a tick.
DwellMarksRead ==
  /\ Free /\ HasCurrent /\ "seen" \notin Current.flags
  /\ SetSeen(Current.id, TRUE)
  /\ due' = "tick" /\ AppKeeps({})

-----------------------------------------------------------------------------

\* The TUI opens on the Inbox.
Init ==
  /\ SnapshotInit
  /\ folder = Inbox /\ list = view[Inbox] /\ selected = 1
  /\ body = NoMail /\ moving = NoId /\ due = "body"

Key ==
  \/ Delete \/ OpenMoveModal \/ MoveCancel
  \/ \E d \in Folders : MoveSelect(d)
  \/ MarkSeen(TRUE) \/ ToggleRead \/ ToggleFlagged \/ EmptyTrashKey
  \/ \E f \in Folders : ChooseFolder(f)
  \/ \E n \in DOMAIN list : Select(n)

Refreshes == RefreshMessages \/ ShowBody

Behind == (Sync \/ EventTask \/ CommandWorker \/ CallGoesOn) /\ UNCHANGED appVars

Next == Key \/ Refreshes \/ Tick \/ DwellMarksRead \/ Behind

Spec == Init /\ [][Next]_vars

-----------------------------------------------------------------------------
(* Properties.                                                               *)

\* The types, with an index that is in the list.
TypeOK ==
  /\ SnapshotTypeOK
  /\ folder \in Folders /\ list \in Seq(Entry)
  /\ selected \in DOMAIN list \/ (list = <<>> /\ selected = 1) \/ due = "list"
  /\ body \in Mail \cup {NoMail} /\ moving \in Ids \cup {NoId}
  /\ due \in {"nothing", "tick", "list", "body"}

\* The reader shows the headers of one message and the body of another.
Mixed == due \in {"nothing", "tick"} /\ HasCurrent /\ body \notin {NoMail, Current.mail}

\* That comes about in one way only, on whatever keys: a tick takes a new list and what was selected before it is not there.
OnlyLossMixes ==
  [][ Mixed' => Mixed \/ (Tick /\ (HasCurrent => \A n \in DOMAIN list' : list'[n].id # Current.id)) ]_vars
=============================================================================
