------------------------------- MODULE Outbox --------------------------------
(***************************************************************************)
(* The way of a mail out: written in the compose window (imt-tui/app.rs) or *)
(* by an agent of the MCP server (imt-mcp), queued for command_worker       *)
(* (imt/datasource.rs), and sent by SyncEngine::send (imt-sync/engine.rs):  *)
(* SMTP, a copy for the Sent folder, and the row of the drafts table        *)
(* deleted at the end.  Both processes use the account's tokens as          *)
(* OAuthTokens has them on disk, and never freshen them.                    *)
(***************************************************************************)
EXTENDS OAuthTokens, Addressing, Sequences, FiniteSets

CONSTANTS
  Written,     \* mails written in the TUI
  Dictated,    \* mails an agent sends through the MCP server
  Originals,   \* headers of the message that is replied to
  NoMail,
  Typed,       \* recipients that are typed for a mail that answers nothing
  MaxQueue,    \* bound: commands in the queue
  MaxRunning,  \* bound: processes running at once
  MaxTries,    \* bound: how often an agent sends a mail that was reported failed
  Faults       \* bound: what may fail

Mails == Written \cup Dictated

ASSUME OutboxAssumption ==
  /\ Written \cap Dictated = {} /\ NoMail \notin Mails
  /\ Originals \subseteq Headers /\ Typed \subseteq SUBSET Addr
  /\ MaxQueue \in Nat
  /\ Faults \subseteq {"smtp", "smtp answer", "database", "append", "exit"}

VARIABLES
  orig,        \* the message replied to
  compose,     \* the mail in the compose window
  begun,       \* history: mails a window was opened for
  queue,       \* commands on the way to command_worker
  pc, job,     \* where command_worker and the MCP server are
  saved,       \* the drafts table: mails that have a row
  copies,      \* mails with a copy in the server's Drafts folder
  delivered,   \* how often the SMTP server has accepted each mail
  filed,       \* copies of each mail in the Sent folder
  asked,       \* history: how often somebody asked for it to be sent
  told,        \* the last thing that somebody heard of it
  causes       \* history: why a report may be wrong

mailVars == <<orig, compose, begun, queue, pc, job, saved, copies,
              delivered, filed, asked, told, causes>>
vars == <<tokenVars, mailVars>>

Procs == {"command_worker", "mcp"}
\* A forward begins without recipients, as a new mail does.
Kinds == {"new", "reply", "reply all"}

Draft == [mail : Mails, kind : Kinds, rcpts : SUBSET (Addr \cup {Junk})]
NoDraft == [mail |-> NoMail, kind |-> "new", rcpts |-> {}]

Command == [name : {"save", "send"}, draft : Draft]
NoCommand == [name |-> "none", draft |-> NoDraft]

\* Windows, queue, tables and reports have the types the code gives them.
TypeOK ==
  /\ TokenTypeOK
  /\ orig \in Originals /\ compose \in Draft \cup {NoDraft}
  /\ begun \subseteq Written /\ saved \subseteq Mails /\ copies \subseteq Mails
  /\ queue \in Seq(Command) /\ Len(queue) <= MaxQueue
  /\ pc \in [Procs -> {"ready", "upsert", "append", "prepare", "smtp", "copy", "delete", "exited"}]
  /\ job \in [Procs -> Command \cup {NoCommand}]
  /\ \A f \in {delivered, filed, asked} : f \in [Mails -> Nat]
  /\ told \in [Mails -> {"nothing", "sent", "failed"}]
  /\ causes \subseteq {"answer lost", "row kept", "exit"}

Init ==
  /\ TokenInit
  /\ orig \in Originals /\ compose = NoDraft
  /\ saved = {} /\ begun = {}
  /\ queue = <<>>
  /\ pc \in {f \in [Procs -> {"ready", "exited"}] :
              Cardinality({p \in Procs : f[p] = "ready"}) \in 1 .. MaxRunning}
  /\ job = [p \in Procs |-> NoCommand]
  /\ copies = {} /\ delivered = [m \in Mails |-> 0] /\ filed = delivered /\ asked = delivered
  /\ told = [m \in Mails |-> "nothing"]
  /\ causes = {}

Bump(f, m) == [f EXCEPT ![m] = @ + 1]
Goto(p, s) == pc' = [pc EXCEPT ![p] = s]

-----------------------------------------------------------------------------
(* The compose window. *)

Addressed(k, typed) == IF k = "new" THEN typed ELSE BuildReply(orig, k = "reply all")

StartCompose(m, k, typed) ==
  /\ compose = NoDraft /\ m \notin begun /\ pc["command_worker"] # "exited"
  /\ begun' = begun \cup {m}
  /\ compose' = [mail |-> m, kind |-> k, rcpts |-> Addressed(k, typed)]
  /\ UNCHANGED <<tokenVars, orig, queue, pc, job, saved, copies, delivered, filed, asked, told, causes>>

\* sync_to_draft reads the text fields back.
SyncToDraft(name) ==
  [name |-> name, draft |-> [compose EXCEPT !.rcpts = ParseAddrs(@)]]

Enqueue(command) == Len(queue) < MaxQueue /\ queue' = Append(queue, command)

SaveComposeDraft ==
  /\ compose # NoDraft /\ Enqueue(SyncToDraft("save"))
  /\ UNCHANGED <<tokenVars, orig, compose, begun, pc, job, saved, copies, delivered, filed, asked, told, causes>>

\* The window closes and the status says Sent as soon as the command is queued.
SendCompose ==
  /\ compose # NoDraft /\ Enqueue(SyncToDraft("send"))
  /\ asked' = Bump(asked, compose.mail)
  /\ compose' = NoDraft
  /\ UNCHANGED <<tokenVars, orig, begun, pc, job, saved, copies, delivered, filed, told, causes>>

CancelCompose ==
  /\ compose # NoDraft /\ compose' = NoDraft
  /\ UNCHANGED <<tokenVars, orig, begun, queue, pc, job, saved, copies, delivered, filed, asked, told, causes>>

-----------------------------------------------------------------------------
(* command_worker, and the MCP server's loop: one command at a time.          *)

\* Slip: every command is taken for a save.
BeginSlip(p, command) ==
  /\ pc[p] = "ready"
  /\ job' = [job EXCEPT ![p] = command]
  /\ Goto(p, "upsert draft")

Begin(p, command) ==
  /\ pc[p] = "ready"
  /\ job' = [job EXCEPT ![p] = command]
  /\ Goto(p, IF command.name = "save" THEN "upsert" ELSE "prepare")

Receive ==
  /\ queue # <<>>
  /\ Begin("command_worker", Head(queue))
  /\ queue' = Tail(queue)
  /\ UNCHANGED <<tokenVars, orig, compose, begun, saved, copies, delivered, filed, asked, told, causes>>

\* An agent whose send or reply was reported failed may ask again; the draft it
\* makes is a new one.
AgentCalls(m, k, typed) ==
  /\ told[m] # "sent" /\ asked[m] < MaxTries
  /\ LET to == IF k = "new" THEN typed ELSE McpReply(orig, k = "reply all")
     IN Begin("mcp", [name |-> "send", draft |-> [mail |-> m, kind |-> k, rcpts |-> to]])
  /\ asked' = Bump(asked, m)
  /\ told' = [told EXCEPT ![m] = "nothing"]
  /\ UNCHANGED <<tokenVars, orig, compose, begun, queue, saved, copies, delivered, filed, causes>>

\* Slip: an error leaves the loop.
FinishSlip(p) == Goto(p, "exited") /\ job' = [job EXCEPT ![p] = NoCommand]

Finish(p) == Goto(p, "ready") /\ job' = [job EXCEPT ![p] = NoCommand]

\* Slip: the outcome is only logged.
ReportSlip(p, what) == Finish(p) /\ UNCHANGED told

Report(p, what) == Finish(p) /\ told' = [told EXCEPT ![job[p].draft.mail] = what]

\* SaveDraft: the row, and a copy appended to the server's Drafts at best.
UpsertDraft ==
  LET p == "command_worker" IN
  /\ pc[p] = "upsert"
  /\ \/ /\ saved' = saved \cup {job[p].draft.mail}
        /\ Goto(p, "append") /\ UNCHANGED job
     \/ "database" \in Faults /\ Finish(p) /\ UNCHANGED saved
  /\ UNCHANGED <<tokenVars, orig, compose, begun, queue, copies, delivered, filed, asked, told, causes>>

SaveDraftToImap ==
  LET p == "command_worker" IN
  /\ pc[p] = "append"
  /\ \/ Live(secret.access) /\ copies' = copies \cup {job[p].draft.mail}
     \/ ("append" \in Faults \/ ~ Live(secret.access)) /\ UNCHANGED copies
  /\ Finish(p)
  /\ UNCHANGED <<tokenVars, orig, compose, begun, queue, saved, delivered, filed, asked, told, causes>>

-----------------------------------------------------------------------------
(* SyncEngine::send. *)

\* The account's row, the attachments and the message replied to are read.
Prepare(p) ==
  /\ pc[p] = "prepare"
  /\ \/ Goto(p, "smtp") /\ UNCHANGED <<job, told>>
     \/ "database" \in Faults /\ Report(p, "failed")
  /\ UNCHANGED <<tokenVars, orig, compose, begun, queue, saved, copies, delivered, filed, asked, causes>>

Accepted(p) == Deliverable(job[p].draft.rcpts) /\ Live(secret.access)
Refused(p) == "smtp" \in Faults \/ ~ Accepted(p)

SmtpSend(p) ==
  /\ pc[p] = "smtp"
  /\ \/ /\ Refused(p)
        /\ Report(p, "failed") /\ UNCHANGED <<delivered, causes>>
     \/ /\ Accepted(p)
        /\ delivered' = Bump(delivered, job[p].draft.mail)
        /\ \/ Goto(p, "copy") /\ UNCHANGED <<job, told, causes>>
           \/ /\ "smtp answer" \in Faults
              /\ Report(p, "failed")
              /\ causes' = causes \cup {"answer lost"}
  /\ UNCHANGED <<tokenVars, orig, compose, begun, queue, saved, copies, filed, asked>>

\* Slip: a copy that cannot be appended makes the command fail.
FileSentCopySlip(p) ==
  /\ pc[p] = "copy"
  /\ \/ /\ Live(secret.access) /\ filed' = Bump(filed, job[p].draft.mail)
        /\ Goto(p, "delete") /\ UNCHANGED <<job, told>>
     \/ /\ "append" \in Faults \/ ~ Live(secret.access)
        /\ Report(p, "failed") /\ UNCHANGED filed
  /\ UNCHANGED <<tokenVars, orig, compose, begun, queue, saved, copies, delivered, asked, causes>>

\* A failure to append is only logged.
FileSentCopy(p) ==
  /\ pc[p] = "copy"
  /\ \/ Live(secret.access) /\ filed' = Bump(filed, job[p].draft.mail)
     \/ ("append" \in Faults \/ ~ Live(secret.access)) /\ UNCHANGED filed
  /\ Goto(p, "delete")
  /\ UNCHANGED <<tokenVars, orig, compose, begun, queue, job, saved, copies, delivered, asked, told, causes>>

\* The agent's draft was never saved and has no row to delete.
DeleteDraft(p) ==
  /\ pc[p] = "delete"
  /\ \/ /\ saved' = saved \ {job[p].draft.mail}
        /\ Report(p, "sent") /\ UNCHANGED causes
     \/ /\ "database" \in Faults
        /\ Report(p, "failed")
        /\ causes' = causes \cup {"row kept"} /\ UNCHANGED saved
  /\ UNCHANGED <<tokenVars, orig, compose, begun, queue, copies, delivered, filed, asked>>

\* The user quits: once the workers have ended the process exits, whatever is queued.
Exit ==
  LET p == "command_worker" IN
  /\ "exit" \in Faults /\ pc[p] # "exited"
  /\ Goto(p, "exited") /\ job' = [job EXCEPT ![p] = NoCommand]
  /\ queue' = <<>> /\ compose' = NoDraft
  /\ causes' = IF queue # <<>> \/ pc[p] # "ready" THEN causes \cup {"exit"} ELSE causes
  /\ UNCHANGED <<tokenVars, orig, begun, saved, copies, delivered, filed, asked, told>>

-----------------------------------------------------------------------------
SendStep(p) == Prepare(p) \/ SmtpSend(p) \/ FileSentCopy(p) \/ DeleteDraft(p)

CommandWorker == Receive \/ UpsertDraft \/ SaveDraftToImap \/ SendStep("command_worker")

User ==
  \/ \E m \in Written, k \in Kinds, typed \in Typed : StartCompose(m, k, typed)
  \/ SaveComposeDraft \/ SendCompose \/ CancelCompose \/ Exit

Agent == \E m \in Dictated, k \in Kinds, typed \in Typed : AgentCalls(m, k, typed)

MailStep == User \/ Agent \/ CommandWorker \/ SendStep("mcp")

Next == MailStep \/ (TokenNext /\ UNCHANGED mailVars)

Spec == Init /\ [][Next]_vars

\* The two tasks go on; nobody has to write, to answer or to quit.
FairSpec == Spec /\ WF_vars(CommandWorker) /\ WF_vars(SendStep("mcp"))

-----------------------------------------------------------------------------
(* Properties. *)

\* Nobody gets a mail twice, whoever is told that it failed can send it again,
\* and a copy in Sent is of a mail that went out: except where SMTP accepted
\* and its answer was lost, or where deleting the row failed after that.
NeverTwice ==
  causes \cap {"answer lost", "row kept"} = {} =>
    \A m \in Mails :
      /\ filed[m] <= delivered[m] /\ delivered[m] <= 1
      /\ (told[m] = "failed" => delivered[m] = 0)

Pending(m) ==
  \/ \E n \in DOMAIN queue : queue[n].name = "send" /\ queue[n].draft.mail = m
  \/ \E p \in Procs : job[p].name = "send" /\ job[p].draft.mail = m

\* A mail somebody asked to send is sent, or pending, or reported failed, unless
\* the program exited before; and a saved draft is in the table until the mail
\* has gone out.
NothingForgotten ==
  /\ "exit" \notin causes =>
       \A m \in Mails : asked[m] > 0 => Pending(m) \/ told[m] # "nothing"
  /\ \A m \in Mails : m \in copies => m \in saved \/ delivered[m] > 0

Everyone == (orig.to \cup orig.cc) \ {Me, MeOtherwise}

\* A reply to all reaches everyone the message was addressed to, a reply from
\* the TUI goes to the account itself only when it wrote the message, and no
\* address is mangled on its way through the window unless a name has a comma.
RepliesReachAll ==
  \A p \in Procs :
    LET c == job[p].draft IN
    c # NoDraft =>
      /\ c.kind = "reply all" => Everyone \subseteq c.rcpts
      /\ c.kind \in {"reply", "reply all"} =>
           /\ (IF p = "mcp" THEN orig.from ELSE Author(orig)) \subseteq c.rcpts
           /\ p = "command_worker" /\ Me \in c.rcpts => Me \in Author(orig)
      /\ Junk \in c.rcpts => c.rcpts \cap CommaNamed # {}

\* Whoever sends a mail hears of it, unless the program exits.
EveryoneIsTold ==
  \A m \in Mails : asked[m] > 0 ~> told[m] # "nothing" \/ "exit" \in causes

=============================================================================
