--------------------------------- MODULE Tui ---------------------------------
(***************************************************************************)
(* The modes of the terminal interface (App in imt-tui/app.rs, the key maps *)
(* of keymap.rs, menu.rs, settings.rs) and the windows they stand for: a    *)
(* draft being written and its file picker, the AI that writes for it, the  *)
(* menu, the settings, the accounts and the form they are entered with      *)
(* (AccountForm), and the viewers.                                          *)
(*                                                                          *)
(* Every step is one event of the loop in run.rs: a key, a click or a tick. *)
(* The lists under the windows, the focus and all texts are left out: a key *)
(* that needs a message or a focus may simply be pressed.                   *)
(***************************************************************************)
EXTENDS AccountForm

CONSTANTS
  Accounts,    \* the lists of accounts the program may start with
  Files,       \* files that can be attached
  Themes, Panes,  \* colours, and widths of the panes
  Sessions,    \* bound: what a user may do in one session, and how many windows (drafts,
               \* account forms, settings) and drags of a divider there are in it
  NoDraft, NoPicker, NoViewer, NoList, NoMenu, NoSettings,
  MaxCovers    \* bound: windows left by a click on the menu bar

Things == {"draft", "ai", "accounts", "fields", "settings", "views", "menu"}

ASSUME TuiAssumption ==
  /\ Sessions \subseteq [does : SUBSET Things, windows : Nat \ {0}]
  /\ \A accounts \in Accounts :
       /\ accounts \in Seq(Account)
       /\ \A n \in DOMAIN accounts :
            /\ accounts[n].config.client # None => accounts[n].redeemed
            /\ \A k \in DOMAIN accounts : accounts[k].id = accounts[n].id => k = n
  /\ Themes # {} /\ Panes # {} /\ MaxCovers \in Nat

VARIABLES
  mode,
  compose,   \* the draft being written
  picker,    \* file_picker
  ai,        \* ai_generating, ai_rx
  menu,      \* menu_state
  viewer,    \* attachment_viewer
  views,     \* which of move_state, thread_state, html_viewer are there
  list,      \* accounts_state
  settings, disk,  \* the settings, and config.toml
  look,      \* the palette and the panes as drawn
  draft,     \* settings_state.draft
  drag,      \* pane_drag
  quit,      \* should_quit
  session,   \* one of Sessions
  windows, covers,  \* what session.windows and MaxCovers bound
  causes     \* history: why something may not be as the user left it

draftVars == <<compose, picker, ai>>
viewVars == <<viewer, views, list>>
settingVars == <<settings, disk, look, draft, drag>>
vars == <<mode, menu, quit, session, windows, covers, causes, draftVars, viewVars, settingVars, formVars>>

Modes == {"Normal", "Compose", "Help", "Search", "Onboarding", "Settings", "Accounts", "Move",
          "Info", "FilePicker", "AttachmentViewer", "HtmlViewer", "Menu", "Thread"}

Settings == [theme : Themes, panes : Panes]

Draft == [kind : {"new", "reply", "forward"},
          body : SUBSET {"notes", "original", "ai"}, files : SUBSET Files,
          from : Nat, account : Ids, sender : Ids, dialog : BOOLEAN,
          asked : 0..1, answered : Nat]

Ai == [busy : BOOLEAN, ready : BOOLEAN]

Picker == [picked : SUBSET Files, toggled : SUBSET Files]

Viewer == [return : {"Normal", "Thread"}, viewing : BOOLEAN]

List == [selected : Nat, confirm : Ids \cup {None}]

Menu == [col : 1..5, open : BOOLEAN, item : Nat]

ASSUME NothingAssumption ==
  /\ NoDraft \notin Draft /\ NoPicker \notin Picker /\ NoViewer \notin Viewer
  /\ NoList \notin List /\ NoMenu \notin Menu /\ NoSettings \notin Settings

SymDiff(S, T) == (S \ T) \cup (T \ S)

Init ==
  /\ FormInit(Accounts)
  /\ session \in Sessions
  /\ mode = IF known = <<>> THEN "Onboarding" ELSE "Normal"
  /\ menu = NoMenu /\ quit = FALSE /\ windows = (IF known = <<>> THEN 1 ELSE 0) /\ covers = 0 /\ causes = {}
  /\ compose = NoDraft /\ picker = NoPicker /\ ai = [busy |-> FALSE, ready |-> FALSE]
  /\ viewer = NoViewer /\ views = {} /\ list = NoList
  /\ settings = [theme |-> CHOOSE t \in Themes : TRUE, panes |-> CHOOSE p \in Panes : TRUE]
  /\ disk = settings /\ look = settings /\ draft = NoSettings /\ drag = FALSE

Only(from, to) == mode = from /\ mode' = to

Uses(thing) == thing \in session.does

Window(thing) == Uses(thing) /\ windows < session.windows /\ windows' = windows + 1

-----------------------------------------------------------------------------
(* Writing a draft. *)

\* Slip: the first account.
IndexOfSlip(id) == 1

\* ComposeState::from_draft
IndexOf(id) == IF id \in IdsOf(shown) THEN Position(shown, id) ELSE 1

NewDraft(kind, id) ==
  [kind |-> kind, body |-> IF kind = "new" THEN {} ELSE {"original"},
   files |-> {}, from |-> IndexOf(id), account |-> id, sender |-> id, dialog |-> FALSE,
   asked |-> 0, answered |-> 0]

\* A draft that is still there is replaced, and an answer it waits for with it.
Forsaken == IF compose # NoDraft /\ ai.busy THEN {"closed while generating"} ELSE {}

InstallCompose(kind, id) ==
  /\ Window("draft")
  /\ compose' = NewDraft(kind, id)
  /\ mode' = "Compose"
  /\ causes' = causes \cup Forsaken
  /\ UNCHANGED <<picker, ai, menu, quit, viewVars, settingVars, formVars>>

OpenOnboarding ==
  /\ Window("accounts") /\ OpenFresh
  /\ mode' = "Onboarding"
  /\ UNCHANGED <<quit, draftVars, viewVars, settingVars>>

\* c, r, R, f; without an account, the form to add one.
StartCompose ==
  /\ mode = "Normal"
  /\ \/ \E n \in DOMAIN shown, kind \in {"new", "reply", "forward"} : InstallCompose(kind, shown[n].id)
     \/ shown = <<>> /\ OpenOnboarding /\ UNCHANGED <<menu, causes>>

Writing == mode = "Compose" /\ compose # NoDraft /\ ~ compose.dialog

InDraft == UNCHANGED <<menu, quit, windows, picker, viewVars, settingVars, formVars>>

TypeBody ==
  /\ Writing
  /\ compose' = [compose EXCEPT !.body = @ \cup {"notes"}]
  /\ InDraft /\ UNCHANGED <<mode, ai, causes>>

\* Left and right on From.
ChooseSender(n) ==
  /\ Writing
  /\ n \in {compose.from - 1, compose.from + 1} \cap DOMAIN shown
  /\ compose' = [compose EXCEPT !.from = n, !.sender = shown[n].id]
  /\ InDraft /\ UNCHANGED <<mode, ai, causes>>

\* Delete and backspace on the attachments.
DropFile(f) ==
  /\ Writing /\ f \in compose.files
  /\ compose' = [compose EXCEPT !.files = @ \ {f}]
  /\ InDraft /\ UNCHANGED <<mode, ai, causes>>

\* The account a draft is sent from is the one its index points at by then.
SyncToDraft(c) ==
  [c EXCEPT !.account = IF c.from \in DOMAIN shown THEN shown[c.from].id ELSE @]

SaveDraft ==
  /\ Writing
  /\ compose' = SyncToDraft(compose)
  /\ InDraft /\ UNCHANGED <<mode, ai, causes>>

CloseDraft ==
  /\ compose' = NoDraft
  /\ mode' = "Normal"
  /\ causes' = causes \cup Forsaken
  /\ InDraft /\ UNCHANGED ai

\* The outbox takes every draft.
Send == Writing /\ CloseDraft

CancelCompose == Writing /\ CloseDraft

-----------------------------------------------------------------------------
(* Attaching files. *)

AddAttachment ==
  /\ Writing
  /\ picker' = [picked |-> compose.files, toggled |-> {}]
  /\ mode' = "FilePicker"
  /\ UNCHANGED <<menu, quit, windows, causes, compose, ai, viewVars, settingVars, formVars>>

FilePickerToggle(f) ==
  /\ mode = "FilePicker" /\ picker # NoPicker
  /\ picker' = [picked |-> SymDiff(picker.picked, {f}), toggled |-> SymDiff(picker.toggled, {f})]
  /\ UNCHANGED <<mode, menu, quit, windows, causes, compose, ai, viewVars, settingVars, formVars>>

\* Slip: what was attached before stays.
FilePickerConfirmSlip ==
  /\ Only("FilePicker", "Compose") /\ picker # NoPicker
  /\ compose' = IF compose = NoDraft THEN compose
                ELSE [compose EXCEPT !.files = @ \cup picker.picked]
  /\ picker' = NoPicker
  /\ UNCHANGED <<menu, quit, windows, causes, ai, viewVars, settingVars, formVars>>

FilePickerConfirm ==
  /\ Only("FilePicker", "Compose") /\ picker # NoPicker
  /\ compose' = IF compose = NoDraft THEN compose ELSE [compose EXCEPT !.files = picker.picked]
  /\ picker' = NoPicker
  /\ UNCHANGED <<menu, quit, windows, causes, ai, viewVars, settingVars, formVars>>

\* Slip: back to the mail list.
FilePickerCancelSlip ==
  /\ Only("FilePicker", "Normal")
  /\ picker' = NoPicker
  /\ UNCHANGED <<menu, quit, windows, causes, compose, ai, viewVars, settingVars, formVars>>

FilePickerCancel ==
  /\ Only("FilePicker", "Compose")
  /\ picker' = NoPicker
  /\ UNCHANGED <<menu, quit, windows, causes, compose, ai, viewVars, settingVars, formVars>>

-----------------------------------------------------------------------------
(* The AI: one request at a time, answered by a thread of its own. *)

\* Enough to work from, and a request for each draft (bound).
CanAsk(instructed) ==
  /\ Uses("ai") /\ ~ ai.busy /\ compose.asked = 0
  /\ instructed \/ compose.body # {}

AskAi(instructed) ==
  /\ CanAsk(instructed)
  /\ ai' = [busy |-> TRUE, ready |-> FALSE]
  /\ compose' = [compose EXCEPT !.asked = @ + 1, !.dialog = FALSE]

\* Ctrl-G; refused, it changes nothing.
AiGenerateReply ==
  /\ Writing /\ AskAi(FALSE)
  /\ InDraft /\ UNCHANGED <<mode, causes>>

InstructionDialog == mode = "Compose" /\ compose # NoDraft /\ compose.dialog

\* Ctrl-T, and the dialog it opens: Esc, and Enter with a text or none.
AiReplyWithInstructions ==
  /\ \/ Writing /\ Uses("ai") /\ compose' = [compose EXCEPT !.dialog = TRUE] /\ UNCHANGED ai
     \/ InstructionDialog /\ compose' = [compose EXCEPT !.dialog = FALSE] /\ UNCHANGED ai
     \/ InstructionDialog /\ \E instructed \in BOOLEAN : AskAi(instructed)
  /\ InDraft /\ UNCHANGED <<mode, causes>>

\* run_cli always ends: with an answer, an error or a timeout.
CliEnds ==
  /\ ai.busy /\ ~ ai.ready
  /\ ai' = [ai EXCEPT !.ready = TRUE]
  /\ InDraft /\ UNCHANGED <<mode, causes, compose>>

\* split_notes_and_quote finds the quote of a reply, not the mail a forward encloses.
Quote(c) == IF c.kind = "reply" THEN c.body \cap {"original"} ELSE {}

\* Slip: what stands below the notes is not kept.
InsertSlip(c, files) ==
  [c EXCEPT !.body = {"ai"}, !.files = @ \cup files, !.answered = @ + 1]

Insert(c, files) ==
  [c EXCEPT !.body = {"ai"} \cup Quote(c), !.files = @ \cup files, !.answered = @ + 1]

\* Slip: the request stays pending.
PollAiSlip(files, failed) ==
  /\ UNCHANGED ai
  /\ compose' = IF failed \/ compose = NoDraft THEN compose ELSE Insert(compose, files)

\* The answer goes into the draft that is open by now.
PollAi(files, failed) ==
  /\ ai' = [busy |-> FALSE, ready |-> FALSE]
  /\ compose' = IF failed \/ compose = NoDraft THEN compose ELSE Insert(compose, files)

\* The mail a forward encloses is taken for the user's notes, the picker does not
\* know of files added behind it, and an account list that changes moves indices.
Mishaps ==
  (IF compose' # compose /\ compose.kind = "forward" THEN {"forward answered"} ELSE {}) \cup
  (IF compose' # compose /\ mode = "FilePicker" THEN {"attached under picker"} ELSE {}) \cup
  (IF shown' # shown /\ compose # NoDraft THEN {"list changed"} ELSE {})

Tick ==
  /\ \/ ai.ready /\ \E failed \in BOOLEAN, files \in SUBSET Files : PollAi(files, failed)
     \/ ~ ai.ready /\ UNCHANGED <<ai, compose>>
  /\ TakeOver
  /\ causes' = causes \cup Mishaps
  /\ UNCHANGED <<mode, menu, quit, windows, picker, viewVars, settingVars>>

-----------------------------------------------------------------------------
(* The settings, and the panes. *)

InSettings == UNCHANGED <<menu, quit, windows, draftVars, viewVars, formVars>>

OpenSettings ==
  /\ Window("settings")
  /\ draft' = settings
  /\ mode' = "Settings"
  /\ UNCHANGED <<quit, draftVars, viewVars, formVars, settings, disk, look, drag>>

\* A theme is shown as soon as it is chosen.
CycleTheme(theme) ==
  /\ mode = "Settings" /\ draft # NoSettings
  /\ draft' = [draft EXCEPT !.theme = theme]
  /\ look' = [look EXCEPT !.theme = theme]
  /\ InSettings /\ UNCHANGED <<mode, causes, settings, disk, drag>>

\* Slip: the settings are not written.
SaveSettingsSlip ==
  /\ Only("Settings", "Normal") /\ draft # NoSettings
  /\ settings' = draft /\ look' = draft /\ draft' = NoSettings
  /\ InSettings /\ UNCHANGED <<causes, drag, disk>>

\* With the panes as they were when the dialog was opened.
SaveSettings ==
  /\ Only("Settings", "Normal") /\ draft # NoSettings
  /\ settings' = draft /\ disk' = draft /\ look' = draft /\ draft' = NoSettings
  /\ InSettings /\ UNCHANGED <<causes, drag>>

\* Nothing takes the theme back that a dialog left without saving has shown.
Previewed == IF mode = "Settings" /\ look.theme # settings.theme THEN {"preview kept"} ELSE {}

CancelSettings ==
  /\ Only("Settings", "Normal")
  /\ draft' = NoSettings
  /\ causes' = causes \cup Previewed
  /\ InSettings /\ UNCHANGED <<settings, disk, look, drag>>

\* A press on a divider, in the modes whose clicks get that far.
DividerHit ==
  /\ mode \notin {"Compose", "Onboarding", "Menu"}
  /\ drag' = TRUE
  /\ Window("settings")
  /\ UNCHANGED <<mode, menu, quit, causes, draftVars, viewVars, formVars, settings, disk, look, draft>>

DragDivider(panes) ==
  /\ mode # "Compose" /\ drag
  /\ look' = [look EXCEPT !.panes = panes]
  /\ InSettings /\ UNCHANGED <<mode, causes, settings, disk, draft, drag>>

SaveLayoutPrefs ==
  /\ mode # "Compose" /\ drag
  /\ drag' = FALSE
  /\ settings' = [settings EXCEPT !.panes = look.panes]
  /\ disk' = settings'
  /\ InSettings /\ UNCHANGED <<mode, causes, look, draft>>

-----------------------------------------------------------------------------
(* The viewers and dialogs opened from the mail list. *)

InViews == UNCHANGED <<menu, quit, windows, causes, draftVars, settingVars, formVars>>

\* v, t, o: a view that is there only while it is shown.
OpenView(view, m) ==
  /\ Uses("views") /\ Only("Normal", m)
  /\ views' = views \cup {view}
  /\ InViews /\ UNCHANGED <<viewer, list>>

CloseView(view, m) ==
  /\ Only(m, "Normal")
  /\ views' = views \ {view}
  /\ InViews /\ UNCHANGED <<viewer, list>>

ViewMode == [move |-> "Move", thread |-> "Thread", html |-> "HtmlViewer"]

\* Slip: back to the thread, wherever the viewer was opened.
OpenAttachmentsSlip ==
  /\ Uses("views") /\ mode \in {"Normal", "Thread"}
  /\ viewer' = [return |-> "Thread", viewing |-> FALSE]
  /\ mode' = "AttachmentViewer"
  /\ InViews /\ UNCHANGED <<views, list>>

OpenAttachments ==
  /\ Uses("views") /\ mode \in {"Normal", "Thread"}
  /\ viewer' = [return |-> mode, viewing |-> FALSE]
  /\ mode' = "AttachmentViewer"
  /\ InViews /\ UNCHANGED <<views, list>>

\* Enter: into an attachment that is downloaded, and back to the list.
AttachmentView ==
  /\ mode = "AttachmentViewer" /\ viewer # NoViewer
  /\ viewer' = [viewer EXCEPT !.viewing = ~ @]
  /\ InViews /\ UNCHANGED <<mode, views, list>>

AttachmentClose ==
  /\ mode = "AttachmentViewer"
  /\ IF viewer # NoViewer /\ viewer.viewing
     THEN viewer' = [viewer EXCEPT !.viewing = FALSE] /\ UNCHANGED mode
     ELSE viewer' = NoViewer /\ mode' = IF viewer = NoViewer THEN "Normal" ELSE viewer.return
  /\ InViews /\ UNCHANGED <<views, list>>

\* Enter leaves the search; Esc does not.
Search ==
  /\ Uses("views")
  /\ Only("Normal", "Search") \/ Only("Search", "Normal")
  /\ InViews /\ UNCHANGED viewVars

CloseInfo == Only("Info", "Normal") /\ InViews /\ UNCHANGED viewVars

-----------------------------------------------------------------------------
(* The account manager and the form. *)

OpenAccounts ==
  /\ Uses("accounts")
  /\ list' = [selected |-> 1, confirm |-> None]
  /\ mode' = "Accounts"
  /\ UNCHANGED <<quit, windows, draftVars, viewer, views, settingVars, formVars>>

Managing == mode = "Accounts" /\ list # NoList

InAccounts == UNCHANGED <<menu, quit, causes, draftVars, viewer, views, settingVars>>

\* Up, and Down where there is a next one.
Select ==
  /\ Managing
  /\ \E n \in {list.selected - 1, list.selected, list.selected + 1} :
       /\ n >= 1 /\ (n > list.selected => n <= Len(shown))
       /\ list' = [selected |-> n, confirm |-> None]
  /\ InAccounts /\ UNCHANGED <<mode, windows, formVars>>

EditSelected ==
  /\ Managing /\ Window("accounts")
  /\ list.selected \in DOMAIN shown
  /\ OpenEdit(shown[list.selected])
  /\ list' = NoList /\ mode' = "Onboarding"
  /\ InAccounts

\* The second press deletes the account the first was about.
DeleteSelected ==
  /\ Managing
  /\ \/ /\ list.confirm # None
        /\ DeleteAccount(list.confirm)
        /\ list' = [list EXCEPT !.confirm = None]
     \/ /\ list.confirm = None /\ list.selected \in DOMAIN shown
        /\ list' = [list EXCEPT !.confirm = shown[list.selected].id]
        /\ UNCHANGED formVars
  /\ InAccounts /\ UNCHANGED <<mode, windows>>

AddFromList ==
  /\ mode = "Accounts"
  /\ list' = NoList
  /\ OpenFresh /\ Window("accounts")
  /\ mode' = "Onboarding"
  /\ InAccounts

CloseAccounts ==
  /\ Only("Accounts", "Normal")
  /\ list' = NoList
  /\ InAccounts /\ UNCHANGED <<windows, formVars>>

InForm == InAccounts /\ UNCHANGED <<windows, list>>

Fill ==
  /\ Uses("accounts") /\ mode = "Onboarding" /\ form # NoForm
  /\ FillIn
  /\ ~ Uses("fields") => Cardinality(form'.touched) <= 1
  /\ InForm /\ UNCHANGED mode

SaveOnboarding == Only("Onboarding", "Normal") /\ SaveForm /\ InForm

CancelOnboarding == Only("Onboarding", "Normal") /\ CancelForm /\ InForm

\* The worker carries out an AddAccount, or fails to.
Worker == (\E id \in adding : AddAnswered(id)) /\ InForm /\ UNCHANGED mode

-----------------------------------------------------------------------------
(* The menu bar, by keys and by mouse. *)

MENUS == << <<"OpenOnboarding", "OpenAccounts", "Refresh">>, <<>>, <<>>, <<>>, <<>> >>

Direct == <<"", "OpenSettings", "OpenInfo", "Help", "Quit">>

\* What a menu runs, in normal mode.
Command(name) ==
  \/ name = "OpenOnboarding" /\ OpenOnboarding
  \/ name = "OpenAccounts" /\ OpenAccounts
  \/ name = "OpenSettings" /\ OpenSettings
  \/ /\ name \in {"Refresh", "OpenInfo", "Help", "Quit"}
     /\ Uses("views")
     /\ mode' = CASE name = "OpenInfo" -> "Info" [] name = "Help" -> "Help" [] OTHER -> "Normal"
     /\ quit' = (name = "Quit")
     /\ UNCHANGED <<windows, draftVars, viewVars, settingVars, formVars>>

\* Keys of the normal mode for the same commands, and F10.
CommandKey ==
  /\ mode = "Normal"
  /\ \E name \in {"OpenOnboarding", "OpenAccounts", "OpenSettings", "Refresh", "OpenInfo", "Help",
                  "Quit"} : Command(name)
  /\ UNCHANGED <<menu, causes>>

InMenu == UNCHANGED <<quit, windows, draftVars, viewVars, settingVars, formVars>>

OpenMenu ==
  /\ Uses("menu") /\ Only("Normal", "Menu")
  /\ menu' = [col |-> 1, open |-> FALSE, item |-> 1]
  /\ InMenu /\ UNCHANGED causes

CloseHelp == Only("Help", "Normal") /\ InMenu /\ UNCHANGED <<menu, causes>>

CloseMenu ==
  /\ Only("Menu", "Normal")
  /\ menu' = NoMenu
  /\ InMenu /\ UNCHANGED causes

Browsing == mode = "Menu" /\ menu # NoMenu

\* Slip: the dropdown stays open.
MenuTurnSlip(col) == menu' = [menu EXCEPT !.col = col, !.item = 1]

MenuTurn(col) ==
  menu' = [col |-> col, open |-> menu.open /\ MENUS[col] # <<>>, item |-> 1]

\* Left and right; Down opens the menu or moves on; Up moves back or closes it;
\* Enter opens it.
HandleMenuKey ==
  /\ Browsing
  /\ LET items == Len(MENUS[menu.col]) IN
     \/ MenuTurn((menu.col % Len(MENUS)) + 1)
     \/ MenuTurn(((menu.col + Len(MENUS) - 2) % Len(MENUS)) + 1)
     \/ menu.open /\ menu' = [menu EXCEPT !.item = (@ % items) + 1]
     \/ menu.open /\ menu' = IF menu.item = 1 THEN [menu EXCEPT !.open = FALSE]
                                              ELSE [menu EXCEPT !.item = @ - 1]
     \/ ~ menu.open /\ items > 0 /\ menu' = [menu EXCEPT !.open = TRUE, !.item = 1]
  /\ InMenu /\ UNCHANGED <<mode, causes>>

\* Enter on an open item, or on a menu without items.
RunMenu ==
  /\ Browsing
  /\ \/ menu.open /\ Command(MENUS[menu.col][menu.item])
     \/ MENUS[menu.col] = <<>> /\ Command(Direct[menu.col])
  /\ menu' = NoMenu
  /\ UNCHANGED causes

\* The bar takes clicks whatever lies over the mail list, but a draft or the form.
Clickable == mode \notin {"Compose", "Onboarding"}

\* A dialog that is clicked away stays where it is, out of reach.
Covered == Previewed \cup (IF mode = "FilePicker" THEN {"menu over picker"} ELSE {})

MouseMenuDown ==
  /\ Uses("menu") /\ Clickable
  /\ \/ Browsing /\ menu.open /\ (\E i \in DOMAIN MENUS[menu.col] : Command(MENUS[menu.col][i]))
        /\ menu' = NoMenu
     \/ (\E i \in DOMAIN MENUS : MENUS[i] = <<>> /\ Command(Direct[i])) /\ menu' = NoMenu
     \/ \E i \in DOMAIN MENUS :
          /\ MENUS[i] # <<>>
          /\ IF Browsing /\ menu.open /\ menu.col = i
             THEN mode' = "Normal" /\ menu' = NoMenu
             ELSE mode' = "Menu" /\ menu' = [col |-> i, open |-> TRUE, item |-> 1]
          /\ InMenu
  /\ causes' = causes \cup Covered
  /\ covers' = covers + (IF mode \in {"Normal", "Menu"} THEN 0 ELSE 1) /\ covers' <= MaxCovers

-----------------------------------------------------------------------------
Key ==
  \/ StartCompose \/ TypeBody \/ SaveDraft \/ Send \/ CancelCompose
  \/ \E n \in DOMAIN shown : ChooseSender(n)
  \/ AddAttachment \/ FilePickerConfirm \/ FilePickerCancel
  \/ \E f \in Files : DropFile(f) \/ FilePickerToggle(f)
  \/ AiGenerateReply \/ AiReplyWithInstructions
  \/ \E theme \in Themes : CycleTheme(theme)
  \/ SaveSettings \/ CancelSettings
  \/ \E view \in DOMAIN ViewMode : OpenView(view, ViewMode[view]) \/ CloseView(view, ViewMode[view])
  \/ OpenAttachments \/ AttachmentView \/ AttachmentClose \/ Search \/ CloseInfo \/ CloseHelp
  \/ Select \/ EditSelected \/ DeleteSelected \/ AddFromList \/ CloseAccounts
  \/ Fill \/ SaveOnboarding \/ CancelOnboarding
  \/ CommandKey \/ OpenMenu \/ CloseMenu \/ HandleMenuKey \/ RunMenu

Drag == DividerHit \/ SaveLayoutPrefs \/ \E panes \in Panes : DragDivider(panes)

Next ==
  /\ ~ quit
  /\ \/ MouseMenuDown
     \/ (Key \/ Drag \/ Tick \/ CliEnds \/ Worker) /\ UNCHANGED covers
  /\ UNCHANGED session

Spec == Init /\ [][Next]_vars

-----------------------------------------------------------------------------
Causes == {"menu over picker", "closed while generating", "forward answered",
           "attached under picker", "list changed", "preview kept"}

TypeOK ==
  /\ FormTypeOK
  /\ mode \in Modes /\ quit \in BOOLEAN /\ session \in Sessions /\ causes \subseteq Causes
  /\ windows \in 0..session.windows /\ covers \in 0..MaxCovers
  /\ compose \in Draft \cup {NoDraft} /\ ai \in Ai
  /\ picker \in Picker \cup {NoPicker} /\ viewer \in Viewer \cup {NoViewer}
  /\ views \subseteq DOMAIN ViewMode /\ list \in List \cup {NoList}
  /\ settings \in Settings /\ disk \in Settings /\ look \in Settings
  /\ draft \in Settings \cup {NoSettings} /\ drag \in BOOLEAN
  /\ menu \in Menu \cup {NoMenu}
  /\ menu # NoMenu /\ menu.open => menu.item \in DOMAIN MENUS[menu.col]

-----------------------------------------------------------------------------
(* Properties. *)

\* A mode has the window it stands for: no order of keys, clicks and ticks leads
\* into one that is not there, and would take keys for nothing to answer.
ModeHasState ==
  /\ mode \in {"Compose", "FilePicker"} => compose # NoDraft
  /\ mode = "FilePicker" => picker # NoPicker
  /\ (mode = "Menu") = (menu # NoMenu)
  /\ mode = "Settings" => draft # NoSettings
  /\ mode = "Accounts" => list # NoList
  /\ mode = "Onboarding" => form # NoForm
  /\ mode = "AttachmentViewer" => viewer # NoViewer /\ (viewer.return = "Thread" => "thread" \in views)
  /\ \A view \in DOMAIN ViewMode : mode = ViewMode[view] => view \in views

\* A draft is never out of its writer's reach, unless a menu was clicked over the
\* file picker: then the next draft replaces it.
DraftsInReach ==
  compose # NoDraft => mode \in {"Compose", "FilePicker"} \/ "menu over picker" \in causes

\* A request of the AI is answered once, and in the draft it was made for, unless
\* that was closed meanwhile: then the next draft gets its text.
AnsweredWhereAsked ==
  compose # NoDraft => compose.answered <= compose.asked \/ "closed while generating" \in causes

\* A reply quotes its mail and a forward encloses it, whatever the AI writes above:
\* but for a forward the AI has answered.
MailKept ==
  compose # NoDraft /\ compose.kind # "new" =>
    "original" \in compose.body \/ (compose.kind = "forward" /\ "forward answered" \in causes)

\* A confirmed picker leaves the draft with what it had, but for the files that were
\* toggled: unless the AI attached one behind the picker.
FilesAsChosen ==
  [][FilePickerConfirm /\ "attached under picker" \notin causes =>
       compose'.files = SymDiff(compose.files, picker.toggled)]_vars

\* A draft is sent from the account its window shows, unless the accounts changed
\* while it was open: the window keeps an index.
SentAsSeen ==
  compose # NoDraft /\ causes \cap {"list changed", "menu over picker"} = {} =>
    SyncToDraft(compose).account = compose.sender

\* The settings in force are the ones on disk, and the screen is drawn by them when
\* no dialog is open and no divider dragged: but for a preview left without saving.
SettingsAgree ==
  /\ disk = settings
  /\ mode # "Settings" /\ ~ drag => look = settings \/ "preview kept" \in causes
=============================================================================
