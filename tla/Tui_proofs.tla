------------------------------ MODULE Tui_proofs ------------------------------
(***************************************************************************)
(* Proofs about the terminal interface: every mode has its window, drafts   *)
(* and AI answers are where their user expects them, the settings shown are *)
(* those in force, and a form saves what it was opened for.                 *)
(***************************************************************************)
EXTENDS Tui, SequenceTheorems, TLAPS

-----------------------------------------------------------------------------
(* The inductive invariant. *)

\* A field the user has touched is one no preset and no protocol overwrites; and
\* where the user has not touched them, the sign-in and, on an edit, every setting
\* are those of the account the form was opened for.
TouchedIsKept ==
  form # NoForm => \A f \in form.touched \cap DOMAIN Server : Server[f] \in form.edited

SignInAsOpened == form # NoForm /\ "client" \notin form.touched => ~ form.oauth

FormFits ==
  form # NoForm /\ form.for # None =>
    /\ form.edited = {"imap", "smtp"}
    /\ ~ form.stale =>
         \A n \in DOMAIN known :
           known[n].id = form.for /\ known[n].config.client = None =>
             \A f \in Untouched(n) : form.config[f] = known[n].config[f]

FormInv == FormTypeOK /\ TypedStays /\ TouchedIsKept /\ CodeIsExchanged /\ SignInAsOpened /\ FormFits

\* What the AI owes: an answer at most for each request.
Owed == IF ai.busy THEN 1 ELSE 0

AnswersDue ==
  /\ ai.ready => ai.busy
  /\ "closed while generating" \notin causes =>
       /\ compose = NoDraft => ~ ai.busy
       /\ compose # NoDraft => compose.answered + Owed <= compose.asked

PickerFits ==
  mode = "FilePicker" /\ "attached under picker" \notin causes =>
    picker.picked = SymDiff(compose.files, picker.toggled)

SenderShown ==
  compose # NoDraft /\ causes \cap {"list changed", "menu over picker"} = {} =>
    /\ compose.from \in DOMAIN shown
    /\ shown[compose.from].id = compose.sender

DraftInv == DraftsInReach /\ AnswersDue /\ MailKept /\ PickerFits /\ SenderShown

LookInv ==
  /\ disk = settings
  /\ ~ drag => look.panes = settings.panes
  /\ mode # "Settings" => look.theme = settings.theme \/ "preview kept" \in causes

IInv == TypeOK /\ FormInv /\ ModeHasState /\ DraftInv /\ LookInv

-----------------------------------------------------------------------------
(* The account form. *)

\* What a step may do to the form and to the accounts.
FormNext ==
  \/ (form # NoForm /\ FillIn) \/ SaveForm \/ OpenFresh \/ CancelForm \/ TakeOver
  \/ \E n \in DOMAIN shown : OpenEdit(shown[n])
  \/ \E id \in Ids : DeleteAccount(id) \/ AddAnswered(id)

LEMMA FormSteps == TypeOK /\ [Next]_vars => [FormNext]_formVars
<1> SUFFICES ASSUME TypeOK, [Next]_vars PROVE [FormNext]_formVars
  OBVIOUS
<1>1. ASSUME NEW name, Command(name) PROVE FormNext \/ UNCHANGED formVars
  BY <1>1 DEF Command, OpenOnboarding, OpenAccounts, OpenSettings, FormNext
<1>2. CASE MouseMenuDown
  BY <1>2, <1>1 DEF MouseMenuDown, InMenu
<1>3. CASE Drag
  BY <1>3 DEF Drag, DividerHit, SaveLayoutPrefs, DragDivider, InSettings
<1>4. CASE Tick
  BY <1>4 DEF Tick, FormNext
<1>5. CASE CliEnds
  BY <1>5 DEF CliEnds, InDraft
<1>6. CASE Worker
  BY <1>6 DEF Worker, FormNext, TypeOK, FormTypeOK
<1>7. CASE Key
  <2>1. CASE StartCompose
    BY <2>1 DEF StartCompose, InstallCompose, OpenOnboarding, FormNext
  <2>2. CASE TypeBody \/ SaveDraft \/ Send \/ CancelCompose \/ AddAttachment
             \/ FilePickerConfirm \/ FilePickerCancel \/ AiGenerateReply \/ AiReplyWithInstructions
    BY <2>2 DEF TypeBody, SaveDraft, Send, CancelCompose, CloseDraft, AddAttachment, FilePickerConfirm,
       FilePickerCancel, AiGenerateReply, AiReplyWithInstructions, InDraft
  <2>3. ASSUME NEW n, ChooseSender(n) PROVE UNCHANGED formVars
    BY <2>3 DEF ChooseSender, InDraft
  <2>4. ASSUME NEW f, DropFile(f) \/ FilePickerToggle(f) PROVE UNCHANGED formVars
    BY <2>4 DEF DropFile, FilePickerToggle, InDraft
  <2>5. ASSUME NEW theme, CycleTheme(theme) PROVE UNCHANGED formVars
    BY <2>5 DEF CycleTheme, InSettings
  <2>6. CASE SaveSettings \/ CancelSettings
    BY <2>6 DEF SaveSettings, CancelSettings, InSettings
  <2>7. ASSUME NEW view, OpenView(view, ViewMode[view]) \/ CloseView(view, ViewMode[view])
        PROVE UNCHANGED formVars
    BY <2>7 DEF OpenView, CloseView, InViews
  <2>8. CASE OpenAttachments \/ AttachmentView \/ AttachmentClose \/ Search \/ CloseInfo \/ CloseHelp
    BY <2>8 DEF OpenAttachments, AttachmentView, AttachmentClose, Search, CloseInfo, CloseHelp,
       InViews, InMenu
  <2>9. CASE Select
    BY <2>9 DEF Select
  <2>10. CASE EditSelected \/ AddFromList \/ CloseAccounts
    BY <2>10 DEF EditSelected, AddFromList, CloseAccounts, FormNext
  <2>11. CASE DeleteSelected
    <3>1. list.confirm # None => list.confirm \in Ids
      BY <2>11 DEF DeleteSelected, Managing, TypeOK, List
    <3>2. QED
      BY <2>11, <3>1 DEF DeleteSelected, FormNext
  <2>12. CASE Fill \/ SaveOnboarding \/ CancelOnboarding
    BY <2>12 DEF Fill, SaveOnboarding, CancelOnboarding, FormNext
  <2>13. CASE CommandKey
    BY <2>13, <1>1 DEF CommandKey
  <2>14. CASE OpenMenu \/ CloseMenu \/ HandleMenuKey
    BY <2>14 DEF OpenMenu, CloseMenu, HandleMenuKey, InMenu
  <2>15. CASE RunMenu
    BY <2>15, <1>1 DEF RunMenu
  <2>16. QED
    BY <1>7, <2>1, <2>2, <2>3, <2>4, <2>5, <2>6, <2>7, <2>8, <2>9, <2>10, <2>11, <2>12, <2>13, <2>14,
       <2>15 DEF Key
<1>8. CASE UNCHANGED vars
  BY <1>8 DEF vars
<1>9. QED
  BY <1>2, <1>3, <1>4, <1>5, <1>6, <1>7, <1>8 DEF Next

LEMMA NoFormIsNone == NoForm \notin Form
<1>1. "config" \notin DOMAIN NoForm
  BY DEF NoForm
<1>2. \A x \in Form : "config" \in DOMAIN x
  BY DEF Form
<1>3. QED
  BY <1>1, <1>2

Fields == {"email", "proto", "host", "port", "tls", "smtpHost", "smtpPort", "smtpTls", "client", "keep"}

LEMMA ConfigFields == \A c \in Config : DOMAIN c = Fields
BY DEF Config, Fields

LEMMA FreshIs ==
  FreshForm \in Form /\ FreshForm.touched = {} /\ ~ FreshForm.oauth /\ FreshForm.for = None
<1>1. Defaults \in Config
  BY DEF Defaults, Config
<1>2. QED
  BY <1>1 DEF FreshForm, Form

LEMMA EditIs ==
  ASSUME NEW a \in Account
  PROVE  /\ EditForm(a) \in Form /\ EditForm(a).touched = {} /\ ~ EditForm(a).oauth
         /\ EditForm(a).for = a.id /\ EditForm(a).stale = Stale(a)
         /\ EditForm(a).edited = {"imap", "smtp"}
         /\ EditForm(a).config = [a.config EXCEPT !.client = None]
<1>1. [a.config EXCEPT !.client = None] \in Config /\ a.id \in Ids /\ Stale(a) \in BOOLEAN
  BY DEF Account, Config, Stale
<1>2. QED
  BY <1>1, FreshIs DEF FreshForm, EditForm, Form

\* Without only leaves accounts out.
LEMMA WithoutIs ==
  ASSUME NEW accounts \in Seq(Account), NEW id
  PROVE  /\ Without(accounts, id) \in Seq(Account)
         /\ \A n \in DOMAIN Without(accounts, id) : \E k \in DOMAIN accounts : Without(accounts, id)[n] = accounts[k]
<1>1. CASE id \notin IdsOf(accounts)
  BY <1>1 DEF Without
<1>2. CASE id \in IdsOf(accounts)
  <2>1. PICK p \in DOMAIN accounts : p = Position(accounts, id)
    BY <1>2 DEF IdsOf, Position
  <2> DEFINE before == SubSeq(accounts, 1, p - 1)
             after == SubSeq(accounts, p + 1, Len(accounts))
  <2>2. p \in 1..Len(accounts) /\ Len(accounts) \in Nat /\ DOMAIN accounts = 1..Len(accounts)
    BY <2>1, LenProperties
  <2>3. \A k \in 1..Len(accounts) : accounts[k] \in Account
    BY ElementOfSeq
  <2>4. /\ before \in Seq(Account) /\ Len(before) = p - 1
        /\ \A i \in 1..(p - 1) : before[i] = accounts[i]
    <3>1. /\ before \in Seq(Account)
          /\ Len(before) = IF 1 <= p - 1 THEN (p - 1) - 1 + 1 ELSE 0
          /\ \A i \in 1..((p - 1) - 1 + 1) : before[i] = accounts[1 + i - 1]
      <4>1. \A k \in 1..(p - 1) : accounts[k] \in Account
        BY <2>2, <2>3
      <4>2. QED
        BY <2>2, <4>1, SubSeqProperties
    <3>2. QED
      BY <2>2, <3>1
  <2>5. /\ after \in Seq(Account) /\ Len(after) = Len(accounts) - p
        /\ \A i \in 1..(Len(accounts) - p) : after[i] = accounts[p + i]
    <3>1. /\ after \in Seq(Account)
          /\ Len(after) = IF p + 1 <= Len(accounts) THEN Len(accounts) - (p + 1) + 1 ELSE 0
          /\ \A i \in 1..(Len(accounts) - (p + 1) + 1) : after[i] = accounts[(p + 1) + i - 1]
      <4>1. \A k \in (p + 1)..Len(accounts) : accounts[k] \in Account
        BY <2>2, <2>3
      <4>2. QED
        BY <2>2, <4>1, SubSeqProperties
    <3>2. QED
      BY <2>2, <3>1
  <2>6. Without(accounts, id) = before \o after
    BY <1>2, <2>1 DEF Without
  <2> HIDE DEF before, after
  <2>7. before \o after \in Seq(Account)
    BY <2>4, <2>5, ConcatProperties
  <2>8. ASSUME NEW n \in DOMAIN (before \o after)
        PROVE  \E k \in DOMAIN accounts : (before \o after)[n] = accounts[k]
    <3>1. n \in 1..(Len(before) + Len(after))
      BY <2>4, <2>5, <2>8, ConcatProperties, LenProperties
    <3>2. (before \o after)[n] = IF n <= Len(before) THEN before[n] ELSE after[n - Len(before)]
      BY <2>4, <2>5, <3>1, ConcatProperties
    <3>3. CASE n <= Len(before)
      BY <2>2, <2>4, <3>1, <3>2, <3>3
    <3>4. CASE ~ n <= Len(before)
      <4>1. n - (p - 1) \in 1..(Len(accounts) - p) /\ p + (n - (p - 1)) \in 1..Len(accounts)
        BY <2>2, <2>4, <2>5, <3>1, <3>4
      <4>2. after[n - (p - 1)] = accounts[p + (n - (p - 1))]
        BY <2>5, <4>1
      <4>3. (before \o after)[n] = accounts[p + (n - (p - 1))]
        BY <2>4, <3>2, <3>4, <4>2
      <4>4. QED
        BY <2>2, <4>1, <4>3
    <3>5. QED
      BY <3>3, <3>4
  <2>9. QED
    BY <2>6, <2>7, <2>8
<1>3. QED
  BY <1>1, <1>2

LEMMA IntoAccountIs ==
  ASSUME form \in Form, NEW id \in Ids, NEW redeemed \in BOOLEAN
  PROVE  LET a == IntoAccount(id, redeemed) IN
         /\ a \in Account /\ a.id = id /\ a.redeemed = redeemed
         /\ a.config.client = IF form.oauth THEN form.config.client ELSE None
         /\ \A f \in Fields \ {"client"} : a.config[f] = form.config[f]
<1>1. form.config \in Config /\ form.oauth \in BOOLEAN
  BY DEF Form
<1>2. [form.config EXCEPT !.client = IF form.oauth THEN @ ELSE None] \in Config
  BY <1>1 DEF Config
<1>3. DOMAIN form.config = Fields
  BY <1>1 DEF Config, Fields
<1>4. QED
  BY <1>1, <1>2, <1>3 DEF IntoAccount, Account, Fields

\* A field filled in becomes the user's own, and shields its server's fields.
Owned(f) ==
  /\ form \in Form /\ form' \in Form
  /\ \A g \in Fields \ {f} : form'.config[g] = form.config[g]
  /\ form'.config[f] = "own"
  /\ form'.touched = form.touched \cup {f} /\ form'.edited = form.edited \cup {Server[f]}
  /\ form'.oauth = form.oauth /\ form'.for = form.for /\ form'.stale = form.stale

LEMMA TypedIs ==
  ASSUME form \in Form, NEW f \in DOMAIN Server, Type(f) \/ CycleTls(f)
  PROVE  Owned(f)
<1>1. f \in Fields /\ Server[f] \in {"imap", "smtp"} /\ f \in {"host", "port", "tls", "smtpHost", "smtpPort", "smtpTls"}
  BY DEF Server, Fields
<1>2. form.config \in Config /\ DOMAIN form.config = Fields
  BY ConfigFields DEF Form
<1>3. [form.config EXCEPT ![f] = "own"] \in Config
  BY <1>1, <1>2 DEF Config
<1>4. form' = [form EXCEPT !.config = [form.config EXCEPT ![f] = "own"],
                           !.touched = @ \cup {f}, !.edited = @ \cup {Server[f]}]
  BY DEF Type, CycleTls
<1>5. form' \in Form
  BY <1>1, <1>3, <1>4 DEF Form
<1>6. QED
  BY <1>1, <1>2, <1>4, <1>5 DEF Owned, Form

\* A new domain brings its preset, but not to the fields the user shields.
LEMMA TypeEmailIs ==
  ASSUME form \in Form, NEW d \in {"known", "other"}, TypeEmail(d)
  PROVE  /\ form' \in Form
         /\ \A g \in Fields : g # "email" /\ (g \in DOMAIN Server => Server[g] \in form.edited)
                                => form'.config[g] = form.config[g]
         /\ form'.touched = form.touched \cup {"email"} /\ form'.edited = form.edited
         /\ form'.oauth = form.oauth /\ form'.for = form.for /\ form'.stale = form.stale
<1> DEFINE typed == [form.config EXCEPT !.email = d]
           config == IF d = "known" /\ form.domain # d THEN Preset(typed, form.edited) ELSE typed
<1>1. form.config \in Config /\ DOMAIN form.config = Fields
  BY ConfigFields DEF Form
<1>2. typed \in Config /\ DOMAIN typed = Fields
  BY <1>1, ConfigFields DEF Config
<1>3. \A g \in Fields \ {"email"} : typed[g] = form.config[g]
  BY <1>1
<1> HIDE DEF typed
<1>4. Preset(typed, form.edited) \in Config
  <2>1. Preset(typed, form.edited) =
          [f \in Fields |-> IF f \in DOMAIN Server /\ ~ (Server[f] \in form.edited) THEN "preset" ELSE typed[f]]
    BY <1>2 DEF Preset
  <2>2. QED
    BY <1>2, <2>1 DEF Config, Fields, Server
<1>5. \A g \in Fields : g # "email" /\ (g \in DOMAIN Server => Server[g] \in form.edited)
                          => Preset(typed, form.edited)[g] = form.config[g]
  BY <1>2, <1>3 DEF Preset
<1>6. /\ config \in Config
      /\ \A g \in Fields : g # "email" /\ (g \in DOMAIN Server => Server[g] \in form.edited)
                             => config[g] = form.config[g]
  BY <1>2, <1>3, <1>4, <1>5
<1>7. form' = [form EXCEPT !.config = config, !.domain = d, !.touched = @ \cup {"email"}]
  BY DEF TypeEmail, typed
<1> HIDE DEF config
<1>8. QED
  BY <1>6, <1>7 DEF Form

LEMMA ToggleProtocolIs ==
  ASSUME form \in Form, ToggleProtocol
  PROVE  /\ form' \in Form
         /\ \A g \in Fields \ {"proto"} : g # "port" \/ "imap" \in form.edited
                                            => form'.config[g] = form.config[g]
         /\ form'.touched = form.touched \cup {"proto"} /\ form'.edited = form.edited
         /\ form'.oauth = form.oauth /\ form'.for = form.for /\ form'.stale = form.stale
<1> DEFINE proto == OtherProtocol(form.config.proto)
           port == IF "imap" \in form.edited THEN form.config.port ELSE DefaultTlsPort(proto)
           config == [form.config EXCEPT !.proto = proto, !.port = port]
<1>1. form.config \in Config /\ DOMAIN form.config = Fields
  BY ConfigFields DEF Form
<1>2. proto \in {"imap", "pop3"} /\ port \in {"993", "995", "preset", "own"}
  BY <1>1 DEF OtherProtocol, DefaultTlsPort, Config
<1>3. form' = [form EXCEPT !.config = config, !.touched = @ \cup {"proto"}]
  BY <1>1 DEF ToggleProtocol, Form
<1>4. "imap" \in form.edited => port = form.config.port
  OBVIOUS
<1> HIDE DEF proto, port
<1>5. config \in Config
  BY <1>1, <1>2 DEF Config
<1>6. \A g \in Fields \ {"proto"} : g # "port" \/ "imap" \in form.edited => config[g] = form.config[g]
  BY <1>1, <1>4
<1> HIDE DEF config
<1>7. QED
  BY <1>3, <1>5, <1>6 DEF Form

LEMMA SignInIs ==
  ASSUME form \in Form, ToggleAuth \/ \E c \in Clients : TypeClient(c)
  PROVE  /\ form' \in Form
         /\ \A g \in Fields \ {"client"} : form'.config[g] = form.config[g]
         /\ form'.touched = form.touched \cup {"client"} /\ form'.edited = form.edited
         /\ form'.for = form.for /\ form'.stale = form.stale
<1>1. form.config \in Config /\ DOMAIN form.config = Fields
  BY ConfigFields DEF Form
<1>2. CASE ToggleAuth
  BY <1>1, <1>2 DEF ToggleAuth, Form
<1>3. ASSUME NEW c \in Clients, TypeClient(c)
      PROVE  /\ form' \in Form
             /\ \A g \in Fields \ {"client"} : form'.config[g] = form.config[g]
             /\ form'.touched = form.touched \cup {"client"} /\ form'.edited = form.edited
             /\ form'.for = form.for /\ form'.stale = form.stale
  <2>1. [form.config EXCEPT !.client = c] \in Config
    BY <1>1 DEF Config
  <2>2. form' = [form EXCEPT !.config = [form.config EXCEPT !.client = c], !.touched = @ \cup {"client"}]
    BY <1>3 DEF TypeClient
  <2>3. QED
    BY <1>1, <2>1, <2>2 DEF Form
<1>4. QED
  BY <1>2, <1>3

LEMMA ToggleKeepIs ==
  ASSUME form \in Form, ToggleKeep
  PROVE  /\ form' \in Form
         /\ \A g \in Fields \ {"keep"} : form'.config[g] = form.config[g]
         /\ form'.touched = form.touched \cup {"keep"} /\ form'.edited = form.edited
         /\ form'.oauth = form.oauth /\ form'.for = form.for /\ form'.stale = form.stale
<1>1. form.config \in Config /\ DOMAIN form.config = Fields
  BY ConfigFields DEF Form
<1>2. [form.config EXCEPT !.keep = ~ form.config.keep] \in Config
  BY <1>1 DEF Config
<1>3. form' = [form EXCEPT !.config = [form.config EXCEPT !.keep = ~ form.config.keep],
                           !.touched = @ \cup {"keep"}]
  BY DEF ToggleKeep
<1>4. QED
  BY <1>1, <1>2, <1>3 DEF Form

LEMMA CodeSteps ==
  ASSUME form \in Form, GenerateUrl \/ PasteCode
  PROVE  /\ form' \in Form /\ form'.config = form.config
         /\ form'.touched = form.touched /\ form'.edited = form.edited
         /\ form'.oauth = form.oauth /\ form'.for = form.for /\ form'.stale = form.stale
<1>1. form.config.client \in Clients \cup {None}
  BY DEF Form, Config
<1>2. QED
  BY <1>1 DEF GenerateUrl, PasteCode, Form

\* Any key in the form: what it touches, and what it leaves alone.
Touching(T) ==
  /\ form' \in Form
  /\ form'.touched = form.touched \cup T
  /\ form.edited \subseteq form'.edited
  /\ \A f \in T \cap DOMAIN Server : Server[f] \in form'.edited /\ form'.config[f] = "own"
  /\ \A f \in Fields \ T :
       f \notin DOMAIN Server \/ Server[f] \in form.edited => form'.config[f] = form.config[f]
  /\ "client" \notin T => form'.oauth = form.oauth
  /\ form'.for = form.for /\ form'.stale = form.stale

LEMMA ServerIs ==
  /\ DOMAIN Server = {"host", "port", "tls", "smtpHost", "smtpPort", "smtpTls"}
  /\ Server["host"] = "imap" /\ Server["port"] = "imap" /\ Server["tls"] = "imap"
  /\ Server["smtpHost"] = "smtp" /\ Server["smtpPort"] = "smtp" /\ Server["smtpTls"] = "smtp"
BY DEF Server

LEMMA FillingIn ==
  ASSUME form \in Form, FillIn
  PROVE  \E T \in SUBSET Fields : Touching(T)
<1>1. ASSUME NEW f \in DOMAIN Server, Type(f) \/ CycleTls(f) PROVE Touching({f}) /\ {f} \subseteq Fields
  BY <1>1, TypedIs DEF Owned, Touching, Server, Fields
<1>2. ASSUME NEW d \in {"known", "other"}, TypeEmail(d) PROVE Touching({"email"})
  BY <1>2, TypeEmailIs, ServerIs DEF Touching
<1>3. ASSUME ToggleProtocol PROVE Touching({"proto"})
  BY <1>3, ToggleProtocolIs, ServerIs DEF Touching
<1>4. ASSUME ToggleAuth \/ \E c \in Clients : TypeClient(c) PROVE Touching({"client"})
  BY <1>4, SignInIs, ServerIs DEF Touching
<1>5. ASSUME ToggleKeep PROVE Touching({"keep"})
  BY <1>5, ToggleKeepIs, ServerIs DEF Touching
<1>6. ASSUME GenerateUrl \/ PasteCode PROVE Touching({})
  BY <1>6, CodeSteps DEF Touching
<1>7. {"email"} \subseteq Fields /\ {"proto"} \subseteq Fields /\ {"client"} \subseteq Fields
      /\ {"keep"} \subseteq Fields /\ {} \subseteq Fields
  BY DEF Fields
<1>8. {"host", "port", "smtpHost", "smtpPort", "tls", "smtpTls"} \subseteq DOMAIN Server
  BY DEF Server
<1>9. QED
  BY <1>1, <1>2, <1>3, <1>4, <1>5, <1>6, <1>7, <1>8 DEF FillIn

LEMMA ListsTyped ==
  ASSUME FormTypeOK
  PROVE  /\ \A n \in DOMAIN known : known[n] \in Account
         /\ \A n \in DOMAIN shown : shown[n] \in Account
<1>1. known \in Seq(Account) /\ shown \in Seq(Account)
  BY DEF FormTypeOK
<1>2. QED
  BY <1>1, LenProperties, ElementOfSeq

LEMMA FillInKeeps ==
  ASSUME FormInv, form # NoForm, FillIn
  PROVE  form' \in Form /\ TypedStays' /\ TouchedIsKept' /\ SignInAsOpened' /\ FormFits'
<1>1. form \in Form /\ known' = known
  BY DEF FormInv, FormTypeOK, FillIn
<1>2. PICK T \in SUBSET Fields : Touching(T)
  BY <1>1, FillingIn
<1>3. form.touched \subseteq Fields /\ DOMAIN Server \subseteq Fields
  BY <1>1 DEF Form, Server, Fields
<1>4. form' \in Form /\ form' # NoForm
  BY <1>2, NoFormIsNone DEF Touching
<1>5. TouchedIsKept'
  BY <1>2 DEF Touching, TouchedIsKept, FormInv
<1>6. TypedStays'
  <2> SUFFICES ASSUME NEW f \in form'.touched \cap DOMAIN Server PROVE form'.config[f] = "own"
    BY DEF TypedStays
  <2>1. CASE f \in T
    BY <1>2, <2>1 DEF Touching
  <2>2. CASE f \notin T
    BY <1>2, <1>3, <2>2 DEF Touching, FormInv, TypedStays, TouchedIsKept
  <2>3. QED
    BY <2>1, <2>2
<1>7. SignInAsOpened'
  BY <1>2 DEF Touching, SignInAsOpened, FormInv
<1>8. FormFits'
  <2> SUFFICES ASSUME form'.for # None
               PROVE  /\ form'.edited = {"imap", "smtp"}
                      /\ ~ form'.stale =>
                           \A n \in DOMAIN known :
                             known[n].id = form'.for /\ known[n].config.client = None =>
                               \A f \in Untouched(n)' : form'.config[f] = known[n].config[f]
    BY <1>1 DEF FormFits
  <2>1. form.for # None /\ form.edited = {"imap", "smtp"} /\ form.stale = form'.stale
    BY <1>2 DEF Touching, FormInv, FormFits
  <2>2. form'.edited = {"imap", "smtp"}
    BY <1>2, <1>4, <2>1 DEF Touching, Form
  <2>3. ASSUME ~ form'.stale, NEW n \in DOMAIN known, known[n].id = form'.for, known[n].config.client = None,
               NEW f \in Untouched(n)'
        PROVE  form'.config[f] = known[n].config[f]
    <3>1. f \in Fields /\ f \notin T /\ f \in Untouched(n)
      <4>1. known[n].config \in Config
        BY ListsTyped DEF FormInv, Account
      <4>2. f \in DOMAIN known[n].config /\ f \notin form'.touched
        BY <1>1, <2>3 DEF Untouched
      <4>3. f \in Fields
        BY <4>1, <4>2, ConfigFields
      <4>4. f \notin T /\ f \notin form.touched
        BY <1>2, <4>2 DEF Touching
      <4>5. QED
        BY <4>2, <4>3, <4>4 DEF Untouched
    <3>2. form.config[f] = known[n].config[f]
      BY <1>2, <2>1, <2>3, <3>1 DEF FormInv, FormFits, Touching
    <3>3. f \notin DOMAIN Server \/ Server[f] \in form.edited
      BY <2>1 DEF Server
    <3>4. QED
      BY <1>2, <3>1, <3>2, <3>3 DEF Touching
  <2>4. QED
    BY <2>2, <2>3
<1>9. QED
  BY <1>4, <1>5, <1>6, <1>7, <1>8

LEMMA EditKeeps ==
  ASSUME FormInv, NEW a \in Account, OpenEdit(a)
  PROVE  form' \in Form /\ TypedStays' /\ TouchedIsKept' /\ SignInAsOpened' /\ FormFits'
<1>1. form' = EditForm(a) /\ known' = known
  BY DEF OpenEdit
<1>2. /\ form' \in Form /\ form'.touched = {} /\ ~ form'.oauth /\ form'.edited = {"imap", "smtp"}
      /\ form'.for = a.id /\ form'.stale = Stale(a) /\ form'.config = [a.config EXCEPT !.client = None]
  BY <1>1, EditIs
<1>3. ASSUME ~ form'.stale, NEW k \in DOMAIN known, known[k].id = form'.for,
             known[k].config.client = None, NEW f \in Untouched(k)'
      PROVE  form'.config[f] = known[k].config[f]
  <2>1. known[k].config = a.config
    BY <1>2, <1>3 DEF Stale
  <2>2. a.config \in Config /\ f \in DOMAIN a.config
    BY <1>1, <1>3, <2>1 DEF Untouched, Account
  <2>3. QED
    BY <1>2, <1>3, <2>1, <2>2
<1>4. FormFits'
  BY <1>1, <1>2, <1>3 DEF FormFits
<1>5. QED
  BY <1>2, <1>4 DEF TypedStays, TouchedIsKept, SignInAsOpened

LEMMA ReplaceInSeq ==
  ASSUME NEW S, NEW s \in Seq(S), NEW n \in DOMAIN s, NEW e \in S
  PROVE  [s EXCEPT ![n] = e] \in Seq(S) /\ DOMAIN [s EXCEPT ![n] = e] = DOMAIN s
<1>1. n \in 1 .. Len(s)
  BY LenProperties
<1>2. [s EXCEPT ![n] = e] \in Seq(S)
  BY <1>1, ExceptSeq
<1>3. QED
  BY <1>2

LEMMA UpdateIs ==
  ASSUME FormInv, form # NoForm, NEW id \in Ids, UpdateAccount(id)
  PROVE  /\ known' \in Seq(Account) /\ DOMAIN known' = DOMAIN known /\ CodeIsExchanged'
         /\ \A n \in DOMAIN known :
              \/ known'[n] = known[n]
              \/ known[n].id = id /\ known'[n] = IntoAccount(id, FALSE)
<1>1. form \in Form /\ known \in Seq(Account) /\ \A n \in DOMAIN known : known[n] \in Account
  BY ListsTyped DEF FormInv, FormTypeOK
<1>2. CASE id \notin IdsOf(known)
  BY <1>1, <1>2 DEF UpdateAccount, FormInv, CodeIsExchanged
<1>3. CASE id \in IdsOf(known)
  <2> DEFINE p == Position(known, id)
             a == IntoAccount(id, FALSE)
  <2>1. p \in DOMAIN known /\ known[p].id = id
    BY <1>3 DEF IdsOf, Position
  <2>2. a \in Account /\ a.config.client = IF form.oauth THEN form.config.client ELSE None
    BY <1>1, IntoAccountIs
  <2>3. known' = [known EXCEPT ![p] = a]
        /\ flaws' = flaws \cup (IF form.oauth THEN {"oauth by edit"} ELSE {})
    BY <1>3 DEF UpdateAccount
  <2> HIDE DEF p, a
  <2>4. known' \in Seq(Account) /\ DOMAIN known' = DOMAIN known
    <3>1. known \in Seq(Account) /\ p \in DOMAIN known /\ a \in Account
      BY <1>1, <2>1, <2>2
    <3>2. known' = [known EXCEPT ![p] = a]
      BY <2>3
    <3>3. QED
      BY <3>1, <3>2, ReplaceInSeq
  <2>5. \A n \in DOMAIN known : known'[n] = IF n = p THEN a ELSE known[n]
    BY <2>3
  <2>6. CodeIsExchanged'
    <3> SUFFICES ASSUME flaws' = {}, NEW n \in DOMAIN known', known'[n].config.client # None
                 PROVE  known'[n].redeemed
      BY DEF CodeIsExchanged
    <3>1. flaws = {} /\ ~ form.oauth
      BY <2>3
    <3>2. QED
      BY <2>2, <2>4, <2>5, <3>1 DEF FormInv, CodeIsExchanged
  <2>7. QED
    BY <2>1, <2>4, <2>5, <2>6 DEF a
<1>4. QED
  BY <1>2, <1>3

LEMMA AddIs ==
  ASSUME FormInv, form # NoForm, NEW id \in Ids, AddAccount(id)
  PROVE  /\ known' \in Seq(Account) /\ DOMAIN known \subseteq DOMAIN known' /\ CodeIsExchanged'
         /\ \A n \in DOMAIN known : known'[n] = known[n]
<1>1. form \in Form /\ known \in Seq(Account) /\ form.oauth \in BOOLEAN
  BY DEF FormInv, FormTypeOK, Form
<1> DEFINE redeemed == form.oauth /\ form.url = form.config.client
           a == IntoAccount(id, redeemed)
<1>2. a \in Account /\ a.redeemed = redeemed
      /\ a.config.client = IF form.oauth THEN form.config.client ELSE None
  BY <1>1, IntoAccountIs
<1>3. known' = Append(known, a)
      /\ flaws' = flaws \cup (IF form.oauth /\ form.url # form.config.client THEN {"client changed"} ELSE {})
  BY DEF AddAccount
<1>4. flaws' = {} => flaws = {} /\ (form.oauth => redeemed)
  BY <1>3
<1>5. redeemed => form.oauth
  OBVIOUS
<1> HIDE DEF a, redeemed
<1>6. /\ known' \in Seq(Account) /\ DOMAIN known = 1..Len(known) /\ DOMAIN known' = 1..(Len(known) + 1)
      /\ known'[Len(known) + 1] = a /\ Len(known) \in Nat
      /\ \A n \in 1..Len(known) : known'[n] = known[n]
  <2>1. /\ known' \in Seq(Account) /\ Len(known') = Len(known) + 1
        /\ \A n \in 1..Len(known) : known'[n] = known[n]
        /\ known'[Len(known) + 1] = a
    <3>1. known \in Seq(Account) /\ a \in Account
      BY <1>1, <1>2
    <3>2. /\ Append(known, a) \in Seq(Account) /\ Len(Append(known, a)) = Len(known) + 1
          /\ \A n \in 1..Len(known) : Append(known, a)[n] = known[n]
          /\ Append(known, a)[Len(known) + 1] = a
      BY <3>1, AppendProperties
    <3>3. QED
      BY <1>3, <3>2
  <2>2. DOMAIN known = 1..Len(known) /\ Len(known) \in Nat /\ DOMAIN known' = 1..Len(known')
    BY <1>1, <2>1, LenProperties
  <2>3. QED
    BY <2>1, <2>2
<1>7. CodeIsExchanged'
  <2> SUFFICES ASSUME flaws' = {}, NEW n \in DOMAIN known', known'[n].config.client # None
               PROVE  known'[n].redeemed
    BY DEF CodeIsExchanged
  <2>1. CASE n \in DOMAIN known
    BY <1>4, <1>6, <2>1 DEF FormInv, CodeIsExchanged
  <2>2. CASE n \notin DOMAIN known
    <3>1. known'[n] = a
      BY <1>6, <2>2
    <3>2. QED
      BY <1>2, <1>4, <3>1
  <2>3. QED
    BY <2>1, <2>2
<1>8. QED
  BY <1>6, <1>7

\* Accounts that leave the list take nothing from what is said of the others.
LEMMA LeavingKeeps ==
  ASSUME FormInv, known' \in Seq(Account), UNCHANGED <<form, flaws>>,
         \A n \in DOMAIN known' : \E k \in DOMAIN known : known'[n] = known[k]
  PROVE  TypedStays' /\ TouchedIsKept' /\ SignInAsOpened' /\ FormFits' /\ CodeIsExchanged'
<1>1. CodeIsExchanged'
  BY DEF FormInv, CodeIsExchanged
<1>2. TypedStays' /\ TouchedIsKept' /\ SignInAsOpened'
  BY DEF FormInv, TypedStays, TouchedIsKept, SignInAsOpened
<1>3. FormFits'
  <2> SUFFICES ASSUME form # NoForm, form.for # None, ~ form.stale,
                      NEW n \in DOMAIN known', known'[n].id = form.for, known'[n].config.client = None,
                      NEW f \in Untouched(n)'
               PROVE  form.config[f] = known'[n].config[f]
    BY DEF FormInv, FormFits
  <2>1. PICK k \in DOMAIN known : known'[n] = known[k]
    OBVIOUS
  <2>2. f \in Untouched(k)
    BY <2>1 DEF Untouched
  <2>3. QED
    BY <2>1, <2>2 DEF FormInv, FormFits
<1>4. QED
  BY <1>1, <1>2, <1>3

LEMMA FormInvStays == FormInv /\ [FormNext]_formVars => FormInv'
<1> SUFFICES ASSUME FormInv, [FormNext]_formVars PROVE FormInv'
  OBVIOUS
<1> USE DEF FormTypeOK
<1>1. \A n \in DOMAIN shown : shown[n] \in Account
  BY ListsTyped DEF FormInv
<1>2. CASE form # NoForm /\ FillIn
  <2>1. form' \in Form /\ TypedStays' /\ TouchedIsKept' /\ SignInAsOpened' /\ FormFits'
    BY <1>2, FillInKeeps
  <2>2. UNCHANGED <<known, shown, adding, editId, used, flaws>>
    BY <1>2 DEF FillIn
  <2>3. QED
    BY <2>1, <2>2 DEF FormInv, CodeIsExchanged
<1>3. CASE SaveForm
  <2>1. form # NoForm /\ form' = NoForm /\ editId' = None
    BY <1>3 DEF SaveForm
  <2>2. TypedStays' /\ TouchedIsKept' /\ SignInAsOpened' /\ FormFits'
    BY <2>1 DEF TypedStays, TouchedIsKept, SignInAsOpened, FormFits
  <2>3. ASSUME UpdateAccount(editId), editId # None PROVE FormTypeOK' /\ CodeIsExchanged'
    <3>1. editId \in Ids
      BY <2>3 DEF FormInv
    <3>2. known' \in Seq(Account) /\ CodeIsExchanged'
      BY <2>1, <2>3, <3>1, UpdateIs
    <3>3. UNCHANGED <<shown, adding, used>>
          /\ (flaws' = flaws \/ flaws' = flaws \cup {"oauth by edit"} \/ flaws' = flaws \cup {})
      BY <2>3 DEF UpdateAccount
    <3>4. QED
      BY <2>1, <3>2, <3>3 DEF FormInv
  <2>4. ASSUME NEW id \in Ids \ used, AddAccount(id) PROVE FormTypeOK' /\ CodeIsExchanged'
    <3>1. known' \in Seq(Account) /\ CodeIsExchanged'
      BY <2>1, <2>4, AddIs
    <3>2. /\ adding' = adding \cup {id} /\ used' = used \cup {id} /\ shown' = known'
          /\ flaws' = flaws \cup {"client changed"} \/ flaws' = flaws \cup {}
      BY <2>4 DEF AddAccount
    <3>3. QED
      BY <2>1, <3>1, <3>2 DEF FormInv
  <2>5. QED
    BY <1>3, <2>2, <2>3, <2>4 DEF SaveForm, FormInv
<1>4. ASSUME NEW n \in DOMAIN shown, OpenEdit(shown[n]) PROVE FormInv'
  <2>1. form' \in Form /\ TypedStays' /\ TouchedIsKept' /\ SignInAsOpened' /\ FormFits'
    BY <1>1, <1>4, EditKeeps
  <2>2. UNCHANGED <<known, shown, adding, used, flaws>> /\ editId' \in Ids
    BY <1>1, <1>4 DEF OpenEdit, Account
  <2>3. QED
    BY <2>1, <2>2 DEF FormInv, CodeIsExchanged
<1>5. CASE OpenFresh
  <2>1. FreshForm \in Form /\ FreshForm.touched = {} /\ ~ FreshForm.oauth /\ FreshForm.for = None
    BY FreshIs
  <2>2. form' = FreshForm /\ UNCHANGED <<known, shown, adding, editId, used, flaws>>
    BY <1>5 DEF OpenFresh
  <2>3. QED
    BY <2>1, <2>2 DEF FormInv, CodeIsExchanged, TypedStays, TouchedIsKept, SignInAsOpened, FormFits
<1>6. CASE CancelForm
  BY <1>6 DEF CancelForm, FormInv, CodeIsExchanged, TypedStays, TouchedIsKept, SignInAsOpened, FormFits
<1>7. CASE TakeOver
  BY <1>7 DEF TakeOver, FormInv, CodeIsExchanged, TypedStays, TouchedIsKept, SignInAsOpened, FormFits,
     Untouched
<1>8. ASSUME NEW id \in Ids, DeleteAccount(id) \/ AddAnswered(id) PROVE FormInv'
  <2>1. known' \in {known, Without(known, id)} /\ UNCHANGED <<shown, form, editId, used, flaws>>
        /\ adding' \subseteq adding
    BY <1>8 DEF DeleteAccount, AddAnswered
  <2>2. known' \in Seq(Account) /\ \A n \in DOMAIN known' : \E k \in DOMAIN known : known'[n] = known[k]
    <3>1. known \in Seq(Account)
      BY DEF FormInv
    <3>2. CASE known' = known
      BY <3>1, <3>2
    <3>3. CASE known' = Without(known, id)
      BY <3>1, <3>3, WithoutIs
    <3>4. QED
      BY <2>1, <3>2, <3>3
  <2>3. TypedStays' /\ TouchedIsKept' /\ SignInAsOpened' /\ FormFits' /\ CodeIsExchanged'
    BY <2>1, <2>2, LeavingKeeps
  <2>4. QED
    BY <2>1, <2>2, <2>3 DEF FormInv
<1>9. CASE UNCHANGED formVars
  BY <1>9 DEF formVars, FormInv, CodeIsExchanged, TypedStays, TouchedIsKept, SignInAsOpened, FormFits,
     Untouched
<1>10. QED
  BY <1>2, <1>3, <1>4, <1>5, <1>6, <1>7, <1>8, <1>9 DEF FormNext

LEMMA FormInvStarts == Init => FormInv
<1> SUFFICES ASSUME Init PROVE FormInv
  OBVIOUS
<1>1. PICK accounts \in Accounts : known = accounts
  BY DEF Init, FormInit
<1>2. /\ known \in Seq(Account)
      /\ \A n \in DOMAIN known : known[n].config.client # None => known[n].redeemed
  BY <1>1, TuiAssumption
<1>3. \A n \in DOMAIN known : known[n] \in Account
  BY <1>2, LenProperties, ElementOfSeq
<1>4. IdsOf(known) \subseteq Ids
  BY <1>3 DEF IdsOf, Account
<1>5. FreshForm \in Form /\ FreshForm.touched = {} /\ ~ FreshForm.oauth /\ FreshForm.for = None
  BY FreshIs
<1>6. shown = known /\ adding = {} /\ editId = None /\ form \in {FreshForm, NoForm}
      /\ used = IdsOf(known) /\ flaws = {}
  BY DEF Init, FormInit
<1>7. FormTypeOK
  BY <1>2, <1>4, <1>5, <1>6 DEF FormTypeOK
<1>8. QED
  BY <1>2, <1>5, <1>6, <1>7
     DEF FormInv, CodeIsExchanged, TypedStays, TouchedIsKept, SignInAsOpened, FormFits

\* Saved, a form changes the account it was opened for, in what the user touched.
LEMMA SavedAsOpened ==
  FormInv =>
    (SaveForm /\ editId = form.for /\ ~ form.stale =>
       \A n \in DOMAIN known :
         /\ known'[n].id = known[n].id
         /\ known[n].id # form.for => known'[n] = known[n]
         /\ known[n].id = form.for /\ known[n].config.client = None =>
              \A f \in Untouched(n) : known'[n].config[f] = known[n].config[f])
<1> SUFFICES ASSUME FormInv, SaveForm, editId = form.for, ~ form.stale, NEW n \in DOMAIN known
             PROVE  /\ known'[n].id = known[n].id
                    /\ known[n].id # form.for => known'[n] = known[n]
                    /\ known[n].id = form.for /\ known[n].config.client = None =>
                         \A f \in Untouched(n) : known'[n].config[f] = known[n].config[f]
  OBVIOUS
<1>1. form \in Form /\ form # NoForm /\ known[n] \in Account
  BY ListsTyped DEF SaveForm, FormInv, FormTypeOK
<1>2. CASE \E id \in Ids \ used : AddAccount(id)
  BY <1>1, <1>2, AddIs
<1>3. CASE editId # None /\ UpdateAccount(editId)
  <2>1. editId \in Ids
    BY <1>3 DEF FormInv, FormTypeOK
  <2>2. CASE known'[n] = known[n]
    BY <2>2
  <2>3. CASE known[n].id = editId /\ known'[n] = IntoAccount(editId, FALSE)
    <3>1. /\ known'[n].id = editId
          /\ known'[n].config.client = IF form.oauth THEN form.config.client ELSE None
          /\ \A f \in Fields \ {"client"} : known'[n].config[f] = form.config[f]
      <4> DEFINE a == IntoAccount(editId, FALSE)
      <4>1. /\ a.id = editId /\ a.config.client = IF form.oauth THEN form.config.client ELSE None
            /\ \A f \in Fields \ {"client"} : a.config[f] = form.config[f]
        BY <1>1, <2>1, IntoAccountIs
      <4>2. QED
        BY <2>3, <4>1
    <3>2. ASSUME known[n].config.client = None, NEW f \in Untouched(n)
          PROVE  known'[n].config[f] = known[n].config[f]
      <4>1. f \in Fields /\ f \notin form.touched
        BY <1>1, <3>2, ConfigFields DEF Untouched, Account
      <4>2. form.config[f] = known[n].config[f]
        BY <1>1, <1>3, <2>3, <3>2 DEF FormInv, FormFits
      <4>3. CASE f = "client"
        <5>1. ~ form.oauth
          BY <1>1, <4>1, <4>3 DEF FormInv, SignInAsOpened
        <5>2. known'[n].config.client = None
          BY <3>1, <5>1
        <5>3. QED
          BY <3>2, <4>3, <5>2
      <4>4. CASE f # "client"
        BY <3>1, <4>1, <4>2, <4>4
      <4>5. QED
        BY <4>3, <4>4
    <3>3. QED
      BY <2>3, <3>1, <3>2
  <2>4. QED
    BY <1>1, <1>3, <2>1, <2>2, <2>3, UpdateIs
<1>4. QED
  BY <1>2, <1>3 DEF SaveForm

-----------------------------------------------------------------------------
(* The windows: types, and that a mode has what it stands for. *)

LEMMA MenusAre ==
  /\ DOMAIN MENUS = 1..5 /\ Len(MENUS) = 5
  /\ DOMAIN MENUS[1] = 1..3 /\ Len(MENUS[1]) = 3
  /\ \A i \in 2..5 : MENUS[i] = <<>> /\ DOMAIN MENUS[i] = {} /\ Len(MENUS[i]) = 0
BY DEF MENUS

\* What a menu runs touches neither the draft nor the viewers, nor the settings in force.
LEMMA CommandIs ==
  ASSUME TypeOK, NEW name, Command(name)
  PROVE  /\ windows' \in 0..session.windows /\ quit' \in BOOLEAN
         /\ mode' \in {"Onboarding", "Accounts", "Settings", "Info", "Help", "Normal"}
         /\ mode' = "Onboarding" => form' # NoForm
         /\ mode' = "Accounts" => list' # NoList
         /\ mode' = "Settings" => draft' # NoSettings
         /\ list' \in List \cup {NoList} /\ draft' \in Settings \cup {NoSettings}
         /\ UNCHANGED <<draftVars, viewer, views, settings, disk, look, drag, shown>>
<1>1. session.windows \in Nat /\ windows \in 0..session.windows /\ settings \in Settings
      /\ list \in List \cup {NoList} /\ draft \in Settings \cup {NoSettings} /\ quit \in BOOLEAN
  BY TuiAssumption DEF TypeOK
<1>2. CASE OpenOnboarding
  <2>1. form' = FreshForm
    BY <1>2 DEF OpenOnboarding, OpenFresh
  <2>2. QED
    BY <1>1, <1>2, <2>1, FreshIs, NoFormIsNone
       DEF OpenOnboarding, OpenFresh, Window, viewVars, settingVars, draftVars
<1>3. CASE OpenAccounts
  <2>1. [selected |-> 1, confirm |-> None] \in List
    BY DEF List
  <2>2. QED
    BY <1>1, <1>3, <2>1, NothingAssumption DEF OpenAccounts, formVars, settingVars, draftVars
<1>4. CASE OpenSettings
  BY <1>1, <1>4, NothingAssumption DEF OpenSettings, Window, formVars, viewVars, draftVars
<1>5. CASE /\ mode' = CASE name = "OpenInfo" -> "Info" [] name = "Help" -> "Help" [] OTHER -> "Normal"
           /\ quit' = (name = "Quit")
           /\ UNCHANGED <<windows, draftVars, viewVars, settingVars, formVars>>
  <2>1. mode' \in {"Info", "Help", "Normal"}
    BY <1>5
  <2>2. quit' \in BOOLEAN /\ UNCHANGED <<windows, draftVars, viewVars, settingVars, formVars>>
    BY <1>5
  <2>3. QED
    BY <1>1, <2>1, <2>2 DEF draftVars, viewVars, settingVars, formVars
<1>6. QED
  BY <1>2, <1>3, <1>4, <1>5 DEF Command

LEMMA DraftSteps ==
  ASSUME compose \in Draft
  PROVE  /\ [compose EXCEPT !.body = @ \cup {"notes"}] \in Draft
         /\ \A f \in Files : [compose EXCEPT !.files = @ \ {f}] \in Draft
         /\ \A S \in SUBSET Files : [compose EXCEPT !.files = S] \in Draft
         /\ \A b \in BOOLEAN : [compose EXCEPT !.dialog = b] \in Draft
         /\ \A S \in SUBSET Files : Insert(compose, S) \in Draft
         /\ compose.asked = 0 => [compose EXCEPT !.asked = @ + 1, !.dialog = FALSE] \in Draft
<1>1. compose.body \subseteq {"notes", "original", "ai"} /\ compose.files \subseteq Files
      /\ compose.asked \in 0..1 /\ compose.answered \in Nat
  BY DEF Draft
<1>2. /\ [compose EXCEPT !.body = @ \cup {"notes"}] \in Draft
      /\ \A f \in Files : [compose EXCEPT !.files = @ \ {f}] \in Draft
      /\ \A S \in SUBSET Files : [compose EXCEPT !.files = S] \in Draft
      /\ \A b \in BOOLEAN : [compose EXCEPT !.dialog = b] \in Draft
  BY <1>1 DEF Draft
<1>3. ASSUME NEW S \in SUBSET Files PROVE Insert(compose, S) \in Draft
  <2>1. {"ai"} \cup Quote(compose) \subseteq {"notes", "original", "ai"}
    BY DEF Quote
  <2>2. compose.files \cup S \subseteq Files /\ compose.answered + 1 \in Nat
    BY <1>1
  <2>3. QED
    BY <2>1, <2>2 DEF Insert, Draft
<1>4. ASSUME compose.asked = 0 PROVE [compose EXCEPT !.asked = @ + 1, !.dialog = FALSE] \in Draft
  <2>1. compose.asked + 1 \in 0..1
    BY <1>4
  <2>2. QED
    BY <2>1 DEF Draft
<1>5. QED
  BY <1>2, <1>3, <1>4

LEMMA SendersAreShown ==
  ASSUME TypeOK
  PROVE  /\ \A n \in DOMAIN shown : n \in Nat /\ shown[n].id \in Ids
         /\ \A id \in IdsOf(shown) : IndexOf(id) \in DOMAIN shown /\ shown[IndexOf(id)].id = id
<1>1. shown \in Seq(Account)
  BY DEF TypeOK, FormTypeOK
<1>2. \A n \in DOMAIN shown : n \in Nat /\ shown[n] \in Account
  BY <1>1, LenProperties, ElementOfSeq
<1>3. \A id \in IdsOf(shown) : Position(shown, id) \in DOMAIN shown /\ shown[Position(shown, id)].id = id
  BY DEF IdsOf, Position
<1>4. QED
  BY <1>2, <1>3 DEF Account, IndexOf

LEMMA WindowsStay == TypeOK /\ FormInv /\ ModeHasState /\ [Next]_vars => TypeOK' /\ ModeHasState'
<1> SUFFICES ASSUME TypeOK, FormInv, ModeHasState, [Next]_vars PROVE TypeOK' /\ ModeHasState'
  OBVIOUS
<1>1. FormTypeOK'
  BY FormSteps, FormInvStays DEF FormInv
<1>2. session.windows \in Nat /\ MaxCovers \in Nat
  BY TuiAssumption DEF TypeOK
<1>3. session' = session
  BY DEF Next, vars
<1> USE DEF TypeOK, ModeHasState
<1>4. CASE UNCHANGED vars
  BY <1>1, <1>4 DEF vars, draftVars, viewVars, settingVars, formVars
<1>5. CASE MouseMenuDown
  <2>1. covers' \in 0..MaxCovers /\ causes' = causes \cup Covered /\ mode \notin {"Compose", "Onboarding"}
    BY <1>2, <1>5 DEF MouseMenuDown, Clickable
  <2>2. causes' \subseteq Causes
    BY <2>1 DEF Covered, Previewed, Causes
  <2>3. ASSUME NEW name, Command(name), menu' = NoMenu PROVE TypeOK' /\ ModeHasState'
    BY <1>1, <1>3, <2>1, <2>2, <2>3, CommandIs DEF draftVars, Modes, ViewMode
  <2>4. ASSUME NEW i \in DOMAIN MENUS, MENUS[i] # <<>>, InMenu,
               \/ mode' = "Normal" /\ menu' = NoMenu
               \/ mode' = "Menu" /\ menu' = [col |-> i, open |-> TRUE, item |-> 1]
        PROVE  TypeOK' /\ ModeHasState'
    <3>1. i = 1 /\ [col |-> i, open |-> TRUE, item |-> 1] \in Menu
      BY <2>4, MenusAre DEF Menu
    <3>2. /\ menu' \in Menu \cup {NoMenu} /\ (mode' = "Menu") = (menu' # NoMenu)
          /\ menu' # NoMenu /\ menu'.open => menu'.item \in DOMAIN MENUS[menu'.col]
      <4>1. CASE mode' = "Normal" /\ menu' = NoMenu
        BY <4>1
      <4>2. CASE mode' = "Menu" /\ menu' = [col |-> i, open |-> TRUE, item |-> 1]
        <5>1. menu' \in Menu /\ menu'.col = 1 /\ menu'.item = 1
          BY <3>1, <4>2
        <5>2. menu' # NoMenu /\ menu'.item \in DOMAIN MENUS[menu'.col]
          BY <5>1, MenusAre, NothingAssumption
        <5>3. QED
          BY <4>2, <5>1, <5>2
      <4>3. QED
        BY <2>4, <4>1, <4>2
    <3>3. mode' \in {"Normal", "Menu"}
      BY <2>4
    <3>4. QED
      BY <1>1, <1>3, <2>1, <2>2, <2>4, <3>2, <3>3
         DEF InMenu, draftVars, viewVars, settingVars, formVars, Modes, ViewMode
  <2>5. QED
    BY <1>5, <2>3, <2>4 DEF MouseMenuDown
<1>6. ASSUME UNCHANGED covers, Drag PROVE TypeOK' /\ ModeHasState'
  <2>1. \A panes \in Panes : [look EXCEPT !.panes = panes] \in Settings
    BY DEF Settings
  <2>2. [settings EXCEPT !.panes = look.panes] \in Settings
    BY DEF Settings
  <2>3. CASE DividerHit
    <3>1. windows' \in 0..session.windows
      BY <1>2, <2>3 DEF DividerHit, Window
    <3>2. QED
      BY <1>1, <1>3, <1>6, <2>3, <3>1 DEF DividerHit, draftVars, viewVars, formVars
  <2>4. CASE SaveLayoutPrefs
    BY <1>1, <1>3, <1>6, <2>2, <2>4, ZenonT(40) DEF SaveLayoutPrefs, InSettings, draftVars, viewVars, formVars
  <2>5. ASSUME NEW panes \in Panes, DragDivider(panes) PROVE TypeOK' /\ ModeHasState'
    BY <1>1, <1>3, <1>6, <2>1, <2>5 DEF DragDivider, InSettings, draftVars, viewVars, formVars
  <2>6. QED
    BY <1>6, <2>3, <2>4, <2>5 DEF Drag
<1>7. ASSUME UNCHANGED covers, Tick PROVE TypeOK' /\ ModeHasState'
  <2>1. /\ ai' \in Ai /\ compose' \in Draft \cup {NoDraft} /\ (compose # NoDraft => compose' # NoDraft)
    <3>1. ASSUME NEW failed \in BOOLEAN, NEW files \in SUBSET Files, PollAi(files, failed)
          PROVE  /\ ai' \in Ai /\ compose' \in Draft \cup {NoDraft}
                 /\ (compose # NoDraft => compose' # NoDraft)
      BY <3>1, DraftSteps, NothingAssumption DEF PollAi, Ai
    <3>2. QED
      BY <1>7, <3>1 DEF Tick
  <2>2. causes' \subseteq Causes
    BY <1>7 DEF Tick, Mishaps, Causes
  <2>3. QED
    BY <1>1, <1>3, <1>7, <2>1, <2>2 DEF Tick, TakeOver, viewVars, settingVars
<1>8. ASSUME UNCHANGED covers, CliEnds PROVE TypeOK' /\ ModeHasState'
  <2>1. [ai EXCEPT !.ready = TRUE] \in Ai
    BY DEF Ai
  <2>2. QED
    BY <1>1, <1>3, <1>8, <2>1 DEF CliEnds, InDraft, viewVars, settingVars, formVars
<1>9. ASSUME UNCHANGED covers, Worker PROVE TypeOK' /\ ModeHasState'
  BY <1>1, <1>3, <1>9 DEF Worker, AddAnswered, InForm, InAccounts, draftVars, settingVars
<1>10. ASSUME UNCHANGED covers, Key PROVE TypeOK' /\ ModeHasState'
  <2>1. CASE StartCompose
    <3>1. ASSUME NEW n \in DOMAIN shown, NEW kind \in {"new", "reply", "forward"},
                 InstallCompose(kind, shown[n].id)
          PROVE  TypeOK' /\ ModeHasState'
      <4>1. compose' \in Draft
        <5>1. shown[n].id \in Ids /\ IndexOf(shown[n].id) \in Nat
          BY SendersAreShown DEF IdsOf
        <5>2. QED
          BY <3>1, <5>1 DEF InstallCompose, NewDraft, Draft
      <4>2. causes' \subseteq Causes
        BY <3>1 DEF InstallCompose, Forsaken, Causes
      <4>3. mode = "Normal" /\ windows' \in 0..session.windows
        BY <1>2, <2>1, <3>1 DEF InstallCompose, Window, StartCompose
      <4>4. QED
        BY <1>1, <1>3, <1>10, <3>1, <4>1, <4>2, <4>3, NothingAssumption
           DEF InstallCompose, viewVars, settingVars, formVars, Modes, ViewMode
    <3>2. ASSUME OpenOnboarding, UNCHANGED <<menu, causes>> PROVE TypeOK' /\ ModeHasState'
      <4>1. Command("OpenOnboarding")
        BY <3>2 DEF Command
      <4>2. QED
        BY <1>1, <1>3, <1>10, <2>1, <3>2, <4>1, CommandIs DEF StartCompose, draftVars, Modes, ViewMode
    <3>3. QED
      BY <2>1, <3>1, <3>2 DEF StartCompose
  <2>2. CASE TypeBody \/ SaveDraft \/ \E n \in DOMAIN shown : ChooseSender(n)
    <3>1. compose \in Draft /\ mode' = mode /\ InDraft /\ UNCHANGED <<ai, causes>>
      BY <2>2 DEF TypeBody, SaveDraft, ChooseSender, Writing
    <3>2. compose' \in Draft
      <4>1. CASE TypeBody
        BY <3>1, <4>1, DraftSteps DEF TypeBody
      <4>2. CASE SaveDraft
        BY <3>1, <4>2, SendersAreShown DEF SaveDraft, SyncToDraft, Draft
      <4>3. ASSUME NEW n \in DOMAIN shown, ChooseSender(n) PROVE compose' \in Draft
        BY <3>1, <4>3, SendersAreShown DEF ChooseSender, Draft
      <4>4. QED
        BY <2>2, <4>1, <4>2, <4>3
    <3>3. QED
      BY <1>1, <1>3, <1>10, <3>1, <3>2, NothingAssumption DEF InDraft, viewVars, settingVars, formVars
  <2>3. CASE Send \/ CancelCompose
    <3>1. CloseDraft /\ causes' \subseteq Causes /\ mode = "Compose"
      BY <2>3 DEF Send, CancelCompose, CloseDraft, Forsaken, Causes, Writing
    <3>2. QED
      BY <1>1, <1>3, <1>10, <3>1 DEF CloseDraft, InDraft, viewVars, settingVars, formVars, Modes, ViewMode
  <2>4. CASE AddAttachment
    <3>1. [picked |-> compose.files, toggled |-> {}] \in Picker
      BY <2>4 DEF AddAttachment, Writing, Draft, Picker
    <3>2. QED
      BY <1>1, <1>3, <1>10, <2>4, <3>1, NothingAssumption
         DEF AddAttachment, Writing, viewVars, settingVars, formVars, Modes, ViewMode
  <2>5. CASE FilePickerConfirm
    <3>1. picker.picked \in SUBSET Files /\ mode = "FilePicker"
      BY <2>5 DEF FilePickerConfirm, Only, Picker
    <3>2. compose' \in Draft
      BY <2>5, <3>1, DraftSteps DEF FilePickerConfirm
    <3>3. QED
      BY <1>1, <1>3, <1>10, <2>5, <3>1, <3>2, NothingAssumption
         DEF FilePickerConfirm, Only, viewVars, settingVars, formVars, Modes, ViewMode
  <2>6. CASE FilePickerCancel
    BY <1>1, <1>3, <1>10, <2>6 DEF FilePickerCancel, Only, viewVars, settingVars, formVars, Modes, ViewMode
  <2>7. ASSUME NEW f \in Files, DropFile(f) PROVE TypeOK' /\ ModeHasState'
    BY <1>1, <1>3, <1>10, <2>7, DraftSteps, NothingAssumption
       DEF DropFile, Writing, InDraft, viewVars, settingVars, formVars
  <2>8. ASSUME NEW f \in Files, FilePickerToggle(f) PROVE TypeOK' /\ ModeHasState'
    <3>1. picker' \in Picker
      BY <2>8 DEF FilePickerToggle, Picker, SymDiff
    <3>2. QED
      BY <1>1, <1>3, <1>10, <2>8, <3>1, NothingAssumption
         DEF FilePickerToggle, viewVars, settingVars, formVars
  <2>9. CASE AiGenerateReply \/ AiReplyWithInstructions
    <3>1. compose \in Draft /\ mode' = mode /\ InDraft /\ UNCHANGED causes
      BY <2>9 DEF AiGenerateReply, AiReplyWithInstructions, Writing, InstructionDialog
    <3>2. ASSUME NEW instructed, AskAi(instructed) PROVE compose' \in Draft /\ ai' \in Ai
      BY <3>1, <3>2, DraftSteps DEF AskAi, CanAsk, Ai
    <3>3. compose' \in Draft /\ ai' \in Ai
      BY <2>9, <3>1, <3>2, DraftSteps DEF AiGenerateReply, AiReplyWithInstructions
    <3>4. QED
      BY <1>1, <1>3, <1>10, <3>1, <3>3, NothingAssumption DEF InDraft, viewVars, settingVars, formVars
  <2>10. ASSUME NEW theme \in Themes, CycleTheme(theme) PROVE TypeOK' /\ ModeHasState'
    <3>1. [draft EXCEPT !.theme = theme] \in Settings /\ [look EXCEPT !.theme = theme] \in Settings
      BY <2>10 DEF CycleTheme, Settings
    <3>2. QED
      BY <1>1, <1>3, <1>10, <2>10, <3>1, NothingAssumption
         DEF CycleTheme, InSettings, draftVars, viewVars, formVars
  <2>11. CASE SaveSettings
    BY <1>1, <1>3, <1>10, <2>11
       DEF SaveSettings, Only, InSettings, draftVars, viewVars, formVars, Modes, ViewMode
  <2>12. CASE CancelSettings
    <3>1. causes' \subseteq Causes
      BY <2>12 DEF CancelSettings, Previewed, Causes
    <3>2. QED
      BY <1>1, <1>3, <1>10, <2>12, <3>1
         DEF CancelSettings, Only, InSettings, draftVars, viewVars, formVars, Modes, ViewMode
  <2>13. ASSUME NEW view \in DOMAIN ViewMode, OpenView(view, ViewMode[view]) \/ CloseView(view, ViewMode[view])
         PROVE  TypeOK' /\ ModeHasState'
    BY <1>1, <1>3, <1>10, <2>13
       DEF OpenView, CloseView, Only, InViews, draftVars, settingVars, formVars, Modes, ViewMode
  <2>14. CASE OpenAttachments \/ AttachmentView \/ AttachmentClose
    <3>1. viewer' \in Viewer \cup {NoViewer} /\ InViews /\ UNCHANGED <<views, list>>
      <4>1. \A m \in {"Normal", "Thread"} : [return |-> m, viewing |-> FALSE] \in Viewer
        BY DEF Viewer
      <4>2. viewer \in Viewer =>
              /\ [viewer EXCEPT !.viewing = ~ @] \in Viewer
              /\ [viewer EXCEPT !.viewing = FALSE] \in Viewer
        BY DEF Viewer
      <4>3. QED
        BY <2>14, <4>1, <4>2 DEF OpenAttachments, AttachmentView, AttachmentClose
    <3>2. CASE OpenAttachments
      <4>1. viewer' \in Viewer /\ viewer'.return = mode
        BY <3>2 DEF OpenAttachments, Viewer
      <4>2. mode = "Thread" => "thread" \in views
        BY DEF ViewMode
      <4>3. /\ mode' = "AttachmentViewer" /\ mode \in {"Normal", "Thread"} /\ viewer' # NoViewer
            /\ (viewer'.return = "Thread" => "thread" \in views')
        BY <3>1, <3>2, <4>1, <4>2, NothingAssumption DEF OpenAttachments
      <4>4. QED
        BY <1>1, <1>3, <1>10, <3>1, <4>3 DEF InViews, draftVars, settingVars, formVars, Modes, ViewMode
    <3>3. CASE AttachmentView
      <4>1. viewer' \in Viewer /\ viewer'.return = viewer.return
        BY <3>3 DEF AttachmentView, Viewer
      <4>2. QED
        BY <1>1, <1>3, <1>10, <3>1, <3>3, <4>1, NothingAssumption
         DEF AttachmentView, InViews, draftVars, settingVars, formVars
    <3>4. CASE AttachmentClose
      <4>1. CASE viewer # NoViewer /\ viewer.viewing
        <5>1. viewer' \in Viewer /\ viewer'.return = viewer.return /\ mode' = mode
          BY <3>4, <4>1 DEF AttachmentClose, Viewer
        <5>2. QED
          BY <1>1, <1>3, <1>10, <3>1, <5>1, NothingAssumption DEF InViews, draftVars, settingVars, formVars
      <4>2. CASE ~ (viewer # NoViewer /\ viewer.viewing)
        <5>1. mode' \in {"Normal", "Thread"} /\ (mode' = "Thread" => "thread" \in views) /\ mode = "AttachmentViewer"
          BY <3>4, <4>2 DEF AttachmentClose, Viewer
        <5>2. QED
          BY <1>1, <1>3, <1>10, <3>1, <5>1 DEF InViews, draftVars, settingVars, formVars, Modes, ViewMode
      <4>3. QED
        BY <4>1, <4>2
    <3>5. QED
      BY <2>14, <3>2, <3>3, <3>4
  <2>15. CASE Search \/ CloseInfo
    BY <1>1, <1>3, <1>10, <2>15
       DEF Search, CloseInfo, Only, InViews, draftVars, viewVars, settingVars, formVars, Modes, ViewMode
  <2>16. CASE CloseHelp \/ OpenMenu \/ CloseMenu
    <3>1. [col |-> 1, open |-> FALSE, item |-> 1] \in Menu
      BY DEF Menu
    <3>2. /\ menu' \in Menu \cup {NoMenu} /\ (mode' = "Menu") = (menu' # NoMenu)
          /\ menu' # NoMenu => ~ menu'.open
          /\ mode' \in {"Normal", "Menu"} /\ InMenu /\ causes' = causes
      <4>1. CASE CloseHelp
        BY <4>1 DEF CloseHelp, Only
      <4>2. CASE OpenMenu
        BY <3>1, <4>2, NothingAssumption DEF OpenMenu, Only
      <4>3. CASE CloseMenu
        BY <4>3 DEF CloseMenu, Only
      <4>4. QED
        BY <2>16, <4>1, <4>2, <4>3
    <3>3. QED
      BY <1>1, <1>3, <1>10, <3>2
         DEF InMenu, draftVars, viewVars, settingVars, formVars, Modes, ViewMode
  <2>17. CASE Select
    <3>1. PICK n \in {list.selected - 1, list.selected, list.selected + 1} :
            n >= 1 /\ list' = [selected |-> n, confirm |-> None]
      BY <2>17 DEF Select
    <3>2. list \in List
      BY <2>17 DEF Select, Managing
    <3>3. list' \in List
      BY <3>1, <3>2 DEF List
    <3>4. QED
      BY <1>1, <1>3, <1>10, <2>17, <3>3, NothingAssumption
         DEF Select, InAccounts, formVars, draftVars, settingVars
  <2>18. CASE EditSelected
    <3>1. form' # NoForm
      <4>1. PICK n \in DOMAIN shown : OpenEdit(shown[n])
        BY <2>18 DEF EditSelected
      <4>2. shown[n] \in Account
        BY ListsTyped
      <4>3. QED
        BY <4>1, <4>2, EditIs, NoFormIsNone DEF OpenEdit
    <3>2. windows' \in 0..session.windows /\ mode = "Accounts"
      BY <1>2, <2>18 DEF EditSelected, Window, Managing
    <3>3. QED
      BY <1>1, <1>3, <1>10, <2>18, <3>1, <3>2
         DEF EditSelected, InAccounts, draftVars, settingVars, Modes, ViewMode
  <2>19. CASE DeleteSelected
    <3>1. list' \in List
      BY <2>19, SendersAreShown DEF DeleteSelected, Managing, List
    <3>2. form' = form
      BY <2>19 DEF DeleteSelected, DeleteAccount, formVars
    <3>3. QED
      BY <1>1, <1>3, <1>10, <2>19, <3>1, <3>2, NothingAssumption
         DEF DeleteSelected, InAccounts, draftVars, settingVars
  <2>20. CASE AddFromList
    <3>1. form' # NoForm
      BY <2>20, FreshIs, NoFormIsNone DEF AddFromList, OpenFresh
    <3>2. windows' \in 0..session.windows /\ mode = "Accounts"
      BY <1>2, <2>20 DEF AddFromList, Window
    <3>3. QED
      BY <1>1, <1>3, <1>10, <2>20, <3>1, <3>2
         DEF AddFromList, InAccounts, draftVars, settingVars, Modes, ViewMode
  <2>21. CASE CloseAccounts
    BY <1>1, <1>3, <1>10, <2>21
       DEF CloseAccounts, Only, InAccounts, formVars, draftVars, settingVars, Modes, ViewMode
  <2>22. CASE Fill
    <3>1. form' # NoForm
      BY <2>22, FillInKeeps, NoFormIsNone DEF Fill
    <3>2. QED
      BY <1>1, <1>3, <1>10, <2>22, <3>1 DEF Fill, InForm, InAccounts, draftVars, settingVars
  <2>23. CASE SaveOnboarding \/ CancelOnboarding
    BY <1>1, <1>3, <1>10, <2>23
       DEF SaveOnboarding, CancelOnboarding, Only, InForm, InAccounts, draftVars, settingVars, Modes, ViewMode
  <2>24. CASE CommandKey
    BY <1>1, <1>3, <1>10, <2>24, CommandIs DEF CommandKey, draftVars, Modes, ViewMode
  <2>25. CASE HandleMenuKey
    <3>1. menu' \in Menu /\ (menu'.open => menu'.item \in DOMAIN MENUS[menu'.col])
      <4>1. menu \in Menu /\ menu.col \in 1..5 /\ menu.open \in BOOLEAN
            /\ (menu.open => menu.col = 1 /\ menu.item \in 1..3)
        BY <2>25, MenusAre DEF HandleMenuKey, Browsing, Menu
      <4>2. ASSUME NEW col \in 1..5, MenuTurn(col)
            PROVE  menu' \in Menu /\ (menu'.open => menu'.item \in DOMAIN MENUS[menu'.col])
        <5>1. menu' = [col |-> col, open |-> menu.open /\ MENUS[col] # <<>>, item |-> 1]
          BY <4>2 DEF MenuTurn
        <5>2. menu' \in Menu /\ (menu'.open => MENUS[col] # <<>>) /\ menu'.col = col /\ menu'.item = 1
          BY <5>1 DEF Menu
        <5>3. QED
          BY <5>2, MenusAre
      <4>3. (menu.col % Len(MENUS)) + 1 \in 1..5 /\ ((menu.col + Len(MENUS) - 2) % Len(MENUS)) + 1 \in 1..5
        BY <4>1, MenusAre
      <4>4. ASSUME menu.open, menu' = [menu EXCEPT !.item = (@ % Len(MENUS[menu.col])) + 1]
            PROVE  menu' \in Menu /\ (menu'.open => menu'.item \in DOMAIN MENUS[menu'.col])
        <5>1. (menu.item % 3) + 1 \in 1..3 /\ menu.col = 1
          BY <4>1, <4>4
        <5>2. menu' = [menu EXCEPT !.item = (@ % 3) + 1]
          BY <4>4, <5>1, MenusAre
        <5>3. menu' \in Menu /\ menu'.col = 1 /\ menu'.item \in 1..3
          BY <4>1, <5>1, <5>2 DEF Menu
        <5>4. QED
          BY <5>3, MenusAre
      <4>5. ASSUME menu.open, menu' = IF menu.item = 1 THEN [menu EXCEPT !.open = FALSE]
                                                       ELSE [menu EXCEPT !.item = @ - 1]
            PROVE  menu' \in Menu /\ (menu'.open => menu'.item \in DOMAIN MENUS[menu'.col])
        <5>1. menu.col = 1 /\ menu.item \in 1..3
          BY <4>1, <4>5
        <5>2. CASE menu.item = 1
          BY <4>1, <4>5, <5>2 DEF Menu
        <5>3. CASE menu.item # 1
          <6>1. menu' = [menu EXCEPT !.item = @ - 1] /\ menu.item - 1 \in 1..3
            BY <4>5, <5>1, <5>3
          <6>2. menu' \in Menu /\ menu'.col = 1 /\ menu'.item \in 1..3
            BY <4>1, <5>1, <6>1 DEF Menu
          <6>3. QED
            BY <6>2, MenusAre
        <5>4. QED
          BY <5>2, <5>3
      <4>6. ASSUME Len(MENUS[menu.col]) > 0, menu' = [menu EXCEPT !.open = TRUE, !.item = 1]
            PROVE  menu' \in Menu /\ (menu'.open => menu'.item \in DOMAIN MENUS[menu'.col])
        <5>1. menu.col = 1
          BY <4>1, <4>6, MenusAre
        <5>2. menu' \in Menu /\ menu'.col = 1 /\ menu'.item = 1
          BY <4>1, <4>6, <5>1 DEF Menu
        <5>3. QED
          BY <5>2, MenusAre
      <4>7. QED
        BY <2>25, <4>2, <4>3, <4>4, <4>5, <4>6 DEF HandleMenuKey
    <3>2. mode' = mode /\ InMenu /\ UNCHANGED causes /\ mode = "Menu"
      BY <2>25 DEF HandleMenuKey, Browsing
    <3>3. QED
      BY <1>1, <1>3, <1>10, <3>1, <3>2, NothingAssumption
         DEF InMenu, draftVars, viewVars, settingVars, formVars
  <2>26. CASE RunMenu
    <3>1. PICK name : Command(name)
      BY <2>26 DEF RunMenu
    <3>2. QED
      BY <1>1, <1>3, <1>10, <2>26, <3>1, CommandIs DEF RunMenu, draftVars, Modes, ViewMode
  <2>27. QED
    BY <1>10, <2>1, <2>2, <2>3, <2>4, <2>5, <2>6, <2>7, <2>8, <2>9, <2>10, <2>11, <2>12, <2>13, <2>14,
       <2>15, <2>16, <2>17, <2>18, <2>19, <2>20, <2>21, <2>22, <2>23, <2>24, <2>25, <2>26 DEF Key
<1>11. QED
  BY <1>4, <1>5, <1>6, <1>7, <1>8, <1>9, <1>10 DEF Next

-----------------------------------------------------------------------------
(* Drafts and settings: first what the other windows do to them. *)

\* A step in another window: no draft is touched, and the one being written is
\* left only by a click on the menu bar over its picker.
Elsewhere ==
  /\ UNCHANGED draftVars
  /\ causes \subseteq causes'
  /\ mode' # mode => mode' \notin {"Compose", "FilePicker"}
  /\ mode \in {"Compose", "FilePicker"} => mode' = mode \/ "menu over picker" \in causes'
  /\ shown' = shown \/ mode = "Onboarding"

\* The same of the settings: their dialog is left with its preview recorded.
LookElsewhere ==
  /\ UNCHANGED <<settings, disk, look, drag>>
  /\ causes \subseteq causes'
  /\ mode = "Settings" /\ mode' # "Settings" => look.theme = settings.theme \/ "preview kept" \in causes'

InDrafts ==
  \/ mode = "Normal" /\ \E n \in DOMAIN shown, kind \in {"new", "reply", "forward"} :
                          InstallCompose(kind, shown[n].id)
  \/ TypeBody \/ SaveDraft \/ Send \/ CancelCompose
  \/ \E n \in DOMAIN shown : ChooseSender(n)
  \/ AddAttachment \/ FilePickerConfirm \/ FilePickerCancel
  \/ \E f \in Files : DropFile(f) \/ FilePickerToggle(f)
  \/ AiGenerateReply \/ AiReplyWithInstructions \/ CliEnds \/ Tick

InLook == Drag \/ SaveSettings \/ \E theme \in Themes : CycleTheme(theme)

LEMMA DraftsLeaveLook == TypeOK /\ InDrafts => LookElsewhere
<1> SUFFICES ASSUME TypeOK, InDrafts PROVE LookElsewhere
  OBVIOUS
<1> USE DEF settingVars, LookElsewhere
<1>1. ASSUME mode = "Normal", NEW n \in DOMAIN shown, NEW kind, InstallCompose(kind, shown[n].id)
      PROVE  LookElsewhere
  BY <1>1 DEF InstallCompose
<1>2. CASE TypeBody \/ SaveDraft \/ AiGenerateReply \/ AiReplyWithInstructions \/ CliEnds
            \/ (\E n \in DOMAIN shown : ChooseSender(n)) \/ (\E f \in Files : DropFile(f))
  BY <1>2 DEF TypeBody, SaveDraft, AiGenerateReply, AiReplyWithInstructions, CliEnds, ChooseSender, DropFile,
     InDraft
<1>3. CASE Send \/ CancelCompose
  BY <1>3 DEF Send, CancelCompose, CloseDraft, InDraft, Writing
<1>4. CASE AddAttachment \/ FilePickerConfirm \/ FilePickerCancel \/ \E f \in Files : FilePickerToggle(f)
  BY <1>4 DEF AddAttachment, FilePickerConfirm, FilePickerCancel, FilePickerToggle, Only, Writing
<1>5. CASE Tick
  BY <1>5 DEF Tick
<1>6. QED
  BY <1>1, <1>2, <1>3, <1>4, <1>5 DEF InDrafts

LEMMA LookLeavesDrafts == InLook => Elsewhere
<1> SUFFICES ASSUME InLook PROVE Elsewhere
  OBVIOUS
<1> USE DEF Elsewhere, formVars
<1>1. CASE Drag
  BY <1>1 DEF Drag, DividerHit, SaveLayoutPrefs, DragDivider, InSettings
<1>2. CASE SaveSettings
  BY <1>2 DEF SaveSettings, Only, InSettings
<1>3. CASE \E theme \in Themes : CycleTheme(theme)
  BY <1>3 DEF CycleTheme, InSettings
<1>4. QED
  BY <1>1, <1>2, <1>3 DEF InLook

LEMMA OtherSteps == TypeOK /\ [Next]_vars => InDrafts \/ InLook \/ (Elsewhere /\ LookElsewhere)
<1> SUFFICES ASSUME TypeOK, [Next]_vars, ~ InDrafts, ~ InLook PROVE Elsewhere /\ LookElsewhere
  OBVIOUS
<1> USE DEF Elsewhere, LookElsewhere
<1>1. CASE UNCHANGED vars
  BY <1>1 DEF vars, settingVars, formVars
<1>2. CASE MouseMenuDown
  <2>1. causes' = causes \cup Covered /\ mode \notin {"Compose", "Onboarding"}
    BY <1>2 DEF MouseMenuDown, Clickable
  <2>2. mode = "FilePicker" => "menu over picker" \in causes'
    BY <2>1 DEF Covered
  <2>3. mode = "Settings" => look.theme = settings.theme \/ "preview kept" \in causes'
    BY <2>1 DEF Covered, Previewed
  <2>4. ASSUME NEW name, Command(name) PROVE Elsewhere /\ LookElsewhere
    BY <2>1, <2>2, <2>3, <2>4, CommandIs
  <2>5. ASSUME InMenu, mode' \in {"Normal", "Menu"} PROVE Elsewhere /\ LookElsewhere
    BY <2>1, <2>2, <2>3, <2>5 DEF InMenu, settingVars, formVars
  <2>6. QED
    BY <1>2, <2>4, <2>5 DEF MouseMenuDown
<1>3. CASE Worker
  BY <1>3 DEF Worker, AddAnswered, InForm, InAccounts, settingVars
<1>4. CASE Key
  <2>1. CASE mode = "Normal" /\ UNCHANGED causes /\ \E name : Command(name)
    BY <2>1, CommandIs
  <2>2. CASE StartCompose
    <3>1. mode = "Normal" /\ UNCHANGED causes /\ Command("OpenOnboarding")
      BY <2>2 DEF StartCompose, InDrafts, Command
    <3>2. QED
      BY <2>1, <3>1
  <2>3. CASE CommandKey
    BY <2>1, <2>3 DEF CommandKey
  <2>4. CASE RunMenu
    <3>1. PICK name : Command(name)
      BY <2>4 DEF RunMenu
    <3>2. mode = "Menu" /\ UNCHANGED causes
      BY <2>4 DEF RunMenu, Browsing
    <3>3. QED
      BY <3>1, <3>2, CommandIs
  <2>5. CASE CancelSettings
    BY <2>5 DEF CancelSettings, Previewed, Only, InSettings, formVars
  <2>6. ASSUME NEW view \in DOMAIN ViewMode, OpenView(view, ViewMode[view]) \/ CloseView(view, ViewMode[view])
        PROVE  Elsewhere /\ LookElsewhere
    <3>1. ViewMode[view] \in {"Move", "Thread", "HtmlViewer"}
      BY DEF ViewMode
    <3>2. InViews /\ mode \in {"Normal", ViewMode[view]} /\ mode' \in {"Normal", ViewMode[view]}
      BY <2>6 DEF OpenView, CloseView, Only
    <3>3. QED
      BY <3>1, <3>2 DEF InViews, settingVars, formVars
  <2>7. CASE OpenAttachments \/ AttachmentView
    BY <2>7 DEF OpenAttachments, AttachmentView, InViews, settingVars, formVars
  <2>8. CASE AttachmentClose
    <3>1. mode = "AttachmentViewer" /\ mode' \in {"AttachmentViewer", "Normal", "Thread"} /\ InViews
      BY <2>8 DEF AttachmentClose, TypeOK, Viewer
    <3>2. QED
      BY <3>1 DEF InViews, settingVars, formVars
  <2>9. CASE Search \/ CloseInfo
    BY <2>9 DEF Search, CloseInfo, Only, InViews, settingVars, formVars
  <2>10. CASE CloseHelp \/ OpenMenu \/ CloseMenu \/ HandleMenuKey
    BY <2>10 DEF CloseHelp, OpenMenu, CloseMenu, HandleMenuKey, Only, InMenu, settingVars, formVars
  <2>11. CASE Select \/ EditSelected \/ AddFromList \/ CloseAccounts
    BY <2>11 DEF Select, EditSelected, AddFromList, CloseAccounts, Managing, OpenEdit, OpenFresh, Only,
       InAccounts, settingVars, formVars
  <2>12. CASE DeleteSelected
    BY <2>12 DEF DeleteSelected, DeleteAccount, InAccounts, settingVars, formVars
  <2>13. CASE Fill \/ SaveOnboarding \/ CancelOnboarding
    BY <2>13 DEF Fill, SaveOnboarding, CancelOnboarding, Only, InForm, InAccounts, settingVars
  <2>14. QED
    BY <1>4, <2>2, <2>3, <2>4, <2>5, <2>6, <2>7, <2>8, <2>9, <2>10, <2>11, <2>12, <2>13
       DEF Key, InDrafts, InLook
<1>5. QED
  BY <1>1, <1>2, <1>3, <1>4 DEF Next, InDrafts, InLook

LEMMA ElsewhereKeeps == TypeOK /\ DraftInv /\ Elsewhere => DraftInv'
<1> SUFFICES ASSUME TypeOK, DraftInv, Elsewhere PROVE DraftInv'
  OBVIOUS
<1> USE DEF Elsewhere, draftVars, DraftInv
<1>1. DraftsInReach'
  BY DEF DraftsInReach
<1>2. AnswersDue'
  BY DEF AnswersDue, Owed
<1>3. MailKept'
  BY DEF MailKept
<1>4. PickerFits'
  BY DEF PickerFits
<1>5. SenderShown'
  BY DEF SenderShown, DraftsInReach
<1>6. QED
  BY <1>1, <1>2, <1>3, <1>4, <1>5

\* An edit of the draft in place: what the picker, the AI and the sender know of it stays.
Edited ==
  /\ compose \in Draft /\ compose' \in Draft /\ mode = "Compose" /\ mode' = mode
  /\ UNCHANGED <<causes, shown>>
  /\ compose'.kind = compose.kind /\ compose.body \subseteq compose'.body
  /\ \/ compose'.from = compose.from /\ compose'.sender = compose.sender
     \/ compose'.from \in DOMAIN shown /\ compose'.sender = shown[compose'.from].id
  /\ \/ UNCHANGED ai /\ compose'.asked = compose.asked /\ compose'.answered = compose.answered
     \/ /\ ~ ai.busy /\ ai' = [busy |-> TRUE, ready |-> FALSE]
        /\ compose'.asked = compose.asked + 1 /\ compose'.answered = compose.answered

LEMMA EditingKeeps == TypeOK /\ DraftInv /\ Edited => DraftInv'
<1> SUFFICES ASSUME TypeOK, DraftInv, Edited PROVE DraftInv'
  OBVIOUS
<1> USE DEF Edited, DraftInv
<1>1. compose # NoDraft /\ compose' # NoDraft
  BY NothingAssumption
<1>2. DraftsInReach'
  BY DEF DraftsInReach
<1>3. AnswersDue'
  <2>1. compose.asked \in 0..1 /\ compose.answered \in Nat
    BY DEF Draft
  <2>2. CASE UNCHANGED ai /\ compose'.asked = compose.asked /\ compose'.answered = compose.answered
    BY <1>1, <2>2 DEF AnswersDue, Owed
  <2>3. CASE /\ ~ ai.busy /\ ai' = [busy |-> TRUE, ready |-> FALSE]
             /\ compose'.asked = compose.asked + 1 /\ compose'.answered = compose.answered
    <3>1. ai'.busy /\ ~ ai'.ready /\ Owed = 0 /\ Owed' = 1
      BY <2>3 DEF Owed
    <3>2. ASSUME "closed while generating" \notin causes PROVE compose'.answered + Owed' <= compose'.asked
      <4>1. compose.answered + 0 <= compose.asked
        BY <1>1, <3>1, <3>2 DEF AnswersDue
      <4>2. compose.answered + 1 <= compose.asked + 1
        BY <2>1, <4>1
      <4>3. QED
        BY <2>3, <3>1, <4>2
    <3>3. QED
      BY <1>1, <3>1, <3>2 DEF AnswersDue
  <2>4. QED
    BY <2>2, <2>3
<1>4. MailKept'
  BY <1>1 DEF MailKept
<1>5. PickerFits'
  BY DEF PickerFits
<1>6. SenderShown'
  BY <1>1 DEF SenderShown
<1>7. QED
  BY <1>2, <1>3, <1>4, <1>5, <1>6

LEMMA EditsInPlace ==
  ASSUME TypeOK,
         TypeBody \/ SaveDraft \/ AiGenerateReply \/ AiReplyWithInstructions
           \/ (\E n \in DOMAIN shown : ChooseSender(n)) \/ (\E f \in Files : DropFile(f))
  PROVE  Edited
<1>1. compose \in Draft /\ compose # NoDraft /\ mode = "Compose" /\ UNCHANGED <<mode, causes, shown>>
  BY DEF TypeOK, TypeBody, SaveDraft, AiGenerateReply, AiReplyWithInstructions, ChooseSender, DropFile,
     Writing, InstructionDialog, InDraft, formVars
<1> USE DEF Edited
<1>2. CASE TypeBody
  BY <1>1, <1>2, DraftSteps DEF TypeBody, Draft
<1>3. CASE SaveDraft
  <2>1. compose' \in Draft
    BY <1>1, <1>3, SendersAreShown DEF SaveDraft, SyncToDraft, Draft
  <2>2. QED
    BY <1>1, <1>3, <2>1 DEF SaveDraft, SyncToDraft, Draft
<1>4. ASSUME NEW n \in DOMAIN shown, ChooseSender(n) PROVE Edited
  <2>1. compose' = [compose EXCEPT !.from = n, !.sender = shown[n].id] /\ UNCHANGED ai
    BY <1>4 DEF ChooseSender
  <2>2. compose' \in Draft
    BY <1>1, <2>1, SendersAreShown DEF Draft
  <2>3. QED
    BY <1>1, <2>1, <2>2 DEF Draft
<1>5. ASSUME NEW f \in Files, DropFile(f) PROVE Edited
  BY <1>1, <1>5, DraftSteps DEF DropFile, Draft
<1>6. ASSUME NEW instructed, AskAi(instructed) PROVE Edited
  <2>1. compose' = [compose EXCEPT !.asked = @ + 1, !.dialog = FALSE] /\ compose.asked = 0 /\ ~ ai.busy
        /\ ai' = [busy |-> TRUE, ready |-> FALSE]
    BY <1>6 DEF AskAi, CanAsk
  <2>2. compose' \in Draft
    BY <1>1, <2>1, DraftSteps
  <2>3. QED
    BY <1>1, <2>1, <2>2 DEF Draft
<1>7. ASSUME NEW b \in BOOLEAN, compose' = [compose EXCEPT !.dialog = b], UNCHANGED ai PROVE Edited
  BY <1>1, <1>7, DraftSteps DEF Draft
<1>8. QED
  BY <1>2, <1>3, <1>4, <1>5, <1>6, <1>7 DEF AiGenerateReply, AiReplyWithInstructions

LEMMA OpeningKeeps ==
  ASSUME TypeOK, DraftInv, TypeOK', mode = "Normal", NEW n \in DOMAIN shown,
         NEW kind \in {"new", "reply", "forward"}, InstallCompose(kind, shown[n].id)
  PROVE  DraftInv'
<1> DEFINE id == shown[n].id
<1>1. id \in IdsOf(shown)
  BY DEF IdsOf
<1>2. compose' = NewDraft(kind, id) /\ mode' = "Compose" /\ causes' = causes \cup Forsaken
      /\ UNCHANGED <<picker, ai, shown>>
  BY DEF InstallCompose, formVars
<1>3. /\ compose'.kind = kind /\ compose'.from = IndexOf(id) /\ compose'.sender = id
      /\ compose'.asked = 0 /\ compose'.answered = 0
      /\ (kind # "new" => compose'.body = {"original"})
  BY <1>2 DEF NewDraft
<1>4. compose'.from \in DOMAIN shown /\ shown[compose'.from].id = id
  BY <1>1, <1>3, SendersAreShown
<1> HIDE DEF id
<1>5. AnswersDue'
  <2>1. ai.busy => "closed while generating" \in causes'
    BY <1>2 DEF Forsaken, DraftInv, AnswersDue
  <2>2. ai'.ready => ai'.busy
    BY <1>2 DEF DraftInv, AnswersDue
  <2>3. CASE ai.busy
    BY <2>1, <2>2, <2>3 DEF AnswersDue
  <2>4. CASE ~ ai.busy
    <3>1. ~ ai'.busy /\ Owed' = 0
      BY <1>2, <2>4 DEF Owed
    <3>2. compose'.answered + Owed' <= compose'.asked
      BY <1>3, <3>1
    <3>3. QED
      BY <2>2, <3>1, <3>2 DEF AnswersDue
  <2>5. QED
    BY <2>3, <2>4
<1>6. DraftsInReach' /\ PickerFits'
  BY <1>2 DEF DraftsInReach, PickerFits
<1>7. MailKept'
  BY <1>3 DEF MailKept
<1>8. SenderShown'
  BY <1>2, <1>3, <1>4 DEF SenderShown
<1>9. QED
  BY <1>5, <1>6, <1>7, <1>8 DEF DraftInv

LEMMA ClosingKeeps == TypeOK /\ DraftInv /\ (Send \/ CancelCompose) => DraftInv'
<1> SUFFICES ASSUME TypeOK, DraftInv, Send \/ CancelCompose PROVE DraftInv'
  OBVIOUS
<1>1. compose # NoDraft /\ compose' = NoDraft /\ mode' = "Normal" /\ causes' = causes \cup Forsaken /\ ai' = ai
  BY DEF Send, CancelCompose, CloseDraft, Writing
<1>2. AnswersDue'
  BY <1>1 DEF DraftInv, AnswersDue, Forsaken
<1>3. QED
  BY <1>1, <1>2 DEF DraftInv, DraftsInReach, MailKept, PickerFits, SenderShown

\* A confirmed picker leaves what it was opened with, but for what was toggled.
LEMMA PickedAsChosen ==
  TypeOK /\ ModeHasState /\ DraftInv =>
    (FilePickerConfirm /\ "attached under picker" \notin causes =>
       compose'.files = SymDiff(compose.files, picker.toggled))
<1> SUFFICES ASSUME TypeOK, ModeHasState, DraftInv, FilePickerConfirm, "attached under picker" \notin causes
             PROVE  compose'.files = SymDiff(compose.files, picker.toggled)
  OBVIOUS
<1>1. mode = "FilePicker" /\ compose # NoDraft /\ compose \in Draft
      /\ compose' = [compose EXCEPT !.files = picker.picked]
  BY DEF FilePickerConfirm, Only, ModeHasState, TypeOK
<1>2. compose'.files = picker.picked
  BY <1>1 DEF Draft
<1>3. QED
  BY <1>1, <1>2 DEF DraftInv, PickerFits

LEMMA PickingKeeps ==
  ASSUME TypeOK, ModeHasState, DraftInv,
         AddAttachment \/ FilePickerConfirm \/ FilePickerCancel \/ \E f \in Files : FilePickerToggle(f)
  PROVE  DraftInv'
<1>1. UNCHANGED <<ai, shown, causes>> /\ mode' \in {"Compose", "FilePicker"}
      /\ mode \in {"Compose", "FilePicker"}
  BY DEF AddAttachment, FilePickerConfirm, FilePickerCancel, FilePickerToggle, Only, Writing, formVars
<1>2. /\ compose \in Draft /\ compose # NoDraft /\ compose' \in Draft
      /\ compose'.kind = compose.kind /\ compose'.body = compose.body /\ compose'.from = compose.from
      /\ compose'.sender = compose.sender /\ compose'.asked = compose.asked
      /\ compose'.answered = compose.answered
  <2>1. compose \in Draft /\ compose # NoDraft
    BY <1>1 DEF ModeHasState, TypeOK
  <2>2. CASE FilePickerConfirm
    <3>1. compose' = [compose EXCEPT !.files = picker.picked] /\ picker.picked \in SUBSET Files
      BY <2>1, <2>2 DEF FilePickerConfirm, TypeOK, Picker
    <3>2. QED
      BY <2>1, <3>1, DraftSteps DEF Draft
  <2>3. CASE compose' = compose
    BY <2>1, <2>3
  <2>4. QED
    BY <2>2, <2>3 DEF AddAttachment, FilePickerCancel, FilePickerToggle
<1>3. PickerFits'
  <2>1. CASE AddAttachment
    <3>1. picker' = [picked |-> compose.files, toggled |-> {}] /\ compose' = compose
      BY <2>1 DEF AddAttachment
    <3>2. picker'.picked = SymDiff(compose.files, picker'.toggled)
      BY <3>1 DEF SymDiff
    <3>3. QED
      BY <3>1, <3>2 DEF PickerFits
  <2>2. CASE FilePickerConfirm \/ FilePickerCancel
    BY <2>2 DEF FilePickerConfirm, FilePickerCancel, Only, PickerFits
  <2>3. ASSUME NEW f \in Files, FilePickerToggle(f) PROVE PickerFits'
    <3>1. /\ picker' = [picked |-> SymDiff(picker.picked, {f}), toggled |-> SymDiff(picker.toggled, {f})]
          /\ mode = "FilePicker" /\ compose' = compose
      BY <2>3 DEF FilePickerToggle
    <3>2. SymDiff(SymDiff(compose.files, picker.toggled), {f}) = SymDiff(compose.files, SymDiff(picker.toggled, {f}))
      BY DEF SymDiff
    <3>3. QED
      BY <1>1, <3>1, <3>2 DEF PickerFits, DraftInv
  <2>4. QED
    BY <2>1, <2>2, <2>3
<1>4. DraftsInReach'
  BY <1>1 DEF DraftsInReach
<1>5. AnswersDue'
  BY <1>1, <1>2, NothingAssumption DEF AnswersDue, Owed, DraftInv
<1>6. MailKept'
  BY <1>1, <1>2, NothingAssumption DEF MailKept, DraftInv
<1>7. SenderShown'
  BY <1>1, <1>2, NothingAssumption DEF SenderShown, DraftInv
<1>8. QED
  BY <1>3, <1>4, <1>5, <1>6, <1>7 DEF DraftInv

LEMMA AnswerKeeps == TypeOK /\ DraftInv /\ TypeOK' /\ (CliEnds \/ Tick) => DraftInv'
<1> SUFFICES ASSUME TypeOK, DraftInv, TypeOK', CliEnds \/ Tick PROVE DraftInv'
  OBVIOUS
<1>1. mode' = mode /\ picker' = picker /\ causes \subseteq causes'
  BY DEF CliEnds, Tick, InDraft
<1>2. shown' # shown /\ compose # NoDraft => "list changed" \in causes'
  BY DEF CliEnds, Tick, InDraft, Mishaps, formVars
<1>3. CASE compose' = compose
  <2>1. ai' = ai \/ (ai.busy /\ ai' = [ai EXCEPT !.ready = TRUE]) \/ ai' = [busy |-> FALSE, ready |-> FALSE]
    BY DEF CliEnds, Tick, PollAi
  <2>2. (ai'.ready => ai'.busy) /\ (ai'.busy => ai.busy)
    <3>1. ai \in Ai /\ (ai.ready => ai.busy)
      BY DEF TypeOK, DraftInv, AnswersDue
    <3>2. CASE ai' = ai
      BY <3>1, <3>2
    <3>3. CASE ai.busy /\ ai' = [ai EXCEPT !.ready = TRUE]
      BY <3>1, <3>3 DEF Ai
    <3>4. CASE ai' = [busy |-> FALSE, ready |-> FALSE]
      BY <3>4
    <3>5. QED
      BY <2>1, <3>2, <3>3, <3>4
  <2>3. AnswersDue'
    <3>1. Owed \in {0, 1} /\ Owed' \in {0, 1} /\ Owed' <= Owed
      BY <2>2 DEF Owed
    <3>2. compose # NoDraft => compose.answered \in Nat /\ compose.asked \in Nat
      BY DEF TypeOK, Draft
    <3>3. ASSUME "closed while generating" \notin causes', compose # NoDraft
          PROVE  compose.answered + Owed' <= compose.asked
      <4>1. compose.answered + Owed <= compose.asked
        BY <1>1, <3>3 DEF DraftInv, AnswersDue
      <4>2. compose.answered \in Nat /\ compose.asked \in Nat
        BY <3>2, <3>3
      <4>3. CASE Owed' = 0
        BY <3>1, <4>1, <4>2, <4>3
      <4>4. CASE Owed' = 1 /\ Owed = 1
        BY <4>1, <4>4
      <4>5. QED
        BY <3>1, <4>3, <4>4
    <3>4. ASSUME "closed while generating" \notin causes', compose = NoDraft PROVE ~ ai'.busy
      BY <1>1, <2>2, <3>4 DEF DraftInv, AnswersDue
    <3>5. QED
      BY <1>3, <2>2, <3>3, <3>4 DEF AnswersDue
  <2>4. DraftsInReach' /\ MailKept' /\ PickerFits'
    BY <1>1, <1>3 DEF DraftInv, DraftsInReach, MailKept, PickerFits
  <2>5. SenderShown'
    BY <1>1, <1>2, <1>3 DEF DraftInv, SenderShown
  <2>6. QED
    BY <2>3, <2>4, <2>5 DEF DraftInv
<1>4. CASE compose' # compose
  <2>1. PICK files \in SUBSET Files : compose' = Insert(compose, files)
    BY <1>4 DEF CliEnds, Tick, PollAi, InDraft
  <2>2. compose # NoDraft /\ compose \in Draft /\ ai.ready /\ ai' = [busy |-> FALSE, ready |-> FALSE]
    BY <1>4 DEF CliEnds, Tick, PollAi, InDraft, TypeOK
  <2>3. /\ compose'.kind = compose.kind /\ compose'.from = compose.from /\ compose'.sender = compose.sender
        /\ compose'.asked = compose.asked /\ compose'.answered = compose.answered + 1
        /\ compose'.body = {"ai"} \cup Quote(compose) /\ compose' \in Draft
    BY <2>1, <2>2, DraftSteps DEF Insert, Draft
  <2>4. /\ compose.kind = "forward" => "forward answered" \in causes'
        /\ mode = "FilePicker" => "attached under picker" \in causes'
    BY <1>4 DEF CliEnds, Tick, InDraft, Mishaps
  <2>5. compose' # NoDraft
    BY <2>3, NothingAssumption
  <2>6. AnswersDue'
    <3>1. Owed = 1 /\ Owed' = 0 /\ ~ ai'.busy /\ ~ ai'.ready
      BY <2>2 DEF DraftInv, AnswersDue, Owed
    <3>2. ASSUME "closed while generating" \notin causes' PROVE compose'.answered + Owed' <= compose'.asked
      <4>1. compose.answered + 1 <= compose.asked
        BY <1>1, <2>2, <3>1, <3>2 DEF DraftInv, AnswersDue
      <4>2. compose.answered \in Nat
        BY <2>2 DEF Draft
      <4>3. QED
        BY <2>3, <3>1, <4>1, <4>2
    <3>3. QED
      BY <2>5, <3>1, <3>2 DEF AnswersDue
  <2>7. MailKept'
    BY <1>1, <2>2, <2>3, <2>4 DEF DraftInv, MailKept, Quote, Draft
  <2>8. DraftsInReach' /\ PickerFits'
    BY <1>1, <2>2, <2>4 DEF DraftInv, DraftsInReach, PickerFits
  <2>9. SenderShown'
    BY <1>1, <1>2, <2>2, <2>3 DEF DraftInv, SenderShown
  <2>10. QED
    BY <2>6, <2>7, <2>8, <2>9 DEF DraftInv
<1>5. QED
  BY <1>3, <1>4

LEMMA DraftInvStays == IInv /\ [Next]_vars => DraftInv'
<1> SUFFICES ASSUME IInv, [Next]_vars PROVE DraftInv'
  OBVIOUS
<1>1. TypeOK /\ TypeOK' /\ ModeHasState /\ DraftInv
  BY WindowsStay DEF IInv
<1>2. CASE Elsewhere
  BY <1>1, <1>2, ElsewhereKeeps
<1>3. CASE InDrafts
  BY <1>1, <1>3, OpeningKeeps, EditsInPlace, EditingKeeps, ClosingKeeps, PickingKeeps, AnswerKeeps DEF InDrafts
<1>4. QED
  BY <1>1, <1>2, <1>3, OtherSteps, LookLeavesDrafts

LEMMA LookInvStays == IInv /\ [Next]_vars => LookInv'
<1> SUFFICES ASSUME IInv, [Next]_vars PROVE LookInv'
  OBVIOUS
<1>1. TypeOK /\ ModeHasState /\ LookInv
  BY DEF IInv
<1>2. settings \in Settings /\ look \in Settings
  BY <1>1 DEF TypeOK
<1> USE DEF LookInv
<1>3. CASE LookElsewhere
  BY <1>1, <1>3 DEF LookElsewhere
<1>4. CASE InLook
  <2>1. CASE DividerHit
    BY <1>1, <2>1 DEF DividerHit
  <2>2. CASE SaveLayoutPrefs
    <3>1. settings' = [settings EXCEPT !.panes = look.panes] /\ disk' = settings' /\ look' = look
          /\ UNCHANGED <<mode, causes>>
      BY <2>2 DEF SaveLayoutPrefs
    <3>2. settings'.panes = look.panes /\ settings'.theme = settings.theme
      BY <1>2, <3>1 DEF Settings
    <3>3. QED
      BY <1>1, <3>1, <3>2
  <2>3. ASSUME NEW panes \in Panes, DragDivider(panes) PROVE LookInv'
    <3>1. look' = [look EXCEPT !.panes = panes] /\ drag /\ UNCHANGED <<mode, causes, settings, disk, drag>>
      BY <2>3 DEF DragDivider
    <3>2. look'.theme = look.theme
      BY <1>2, <3>1 DEF Settings
    <3>3. QED
      BY <1>1, <3>1, <3>2
  <2>4. CASE SaveSettings
    BY <1>1, <2>4 DEF SaveSettings
  <2>5. ASSUME NEW theme \in Themes, CycleTheme(theme) PROVE LookInv'
    <3>1. look' = [look EXCEPT !.theme = theme] /\ mode = "Settings"
          /\ UNCHANGED <<mode, causes, settings, disk, drag>>
      BY <2>5 DEF CycleTheme
    <3>2. look'.panes = look.panes
      BY <1>2, <3>1 DEF Settings
    <3>3. QED
      BY <1>1, <3>1, <3>2
  <2>6. QED
    BY <1>4, <2>1, <2>2, <2>3, <2>4, <2>5 DEF InLook, Drag
<1>5. QED
  BY <1>1, <1>3, <1>4, OtherSteps, DraftsLeaveLook DEF IInv

-----------------------------------------------------------------------------
(* The theorems. *)

LEMMA IInvStarts == Init => IInv
<1> SUFFICES ASSUME Init PROVE IInv
  OBVIOUS
<1>1. FormInv
  BY FormInvStarts
<1>2. session \in Sessions /\ session.windows \in Nat \ {0} /\ MaxCovers \in Nat
  BY TuiAssumption DEF Init
<1>3. /\ known = <<>> => mode = "Onboarding" /\ windows = 1 /\ form = FreshForm
      /\ known # <<>> => mode = "Normal" /\ windows = 0
  BY DEF Init, FormInit
<1>4. /\ menu = NoMenu /\ quit = FALSE /\ covers = 0 /\ causes = {} /\ compose = NoDraft /\ picker = NoPicker
      /\ ai = [busy |-> FALSE, ready |-> FALSE] /\ viewer = NoViewer /\ views = {} /\ list = NoList
      /\ disk = settings /\ look = settings /\ draft = NoSettings /\ drag = FALSE
  BY DEF Init
<1>5. settings \in Settings
  <2>1. (CHOOSE t \in Themes : TRUE) \in Themes /\ (CHOOSE p \in Panes : TRUE) \in Panes
    BY TuiAssumption
  <2>2. QED
    BY <2>1 DEF Init, Settings
<1>6. mode \in {"Normal", "Onboarding"} /\ windows \in 0..session.windows
  BY <1>2, <1>3
<1>7. TypeOK
  <2>1. FormTypeOK
    BY <1>1 DEF FormInv
  <2>2. ai \in Ai /\ mode \in Modes /\ causes \subseteq Causes /\ covers \in 0..MaxCovers
    BY <1>2, <1>4, <1>6 DEF Ai, Modes
  <2>3. disk \in Settings /\ look \in Settings /\ draft \in Settings \cup {NoSettings}
    BY <1>4, <1>5
  <2>4. QED
    BY <1>2, <1>4, <1>5, <1>6, <2>1, <2>2, <2>3 DEF TypeOK
<1>8. ModeHasState
  <2>1. mode = "Onboarding" => form # NoForm
    BY <1>3, FreshIs, NoFormIsNone
  <2>2. QED
    BY <1>4, <1>6, <2>1 DEF ModeHasState, ViewMode
<1>9. DraftInv /\ LookInv
  BY <1>4, <1>6 DEF DraftInv, DraftsInReach, AnswersDue, MailKept, PickerFits, SenderShown, LookInv
<1>10. QED
  BY <1>1, <1>7, <1>8, <1>9 DEF IInv

LEMMA IInvStays == IInv /\ [Next]_vars => IInv'
<1>1. IInv /\ [Next]_vars => TypeOK' /\ ModeHasState'
  BY WindowsStay DEF IInv
<1>2. IInv /\ [Next]_vars => FormInv'
  BY FormSteps, FormInvStays DEF IInv
<1>3. QED
  BY <1>1, <1>2, DraftInvStays, LookInvStays DEF IInv

LEMMA AtMost ==
  ASSUME NEW n \in Nat, NEW k \in 0..1, NEW d \in {0, 1}, n + d <= k
  PROVE  n <= k
OBVIOUS

LEMMA AnswersInTime == TypeOK /\ AnswersDue => AnsweredWhereAsked
<1> SUFFICES ASSUME TypeOK, AnswersDue, compose # NoDraft, "closed while generating" \notin causes
             PROVE  compose.answered <= compose.asked
  BY DEF AnsweredWhereAsked
<1>1. compose.answered \in Nat /\ compose.asked \in 0..1
  BY DEF TypeOK, Draft
<1>2. compose.answered + Owed <= compose.asked
  BY DEF AnswersDue
<1>3. Owed \in {0, 1}
  BY DEF Owed
<1>4. QED
  BY <1>1, <1>2, <1>3, AtMost

LEMMA IInvGives ==
  IInv => /\ TypeOK /\ ModeHasState /\ DraftsInReach /\ AnsweredWhereAsked /\ MailKept /\ SentAsSeen
          /\ SettingsAgree /\ TypedStays /\ CodeIsExchanged /\ FormInv
<1> SUFFICES ASSUME IInv
             PROVE  /\ TypeOK /\ ModeHasState /\ DraftsInReach /\ AnsweredWhereAsked /\ MailKept /\ SentAsSeen
                    /\ SettingsAgree /\ TypedStays /\ CodeIsExchanged /\ FormInv
  OBVIOUS
<1> USE DEF IInv, DraftInv
<1>1. AnsweredWhereAsked
  BY AnswersInTime
<1>2. SentAsSeen
  <2> SUFFICES ASSUME compose # NoDraft, causes \cap {"list changed", "menu over picker"} = {}
               PROVE  SyncToDraft(compose).account = compose.sender
    BY DEF SentAsSeen
  <2>1. compose \in Draft /\ compose.from \in DOMAIN shown /\ shown[compose.from].id = compose.sender
    BY DEF SenderShown, TypeOK
  <2>2. QED
    BY <2>1 DEF SyncToDraft, Draft
<1>3. SettingsAgree
  <2>1. disk = settings /\ look \in Settings /\ settings \in Settings
    BY DEF LookInv, TypeOK
  <2>2. ASSUME mode # "Settings", ~ drag, "preview kept" \notin causes PROVE look = settings
    <3>1. look.theme = settings.theme /\ look.panes = settings.panes
      BY <2>2 DEF LookInv
    <3>2. QED
      BY <2>1, <3>1 DEF Settings
  <2>3. QED
    BY <2>1, <2>2 DEF SettingsAgree
<1>4. QED
  BY <1>1, <1>2, <1>3 DEF FormInv

LEMMA TuiInvariant == Spec => []IInv
BY IInvStarts, IInvStays, PTL DEF Spec

\* Every variable keeps its type through every key, click and tick.
THEOREM TuiTypes == Spec => []TypeOK
BY TuiInvariant, IInvGives, PTL

\* No order of keys, clicks and ticks leads into a mode whose window is not there.
THEOREM ModesHaveTheirWindows == Spec => []ModeHasState
BY TuiInvariant, IInvGives, PTL

\* A draft is out of reach only where a menu was clicked over its file picker.
THEOREM DraftsStayInReach == Spec => []DraftsInReach
BY TuiInvariant, IInvGives, PTL

\* The AI answers a request once and in its draft, unless that was closed meanwhile.
THEOREM AnswersFindTheirDraft == Spec => []AnsweredWhereAsked
BY TuiInvariant, IInvGives, PTL

\* A reply keeps the mail it quotes and a forward the one it encloses, but for a
\* forward the AI has answered.
THEOREM TheMailIsKept == Spec => []MailKept
BY TuiInvariant, IInvGives, PTL

\* A draft is sent from the account its window shows, while the account list stays.
THEOREM SendersAreAsShown == Spec => []SentAsSeen
BY TuiInvariant, IInvGives, PTL

\* The settings in force are those on disk and on the screen, but for a preview
\* that was left.
THEOREM SettingsStayInForce == Spec => []SettingsAgree
BY TuiInvariant, IInvGives, PTL

\* No preset and no change of protocol overwrites what the user has typed.
THEOREM TypingIsKept == Spec => []TypedStays
BY TuiInvariant, IInvGives, PTL

\* An account that signs in with OAuth2 has had its code exchanged, but for the
\* flaws recorded.
THEOREM CodesAreExchanged == Spec => []CodeIsExchanged
BY TuiInvariant, IInvGives, PTL

\* A confirmed picker gives the draft the files it had, but for those toggled.
THEOREM PickerDoesAsToggled == Spec => FilesAsChosen
<1>1. IInv => (FilePickerConfirm /\ "attached under picker" \notin causes =>
                 compose'.files = SymDiff(compose.files, picker.toggled))
  BY PickedAsChosen DEF IInv
<1>2. QED
  BY <1>1, TuiInvariant, PTL DEF FilesAsChosen

\* A form saves the account it was opened for, in what the user has touched, and
\* leaves the others alone.
THEOREM FormsSaveTheirAccount == Spec => SavesWhatItWasOpenedFor
<1>1. IInv =>
        (SaveForm /\ editId = form.for /\ ~ form.stale =>
           \A n \in DOMAIN known :
             /\ known'[n].id = known[n].id
             /\ known[n].id # form.for => known'[n] = known[n]
             /\ known[n].id = form.for /\ known[n].config.client = None =>
                  \A f \in Untouched(n) : known'[n].config[f] = known[n].config[f])
  BY SavedAsOpened DEF IInv
<1>2. QED
  BY <1>1, TuiInvariant, PTL DEF SavesWhatItWasOpenedFor
=====================================
