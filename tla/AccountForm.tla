----------------------------- MODULE AccountForm -----------------------------
(***************************************************************************)
(* The form an account is added or edited with: OnboardingState             *)
(* (imt-tui/app.rs), the presets for known mail providers, and what the     *)
(* data source (imt/datasource.rs) makes of a form that is saved.           *)
(*                                                                          *)
(* A field holds where its value comes from: "" nowhere, "993" and "995"    *)
(* the protocol, "default", "preset" the provider, "own" the user.  The     *)
(* display name, the user name and the password have no rule, and are left  *)
(* out.                                                                     *)
(***************************************************************************)
EXTENDS Naturals, Sequences, FiniteSets

CONSTANTS
  Ids,        \* account ids
  Clients,    \* OAuth client ids
  None,
  MaxTouches  \* bound: fields touched in one form

ASSUME FormAssumption == None \notin Ids \cup Clients /\ MaxTouches \in Nat

VARIABLES
  known,     \* the accounts of the snapshot, in order
  shown,     \* the TUI's copy of them
  adding,    \* the ids whose AddAccount the worker has not carried out
  form,      \* onboarding: the form, while it is open
  editId,    \* onboarding_edit_id
  used,      \* history: the ids handed out, each only once
  flaws      \* history: why an account may be without a token

formVars == <<known, shown, adding, form, editId, used, flaws>>

\* Which of the two flags keeps a preset off a field.
Server == [host |-> "imap", port |-> "imap", tls |-> "imap",
           smtpHost |-> "smtp", smtpPort |-> "smtp", smtpTls |-> "smtp"]

Config == [email : {"", "known", "other"}, proto : {"imap", "pop3"},
           host : {"", "preset", "own"}, port : {"993", "995", "preset", "own"},
           tls : {"default", "preset", "own"}, smtpHost : {"", "preset", "own"},
           smtpPort : {"default", "preset", "own"}, smtpTls : {"default", "preset", "own"},
           client : Clients \cup {None}, keep : BOOLEAN]

Account == [id : Ids, config : Config, redeemed : BOOLEAN]

Form == [config : Config, oauth : BOOLEAN, edited : SUBSET {"imap", "smtp"},
         domain : {"", "known", "other"}, url : Clients \cup {None}, code : BOOLEAN,
         touched : SUBSET (DOMAIN Server \cup {"email", "proto", "client", "keep"}),
         for : Ids \cup {None}, stale : BOOLEAN]

NoForm == [for |-> "no form"]

Defaults == [email |-> "", proto |-> "imap", host |-> "", port |-> "993", tls |-> "default",
             smtpHost |-> "", smtpPort |-> "default", smtpTls |-> "default",
             client |-> None, keep |-> TRUE]

FreshForm ==
  [config |-> Defaults, oauth |-> FALSE, edited |-> {}, domain |-> "", url |-> None,
   code |-> FALSE, touched |-> {}, for |-> None, stale |-> FALSE]

IdsOf(list) == {list[n].id : n \in DOMAIN list}

Position(list, id) == CHOOSE n \in DOMAIN list : list[n].id = id

\* The TUI's copy of an account differs from the account.
Stale(a) ==
  \E n \in DOMAIN known : known[n].id = a.id /\ known[n].config # a.config

\* Slip: keep_on_server is left at its default.
EditFormSlip(a) ==
  [FreshForm EXCEPT !.config = [a.config EXCEPT !.client = None, !.keep = TRUE],
                    !.edited = {"imap", "smtp"}, !.for = a.id, !.stale = Stale(a)]

\* The form says password, whatever the account uses.
EditForm(a) ==
  [FreshForm EXCEPT !.config = [a.config EXCEPT !.client = None],
                    !.edited = {"imap", "smtp"}, !.for = a.id, !.stale = Stale(a)]

-----------------------------------------------------------------------------
(* Keys and clicks in the form. *)

CanTouch(f) == f \in form.touched \/ Cardinality(form.touched) < MaxTouches

Type(f) ==
  form' = [form EXCEPT !.config[f] = "own", !.touched = @ \cup {f}, !.edited = @ \cup {Server[f]}]

CycleTls(f) ==
  form' = [form EXCEPT !.config[f] = "own", !.touched = @ \cup {f}, !.edited = @ \cup {Server[f]}]

Preset(config, edited) ==
  [f \in DOMAIN config |->
     IF f \in DOMAIN Server /\ ~ (Server[f] \in edited) THEN "preset" ELSE config[f]]

\* maybe_apply_preset: once for every new domain.
TypeEmail(domain) ==
  LET typed == [form.config EXCEPT !.email = domain] IN
  form' = [form EXCEPT
    !.config = IF domain = "known" /\ form.domain # domain THEN Preset(typed, form.edited) ELSE typed,
    !.domain = domain,
    !.touched = @ \cup {"email"}]

OtherProtocol(p) == IF p = "imap" THEN "pop3" ELSE "imap"

DefaultTlsPort(p) == IF p = "imap" THEN "993" ELSE "995"

\* Slip: the port follows the protocol whoever has set it.
ToggleProtocolSlip ==
  LET proto == OtherProtocol(form.config.proto) IN
  form' = [form EXCEPT
    !.config.proto = proto, !.config.port = DefaultTlsPort(proto), !.touched = @ \cup {"proto"}]

ToggleProtocol ==
  LET proto == OtherProtocol(form.config.proto) IN
  form' = [form EXCEPT
    !.config.proto = proto,
    !.config.port = IF "imap" \in form.edited THEN @ ELSE DefaultTlsPort(proto),
    !.touched = @ \cup {"proto"}]

ToggleKeep == form' = [form EXCEPT !.config.keep = ~ @, !.touched = @ \cup {"keep"}]

ToggleAuth == form' = [form EXCEPT !.oauth = ~ @, !.touched = @ \cup {"client"}]

TypeClient(c) ==
  /\ form.oauth
  /\ form' = [form EXCEPT !.config.client = c, !.touched = @ \cup {"client"}]

\* Tab onto the code field: URL and PKCE verifier are made once.
GenerateUrl ==
  /\ form.oauth /\ form.url = None /\ form.config.client # None
  /\ form' = [form EXCEPT !.url = form.config.client]

\* The user pastes what the page behind the URL has shown.
PasteCode == form.oauth /\ form.url # None /\ form' = [form EXCEPT !.code = TRUE]

FillIn ==
  /\ \/ \E f \in {"host", "port", "smtpHost", "smtpPort"} : CanTouch(f) /\ Type(f)
     \/ \E f \in {"tls", "smtpTls"} : CanTouch(f) /\ CycleTls(f)
     \/ CanTouch("email") /\ \E d \in {"known", "other"} : TypeEmail(d)
     \/ CanTouch("proto") /\ ToggleProtocol
     \/ CanTouch("keep") /\ ToggleKeep
     \/ CanTouch("client") /\ ToggleAuth
     \/ CanTouch("client") /\ \E c \in Clients : TypeClient(c)
     \/ GenerateUrl
     \/ PasteCode
  /\ UNCHANGED <<known, shown, adding, editId, used, flaws>>

-----------------------------------------------------------------------------
(* Ctrl-S: save_onboarding and the data source. *)

\* to_form; a port typed is a number that fits.
Valid ==
  /\ form.config.email # "" /\ form.config.host # "" /\ form.config.smtpHost # ""
  /\ form.oauth => form.config.client # None /\ form.code

IntoAccount(id, redeemed) ==
  [id |-> id, redeemed |-> redeemed,
   config |-> [form.config EXCEPT !.client = IF form.oauth THEN @ ELSE None]]

\* The code is not passed on, and the TUI keeps the copy it has.
UpdateAccount(id) ==
  /\ IF id \in IdsOf(known)
     THEN /\ known' = [known EXCEPT ![Position(known, id)] = IntoAccount(id, FALSE)]
          /\ flaws' = flaws \cup (IF form.oauth THEN {"oauth by edit"} ELSE {})
     ELSE UNCHANGED <<known, flaws>>
  /\ UNCHANGED <<shown, adding, used>>

\* Slip: the code is not passed on either.
AddAccountSlip(id) ==
  /\ known' = Append(known, IntoAccount(id, FALSE))
  /\ adding' = adding \cup {id} /\ used' = used \cup {id}
  /\ shown' = known'
  /\ UNCHANGED flaws

\* The provider takes a code from the client it was given to.
AddAccount(id) ==
  /\ known' = Append(known, IntoAccount(id, form.oauth /\ form.url = form.config.client))
  /\ flaws' = flaws \cup
       (IF form.oauth /\ form.url # form.config.client THEN {"client changed"} ELSE {})
  /\ adding' = adding \cup {id} /\ used' = used \cup {id}
  /\ shown' = known'

\* onboarding_edit_id is taken, then tells an update from an addition.
SaveForm ==
  /\ form # NoForm /\ Valid
  /\ \/ editId # None /\ UpdateAccount(editId)
     \/ editId = None /\ \E id \in Ids \ used : AddAccount(id)
  /\ editId' = None
  /\ form' = NoForm

-----------------------------------------------------------------------------
(* What opens and closes the form. *)

OpenFresh ==
  /\ form' = FreshForm
  /\ UNCHANGED <<known, shown, adding, editId, used, flaws>>

OpenEdit(a) ==
  /\ form' = EditForm(a)
  /\ editId' = a.id
  /\ UNCHANGED <<known, shown, adding, used, flaws>>

\* The edit id stays.
CancelForm ==
  /\ form' = NoForm
  /\ UNCHANGED <<known, shown, adding, editId, used, flaws>>

-----------------------------------------------------------------------------
(* The data source without the form. *)

\* An id stands in the list once.
Without(list, id) ==
  IF id \in IdsOf(list)
  THEN LET n == Position(list, id) IN SubSeq(list, 1, n - 1) \o SubSeq(list, n + 1, Len(list))
  ELSE list

DeleteAccount(id) ==
  /\ known' = Without(known, id)
  /\ UNCHANGED <<shown, adding, form, editId, used, flaws>>

\* command_worker: an account that could not be added leaves the snapshot.
AddAnswered(id) ==
  /\ id \in adding
  /\ adding' = adding \ {id}
  /\ known' \in {known, Without(known, id)}
  /\ UNCHANGED <<shown, form, editId, used, flaws>>

\* A tick takes the accounts over when their ids have changed, and only then.
TakeOver ==
  /\ shown' = IF [n \in DOMAIN known |-> known[n].id] # [n \in DOMAIN shown |-> shown[n].id]
              THEN known ELSE shown
  /\ UNCHANGED <<known, adding, form, editId, used, flaws>>

\* The accounts a program starts with have their tokens; without one it opens the form.
FormInit(accounts) ==
  /\ known \in accounts /\ shown = known
  /\ adding = {} /\ editId = None
  /\ form = IF known = <<>> THEN FreshForm ELSE NoForm
  /\ used = IdsOf(known) /\ flaws = {}

FormTypeOK ==
  /\ known \in Seq(Account) /\ shown \in Seq(Account) /\ adding \subseteq used /\ used \subseteq Ids
  /\ form \in Form \cup {NoForm} /\ editId \in Ids \cup {None}
  /\ flaws \subseteq {"oauth by edit", "client changed"}

-----------------------------------------------------------------------------
(* Properties. *)

\* What the user has typed stays as it was typed: neither a preset nor a change
\* of the protocol overwrites it, in whatever order the fields are filled in.
TypedStays ==
  form # NoForm => \A f \in form.touched \cap DOMAIN Server : form.config[f] = "own"

Untouched(n) == DOMAIN known[n].config \ form.touched

\* A form saves what it was opened for.  Saved after an edit it changes that
\* account and no other, and of its settings those the user has touched: where
\* the TUI's copy was not stale (after an earlier edit it is) and the account
\* does not use OAuth2 (the form forgets it).  A form opened fresh leaves the
\* accounts there are alone, where no edit was abandoned before (its id stays).
SavesWhatItWasOpenedFor ==
  [][SaveForm /\ editId = form.for /\ ~ form.stale =>
       \A n \in DOMAIN known :
         /\ known'[n].id = known[n].id
         /\ known[n].id # form.for => known'[n] = known[n]
         /\ known[n].id = form.for /\ known[n].config.client = None =>
              \A f \in Untouched(n) : known'[n].config[f] = known[n].config[f]]_formVars

\* An account that signs in with OAuth2 has had its code exchanged: unless an edit
\* made it one, or its client id was changed after the URL was made.
CodeIsExchanged ==
  flaws = {} => \A n \in DOMAIN known : known[n].config.client # None => known[n].redeemed
=============================================================================
