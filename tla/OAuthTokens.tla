----------------------------- MODULE OAuthTokens -----------------------------
(***************************************************************************)
(* The tokens of one OAuth2 account: the secrets kept on disk by            *)
(* imt-store/secrets.rs, ensure_fresh_tokens (imt-sync/password.rs), which  *)
(* the account's worker calls before it connects, and the token endpoint    *)
(* behind imt-net/oauth.rs.  The TUI and the MCP server are two processes,  *)
(* each with a worker of its own for the account, on the same secrets.      *)
(*                                                                          *)
(* A token is the number of its grant.  Time is the age of an access token: *)
(* "young" while its stored expiry is more than 60 seconds away, "closing"  *)
(* in the last 60 seconds, "dead" when the servers refuse it.               *)
(***************************************************************************)
EXTENDS Naturals

CONSTANTS
  Workers,   \* one worker of the account in each running process
  MaxGrant,  \* bound: grants the endpoint makes
  Lapses     \* bound: what may go wrong

ASSUME TokenAssumption ==
  /\ MaxGrant \in Nat \ {0}
  /\ Lapses \subseteq {"answer", "kill", "disk"}

VARIABLES
  age,       \* of each grant's access token
  accepted,  \* the refresh token the endpoint accepts
  secret,    \* oauth_access_token, _access_expiry, _refresh_token on disk
  step,      \* where each worker is in run_once
  hand,      \* the tokens it holds across awaits
  lapsed     \* history: what has broken the bookkeeping

tokenVars == <<age, accepted, secret, step, hand, lapsed>>

Grant == 1 .. MaxGrant
Token == 0 .. MaxGrant   \* 0: an empty file

Secret == [access : Token, expiry : Token, refresh : Token]

TokenTypeOK ==
  /\ age \in [Grant -> {"none", "young", "closing", "dead"}]
  /\ accepted \in Grant
  /\ secret \in Secret
  /\ step \in [Workers -> {"start", "post", "access", "expiry", "refresh", "connect", "session"}]
  /\ hand \in [Workers -> [access : Token, refresh : Token]]
  /\ lapsed \subseteq {"rotation lost", "torn", "store failed", "two at once"}

\* add_account has exchanged the code and stored the tokens.
TokenInit ==
  /\ age = [g \in Grant |-> IF g = 1 THEN "young" ELSE "none"]
  /\ accepted = 1
  /\ secret = [access |-> 1, expiry |-> 1, refresh |-> 1]
  /\ step = [w \in Workers |-> "start"]
  /\ hand = [w \in Workers |-> [access |-> 0, refresh |-> 0]]
  /\ lapsed = {}

StepTo(w, s) == step' = [step EXCEPT ![w] = s]

Young(t) == t # 0 /\ age[t] = "young"

NeedsRefresh == ~ Young(secret.expiry)

Live(t) == t # 0 /\ age[t] # "dead"

Storing(w) == step[w] \in {"access", "expiry", "refresh"}

Refreshing(w) == step[w] = "post" \/ Storing(w)

-----------------------------------------------------------------------------
(* run_once up to the connection. *)

EnsureFresh(w) ==
  /\ step[w] = "start"
  /\ \/ /\ ~ NeedsRefresh
        /\ StepTo(w, "connect")
        /\ UNCHANGED <<hand, lapsed>>
     \/ /\ NeedsRefresh
        /\ StepTo(w, "post")
        /\ hand' = [hand EXCEPT ![w] = [access |-> 0, refresh |-> secret.refresh]]
        /\ lapsed' = lapsed \cup
             (IF \E v \in Workers \ {w} : Refreshing(v) THEN {"two at once"} ELSE {})
  /\ UNCHANGED <<age, accepted, secret>>

\* The endpoint may rotate the refresh token; without a new one refresh() returns the old.
Refresh(w) ==
  /\ step[w] = "post" /\ hand[w].refresh = accepted
  /\ \E g \in Grant :
       /\ age[g] = "none" /\ \A k \in Grant : k < g => age[k] # "none"
       /\ age' = [age EXCEPT ![g] = "young"]
       /\ accepted' \in {accepted, g}
       /\ \/ /\ hand' = [hand EXCEPT ![w] = [access |-> g, refresh |-> accepted']]
             /\ StepTo(w, "access")
             /\ UNCHANGED lapsed
          \/ /\ "answer" \in Lapses
             /\ StepTo(w, "start") /\ UNCHANGED hand
             /\ lapsed' = lapsed \cup (IF accepted' # accepted THEN {"rotation lost"} ELSE {})
  /\ UNCHANGED secret

\* The endpoint refuses, or cannot be reached; the worker backs off and starts again.
RefreshFails(w) ==
  /\ step[w] = "post"
  /\ StepTo(w, "start")
  /\ UNCHANGED <<age, accepted, secret, hand, lapsed>>

\* secrets::store logs a failure and returns nothing.
Store(w, field, token, next) ==
  /\ \/ secret' = [secret EXCEPT ![field] = token] /\ UNCHANGED lapsed
     \/ /\ "disk" \in Lapses
        /\ UNCHANGED secret /\ lapsed' = lapsed \cup {"store failed"}
  /\ StepTo(w, next)
  /\ UNCHANGED <<age, accepted, hand>>

\* Slip: the expiry is stored before the token it is about.
StoreAccessSlip(w) == step[w] = "access" /\ Store(w, "expiry", hand[w].access, "expiry")

StoreAccess(w) == step[w] = "access" /\ Store(w, "access", hand[w].access, "expiry")
StoreExpiry(w) == step[w] = "expiry" /\ Store(w, "expiry", hand[w].access, "refresh")

\* Slip: a rotated refresh token is not kept.
StoreRefreshSlip(w) == step[w] = "refresh" /\ Store(w, "refresh", secret.refresh, "connect")

StoreRefresh(w) == step[w] = "refresh" /\ Store(w, "refresh", hand[w].refresh, "connect")

Authenticate(w) ==
  /\ step[w] = "connect"
  /\ StepTo(w, IF Live(secret.access) THEN "session" ELSE "start")
  /\ UNCHANGED <<age, accepted, secret, hand, lapsed>>

ConnectFails(w) ==
  /\ step[w] \in {"connect", "session"}
  /\ StepTo(w, "start")
  /\ UNCHANGED <<age, accepted, secret, hand, lapsed>>

\* The process is killed; in the middle of fallback_store the file is empty.
Killed(w) ==
  /\ "kill" \in Lapses /\ step[w] \notin {"start", "session"}
  /\ StepTo(w, "start")
  /\ \/ UNCHANGED secret
     \/ Storing(w) /\ secret' = [secret EXCEPT ![step[w]] = 0]
  /\ lapsed' = lapsed
       \cup (IF Storing(w) /\ hand[w].refresh # secret'.refresh THEN {"rotation lost"} ELSE {})
       \cup (IF secret'.refresh = 0 THEN {"torn"} ELSE {})
  /\ UNCHANGED <<age, accepted, hand>>

-----------------------------------------------------------------------------
\* A worker that has looked at the expiry connects within the 60 seconds.
Ages(g) ==
  /\ \/ age[g] = "young" /\ age' = [age EXCEPT ![g] = "closing"]
     \/ /\ age[g] = "closing" /\ age' = [age EXCEPT ![g] = "dead"]
        /\ \A w \in Workers : step[w] \in {"start", "post", "session"}
  /\ UNCHANGED <<accepted, secret, step, hand, lapsed>>

TokenStep(w) ==
  \/ EnsureFresh(w) \/ Refresh(w) \/ RefreshFails(w)
  \/ StoreAccess(w) \/ StoreExpiry(w) \/ StoreRefresh(w)
  \/ Authenticate(w) \/ ConnectFails(w) \/ Killed(w)

TokenNext == (\E w \in Workers : TokenStep(w)) \/ (\E g \in Grant : Ages(g))

-----------------------------------------------------------------------------
(* Properties. *)

\* The stored expiry never promises more than the access token beside it has:
\* a worker that sees no need to refresh presents a token that is accepted.
\* Each of the three files is written on its own and the process may be killed
\* between any two; what breaks it is a store that failed, or two processes that
\* refresh at once.
ExpiryHonest ==
  lapsed \cap {"store failed", "two at once"} = {} =>
    NeedsRefresh \/ Young(secret.access)

\* The account is not locked out: the refresh token the endpoint accepts is on
\* disk, or a worker is about to store it.
NotLockedOut ==
  lapsed = {} =>
    secret.refresh = accepted \/ \E w \in Workers : Storing(w) /\ hand[w].refresh = accepted
=============================================================================
