---------------------------- MODULE Outbox_proofs -----------------------------
(***************************************************************************)
(* Proofs about Outbox: what is promised of the tokens, of the recipients   *)
(* of a reply, and of every mail between the compose window (or an agent)   *)
(* and the report of what became of it.                                     *)
(***************************************************************************)
EXTENDS Outbox, TLAPS

-----------------------------------------------------------------------------
(* The token files: what they are worth to each other, however many workers *)
(* refresh them and wherever one is killed.  First the inductive invariant. *)

OneAtATime ==
  "two at once" \notin lapsed =>
    \A v, w \in Workers : Refreshing(v) /\ Refreshing(w) => v = w

\* No token is on disk as an expiry, or about to be, before it is granted.
Granted(t) == t = 0 \/ age[t] # "none"

GrantedOnly ==
  /\ Granted(secret.expiry)
  /\ \A w \in Workers : Storing(w) => Granted(hand[w].access)

\* While the expiry says young it is that of the access token; and a refresh
\* that has not come to the expiry began when it no longer said so.
ExpiryMatches ==
  lapsed \cap {"store failed", "two at once"} = {} =>
    /\ Young(secret.expiry) => secret.expiry = secret.access
    /\ \A w \in Workers :
         /\ step[w] \in {"post", "access", "expiry"} => NeedsRefresh
         /\ step[w] = "expiry" => secret.access = hand[w].access

RotationKept ==
  /\ NotLockedOut
  /\ lapsed = {} => \A w \in Workers : Storing(w) => hand[w].refresh = accepted

TokenInv == TokenTypeOK /\ OneAtATime /\ GrantedOnly /\ ExpiryMatches /\ RotationKept

-----------------------------------------------------------------------------
(* The types of the token files. *)

LEMMA TokenSets == Grant \subseteq Token /\ Token = Grant \cup {0} /\ 0 \notin Grant
BY TokenAssumption DEF Grant, Token

LEMMA TokenTypes == TokenTypeOK /\ [TokenNext]_tokenVars => TokenTypeOK'
<1> SUFFICES ASSUME TokenTypeOK, [TokenNext]_tokenVars PROVE TokenTypeOK'
  OBVIOUS
<1> USE TokenSets DEF TokenTypeOK, Secret
<1>1. ASSUME NEW w \in Workers, TokenStep(w) PROVE TokenTypeOK'
  <2>1. CASE EnsureFresh(w)
    <3>1. hand' \in [Workers -> [access : Token, refresh : Token]]
      <4>1. [access |-> 0, refresh |-> secret.refresh] \in [access : Token, refresh : Token]
        OBVIOUS
      <4>2. QED
        BY <2>1, <4>1 DEF EnsureFresh
    <3>2. lapsed' \subseteq {"rotation lost", "torn", "store failed", "two at once"}
      <4>1. lapsed' = lapsed \/ lapsed' = lapsed \cup {"two at once"}
        BY <2>1 DEF EnsureFresh
      <4>2. QED
        BY <4>1
    <3>3. QED
      BY <2>1, <3>1, <3>2 DEF EnsureFresh, StepTo
  <2>2. CASE Refresh(w)
    <3>1. PICK g \in Grant :
            /\ age' = [age EXCEPT ![g] = "young"]
            /\ accepted' \in {accepted, g}
            /\ \/ hand' = [hand EXCEPT ![w] = [access |-> g, refresh |-> accepted']]
               \/ UNCHANGED hand
      BY <2>2 DEF Refresh
    <3>2. g \in Token /\ accepted' \in Grant /\ accepted' \in Token
      BY <3>1
    <3>3. age' \in [Grant -> {"none", "young", "closing", "dead"}]
      BY <3>1
    <3>6. [access |-> g, refresh |-> accepted'] \in [access : Token, refresh : Token]
      BY <3>2
    <3>7. hand' \in [Workers -> [access : Token, refresh : Token]]
      BY <3>1, <3>6
    <3>4. /\ step' \in [Workers -> {"start", "post", "access", "expiry", "refresh", "connect", "session"}]
          /\ lapsed' \subseteq {"rotation lost", "torn", "store failed", "two at once"}
        BY <2>2 DEF Refresh, StepTo
    <3>5. QED
      BY <2>2, <3>2, <3>3, <3>4, <3>7 DEF Refresh
  <2>3. CASE RefreshFails(w) \/ Authenticate(w) \/ ConnectFails(w)
    BY <2>3 DEF RefreshFails, Authenticate, ConnectFails, StepTo
  <2>4. CASE StoreAccess(w)
    BY <2>4 DEF StoreAccess, Store, StepTo
  <2>5. CASE StoreExpiry(w)
    BY <2>5 DEF StoreExpiry, Store, StepTo
  <2>6. CASE StoreRefresh(w)
    BY <2>6 DEF StoreRefresh, Store, StepTo
  <2>7. CASE Killed(w)
    <3>1. secret' \in Secret
      <4>1. CASE UNCHANGED secret
        BY <4>1
      <4>2. CASE Storing(w) /\ secret' = [secret EXCEPT ![step[w]] = 0]
        <5>1. CASE step[w] = "access"
          <6>1. secret' = [secret EXCEPT !.access = 0]
            BY <4>2, <5>1
          <6>2. QED
            BY <6>1
        <5>2. CASE step[w] = "expiry"
          <6>1. secret' = [secret EXCEPT !.expiry = 0]
            BY <4>2, <5>2
          <6>2. QED
            BY <6>1
        <5>3. CASE step[w] = "refresh"
          <6>1. secret' = [secret EXCEPT !.refresh = 0]
            BY <4>2, <5>3
          <6>2. QED
            BY <6>1
        <5>4. QED
          BY <4>2, <5>1, <5>2, <5>3 DEF Storing
      <4>3. QED
        BY <2>7, <4>1, <4>2 DEF Killed
    <3>2. QED
      BY <2>7, <3>1 DEF Killed, StepTo
  <2>8. QED
    BY <1>1, <2>1, <2>2, <2>3, <2>4, <2>5, <2>6, <2>7 DEF TokenStep
<1>2. ASSUME NEW g \in Grant, Ages(g) PROVE TokenTypeOK'
  BY <1>2 DEF Ages
<1>3. CASE UNCHANGED tokenVars
  BY <1>3 DEF tokenVars
<1>4. QED
  BY <1>1, <1>2, <1>3 DEF TokenNext

-----------------------------------------------------------------------------
(* One lemma for each part of the invariant. *)

LEMMA OneAtATimeStays == TokenTypeOK /\ OneAtATime /\ [TokenNext]_tokenVars => OneAtATime'
<1> SUFFICES ASSUME TokenTypeOK, OneAtATime, [TokenNext]_tokenVars,
                    "two at once" \notin lapsed'
             PROVE  \A u, v \in Workers : Refreshing(u)' /\ Refreshing(v)' => u = v
  BY DEF OneAtATime
<1> USE DEF Refreshing, Storing, OneAtATime, TokenTypeOK
<1>1. ASSUME NEW w \in Workers, TokenStep(w)
      PROVE  \A u, v \in Workers : Refreshing(u)' /\ Refreshing(v)' => u = v
  <2>1. CASE EnsureFresh(w)
    BY <2>1, ZenonT(40) DEF EnsureFresh, StepTo
  <2>2. CASE ~ EnsureFresh(w)
    <3>1. "two at once" \notin lapsed
      BY <1>1, <2>2 DEF TokenStep, Refresh, RefreshFails, StoreAccess, StoreExpiry, StoreRefresh, Store,
                        Authenticate, ConnectFails, Killed
    <3>2. \A u \in Workers : Refreshing(u)' => Refreshing(u)
      BY <1>1, <2>2 DEF TokenStep, Refresh, RefreshFails, StoreAccess, StoreExpiry, StoreRefresh, Store,
                        Authenticate, ConnectFails, Killed, StepTo
    <3>3. QED
      BY <3>1, <3>2
  <2>3. QED
    BY <2>1, <2>2
<1>2. ASSUME NEW g \in Grant, Ages(g)
      PROVE  \A u, v \in Workers : Refreshing(u)' /\ Refreshing(v)' => u = v
  BY <1>2 DEF Ages
<1>3. CASE UNCHANGED tokenVars
  BY <1>3 DEF tokenVars
<1>4. QED
  BY <1>1, <1>2, <1>3 DEF TokenNext

LEMMA GrantedStays == TokenTypeOK /\ GrantedOnly /\ [TokenNext]_tokenVars => GrantedOnly'
<1> SUFFICES ASSUME TokenTypeOK, GrantedOnly, [TokenNext]_tokenVars PROVE GrantedOnly'
  OBVIOUS
<1> USE TokenSets DEF TokenTypeOK, Secret, Granted, GrantedOnly, Storing
<1>1. ASSUME NEW w \in Workers, TokenStep(w) PROVE GrantedOnly'
  <2>1. CASE EnsureFresh(w)
    BY <2>1, ZenonT(40) DEF EnsureFresh, StepTo
  <2>2. CASE Refresh(w)
    <3>1. PICK g \in Grant :
            /\ age[g] = "none" /\ age' = [age EXCEPT ![g] = "young"]
            /\ \/ /\ hand' = [hand EXCEPT ![w] = [access |-> g, refresh |-> accepted']]
                  /\ step' = [step EXCEPT ![w] = "access"]
               \/ /\ step' = [step EXCEPT ![w] = "start"]
                  /\ UNCHANGED hand
      BY <2>2 DEF Refresh, StepTo
    <3>2. \A t \in Token : Granted(t) => Granted(t)'
      BY <3>1
    <3>3. Granted(g)'
      BY <3>1
    <3>4. Granted(secret.expiry)'
      BY <2>2, <3>2 DEF Refresh
    <3>5. ASSUME NEW v \in Workers, Storing(v)' PROVE Granted(hand[v].access)'
      <4>1. CASE v = w
        <5>1. step'[w] # "start"
          BY <4>1, <3>5
        <5>2. hand' = [hand EXCEPT ![w] = [access |-> g, refresh |-> accepted']]
          BY <3>1, <5>1
        <5>3. hand'[v].access = g
          BY <4>1, <5>2, ZenonT(40)
        <5>4. QED
          BY <3>3, <5>3
      <4>2. CASE v # w
        <5>1. Storing(v) /\ hand'[v] = hand[v] /\ hand[v].access \in Token
          BY <3>1, <3>5, <4>2
        <5>2. QED
          BY <3>2, <5>1
      <4>3. QED
        BY <4>1, <4>2
    <3>6. QED
      BY <3>4, <3>5
  <2>3. CASE RefreshFails(w) \/ Authenticate(w) \/ ConnectFails(w)
    BY <2>3 DEF RefreshFails, Authenticate, ConnectFails, StepTo
  <2>4. CASE StoreAccess(w) \/ StoreRefresh(w)
    BY <2>4 DEF StoreAccess, StoreRefresh, Store, StepTo
  <2>5. CASE StoreExpiry(w)
    BY <2>5 DEF StoreExpiry, Store, StepTo
  <2>6. CASE Killed(w)
    <3>1. secret'.expiry \in {0, secret.expiry}
      BY <2>6 DEF Killed
    <3>2. QED
      BY <2>6, <3>1 DEF Killed, StepTo
  <2>7. QED
    BY <1>1, <2>1, <2>2, <2>3, <2>4, <2>5, <2>6 DEF TokenStep
<1>2. ASSUME NEW g \in Grant, Ages(g) PROVE GrantedOnly'
  <2>1. \A t \in Token : Granted(t) => Granted(t)'
    BY <1>2 DEF Ages
  <2>2. /\ UNCHANGED <<secret, step, hand>>
        /\ secret.expiry \in Token /\ \A v \in Workers : hand[v].access \in Token
    BY <1>2 DEF Ages
  <2>3. QED
    BY <2>1, <2>2
<1>3. CASE UNCHANGED tokenVars
  BY <1>3 DEF tokenVars
<1>4. QED
  BY <1>1, <1>2, <1>3 DEF TokenNext

LEMMA ExpiryMatchesStays ==
  TokenTypeOK /\ OneAtATime /\ GrantedOnly /\ ExpiryMatches /\ [TokenNext]_tokenVars => ExpiryMatches'
<1> SUFFICES ASSUME TokenTypeOK, OneAtATime, GrantedOnly, ExpiryMatches, [TokenNext]_tokenVars,
                    lapsed' \cap {"store failed", "two at once"} = {}
             PROVE  /\ Young(secret.expiry)' => (secret.expiry = secret.access)'
                    /\ \A v \in Workers :
                         /\ step'[v] \in {"post", "access", "expiry"} => NeedsRefresh'
                         /\ step'[v] = "expiry" => secret'.access = hand'[v].access
  BY DEF ExpiryMatches
<1> DEFINE Goal == /\ Young(secret.expiry)' => (secret.expiry = secret.access)'
                   /\ \A v \in Workers :
                        /\ step'[v] \in {"post", "access", "expiry"} => NeedsRefresh'
                        /\ step'[v] = "expiry" => secret'.access = hand'[v].access
<1>0. lapsed \subseteq lapsed'
  BY DEF TokenNext, TokenStep, EnsureFresh, Refresh, RefreshFails, StoreAccess, StoreExpiry, StoreRefresh,
         Store, Authenticate, ConnectFails, Killed, Ages, tokenVars
<1>a. /\ Young(secret.expiry) => secret.expiry = secret.access
      /\ \A v \in Workers :
           /\ step[v] \in {"post", "access", "expiry"} => NeedsRefresh
           /\ step[v] = "expiry" => secret.access = hand[v].access
  BY <1>0 DEF ExpiryMatches
<1>b. \A u, v \in Workers : Refreshing(u) /\ Refreshing(v) => u = v
  BY <1>0 DEF OneAtATime
<1>1. ASSUME NEW w \in Workers, TokenStep(w) PROVE Goal
  <2> USE TokenSets DEF TokenTypeOK, Secret, Young, NeedsRefresh
  <2>1. CASE EnsureFresh(w)
    BY <2>1, <1>a, ZenonT(40) DEF EnsureFresh, StepTo
  <2>2. CASE Refresh(w)
    <3>1. PICK g \in Grant : age[g] = "none" /\ age' = [age EXCEPT ![g] = "young"]
      BY <2>2 DEF Refresh
    <3>7. secret' = secret /\ secret.expiry \in Token
      BY <2>2 DEF Refresh
    <3>2. g # secret.expiry /\ g # 0
      BY <3>1 DEF GrantedOnly, Granted
    <3>3. Young(secret.expiry)' <=> Young(secret.expiry)
      BY <3>1, <3>2, <3>7
    <3>4. NeedsRefresh
      BY <2>2, <1>a DEF Refresh
    <3>8. /\ step' \in {[step EXCEPT ![w] = "access"], [step EXCEPT ![w] = "start"]}
          /\ \A v \in Workers \ {w} : hand'[v] = hand[v]
      BY <2>2 DEF Refresh, StepTo
    <3>5. \A v \in Workers : step'[v] = "expiry" => v # w /\ step[v] = "expiry" /\ hand'[v] = hand[v]
      BY <3>8
    <3>6. QED
      BY <2>2, <1>a, <3>3, <3>4, <3>5, ZenonT(40) DEF Refresh
  <2>3. CASE RefreshFails(w) \/ Authenticate(w) \/ ConnectFails(w)
    BY <2>3, <1>a DEF RefreshFails, Authenticate, ConnectFails, StepTo
  <2>4. CASE StoreAccess(w)
    <3>1. secret' = [secret EXCEPT !.access = hand[w].access]
      BY <2>4 DEF StoreAccess, Store
    <3>2. NeedsRefresh /\ NeedsRefresh'
      BY <2>4, <3>1, <1>a DEF StoreAccess, Store
    <3>3. \A v \in Workers \ {w} : step[v] # "expiry"
      BY <2>4, <1>b DEF StoreAccess, Refreshing, Storing
    <3>4. QED
      BY <2>4, <3>1, <3>2, <3>3 DEF StoreAccess, Store, StepTo
  <2>5. CASE StoreExpiry(w)
    <3>1. secret' = [secret EXCEPT !.expiry = secret.access]
      BY <2>5, <1>a DEF StoreExpiry, Store
    <3>2. \A v \in Workers \ {w} : step[v] \notin {"post", "access", "expiry"}
      BY <2>5, <1>b DEF StoreExpiry, Refreshing, Storing
    <3>3. QED
      BY <2>5, <3>1, <3>2 DEF StoreExpiry, Store, StepTo
  <2>6. CASE StoreRefresh(w)
    BY <2>6, <1>a DEF StoreRefresh, Store, StepTo
  <2>7. CASE Killed(w)
    <3>1. CASE UNCHANGED secret
      BY <2>7, <3>1, <1>a DEF Killed, StepTo
    <3>2. CASE Storing(w) /\ secret' = [secret EXCEPT ![step[w]] = 0]
      <4>1. \A v \in Workers \ {w} : step[v] \notin {"post", "access", "expiry"}
        BY <3>2, <1>b DEF Refreshing, Storing
      <4>2. \A v \in Workers : step'[v] \notin {"post", "access", "expiry"}
        BY <2>7, <4>1 DEF Killed, StepTo
      <4>3. Young(secret.expiry)' => (secret.expiry = secret.access)'
        BY <2>7, <3>2, <1>a DEF Killed, Storing
      <4>4. QED
        BY <4>2, <4>3
    <3>3. QED
      BY <2>7, <3>1, <3>2 DEF Killed
  <2>8. QED
    BY <1>1, <2>1, <2>2, <2>3, <2>4, <2>5, <2>6, <2>7 DEF TokenStep
<1>2. ASSUME NEW g \in Grant, Ages(g) PROVE Goal
  <2>0. secret' = secret /\ secret.expiry \in Token
    BY <1>2 DEF Ages, TokenTypeOK, Secret
  <2>3. \A t \in Token : Young(t)' => Young(t)
    BY <1>2, TokenSets DEF Ages, Young, TokenTypeOK
  <2>1. Young(secret.expiry)' => Young(secret.expiry)
    BY <2>0, <2>3
  <2>2. QED
    BY <1>2, <1>a, <2>1 DEF Ages, NeedsRefresh
<1>3. CASE UNCHANGED tokenVars
  BY <1>3, <1>a DEF tokenVars, Young, NeedsRefresh
<1>4. QED
  BY <1>1, <1>2, <1>3 DEF TokenNext

LEMMA RotationStays ==
  TokenTypeOK /\ OneAtATime /\ RotationKept /\ [TokenNext]_tokenVars => RotationKept'
<1> SUFFICES ASSUME TokenTypeOK, OneAtATime, RotationKept, [TokenNext]_tokenVars, lapsed' = {}
             PROVE  /\ \/ (secret.refresh = accepted)'
                       \/ \E v \in Workers : Storing(v)' /\ (hand[v].refresh = accepted)'
                    /\ \A v \in Workers : Storing(v)' => (hand[v].refresh = accepted)'
  BY DEF RotationKept, NotLockedOut
<1> DEFINE Goal == /\ \/ (secret.refresh = accepted)'
                      \/ \E v \in Workers : Storing(v)' /\ (hand[v].refresh = accepted)'
                   /\ \A v \in Workers : Storing(v)' => (hand[v].refresh = accepted)'
<1>0. lapsed \subseteq lapsed'
  BY DEF TokenNext, TokenStep, EnsureFresh, Refresh, RefreshFails, StoreAccess, StoreExpiry, StoreRefresh,
         Store, Authenticate, ConnectFails, Killed, Ages, tokenVars
<1>a. /\ secret.refresh = accepted \/ \E v \in Workers : Storing(v) /\ hand[v].refresh = accepted
      /\ \A v \in Workers : Storing(v) => hand[v].refresh = accepted
  BY <1>0 DEF RotationKept, NotLockedOut
<1>b. \A u, v \in Workers : Refreshing(u) /\ Refreshing(v) => u = v
  BY <1>0 DEF OneAtATime
<1>1. ASSUME NEW w \in Workers, TokenStep(w) PROVE Goal
  <2> USE TokenSets DEF TokenTypeOK, Secret
  <2>1. CASE EnsureFresh(w)
    <3>1. \A v \in Workers : /\ Storing(v)' <=> Storing(v)
                             /\ Storing(v) => hand'[v] = hand[v]
      BY <2>1 DEF EnsureFresh, StepTo, Storing
    <3>2. QED
      BY <2>1, <1>a, <3>1 DEF EnsureFresh
  <2>2. CASE Refresh(w)
    <3>1. PICK g \in Grant :
            \/ /\ hand' = [hand EXCEPT ![w] = [access |-> g, refresh |-> accepted']]
               /\ step' = [step EXCEPT ![w] = "access"]
            \/ /\ UNCHANGED hand /\ step' = [step EXCEPT ![w] = "start"]
               /\ accepted' # accepted => "rotation lost" \in lapsed'
      BY <2>2 DEF Refresh, StepTo
    <3>2. step[w] = "post" /\ secret' = secret
      BY <2>2 DEF Refresh
    <3>3. \A v \in Workers : ~ Storing(v)
      BY <3>2, <1>b DEF Refreshing, Storing
    <3>4. secret.refresh = accepted
      BY <3>3, <1>a
    <3>5. CASE /\ hand' = [hand EXCEPT ![w] = [access |-> g, refresh |-> accepted']]
               /\ step' = [step EXCEPT ![w] = "access"]
      <4>1. hand'[w].refresh = accepted' /\ Storing(w)'
        BY <3>5 DEF Storing
      <4>2. \A v \in Workers \ {w} : ~ Storing(v)'
        BY <3>3, <3>5 DEF Storing
      <4>3. QED
        BY <4>1, <4>2
    <3>6. CASE /\ UNCHANGED hand /\ step' = [step EXCEPT ![w] = "start"]
               /\ accepted' # accepted => "rotation lost" \in lapsed'
      <4>1. accepted' = accepted
        BY <3>6
      <4>2. \A v \in Workers : ~ Storing(v)'
        BY <3>3, <3>6 DEF Storing
      <4>3. QED
        BY <4>1, <4>2, <3>2, <3>4
    <3>7. QED
      BY <3>1, <3>5, <3>6
  <2>3. CASE RefreshFails(w) \/ Authenticate(w) \/ ConnectFails(w)
    <3>1. \A v \in Workers : Storing(v)' <=> Storing(v)
      BY <2>3 DEF RefreshFails, Authenticate, ConnectFails, StepTo, Storing
    <3>2. UNCHANGED <<secret, accepted, hand>>
      BY <2>3 DEF RefreshFails, Authenticate, ConnectFails
    <3>3. QED
      BY <1>a, <3>1, <3>2
  <2>4. CASE StoreAccess(w) \/ StoreExpiry(w)
    <3>1. \A v \in Workers : Storing(v)' <=> Storing(v)
      BY <2>4 DEF StoreAccess, StoreExpiry, Store, StepTo, Storing
    <3>2. UNCHANGED <<accepted, hand>>
      BY <2>4 DEF StoreAccess, StoreExpiry, Store
    <3>3. secret'.refresh = secret.refresh
      BY <2>4 DEF StoreAccess, StoreExpiry, Store
    <3>4. QED
      BY <1>a, <3>1, <3>2, <3>3
  <2>5. CASE StoreRefresh(w)
    <3>1. secret' = [secret EXCEPT !.refresh = hand[w].refresh]
      BY <2>5 DEF StoreRefresh, Store
    <3>2. secret'.refresh = accepted
      BY <2>5, <1>a, <3>1 DEF StoreRefresh, Storing
    <3>3. \A v \in Workers : Storing(v)' => Storing(v)
      BY <2>5 DEF StoreRefresh, Store, StepTo, Storing
    <3>4. UNCHANGED <<accepted, hand>>
      BY <2>5 DEF StoreRefresh, Store
    <3>5. QED
      BY <1>a, <3>2, <3>3, <3>4
  <2>6. CASE Killed(w)
    <3>1. \A v \in Workers : Storing(v)' <=> v # w /\ Storing(v)
      BY <2>6 DEF Killed, StepTo, Storing
    <3>2. UNCHANGED <<accepted, hand>>
      BY <2>6 DEF Killed
    <3>3. CASE Storing(w)
      <4>1. secret'.refresh = hand[w].refresh
        BY <2>6, <3>3 DEF Killed
      <4>2. QED
        BY <1>a, <3>1, <3>2, <3>3, <4>1
    <3>4. CASE ~ Storing(w)
      <4>1. UNCHANGED secret
        BY <2>6, <3>4 DEF Killed
      <4>2. QED
        BY <1>a, <3>1, <3>2, <3>4, <4>1
    <3>5. QED
      BY <3>3, <3>4
  <2>7. QED
    BY <1>1, <2>1, <2>2, <2>3, <2>4, <2>5, <2>6 DEF TokenStep
<1>2. ASSUME NEW g \in Grant, Ages(g) PROVE Goal
  BY <1>2, <1>a DEF Ages, Storing
<1>3. CASE UNCHANGED tokenVars
  BY <1>3, <1>a DEF tokenVars, Storing
<1>4. QED
  BY <1>1, <1>2, <1>3 DEF TokenNext

-----------------------------------------------------------------------------
LEMMA TokenInvStarts == TokenInit => TokenInv
<1> SUFFICES ASSUME TokenInit PROVE TokenInv
  OBVIOUS
<1> USE TokenSets DEF TokenInit
<1>0. 1 \in Grant /\ 1 # 0
  BY TokenAssumption DEF Grant
<1>1. TokenTypeOK
  BY <1>0 DEF TokenTypeOK, Secret
<1>2. OneAtATime /\ GrantedOnly
  BY <1>0 DEF OneAtATime, GrantedOnly, Granted, Refreshing, Storing
<1>3. ExpiryMatches
  BY DEF ExpiryMatches
<1>4. RotationKept
  BY DEF RotationKept, NotLockedOut, Storing
<1>5. QED
  BY <1>1, <1>2, <1>3, <1>4 DEF TokenInv

LEMMA TokenInvStays == TokenInv /\ [TokenNext]_tokenVars => TokenInv'
BY TokenTypes, OneAtATimeStays, GrantedStays, ExpiryMatchesStays, RotationStays DEF TokenInv

\* What the files promise, whatever else runs: the expiry speaks for the access
\* token beside it, and the refresh token the endpoint accepts is not lost.
LEMMA TokenInvGives == TokenInv => ExpiryHonest /\ NotLockedOut
BY DEF TokenInv, ExpiryMatches, ExpiryHonest, RotationKept, NeedsRefresh

-----------------------------------------------------------------------------
(* The mails leave the tokens alone. *)

\* A mail step leaves the tokens alone, so a fact about the tokens that every
\* TokenNext step keeps is kept by every step.
LEMMA TokensAlone == [Next]_vars => [TokenNext]_tokenVars
<1>1. MailStep => UNCHANGED tokenVars
  BY DEF MailStep, User, Agent, CommandWorker, SendStep, StartCompose, SaveComposeDraft, SendCompose,
         CancelCompose, Exit, AgentCalls, Receive, UpsertDraft, SaveDraftToImap, Prepare, SmtpSend,
         FileSentCopy, DeleteDraft
<1>2. UNCHANGED vars => UNCHANGED tokenVars
  BY DEF vars
<1>3. QED
  BY <1>1, <1>2 DEF Next

LEMMA TokenInvariant == Spec => []TokenInv
<1>1. Init => TokenInv
  BY TokenInvStarts DEF Init
<1>2. TokenInv /\ [Next]_vars => TokenInv'
  BY TokenInvStays, TokensAlone
<1>3. QED
  BY <1>1, <1>2, PTL DEF Spec

\* The stored expiry never promises more than the access token beside it has,
\* unless a store failed or two processes refreshed at once.
THEOREM TokensAreSound == Spec => []ExpiryHonest
BY TokenInvariant, TokenInvGives, PTL

\* The refresh token the endpoint accepts is on disk, or about to be, unless a
\* lapse has been recorded.
THEOREM AccountStaysOpen == Spec => []NotLockedOut
BY TokenInvariant, TokenInvGives, PTL

-----------------------------------------------------------------------------
(* The types of the mails. *)

Text == SUBSET (Addr \cup {Junk})

LEMMA CommandTypes ==
  /\ \A c \in Command : c.draft \in Draft /\ c.name \in {"save", "send"}
  /\ \A d \in Draft : d.mail \in Mails /\ d.kind \in Kinds /\ d.rcpts \in Text
  /\ NoCommand.draft = NoDraft /\ NoCommand.name = "none" /\ NoDraft.mail = NoMail
  /\ NoCommand \notin Command /\ NoDraft \notin Draft
<1>1. NoDraft \notin Draft
  BY OutboxAssumption DEF NoDraft, Draft
<1>2. NoCommand \notin Command
  BY DEF NoCommand, Command
<1>3. QED
  BY <1>1, <1>2 DEF Command, Draft, NoCommand, NoDraft, Text

\* A reply is addressed to addresses.
LEMMA RepliesAreText ==
  ASSUME orig \in Originals, NEW all \in BOOLEAN
  PROVE  BuildReply(orig, all) \in SUBSET Addr /\ McpReply(orig, all) \in SUBSET Addr
BY OutboxAssumption DEF BuildReply, McpReply, Author, Headers

LEMMA SyncedDraft ==
  ASSUME compose \in Draft, NEW name \in {"save", "send"}
  PROVE  /\ SyncToDraft(name) \in Command
         /\ SyncToDraft(name).name = name
         /\ SyncToDraft(name).draft.mail = compose.mail
         /\ SyncToDraft(name).draft.kind = compose.kind
         /\ SyncToDraft(name).draft.rcpts = ParseAddrs(compose.rcpts)
<1>1. ParseAddrs(compose.rcpts) \in Text
  BY CommandTypes DEF ParseAddrs, Text
<1>2. QED
  BY <1>1 DEF SyncToDraft, Command, Draft, Text

Places == {"ready", "upsert", "append", "prepare", "smtp", "copy", "delete", "exited"}

Windows == orig \in Originals /\ compose \in Draft \cup {NoDraft} /\ begun \subseteq Written
Queued == queue \in Seq(Command) /\ Len(queue) <= MaxQueue
Working == pc \in [Procs -> Places] /\ job \in [Procs -> Command \cup {NoCommand}]
Stored == saved \subseteq Mails /\ copies \subseteq Mails
Counted == \A f \in {delivered, filed, asked} : f \in [Mails -> Nat]
Reported == told \in [Mails -> {"nothing", "sent", "failed"}] /\ causes \subseteq {"answer lost", "row kept", "exit"}

\* Where a process is says what it has in hand.
JobFits ==
  \A p \in Procs :
    /\ pc[p] \in {"ready", "exited"} => job[p] = NoCommand
    /\ pc[p] \in {"upsert", "append"} => p = "command_worker" /\ job[p] \in Command /\ job[p].name = "save"
    /\ pc[p] \in {"prepare", "smtp", "copy", "delete"} => job[p] \in Command /\ job[p].name = "send"

\* The window, the queue and its worker hold mails that were begun; the MCP
\* server those of the agent.
Origins ==
  /\ compose # NoDraft => compose.mail \in begun
  /\ \A n \in DOMAIN queue : queue[n].draft.mail \in begun
  /\ job["command_worker"] # NoCommand => job["command_worker"].draft.mail \in begun
  /\ job["mcp"] # NoCommand => job["mcp"].draft.mail \in Dictated

MailTypes == Windows /\ Queued /\ Working /\ Stored /\ Counted /\ Reported

LEMMA TypesByPart == TypeOK <=> TokenTypeOK /\ MailTypes
BY DEF TypeOK, MailTypes, Windows, Queued, Working, Stored, Counted, Reported, Places

LEMMA QueueBound == MaxQueue \in Nat
BY OutboxAssumption

LEMMA Bumped ==
  ASSUME NEW f \in [Mails -> Nat], NEW m \in Mails
  PROVE  /\ Bump(f, m) \in [Mails -> Nat] /\ Bump(f, m)[m] = f[m] + 1
         /\ \A k \in Mails \ {m} : Bump(f, m)[k] = f[k]
BY DEF Bump

LEMMA EmptyQueue == <<>> \in Seq(Command) /\ Len(<<>>) = 0 /\ \A n \in DOMAIN <<>> : FALSE
OBVIOUS

LEMMA MailTypesStart == Init => MailTypes /\ JobFits /\ Origins
<1> SUFFICES ASSUME Init PROVE MailTypes /\ JobFits /\ Origins
  OBVIOUS
<1>1. Windows /\ Stored
  BY OutboxAssumption DEF Init, Windows, Stored
<1>2. Counted
  <2>1. \A f \in {delivered, filed, asked} : f = [m \in Mails |-> 0]
    BY DEF Init
  <2>2. [m \in Mails |-> 0] \in [Mails -> Nat]
    OBVIOUS
  <2>3. QED
    BY <2>1, <2>2 DEF Counted
<1>3. Reported
  BY DEF Init, Reported
<1>4. queue = <<>> /\ compose = NoDraft
  BY DEF Init
<1>5. Queued
  BY <1>4, EmptyQueue, QueueBound DEF Queued
<1>6. pc \in [Procs -> {"ready", "exited"}] /\ job = [p \in Procs |-> NoCommand]
  BY DEF Init
<1>7. Working /\ JobFits
  BY <1>6 DEF Working, JobFits, Places
<1>8. Origins
  BY <1>4, <1>6, EmptyQueue DEF Origins, Procs
<1>9. QED
  BY <1>1, <1>2, <1>3, <1>5, <1>7, <1>8 DEF MailTypes

LEMMA Appended ==
  ASSUME NEW q \in Seq(Command), NEW c \in Command
  PROVE  /\ Append(q, c) \in Seq(Command) /\ Len(Append(q, c)) = Len(q) + 1
         /\ DOMAIN Append(q, c) = DOMAIN q \cup {Len(q) + 1} /\ Len(q) + 1 \notin DOMAIN q
         /\ \A n \in DOMAIN q : Append(q, c)[n] = q[n]
         /\ Append(q, c)[Len(q) + 1] = c
OBVIOUS

LEMMA Dequeued ==
  ASSUME NEW q \in Seq(Command), q # <<>>
  PROVE  /\ Head(q) \in Command /\ Head(q) = q[1] /\ 1 \in DOMAIN q
         /\ Tail(q) \in Seq(Command) /\ Len(Tail(q)) = Len(q) - 1
         /\ \A n \in DOMAIN Tail(q) : n + 1 \in DOMAIN q \ {1} /\ Tail(q)[n] = q[n + 1]
         /\ \A n \in DOMAIN q \ {1} : n - 1 \in DOMAIN Tail(q) /\ Tail(q)[n - 1] = q[n]
OBVIOUS
MailBase == MailTypes /\ JobFits /\ Origins

\* What becomes of a process at the end of its job.
LEMMA Finished ==
  ASSUME Working, JobFits, NEW p \in Procs, Finish(p)
  PROVE  /\ pc' = [pc EXCEPT ![p] = "ready"] /\ job' = [job EXCEPT ![p] = NoCommand]
         /\ Working' /\ JobFits'
BY CommandTypes DEF Finish, Goto, Working, Places, JobFits

LEMMA Moved ==
  ASSUME Working, JobFits, NEW p \in Procs, NEW s \in Places, Goto(p, s), UNCHANGED job,
         \/ pc[p] = "upsert" /\ s = "append"
         \/ pc[p] \in {"prepare", "smtp", "copy", "delete"} /\ s \in {"prepare", "smtp", "copy", "delete"}
  PROVE  Working' /\ JobFits'
BY CommandTypes DEF Goto, Working, Places, JobFits

LEMMA Begun ==
  ASSUME Working, JobFits, NEW p \in Procs, NEW c \in Command, Begin(p, c),
         p = "mcp" => c.name = "send"
  PROVE  /\ job' = [job EXCEPT ![p] = c]
         /\ pc' = [pc EXCEPT ![p] = IF c.name = "save" THEN "upsert" ELSE "prepare"]
         /\ Working' /\ JobFits'
BY CommandTypes DEF Begin, Goto, Working, Places, JobFits, Procs
LEMMA MailBaseStays == MailBase /\ [Next]_vars => MailBase'
<1> SUFFICES ASSUME MailBase, [Next]_vars PROVE MailBase'
  OBVIOUS
<1> USE DEF MailBase, MailTypes
<1>1. ASSUME NEW m \in Written, NEW k \in Kinds, NEW typed \in Typed, StartCompose(m, k, typed)
      PROVE  MailBase'
  <2>1. Addressed(k, typed) \in SUBSET Addr
    BY OutboxAssumption, RepliesAreText DEF Addressed, Windows
  <2>2. compose' \in Draft /\ compose'.mail = m
    BY <1>1, <2>1 DEF StartCompose, Draft, Mails
  <2>3. Windows'
    BY <1>1, <2>2 DEF StartCompose, Windows
  <2>4. Origins'
    BY <1>1, <2>2 DEF StartCompose, Origins
  <2>5. QED
    BY <1>1, <2>3, <2>4 DEF StartCompose, Queued, Working, Stored, Counted, Reported, JobFits
<1>2. CASE SaveComposeDraft
  <2>1. compose \in Draft
    BY <1>2 DEF SaveComposeDraft, Windows
  <2>2. SyncToDraft("save") \in Command /\ SyncToDraft("save").draft.mail = compose.mail
    BY <2>1, SyncedDraft
  <2>3. queue' = Append(queue, SyncToDraft("save")) /\ Len(queue) < MaxQueue
    BY <1>2 DEF SaveComposeDraft, Enqueue
  <2>4. Queued'
    BY <2>2, <2>3, Appended, QueueBound DEF Queued
  <2>5. Origins'
    BY <1>2, <2>2, <2>3, Appended DEF SaveComposeDraft, Origins, Queued
  <2>6. QED
    BY <1>2, <2>4, <2>5 DEF SaveComposeDraft, Windows, Working, Stored, Counted, Reported, JobFits
<1>3. CASE SendCompose
  <2>1. compose \in Draft
    BY <1>3 DEF SendCompose, Windows
  <2>2. SyncToDraft("send") \in Command /\ SyncToDraft("send").draft.mail = compose.mail
    BY <2>1, SyncedDraft
  <2>3. queue' = Append(queue, SyncToDraft("send")) /\ Len(queue) < MaxQueue
    BY <1>3 DEF SendCompose, Enqueue
  <2>4. Queued'
    BY <2>2, <2>3, Appended, QueueBound DEF Queued
  <2>5. Origins'
    BY <1>3, <2>2, <2>3, Appended DEF SendCompose, Origins, Queued
  <2>6. asked' \in [Mails -> Nat]
    <3>1. asked' = Bump(asked, compose.mail) /\ compose.mail \in Mails
      BY <1>3, <2>1, CommandTypes DEF SendCompose
    <3>2. QED
      BY <3>1, Bumped DEF Counted
  <2>7. Counted'
    BY <1>3, <2>6 DEF SendCompose, Counted
  <2>8. QED
    BY <1>3, <2>4, <2>5, <2>7 DEF SendCompose, Windows, Working, Stored, Reported, JobFits
<1>4. CASE CancelCompose
  BY <1>4 DEF CancelCompose, Windows, Queued, Working, Stored, Counted, Reported, JobFits, Origins
<1>5. CASE Exit
  <2>1. queue' = <<>>
    BY <1>5 DEF Exit
  <2>2. Queued'
    BY <2>1, EmptyQueue, QueueBound DEF Queued
  <2>3. /\ pc' = [pc EXCEPT !["command_worker"] = "exited"]
        /\ job' = [job EXCEPT !["command_worker"] = NoCommand]
    BY <1>5 DEF Exit, Goto
  <2>4. Working' /\ JobFits'
    BY <2>3 DEF Working, JobFits, Places, Procs
  <2>5. Origins'
    BY <1>5, <2>1, <2>3, EmptyQueue DEF Exit, Origins, Working, Procs
  <2>6. Reported'
    BY <1>5 DEF Exit, Reported
  <2>7. QED
    BY <1>5, <2>2, <2>4, <2>5, <2>6 DEF Exit, Windows, Stored, Counted
<1>6. ASSUME NEW m \in Dictated, NEW k \in Kinds, NEW typed \in Typed, AgentCalls(m, k, typed)
      PROVE  MailBase'
  <2>1. PICK to \in SUBSET Addr : Begin("mcp", [name |-> "send", draft |-> [mail |-> m, kind |-> k, rcpts |-> to]])
    BY <1>6, OutboxAssumption, RepliesAreText DEF AgentCalls, Windows
  <2> DEFINE c == [name |-> "send", draft |-> [mail |-> m, kind |-> k, rcpts |-> to]]
  <2>2. c \in Command /\ c.name = "send" /\ c.draft.mail = m
    BY DEF Command, Draft, Mails
  <2>3. Begin("mcp", c) /\ "mcp" \in Procs
    BY <2>1 DEF Procs
  <2> HIDE DEF c
  <2>4. job' = [job EXCEPT !["mcp"] = c] /\ Working' /\ JobFits'
    BY <2>2, <2>3, Begun
  <2>5. Origins'
    BY <1>6, <2>2, <2>4 DEF AgentCalls, Origins, Working, Procs
  <2>6. asked' \in [Mails -> Nat]
    <3>1. asked' = Bump(asked, m) /\ m \in Mails
      BY <1>6 DEF AgentCalls, Mails
    <3>2. QED
      BY <3>1, Bumped DEF Counted
  <2>7. Counted'
    BY <1>6, <2>6 DEF AgentCalls, Counted
  <2>8. Reported'
    BY <1>6 DEF AgentCalls, Reported
  <2>9. QED
    BY <1>6, <2>4, <2>5, <2>7, <2>8 DEF AgentCalls, Windows, Queued, Stored
<1>7. CASE Receive
  <2>1. queue # <<>> /\ Begin("command_worker", Head(queue)) /\ queue' = Tail(queue)
    BY <1>7 DEF Receive
  <2>2. /\ Head(queue) \in Command /\ Head(queue).draft.mail \in begun
        /\ queue' \in Seq(Command) /\ Len(queue') <= MaxQueue
        /\ \A n \in DOMAIN queue' : queue'[n].draft.mail \in begun
    BY <2>1, Dequeued, QueueBound DEF Queued, Origins
  <2>3. job' = [job EXCEPT !["command_worker"] = Head(queue)] /\ Working' /\ JobFits'
    BY <2>1, <2>2, Begun DEF Procs
  <2>4. Origins'
    BY <1>7, <2>2, <2>3 DEF Receive, Origins, Working, Procs
  <2>5. QED
    BY <1>7, <2>2, <2>3, <2>4 DEF Receive, Windows, Queued, Stored, Counted, Reported
<1>8. CASE UpsertDraft
  <2>1. job["command_worker"].draft.mail \in Mails /\ pc["command_worker"] = "upsert"
    BY <1>8, CommandTypes DEF UpsertDraft, JobFits, Procs
  <2>2. Stored'
    BY <1>8, <2>1 DEF UpsertDraft, Stored
  <2>3. /\ Working' /\ JobFits'
        /\ job' = job \/ job' = [job EXCEPT !["command_worker"] = NoCommand]
    BY <1>8, <2>1, Finished, Moved DEF UpsertDraft, Procs, Places
  <2>4. Origins'
    BY <1>8, <2>3 DEF UpsertDraft, Origins, Working, Procs
  <2>5. QED
    BY <1>8, <2>2, <2>3, <2>4 DEF UpsertDraft, Windows, Queued, Counted, Reported
<1>9. CASE SaveDraftToImap
  <2>1. job["command_worker"].draft.mail \in Mails
    BY <1>9, CommandTypes DEF SaveDraftToImap, JobFits, Procs
  <2>2. Stored'
    BY <1>9, <2>1 DEF SaveDraftToImap, Stored
  <2>3. Working' /\ JobFits' /\ job' = [job EXCEPT !["command_worker"] = NoCommand]
    BY <1>9, Finished DEF SaveDraftToImap, Procs
  <2>4. Origins'
    BY <1>9, <2>3 DEF SaveDraftToImap, Origins, Working, Procs
  <2>5. QED
    BY <1>9, <2>2, <2>3, <2>4 DEF SaveDraftToImap, Windows, Queued, Counted, Reported
<1>10. ASSUME NEW p \in Procs, SendStep(p) PROVE MailBase'
  <2> DEFINE m == job[p].draft.mail
  <2>1. m \in Mails /\ pc[p] \in {"prepare", "smtp", "copy", "delete"}
    BY <1>10, CommandTypes DEF SendStep, Prepare, SmtpSend, FileSentCopy, DeleteDraft, JobFits
  <2>2. \/ UNCHANGED <<job, told>> /\ \E s \in {"smtp", "copy", "delete"} : Goto(p, s)
        \/ \E what \in {"sent", "failed"} : Finish(p) /\ told' = [told EXCEPT ![m] = what]
    BY <1>10 DEF SendStep, Prepare, SmtpSend, FileSentCopy, DeleteDraft, Report
  <2>3. /\ Working' /\ JobFits'
        /\ job' = job \/ job' = [job EXCEPT ![p] = NoCommand]
    BY <2>1, <2>2, Finished, Moved DEF Places
  <2>4. UNCHANGED <<orig, compose, begun, queue, copies, asked>>
    BY <1>10 DEF SendStep, Prepare, SmtpSend, FileSentCopy, DeleteDraft
  <2>5. Origins'
    BY <2>3, <2>4 DEF Origins, Working, Procs
  <2>6. told' \in [Mails -> {"nothing", "sent", "failed"}]
    BY <2>1, <2>2 DEF Reported
  <2>7. causes' \subseteq {"answer lost", "row kept", "exit"}
    BY <1>10 DEF SendStep, Prepare, SmtpSend, FileSentCopy, DeleteDraft, Reported
  <2>8. saved' \subseteq saved
    BY <1>10 DEF SendStep, Prepare, SmtpSend, FileSentCopy, DeleteDraft
  <2>9. /\ delivered' = delivered \/ delivered' = Bump(delivered, m)
        /\ filed' = filed \/ filed' = Bump(filed, m)
    BY <1>10 DEF SendStep, Prepare, SmtpSend, FileSentCopy, DeleteDraft
  <2>10. Counted'
    BY <2>1, <2>4, <2>9, Bumped DEF Counted
  <2>11. QED
    BY <2>3, <2>4, <2>5, <2>6, <2>7, <2>8, <2>10 DEF Windows, Queued, Stored, Reported
<1>11. CASE UNCHANGED mailVars
  BY <1>11 DEF mailVars, Windows, Queued, Working, Stored, Counted, Reported, JobFits, Origins
<1>12. QED
  BY <1>1, <1>2, <1>3, <1>4, <1>5, <1>6, <1>7, <1>8, <1>9, <1>10, <1>11
  DEF Next, vars, MailStep, User, Agent, CommandWorker, Procs

\* Windows, queue, tables and reports have the types the code gives them.
THEOREM OutboxTypes == Spec => []TypeOK
<1>1. Init => TokenInv /\ MailBase
  BY TokenInvStarts, MailTypesStart DEF Init, MailBase
<1>2. TokenInv /\ MailBase /\ [Next]_vars => (TokenInv /\ MailBase)'
  BY TokenInvStays, TokensAlone, MailBaseStays
<1>3. TokenInv /\ MailBase => TypeOK
  BY TypesByPart DEF TokenInv, MailBase
<1>4. QED
  BY <1>1, <1>2, <1>3, PTL DEF Spec
-----------------------------------------------------------------------------
(* Recipients. *)

Aimed(c, author) ==
  /\ c.kind = "reply all" => Everyone \subseteq c.rcpts
  /\ c.kind \in {"reply", "reply all"} => author \subseteq c.rcpts
  /\ Junk \in c.rcpts => c.rcpts \cap CommaNamed # {}

NotToMyself(c) == c.kind \in {"reply", "reply all"} /\ Me \in c.rcpts => Me \in Author(orig)

FromWindow(c) == Aimed(c, Author(orig)) /\ NotToMyself(c)

\* What the window holds is aimed right, and stays so in the queue and at work.
AimInv ==
  /\ compose # NoDraft => FromWindow(compose)
  /\ \A n \in DOMAIN queue : FromWindow(queue[n].draft)
  /\ job["command_worker"] # NoCommand => FromWindow(job["command_worker"].draft)
  /\ job["mcp"] # NoCommand => Aimed(job["mcp"].draft, orig.from)

LEMMA WindowAims ==
  ASSUME orig \in Originals, NEW k \in Kinds, NEW typed \in Typed, NEW m
  PROVE  FromWindow([mail |-> m, kind |-> k, rcpts |-> Addressed(k, typed)])
<1> DEFINE c == [mail |-> m, kind |-> k, rcpts |-> Addressed(k, typed)]
<1>1. c.kind = k /\ c.rcpts = Addressed(k, typed)
  OBVIOUS
<1>2. Addressed(k, typed) \in SUBSET Addr
  BY OutboxAssumption, RepliesAreText DEF Addressed
<1>3. Junk \notin c.rcpts
  BY <1>1, <1>2, AddressAssumption
<1>4. k = "reply" => c.rcpts = Author(orig)
  BY <1>1 DEF Addressed, BuildReply
<1>5. k = "reply all" => c.rcpts = Author(orig) \cup ((orig.to \cup orig.cc) \ {Me})
  BY <1>1 DEF Addressed, BuildReply
<1>6. k = "new" \/ k = "reply" \/ k = "reply all"
  BY DEF Kinds
<1> HIDE DEF c
<1>7. QED
  BY <1>1, <1>3, <1>4, <1>5, <1>6 DEF FromWindow, Aimed, NotToMyself, Everyone, c

LEMMA AgentAims ==
  ASSUME orig \in Originals, NEW k \in Kinds, NEW typed \in Typed, NEW m
  PROVE  LET to == IF k = "new" THEN typed ELSE McpReply(orig, k = "reply all")
         IN  Aimed([mail |-> m, kind |-> k, rcpts |-> to], orig.from)
<1> DEFINE to == IF k = "new" THEN typed ELSE McpReply(orig, k = "reply all")
           c == [mail |-> m, kind |-> k, rcpts |-> to]
<1>1. c.kind = k /\ c.rcpts = to
  OBVIOUS
<1>2. to \in SUBSET Addr
  BY OutboxAssumption, RepliesAreText
<1>3. Junk \notin c.rcpts
  BY <1>1, <1>2, AddressAssumption
<1>4. k = "reply" => c.rcpts = orig.from
  BY <1>1 DEF McpReply
<1>5. k = "reply all" => c.rcpts = orig.from \cup (orig.to \ {Me, MeOtherwise}) \cup orig.cc
  BY <1>1 DEF McpReply
<1>6. k = "new" \/ k = "reply" \/ k = "reply all"
  BY DEF Kinds
<1>7. Aimed(c, orig.from)
  <2> HIDE DEF c, to
  <2>1. QED
    BY <1>1, <1>3, <1>4, <1>5, <1>6 DEF Aimed, Everyone
<1>8. QED
  BY <1>7

\* The text fields add nothing but what a comma in a name leaves behind.
LEMMA ParsedAims ==
  ASSUME compose \in Draft, FromWindow(compose), NEW name \in {"save", "send"}
  PROVE  FromWindow(SyncToDraft(name).draft)
<1>1. /\ SyncToDraft(name).draft.kind = compose.kind
      /\ SyncToDraft(name).draft.rcpts = ParseAddrs(compose.rcpts)
  BY SyncedDraft
<1>2. Junk # Me
  BY AddressAssumption
<1>3. QED
  BY <1>1, <1>2 DEF FromWindow, Aimed, NotToMyself, ParseAddrs
\* The end of a job touches neither the window nor the queue.
LEMMA SendKeeps ==
  ASSUME MailBase, NEW p \in Procs, SendStep(p)
  PROVE  /\ UNCHANGED <<orig, compose, begun, queue, copies, asked>>
         /\ job' = job \/ job' = [job EXCEPT ![p] = NoCommand]
BY DEF SendStep, Prepare, SmtpSend, FileSentCopy, DeleteDraft, Report, Finish

LEMMA AimStays == MailBase /\ AimInv /\ [Next]_vars => AimInv' /\ orig' = orig
<1> SUFFICES ASSUME MailBase, AimInv, [Next]_vars PROVE AimInv' /\ orig' = orig
  OBVIOUS
<1> USE DEF AimInv
<1>0. orig \in Originals /\ Working /\ JobFits /\ Queued
  BY DEF MailBase, MailTypes, Windows
<1>a. ASSUME UNCHANGED orig
      PROVE  /\ \A c : FromWindow(c) => (FromWindow(c))'
             /\ \A c : Aimed(c, orig.from) => (Aimed(c, orig.from))'
  BY <1>a DEF FromWindow, Aimed, NotToMyself, Everyone, Author
<1>1. ASSUME NEW m \in Written, NEW k \in Kinds, NEW typed \in Typed, StartCompose(m, k, typed)
      PROVE  AimInv' /\ orig' = orig
  BY <1>0, <1>1, <1>a, WindowAims DEF StartCompose
<1>2. ASSUME NEW name \in {"save", "send"}, queue' = Append(queue, SyncToDraft(name)),
             compose # NoDraft, compose' \in {compose, NoDraft}, UNCHANGED <<orig, job>>
      PROVE  AimInv' /\ orig' = orig
  <2>1. compose \in Draft
    BY <1>2 DEF MailBase, MailTypes, Windows
  <2>2. SyncToDraft(name) \in Command /\ FromWindow(SyncToDraft(name).draft)
    BY <1>2, <2>1, SyncedDraft, ParsedAims
  <2>3. \A n \in DOMAIN queue' : FromWindow(queue'[n].draft)
    BY <1>0, <1>2, <2>2, Appended DEF Queued
  <2>4. QED
    BY <1>2, <1>a, <2>3
<1>3. CASE SaveComposeDraft
  BY <1>2, <1>3 DEF SaveComposeDraft, Enqueue
<1>4. CASE SendCompose
  BY <1>2, <1>4 DEF SendCompose, Enqueue
<1>5. CASE CancelCompose
  BY <1>5, <1>a DEF CancelCompose
<1>6. CASE Exit
  <2>1. /\ compose' = NoDraft /\ orig' = orig /\ queue' = <<>>
        /\ job' = [job EXCEPT !["command_worker"] = NoCommand]
    BY <1>6 DEF Exit
  <2>2. QED
    BY <1>0, <1>a, <2>1, EmptyQueue DEF Working, Procs
<1>7. ASSUME NEW m \in Dictated, NEW k \in Kinds, NEW typed \in Typed, AgentCalls(m, k, typed)
      PROVE  AimInv' /\ orig' = orig
  <2>1. PICK to : /\ Aimed([mail |-> m, kind |-> k, rcpts |-> to], orig.from)
                  /\ job' = [job EXCEPT !["mcp"] = [name |-> "send", draft |-> [mail |-> m, kind |-> k, rcpts |-> to]]]
    BY <1>0, <1>7, AgentAims DEF AgentCalls, Begin
  <2>2. UNCHANGED <<orig, compose, queue>>
    BY <1>7 DEF AgentCalls
  <2>3. /\ job'["mcp"].draft = [mail |-> m, kind |-> k, rcpts |-> to]
        /\ job'["command_worker"] = job["command_worker"]
    BY <1>0, <2>1 DEF Working, Procs
  <2>4. QED
    BY <1>a, <2>1, <2>2, <2>3
<1>8. CASE Receive
  <2>1. /\ queue # <<>> /\ queue' = Tail(queue) /\ UNCHANGED <<orig, compose>>
        /\ job' = [job EXCEPT !["command_worker"] = Head(queue)]
    BY <1>8 DEF Receive, Begin
  <2>2. /\ FromWindow(Head(queue).draft)
        /\ \A n \in DOMAIN queue' : FromWindow(queue'[n].draft)
    BY <1>0, <2>1, Dequeued DEF Queued
  <2>3. job'["command_worker"] = Head(queue) /\ job'["mcp"] = job["mcp"]
    BY <1>0, <2>1 DEF Working, Procs
  <2>4. QED
    BY <1>a, <2>1, <2>2, <2>3
<1>9. ASSUME NEW p \in Procs, UNCHANGED <<orig, compose, queue>>,
             job' = job \/ job' = [job EXCEPT ![p] = NoCommand]
      PROVE  AimInv' /\ orig' = orig
  BY <1>0, <1>9, <1>a DEF Working, Procs
<1>10. CASE UpsertDraft \/ SaveDraftToImap
  BY <1>9, <1>10 DEF UpsertDraft, SaveDraftToImap, Finish, Procs
<1>11. ASSUME NEW p \in Procs, SendStep(p) PROVE AimInv' /\ orig' = orig
  BY <1>9, <1>11, SendKeeps
<1>12. CASE UNCHANGED mailVars
  BY <1>12, <1>a DEF mailVars
<1>13. QED
  BY <1>1, <1>3, <1>4, <1>5, <1>6, <1>7, <1>8, <1>10, <1>11, <1>12
  DEF Next, vars, MailStep, User, Agent, CommandWorker, Procs

\* A reply to all reaches everyone the message was addressed to, a reply from the
\* TUI goes to the account itself only when it wrote the message, and no address
\* is mangled on its way through the window unless a name has a comma.
THEOREM RepliesAreAimed == Spec => []RepliesReachAll
<1>1. Init => MailBase /\ AimInv
  <2> SUFFICES ASSUME Init PROVE AimInv
    BY MailTypesStart DEF MailBase
  <2>1. compose = NoDraft /\ queue = <<>> /\ job = [p \in Procs |-> NoCommand]
    BY DEF Init
  <2>2. QED
    BY <2>1, EmptyQueue DEF AimInv, Procs
<1>2. MailBase /\ AimInv /\ [Next]_vars => (MailBase /\ AimInv)'
  BY MailBaseStays, AimStays
<1>3. MailBase /\ AimInv => RepliesReachAll
  <2> SUFFICES ASSUME MailBase, AimInv, NEW p \in Procs, job[p].draft # NoDraft
               PROVE  LET c == job[p].draft IN
                      /\ c.kind = "reply all" => Everyone \subseteq c.rcpts
                      /\ c.kind \in {"reply", "reply all"} =>
                           /\ (IF p = "mcp" THEN orig.from ELSE Author(orig)) \subseteq c.rcpts
                           /\ p = "command_worker" /\ Me \in c.rcpts => Me \in Author(orig)
                      /\ Junk \in c.rcpts => c.rcpts \cap CommaNamed # {}
    BY DEF RepliesReachAll
  <2>1. job[p] # NoCommand
    BY CommandTypes
  <2>2. p = "mcp" \/ p = "command_worker"
    BY DEF Procs
  <2>3. QED
    BY <2>1, <2>2 DEF AimInv, FromWindow, Aimed, NotToMyself
<1>4. QED
  BY <1>1, <1>2, <1>3, PTL DEF Spec
-----------------------------------------------------------------------------
(* Every mail is on its way once. *)

Out(m) == \E n \in DOMAIN queue : queue[n].name = "send" /\ queue[n].draft.mail = m

Sending(p, m) == job[p].name = "send" /\ job[p].draft.mail = m

\* Once a mail is sent from the window it is in one place: in the queue, once, or
\* at work; the window does not open for it again.
Single ==
  /\ \A n \in DOMAIN queue : queue[n].name = "send" =>
       /\ compose.mail # queue[n].draft.mail
       /\ ~ Sending("command_worker", queue[n].draft.mail)
       /\ \A k \in DOMAIN queue :
            queue[k].name = "send" /\ queue[k].draft.mail = queue[n].draft.mail => k = n
  /\ compose # NoDraft => ~ Sending("command_worker", compose.mail)

StillToCome(m) == m \in Written \ begun \/ compose.mail = m \/ Pending(m)

\* While a mail is still to come nobody has been told anything of it.
UntoldYet == \A m \in Mails : StillToCome(m) => told[m] = "nothing"

LedgerInv == Single /\ UntoldYet

LEMMA PendingIs ==
  /\ \A m : Pending(m) <=> Out(m) \/ \E p \in Procs : Sending(p, m)
  /\ \A m : Pending(m)' <=> Out(m)' \/ \E p \in Procs : Sending(p, m)'
BY DEF Pending, Out, Sending

LEMMA OutAppended ==
  ASSUME queue \in Seq(Command), NEW c \in Command, queue' = Append(queue, c)
  PROVE  \A m : Out(m)' <=> Out(m) \/ (c.name = "send" /\ c.draft.mail = m)
<1>1. /\ DOMAIN queue' = DOMAIN queue \cup {Len(queue) + 1}
      /\ \A n \in DOMAIN queue : queue'[n] = queue[n]
      /\ queue'[Len(queue) + 1] = c
  BY Appended
<1>2. QED
  BY <1>1 DEF Out

LEMMA OutDequeued ==
  ASSUME queue \in Seq(Command), queue # <<>>, queue' = Tail(queue)
  PROVE  \A m : Out(m) <=> Out(m)' \/ (Head(queue).name = "send" /\ Head(queue).draft.mail = m)
<1>1. /\ Head(queue) = queue[1] /\ 1 \in DOMAIN queue
      /\ \A n \in DOMAIN queue' : n + 1 \in DOMAIN queue \ {1} /\ queue'[n] = queue[n + 1]
      /\ \A n \in DOMAIN queue \ {1} : n - 1 \in DOMAIN queue' /\ queue'[n - 1] = queue[n]
  BY Dequeued
<1>2. ASSUME NEW m, Out(m)' PROVE Out(m)
  <2>1. PICK n \in DOMAIN queue' : queue'[n].name = "send" /\ queue'[n].draft.mail = m
    BY <1>2 DEF Out
  <2>2. n + 1 \in DOMAIN queue /\ queue[n + 1] = queue'[n]
    BY <1>1, <2>1
  <2>3. QED
    BY <2>1, <2>2 DEF Out
<1>3. ASSUME NEW m, Out(m), ~ (Head(queue).name = "send" /\ Head(queue).draft.mail = m)
      PROVE  Out(m)'
  <2>1. PICK n \in DOMAIN queue : queue[n].name = "send" /\ queue[n].draft.mail = m
    BY <1>3 DEF Out
  <2>2. n - 1 \in DOMAIN queue' /\ queue'[n - 1] = queue[n]
    BY <1>1, <1>3, <2>1
  <2>3. QED
    BY <2>1, <2>2 DEF Out
<1>4. ASSUME NEW m, Head(queue).name = "send", Head(queue).draft.mail = m PROVE Out(m)
  BY <1>1, <1>4 DEF Out
<1>5. QED
  BY <1>2, <1>3, <1>4

\* Where a mail is, the other process has nothing to do with it.
LEMMA Apart ==
  ASSUME MailBase
  PROVE  /\ \A m \in Mails : Sending("command_worker", m) => m \in begun /\ m \in Written
         /\ \A m \in Mails : Sending("mcp", m) => m \in Dictated
         /\ \A m \in Mails : Out(m) => m \in begun
         /\ \A m \in Dictated : m \in Mails /\ m \notin Written /\ m \notin begun /\ compose.mail # m /\ ~ Out(m)
         /\ compose # NoDraft => compose.mail \in begun /\ compose.mail \in Mails
         /\ compose = NoDraft => compose.mail \notin Mails
<1>1. begun \subseteq Written /\ Written \cap Dictated = {} /\ NoMail \notin Mails /\ Mails = Written \cup Dictated
  BY OutboxAssumption DEF MailBase, MailTypes, Windows, Mails
<1>2. Origins
  BY DEF MailBase
<1>3. QED
  BY <1>1, <1>2, CommandTypes DEF Origins, Sending, Out

\* What SendStep may do, case by case.
LEMMA SendCases ==
  ASSUME NEW p \in Procs, SendStep(p)
  PROVE  LET m == job[p].draft.mail IN
         \/ /\ pc[p] \in {"prepare", "smtp"} /\ Report(p, "failed")
            /\ UNCHANGED <<delivered, filed, saved, causes>>
         \/ /\ pc[p] = "prepare" /\ Goto(p, "smtp")
            /\ UNCHANGED <<job, told, delivered, filed, saved, causes>>
         \/ /\ pc[p] = "smtp" /\ delivered' = Bump(delivered, m) /\ Goto(p, "copy")
            /\ UNCHANGED <<job, told, filed, saved, causes>>
         \/ /\ pc[p] = "smtp" /\ delivered' = Bump(delivered, m) /\ Report(p, "failed")
            /\ causes' = causes \cup {"answer lost"} /\ UNCHANGED <<filed, saved>>
         \/ /\ pc[p] = "copy" /\ Goto(p, "delete") /\ (filed' = Bump(filed, m) \/ filed' = filed)
            /\ UNCHANGED <<job, told, delivered, saved, causes>>
         \/ /\ pc[p] = "delete" /\ Report(p, "sent") /\ saved' = saved \ {m}
            /\ UNCHANGED <<delivered, filed, causes>>
         \/ /\ pc[p] = "delete" /\ Report(p, "failed") /\ causes' = causes \cup {"row kept"}
            /\ UNCHANGED <<delivered, filed, saved>>
BY DEF SendStep, Prepare, SmtpSend, FileSentCopy, DeleteDraft
\* A job that ends with a report takes its mail out of the books.
LEMMA ReportedOnce ==
  ASSUME MailBase, LedgerInv, NEW p \in Procs, SendStep(p), NEW what, Report(p, what),
         NEW m, m = job[p].draft.mail
  PROVE  /\ m \in Mails /\ Sending(p, m)
         /\ \A k \in Mails : Pending(k)' <=> Pending(k) /\ k # m
         /\ \A q \in Procs : job'[q] = IF q = p THEN NoCommand ELSE job[q]
         /\ \A k \in Mails : told'[k] = IF k = m THEN what ELSE told[k]
         /\ ~ StillToCome(m)'
<1>1. m \in Mails /\ job[p].name = "send"
  BY CommandTypes DEF MailBase, JobFits, SendStep, Prepare, SmtpSend, FileSentCopy, DeleteDraft
<1>2. \A q \in Procs : job'[q] = IF q = p THEN NoCommand ELSE job[q]
  BY DEF Report, Finish, MailBase, MailTypes, Working
<1>3. \A k \in Mails : told'[k] = IF k = m THEN what ELSE told[k]
  BY <1>1 DEF Report, MailBase, MailTypes, Reported
<1>4. UNCHANGED <<compose, begun, queue>>
  BY SendKeeps
<1>5. Sending(p, m)
  BY <1>1 DEF Sending
<1>6. /\ \A k : ~ Sending(p, k)'
      /\ \A q \in Procs \ {p}, k \in Mails : Sending(q, k)' <=> Sending(q, k)
  BY <1>2, CommandTypes DEF Sending
<1>7. \A k : Out(k)' <=> Out(k)
  BY <1>4 DEF Out
<1>8. \A k \in Mails \ {m} : ~ Sending(p, k)
  BY DEF Sending
<1>9. ~ Out(m) /\ compose.mail # m /\ m \notin Written \ begun
  <2>1. CASE p = "command_worker"
    <3>1. m \in begun
      BY <1>1, <1>5, <2>1, Apart
    <3>2. ~ Out(m)
      BY <1>5, <2>1 DEF LedgerInv, Single, Out
    <3>3. compose.mail # m
      BY <1>1, <1>5, <2>1, Apart DEF LedgerInv, Single
    <3>4. QED
      BY <3>1, <3>2, <3>3
  <2>2. CASE p = "mcp"
    BY <1>1, <1>5, <2>2, Apart
  <2>3. QED
    BY <2>1, <2>2 DEF Procs
<1>10. \A q \in Procs \ {p} : ~ Sending(q, m)
  BY <1>1, <1>5, Apart DEF Procs
<1>11. \A k \in Mails : Pending(k)' <=> Pending(k) /\ k # m
  <2>1. \A k \in Mails : Pending(k)' <=> Out(k)' \/ \E q \in Procs : Sending(q, k)'
    BY PendingIs
  <2>2. QED
    BY <1>6, <1>7, <1>8, <1>9, <1>10, <2>1, PendingIs
<1>12. ~ StillToCome(m)'
  BY <1>1, <1>4, <1>9, <1>11 DEF StillToCome
<1>13. QED
  BY <1>1, <1>2, <1>3, <1>5, <1>11, <1>12

LEMMA LedgerStays == MailBase /\ LedgerInv /\ [Next]_vars => LedgerInv'
<1> SUFFICES ASSUME MailBase, LedgerInv, [Next]_vars PROVE LedgerInv'
  OBVIOUS
<1>0. /\ Working /\ JobFits /\ queue \in Seq(Command) /\ told \in [Mails -> {"nothing", "sent", "failed"}]
      /\ Single /\ UntoldYet
  BY DEF MailBase, MailTypes, Queued, Reported, LedgerInv
<1>1. ASSUME NEW m \in Written, NEW k \in Kinds, NEW typed \in Typed, StartCompose(m, k, typed)
      PROVE  LedgerInv'
  <2>1. /\ compose = NoDraft /\ m \notin begun /\ m \in Mails /\ compose'.mail = m
        /\ begun' = begun \cup {m} /\ UNCHANGED <<queue, job, told>>
    BY <1>1 DEF StartCompose, Mails
  <2>2. ~ Out(m) /\ ~ Sending("command_worker", m)
    BY <2>1, Apart
  <2>3. Single'
    BY <1>0, <2>1, <2>2 DEF Single, Out, Sending
  <2>4. \A j \in Mails : StillToCome(j)' => StillToCome(j)
    BY <2>1 DEF StillToCome, Pending
  <2>5. QED
    BY <1>0, <2>1, <2>3, <2>4 DEF LedgerInv, UntoldYet
<1>2. ASSUME NEW name \in {"save", "send"}, compose # NoDraft,
             queue' = Append(queue, SyncToDraft(name)), UNCHANGED <<begun, job, told>>,
             compose' = IF name = "send" THEN NoDraft ELSE compose
      PROVE  LedgerInv'
  <2> DEFINE c == SyncToDraft(name)
  <2>1. compose \in Draft /\ compose.mail \in Mails /\ compose.mail # NoMail
    BY <1>2, OutboxAssumption, CommandTypes DEF MailBase, MailTypes, Windows
  <2>2. c \in Command /\ c.name = name /\ c.draft.mail = compose.mail
    BY <2>1, SyncedDraft
  <2> HIDE DEF c
  <2>3. /\ DOMAIN queue' = DOMAIN queue \cup {Len(queue) + 1} /\ Len(queue) + 1 \notin DOMAIN queue
        /\ \A n \in DOMAIN queue : queue'[n] = queue[n]
        /\ queue'[Len(queue) + 1] = c
    BY <1>0, <1>2, <2>2, Appended DEF c
  <2>4. ~ Sending("command_worker", compose.mail)
    BY <1>0, <1>2 DEF Single
  <2>5. \A n \in DOMAIN queue : queue[n].name = "send" => compose.mail # queue[n].draft.mail
    BY <1>0 DEF Single
  <2>6. \A n \in DOMAIN queue : queue[n].draft.mail # NoMail
    <3>1. \A n \in DOMAIN queue : queue[n] \in Command
      BY <1>0
    <3>2. QED
      BY <3>1, CommandTypes, OutboxAssumption
  <2>7. CASE name = "save"
    <3>1. Single'
      BY <1>0, <1>2, <2>2, <2>3, <2>7 DEF Single, Sending
    <3>2. \A j : Out(j)' <=> Out(j)
      BY <1>0, <1>2, <2>2, <2>7, OutAppended DEF c
    <3>3. \A j \in Mails : StillToCome(j)' => StillToCome(j)
      BY <1>2, <2>7, <3>2 DEF StillToCome, Pending, Out
    <3>4. QED
      BY <1>0, <1>2, <3>1, <3>3 DEF LedgerInv, UntoldYet
  <2>8. CASE name = "send"
    <3>1. compose' = NoDraft /\ NoDraft.mail = NoMail
      BY <1>2, <2>8, CommandTypes
    <3>2. \A n \in DOMAIN queue' : queue'[n].name = "send" =>
            /\ compose'.mail # queue'[n].draft.mail
            /\ ~ Sending("command_worker", queue'[n].draft.mail)
            /\ \A k \in DOMAIN queue' :
                 queue'[k].name = "send" /\ queue'[k].draft.mail = queue'[n].draft.mail => k = n
      BY <1>0, <2>1, <2>2, <2>3, <2>4, <2>5, <2>6, <3>1 DEF Single
    <3>3. Single'
      BY <1>2, <3>1, <3>2 DEF Single, Sending
    <3>4. \A j : Out(j)' <=> Out(j) \/ j = compose.mail
      BY <1>0, <1>2, <2>2, <2>8, OutAppended DEF c
    <3>5. \A j \in Mails : StillToCome(j)' => StillToCome(j)
      <4>1. \A j : Pending(j)' => Pending(j) \/ j = compose.mail
        <5>1. \A q, j : Sending(q, j)' <=> Sending(q, j)
          BY <1>2 DEF Sending
        <5>2. QED
          BY <3>4, <5>1, PendingIs
      <4>2. QED
        BY <1>2, <2>1, <3>1, <4>1, OutboxAssumption DEF StillToCome
    <3>6. QED
      BY <1>0, <1>2, <3>3, <3>5 DEF LedgerInv, UntoldYet
  <2>9. QED
    BY <2>7, <2>8
<1>3. CASE SaveComposeDraft
  BY <1>2, <1>3 DEF SaveComposeDraft, Enqueue
<1>4. CASE SendCompose
  BY <1>2, <1>4 DEF SendCompose, Enqueue
<1>5. CASE CancelCompose
  <2>1. compose' = NoDraft /\ NoDraft.mail = NoMail /\ NoMail \notin Mails /\ UNCHANGED <<begun, queue, job, told>>
    BY <1>5, CommandTypes, OutboxAssumption DEF CancelCompose
  <2>2. \A n \in DOMAIN queue : queue[n].draft.mail # NoMail
    <3>1. \A n \in DOMAIN queue : queue[n] \in Command
      BY <1>0
    <3>2. QED
      BY <3>1, CommandTypes, OutboxAssumption
  <2>3. Single'
    BY <1>0, <2>1, <2>2 DEF Single, Sending
  <2>4. \A j \in Mails : StillToCome(j)' => StillToCome(j)
    BY <2>1 DEF StillToCome, Pending
  <2>5. QED
    BY <1>0, <2>1, <2>3, <2>4 DEF LedgerInv, UntoldYet
<1>6. CASE Exit
  <2>1. /\ compose' = NoDraft /\ NoDraft.mail = NoMail /\ NoMail \notin Mails /\ queue' = <<>>
        /\ UNCHANGED <<begun, told>> /\ job' = [job EXCEPT !["command_worker"] = NoCommand]
    BY <1>6, CommandTypes, OutboxAssumption DEF Exit
  <2>2. \A j : ~ Sending("command_worker", j)' /\ (Sending("mcp", j)' <=> Sending("mcp", j))
    BY <1>0, <2>1, CommandTypes DEF Sending, Working, Procs
  <2>3. Single'
    BY <2>1, EmptyQueue DEF Single
  <2>4. \A j : ~ Out(j)'
    BY <2>1, EmptyQueue DEF Out
  <2>5. \A j : Pending(j)' => Pending(j)
    <3>1. \A j : Pending(j)' <=> Out(j)' \/ \E p \in Procs : Sending(p, j)'
      BY PendingIs
    <3>2. QED
      BY <2>2, <2>4, <3>1, PendingIs DEF Procs
  <2>6. \A j \in Mails : StillToCome(j)' => StillToCome(j)
    BY <2>1, <2>5 DEF StillToCome
  <2>7. QED
    BY <1>0, <2>1, <2>3, <2>6 DEF LedgerInv, UntoldYet
<1>7. ASSUME NEW m \in Dictated, NEW k \in Kinds, NEW typed \in Typed, AgentCalls(m, k, typed)
      PROVE  LedgerInv'
  <2>1. PICK c : c.draft.mail = m /\ c.name = "send" /\ job' = [job EXCEPT !["mcp"] = c]
    <3>1. PICK to : job' = [job EXCEPT !["mcp"] = [name |-> "send", draft |-> [mail |-> m, kind |-> k, rcpts |-> to]]]
      BY <1>7 DEF AgentCalls, Begin
    <3>2. QED
      BY <3>1
  <2>2. /\ UNCHANGED <<compose, begun, queue>> /\ told' = [told EXCEPT ![m] = "nothing"] /\ m \in Mails
        /\ job'["command_worker"] = job["command_worker"]
        /\ \A j \in Mails \ {m} : Sending("mcp", j)' => Sending("mcp", j)
    BY <1>0, <1>7, <2>1 DEF AgentCalls, Mails, Working, Procs, Sending
  <2>3. Single'
    BY <1>0, <2>2 DEF Single, Sending
  <2>4. \A j \in Mails \ {m} : StillToCome(j)' => StillToCome(j)
    BY <2>2, PendingIs DEF StillToCome, Pending, Sending, Procs
  <2>5. \A j \in Mails : told'[j] = IF j = m THEN "nothing" ELSE told[j]
    BY <1>0, <2>2
  <2>6. QED
    BY <1>0, <2>3, <2>4, <2>5 DEF LedgerInv, UntoldYet
<1>8. CASE Receive
  <2>1. /\ queue # <<>> /\ queue' = Tail(queue) /\ UNCHANGED <<compose, begun, told>>
        /\ job' = [job EXCEPT !["command_worker"] = Head(queue)]
    BY <1>8 DEF Receive, Begin
  <2>2. /\ Head(queue) = queue[1] /\ 1 \in DOMAIN queue
        /\ \A n \in DOMAIN queue' : n + 1 \in DOMAIN queue \ {1} /\ queue'[n] = queue[n + 1]
    BY <1>0, <2>1, Dequeued
  <2>3. /\ \A j : Sending("command_worker", j)' <=> queue[1].name = "send" /\ queue[1].draft.mail = j
        /\ \A j : Sending("mcp", j)' <=> Sending("mcp", j)
    BY <1>0, <2>1, <2>2 DEF Sending, Working, Procs
  <2>4. \A n \in DOMAIN queue' : queue'[n].name = "send" =>
          /\ compose'.mail # queue'[n].draft.mail
          /\ (~ Sending("command_worker", queue[n].draft.mail))'
    <3>1. TAKE n \in DOMAIN queue'
    <3>2. n + 1 \in DOMAIN queue \ {1} /\ queue'[n] = queue[n + 1] /\ compose' = compose
      BY <2>1, <2>2
    <3>3. queue[n + 1].name = "send" => ~ (queue[1].name = "send" /\ queue[1].draft.mail = queue[n + 1].draft.mail)
      BY <1>0, <2>2, <3>2 DEF Single
    <3>4. queue[n + 1].name = "send" => compose.mail # queue[n + 1].draft.mail
      BY <1>0, <3>2 DEF Single
    <3>5. QED
      BY <2>3, <3>2, <3>3, <3>4
  <2>5. \A n, k \in DOMAIN queue' :
          /\ queue'[n].name = "send" /\ queue'[k].name = "send"
          /\ queue'[k].draft.mail = queue'[n].draft.mail
          => k = n
    <3>1. TAKE n, k \in DOMAIN queue'
    <3>2. /\ n + 1 \in DOMAIN queue /\ k + 1 \in DOMAIN queue
          /\ queue'[n] = queue[n + 1] /\ queue'[k] = queue[k + 1]
      BY <2>2
    <3>3. queue'[n].name = "send" /\ queue'[k].name = "send" /\ queue'[k].draft.mail = queue'[n].draft.mail
          => k + 1 = n + 1
      BY <1>0, <3>2 DEF Single
    <3>4. n \in Nat /\ k \in Nat
      BY <1>0, <2>1, Dequeued
    <3>5. QED
      BY <3>3, <3>4
  <2>6. Single'
    BY <1>0, <2>1, <2>2, <2>3, <2>4, <2>5 DEF Single
  <2>7. \A j : Pending(j)' => Pending(j)
    <3>1. \A j : Pending(j)' <=> Out(j)' \/ \E p \in Procs : Sending(p, j)'
      BY PendingIs
    <3>2. \A j : Out(j) <=> Out(j)' \/ (Head(queue).name = "send" /\ Head(queue).draft.mail = j)
      BY <1>0, <2>1, OutDequeued
    <3>3. QED
      BY <2>2, <2>3, <3>1, <3>2, PendingIs DEF Procs
  <2>8. QED
    BY <1>0, <2>1, <2>6, <2>7 DEF LedgerInv, UntoldYet, StillToCome
<1>9. CASE UpsertDraft \/ SaveDraftToImap
  <2>1. /\ UNCHANGED <<compose, begun, queue, told>> /\ job["command_worker"].name = "save"
        /\ job' = job \/ job' = [job EXCEPT !["command_worker"] = NoCommand]
    BY <1>0, <1>9 DEF UpsertDraft, SaveDraftToImap, Finish, JobFits, Procs
  <2>2. \A j : ~ Sending("command_worker", j)' /\ (Sending("mcp", j)' <=> Sending("mcp", j))
    BY <1>0, <2>1, CommandTypes DEF Sending, Working, Procs
  <2>3. Single'
    BY <1>0, <2>1, <2>2 DEF Single
  <2>4. \A j : Pending(j)' => Pending(j)
    <3>1. \A j : Pending(j)' <=> Out(j)' \/ \E p \in Procs : Sending(p, j)'
      BY PendingIs
    <3>2. \A j : Out(j)' <=> Out(j)
      BY <2>1 DEF Out
    <3>3. QED
      BY <2>2, <3>1, <3>2, PendingIs DEF Procs
  <2>5. QED
    BY <1>0, <2>1, <2>3, <2>4 DEF LedgerInv, UntoldYet, StillToCome
<1>10. ASSUME NEW p \in Procs, SendStep(p) PROVE LedgerInv'
  <2>1. UNCHANGED <<compose, begun, queue>>
    BY <1>10, SendKeeps
  <2>2. ASSUME NEW what, Report(p, what) PROVE LedgerInv'
    <3> DEFINE m == job[p].draft.mail
    <3>0. PICK w : w = m
      OBVIOUS
    <3>1. \A j \in Mails : StillToCome(j)' => StillToCome(j) /\ j # w
      <4>1. /\ \A j \in Mails : Pending(j)' => Pending(j)
            /\ w \in Mails /\ ~ StillToCome(w)'
        BY <1>10, <2>2, <3>0, ReportedOnce
      <4>2. QED
        BY <2>1, <4>1 DEF StillToCome
    <3>2. \A j : Sending("command_worker", j)' => Sending("command_worker", j)
      BY <1>10, <2>2, ReportedOnce, CommandTypes DEF Sending, Procs
    <3>3. Single'
      BY <1>0, <2>1, <3>2 DEF Single
    <3>4. \A j \in Mails : told'[j] = IF j = m THEN what ELSE told[j]
      BY <1>10, <2>2, ReportedOnce
    <3>5. QED
      BY <1>0, <3>0, <3>1, <3>3, <3>4 DEF LedgerInv, UntoldYet
  <2>3. CASE UNCHANGED <<job, told>>
    <3>1. Single'
      BY <1>0, <2>1, <2>3 DEF Single, Sending
    <3>2. UntoldYet'
      BY <1>0, <2>1, <2>3 DEF UntoldYet, StillToCome, Pending
    <3>3. QED
      BY <3>1, <3>2 DEF LedgerInv
  <2>4. QED
    BY <1>10, <2>2, <2>3, SendCases
<1>11. CASE UNCHANGED mailVars
  BY <1>0, <1>11 DEF mailVars, LedgerInv, Single, Sending, UntoldYet, StillToCome, Pending
<1>12. QED
  BY <1>1, <1>3, <1>4, <1>5, <1>6, <1>7, <1>8, <1>9, <1>10, <1>11
  DEF Next, vars, MailStep, User, Agent, CommandWorker, Procs
-----------------------------------------------------------------------------
(* Nothing is sent twice. *)

Gone(m) == \E p \in Procs : Sending(p, m) /\ pc[p] \in {"copy", "delete"}

\* A mail that was delivered is reported sent, or about to be; or it was written
\* in the TUI, which has exited, and will not be asked for again.
Once(m) ==
  /\ filed[m] <= delivered[m] /\ delivered[m] <= 1
  /\ Gone(m) => delivered[m] = 1
  /\ \A p \in Procs : Sending(p, m) /\ pc[p] = "copy" => filed[m] = 0
  /\ \/ delivered[m] = 0 \/ told[m] = "sent" \/ Gone(m)
     \/ m \in Written /\ told[m] = "nothing" /\ ~ StillToCome(m)

Clean == causes \cap {"answer lost", "row kept"} = {}

OnceInv == Clean => \A m \in Mails : Once(m)

\* A step that leaves a mail where it is, or only takes it out of the window or
\* the queue, keeps what is known of it.
LEMMA OnceKept ==
  ASSUME NEW m \in Mails, Once(m),
         delivered'[m] = delivered[m], filed'[m] = filed[m], told'[m] = told[m],
         \A p \in Procs : (Sending(p, m) /\ pc[p] \in {"copy", "delete"})'
                            <=> Sending(p, m) /\ pc[p] \in {"copy", "delete"},
         \A p \in Procs : (Sending(p, m) /\ pc[p] = "copy")' <=> Sending(p, m) /\ pc[p] = "copy",
         StillToCome(m)' => StillToCome(m)
  PROVE  Once(m)'
<1>1. Gone(m)' <=> Gone(m)
  BY DEF Gone
<1>2. QED
  BY <1>1 DEF Once

LEMMA OnceStays == MailBase /\ LedgerInv /\ OnceInv /\ [Next]_vars => OnceInv'
<1> SUFFICES ASSUME MailBase, LedgerInv, OnceInv, [Next]_vars,
                    Clean', NEW j \in Mails
             PROVE  Once(j)'
  BY DEF OnceInv
<1>0. /\ Working /\ JobFits /\ queue \in Seq(Command) /\ Counted /\ Reported
      /\ Single /\ UntoldYet
  BY DEF MailBase, MailTypes, Queued, LedgerInv
<1>a. causes \subseteq causes'
  BY DEF Next, vars, mailVars, MailStep, User, Agent, CommandWorker, SendStep, StartCompose, SaveComposeDraft,
         SendCompose, CancelCompose, Exit, AgentCalls, Receive, UpsertDraft, SaveDraftToImap, Prepare, SmtpSend,
         FileSentCopy, DeleteDraft
<1>b. \A m \in Mails : Once(m)
  BY <1>a DEF OnceInv, Clean
<1>c. /\ delivered \in [Mails -> Nat] /\ filed \in [Mails -> Nat]
      /\ told \in [Mails -> {"nothing", "sent", "failed"}]
  BY <1>0 DEF Counted, Reported
<1>1. ASSUME NEW m \in Written, NEW k \in Kinds, NEW typed \in Typed, StartCompose(m, k, typed)
      PROVE  Once(j)'
  <2>1. /\ compose'.mail = m /\ m \notin begun /\ begun' = begun \cup {m}
        /\ UNCHANGED <<queue, job, pc, delivered, filed, told>>
    BY <1>1 DEF StartCompose
  <2>2. StillToCome(j)' => StillToCome(j)
    BY <2>1 DEF StillToCome, Pending
  <2>3. QED
    BY <1>b, <2>1, <2>2, OnceKept DEF Sending
<1>2. CASE SaveComposeDraft \/ SendCompose
  <2>1. PICK name \in {"save", "send"} :
          /\ queue' = Append(queue, SyncToDraft(name)) /\ compose # NoDraft
          /\ compose' = IF name = "send" THEN NoDraft ELSE compose
          /\ UNCHANGED <<begun, job, pc, delivered, filed, told>>
    BY <1>2 DEF SaveComposeDraft, SendCompose, Enqueue
  <2>2. /\ SyncToDraft(name) \in Command /\ SyncToDraft(name).draft.mail = compose.mail
        /\ compose.mail \in Mails
    BY <2>1, SyncedDraft, CommandTypes DEF MailBase, MailTypes, Windows
  <2>3. \A q, i : Sending(q, i)' <=> Sending(q, i)
    BY <2>1 DEF Sending
  <2>4. Pending(j)' => Pending(j) \/ j = compose.mail
    BY <1>0, <2>1, <2>2, <2>3, OutAppended, PendingIs
  <2>5. StillToCome(j)' => StillToCome(j)
    BY <2>1, <2>2, <2>4, CommandTypes, OutboxAssumption DEF StillToCome
  <2>6. QED
    BY <1>b, <2>1, <2>3, <2>5, OnceKept
<1>3. CASE CancelCompose
  <2>1. compose' = NoDraft /\ NoDraft.mail \notin Mails /\ UNCHANGED <<begun, queue, job, pc, delivered, filed, told>>
    BY <1>3, CommandTypes, OutboxAssumption DEF CancelCompose
  <2>2. StillToCome(j)' => StillToCome(j)
    BY <2>1 DEF StillToCome, Pending
  <2>3. QED
    BY <1>b, <2>1, <2>2, OnceKept DEF Sending
<1>4. CASE Exit
  <2>1. /\ compose' = NoDraft /\ NoDraft.mail \notin Mails /\ queue' = <<>>
        /\ UNCHANGED <<begun, told, delivered, filed>>
        /\ job' = [job EXCEPT !["command_worker"] = NoCommand]
        /\ pc' = [pc EXCEPT !["command_worker"] = "exited"]
    BY <1>4, CommandTypes, OutboxAssumption DEF Exit, Goto
  <2>2. /\ ~ Sending("command_worker", j)' /\ (Sending("mcp", j)' <=> Sending("mcp", j))
        /\ pc'["mcp"] = pc["mcp"]
    BY <1>0, <2>1, CommandTypes DEF Sending, Working, Procs
  <2>3. ~ Out(j)'
    BY <2>1, EmptyQueue DEF Out
  <2>4. Pending(j)' => Pending(j)
    BY <2>2, <2>3, PendingIs DEF Procs
  <2>5. StillToCome(j)' => StillToCome(j)
    BY <2>1, <2>4 DEF StillToCome
  <2>6. CASE Sending("command_worker", j)
    <3>1. j \in begun /\ j \in Written /\ ~ Sending("mcp", j)
      BY <2>6, Apart, OutboxAssumption
    <3>2. ~ Pending(j)'
      BY <2>2, <2>3, <3>1, PendingIs DEF Procs
    <3>3. ~ StillToCome(j)'
      BY <2>1, <3>1, <3>2 DEF StillToCome
    <3>4. told[j] = "nothing"
      BY <1>0, <2>6, PendingIs DEF UntoldYet, StillToCome, Procs
    <3>5. ~ Gone(j)' /\ \A p \in Procs : ~ Sending(p, j)'
      BY <2>2, <3>1 DEF Gone, Procs
    <3>6. QED
      BY <1>b, <2>1, <3>1, <3>3, <3>4, <3>5 DEF Once
  <2>7. CASE ~ Sending("command_worker", j)
    BY <1>b, <2>1, <2>2, <2>5, <2>7, OnceKept DEF Procs
  <2>8. QED
    BY <2>6, <2>7
<1>5. ASSUME NEW m \in Dictated, NEW k \in Kinds, NEW typed \in Typed, AgentCalls(m, k, typed)
      PROVE  Once(j)'
  <2>1. PICK to : job' = [job EXCEPT !["mcp"] = [name |-> "send", draft |-> [mail |-> m, kind |-> k, rcpts |-> to]]]
    BY <1>5 DEF AgentCalls, Begin
  <2>2. /\ pc["mcp"] = "ready" /\ pc'["mcp"] = "prepare" /\ pc'["command_worker"] = pc["command_worker"]
    BY <1>0, <1>5 DEF AgentCalls, Begin, Goto, Working, Procs
  <2>3. /\ UNCHANGED <<compose, begun, queue, delivered, filed>> /\ told' = [told EXCEPT ![m] = "nothing"]
        /\ told[m] # "sent"
    BY <1>5 DEF AgentCalls
  <2>4. /\ \A i : ~ Sending("mcp", i)
        /\ \A i : Sending("mcp", i)' => i = m
        /\ \A i : Sending("command_worker", i)' <=> Sending("command_worker", i)
    BY <1>0, <2>1, <2>2, CommandTypes DEF Sending, Working, Procs, JobFits
  <2>5. CASE j = m
    <3>1. m \in Mails /\ m \notin Written /\ ~ Sending("command_worker", m)
      BY Apart
    <3>2. ~ Gone(m) /\ ~ Gone(m)'
      BY <2>2, <2>4, <3>1 DEF Gone, Procs
    <3>3. delivered[m] = 0
      BY <1>b, <2>3, <3>1, <3>2 DEF Once
    <3>4. filed[m] <= delivered[m]
      BY <1>b, <3>1 DEF Once
    <3>5. \A p \in Procs : ~ (Sending(p, m) /\ pc[p] = "copy")'
      BY <2>2, <2>4, <3>1 DEF Procs
    <3>6. delivered'[m] = 0 /\ filed'[m] <= delivered'[m] /\ delivered'[m] <= 1
      BY <2>3, <3>3, <3>4
    <3>7. Once(m)'
      BY <3>2, <3>5, <3>6 DEF Once
    <3>8. QED
      BY <2>5, <3>7
  <2>6. CASE j # m
    <3>1. Pending(j)' => Pending(j)
      BY <2>3, <2>4, <2>6, PendingIs DEF Procs, Out
    <3>2. told'[j] = told[j]
      BY <1>c, <2>3, <2>6
    <3>3. StillToCome(j)' => StillToCome(j)
      BY <2>3, <3>1 DEF StillToCome
    <3>4. QED
      BY <1>b, <2>2, <2>3, <2>4, <2>6, <3>2, <3>3, OnceKept DEF Procs
  <2>7. QED
    BY <2>5, <2>6
<1>6. CASE Receive
  <2>1. /\ queue # <<>> /\ queue' = Tail(queue) /\ UNCHANGED <<compose, begun, told, delivered, filed>>
        /\ job' = [job EXCEPT !["command_worker"] = Head(queue)]
    BY <1>6 DEF Receive, Begin
  <2>2. /\ pc["command_worker"] = "ready" /\ pc'["mcp"] = pc["mcp"]
        /\ pc'["command_worker"] \in {"upsert", "prepare"}
    BY <1>0, <1>6 DEF Receive, Begin, Goto, Working, Procs
  <2>3. /\ Sending("command_worker", j)' <=> Head(queue).name = "send" /\ Head(queue).draft.mail = j
        /\ Sending("mcp", j)' <=> Sending("mcp", j)
    BY <1>0, <2>1 DEF Sending, Working, Procs
  <2>4. Pending(j)' => Pending(j)
    <3>1. Out(j) <=> Out(j)' \/ (Head(queue).name = "send" /\ Head(queue).draft.mail = j)
      BY <1>0, <2>1, OutDequeued
    <3>2. QED
      BY <2>3, <3>1, PendingIs DEF Procs
  <2>5. StillToCome(j)' => StillToCome(j)
    BY <2>1, <2>4 DEF StillToCome
  <2>6. QED
    BY <1>b, <2>1, <2>2, <2>3, <2>5, OnceKept DEF Procs
<1>7. CASE UpsertDraft \/ SaveDraftToImap
  <2>1. /\ UNCHANGED <<compose, begun, queue, told, delivered, filed>> /\ job["command_worker"].name = "save"
        /\ job' = job \/ job' = [job EXCEPT !["command_worker"] = NoCommand]
        /\ pc'["mcp"] = pc["mcp"]
    BY <1>0, <1>7 DEF UpsertDraft, SaveDraftToImap, Finish, Goto, JobFits, Procs, Working
  <2>2. /\ ~ Sending("command_worker", j)' /\ ~ Sending("command_worker", j)
        /\ Sending("mcp", j)' <=> Sending("mcp", j)
    BY <1>0, <2>1, CommandTypes DEF Sending, Working, Procs
  <2>3. Pending(j)' => Pending(j)
    BY <2>1, <2>2, PendingIs DEF Procs, Out
  <2>4. StillToCome(j)' => StillToCome(j)
    BY <2>1, <2>3 DEF StillToCome
  <2>5. QED
    BY <1>b, <2>1, <2>2, <2>4, OnceKept DEF Procs
<1>8. ASSUME NEW p \in Procs, SendStep(p) PROVE Once(j)'
  <2>1. PICK m : m = job[p].draft.mail
    OBVIOUS
  <2>2. /\ m \in Mails /\ Sending(p, m) /\ pc[p] \in {"prepare", "smtp", "copy", "delete"}
    BY <1>0, <1>8, <2>1, CommandTypes DEF SendStep, Prepare, SmtpSend, FileSentCopy, DeleteDraft, JobFits, Sending
  <2>3. /\ UNCHANGED <<compose, begun, queue>>
        /\ \A q \in Procs \ {p} : ~ Sending(q, m)
        /\ \A i : Sending(p, i) => i = m
        /\ told[m] = "nothing"
    <3>1. UNCHANGED <<compose, begun, queue>>
      BY <1>8, SendKeeps
    <3>2. \A q \in Procs \ {p} : ~ Sending(q, m)
      <4>1. p = "mcp" \/ p = "command_worker"
        BY DEF Procs
      <4>2. ~ (Sending("mcp", m) /\ Sending("command_worker", m))
        BY <2>2, Apart
      <4>3. QED
        BY <2>2, <4>1, <4>2 DEF Procs
    <3>3. told[m] = "nothing"
      BY <1>0, <2>2, PendingIs DEF UntoldYet, StillToCome
    <3>4. QED
      BY <2>1, <3>1, <3>2, <3>3 DEF Sending
  <2>4. Gone(m) <=> pc[p] \in {"copy", "delete"}
    BY <2>2, <2>3 DEF Gone
  <2>5. pc[p] \in {"prepare", "smtp"} => delivered[m] = 0
    BY <1>b, <2>2, <2>3, <2>4, PendingIs DEF Once, StillToCome
  <2>6. /\ delivered'[m] \in {delivered[m], delivered[m] + 1} /\ filed'[m] \in {filed[m], filed[m] + 1}
        /\ \A k \in Mails \ {m} : delivered'[k] = delivered[k] /\ filed'[k] = filed[k]
    <3>1. delivered' \in {delivered, Bump(delivered, m)} /\ filed' \in {filed, Bump(filed, m)}
      BY <1>8, <2>1, SendCases
    <3>2. QED
      BY <1>c, <2>2, <3>1, Bumped
  <2>7. \A q \in Procs \ {p} : pc'[q] = pc[q]
    BY <1>0, <1>8 DEF SendStep, Prepare, SmtpSend, FileSentCopy, DeleteDraft, Report, Finish, Goto, Working
  <2>8. ASSUME NEW what, Report(p, what), delivered'[m] = delivered[m], filed'[m] = filed[m],
               \/ what = "sent" /\ pc[p] = "delete"
               \/ what = "failed" /\ pc[p] \in {"prepare", "smtp"}
        PROVE  Once(j)'
    <3>1. /\ \A k \in Mails : Pending(k)' <=> Pending(k) /\ k # m
          /\ \A q \in Procs : job'[q] = IF q = p THEN NoCommand ELSE job[q]
          /\ \A k \in Mails : told'[k] = IF k = m THEN what ELSE told[k]
      <4>1. Report(p, what)
        BY <2>8
      <4>2. QED
        BY <1>8, <2>1, <4>1, ReportedOnce
    <3>2. /\ \A i : ~ Sending(p, i)'
          /\ \A i, q : q \in Procs \ {p} => (Sending(q, i)' <=> Sending(q, i))
      BY <3>1, CommandTypes DEF Sending
    <3>3. CASE j = m
      <4>1. \A q \in Procs : ~ Sending(q, m)'
        BY <2>3, <3>2
      <4>2. ~ Gone(m)'
        BY <4>1 DEF Gone
      <4>3. filed[m] <= delivered[m] /\ delivered[m] <= 1
        BY <1>b, <2>2 DEF Once
      <4>4. QED
        BY <2>2, <2>5, <2>8, <3>1, <3>3, <4>1, <4>2, <4>3 DEF Once
    <3>4. CASE j # m
      <4>1. StillToCome(j)' => StillToCome(j)
        BY <2>3, <3>1 DEF StillToCome
      <4>2. \A q \in Procs : Sending(q, j)' <=> Sending(q, j)
        BY <2>3, <3>2, <3>4
      <4>3. ~ Sending(p, j)
        BY <2>3, <3>4
      <4>4. delivered'[j] = delivered[j] /\ filed'[j] = filed[j] /\ told'[j] = told[j]
        BY <2>6, <3>1, <3>4
      <4>5. QED
        BY <1>b, <2>7, <4>1, <4>2, <4>3, <4>4, OnceKept
    <3>5. QED
      BY <3>3, <3>4
  <2>9. ASSUME NEW s, Goto(p, s), UNCHANGED <<job, told>>,
               \/ pc[p] = "prepare" /\ s = "smtp" /\ delivered'[m] = delivered[m] /\ filed'[m] = filed[m]
               \/ pc[p] = "smtp" /\ s = "copy" /\ delivered'[m] = delivered[m] + 1 /\ filed'[m] = filed[m]
               \/ pc[p] = "copy" /\ s = "delete" /\ delivered'[m] = delivered[m]
        PROVE  Once(j)'
    <3>1. pc'[p] = s
      BY <1>0, <2>9 DEF Goto, Working
    <3>2. /\ \A q, i : Sending(q, i)' <=> Sending(q, i)
          /\ \A i : StillToCome(i)' <=> StillToCome(i)
      BY <2>3, <2>9 DEF Sending, StillToCome, Pending
    <3>3. CASE j = m
      <4>1. Gone(m)' <=> s \in {"copy", "delete"}
        BY <2>2, <2>3, <3>1, <3>2 DEF Gone
      <4>2. \A q \in Procs : (Sending(q, m) /\ pc[q] = "copy")' => s = "copy"
        BY <2>3, <3>1, <3>2
      <4>3. /\ filed[m] <= delivered[m] /\ delivered[m] <= 1
            /\ pc[p] = "copy" => filed[m] = 0
            /\ Gone(m) => delivered[m] = 1
            /\ delivered[m] \in Nat /\ filed[m] \in Nat
        BY <1>b, <1>c, <2>2 DEF Once
      <4>4. CASE pc[p] = "prepare" /\ s = "smtp" /\ delivered'[m] = delivered[m] /\ filed'[m] = filed[m]
        BY <2>5, <3>3, <4>1, <4>2, <4>3, <4>4 DEF Once
      <4>5. CASE pc[p] = "smtp" /\ s = "copy" /\ delivered'[m] = delivered[m] + 1 /\ filed'[m] = filed[m]
        <5>1. delivered[m] = 0 /\ filed[m] = 0
          BY <2>5, <4>3, <4>5
        <5>2. delivered'[m] = 1 /\ filed'[m] = 0
          BY <4>5, <5>1
        <5>3. filed'[m] <= delivered'[m] /\ delivered'[m] <= 1
          BY <5>2
        <5>4. Gone(m)'
          BY <4>1, <4>5
        <5>5. QED
          BY <3>3, <5>2, <5>3, <5>4 DEF Once
      <4>6. CASE pc[p] = "copy" /\ s = "delete" /\ delivered'[m] = delivered[m]
        <5>1. delivered[m] = 1 /\ filed[m] = 0
          BY <2>4, <4>3, <4>6
        <5>2. delivered'[m] = 1 /\ filed'[m] \in {0, 1}
          BY <2>6, <4>6, <5>1
        <5>3. filed'[m] <= delivered'[m] /\ delivered'[m] <= 1
          BY <5>2
        <5>4. Gone(m)' /\ \A q \in Procs : ~ (Sending(q, m) /\ pc[q] = "copy")'
          BY <4>1, <4>2, <4>6
        <5>5. QED
          BY <3>3, <5>2, <5>3, <5>4 DEF Once
      <4>7. QED
        BY <2>9, <4>4, <4>5, <4>6
    <3>4. CASE j # m
      <4>1. ~ Sending(p, j) /\ ~ Sending(p, j)'
        BY <2>3, <3>2, <3>4
      <4>2. delivered'[j] = delivered[j] /\ filed'[j] = filed[j] /\ told'[j] = told[j]
        BY <2>6, <2>9, <3>4
      <4>3. QED
        BY <1>b, <2>7, <3>2, <4>1, <4>2, OnceKept
    <3>5. QED
      BY <3>3, <3>4
  <2>10. Bump(delivered, m)[m] = delivered[m] + 1 /\ "answer lost" \notin causes' /\ "row kept" \notin causes'
    BY <1>c, <2>2, Bumped DEF Clean
  <2>11. QED
    BY <1>8, <2>1, <2>8, <2>9, <2>10, SendCases
<1>9. CASE UNCHANGED mailVars
  <2>1. StillToCome(j)' <=> StillToCome(j)
    BY <1>9 DEF mailVars, StillToCome, Pending
  <2>2. QED
    BY <1>9, <1>b, <2>1, OnceKept DEF mailVars, Sending
<1>10. QED
  BY <1>1, <1>2, <1>3, <1>4, <1>5, <1>6, <1>7, <1>8, <1>9
  DEF Next, vars, MailStep, User, Agent, CommandWorker, Procs
LEMMA LedgerStarts == Init => LedgerInv /\ \A p \in Procs : \A m : ~ Sending(p, m)
<1> SUFFICES ASSUME Init PROVE LedgerInv /\ \A p \in Procs : \A m : ~ Sending(p, m)
  OBVIOUS
<1>1. /\ compose.mail \notin Mails /\ queue = <<>> /\ \A p \in Procs : job[p] = NoCommand
      /\ \A m \in Mails : told[m] = "nothing"
  BY CommandTypes, OutboxAssumption DEF Init
<1>2. \A p \in Procs : \A m : ~ Sending(p, m)
  BY <1>1, CommandTypes DEF Sending
<1>3. QED
  BY <1>1, <1>2, EmptyQueue DEF LedgerInv, Single, UntoldYet, Procs

\* Nobody gets a mail twice, whoever is told that it failed can send it again, and
\* a copy in Sent is of a mail that went out: except where SMTP accepted and its
\* answer was lost, or where deleting the row failed after that.
THEOREM NothingIsSentTwice == Spec => []NeverTwice
<1>1. Init => MailBase /\ LedgerInv /\ OnceInv
  <2> SUFFICES ASSUME Init PROVE OnceInv
    BY MailTypesStart, LedgerStarts DEF MailBase
  <2>1. \A m \in Mails : delivered[m] = 0 /\ filed[m] = 0 /\ told[m] = "nothing"
    BY DEF Init
  <2>2. \A m \in Mails : Once(m)
    BY <2>1, LedgerStarts DEF Once, Gone
  <2>3. QED
    BY <2>2 DEF OnceInv
<1>2. MailBase /\ LedgerInv /\ OnceInv /\ [Next]_vars => (MailBase /\ LedgerInv /\ OnceInv)'
  BY MailBaseStays, LedgerStays, OnceStays
<1>3. MailBase /\ LedgerInv /\ OnceInv => NeverTwice
  <2> SUFFICES ASSUME MailBase, LedgerInv, OnceInv, Clean, NEW m \in Mails
               PROVE  /\ filed[m] <= delivered[m] /\ delivered[m] <= 1
                      /\ told[m] = "failed" => delivered[m] = 0
    BY DEF NeverTwice, Clean
  <2>1. Once(m)
    BY DEF OnceInv
  <2>2. Gone(m) => told[m] = "nothing"
    BY PendingIs DEF Gone, LedgerInv, UntoldYet, StillToCome
  <2>3. QED
    BY <2>1, <2>2 DEF Once
<1>4. QED
  BY <1>1, <1>2, <1>3, PTL DEF Spec

-----------------------------------------------------------------------------
(* Nothing is lost. *)

\* The first part of NothingForgotten, which is inductive.
AskedInv ==
  "exit" \notin causes => \A m \in Mails : asked[m] > 0 => Pending(m) \/ told[m] # "nothing"

Safe(m) == m \in saved \/ delivered[m] > 0

\* A copy on the server is made of a saved draft, and a row is deleted when the
\* mail has gone out.
CopyInv ==
  /\ \A m \in copies : Safe(m)
  /\ \A p \in Procs :
       /\ pc[p] = "append" => Safe(job[p].draft.mail)
       /\ pc[p] \in {"copy", "delete"} => delivered[job[p].draft.mail] > 0

LEMMA AskedStays == MailBase /\ LedgerInv /\ AskedInv /\ [Next]_vars => AskedInv'
<1> SUFFICES ASSUME MailBase, LedgerInv, AskedInv, [Next]_vars,
                    "exit" \notin causes', NEW j \in Mails, asked'[j] > 0
             PROVE  Pending(j)' \/ told'[j] # "nothing"
  BY DEF AskedInv
<1> DEFINE Goal == Pending(j)' \/ told'[j] # "nothing"
<1>0. /\ Working /\ JobFits /\ queue \in Seq(Command)
      /\ asked \in [Mails -> Nat] /\ told \in [Mails -> {"nothing", "sent", "failed"}]
  BY DEF MailBase, MailTypes, Queued, Counted, Reported
<1>a. causes \subseteq causes'
  BY DEF Next, vars, mailVars, MailStep, User, Agent, CommandWorker, SendStep, StartCompose, SaveComposeDraft,
         SendCompose, CancelCompose, Exit, AgentCalls, Receive, UpsertDraft, SaveDraftToImap, Prepare, SmtpSend,
         FileSentCopy, DeleteDraft
<1>b. asked[j] > 0 => Pending(j) \/ told[j] # "nothing"
  BY <1>a DEF AskedInv
<1>1. ASSUME UNCHANGED <<queue, job, asked, told>> PROVE Goal
  BY <1>b, <1>1 DEF Pending
<1>2. ASSUME NEW name \in {"save", "send"}, queue' = Append(queue, SyncToDraft(name)), compose # NoDraft,
             UNCHANGED <<job, told>>,
             asked' = IF name = "send" THEN Bump(asked, compose.mail) ELSE asked
      PROVE  Goal
  <2>1. /\ SyncToDraft(name) \in Command /\ SyncToDraft(name).draft.mail = compose.mail
        /\ SyncToDraft(name).name = name /\ compose.mail \in Mails
    BY <1>2, SyncedDraft, CommandTypes DEF MailBase, MailTypes, Windows
  <2>2. Pending(j)' <=> Pending(j) \/ (name = "send" /\ j = compose.mail)
    <3>1. \A q, i : Sending(q, i)' <=> Sending(q, i)
      BY <1>2 DEF Sending
    <3>2. QED
      BY <1>0, <1>2, <2>1, <3>1, OutAppended, PendingIs
  <2>3. CASE name = "send" /\ j = compose.mail
    BY <2>2, <2>3
  <2>4. CASE ~ (name = "send" /\ j = compose.mail)
    <3>1. asked'[j] = asked[j]
      BY <1>0, <1>2, <2>1, <2>4, Bumped
    <3>2. QED
      BY <1>b, <1>2, <2>2, <3>1
  <2>5. QED
    BY <2>3, <2>4
<1>3. CASE SaveComposeDraft
  BY <1>2, <1>3 DEF SaveComposeDraft, Enqueue
<1>4. CASE SendCompose
  BY <1>2, <1>4 DEF SendCompose, Enqueue
<1>5. CASE Exit
  <2>1. /\ queue = <<>> /\ queue' = <<>> /\ pc["command_worker"] = "ready" /\ UNCHANGED <<asked, told>>
        /\ job' = [job EXCEPT !["command_worker"] = NoCommand]
    BY <1>5 DEF Exit
  <2>2. job' = job
    BY <1>0, <2>1 DEF JobFits, Working, Procs
  <2>3. QED
    BY <1>1, <2>1, <2>2
<1>6. ASSUME NEW m \in Dictated, NEW k \in Kinds, NEW typed \in Typed, AgentCalls(m, k, typed)
      PROVE  Goal
  <2>1. PICK c : c.name = "send" /\ c.draft.mail = m /\ job' = [job EXCEPT !["mcp"] = c]
    <3>1. PICK to : job' = [job EXCEPT !["mcp"] = [name |-> "send", draft |-> [mail |-> m, kind |-> k, rcpts |-> to]]]
      BY <1>6 DEF AgentCalls, Begin
    <3>2. QED
      BY <3>1
  <2>2. /\ pc["mcp"] = "ready" /\ asked' = Bump(asked, m) /\ told' = [told EXCEPT ![m] = "nothing"]
        /\ queue' = queue /\ m \in Mails
    BY <1>6 DEF AgentCalls, Begin, Mails
  <2>3. /\ \A i : ~ Sending("mcp", i)
        /\ Sending("mcp", m)'
        /\ \A i : Sending("command_worker", i)' <=> Sending("command_worker", i)
    BY <1>0, <2>1, <2>2, CommandTypes DEF Sending, Working, Procs, JobFits
  <2>4. CASE j = m
    BY <2>3, <2>4, PendingIs DEF Procs
  <2>5. CASE j # m
    <3>1. asked'[j] = asked[j] /\ told'[j] = told[j]
      BY <1>0, <2>2, <2>5, Bumped
    <3>2. Pending(j) => Pending(j)'
      BY <2>2, <2>3, PendingIs DEF Procs, Out
    <3>3. QED
      BY <1>b, <3>1, <3>2
  <2>6. QED
    BY <2>4, <2>5
<1>7. CASE Receive
  <2>1. /\ queue # <<>> /\ queue' = Tail(queue) /\ UNCHANGED <<asked, told>> /\ pc["command_worker"] = "ready"
        /\ job' = [job EXCEPT !["command_worker"] = Head(queue)]
    BY <1>7 DEF Receive, Begin
  <2>2. /\ ~ Sending("command_worker", j)
        /\ Sending("command_worker", j)' <=> Head(queue).name = "send" /\ Head(queue).draft.mail = j
        /\ Sending("mcp", j)' <=> Sending("mcp", j)
    BY <1>0, <2>1, CommandTypes DEF Sending, Working, Procs, JobFits
  <2>3. Out(j) <=> Out(j)' \/ (Head(queue).name = "send" /\ Head(queue).draft.mail = j)
    BY <1>0, <2>1, OutDequeued
  <2>4. Pending(j) => Pending(j)'
    BY <2>2, <2>3, PendingIs DEF Procs
  <2>5. QED
    BY <1>b, <2>1, <2>4
<1>8. CASE UpsertDraft \/ SaveDraftToImap
  <2>1. /\ UNCHANGED <<queue, asked, told>> /\ job["command_worker"].name = "save"
        /\ job' = job \/ job' = [job EXCEPT !["command_worker"] = NoCommand]
    BY <1>0, <1>8 DEF UpsertDraft, SaveDraftToImap, Finish, JobFits, Procs
  <2>2. ~ Sending("command_worker", j) /\ (Sending("mcp", j)' <=> Sending("mcp", j))
    BY <1>0, <2>1 DEF Sending, Working, Procs
  <2>3. Pending(j) => Pending(j)'
    BY <2>1, <2>2, PendingIs DEF Procs, Out
  <2>4. QED
    BY <1>b, <2>1, <2>3
<1>9. ASSUME NEW p \in Procs, SendStep(p) PROVE Goal
  <2>1. asked' = asked /\ queue' = queue
    BY <1>9, SendKeeps
  <2>2. ASSUME NEW what \in {"sent", "failed"}, Report(p, what) PROVE Goal
    <3>1. PICK m : m = job[p].draft.mail
      OBVIOUS
    <3>2. Report(p, what)
      BY <2>2
    <3>3. /\ \A k \in Mails : Pending(k)' <=> Pending(k) /\ k # m
          /\ \A k \in Mails : told'[k] = IF k = m THEN what ELSE told[k]
      BY <1>9, <3>1, <3>2, ReportedOnce
    <3>4. QED
      BY <1>b, <2>1, <3>3
  <2>3. CASE UNCHANGED <<job, told>>
    BY <1>1, <2>1, <2>3
  <2>4. QED
    BY <1>9, <2>2, <2>3, SendCases
<1>10. ASSUME NEW m \in Written, NEW k \in Kinds, NEW typed \in Typed, StartCompose(m, k, typed) PROVE Goal
  BY <1>1, <1>10 DEF StartCompose
<1>11. CASE CancelCompose \/ UNCHANGED mailVars
  BY <1>1, <1>11 DEF CancelCompose, mailVars
<1>12. QED
  BY <1>3, <1>4, <1>5, <1>6, <1>7, <1>8, <1>9, <1>10, <1>11
  DEF Next, vars, MailStep, User, Agent, CommandWorker, Procs

LEMMA CopyStays == MailBase /\ CopyInv /\ [Next]_vars => CopyInv'
<1> SUFFICES ASSUME MailBase, CopyInv, [Next]_vars PROVE CopyInv'
  OBVIOUS
<1>0. Working /\ JobFits /\ delivered \in [Mails -> Nat] /\ copies \subseteq Mails
  BY DEF MailBase, MailTypes, Counted, Stored
<1>1. ASSUME UNCHANGED <<job, pc, saved, copies, delivered>> PROVE CopyInv'
  BY <1>1 DEF CopyInv, Safe
<1>2. CASE SaveComposeDraft \/ SendCompose \/ CancelCompose \/ UNCHANGED mailVars
  BY <1>1, <1>2 DEF SaveComposeDraft, SendCompose, CancelCompose, mailVars
<1>3. ASSUME NEW m \in Written, NEW k \in Kinds, NEW typed \in Typed, StartCompose(m, k, typed) PROVE CopyInv'
  BY <1>1, <1>3 DEF StartCompose
<1>4. ASSUME NEW p \in Procs, NEW s, pc' = [pc EXCEPT ![p] = s], s \notin {"append", "copy", "delete"},
             NEW c, job' = [job EXCEPT ![p] = c], UNCHANGED <<saved, copies, delivered>>
      PROVE  CopyInv'
  BY <1>0, <1>4 DEF CopyInv, Safe, Working
<1>5. CASE Exit
  <2>1. "command_worker" \in Procs
    BY DEF Procs
  <2>2. QED
    BY <1>4, <1>5, <2>1 DEF Exit, Goto
<1>6. ASSUME NEW m \in Dictated, NEW k \in Kinds, NEW typed \in Typed, AgentCalls(m, k, typed) PROVE CopyInv'
  <2>1. "mcp" \in Procs
    BY DEF Procs
  <2>2. UNCHANGED <<saved, copies, delivered>> /\ \E c : Begin("mcp", c)
    BY <1>6 DEF AgentCalls
  <2>3. QED
    BY <1>4, <2>1, <2>2 DEF Begin, Goto
<1>7. CASE Receive
  <2>1. "command_worker" \in Procs
    BY DEF Procs
  <2>2. UNCHANGED <<saved, copies, delivered>> /\ \E c : Begin("command_worker", c)
    BY <1>7 DEF Receive
  <2>3. QED
    BY <1>4, <2>1, <2>2 DEF Begin, Goto
<1>8. CASE UpsertDraft
  <2> DEFINE m == job["command_worker"].draft.mail
  <2>1. \/ saved' = saved \cup {m} /\ job' = job /\ pc' = [pc EXCEPT !["command_worker"] = "append"]
        \/ /\ saved' = saved /\ job' = [job EXCEPT !["command_worker"] = NoCommand]
           /\ pc' = [pc EXCEPT !["command_worker"] = "ready"]
    BY <1>8 DEF UpsertDraft, Finish, Goto
  <2>2. UNCHANGED <<copies, delivered>>
    BY <1>8 DEF UpsertDraft
  <2>3. CASE saved' = saved \cup {m} /\ job' = job /\ pc' = [pc EXCEPT !["command_worker"] = "append"]
    BY <1>0, <2>2, <2>3 DEF CopyInv, Safe, Working, Procs
  <2>4. CASE /\ saved' = saved /\ job' = [job EXCEPT !["command_worker"] = NoCommand]
             /\ pc' = [pc EXCEPT !["command_worker"] = "ready"]
    BY <1>4, <2>2, <2>4 DEF Procs
  <2>5. QED
    BY <2>1, <2>3, <2>4
<1>9. CASE SaveDraftToImap
  <2> DEFINE m == job["command_worker"].draft.mail
  <2>1. /\ pc["command_worker"] = "append" /\ copies' \subseteq copies \cup {m}
        /\ job' = [job EXCEPT !["command_worker"] = NoCommand]
        /\ pc' = [pc EXCEPT !["command_worker"] = "ready"]
        /\ UNCHANGED <<saved, delivered>>
    BY <1>9 DEF SaveDraftToImap, Finish, Goto
  <2>2. Safe(m)
    BY <2>1 DEF CopyInv, Procs
  <2>3. QED
    BY <1>0, <2>1, <2>2 DEF CopyInv, Safe, Working, Procs
<1>10. ASSUME NEW p \in Procs, SendStep(p) PROVE CopyInv'
  <2>1. PICK m : m = job[p].draft.mail
    OBVIOUS
  <2>2. m \in Mails /\ copies' = copies
    BY <1>0, <1>10, <2>1, CommandTypes, SendKeeps
    DEF SendStep, Prepare, SmtpSend, FileSentCopy, DeleteDraft, JobFits
  <2>3. /\ \A k \in Mails : delivered'[k] \in {delivered[k], delivered[k] + 1}
        /\ \A k : k \in Mails /\ delivered[k] > 0 => delivered'[k] > 0
    <3>1. delivered' = delivered \/ delivered' = Bump(delivered, m)
      BY <1>10, <2>1, SendCases
    <3>2. \A k \in Mails : delivered'[k] \in {delivered[k], delivered[k] + 1}
      BY <1>0, <2>2, <3>1, Bumped
    <3>3. QED
      BY <1>0, <3>2
  <2>4. saved' = saved \/ (saved' = saved \ {m} /\ pc[p] = "delete")
    BY <1>10, <2>1, SendCases
  <2>5. \A k \in Mails : Safe(k) => Safe(k)'
    BY <2>1, <2>3, <2>4 DEF Safe, CopyInv
  <2>6. \A q \in Procs : pc[q] \in {"append", "copy", "delete"} => job[q].draft.mail \in Mails
    BY <1>0, CommandTypes DEF JobFits
  <2>7. \A q \in Procs \ {p} : pc'[q] = pc[q] /\ job'[q] = job[q]
    BY <1>0, <1>10 DEF SendStep, Prepare, SmtpSend, FileSentCopy, DeleteDraft, Report, Finish, Goto, Working
  <2>8. /\ pc'[p] # "append"
        /\ pc'[p] \in {"copy", "delete"} => job'[p] = job[p] /\ delivered'[m] > 0
    <3>1. ASSUME NEW what, Report(p, what) PROVE pc'[p] = "ready"
      BY <1>0, <3>1 DEF Report, Finish, Goto, Working
    <3>2. \A s : Goto(p, s) => pc'[p] = s
      BY <1>0 DEF Goto, Working
    <3>3. pc[p] = "copy" => delivered[m] > 0
      BY <2>1 DEF CopyInv
    <3>4. Bump(delivered, m)[m] > 0
      BY <1>0, <2>2, Bumped
    <3>5. QED
      BY <1>10, <2>1, <3>1, <3>2, <3>3, <3>4, SendCases
  <2>9. \A k \in copies' : Safe(k)'
    BY <1>0, <2>2, <2>5 DEF CopyInv
  <2>10. ASSUME NEW q \in Procs
         PROVE  /\ pc'[q] = "append" => Safe(job[q].draft.mail)'
                /\ pc'[q] \in {"copy", "delete"} => delivered'[job'[q].draft.mail] > 0
    <3>1. PICK k : k = job[q].draft.mail
      OBVIOUS
    <3>2. CASE q = p
      BY <2>1, <2>8, <3>2
    <3>3. CASE q # p
      <4>1. pc'[q] = pc[q] /\ job'[q].draft.mail = k
        BY <2>7, <3>1, <3>3
      <4>2. pc[q] = "append" => Safe(k)'
        BY <2>5, <2>6, <3>1 DEF CopyInv
      <4>3. pc[q] \in {"copy", "delete"} => delivered'[k] > 0
        BY <2>3, <2>6, <3>1 DEF CopyInv
      <4>4. QED
        BY <4>1, <4>2, <4>3 DEF Safe
    <3>4. QED
      BY <3>2, <3>3
  <2>11. QED
    BY <2>9, <2>10 DEF CopyInv
<1>11. QED
  BY <1>2, <1>3, <1>5, <1>6, <1>7, <1>8, <1>9, <1>10
  DEF Next, vars, MailStep, User, Agent, CommandWorker, Procs

\* A mail somebody asked to send is sent, or pending, or reported failed, unless
\* the program exited before; and a saved draft is in the table until the mail has
\* gone out.
THEOREM NothingIsForgotten == Spec => []NothingForgotten
<1>1. Init => MailBase /\ LedgerInv /\ AskedInv /\ CopyInv
  <2> SUFFICES ASSUME Init PROVE AskedInv /\ CopyInv
    BY MailTypesStart, LedgerStarts DEF MailBase
  <2>1. /\ \A m \in Mails : asked[m] = 0
        /\ copies = {} /\ pc \in [Procs -> {"ready", "exited"}]
    BY DEF Init
  <2>2. QED
    BY <2>1 DEF AskedInv, CopyInv
<1>2. MailBase /\ LedgerInv /\ AskedInv /\ CopyInv /\ [Next]_vars => (MailBase /\ LedgerInv /\ AskedInv /\ CopyInv)'
  BY MailBaseStays, LedgerStays, AskedStays, CopyStays
<1>3. MailBase /\ AskedInv /\ CopyInv => NothingForgotten
  BY DEF AskedInv, CopyInv, Safe, NothingForgotten
<1>4. QED
  BY <1>1, <1>2, <1>3, PTL DEF Spec
=============================================================================
