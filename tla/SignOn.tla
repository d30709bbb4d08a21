------------------------------- MODULE SignOn -------------------------------
(***************************************************************************)
(* Single sign-on (app/domain/ssoapp, app/sdk/oidc, business/domain/ssobus)*)
(*                                                                         *)
(* start sends the browser to the organization's provider with a state and *)
(* a nonce the server keeps for ten minutes; the provider sends it back    *)
(* with a code; callback redeems the state, trades the code for an ID      *)
(* token, provisions the account and leaves a session behind a one-time    *)
(* code; exchange hands the session over.  A browser may come back twice,  *)
(* late, or with the code of one login and the state of another, and the   *)
(* organization's configuration may change under way.                      *)
(*                                                                         *)
(* The provider is external: it gives a code to whoever signs in with it,  *)
(* takes each code once, from the client it was made for, and is not       *)
(* assumed to look at the PKCE verifier.                                   *)
(***************************************************************************)
EXTENDS Naturals, Sequences, FiniteSets

CONSTANTS
    Workspaces,     \* organizations, each with its own client at the provider
    Logins,         \* authorization requests: a state, its nonce and verifier
    Mailboxes,      \* email addresses the provider asserts
    Permitted,      \* the addresses in the allowed domains
    LoginStateTTL,
    SessionCodeTTL,
    LastSecond      \* bound on the clock

ASSUME SignOnAssumption ==
    /\ Permitted \subseteq Mailboxes
    /\ LoginStateTTL \in Nat /\ SessionCodeTTL \in Nat /\ LastSecond \in Nat
    /\ "none" \notin Workspaces

VARIABLES
    second,      \* the clock
    ssoConfig,   \* sso_configs: "none", "off", "on"
    loginState,  \* stateStore
    signIns,     \* the provider's outstanding codes: [login, org, email]
    callback,    \* callbacks under way, by the login they redeemed
    person,      \* the accounts of the addresses: "none", "disabled", "enabled"
    joined,      \* org_members: who belongs where
    sessions,    \* sessionStore
    requested,   \* history: where each login was started
    asserted,    \* history: who signed in for it
    collected    \* history: sessions handed over, by login

ssoVars == <<second, ssoConfig, loginState, signIns, callback, person, joined, sessions,
             requested, asserted, collected>>

NoState    == [org |-> "none", expiresAt |-> 0]
NoCallback == [step |-> "none"]
NoSession  == [user |-> "none", org |-> "none", expiresAt |-> 0]

SignOnInit ==
    /\ second = 1
    /\ ssoConfig = [o \in Workspaces |-> "none"]
    /\ loginState = [l \in Logins |-> NoState]
    /\ signIns = {}
    /\ callback = [l \in Logins |-> NoCallback]
    /\ person \in [Mailboxes -> {"none", "enabled"}]
    /\ joined = {}
    /\ sessions = [l \in Logins |-> NoSession]
    /\ requested = [l \in Logins |-> "none"]
    /\ asserted = [l \in Logins |-> {}]
    /\ collected = [l \in Logins |-> <<>>]

history == <<requested, asserted, collected>>
----------------------------------------------------------------------------
(* The two stores.  A session code is named by the login it came from. *)

\* Entries past their time go when another is made.
DropExpired(store, none) ==
    [l \in Logins |-> IF second > store[l].expiresAt THEN none ELSE store[l]]

Begin(l, o) ==
    loginState' = [DropExpired(loginState, NoState) EXCEPT ![l] =
                      [org |-> o, expiresAt |-> second + LoginStateTTL]]

\* consume deletes before it looks at the time.
Consume(l) == loginState' = [loginState EXCEPT ![l] = NoState]

StateValid(l) == loginState[l] # NoState /\ second <= loginState[l].expiresAt

Put(l, user, org) ==
    sessions' = [DropExpired(sessions, NoSession) EXCEPT ![l] =
                    [user |-> user, org |-> org, expiresAt |-> second + SessionCodeTTL]]

Take(l) == sessions' = [sessions EXCEPT ![l] = NoSession]

SessionValid(l) == sessions[l] # NoSession /\ second <= sessions[l].expiresAt
----------------------------------------------------------------------------
(* Configuration. *)

StoreConfig(o, status) == ssoConfig' = [ssoConfig EXCEPT ![o] = status]

\* Business.Upsert replaces whatever configuration there is.
NewConfig(enabled) == IF enabled THEN "on" ELSE "off"

\* upsert: the provider is discovered first
UpsertConfig(o, enabled) ==
    /\ StoreConfig(o, NewConfig(enabled))
    /\ UNCHANGED <<second, loginState, signIns, callback, person, joined, sessions, history>>

RemoveRow(o) == ssoConfig' = [ssoConfig EXCEPT ![o] = "none"]

DeleteConfig(o) ==
    /\ ssoConfig[o] # "none"
    /\ RemoveRow(o)
    /\ UNCHANGED <<second, loginState, signIns, callback, person, joined, sessions, history>>

\* QueryByOrg, and what both handlers ask of it
ConfigEnabled(o) == ssoConfig[o] = "on"
----------------------------------------------------------------------------
(* The login. *)

Start(l, o) ==
    /\ requested[l] = "none" /\ ConfigEnabled(o)
    /\ Begin(l, o)
    /\ requested' = [requested EXCEPT ![l] = o]
    /\ UNCHANGED <<second, ssoConfig, signIns, callback, person, joined, sessions, asserted, collected>>

\* The provider: whoever follows the redirect signs in; going back makes another code.
SignIn(l, e) ==
    /\ requested[l] # "none" /\ Cardinality(asserted[l]) < 2 /\ e \notin asserted[l]
    /\ signIns' = signIns \cup {[login |-> l, org |-> requested[l], email |-> e]}
    /\ asserted' = [asserted EXCEPT ![l] = @ \cup {e}]
    /\ UNCHANGED <<second, ssoConfig, loginState, callback, person, joined, sessions, requested, collected>>

\* callback: the state is redeemed whether or not the rest succeeds
Callback(l, code) ==
    /\ loginState[l] # NoState /\ callback[l] = NoCallback
    /\ Consume(l)
    /\ callback' = IF StateValid(l) /\ ConfigEnabled(loginState[l].org)
                   THEN [callback EXCEPT ![l] = [step |-> "exchange", org |-> loginState[l].org, code |-> code]]
                   ELSE callback
    /\ UNCHANGED <<second, ssoConfig, signIns, person, joined, sessions, history>>

Abandoned(l) == callback' = [callback EXCEPT ![l] = NoCallback]

\* Exchange: the provider takes a code once, from its own client
CodeAccepted(cb) == cb.code \in signIns /\ cb.code.org = cb.org

\* A bug: the nonce is not compared.
VerifyAnyNonce(token, l, org) == token.org = org

\* VerifyIDToken: the audience is this client, the nonce this login's
VerifyIDToken(token, l, org) == token.org = org /\ token.login = l

PermitsEmail(e) == e \in Permitted

Exchange(l) ==
    /\ callback[l].step = "exchange"
    /\ LET cb == callback[l]
       IN  /\ signIns' = IF CodeAccepted(cb) THEN signIns \ {cb.code} ELSE signIns
           /\ IF CodeAccepted(cb) /\ VerifyIDToken(cb.code, l, cb.org) /\ PermitsEmail(cb.code.email)
              THEN callback' = [callback EXCEPT ![l] =
                       [step |-> "provision", org |-> cb.org, email |-> cb.code.email]]
              ELSE Abandoned(l)
    /\ UNCHANGED <<second, ssoConfig, loginState, person, joined, sessions, history>>

\* provision: an existing account as it is, or a new one, disabled and then enabled
CreateSSOUser(l) ==
    /\ callback[l].step = "provision" /\ person[callback[l].email] = "none"
    /\ person' = [person EXCEPT ![callback[l].email] = "disabled"]
    /\ callback' = [callback EXCEPT ![l].step = "enable"]
    /\ UNCHANGED <<second, ssoConfig, loginState, signIns, joined, sessions, history>>

EnableSSOUser(l) ==
    /\ callback[l].step = "enable"
    /\ person' = [person EXCEPT ![callback[l].email] = "enabled"]
    /\ callback' = [callback EXCEPT ![l].step = "member"]
    /\ UNCHANGED <<second, ssoConfig, loginState, signIns, joined, sessions, history>>

QueryByEmail(l) ==
    /\ callback[l].step = "provision" /\ person[callback[l].email] # "none"
    /\ callback' = [callback EXCEPT ![l].step = "member"]
    /\ UNCHANGED <<second, ssoConfig, loginState, signIns, person, joined, sessions, history>>

\* AddMember at the default role; a member is left alone.
Provision(l) ==
    /\ callback[l].step = "member"
    /\ joined' = joined \cup {<<callback[l].email, callback[l].org>>}
    /\ callback' = [callback EXCEPT ![l].step = "mint"]
    /\ UNCHANGED <<second, ssoConfig, loginState, signIns, person, sessions, history>>

\* mintSession, then put; the browser gets the one-time code
MintSession(l) ==
    /\ callback[l].step = "mint"
    /\ Put(l, callback[l].email, callback[l].org)
    /\ Abandoned(l)
    /\ UNCHANGED <<second, ssoConfig, loginState, signIns, person, joined, history>>

\* A call fails, or the service restarts: both stores and every callback are gone.
CallbackFails(l) ==
    /\ callback[l] # NoCallback
    /\ Abandoned(l)
    /\ UNCHANGED <<second, ssoConfig, loginState, signIns, person, joined, sessions, history>>

Restart ==
    /\ loginState' = [l \in Logins |-> NoState]
    /\ sessions' = [l \in Logins |-> NoSession]
    /\ callback' = [l \in Logins |-> NoCallback]
    /\ UNCHANGED <<second, ssoConfig, signIns, person, joined, history>>

\* exchange: the entry goes, the token is returned while it is in time
CollectSession(l) ==
    /\ sessions[l] # NoSession
    /\ Take(l)
    /\ collected' = IF SessionValid(l)
                    THEN [collected EXCEPT ![l] = Append(@, [user |-> sessions[l].user, org |-> sessions[l].org])]
                    ELSE collected
    /\ UNCHANGED <<second, ssoConfig, loginState, signIns, callback, person, joined, requested, asserted>>

NextSecond ==
    /\ second < LastSecond
    /\ second' = second + 1
    /\ UNCHANGED <<ssoConfig, loginState, signIns, callback, person, joined, sessions, history>>

LoginStep(l) ==
    \/ \E o \in Workspaces : Start(l, o)
    \/ \E e \in Mailboxes : SignIn(l, e)
    \/ \E code \in signIns : Callback(l, code)
    \/ Exchange(l) \/ CreateSSOUser(l) \/ EnableSSOUser(l) \/ QueryByEmail(l) \/ Provision(l)
    \/ MintSession(l) \/ CallbackFails(l) \/ CollectSession(l)

SignOnNext ==
    \/ \E l \in Logins : LoginStep(l)
    \/ \E o \in Workspaces : DeleteConfig(o) \/ \E enabled \in BOOLEAN : UpsertConfig(o, enabled)
    \/ Restart \/ NextSecond

SignOnSpec == SignOnInit /\ [][SignOnNext]_ssoVars
----------------------------------------------------------------------------
(* Properties. *)

\* "The nonce binds this token to the authorization request this server started",
\* "consume redeems a state exactly once": a login hands over one session at most,
\* and it is for somebody who signed in for that very login, in a permitted domain,
\* who is a member of the organization where it was started, whichever way codes,
\* states and one-time codes of several logins are presented.
SessionMatchesLogin == \A l \in Logins :
    /\ Len(collected[l]) <= 1
    /\ \A i \in DOMAIN collected[l] :
          LET got == collected[l][i]
          IN  /\ got.user \in asserted[l] /\ got.user \in Permitted
              /\ got.org = requested[l] /\ <<got.user, got.org>> \in joined
----------------------------------------------------------------------------
(* What comments say and the code does not do (README, section 4). *)

\* createSSOUser: "enable it or the new user cannot authenticate".  The account is
\* created and then enabled; a failure in between leaves it disabled, and the next
\* login finds an existing account and leaves it as it is.
NewUserEnabled == [][
    \A e \in Mailboxes, o \in Workspaces :
        <<e, o>> \in joined' \ joined => person'[e] = "enabled"
    ]_ssoVars
=============================================================================
