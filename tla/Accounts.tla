------------------------------ MODULE Accounts ------------------------------
(***************************************************************************)
(* Accounts, the user cache and authentication (business/domain/userbus,   *)
(* usercache, userdb, app/domain/userapp, app/sdk/auth,                    *)
(* app/sdk/mid/authen.go).                                                 *)
(*                                                                         *)
(* The auth service and the ingestor each keep a cache of users, filled by *)
(* reads and by their own writes, and never told of the other's.  Every    *)
(* request is authenticated by the auth service, which writes no account;  *)
(* the ingestor's handlers read through their cache and write the whole    *)
(* row, then the cache.                                                    *)
(***************************************************************************)
EXTENDS Naturals

CONSTANTS
    People,       \* accounts
    Handlers,     \* concurrent requests
    CacheTTL,     \* a minute
    MaxRequest,   \* a request ends this long after it read a row
    LastInstant   \* bound on the clock

ASSUME AccountsAssumption ==
    CacheTTL \in Nat \ {0} /\ MaxRequest \in Nat /\ LastInstant \in Nat

VARIABLES
    instant,     \* the clock
    account,     \* users: [exists, enabled]
    userCache,   \* [service][account] -> entry
    handler,     \* requests between two of their steps
    verify,      \* verification_tokens: "none", "stored", "used"
    lastOn       \* history: when the account was last enabled

accountVars == <<instant, account, userCache, handler, verify, lastOn>>

Services == {"auth", "ingestor"}

NoEntry == [until |-> 0, exists |-> FALSE, enabled |-> FALSE]
Waiting == [step |-> "none"]

AccountsInit ==
    /\ instant = 1
    /\ account = [u \in People |-> [exists |-> FALSE, enabled |-> FALSE]]
    /\ userCache = [s \in Services |-> [u \in People |-> NoEntry]]
    /\ handler = [h \in Handlers |-> Waiting]
    /\ verify = [u \in People |-> "none"]
    /\ lastOn = [u \in People |-> 0]
----------------------------------------------------------------------------
(* The cache. *)

\* A bug: an entry is served for good.
FreshForever(e) == e.exists

Fresh(e) == e.exists /\ instant <= e.until

ReadCache(s, u) == userCache[s][u]

WriteCache(s, u, row) ==
    userCache' = [userCache EXCEPT ![s][u] =
        [until |-> instant + CacheTTL, exists |-> TRUE, enabled |-> row.enabled]]

DeleteCache(s, u) == userCache' = [userCache EXCEPT ![s][u] = NoEntry]

Copy(row) == [exists |-> TRUE, enabled |-> row.enabled]

\* The table: SELECT by id or by email, INSERT, UPDATE, DELETE.
SelectUser(u) == account[u].exists

\* lastOn is the last instant at which the row said enabled.
SetRow(u, row) ==
    /\ account' = [account EXCEPT ![u] = row]
    /\ lastOn' = IF row.enabled \/ account[u].enabled THEN [lastOn EXCEPT ![u] = instant] ELSE lastOn

InsertUser(u, row) == ~account[u].exists /\ SetRow(u, row)

\* No row is updated when the account is gone, and that is no error.
UpdateUserRow(u, row) == IF account[u].exists THEN SetRow(u, row) ELSE UNCHANGED <<account, lastOn>>

\* The verification tokens go with the account.
DeleteUserRow(u) ==
    /\ SetRow(u, [exists |-> FALSE, enabled |-> FALSE])
    /\ verify' = [verify EXCEPT ![u] = "used"]
----------------------------------------------------------------------------
(* Reads through the cache, and what the handler does with what it read. *)

\* QueryByID: a hit answers at once, a miss goes to the table
QueryByID(h, s, u, then) ==
    /\ handler[h] = Waiting
    /\ IF Fresh(ReadCache(s, u))
       THEN handler' = [handler EXCEPT ![h] = [step |-> then, svc |-> s, user |-> u,
                            row |-> Copy(ReadCache(s, u)), since |-> instant]]
       ELSE /\ SelectUser(u)
            /\ handler' = [handler EXCEPT ![h] = [step |-> "fill", svc |-> s, user |-> u,
                            row |-> account[u], since |-> instant, then |-> then]]
    /\ UNCHANGED <<instant, account, userCache, verify, lastOn>>

\* The row read is cached, whatever became of it since.
Fill(h) ==
    /\ handler[h].step = "fill"
    /\ WriteCache(handler[h].svc, handler[h].user, handler[h].row)
    /\ handler' = [handler EXCEPT ![h] = [step |-> handler[h].then, svc |-> handler[h].svc,
                      user |-> handler[h].user, row |-> handler[h].row, since |-> instant]]
    /\ UNCHANGED <<instant, account, verify, lastOn>>

\* A handler ends, as planned or not.
EndRequest(h) ==
    /\ handler[h] # Waiting
    /\ handler' = [handler EXCEPT ![h] = Waiting]
    /\ UNCHANGED <<instant, account, userCache, verify, lastOn>>
----------------------------------------------------------------------------
(* Authentication: a signed token, and an account that is still enabled. *)

\* The service asked, by mid.Authenticate through authclient, is the auth service.
Authenticate(h, u) == QueryByID(h, "auth", u, "check")

\* isUserEnabled
IsUserEnabled(row) == row.enabled

HandleAuthentication(h) == handler[h].step = "check" /\ IsUserEnabled(handler[h].row)

Admit(h) ==
    /\ HandleAuthentication(h)
    /\ handler' = [handler EXCEPT ![h].step = "admitted"]
    /\ UNCHANGED <<instant, account, userCache, verify, lastOn>>

\* A login by password: a token for the account, enabled or not.
Login(h, u) == QueryByID(h, "auth", u, "token")
----------------------------------------------------------------------------
(* Writes: the row, then the cache of the service that wrote it. *)

\* usercache.Update: the row; the cache is next
WriteRow(h, u, row) ==
    /\ UpdateUserRow(u, row)
    /\ handler' = [handler EXCEPT ![h] = [step |-> "cache", svc |-> "ingestor", user |-> u, row |-> row,
                                          since |-> instant]]

Recache(h) ==
    /\ handler[h].step = "cache"
    /\ WriteCache(handler[h].svc, handler[h].user, handler[h].row)
    /\ handler' = [handler EXCEPT ![h] = Waiting]
    /\ UNCHANGED <<instant, account, verify, lastOn>>

\* A new account is disabled.
NewAccount == [exists |-> TRUE, enabled |-> FALSE]

CreateUser(u) ==
    /\ lastOn[u] = 0 /\ verify[u] = "none"
    /\ InsertUser(u, NewAccount)
    /\ WriteCache("ingestor", u, NewAccount)

\* create: an invitation vouches for the address, and the account is activated at
\* once; or it waits for its verification
Register(h, u, invited) ==
    /\ handler[h] = Waiting
    /\ CreateUser(u)
    /\ handler' = [handler EXCEPT ![h] = [step |-> IF invited THEN "verified" ELSE "new",
                                          svc |-> "ingestor", user |-> u, since |-> instant]]
    /\ UNCHANGED <<instant, verify>>

StoreVerifyToken(h) ==
    /\ handler[h].step = "new"
    /\ verify' = [verify EXCEPT ![handler[h].user] = "stored"]
    /\ handler' = [handler EXCEPT ![h] = Waiting]
    /\ UNCHANGED <<instant, account, userCache, lastOn>>

\* AuthorizeUser loads the account.
AuthorizeUser(h, u, then) == QueryByID(h, "ingestor", u, then)

\* Business.Update: enabled is set ("on", "off"), or left as it was loaded ("keep")
Changed(row, change) ==
    [exists |-> TRUE, enabled |-> IF change = "keep" THEN row.enabled ELSE change = "on"]

UpdateUser(h, change) ==
    /\ handler[h].step = "update"
    /\ WriteRow(h, handler[h].user, Changed(handler[h].row, change))
    /\ UNCHANGED <<instant, userCache, verify>>

\* updateRole writes the whole row too.
UpdateUserRole(h) == UpdateUser(h, "keep")

\* queryMe only reads, and fills the cache.
QueryMe(h, u) == QueryByID(h, "ingestor", u, "answer")

DeleteAccount(h) ==
    /\ handler[h].step = "delete"
    /\ DeleteUserRow(handler[h].user)
    /\ handler' = [handler EXCEPT ![h].step = "uncache"]
    /\ UNCHANGED <<instant, userCache>>

Uncache(h) ==
    /\ handler[h].step = "uncache"
    /\ DeleteCache(handler[h].svc, handler[h].user)
    /\ handler' = [handler EXCEPT ![h] = Waiting]
    /\ UNCHANGED <<instant, account, verify, lastOn>>
----------------------------------------------------------------------------
(* Email verification. *)

\* ConsumeVerifyToken: the SELECT, and then the UPDATE that does not look again
ReadToken(h, u) ==
    /\ handler[h] = Waiting /\ verify[u] = "stored"
    /\ handler' = [handler EXCEPT ![h] = [step |-> "mark", svc |-> "ingestor", user |-> u,
                                          since |-> instant]]
    /\ UNCHANGED <<instant, account, userCache, verify, lastOn>>

MarkToken(h) ==
    /\ handler[h].step = "mark"
    /\ verify' = [verify EXCEPT ![handler[h].user] = "used"]
    /\ handler' = [handler EXCEPT ![h].step = "verified"]
    /\ UNCHANGED <<instant, account, userCache, lastOn>>

\* Activate reads the account like any other handler.
QueryForActivate(h) ==
    /\ handler[h].step = "verified"
    /\ LET s == handler[h].svc  u == handler[h].user
       IN  IF Fresh(ReadCache(s, u))
           THEN handler' = [handler EXCEPT ![h] = [step |-> "activate", svc |-> s, user |-> u,
                                row |-> Copy(ReadCache(s, u)), since |-> instant]]
           ELSE /\ SelectUser(u)
                /\ handler' = [handler EXCEPT ![h] = [step |-> "fill", svc |-> s, user |-> u,
                                row |-> account[u], since |-> instant, then |-> "activate"]]
    /\ UNCHANGED <<instant, account, userCache, verify, lastOn>>

\* An account that is enabled already needs no write.
Activate(h) ==
    /\ handler[h].step = "activate"
    /\ LET r == handler[h]
       IN  IF r.row.enabled
           THEN handler' = [handler EXCEPT ![h] = Waiting] /\ UNCHANGED <<account, lastOn>>
           ELSE WriteRow(h, r.user, [exists |-> TRUE, enabled |-> TRUE])
    /\ UNCHANGED <<instant, userCache, verify>>
\* verify, past the token
VerifyEmail(h) == MarkToken(h) \/ QueryForActivate(h) \/ Activate(h)
----------------------------------------------------------------------------
\* Time passes; no request outlives MaxRequest.
Pass ==
    /\ instant < LastInstant
    /\ \A h \in Handlers : handler[h] # Waiting => instant < handler[h].since + MaxRequest
    /\ instant' = instant + 1
    /\ lastOn' = [u \in People |-> IF account[u].enabled THEN instant + 1 ELSE lastOn[u]]
    /\ UNCHANGED <<account, userCache, handler, verify>>

UserRequest(h) ==
    \/ \E u \in People :
          \/ Authenticate(h, u) \/ Login(h, u) \/ ReadToken(h, u)
          \/ AuthorizeUser(h, u, "update") \/ AuthorizeUser(h, u, "delete") \/ QueryMe(h, u)
          \/ \E invited \in BOOLEAN : Register(h, u, invited)
    \/ UpdateUserRole(h) \/ \E change \in {"on", "off"} : UpdateUser(h, change)
    \/ Fill(h) \/ Admit(h) \/ StoreVerifyToken(h) \/ Recache(h) \/ DeleteAccount(h) \/ Uncache(h)
    \/ VerifyEmail(h) \/ EndRequest(h)

AccountsNext == Pass \/ \E h \in Handlers : UserRequest(h)

AccountsSpec == AccountsInit /\ [][AccountsNext]_accountVars
----------------------------------------------------------------------------
(* Properties. *)

\* isUserEnabled "checks the user is not disabled", on a copy that the ingestor's
\* writes never invalidate: a request is admitted at most one cache lifetime, and
\* the two requests that carry the copy, after the account was last enabled,
\* whichever fills, updates, activations and deletions race with each other.
StalenessBounded == \A h \in Handlers :
    handler[h].step = "admitted" => instant <= lastOn[handler[h].user] + CacheTTL + 2 * MaxRequest
----------------------------------------------------------------------------
(* What comments say and the code does not do (README, section 4). *)

\* StoreVerifyToken: "consumed exactly once"; two requests read the token before
\* either marks it.
TokenConsumedOnce == \A h, k \in Handlers :
    handler[h].step = "verified" /\ handler[k].step = "mark" => handler[h].user # handler[k].user

\* "On success it marks used_at = now() and returns the user's ID", and the account
\* is activated afterwards: a failure in between leaves it disabled, its token used.
VerifiedIsEnabled == \A u \in People :
    verify[u] = "used" /\ account[u].exists /\ (\A h \in Handlers : handler[h] = Waiting)
        => lastOn[u] > 0

\* Deleting an account clears its cache entry: an update that loaded it before writes
\* no row and the entry again, and a client that keeps updating keeps it there.
DeletedNotServed == \A u \in People :
    ~account[u].exists /\ (\A h \in Handlers : handler[h] = Waiting) => ~Fresh(ReadCache("ingestor", u))

\* A disabled account stays disabled until a request enables it: an update of
\* anything else writes the copy it read before.
DisableSticks == [][
    \A u \in People : ~account[u].enabled /\ account[u].exists /\ lastOn[u] > 0 /\ account'[u].enabled
        => \E h \in Handlers : handler[h].step = "update" /\ ~handler[h].row.enabled
    ]_accountVars
=============================================================================
