--------------------------- MODULE MCCredentials ---------------------------
(* The credentials of the system, one family in each behaviour: ingest keys, *)
(* API keys, accounts and their cache, or single sign-on.                    *)
EXTENDS SourceKeys, ApiKeys, Accounts, SignOn

VARIABLE scene

mcVars == <<vars, apiKeyVars, accountVars, ssoVars, scene>>

MCInit ==
    /\ Init /\ ApiKeysInit /\ AccountsInit /\ SignOnInit
    /\ scene \in {"ingest keys", "api keys", "accounts", "sign-on"}
    /\ scene # "sign-on" => \A e \in Mailboxes : person[e] = "none"
    /\ scene # "ingest keys" => op = [o \in Operators |-> Blank(CHOOSE s \in Sources : TRUE)]

MCNext ==
    /\ \/ scene = "ingest keys" /\ Next /\ UNCHANGED <<apiKeyVars, accountVars, ssoVars>>
       \/ scene = "api keys" /\ ApiKeysNext /\ UNCHANGED <<vars, accountVars, ssoVars>>
       \/ scene = "accounts" /\ AccountsNext /\ UNCHANGED <<vars, apiKeyVars, ssoVars>>
       \/ scene = "sign-on" /\ SignOnNext /\ UNCHANGED <<vars, apiKeyVars, accountVars>>
    /\ UNCHANGED scene

MCSpec == MCInit /\ [][MCNext]_mcVars
=============================================================================
