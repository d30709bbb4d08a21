----------------------------- MODULE SourceKeys -----------------------------
(***************************************************************************)
(* Sources and their ingest keys (business/domain/sourcebus, sourcedb,     *)
(* app/domain/sourceapp, app/sdk/mid/authenticatesource.go).               *)
(*                                                                         *)
(* An operator's request loads the whole row, changes it in memory and     *)
(* writes the whole row back; two requests on one source interleave.       *)
(* A key is a number, the hash and the display prefix are one-to-one.      *)
(***************************************************************************)
EXTENDS Integers

CONSTANTS
    Sources,
    Operators,   \* concurrent requests of the sources API
    Lifetimes,   \* values of expiresInDays, 0 for a key that never expires
    MaxKeys,     \* bound on keys minted
    MaxClock     \* bound on the clock

ASSUME ConstantsAssumption ==
    /\ Lifetimes \subseteq Nat
    /\ MaxKeys \in Nat /\ MaxClock \in Nat

Keys  == 1 .. MaxKeys
NoKey == 0
Never == -1

VARIABLES
    clock,
    rows,      \* the sources table; key = NoKey for a source not created yet
    minted,    \* keys generated so far
    replaced,  \* history: keys whose stored hash a rotation replaced
    op         \* the row each request has loaded; key = NoKey when idle

vars == <<clock, rows, minted, replaced, op>>

Row == [source: Sources, active: BOOLEAN, key: Nat, expires: Int]

Blank(s) == [source |-> s, active |-> FALSE, key |-> NoKey, expires |-> Never]

Init ==
    /\ clock = 0
    /\ rows = [s \in Sources |-> Blank(s)]
    /\ minted = 0
    /\ replaced = {}
    /\ op \in [Operators -> {Blank(s) : s \in Sources}]
----------------------------------------------------------------------------
\* GenerateKey: 256 random bits, never minted before
NextKey == minted + 1

Create(s, days) ==
    /\ rows[s].key = NoKey /\ minted < MaxKeys
    /\ minted' = minted + 1
    /\ rows' = [rows EXCEPT ![s] = [source |-> s, active |-> TRUE, key |-> NextKey,
                                    expires |-> IF days = 0 THEN Never ELSE clock + days]]
    /\ UNCHANGED <<clock, replaced, op>>

\* loadOrgSource
LoadOrgSource(o, s) ==
    /\ op[o].key = NoKey /\ rows[s].key # NoKey
    /\ op' = [op EXCEPT ![o] = rows[s]]
    /\ UNCHANGED <<clock, rows, minted, replaced>>

\* The columns Store.Update writes: everything an operator can change, from the
\* copy; expires_at and last_seen_at are not among them.
Update(o, active, key) ==
    LET s == op[o].source
    IN  /\ rows' = [rows EXCEPT ![s] = [source |-> s, active |-> active, key |-> key,
                                        expires |-> rows[s].expires]]
        /\ op' = [op EXCEPT ![o] = Blank(s)]

\* A bug: disconnecting toggles the flag.
DisableToggles(o) ==
    /\ op[o].key # NoKey
    /\ Update(o, ~op[o].active, op[o].key)
    /\ UNCHANGED <<clock, minted, replaced>>

Disable(o) ==
    /\ op[o].key # NoKey
    /\ Update(o, FALSE, op[o].key)
    /\ UNCHANGED <<clock, minted, replaced>>

RotateKey(o) ==
    /\ op[o].key # NoKey /\ minted < MaxKeys
    /\ minted' = minted + 1
    /\ Update(o, op[o].active, NextKey)
    /\ replaced' = replaced \cup {op[o].key, rows[op[o].source].key}
    /\ UNCHANGED clock

\* The request ends before its write.
Abandon(o) ==
    /\ op[o].key # NoKey
    /\ op' = [op EXCEPT ![o] = Blank(op[o].source)]
    /\ UNCHANGED <<clock, rows, minted, replaced>>

Tick ==
    /\ clock < MaxClock
    /\ clock' = clock + 1
    /\ UNCHANGED <<rows, minted, replaced, op>>
----------------------------------------------------------------------------
Operator(o) ==
    \/ \E s \in Sources : LoadOrgSource(o, s)
    \/ Disable(o) \/ RotateKey(o) \/ Abandon(o)

Next ==
    \/ \E s \in Sources, days \in Lifetimes : Create(s, days)
    \/ \E o \in Operators : Operator(o)
    \/ Tick

Spec == Init /\ [][Next]_vars
----------------------------------------------------------------------------
\* Source.Expired
Expired(row) == row.expires # Never /\ clock > row.expires

\* AuthenticateSource, for the key of a row
Accepted(row) == row.active /\ ~Expired(row)

\* AuthenticateSource, for a presented key: the source it writes to
Accepts(key, s) == rows[s].key = key /\ Accepted(rows[s])
----------------------------------------------------------------------------
(* Properties. *)

\* Every variable has its type, and a key is stored only once it is minted.
TypeOK ==
    /\ clock \in 0 .. MaxClock
    /\ rows \in [Sources -> Row]
    /\ \A s \in Sources : rows[s].source = s
    /\ \A s \in Sources : rows[s].active => rows[s].key \in Keys
    /\ minted \in 0 .. MaxKeys
    /\ replaced \subseteq Keys
    /\ op \in [Operators -> Row]

\* RotateKey "invalidates the old one by replacing its stored hash": a key that a
\* rotation replaced is never accepted again, although a stale Disable may put
\* its hash back.
ReplacedKeyRefused ==
    \A s \in Sources, key \in replaced : ~Accepts(key, s)
----------------------------------------------------------------------------
(* What comments and documents say and the code does not do (README, section 4). *)

\* Disable "soft-disables a source so new writes are rejected", and there is no
\* operation that enables one again: a disabled source stays disabled.
DisabledStaysDisabled ==
    [][\A s \in Sources : (rows[s].key # NoKey /\ ~rows[s].active) => ~rows'[s].active]_vars

\* "ingest key has expired; rotate it to continue": the key a rotation of a
\* connected source hands out is accepted.
RotationRevives ==
    [][\A o \in Operators : (RotateKey(o) /\ op[o].active) =>
            LET s == op[o].source IN Accepted(rows[s])' /\ rows'[s].key = minted']_vars
============================================================================
