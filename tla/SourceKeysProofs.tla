------------------------- MODULE SourceKeysProofs -------------------------
(***************************************************************************)
(* The credentials, for any number of sources, operators, keys, accounts   *)
(* and logins: a key a rotation replaced is never accepted again; a login  *)
(* hands over one session, to who signed in for it; the lazy bucket of an  *)
(* API key is exact; a disabled account is admitted for a bounded time.    *)
(***************************************************************************)
EXTENDS SourceKeys, ApiKeys, Accounts, SignOn, TLAPS

\* Keys are numbered in the order they are minted: none is stored, loaded or
\* replaced before.
Minted ==
    /\ \A s \in Sources : rows[s].key \in 0 .. minted
    /\ \A o \in Operators : op[o].key \in 0 .. minted
    /\ replaced \subseteq 1 .. minted

\* A request only ever loads sources that exist.
Loaded == \A o \in Operators : op[o].key # NoKey => rows[op[o].source].key # NoKey

\* A key belongs to one source, in the table and in the copies requests hold.
RowsDiffer == \A s, z \in Sources : s # z /\ rows[s].key # NoKey => rows[s].key # rows[z].key
CopyDiffers ==
    \A o \in Operators, z \in Sources :
        op[o].source # z /\ op[o].key # NoKey => op[o].key # rows[z].key
CopiesDiffer ==
    \A o, q \in Operators :
        op[o].source # op[q].source /\ op[o].key # NoKey => op[o].key # op[q].key

\* An enabled source's key was not replaced.
ActiveFresh == \A s \in Sources : rows[s].active => rows[s].key \notin replaced

\* The inductive invariant.
IInv == TypeOK /\ Minted /\ Loaded /\ RowsDiffer /\ CopyDiffers /\ CopiesDiffer /\ ActiveFresh
----------------------------------------------------------------------------
\* No source exists and no request has loaded one.
LEMMA InitIInv == Init => IInv
<1> SUFFICES ASSUME Init PROVE IInv
  OBVIOUS
<1> USE ConstantsAssumption DEF NoKey, Never, Keys
<1>1. \A s \in Sources : Blank(s) \in Row /\ Blank(s).key = 0
  BY DEF Blank, Row
<1>2. op \in [Operators -> Row] /\ \A o \in Operators : op[o].key = 0
  BY <1>1 DEF Init
<1>3. rows \in [Sources -> Row]
  BY <1>1 DEF Init
<1>4. \A s \in Sources : rows[s].source = s /\ rows[s].key = 0 /\ ~rows[s].active
  BY DEF Init, Blank
<1>5. TypeOK
  BY <1>2, <1>3, <1>4 DEF Init, TypeOK
<1>6. Minted
  BY <1>2, <1>4 DEF Init, Minted
<1>7. Loaded /\ RowsDiffer /\ CopyDiffers /\ CopiesDiffer /\ ActiveFresh
  BY <1>2, <1>4 DEF Loaded, RowsDiffer, CopyDiffers, CopiesDiffer, ActiveFresh
<1> QED
  BY <1>5, <1>6, <1>7 DEF IInv

\* Every request step and the clock preserve the invariant.
LEMMA NextIInv == IInv /\ [Next]_vars => IInv'
<1> SUFFICES ASSUME IInv, [Next]_vars PROVE IInv'
  OBVIOUS
<1> USE ConstantsAssumption DEF IInv, NoKey, Never, Keys
<1>1. ASSUME NEW s \in Sources, NEW days \in Lifetimes, Create(s, days) PROVE IInv'
  <2>1. TypeOK'
    BY <1>1 DEF Create, NextKey, TypeOK, Row
  <2>2. Minted' /\ Loaded' /\ ActiveFresh'
    BY <1>1 DEF Create, NextKey, TypeOK, Row, Minted, Loaded, ActiveFresh
  <2>3. RowsDiffer' /\ CopyDiffers' /\ CopiesDiffer'
    BY <1>1 DEF Create, NextKey, TypeOK, Row, Minted, RowsDiffer, CopyDiffers, CopiesDiffer
  <2> QED
    BY <2>1, <2>2, <2>3
<1>2. ASSUME NEW o \in Operators, NEW s \in Sources, LoadOrgSource(o, s) PROVE IInv'
  <2>1. TypeOK'
    BY <1>2 DEF LoadOrgSource, TypeOK, Row
  <2>2. Minted' /\ Loaded' /\ ActiveFresh'
    BY <1>2 DEF LoadOrgSource, TypeOK, Row, Minted, Loaded, ActiveFresh
  <2>3. RowsDiffer' /\ CopyDiffers' /\ CopiesDiffer'
    BY <1>2 DEF LoadOrgSource, TypeOK, Row, RowsDiffer, CopyDiffers, CopiesDiffer
  <2> QED
    BY <2>1, <2>2, <2>3
<1>3. ASSUME NEW o \in Operators, Disable(o) PROVE IInv'
  <2>1. TypeOK'
    BY <1>3 DEF Disable, Update, Blank, TypeOK, Row
  <2>2. Minted' /\ Loaded' /\ ActiveFresh'
    BY <1>3 DEF Disable, Update, Blank, TypeOK, Row, Minted, Loaded, ActiveFresh
  <2>3. RowsDiffer' /\ CopyDiffers' /\ CopiesDiffer'
    BY <1>3 DEF Disable, Update, Blank, TypeOK, Row, RowsDiffer, CopyDiffers, CopiesDiffer
  <2> QED
    BY <2>1, <2>2, <2>3
<1>4. ASSUME NEW o \in Operators, RotateKey(o) PROVE IInv'
  <2> DEFINE k == op[o].key
             z == op[o].source
             new == [source |-> z, active |-> op[o].active, key |-> minted + 1,
                     expires |-> rows[z].expires]
  <2>0. /\ z \in Sources /\ op[o] \in Row /\ rows[z] \in Row
        /\ k \in 1 .. minted /\ rows[z].key \in 1 .. minted
        /\ minted \in Nat /\ minted + 1 \in 1 .. MaxKeys /\ minted' = minted + 1
    BY <1>4 DEF RotateKey, TypeOK, Row, Minted, Loaded
  <2>a. /\ rows' = [rows EXCEPT ![z] = new]
        /\ op' = [op EXCEPT ![o] = Blank(z)]
        /\ replaced' = replaced \cup {k, rows[z].key}
        /\ clock' = clock
    BY <1>4 DEF RotateKey, NextKey, Update
  <2>b. new \in Row /\ Blank(z) \in Row /\ Blank(z).key = 0
    BY <2>0 DEF Row, Blank
  <2>1. TypeOK'
    <3>1. rows' \in [Sources -> Row] /\ op' \in [Operators -> Row]
      BY <2>a, <2>b DEF TypeOK
    <3>2. \A s \in Sources : rows'[s].source = s /\ (rows'[s].active => rows'[s].key \in 1 .. MaxKeys)
      BY <2>0, <2>a DEF TypeOK
    <3>3. replaced' \subseteq 1 .. MaxKeys
      BY <2>0, <2>a DEF TypeOK, Minted
    <3> QED
      BY <2>0, <2>a, <3>1, <3>2, <3>3 DEF TypeOK
  <2>2. Minted' /\ Loaded'
    <3>1. \A s \in Sources : rows'[s].key \in 0 .. minted'
      BY <2>0, <2>a DEF TypeOK, Minted
    <3>2. \A q \in Operators : op'[q].key \in 0 .. minted'
      BY <2>0, <2>a, <2>b DEF TypeOK, Minted
    <3>3. replaced' \subseteq 1 .. minted'
      BY <2>0, <2>a DEF TypeOK, Minted
    <3>4. Loaded'
      BY <2>0, <2>a, <2>b DEF TypeOK, Loaded
    <3> QED
      BY <3>1, <3>2, <3>3, <3>4 DEF Minted
  <2>3. ActiveFresh'
    BY <1>4 DEF RotateKey, NextKey, Update, TypeOK, Row, Minted, ActiveFresh, RowsDiffer,
       CopyDiffers, Loaded
  <2>4. RowsDiffer' /\ CopyDiffers' /\ CopiesDiffer'
    BY <1>4 DEF RotateKey, NextKey, Update, Blank, TypeOK, Row, Minted, RowsDiffer, CopyDiffers,
       CopiesDiffer
  <2> QED
    BY <2>1, <2>2, <2>3, <2>4
<1>5. ASSUME NEW o \in Operators, Abandon(o) PROVE IInv'
  BY <1>5 DEF Abandon, Blank, TypeOK, Row, Minted, Loaded, RowsDiffer, CopyDiffers, CopiesDiffer,
     ActiveFresh
<1>6. CASE Tick
  BY <1>6 DEF Tick, TypeOK, Minted, Loaded, RowsDiffer, CopyDiffers, CopiesDiffer, ActiveFresh
<1>7. CASE UNCHANGED vars
  BY <1>7 DEF vars, TypeOK, Minted, Loaded, RowsDiffer, CopyDiffers, CopiesDiffer, ActiveFresh
<1> QED
  BY <1>1, <1>2, <1>3, <1>4, <1>5, <1>6, <1>7 DEF Next, Operator
----------------------------------------------------------------------------
\* A stale whole-row write can put a replaced hash back only together with
\* is_active = false, so no replaced key is ever accepted again.
THEOREM RotationInvalidates == Spec => [](TypeOK /\ ReplacedKeyRefused)
<1>1. IInv => TypeOK /\ ReplacedKeyRefused
  BY DEF IInv, ActiveFresh, ReplacedKeyRefused, Accepts, Accepted
<1> QED
  BY InitIInv, NextIInv, <1>1, PTL DEF Spec

-----------------------------------------------------------------------------
(* SignOn: whose session a login hands over. *)

\* Somebody in a permitted domain who signed in for the login, of the login's organization.
Rightful(e, o, req, signed) == e \in signed /\ e \in Permitted /\ o = req

\* A login is in one place at a time: it waits for the provider, its callback is under
\* way, its session waits to be collected, or it was collected.
AtProvider(st, cb, ses, req, got) ==
    st.org = req /\ req # "none" /\ cb = NoCallback /\ ses = NoSession /\ got = <<>>

UnderWay(st, cb, ses, req, signed, got, members) ==
    /\ req # "none" /\ st = NoState /\ ses = NoSession /\ got = <<>> /\ cb.org = req
    /\ \/ /\ cb = [step |-> "exchange", org |-> cb.org, code |-> cb.code]
       \/ /\ cb = [step |-> cb.step, org |-> cb.org, email |-> cb.email]
          /\ cb.step \in {"provision", "enable", "member", "mint"}
          /\ Rightful(cb.email, cb.org, req, signed)
          /\ cb.step = "mint" => <<cb.email, cb.org>> \in members

Minting(st, cb, ses, req, signed, got, members) ==
    /\ req # "none" /\ st = NoState /\ cb = NoCallback /\ got = <<>>
    /\ Rightful(ses.user, ses.org, req, signed) /\ <<ses.user, ses.org>> \in members

Collected(req, signed, got, members) ==
    /\ req # "none"
    /\ \E s : /\ got = <<s>>
              /\ Rightful(s.user, s.org, req, signed) /\ <<s.user, s.org>> \in members

LoginOK(st, cb, ses, req, signed, got, members) ==
    /\ st = NoState \/ AtProvider(st, cb, ses, req, got)
    /\ cb = NoCallback \/ UnderWay(st, cb, ses, req, signed, got, members)
    /\ ses = NoSession \/ Minting(st, cb, ses, req, signed, got, members)
    /\ got = <<>> \/ (Collected(req, signed, got, members) /\ st = NoState /\ cb = NoCallback /\ ses = NoSession)

LoginsTyped ==
    /\ loginState = [l \in Logins |-> loginState[l]]
    /\ callback = [l \in Logins |-> callback[l]]
    /\ sessions = [l \in Logins |-> sessions[l]]
    /\ requested = [l \in Logins |-> requested[l]]
    /\ asserted = [l \in Logins |-> asserted[l]]
    /\ collected = [l \in Logins |-> collected[l]]

\* A code the provider gave is for somebody who signed in for its login.
CodesAreSigned == \A c \in signIns : c.login \in Logins /\ c.email \in asserted[c.login]

EachLoginOK ==
    \A l \in Logins : LoginOK(loginState[l], callback[l], sessions[l], requested[l], asserted[l],
                              collected[l], joined)

SignOnInv == LoginsTyped /\ CodesAreSigned /\ EachLoginOK

\* A login that loses what it waits for, gains signatures or members, is as well off.
LEMMA LoginOnwards ==
  ASSUME NEW st, NEW cb, NEW ses, NEW req, NEW signed, NEW got, NEW members,
         LoginOK(st, cb, ses, req, signed, got, members),
         NEW st2 \in {st, NoState}, NEW cb2 \in {cb, NoCallback}, NEW ses2 \in {ses, NoSession},
         NEW signed2, signed \subseteq signed2, NEW members2, members \subseteq members2
  PROVE  LoginOK(st2, cb2, ses2, req, signed2, got, members2)
  BY DEF LoginOK, AtProvider, UnderWay, Minting, Collected, Rightful

\* What a step leaves of the other logins: at least nothing new.
OthersKept(l) ==
    /\ \A m \in Logins \ {l} :
          /\ loginState'[m] \in {loginState[m], NoState}
          /\ callback'[m] \in {callback[m], NoCallback}
          /\ sessions'[m] \in {sessions[m], NoSession}
          /\ requested'[m] = requested[m]
          /\ asserted[m] \subseteq asserted'[m]
          /\ collected'[m] = collected[m]
    /\ joined \subseteq joined'

ThisLoginOK(l) == LoginOK(loginState'[l], callback'[l], sessions'[l], requested'[l], asserted'[l],
                          collected'[l], joined')

LEMMA OneLoginMoves ==
  ASSUME EachLoginOK, NEW l \in Logins, OthersKept(l), ThisLoginOK(l)
  PROVE  EachLoginOK'
  <1> SUFFICES ASSUME NEW m \in Logins
      PROVE  LoginOK(loginState'[m], callback'[m], sessions'[m], requested'[m], asserted'[m], collected'[m], joined')
    BY DEF EachLoginOK
  <1>1. CASE m = l
    BY <1>1 DEF ThisLoginOK
  <1>2. CASE m # l
    <2>1. LoginOK(loginState[m], callback[m], sessions[m], requested[m], asserted[m], collected[m], joined)
      BY DEF EachLoginOK
    <2>2. PICK st, cb, ses, signed, members :
             /\ st = loginState'[m] /\ cb = callback'[m] /\ ses = sessions'[m] /\ signed = asserted'[m]
             /\ members = joined'
      OBVIOUS
    <2>3. /\ st \in {loginState[m], NoState} /\ cb \in {callback[m], NoCallback}
          /\ ses \in {sessions[m], NoSession} /\ asserted[m] \subseteq signed /\ joined \subseteq members
          /\ requested'[m] = requested[m] /\ collected'[m] = collected[m]
      BY <1>2, <2>2 DEF OthersKept
    <2>4. LoginOK(st, cb, ses, requested[m], signed, collected[m], members)
      BY <2>1, <2>3, LoginOnwards
    <2>5. QED
      BY <2>2, <2>3, <2>4
  <1>3. QED
    BY <1>1, <1>2

LEMMA CodesKept ==
  ASSUME CodesAreSigned, signIns' \subseteq signIns, UNCHANGED asserted
  PROVE  CodesAreSigned'
  BY DEF CodesAreSigned

\* The functions of a step stay functions.
LEMMA SignOnSteps ==
  ASSUME SignOnInv, NEW l \in Logins, OthersKept(l), ThisLoginOK(l), CodesAreSigned', LoginsTyped'
  PROVE  SignOnInv'
  BY OneLoginMoves DEF SignOnInv

\* What a login has, by name.
LEMMA LoginNow ==
  ASSUME SignOnInv, NEW l \in Logins
  PROVE  \E st, cb, ses, req, signed, got :
            /\ st = loginState[l] /\ cb = callback[l] /\ ses = sessions[l] /\ req = requested[l]
            /\ signed = asserted[l] /\ got = collected[l]
            /\ LoginOK(st, cb, ses, req, signed, got, joined)
  BY DEF SignOnInv, EachLoginOK

LEMMA StartOK == ASSUME SignOnInv, NEW l \in Logins, NEW o \in Workspaces, Start(l, o) PROVE SignOnInv'
  <1>1. PICK st, cb, ses, req, signed, got :
            /\ st = loginState[l] /\ cb = callback[l] /\ ses = sessions[l] /\ req = requested[l]
            /\ signed = asserted[l] /\ got = collected[l]
            /\ LoginOK(st, cb, ses, req, signed, got, joined)
    BY LoginNow
  <1>2. o # "none" /\ req = "none"
    BY <1>1, SignOnAssumption DEF Start
  <1>3. cb = NoCallback /\ ses = NoSession /\ got = <<>>
    BY <1>1, <1>2 DEF LoginOK, UnderWay, Minting, Collected
  <1>4. PICK new : new = [org |-> o, expiresAt |-> second + LoginStateTTL]
    OBVIOUS
  <1>5. /\ loginState' = [DropExpired(loginState, NoState) EXCEPT ![l] = new]
        /\ requested' = [requested EXCEPT ![l] = o]
        /\ UNCHANGED <<signIns, callback, joined, sessions, asserted, collected>>
    BY <1>4 DEF Start, Begin
  <1>6. loginState'[l] = new /\ \A m \in Logins \ {l} : loginState'[m] \in {loginState[m], NoState}
    BY <1>5 DEF DropExpired
  <1>7. LoginsTyped'
    BY <1>5 DEF SignOnInv, LoginsTyped, DropExpired
  <1>8. OthersKept(l)
    BY <1>5, <1>6 DEF OthersKept, SignOnInv, LoginsTyped
  <1>9. requested'[l] = o
    BY <1>5 DEF SignOnInv, LoginsTyped
  <1>10. ThisLoginOK(l)
    <2>1. LoginOK(new, cb, ses, o, signed, got, joined)
      BY <1>2, <1>3, <1>4 DEF LoginOK, AtProvider
    <2>2. QED
      BY <1>1, <1>5, <1>6, <1>9, <2>1 DEF ThisLoginOK
  <1>11. QED
    BY <1>5, <1>7, <1>8, <1>10, SignOnSteps, CodesKept DEF SignOnInv

LEMMA SignInOK == ASSUME SignOnInv, NEW l \in Logins, NEW e \in Mailboxes, SignIn(l, e) PROVE SignOnInv'
  <1>1. /\ signIns' = signIns \cup {[login |-> l, org |-> requested[l], email |-> e]}
        /\ asserted' = [asserted EXCEPT ![l] = asserted[l] \cup {e}]
        /\ UNCHANGED <<loginState, callback, joined, sessions, requested, collected>>
    BY DEF SignIn
  <1>2. \A m \in Logins : asserted[m] \subseteq asserted'[m] /\ (m = l => e \in asserted'[m])
    BY <1>1 DEF SignOnInv, LoginsTyped
  <1>3. CodesAreSigned'
    BY <1>1, <1>2 DEF SignOnInv, CodesAreSigned
  <1>4. LoginsTyped'
    BY <1>1 DEF SignOnInv, LoginsTyped
  <1>5. OthersKept(l)
    BY <1>1, <1>2 DEF OthersKept
  <1>6. ThisLoginOK(l)
    <2>1. PICK st, cb, ses, req, signed, got :
            /\ st = loginState[l] /\ cb = callback[l] /\ ses = sessions[l] /\ req = requested[l]
            /\ signed = asserted[l] /\ got = collected[l]
            /\ LoginOK(st, cb, ses, req, signed, got, joined)
      BY LoginNow
    <2>2. PICK signed2 : signed2 = asserted'[l] /\ signed \subseteq signed2
      BY <1>2, <2>1
    <2>3. LoginOK(st, cb, ses, req, signed2, got, joined)
      BY <2>1, <2>2, LoginOnwards
    <2>4. QED
      BY <1>1, <2>1, <2>2, <2>3 DEF ThisLoginOK
  <1>7. QED
    BY <1>3, <1>4, <1>5, <1>6, SignOnSteps

LEMMA CallbackOK == ASSUME SignOnInv, NEW l \in Logins, NEW code, Callback(l, code) PROVE SignOnInv'
  <1>1. PICK st, cb, ses, req, signed, got :
            /\ st = loginState[l] /\ cb = callback[l] /\ ses = sessions[l] /\ req = requested[l]
            /\ signed = asserted[l] /\ got = collected[l]
            /\ LoginOK(st, cb, ses, req, signed, got, joined)
    BY LoginNow
  <1>2. st # NoState /\ st.org = req /\ req # "none" /\ ses = NoSession /\ got = <<>>
    BY <1>1 DEF Callback, LoginOK, AtProvider
  <1>3. PICK new : new = [step |-> "exchange", org |-> req, code |-> code]
    OBVIOUS
  <1>4. /\ loginState' = [loginState EXCEPT ![l] = NoState]
        /\ callback' = [callback EXCEPT ![l] = new] \/ callback' = callback
        /\ UNCHANGED <<signIns, joined, sessions, requested, asserted, collected>>
    BY <1>1, <1>2, <1>3 DEF Callback, Consume, history
  <1>5. /\ loginState'[l] = NoState /\ callback'[l] \in {new, cb}
        /\ \A m \in Logins \ {l} : loginState'[m] = loginState[m] /\ callback'[m] = callback[m]
    BY <1>1, <1>4 DEF SignOnInv, LoginsTyped
  <1>6. LoginsTyped'
    BY <1>4 DEF SignOnInv, LoginsTyped
  <1>7. OthersKept(l)
    BY <1>4, <1>5 DEF OthersKept
  <1>8. ThisLoginOK(l)
    <2>1. LoginOK(NoState, new, ses, req, signed, got, joined)
      BY <1>2, <1>3 DEF LoginOK, UnderWay
    <2>2. LoginOK(NoState, cb, ses, req, signed, got, joined)
      BY <1>1, LoginOnwards
    <2>3. QED
      BY <1>1, <1>4, <1>5, <2>1, <2>2 DEF ThisLoginOK
  <1>9. QED
    BY <1>4, <1>6, <1>7, <1>8, SignOnSteps, CodesKept DEF SignOnInv

\* A step of a callback under way, which leaves another callback or none.
LEMMA CallbackMoves ==
  ASSUME SignOnInv, NEW l \in Logins, NEW new, callback' = [callback EXCEPT ![l] = new],
         callback[l] # NoCallback,
         \/ new = NoCallback
         \/ UnderWay(NoState, new, NoSession, requested[l], asserted[l], <<>>, joined'),
         signIns' \subseteq signIns, joined \subseteq joined',
         UNCHANGED <<loginState, sessions, requested, asserted, collected>>
  PROVE  SignOnInv'
  <1>1. PICK st, cb, ses, req, signed, got :
            /\ st = loginState[l] /\ cb = callback[l] /\ ses = sessions[l] /\ req = requested[l]
            /\ signed = asserted[l] /\ got = collected[l]
            /\ LoginOK(st, cb, ses, req, signed, got, joined)
    BY LoginNow
  <1>2. st = NoState /\ ses = NoSession /\ got = <<>>
    BY <1>1 DEF LoginOK, UnderWay
  <1>3. callback'[l] = new /\ \A m \in Logins \ {l} : callback'[m] = callback[m]
    BY DEF SignOnInv, LoginsTyped
  <1>4. LoginsTyped' /\ CodesAreSigned'
    BY CodesKept DEF SignOnInv, LoginsTyped
  <1>5. OthersKept(l)
    BY <1>3 DEF OthersKept
  <1>6. ThisLoginOK(l)
    <2>1. PICK members : members = joined'
      OBVIOUS
    <2>2. LoginOK(st, new, ses, req, signed, got, members)
      BY <1>1, <1>2, <2>1 DEF LoginOK
    <2>3. QED
      BY <1>1, <1>3, <2>1, <2>2 DEF ThisLoginOK
  <1>7. QED
    BY <1>4, <1>5, <1>6, SignOnSteps

LEMMA CallbackNow ==
  ASSUME SignOnInv, NEW l \in Logins, callback[l] # NoCallback
  PROVE  \E cb, req, signed :
            /\ cb = callback[l] /\ req = requested[l] /\ signed = asserted[l]
            /\ UnderWay(NoState, cb, NoSession, req, signed, <<>>, joined)
  <1>1. PICK st, cb, ses, req, signed, got :
            /\ st = loginState[l] /\ cb = callback[l] /\ ses = sessions[l] /\ req = requested[l]
            /\ signed = asserted[l] /\ got = collected[l]
            /\ LoginOK(st, cb, ses, req, signed, got, joined)
    BY LoginNow
  <1>2. QED
    BY <1>1 DEF LoginOK, UnderWay

LEMMA ExchangeOK == ASSUME SignOnInv, NEW l \in Logins, Exchange(l) PROVE SignOnInv'
  <1>0. callback[l].step = "exchange"
    BY DEF Exchange
  <1>1. callback[l] # NoCallback
    BY <1>0 DEF NoCallback
  <1>2. PICK cb, req, signed :
            /\ cb = callback[l] /\ req = requested[l] /\ signed = asserted[l]
            /\ UnderWay(NoState, cb, NoSession, req, signed, <<>>, joined)
    BY <1>1, CallbackNow
  <1>3. PICK new : new = [step |-> "provision", org |-> cb.org, email |-> cb.code.email]
    OBVIOUS
  <1>4. /\ signIns' \subseteq signIns
        /\ UNCHANGED <<joined, loginState, sessions, requested, asserted, collected>>
    BY DEF Exchange, history
  <1>5. CASE CodeAccepted(cb) /\ VerifyIDToken(cb.code, l, cb.org) /\ PermitsEmail(cb.code.email)
    <2>1. callback' = [callback EXCEPT ![l] = new]
      BY <1>2, <1>3, <1>5 DEF Exchange
    <2>2. cb.code.email \in signed /\ cb.code.email \in Permitted
      BY <1>2, <1>5 DEF CodeAccepted, VerifyIDToken, PermitsEmail, SignOnInv, CodesAreSigned
    <2>3. UnderWay(NoState, new, NoSession, req, signed, <<>>, joined)
      BY <1>2, <1>3, <2>2 DEF UnderWay, Rightful
    <2>4. QED
      BY <1>1, <1>2, <1>4, <2>1, <2>3, CallbackMoves
  <1>6. CASE ~(CodeAccepted(cb) /\ VerifyIDToken(cb.code, l, cb.org) /\ PermitsEmail(cb.code.email))
    <2>1. callback' = [callback EXCEPT ![l] = NoCallback]
      BY <1>2, <1>6 DEF Exchange, Abandoned
    <2>2. QED
      BY <1>1, <1>4, <2>1, CallbackMoves
  <1>7. QED
    BY <1>5, <1>6

LEMMA ProvisioningOK ==
  ASSUME SignOnInv, NEW l \in Logins,
         CreateSSOUser(l) \/ EnableSSOUser(l) \/ QueryByEmail(l) \/ Provision(l)
  PROVE  SignOnInv'
  <1>0. callback[l].step \in {"provision", "enable", "member"}
    BY DEF CreateSSOUser, EnableSSOUser, QueryByEmail, Provision
  <1>1. callback[l] # NoCallback
    BY <1>0 DEF NoCallback
  <1>2. PICK cb, req, signed :
            /\ cb = callback[l] /\ req = requested[l] /\ signed = asserted[l]
            /\ UnderWay(NoState, cb, NoSession, req, signed, <<>>, joined)
    BY <1>1, CallbackNow
  <1>3. /\ signIns' \subseteq signIns /\ joined \subseteq joined'
        /\ UNCHANGED <<loginState, sessions, requested, asserted, collected>>
    BY DEF CreateSSOUser, EnableSSOUser, QueryByEmail, Provision, history
  <1>4. callback = [m \in Logins |-> callback[m]]
    BY DEF SignOnInv, LoginsTyped
  <1>5. cb = [step |-> cb.step, org |-> cb.org, email |-> cb.email] /\ Rightful(cb.email, cb.org, req, signed)
    BY <1>0, <1>2 DEF UnderWay
  <1>6. PICK step : /\ step \in {"enable", "member", "mint"}
                    /\ callback' = [callback EXCEPT ![l].step = step]
                    /\ step = "mint" => <<cb.email, cb.org>> \in joined'
    BY <1>2 DEF CreateSSOUser, EnableSSOUser, QueryByEmail, Provision
  <1>7. PICK new : new = [cb EXCEPT !.step = step]
    OBVIOUS
  <1>8. callback' = [callback EXCEPT ![l] = new]
    <2>1. [callback EXCEPT ![l].step = step] = [callback EXCEPT ![l] = [callback[l] EXCEPT !.step = step]]
      BY <1>4
    <2>2. QED
      BY <1>2, <1>6, <1>7, <2>1, Zenon
  <1>9. new = [step |-> step, org |-> cb.org, email |-> cb.email]
    BY <1>5, <1>7
  <1>10. UnderWay(NoState, new, NoSession, req, signed, <<>>, joined')
    <2>1. PICK members : members = joined'
      OBVIOUS
    <2>2. UnderWay(NoState, new, NoSession, req, signed, <<>>, members)
      BY <1>2, <1>5, <1>6, <1>9, <2>1 DEF UnderWay
    <2>3. QED
      BY <2>1, <2>2
  <1>11. QED
    BY <1>1, <1>2, <1>3, <1>8, <1>10, CallbackMoves

LEMMA CallbackFailsOK == ASSUME SignOnInv, NEW l \in Logins, CallbackFails(l) PROVE SignOnInv'
  <1>1. callback[l] # NoCallback /\ callback' = [callback EXCEPT ![l] = NoCallback]
        /\ signIns' \subseteq signIns
        /\ UNCHANGED <<joined, loginState, sessions, requested, asserted, collected>>
    BY DEF CallbackFails, Abandoned, history
  <1>2. QED
    BY <1>1, CallbackMoves

LEMMA MintSessionOK == ASSUME SignOnInv, NEW l \in Logins, MintSession(l) PROVE SignOnInv'
  <1>0. callback[l].step = "mint"
    BY DEF MintSession
  <1>1. callback[l] # NoCallback
    BY <1>0 DEF NoCallback
  <1>2. PICK st, cb, ses, req, signed, got :
            /\ st = loginState[l] /\ cb = callback[l] /\ ses = sessions[l] /\ req = requested[l]
            /\ signed = asserted[l] /\ got = collected[l]
            /\ LoginOK(st, cb, ses, req, signed, got, joined)
    BY LoginNow
  <1>3. UnderWay(st, cb, ses, req, signed, got, joined)
    BY <1>1, <1>2 DEF LoginOK
  <1>4. PICK new : new = [user |-> cb.email, org |-> cb.org, expiresAt |-> second + SessionCodeTTL]
    OBVIOUS
  <1>5. /\ sessions' = [DropExpired(sessions, NoSession) EXCEPT ![l] = new]
        /\ callback' = [callback EXCEPT ![l] = NoCallback]
        /\ UNCHANGED <<loginState, signIns, joined, requested, asserted, collected>>
    BY <1>2, <1>4 DEF MintSession, Put, Abandoned, history
  <1>6. /\ sessions'[l] = new /\ callback'[l] = NoCallback
        /\ \A m \in Logins \ {l} : sessions'[m] \in {sessions[m], NoSession} /\ callback'[m] = callback[m]
    BY <1>5 DEF DropExpired, SignOnInv, LoginsTyped
  <1>7. LoginsTyped'
    BY <1>5 DEF SignOnInv, LoginsTyped, DropExpired
  <1>8. OthersKept(l)
    BY <1>5, <1>6 DEF OthersKept
  <1>9. ThisLoginOK(l)
    <2>1. Rightful(cb.email, cb.org, req, signed) /\ <<cb.email, cb.org>> \in joined
      BY <1>0, <1>2, <1>3 DEF UnderWay
    <2>2. LoginOK(st, NoCallback, new, req, signed, got, joined)
      BY <1>3, <1>4, <2>1 DEF LoginOK, Minting, UnderWay
    <2>3. QED
      BY <1>2, <1>5, <1>6, <2>2 DEF ThisLoginOK
  <1>10. QED
    BY <1>5, <1>7, <1>8, <1>9, SignOnSteps, CodesKept DEF SignOnInv

LEMMA CollectSessionOK == ASSUME SignOnInv, NEW l \in Logins, CollectSession(l) PROVE SignOnInv'
  <1>1. PICK st, cb, ses, req, signed, got :
            /\ st = loginState[l] /\ cb = callback[l] /\ ses = sessions[l] /\ req = requested[l]
            /\ signed = asserted[l] /\ got = collected[l]
            /\ LoginOK(st, cb, ses, req, signed, got, joined)
    BY LoginNow
  <1>2. ses # NoSession /\ Minting(st, cb, ses, req, signed, got, joined)
    BY <1>1 DEF CollectSession, LoginOK
  <1>3. PICK s : s = [user |-> ses.user, org |-> ses.org]
    OBVIOUS
  <1>4. /\ sessions' = [sessions EXCEPT ![l] = NoSession]
        /\ collected' = [collected EXCEPT ![l] = Append(got, s)] \/ collected' = collected
        /\ UNCHANGED <<loginState, signIns, callback, joined, requested, asserted>>
    BY <1>1, <1>3 DEF CollectSession, Take
  <1>5. Append(got, s) = <<s>>
    BY <1>2 DEF Minting
  <1>6. /\ sessions'[l] = NoSession /\ collected'[l] \in {<<s>>, got}
        /\ \A m \in Logins \ {l} : sessions'[m] = sessions[m] /\ collected'[m] = collected[m]
    BY <1>1, <1>4, <1>5 DEF SignOnInv, LoginsTyped
  <1>7. LoginsTyped'
    BY <1>4 DEF SignOnInv, LoginsTyped
  <1>8. OthersKept(l)
    BY <1>4, <1>6 DEF OthersKept
  <1>9. ThisLoginOK(l)
    <2>1. Collected(req, signed, <<s>>, joined)
      BY <1>2, <1>3 DEF Collected, Minting
    <2>2. LoginOK(st, cb, NoSession, req, signed, <<s>>, joined)
      BY <1>2, <2>1 DEF LoginOK, Minting
    <2>3. LoginOK(st, cb, NoSession, req, signed, got, joined)
      BY <1>1, LoginOnwards
    <2>4. QED
      BY <1>1, <1>4, <1>6, <2>2, <2>3 DEF ThisLoginOK
  <1>10. QED
    BY <1>4, <1>7, <1>8, <1>9, SignOnSteps, CodesKept DEF SignOnInv

LEMMA SignOnRestOK ==
  ASSUME SignOnInv, UNCHANGED <<signIns, joined, requested, asserted, collected>>,
         \/ UNCHANGED <<loginState, callback, sessions>>
         \/ Restart
  PROVE  SignOnInv'
  <1>1. LoginsTyped' /\ CodesAreSigned'
    BY CodesKept DEF SignOnInv, LoginsTyped, Restart
  <1>2. ASSUME NEW l \in Logins
        PROVE  LoginOK(loginState'[l], callback'[l], sessions'[l], requested'[l], asserted'[l], collected'[l], joined')
    <2>1. PICK st, cb, ses, req, signed, got :
            /\ st = loginState[l] /\ cb = callback[l] /\ ses = sessions[l] /\ req = requested[l]
            /\ signed = asserted[l] /\ got = collected[l]
            /\ LoginOK(st, cb, ses, req, signed, got, joined)
      BY LoginNow
    <2>2. PICK st2, cb2, ses2 : st2 = loginState'[l] /\ cb2 = callback'[l] /\ ses2 = sessions'[l]
      OBVIOUS
    <2>3. st2 \in {st, NoState} /\ cb2 \in {cb, NoCallback} /\ ses2 \in {ses, NoSession}
      BY <2>1, <2>2 DEF Restart
    <2>4. LoginOK(st2, cb2, ses2, req, signed, got, joined)
      BY <2>1, <2>3, LoginOnwards
    <2>5. QED
      BY <2>1, <2>2, <2>4
  <1>3. QED
    BY <1>1, <1>2 DEF SignOnInv, EachLoginOK

LEMMA SignOnInitOK == SignOnInit => SignOnInv
  BY DEF SignOnInit, SignOnInv, LoginsTyped, CodesAreSigned, EachLoginOK, LoginOK

LEMMA SignOnNextOK == SignOnInv /\ [SignOnNext]_ssoVars => SignOnInv'
  <1> SUFFICES ASSUME SignOnInv, [SignOnNext]_ssoVars PROVE SignOnInv'
    OBVIOUS
  <1>1. ASSUME NEW l \in Logins, LoginStep(l) PROVE SignOnInv'
    BY <1>1, StartOK, SignInOK, CallbackOK, ExchangeOK, ProvisioningOK, MintSessionOK, CallbackFailsOK,
       CollectSessionOK DEF LoginStep
  <1>2. CASE Restart
    BY <1>2, SignOnRestOK DEF Restart, history
  <1>3. CASE NextSecond
    BY <1>3, SignOnRestOK DEF NextSecond, history
  <1>4. ASSUME NEW o \in Workspaces, DeleteConfig(o) \/ \E enabled \in BOOLEAN : UpsertConfig(o, enabled)
        PROVE  SignOnInv'
    BY <1>4, SignOnRestOK DEF DeleteConfig, UpsertConfig, history
  <1>5. CASE UNCHANGED ssoVars
    BY <1>5, SignOnRestOK DEF ssoVars
  <1>6. QED
    BY <1>1, <1>2, <1>3, <1>4, <1>5 DEF SignOnNext

\* A login hands over one session at most, of somebody who signed in for that very login, in a
\* permitted domain, and is a member of its organization: whatever codes, states and
\* one-time codes are presented to callback and exchange, in whatever order.
THEOREM LoginsKeepTheirSessions == SignOnSpec => []SessionMatchesLogin
  <1>1. SignOnInv => SessionMatchesLogin
    <2> SUFFICES ASSUME SignOnInv, NEW l \in Logins
        PROVE  /\ Len(collected[l]) <= 1
               /\ \A i \in DOMAIN collected[l] :
                     LET got == collected[l][i]
                     IN  /\ got.user \in asserted[l] /\ got.user \in Permitted
                         /\ got.org = requested[l] /\ <<got.user, got.org>> \in joined
      BY DEF SessionMatchesLogin
    <2>1. PICK st, cb, ses, req, signed, got :
            /\ st = loginState[l] /\ cb = callback[l] /\ ses = sessions[l] /\ req = requested[l]
            /\ signed = asserted[l] /\ got = collected[l]
            /\ LoginOK(st, cb, ses, req, signed, got, joined)
      BY LoginNow
    <2>2. CASE got = <<>>
      BY <2>1, <2>2
    <2>3. CASE got # <<>>
      <3>1. PICK s : got = <<s>> /\ Rightful(s.user, s.org, req, signed) /\ <<s.user, s.org>> \in joined
        BY <2>1, <2>3 DEF LoginOK, Collected
      <3>2. Len(got) = 1 /\ DOMAIN got = {1} /\ got[1] = s
        BY <3>1
      <3>3. QED
        BY <2>1, <3>1, <3>2 DEF Rightful
    <2>4. QED
      BY <2>2, <2>3
  <1>2. QED
    BY <1>1, SignOnInitOK, SignOnNextOK, PTL DEF SignOnSpec

-----------------------------------------------------------------------------
(* ApiKeys: what a bucket holds. *)

LEMMA MinOfTwo == ASSUME NEW x \in Int, NEW y \in Int
                  PROVE  Min({x, y}) = IF x <= y THEN x ELSE y
  BY DEF Min

KeyRow(row) ==
    /\ row = [status |-> row.status, rate |-> row.rate, burst |-> row.burst,
              expiresAt |-> row.expiresAt, lastUsed |-> row.lastUsed]
    /\ row.rate \in Nat /\ row.burst \in Nat

\* The proviso: the policy limits, and a minute's rate fills the burst before the bucket is swept.
Limits(p) == p.rate > 0 /\ p.burst <= p.rate * IdleMinutes

\* The bucket b holds n tokens at the minute m.
Holds(b, p, n, m) ==
    \/ b = NoBucket /\ n = p.burst
    \/ /\ b # NoBucket /\ b.last \in 1 .. m /\ b.tokens \in 0 .. p.burst
       /\ n = IF p.burst <= b.tokens + (m - b.last) * p.rate THEN p.burst
              ELSE b.tokens + (m - b.last) * p.rate

Reading(x) == \/ x = NotReading
              \/ x = [key |-> x.key] /\ x.key \in ApiKeyIDs /\ apiKey[x.key].status # "none"

KeyHolds(k) == (apiKey[k].status # "none" /\ Limits(PolicyOf(apiKey[k])))
                  => Holds(bucket[k], PolicyOf(apiKey[k]), allowance[k], minute)

KeysInv ==
    /\ minute \in Nat /\ minute >= 1 /\ swept \in Int
    /\ apiKey = [k \in ApiKeyIDs |-> apiKey[k]] /\ bucket = [k \in ApiKeyIDs |-> bucket[k]]
    /\ allowance = [k \in ApiKeyIDs |-> allowance[k]] /\ reader = [r \in Readers |-> reader[r]]
    /\ \A k \in ApiKeyIDs : KeyRow(apiKey[k])
    /\ \A r \in Readers : Reading(reader[r])
    /\ \A k \in ApiKeyIDs : apiKey[k].status = "none" => bucket[k] = NoBucket
    /\ \A k \in ApiKeyIDs : KeyHolds(k)

LEMMA PolicyFields ==
  ASSUME NEW row, KeyRow(row)
  PROVE  /\ PolicyOf(row).rate \in Nat /\ PolicyOf(row).burst \in Nat
         /\ PolicyOf(row) = [rate |-> PolicyOf(row).rate, burst |-> PolicyOf(row).burst]
  <1>1. PICK rate \in Nat : rate = IF row.rate > 0 THEN row.rate ELSE DefaultRate
    BY ApiKeysAssumption DEF KeyRow
  <1>2. PICK burst \in Nat : burst = IF row.burst > 0 THEN row.burst
                                     ELSE IF row.rate > 0 THEN 0 ELSE DefaultBurst
    BY ApiKeysAssumption DEF KeyRow
  <1>3. PICK p : p = KeyPolicy(row)
    OBVIOUS
  <1>4. p = [rate |-> rate, burst |-> burst]
    BY <1>1, <1>2, <1>3 DEF KeyPolicy
  <1>5. PolicyOf(row) = [rate |-> rate, burst |-> IF burst = 0 THEN rate ELSE burst]
    BY <1>3, <1>4 DEF PolicyOf, WithDefaults
  <1>6. QED
    BY <1>5

LEMMA PolicyStays ==
  ASSUME NEW row, NEW row2, row2.rate = row.rate, row2.burst = row.burst
  PROVE  PolicyOf(row2) = PolicyOf(row)
  BY DEF PolicyOf, KeyPolicy

\* A bucket swept when idle held its burst.
LEMMA SweptHolds ==
  ASSUME NEW b, NEW p, p.rate \in Nat, p.burst \in Nat, Limits(p), NEW n, NEW m \in Nat, Holds(b, p, n, m),
         m - b.last > IdleMinutes
  PROVE  n = p.burst
  <1>1. CASE b # NoBucket
    <2>1. IdleMinutes \in Nat /\ b.last \in Nat /\ b.tokens \in Nat
      BY <1>1, ApiKeysAssumption DEF Holds
    <2>2. PICK d \in Nat : d = m - b.last /\ d > IdleMinutes
      BY <2>1
    <2>3. d * p.rate >= IdleMinutes * p.rate
      BY <2>1, <2>2
    <2>4. IdleMinutes * p.rate = p.rate * IdleMinutes
      BY <2>1
    <2>5. PICK t \in Nat : t = d * p.rate /\ t >= p.burst
      BY <2>1, <2>2, <2>3, <2>4 DEF Limits
    <2>6. n = IF p.burst <= b.tokens + t THEN p.burst ELSE b.tokens + t
      BY <1>1, <2>2, <2>5 DEF Holds
    <2>7. QED
      BY <2>1, <2>5, <2>6
  <1>2. QED
    BY <1>1 DEF Holds

\* Another minute's tokens, up to the burst.
LEMMA MinuteHolds ==
  ASSUME NEW b, NEW p, p.rate \in Nat, p.burst \in Nat, NEW n, NEW m \in Nat, Holds(b, p, n, m)
  PROVE  n \in 0 .. p.burst /\ Holds(b, p, Min({p.burst, n + p.rate}), m + 1)
  <1>1. CASE b = NoBucket /\ n = p.burst
    <2>1. Min({p.burst, n + p.rate}) = p.burst
      BY <1>1, MinOfTwo
    <2>2. QED
      BY <1>1, <2>1 DEF Holds
  <1>2. CASE b # NoBucket
    <2>1. PICK d \in Nat : d = m - b.last
      BY <1>2 DEF Holds
    <2>2. PICK t \in Nat : t = d * p.rate /\ (d + 1) * p.rate = t + p.rate
      BY <2>1
    <2>3. (m + 1) - b.last = d + 1 /\ b.last \in 1 .. m + 1 /\ b.tokens \in 0 .. p.burst
      BY <1>2, <2>1 DEF Holds
    <2>4. n = IF p.burst <= b.tokens + t THEN p.burst ELSE b.tokens + t
      BY <1>2, <2>1, <2>2 DEF Holds
    <2>5. n \in 0 .. p.burst
      BY <2>2, <2>3, <2>4
    <2>6. Min({p.burst, n + p.rate})
            = IF p.burst <= b.tokens + (t + p.rate) THEN p.burst ELSE b.tokens + (t + p.rate)
      <3>1. PICK B \in Nat, R \in Nat, T \in Nat : B = p.burst /\ R = p.rate /\ T = b.tokens
        BY <2>3
      <3>2. n \in Int /\ n = IF B <= T + t THEN B ELSE T + t
        BY <2>4, <2>5, <3>1
      <3>3. Min({B, n + R}) = IF B <= n + R THEN B ELSE n + R
        BY <3>2, MinOfTwo
      <3>4. Min({B, n + R}) = IF B <= T + (t + R) THEN B ELSE T + (t + R)
        BY <3>2, <3>3
      <3>5. QED
        BY <3>1, <3>4
    <2>7. QED
      BY <1>2, <2>2, <2>3, <2>5, <2>6 DEF Holds
  <1>3. QED
    BY <1>1, <1>2 DEF Holds

LEMMA HeldIsRefilled ==
  ASSUME NEW b, NEW p, p.rate \in Nat, p.burst \in Nat, NEW n, minute \in Nat, Holds(b, p, n, minute)
  PROVE  Refilled(b, p) = n
  <1>1. CASE b = NoBucket
    BY <1>1 DEF Holds, Refilled
  <1>2. CASE b # NoBucket
    <2>1. PICK d \in Nat : d = minute - b.last
      BY <1>2 DEF Holds
    <2>2. PICK t \in Nat : t = d * p.rate
      BY <2>1
    <2>3. Refilled(b, p) = Min({p.burst, b.tokens + t})
      BY <1>2, <2>1, <2>2 DEF Refilled
    <2>4. n = IF p.burst <= b.tokens + t THEN p.burst ELSE b.tokens + t
      BY <1>2, <2>1, <2>2 DEF Holds
    <2>5. b.tokens \in Nat
      BY <1>2 DEF Holds
    <2>6. QED
      BY <2>2, <2>3, <2>4, <2>5, MinOfTwo
  <1>3. QED
    BY <1>1, <1>2

\* A bucket just charged holds what it has.
LEMMA ChargedHolds ==
  ASSUME NEW p, p.rate \in Nat, p.burst \in Nat, NEW n \in 0 .. p.burst, NEW m \in Nat, m >= 1
  PROVE  Holds([tokens |-> n, last |-> m], p, n, m)
  <1>1. PICK b : b = [tokens |-> n, last |-> m]
    OBVIOUS
  <1>2. b # NoBucket
    BY <1>1 DEF NoBucket
  <1>3. (m - b.last) * p.rate = 0
    BY <1>1
  <1>4. QED
    BY <1>1, <1>2, <1>3 DEF Holds

\* What a key's bucket holds depends on its policy, its bucket and its allowance.
LEMMA KeyAgain ==
  ASSUME NEW k \in ApiKeyIDs, KeyHolds(k), UNCHANGED minute,
         apiKey'[k].rate = apiKey[k].rate, apiKey'[k].burst = apiKey[k].burst,
         apiKey[k].status = "none" => apiKey'[k].status = "none",
         bucket'[k] = bucket[k], allowance'[k] = allowance[k]
  PROVE  KeyHolds(k)'
  <1>1. PICK row, row2 : row = apiKey[k] /\ row2 = apiKey'[k]
    OBVIOUS
  <1>2. PolicyOf(row2) = PolicyOf(row)
    BY <1>1, PolicyStays
  <1>3. PICK p, b, n, m : p = PolicyOf(row) /\ b = bucket[k] /\ n = allowance[k] /\ m = minute
    OBVIOUS
  <1>4. (row.status # "none" /\ Limits(p)) => Holds(b, p, n, m)
    BY <1>1, <1>3 DEF KeyHolds
  <1>5. (row2.status # "none" /\ Limits(p)) => Holds(b, p, n, m)
    BY <1>1, <1>4
  <1>6. QED
    BY <1>1, <1>2, <1>3, <1>5 DEF KeyHolds

\* Keys change, buckets do not: rows keep their policy and are not unminted.
LEMMA RowsChange ==
  ASSUME KeysInv, UNCHANGED <<minute, bucket, swept, allowance>>, NEW k \in ApiKeyIDs, NEW new,
         apiKey' = [apiKey EXCEPT ![k] = new], KeyRow(new),
         new.rate = apiKey[k].rate, new.burst = apiKey[k].burst,
         new.status = "none" <=> apiKey[k].status = "none",
         \A r \in Readers : reader'[r] = reader[r] \/ Reading(reader'[r]),
         reader' = [r \in Readers |-> reader'[r]]
  PROVE  KeysInv'
  <1>1. \A q \in ApiKeyIDs : apiKey'[q] = IF q = k THEN new ELSE apiKey[q]
    BY DEF KeysInv
  <1>2. \A q \in ApiKeyIDs : /\ apiKey'[q].rate = apiKey[q].rate /\ apiKey'[q].burst = apiKey[q].burst
                             /\ apiKey'[q].status = "none" <=> apiKey[q].status = "none"
    BY <1>1
  <1>3. \A q \in ApiKeyIDs : KeyRow(apiKey'[q])
    BY <1>1 DEF KeysInv
  <1>4. ASSUME NEW r \in Readers PROVE Reading(reader[r])'
    <2>1. PICK x : x = reader'[r] /\ Reading(x)
      BY DEF KeysInv
    <2>2. QED
      BY <1>2, <2>1 DEF Reading
  <1>5. \A q \in ApiKeyIDs : KeyHolds(q)'
    BY <1>2, KeyAgain DEF KeysInv
  <1>6. QED
    BY <1>2, <1>3, <1>4, <1>5 DEF KeysInv

LEMMA CreateKeyOK ==
  ASSUME KeysInv, NEW k \in ApiKeyIDs, NEW rate \in KeyRates, NEW burst \in KeyBursts, NEW life \in {0, 2},
         CreateKey(k, rate, burst, life)
  PROVE  KeysInv'
  <1>1. apiKey[k].status = "none" /\ bucket[k] = NoBucket
    BY DEF CreateKey, KeysInv
  <1>2. PICK new : new = NewKeyRow(rate, burst, life)
    OBVIOUS
  <1>3. KeyRow(new) /\ new.status = "live"
    BY <1>2, ApiKeysAssumption DEF NewKeyRow, KeyRow
  <1>4. apiKey' = [apiKey EXCEPT ![k] = new] /\ apiKey'[k] = new
    BY <1>2 DEF CreateKey, InsertKey, KeysInv
  <1>5. PICK p : p = PolicyOf(new)
    OBVIOUS
  <1>6. allowance' = [allowance EXCEPT ![k] = p.burst] /\ UNCHANGED <<minute, reader, bucket, swept>>
    BY <1>4, <1>5 DEF CreateKey
  <1>7. \A q \in ApiKeyIDs : apiKey'[q] = (IF q = k THEN new ELSE apiKey[q])
                             /\ allowance'[q] = (IF q = k THEN p.burst ELSE allowance[q])
    BY <1>4, <1>6 DEF KeysInv
  <1>8. ASSUME NEW q \in ApiKeyIDs PROVE KeyHolds(q)'
    <2>1. CASE q = k
      <3>1. Holds(NoBucket, p, p.burst, minute)
        BY DEF Holds
      <3>2. QED
        BY <1>1, <1>5, <1>6, <1>7, <2>1, <3>1 DEF KeyHolds
    <2>2. CASE q # k
      <3>1. KeyHolds(q)
        BY DEF KeysInv
      <3>2. QED
        BY <1>6, <1>7, <2>2, <3>1, KeyAgain
    <2>3. QED
      BY <2>1, <2>2
  <1>9. \A r \in Readers : Reading(reader[r])'
    BY <1>3, <1>6, <1>7 DEF Reading, KeysInv
  <1>10. \A q \in ApiKeyIDs : KeyRow(apiKey[q])' /\ (apiKey'[q].status = "none" => bucket'[q] = NoBucket)
    BY <1>3, <1>6, <1>7 DEF KeysInv, KeyRow
  <1>11. QED
    BY <1>4, <1>6, <1>8, <1>9, <1>10 DEF KeysInv

LEMMA RevokeKeyOK == ASSUME KeysInv, NEW k \in ApiKeyIDs, RevokeKey(k) PROVE KeysInv'
  <1>1. PICK row : row = apiKey[k] /\ KeyRow(row)
    BY DEF KeysInv
  <1>2. PICK new : new = [row EXCEPT !.status = "gone"]
    OBVIOUS
  <1>3. KeyRow(new) /\ new.rate = row.rate /\ new.burst = row.burst /\ new.status = "gone" /\ row.status = "live"
    BY <1>1, <1>2 DEF KeyRow, RevokeKey
  <1>4. apiKey' = [apiKey EXCEPT ![k] = new]
    BY <1>1, <1>2 DEF RevokeKey, DeleteKey
  <1>5. UNCHANGED <<minute, bucket, swept, allowance, reader>> /\ reader' = [r \in Readers |-> reader'[r]]
    BY DEF RevokeKey, KeysInv
  <1>6. QED
    BY <1>1, <1>3, <1>4, <1>5, RowsChange

LEMMA AuthenticateAPIKeyOK ==
  ASSUME KeysInv, NEW r \in Readers, NEW k \in ApiKeyIDs, NEW written \in BOOLEAN, AuthenticateAPIKey(r, k, written)
  PROVE  KeysInv'
  <1>1. PICK row : row = apiKey[k] /\ KeyRow(row)
    BY DEF KeysInv
  <1>2. PICK touched : touched = [row EXCEPT !.lastUsed = minute]
    OBVIOUS
  <1>3. KeyRow(touched) /\ touched.rate = row.rate /\ touched.burst = row.burst /\ touched.status = row.status
    BY <1>1, <1>2 DEF KeyRow
  <1>4. PICK new \in {row, touched} : apiKey' = [apiKey EXCEPT ![k] = new]
    <2>1. apiKey = [apiKey EXCEPT ![k] = row]
      BY <1>1 DEF KeysInv
    <2>2. apiKey' = apiKey \/ apiKey' = [apiKey EXCEPT ![k] = touched]
      BY <1>1, <1>2 DEF AuthenticateAPIKey, TouchLastUsed
    <2>3. QED
      BY <2>1, <2>2
  <1>5. PICK x : x = [key |-> k]
    OBVIOUS
  <1>6. reader' = [reader EXCEPT ![r] = x] /\ UNCHANGED <<minute, bucket, swept, allowance>>
    BY <1>5 DEF AuthenticateAPIKey
  <1>7. x.key = k /\ row.status = "live"
    BY <1>1, <1>5 DEF AuthenticateAPIKey, KeyAuthenticates
  <1>8. Reading(x)
    BY <1>1, <1>5, <1>7 DEF Reading
  <1>9. reader' = [s \in Readers |-> reader'[s]] /\ \A s \in Readers : reader'[s] = reader[s] \/ Reading(reader'[s])
    <2>1. \A s \in Readers : reader'[s] = IF s = r THEN x ELSE reader[s]
      BY <1>6 DEF KeysInv
    <2>2. \A s \in Readers : \E y : y = reader'[s] /\ (y = reader[s] \/ Reading(y))
      BY <1>8, <2>1
    <2>3. QED
      BY <1>6, <2>2 DEF KeysInv
  <1>10. new.rate = row.rate /\ new.burst = row.burst /\ new.status = row.status /\ KeyRow(new)
    BY <1>1, <1>3, <1>4
  <1>11. QED
    BY <1>1, <1>4, <1>6, <1>9, <1>10, RowsChange

\* Neither the sweep nor a charge gives a key more, or less, than its allowance.
LEMMA SweepHolds ==
  ASSUME KeysInv, NEW held, held = Sweep(bucket)
  PROVE  /\ held = [k \in ApiKeyIDs |-> held[k]]
         /\ \A k \in ApiKeyIDs :
              /\ held[k] \in {bucket[k], NoBucket}
              /\ (apiKey[k].status # "none" /\ Limits(PolicyOf(apiKey[k])))
                    => Holds(held[k], PolicyOf(apiKey[k]), allowance[k], minute)
  <1>1. held = [k \in ApiKeyIDs |-> held[k]]
    BY DEF Sweep, KeysInv
  <1>2. ASSUME NEW k \in ApiKeyIDs
        PROVE  /\ held[k] \in {bucket[k], NoBucket}
               /\ held[k] = bucket[k] \/ minute - bucket[k].last > IdleMinutes
    BY DEF Sweep, KeysInv
  <1>3. ASSUME NEW k \in ApiKeyIDs, apiKey[k].status # "none", Limits(PolicyOf(apiKey[k]))
        PROVE  Holds(held[k], PolicyOf(apiKey[k]), allowance[k], minute)
    <2>1. PICK p : p = PolicyOf(apiKey[k]) /\ p.rate \in Nat /\ p.burst \in Nat
      BY PolicyFields DEF KeysInv
    <2>2. Limits(p) /\ Holds(bucket[k], p, allowance[k], minute) /\ minute \in Nat
      BY <1>3, <2>1 DEF KeysInv, KeyHolds
    <2>3. CASE held[k] = bucket[k]
      BY <2>1, <2>2, <2>3
    <2>4. CASE held[k] # bucket[k]
      <3>1. held[k] = NoBucket /\ minute - bucket[k].last > IdleMinutes
        BY <1>2, <2>4
      <3>2. allowance[k] = p.burst
        BY <2>1, <2>2, <3>1, SweptHolds
      <3>3. Holds(NoBucket, p, allowance[k], minute)
        BY <3>2 DEF Holds
      <3>4. QED
        BY <2>1, <3>1, <3>3
    <2>5. QED
      BY <2>3, <2>4
  <1>4. QED
    BY <1>1, <1>2, <1>3

LEMMA RateLimitAPIKeyOK ==
  ASSUME KeysInv, NEW r \in Readers, NEW export \in BOOLEAN, RateLimitAPIKey(r, export)
  PROVE  KeysInv'
  <1>0. minute \in Nat /\ minute >= 1 /\ UNCHANGED <<minute, apiKey>> /\ reader' = [reader EXCEPT ![r] = NotReading]
    BY DEF RateLimitAPIKey, KeysInv
  <1>1. PICK k \in ApiKeyIDs : k = reader[r].key /\ apiKey[k].status # "none"
    BY DEF RateLimitAPIKey, KeysInv, Reading
  <1>2. PICK p : p = PolicyOf(apiKey[k]) /\ p.rate \in Nat /\ p.burst \in Nat
    BY PolicyFields DEF KeysInv
  <1>3. \A s \in Readers : Reading(reader[s])'
    <2>1. \A s \in Readers : reader'[s] = IF s = r THEN NotReading ELSE reader[s]
      BY <1>0 DEF KeysInv
    <2>2. QED
      BY <1>0, <2>1 DEF KeysInv, Reading
  <1>4. CASE p.rate = 0
    <2>1. UNCHANGED <<bucket, swept, allowance>>
      BY <1>1, <1>2, <1>4 DEF RateLimitAPIKey
    <2>2. \A q \in ApiKeyIDs : KeyHolds(q)'
      BY <1>0, <2>1 DEF KeysInv, KeyHolds, Holds
    <2>3. QED
      BY <1>0, <1>3, <2>1, <2>2 DEF KeysInv, KeyRow
  <1>5. CASE p.rate # 0
    <2>1. PICK cost \in Nat : cost = QueryCost(export)
      BY ApiKeysAssumption DEF QueryCost
    <2>2. Allow(k, p, cost)
      BY <1>1, <1>2, <1>5, <2>1 DEF RateLimitAPIKey
    <2>3. PICK held : held = Sweep(bucket)
      OBVIOUS
    <2>4. PICK tokens : tokens = Refilled(held[k], p)
      OBVIOUS
    <2>5. PICK due \in 0 .. p.burst : due = Charge(cost, p)
      BY <1>2, <2>1, MinOfTwo DEF Charge
    <2>6. PICK paid \in 0 .. p.burst : paid = IF tokens < due THEN 0 ELSE due
      BY <1>2, <2>5
    <2>7. PICK new : new = [tokens |-> tokens - paid, last |-> minute]
      OBVIOUS
    <2>8. /\ bucket' = [held EXCEPT ![k] = new]
          /\ allowance' = [allowance EXCEPT ![k] = allowance[k] - paid]
          /\ swept' \in {swept, minute}
      BY <2>2, <2>3, <2>4, <2>5, <2>6, <2>7 DEF Allow
    <2>9. /\ held = [q \in ApiKeyIDs |-> held[q]]
          /\ \A q \in ApiKeyIDs :
              /\ held[q] \in {bucket[q], NoBucket}
              /\ (apiKey[q].status # "none" /\ Limits(PolicyOf(apiKey[q])))
                    => Holds(held[q], PolicyOf(apiKey[q]), allowance[q], minute)
      BY <2>3, SweepHolds
    <2>10. \A q \in ApiKeyIDs : /\ bucket'[q] = IF q = k THEN new ELSE held[q]
                                /\ allowance'[q] = IF q = k THEN allowance[k] - paid ELSE allowance[q]
      BY <2>8, <2>9 DEF KeysInv
    <2>11. ASSUME Limits(p) PROVE Holds(new, p, allowance[k] - paid, minute)
      <3>1. Holds(held[k], p, allowance[k], minute)
        BY <1>1, <1>2, <2>9, <2>11
      <3>2. tokens = allowance[k] /\ tokens \in 0 .. p.burst
        BY <1>0, <1>2, <2>4, <3>1, HeldIsRefilled, MinuteHolds
      <3>3. tokens - paid \in 0 .. p.burst
        BY <1>2, <2>5, <2>6, <3>2
      <3>4. QED
        BY <1>0, <1>2, <2>7, <3>2, <3>3, ChargedHolds
    <2>12. ASSUME NEW q \in ApiKeyIDs PROVE KeyHolds(q)'
      <3>1. PICK row, b, n : row = apiKey[q] /\ b = bucket'[q] /\ n = allowance'[q]
        OBVIOUS
      <3>2. (row.status # "none" /\ Limits(PolicyOf(row))) => Holds(b, PolicyOf(row), n, minute)
        <4>1. CASE q = k
          BY <1>2, <2>10, <2>11, <3>1, <4>1
        <4>2. CASE q # k
          BY <2>9, <2>10, <3>1, <4>2
        <4>3. QED
          BY <4>1, <4>2
      <3>3. QED
        BY <1>0, <3>1, <3>2 DEF KeyHolds
    <2>13. \A q \in ApiKeyIDs : apiKey[q].status = "none" => bucket'[q] = NoBucket
      BY <1>1, <2>9, <2>10 DEF KeysInv
    <2>14. swept' \in Int
      BY <1>0, <2>8 DEF KeysInv
    <2>15. bucket' = [q \in ApiKeyIDs |-> bucket'[q]] /\ allowance' = [q \in ApiKeyIDs |-> allowance'[q]]
      BY <2>8, <2>9 DEF KeysInv
    <2>16. QED
      BY <1>0, <1>3, <2>12, <2>13, <2>14, <2>15 DEF KeysInv, KeyRow
  <1>6. QED
    BY <1>4, <1>5

LEMMA NextMinuteOK == ASSUME KeysInv, NextMinute PROVE KeysInv'
  <1>1. /\ minute' = minute + 1 /\ minute \in Nat /\ minute >= 1
        /\ UNCHANGED <<apiKey, reader, bucket, swept>>
        /\ allowance' = [k \in ApiKeyIDs |-> allowance'[k]]
    BY DEF NextMinute, KeysInv
  <1>2. ASSUME NEW k \in ApiKeyIDs PROVE KeyHolds(k)'
    <2>1. PICK row : row = apiKey[k] /\ KeyRow(row)
      BY DEF KeysInv
    <2>2. PICK p : p = PolicyOf(row) /\ p.rate \in Nat /\ p.burst \in Nat
      BY <2>1, PolicyFields
    <2>3. PICK b, n, m : b = bucket[k] /\ n = allowance[k] /\ m = minute /\ m \in Nat
      BY <1>1
    <2>4. (row.status # "none" /\ Limits(p)) => Holds(b, p, n, m)
      BY <2>1, <2>2, <2>3 DEF KeysInv, KeyHolds
    <2>5. row.status # "none" => allowance'[k] = Min({p.burst, n + p.rate})
      BY <2>1, <2>2, <2>3 DEF NextMinute
    <2>6. PICK n2 : n2 = Min({p.burst, n + p.rate})
      OBVIOUS
    <2>7. (row.status # "none" /\ Limits(p)) => Holds(b, p, n2, m + 1)
      <3>1. ASSUME Holds(b, p, n, m) PROVE Holds(b, p, Min({p.burst, n + p.rate}), m + 1)
        BY <2>2, <2>3, <3>1, MinuteHolds, Zenon
      <3>2. QED
        BY <2>4, <2>6, <3>1
    <2>8. PICK row2, b2, n3, m2 : row2 = apiKey'[k] /\ b2 = bucket'[k] /\ n3 = allowance'[k] /\ m2 = minute'
      OBVIOUS
    <2>9. row2 = row /\ b2 = b /\ m2 = m + 1 /\ (row.status # "none" => n3 = n2)
      BY <1>1, <2>1, <2>3, <2>5, <2>6, <2>8
    <2>10. (row2.status # "none" /\ Limits(PolicyOf(row2))) => Holds(b2, PolicyOf(row2), n3, m2)
      BY <2>2, <2>7, <2>9
    <2>11. QED
      BY <2>8, <2>10 DEF KeyHolds
  <1>3. QED
    BY <1>1, <1>2 DEF KeysInv, KeyRow, Reading

LEMMA KeysInitOK == ApiKeysInit => KeysInv
  <1> SUFFICES ASSUME ApiKeysInit PROVE KeysInv
    OBVIOUS
  <1>1. /\ minute = 1 /\ swept \in Int
        /\ apiKey = [k \in ApiKeyIDs |-> Unminted] /\ bucket = [k \in ApiKeyIDs |-> NoBucket]
        /\ reader = [r \in Readers |-> NotReading] /\ allowance = [k \in ApiKeyIDs |-> 0]
    BY ApiKeysAssumption DEF ApiKeysInit
  <1>2. KeyRow(Unminted) /\ Unminted.status = "none"
    BY DEF KeyRow, Unminted
  <1>3. QED
    BY <1>1, <1>2 DEF KeysInv, Reading, KeyHolds

LEMMA KeysNextOK == KeysInv /\ [ApiKeysNext]_apiKeyVars => KeysInv'
  <1> SUFFICES ASSUME KeysInv, [ApiKeysNext]_apiKeyVars PROVE KeysInv'
    OBVIOUS
  <1>1. CASE KeyRoutes
    BY <1>1, RevokeKeyOK, CreateKeyOK DEF KeyRoutes
  <1>2. CASE QueryRoutes
    BY <1>2, AuthenticateAPIKeyOK, RateLimitAPIKeyOK DEF QueryRoutes
  <1>3. CASE Suspend \/ UNCHANGED apiKeyVars
    <2>1. UNCHANGED <<minute, apiKey, reader, bucket, swept, allowance>>
      BY <1>3 DEF Suspend, apiKeyVars
    <2>2. \A k \in ApiKeyIDs : KeyHolds(k)'
      BY <2>1 DEF KeysInv, KeyHolds
    <2>3. (\A r \in Readers : Reading(reader[r])') /\ \A k \in ApiKeyIDs : KeyRow(apiKey[k])'
      BY <2>1 DEF KeysInv, KeyRow, Reading
    <2>4. swept' = swept
      BY <1>3 DEF Suspend, apiKeyVars
    <2>5. QED
      BY <2>1, <2>2, <2>3, <2>4 DEF KeysInv
  <1>4. QED
    BY <1>1, <1>2, <1>3, NextMinuteOK DEF ApiKeysNext

\* The bucket a limiter creates, refills and sweeps away only when some request is charged
\* holds at every instant what one refilled every minute would.
THEOREM LazyBucketsAreExact == ApiKeysSpec => []BucketIsExact
  <1>1. KeysInv => BucketIsExact
    <2> SUFFICES ASSUME KeysInv, NEW k \in ApiKeyIDs, apiKey[k].status # "none",
                        PolicyOf(apiKey[k]).rate > 0,
                        PolicyOf(apiKey[k]).burst <= PolicyOf(apiKey[k]).rate * IdleMinutes
                 PROVE  Refilled(bucket[k], PolicyOf(apiKey[k])) = allowance[k]
      BY DEF BucketIsExact
    <2>1. PICK p : p = PolicyOf(apiKey[k]) /\ p.rate \in Nat /\ p.burst \in Nat
      BY PolicyFields DEF KeysInv
    <2>2. Holds(bucket[k], p, allowance[k], minute) /\ minute \in Nat
      BY <2>1 DEF KeysInv, KeyHolds, Limits
    <2>3. QED
      BY <2>1, <2>2, HeldIsRefilled
  <1>2. QED
    BY <1>1, KeysInitOK, KeysNextOK, PTL DEF ApiKeysSpec

-----------------------------------------------------------------------------
(* Accounts: how long a disabled account is admitted. *)

\* The table: who is enabled now was last enabled now.
TableOK ==
    /\ instant \in Nat
    /\ account = [u \in People |-> account[u]] /\ lastOn = [u \in People |-> lastOn[u]]
    /\ \A u \in People : lastOn[u] \in 0 .. instant /\ (account[u].enabled => lastOn[u] = instant)

\* An entry of the auth service's cache was filled by a request that read the row.
EntryOK(e, on) == e.until \in Nat /\ (e.exists /\ e.enabled => e.until <= on + MaxRequest + CacheTTL)

CacheOK ==
    /\ userCache = [s \in Services |-> userCache[s]]
    /\ userCache["auth"] = [u \in People |-> userCache["auth"][u]]
    /\ \A u \in People : EntryOK(userCache["auth"][u], lastOn[u])

\* What a service reads an account for.
Purpose(s, then) ==
    \/ s = "auth" /\ then \in {"check", "token"}
    \/ s = "ingestor" /\ then \in {"update", "delete", "answer", "activate"}

\* How old a copy the steps of an authentication may work on.
CopyAge(x, on) ==
    /\ x.step \in {"check", "admitted"} => x.svc = "auth"
    /\ x.step = "fill" /\ x.svc = "auth" /\ x.row.enabled => x.since <= on
    /\ x.step = "check" /\ x.row.enabled => x.since <= on + MaxRequest + CacheTTL
    /\ x.step = "admitted" => x.since <= on + MaxRequest + CacheTTL
    /\ x.step \in {"new", "cache", "uncache", "verified", "delete", "update", "activate", "mark"} => x.svc = "ingestor"
    /\ x.step = "fill" => Purpose(x.svc, x.then)
    /\ x.svc \in Services

\* A request is as old as MaxRequest at most.
InTime(x, now) == x.since \in Nat /\ x.since <= now /\ now <= x.since + MaxRequest

HandlerShape(x) ==
    \/ x = [step |-> x.step, svc |-> x.svc, user |-> x.user, row |-> x.row, since |-> x.since]
    \/ x = [step |-> x.step, svc |-> x.svc, user |-> x.user, row |-> x.row, since |-> x.since, then |-> x.then]
    \/ x = [step |-> x.step, svc |-> x.svc, user |-> x.user, since |-> x.since]

HandlerOK(x, on, now) ==
    \/ x = Waiting
    \/ HandlerShape(x) /\ x.user \in People /\ InTime(x, now) /\ CopyAge(x, on[x.user])

HandlersOK ==
    /\ handler = [h \in Handlers |-> handler[h]]
    /\ \A h \in Handlers : HandlerOK(handler[h], lastOn, instant)

AccountsInv == TableOK /\ CacheOK /\ HandlersOK

\* Time at which an account was enabled only grows.
LastOnGrows ==
    /\ lastOn' = [u \in People |-> lastOn'[u]]
    /\ \A u \in People : lastOn'[u] \in Nat /\ lastOn[u] <= lastOn'[u]

LEMMA EntryLater ==
  ASSUME NEW e, NEW on \in Nat, NEW on2 \in Nat, on <= on2, EntryOK(e, on)
  PROVE  EntryOK(e, on2)
  BY AccountsAssumption DEF EntryOK

LEMMA HandlerLater ==
  ASSUME NEW x, NEW on, NEW on2, NEW now \in Nat, HandlerOK(x, on, now),
         \A u \in People : on[u] \in Nat /\ on2[u] \in Nat /\ on[u] <= on2[u]
  PROVE  HandlerOK(x, on2, now)
  <1>1. CASE x # Waiting
    <2>1. HandlerShape(x) /\ x.user \in People /\ InTime(x, now) /\ CopyAge(x, on[x.user])
      BY <1>1 DEF HandlerOK
    <2>2. PICK a \in Nat, b \in Nat : a = on[x.user] /\ b = on2[x.user] /\ a <= b
      BY <2>1
    <2>3. x.since \in Nat
      BY <2>1 DEF InTime
    <2>4. CopyAge(x, b)
      BY <2>1, <2>2, <2>3, AccountsAssumption DEF CopyAge
    <2>5. QED
      BY <2>1, <2>2, <2>4 DEF HandlerOK
  <1>2. QED
    BY <1>1 DEF HandlerOK

\* A request goes on; the table and the cache may have changed as they may.
LEMMA HandlerMoves ==
  ASSUME AccountsInv, UNCHANGED instant, TableOK', CacheOK', LastOnGrows,
         NEW h \in Handlers, NEW x, handler' = [handler EXCEPT ![h] = x], HandlerOK(x, lastOn', instant)
  PROVE  AccountsInv'
  <1>1. handler' = [k \in Handlers |-> handler'[k]] /\ \A k \in Handlers : handler'[k] = IF k = h THEN x ELSE handler[k]
    BY DEF AccountsInv, HandlersOK
  <1>2. PICK on : on = lastOn'
    OBVIOUS
  <1>3. \A u \in People : lastOn[u] \in Nat /\ on[u] \in Nat /\ lastOn[u] <= on[u]
    BY <1>2 DEF AccountsInv, TableOK, LastOnGrows
  <1>4. instant \in Nat
    BY DEF AccountsInv, TableOK
  <1>5. ASSUME NEW k \in Handlers PROVE HandlerOK(handler'[k], lastOn', instant')
    <2>1. CASE k = h
      BY <1>1, <2>1
    <2>2. CASE k # h
      <3>1. HandlerOK(handler[k], lastOn, instant)
        BY DEF AccountsInv, HandlersOK
      <3>2. HandlerOK(handler[k], on, instant)
        BY <1>3, <1>4, <3>1, HandlerLater
      <3>3. QED
        BY <1>1, <1>2, <2>2, <3>2
    <2>3. QED
      BY <2>1, <2>2
  <1>6. QED
    BY <1>1, <1>5 DEF AccountsInv, HandlersOK

\* The row of an account is written.
LEMMA RowWritten ==
  ASSUME AccountsInv, NEW u \in People, NEW row, SetRow(u, row), UNCHANGED instant
  PROVE  TableOK' /\ LastOnGrows
  <1>1. account' = [account EXCEPT ![u] = row] /\ lastOn' \in {[lastOn EXCEPT ![u] = instant], lastOn}
        /\ (row.enabled => lastOn' = [lastOn EXCEPT ![u] = instant])
    BY DEF SetRow
  <1>2. \A v \in People : /\ account'[v] = IF v = u THEN row ELSE account[v]
                          /\ lastOn'[v] = lastOn[v] \/ lastOn'[v] = instant
                          /\ v = u /\ row.enabled => lastOn'[v] = instant
    BY <1>1 DEF AccountsInv, TableOK
  <1>3. account' = [v \in People |-> account'[v]] /\ lastOn' = [v \in People |-> lastOn'[v]]
    BY <1>1 DEF AccountsInv, TableOK
  <1>4. \A v \in People : lastOn[v] \in 0 .. instant /\ (account[v].enabled => lastOn[v] = instant)
    BY DEF AccountsInv, TableOK
  <1>5. instant \in Nat /\ instant' = instant
    BY DEF AccountsInv, TableOK
  <1>6. ASSUME NEW v \in People
        PROVE  lastOn'[v] \in 0 .. instant /\ (account'[v].enabled => lastOn'[v] = instant) /\ lastOn[v] <= lastOn'[v]
    <2>1. CASE v = u
      BY <1>2, <1>4, <1>5, <2>1
    <2>2. CASE v # u
      BY <1>2, <1>4, <1>5, <2>2
    <2>3. QED
      BY <2>1, <2>2
  <1>7. QED
    BY <1>3, <1>5, <1>6 DEF TableOK, LastOnGrows

LEMMA TableStays ==
  ASSUME AccountsInv, UNCHANGED <<instant, account, lastOn>>
  PROVE  TableOK' /\ LastOnGrows
  BY DEF AccountsInv, TableOK, LastOnGrows

\* The cache, when only the ingestor's was written, or nothing.
LEMMA CacheStays ==
  ASSUME AccountsInv, LastOnGrows, userCache' = [s \in Services |-> userCache'[s]],
         userCache'["auth"] = userCache["auth"]
  PROVE  CacheOK'
  <1>1. ASSUME NEW u \in People PROVE EntryOK(userCache'["auth"][u], lastOn'[u])
    <2>1. PICK e, on, on2 : e = userCache["auth"][u] /\ on = lastOn[u] /\ on2 = lastOn'[u]
      OBVIOUS
    <2>2. EntryOK(e, on)
      BY <2>1 DEF AccountsInv, CacheOK
    <2>3. on \in Nat /\ on2 \in Nat /\ on <= on2
      BY <2>1 DEF AccountsInv, TableOK, LastOnGrows
    <2>4. EntryOK(e, on2)
      BY <2>2, <2>3, EntryLater
    <2>5. QED
      BY <2>1, <2>4
  <1>2. QED
    BY <1>1 DEF CacheOK, AccountsInv

\* What a service caches for an account, when the row is not fresher than it looks.
LEMMA CacheWritten ==
  ASSUME AccountsInv, LastOnGrows, NEW s \in Services, NEW u \in People, NEW e,
         userCache' = [userCache EXCEPT ![s][u] = e],
         s = "auth" => EntryOK(e, lastOn[u])
  PROVE  CacheOK'
  <1>1. PICK row : row = [userCache[s] EXCEPT ![u] = e]
    OBVIOUS
  <1>2. userCache' = [userCache EXCEPT ![s] = row]
    BY <1>1
  <1>3. userCache' = [t \in Services |-> userCache'[t]] /\ userCache'["auth"] = IF s = "auth" THEN row ELSE userCache["auth"]
    BY <1>2 DEF AccountsInv, CacheOK, Services
  <1>4. CASE s # "auth"
    BY <1>3, <1>4, CacheStays
  <1>5. CASE s = "auth"
    <2>1. row = [v \in People |-> row[v]] /\ \A v \in People : row[v] = IF v = u THEN e ELSE userCache["auth"][v]
      BY <1>1, <1>5 DEF AccountsInv, CacheOK
    <2>2. ASSUME NEW v \in People PROVE EntryOK(row[v], lastOn'[v])
      <3>1. PICK f, on, on2 : f = row[v] /\ on = lastOn[v] /\ on2 = lastOn'[v]
        OBVIOUS
      <3>2. EntryOK(f, on)
        BY <1>5, <2>1, <3>1 DEF AccountsInv, CacheOK
      <3>3. on \in Nat /\ on2 \in Nat /\ on <= on2
        BY <3>1 DEF AccountsInv, TableOK, LastOnGrows
      <3>4. EntryOK(f, on2)
        BY <3>2, <3>3, EntryLater
      <3>5. QED
        BY <3>1, <3>4
    <2>3. QED
      BY <1>3, <1>5, <2>1, <2>2 DEF CacheOK
  <1>6. QED
    BY <1>4, <1>5

LEMMA NothingWritten ==
  ASSUME AccountsInv, UNCHANGED <<instant, account, userCache, lastOn>>
  PROVE  TableOK' /\ CacheOK' /\ LastOnGrows
  <1>1. TableOK' /\ LastOnGrows
    BY TableStays
  <1>2. CacheOK'
    BY <1>1 DEF AccountsInv, CacheOK
  <1>3. QED
    BY <1>1, <1>2

\* A read through the cache.
LEMMA ReadThroughOK ==
  ASSUME AccountsInv, UNCHANGED <<instant, account, userCache, lastOn>>,
         NEW h \in Handlers, NEW s \in Services, NEW u \in People, NEW then,
         Purpose(s, then),
         \/ /\ Fresh(userCache[s][u])
            /\ handler' = [handler EXCEPT ![h] = [step |-> then, svc |-> s, user |-> u,
                              row |-> Copy(userCache[s][u]), since |-> instant]]
         \/ handler' = [handler EXCEPT ![h] = [step |-> "fill", svc |-> s, user |-> u,
                              row |-> account[u], since |-> instant, then |-> then]]
  PROVE  AccountsInv'
  <1>1. TableOK' /\ CacheOK' /\ LastOnGrows /\ lastOn' = lastOn
    BY NothingWritten
  <1>2. PICK on \in Nat, now \in Nat : on = lastOn[u] /\ now = instant
    BY DEF AccountsInv, TableOK
  <1>3. CASE Fresh(userCache[s][u]) /\ handler' = [handler EXCEPT ![h] = [step |-> then, svc |-> s, user |-> u,
                                        row |-> Copy(userCache[s][u]), since |-> instant]]
    <2>1. PICK e : e = userCache[s][u]
      OBVIOUS
    <2>2. PICK x : x = [step |-> then, svc |-> s, user |-> u, row |-> Copy(e), since |-> now]
      OBVIOUS
    <2>3. s = "auth" => EntryOK(e, on)
      BY <1>2, <2>1 DEF AccountsInv, CacheOK
    <2>4. e.exists /\ now <= e.until
      BY <1>2, <1>3, <2>1 DEF Fresh
    <2>5. s = "auth" /\ e.enabled => now <= on + MaxRequest + CacheTTL
      BY <2>3, <2>4, <1>2, AccountsAssumption DEF EntryOK
    <2>6. CopyAge(x, on)
      BY <2>2, <2>5 DEF Purpose, CopyAge, Copy
    <2>7. HandlerShape(x) /\ InTime(x, now) /\ x.user = u
      BY <2>2, AccountsAssumption DEF HandlerShape, InTime
    <2>8. HandlerOK(x, lastOn', instant)
      BY <1>1, <1>2, <2>6, <2>7 DEF HandlerOK
    <2>9. handler' = [handler EXCEPT ![h] = x]
      BY <1>2, <1>3, <2>1, <2>2
    <2>10. QED
      BY <1>1, <2>8, <2>9, HandlerMoves
  <1>4. CASE handler' = [handler EXCEPT ![h] = [step |-> "fill", svc |-> s, user |-> u,
                              row |-> account[u], since |-> instant, then |-> then]]
    <2>1. PICK row : row = account[u]
      OBVIOUS
    <2>2. PICK x : x = [step |-> "fill", svc |-> s, user |-> u, row |-> row, since |-> now, then |-> then]
      OBVIOUS
    <2>3. row.enabled => now <= on
      BY <1>2, <2>1 DEF AccountsInv, TableOK
    <2>4. CopyAge(x, on)
      BY <2>2, <2>3 DEF Purpose, CopyAge
    <2>5. HandlerShape(x) /\ InTime(x, now) /\ x.user = u
      BY <2>2, AccountsAssumption DEF HandlerShape, InTime
    <2>6. HandlerOK(x, lastOn', instant)
      BY <1>1, <1>2, <2>4, <2>5 DEF HandlerOK
    <2>7. handler' = [handler EXCEPT ![h] = x]
      BY <1>2, <1>4, <2>1, <2>2
    <2>8. QED
      BY <1>1, <2>6, <2>7, HandlerMoves
  <1>5. QED
    BY <1>3, <1>4

\* A request at a step has the account, the age and the copy it should.
LEMMA AtStep ==
  ASSUME AccountsInv, NEW h \in Handlers, handler[h].step # "none"
  PROVE  /\ HandlerShape(handler[h]) /\ handler[h].user \in People /\ InTime(handler[h], instant)
         /\ CopyAge(handler[h], lastOn[handler[h].user]) /\ handler[h].svc \in Services
         /\ lastOn[handler[h].user] \in Nat /\ instant \in Nat
  <1>1. handler[h] # Waiting
    BY DEF Waiting
  <1>2. HandlerOK(handler[h], lastOn, instant)
    BY DEF AccountsInv, HandlersOK
  <1>3. HandlerShape(handler[h]) /\ handler[h].user \in People /\ InTime(handler[h], instant)
        /\ CopyAge(handler[h], lastOn[handler[h].user])
    BY <1>1, <1>2 DEF HandlerOK
  <1>4. QED
    BY <1>3 DEF CopyAge, AccountsInv, TableOK

LEMMA FillOK ==
  ASSUME AccountsInv, NEW h \in Handlers, Fill(h)
  PROVE  AccountsInv'
  <1>1. PICK on \in Nat, now \in Nat, x \in {handler[h]} :
           /\ x = handler[h] /\ on = lastOn[x.user] /\ now = instant /\ x.step = "fill"
           /\ x.user \in People /\ x.svc \in Services /\ CopyAge(x, on) /\ InTime(x, now)
    <2>1. handler[h].step = "fill"
      BY DEF Fill
    <2>2. handler[h].user \in People /\ InTime(handler[h], instant) /\ CopyAge(handler[h], lastOn[handler[h].user])
          /\ handler[h].svc \in Services /\ lastOn[handler[h].user] \in Nat /\ instant \in Nat
      BY <2>1, AtStep
    <2>3. QED
      BY <2>1, <2>2, Zenon
  <1>2. PICK e : e = [until |-> now + CacheTTL, exists |-> TRUE, enabled |-> x.row.enabled]
    OBVIOUS
  <1>3. userCache' = [userCache EXCEPT ![x.svc][x.user] = e]
    BY <1>1, <1>2 DEF Fill, WriteCache
  <1>4. x.svc = "auth" => EntryOK(e, on)
    BY <1>1, <1>2, AccountsAssumption DEF EntryOK, CopyAge, InTime
  <1>5. TableOK' /\ LastOnGrows /\ lastOn' = lastOn /\ instant' = instant
    BY TableStays DEF Fill
  <1>6. CacheOK'
    BY <1>1, <1>3, <1>4, <1>5, CacheWritten
  <1>7. PICK y : y = [step |-> x.then, svc |-> x.svc, user |-> x.user, row |-> x.row, since |-> now]
    OBVIOUS
  <1>8. HandlerShape(y) /\ InTime(y, now) /\ y.user = x.user
    BY <1>7, AccountsAssumption DEF HandlerShape, InTime
  <1>9. Purpose(x.svc, x.then)
    BY <1>1, Zenon DEF CopyAge
  <1>10. CopyAge(y, on)
    BY <1>1, <1>7, <1>9, AccountsAssumption DEF CopyAge, InTime, Purpose
  <1>11. HandlerOK(y, lastOn', instant)
    BY <1>1, <1>5, <1>8, <1>10 DEF HandlerOK
  <1>12. handler' = [handler EXCEPT ![h] = y]
    BY <1>1, <1>7 DEF Fill
  <1>13. QED
    BY <1>5, <1>6, <1>11, <1>12, HandlerMoves

\* A request that ends.
LEMMA EndsOK ==
  ASSUME AccountsInv, NEW h \in Handlers, handler' = [handler EXCEPT ![h] = Waiting], UNCHANGED instant,
         TableOK', CacheOK', LastOnGrows
  PROVE  AccountsInv'
  <1>1. HandlerOK(Waiting, lastOn', instant)
    BY DEF HandlerOK
  <1>2. QED
    BY <1>1, HandlerMoves

\* A step of the ingestor, which carries no copy that anyone is admitted on.
LEMMA IngestorStepOK ==
  ASSUME AccountsInv, UNCHANGED instant, TableOK', CacheOK', LastOnGrows,
         NEW h \in Handlers, NEW x, handler' = [handler EXCEPT ![h] = x], HandlerShape(x),
         x.svc = "ingestor", x.user \in People, InTime(x, instant),
         x.step \in {"new", "cache", "uncache", "verified", "delete", "update", "activate", "mark"}
  PROVE  AccountsInv'
  <1>1. PICK on : on = lastOn'
    OBVIOUS
  <1>2. CopyAge(x, on[x.user])
    BY DEF CopyAge, Services
  <1>3. HandlerOK(x, on, instant)
    BY <1>2 DEF HandlerOK
  <1>4. HandlerOK(x, lastOn', instant)
    BY <1>1, <1>3
  <1>5. QED
    BY <1>4, HandlerMoves

\* A handler of the ingestor, of any age, goes on to another of its steps.
LEMMA StepRenamed ==
  ASSUME NEW x, HandlerShape(x), NEW step
  PROVE  /\ HandlerShape([x EXCEPT !.step = step])
         /\ [x EXCEPT !.step = step].step = step
         /\ [x EXCEPT !.step = step].svc = x.svc
         /\ [x EXCEPT !.step = step].user = x.user
         /\ [x EXCEPT !.step = step].since = x.since
  BY DEF HandlerShape

LEMMA AdmitOK ==
  ASSUME AccountsInv, NEW h \in Handlers, Admit(h)
  PROVE  AccountsInv'
  <1>1. handler[h].step = "check" /\ handler[h].row.enabled /\ handler[h].step # "none"
    BY DEF Admit, HandleAuthentication, IsUserEnabled
  <1>2. PICK on \in Nat, now \in Nat, x \in {handler[h]} : x = handler[h] /\ on = lastOn[x.user] /\ now = instant
    BY <1>1, AtStep
  <1>3. HandlerShape(x) /\ x.user \in People /\ InTime(x, now) /\ CopyAge(x, on)
    BY <1>1, <1>2, AtStep
  <1>4. PICK y : y = [x EXCEPT !.step = "admitted"]
    OBVIOUS
  <1>5. HandlerShape(y) /\ y.step = "admitted" /\ y.svc = x.svc /\ y.user = x.user /\ y.since = x.since
    BY <1>3, <1>4, StepRenamed
  <1>6. CopyAge(y, on)
    BY <1>1, <1>2, <1>3, <1>5 DEF CopyAge
  <1>7. TableOK' /\ CacheOK' /\ LastOnGrows /\ lastOn' = lastOn /\ instant' = instant
    BY NothingWritten DEF Admit
  <1>8. HandlerOK(y, lastOn', instant)
    BY <1>2, <1>3, <1>5, <1>6, <1>7 DEF HandlerOK, InTime
  <1>9. handler' = [handler EXCEPT ![h] = y]
    BY <1>2, <1>4 DEF Admit
  <1>10. QED
    BY <1>7, <1>8, <1>9, HandlerMoves

\* A write of the row, with the request still to write the cache.
LEMMA WriteRowOK ==
  ASSUME AccountsInv, NEW h \in Handlers, NEW u \in People, NEW row, WriteRow(h, u, row),
         UNCHANGED <<instant, userCache>>
  PROVE  AccountsInv'
  <1>1. TableOK' /\ LastOnGrows
    <2>1. CASE SetRow(u, row)
      BY <2>1, RowWritten
    <2>2. CASE UNCHANGED <<account, lastOn>>
      BY <2>2, TableStays
    <2>3. QED
      BY <2>1, <2>2 DEF WriteRow, UpdateUserRow
  <1>2. CacheOK'
    BY <1>1, CacheStays DEF AccountsInv, CacheOK
  <1>3. PICK x : x = [step |-> "cache", svc |-> "ingestor", user |-> u, row |-> row, since |-> instant]
    OBVIOUS
  <1>4. HandlerShape(x) /\ InTime(x, instant) /\ x.user = u /\ x.svc = "ingestor" /\ x.step = "cache"
    BY <1>3, AccountsAssumption DEF HandlerShape, InTime, AccountsInv, TableOK
  <1>5. handler' = [handler EXCEPT ![h] = x]
    BY <1>3 DEF WriteRow
  <1>6. QED
    BY <1>1, <1>2, <1>4, <1>5, IngestorStepOK

LEMMA UpdateUserOK ==
  ASSUME AccountsInv, NEW h \in Handlers, NEW change, UpdateUser(h, change)
  PROVE  AccountsInv'
  <1>1. handler[h].step = "update"
    BY DEF UpdateUser
  <1>2. PICK u \in People : u = handler[h].user
    BY <1>1, AtStep
  <1>3. PICK row : row = Changed(handler[h].row, change)
    OBVIOUS
  <1>4. WriteRow(h, u, row) /\ UNCHANGED <<instant, userCache>>
    BY <1>2, <1>3 DEF UpdateUser
  <1>5. QED
    BY <1>4, WriteRowOK

LEMMA ActivateOK ==
  ASSUME AccountsInv, NEW h \in Handlers, Activate(h)
  PROVE  AccountsInv'
  <1>1. handler[h].step = "activate" /\ UNCHANGED <<instant, userCache>>
    BY DEF Activate
  <1>2. CASE handler' = [handler EXCEPT ![h] = Waiting] /\ UNCHANGED <<account, lastOn>>
    <2>1. TableOK' /\ CacheOK' /\ LastOnGrows
      BY <1>1, <1>2, NothingWritten
    <2>2. QED
      BY <1>1, <1>2, <2>1, EndsOK
  <1>3. CASE WriteRow(h, handler[h].user, [exists |-> TRUE, enabled |-> TRUE])
    <2>1. PICK u \in People : u = handler[h].user
      BY <1>1, AtStep
    <2>2. PICK row : row = [exists |-> TRUE, enabled |-> TRUE]
      OBVIOUS
    <2>3. WriteRow(h, u, row)
      BY <1>3, <2>1, <2>2
    <2>4. QED
      BY <1>1, <2>3, WriteRowOK
  <1>4. QED
    BY <1>2, <1>3 DEF Activate

\* The caches the ingestor writes and clears are its own.
LEMMA RecacheOK ==
  ASSUME AccountsInv, NEW h \in Handlers, Recache(h) \/ Uncache(h)
  PROVE  AccountsInv'
  <1>1. handler[h].step \in {"cache", "uncache"} /\ UNCHANGED <<instant, account, lastOn>>
        /\ handler' = [handler EXCEPT ![h] = Waiting]
    BY DEF Recache, Uncache
  <1>2. handler[h].user \in People /\ CopyAge(handler[h], lastOn[handler[h].user]) /\ handler[h].svc \in Services
    BY <1>1, AtStep
  <1>3. handler[h].svc = "ingestor"
    BY <1>1, <1>2 DEF CopyAge
  <1>4. PICK u \in People : u = handler[h].user /\ \E e : userCache' = [userCache EXCEPT !["ingestor"][u] = e]
    BY <1>2, <1>3 DEF Recache, Uncache, WriteCache, DeleteCache
  <1>5. TableOK' /\ LastOnGrows
    BY <1>1, TableStays
  <1>6. PICK e : userCache' = [userCache EXCEPT !["ingestor"][u] = e]
    BY <1>4
  <1>7. CacheOK'
    BY <1>5, <1>6, CacheWritten DEF Services
  <1>8. QED
    BY <1>1, <1>5, <1>7, EndsOK

LEMMA RegisterOK ==
  ASSUME AccountsInv, NEW h \in Handlers, NEW u \in People, NEW invited \in BOOLEAN, Register(h, u, invited)
  PROVE  AccountsInv'
  <1>1. SetRow(u, NewAccount) /\ UNCHANGED instant
    BY DEF Register, CreateUser, InsertUser
  <1>2. TableOK' /\ LastOnGrows
    BY <1>1, RowWritten
  <1>3. PICK e : userCache' = [userCache EXCEPT !["ingestor"][u] = e]
    BY DEF Register, CreateUser, WriteCache
  <1>4. CacheOK'
    BY <1>2, <1>3, CacheWritten DEF Services
  <1>5. PICK x : x = [step |-> IF invited THEN "verified" ELSE "new", svc |-> "ingestor", user |-> u, since |-> instant]
    OBVIOUS
  <1>6. HandlerShape(x) /\ InTime(x, instant) /\ x.user = u /\ x.svc = "ingestor" /\ x.step \in {"verified", "new"}
    BY <1>5, AccountsAssumption DEF HandlerShape, InTime, AccountsInv, TableOK
  <1>7. handler' = [handler EXCEPT ![h] = x]
    BY <1>5 DEF Register
  <1>8. QED
    BY <1>1, <1>2, <1>4, <1>6, <1>7, IngestorStepOK

LEMMA DeleteAccountOK ==
  ASSUME AccountsInv, NEW h \in Handlers, DeleteAccount(h) \/ MarkToken(h)
  PROVE  AccountsInv'
  <1>1. handler[h].step \in {"delete", "mark"} /\ UNCHANGED <<instant, userCache>>
    BY DEF DeleteAccount, MarkToken
  <1>2. PICK x : x = handler[h]
    OBVIOUS
  <1>3. HandlerShape(x) /\ x.user \in People /\ InTime(x, instant) /\ CopyAge(x, lastOn[x.user])
    BY <1>1, <1>2, AtStep
  <1>4. x.svc = "ingestor"
    BY <1>1, <1>2, <1>3 DEF CopyAge
  <1>5. PICK step : step \in {"uncache", "verified"} /\ handler' = [handler EXCEPT ![h].step = step]
    BY DEF DeleteAccount, MarkToken
  <1>6. PICK y : y = [x EXCEPT !.step = step]
    OBVIOUS
  <1>7. HandlerShape(y) /\ y.step = step /\ y.svc = x.svc /\ y.user = x.user /\ y.since = x.since
    BY <1>3, <1>6, StepRenamed
  <1>8. handler' = [handler EXCEPT ![h] = y]
    BY <1>2, <1>5, <1>6
  <1>9. TableOK' /\ LastOnGrows
    <2>1. CASE MarkToken(h)
      BY <2>1, TableStays DEF MarkToken
    <2>2. CASE DeleteAccount(h)
      <3>1. PICK u \in People : u = x.user
        BY <1>3
      <3>2. PICK row : row = [exists |-> FALSE, enabled |-> FALSE]
        OBVIOUS
      <3>3. SetRow(u, row)
        BY <1>2, <2>2, <3>1, <3>2 DEF DeleteAccount, DeleteUserRow
      <3>4. QED
        BY <1>1, <3>3, RowWritten
    <2>3. QED
      BY <2>1, <2>2
  <1>10. CacheOK'
    BY <1>1, <1>9, CacheStays DEF AccountsInv, CacheOK
  <1>11. InTime(y, instant)
    BY <1>3, <1>7 DEF InTime
  <1>12. QED
    BY <1>1, <1>3, <1>4, <1>5, <1>7, <1>8, <1>9, <1>10, <1>11, IngestorStepOK

LEMMA ReadTokenOK ==
  ASSUME AccountsInv, NEW h \in Handlers, NEW u \in People, ReadToken(h, u)
  PROVE  AccountsInv'
  <1>1. TableOK' /\ CacheOK' /\ LastOnGrows /\ UNCHANGED instant
    BY NothingWritten DEF ReadToken
  <1>2. PICK x : x = [step |-> "mark", svc |-> "ingestor", user |-> u, since |-> instant]
    OBVIOUS
  <1>3. HandlerShape(x) /\ InTime(x, instant) /\ x.user = u /\ x.svc = "ingestor" /\ x.step = "mark"
    BY <1>2, AccountsAssumption DEF HandlerShape, InTime, AccountsInv, TableOK
  <1>4. handler' = [handler EXCEPT ![h] = x]
    BY <1>2 DEF ReadToken
  <1>5. QED
    BY <1>1, <1>3, <1>4, IngestorStepOK

LEMMA QueryByIDOK ==
  ASSUME AccountsInv, NEW h \in Handlers, NEW s \in Services, NEW u \in People, NEW then, QueryByID(h, s, u, then),
         Purpose(s, then)
  PROVE  AccountsInv'
  BY ReadThroughOK DEF QueryByID, ReadCache

LEMMA QueryForActivateOK ==
  ASSUME AccountsInv, NEW h \in Handlers, QueryForActivate(h)
  PROVE  AccountsInv'
  <1>1. handler[h].step = "verified" /\ UNCHANGED <<instant, account, userCache, lastOn>>
    BY DEF QueryForActivate
  <1>2. handler[h].user \in People /\ CopyAge(handler[h], lastOn[handler[h].user])
    BY <1>1, AtStep
  <1>3. PICK u \in People : u = handler[h].user
    BY <1>2
  <1>4. handler[h].svc = "ingestor"
    BY <1>1, <1>2 DEF CopyAge
  <1>5. PICK then : then = "activate"
    OBVIOUS
  <1>6. PICK s \in Services : s = "ingestor"
    BY DEF Services
  <1>7. \/ /\ Fresh(userCache[s][u])
           /\ handler' = [handler EXCEPT ![h] = [step |-> then, svc |-> s, user |-> u,
                              row |-> Copy(userCache[s][u]), since |-> instant]]
        \/ handler' = [handler EXCEPT ![h] = [step |-> "fill", svc |-> s, user |-> u,
                              row |-> account[u], since |-> instant, then |-> then]]
    BY <1>3, <1>4, <1>5, <1>6 DEF QueryForActivate, ReadCache
  <1>8. Purpose(s, then)
    BY <1>5, <1>6 DEF Purpose
  <1>9. QED
    BY <1>1, <1>7, <1>8, ReadThroughOK

\* Time passes only while every request is in time, and an enabled account is enabled still.
LEMMA PassOK ==
  ASSUME AccountsInv, Pass
  PROVE  AccountsInv'
  <1>1. instant \in Nat /\ instant' = instant + 1 /\ UNCHANGED <<account, userCache, handler>>
    BY DEF Pass, AccountsInv, TableOK
  <1>2. lastOn' = [u \in People |-> lastOn'[u]]
        /\ \A u \in People : lastOn'[u] = IF account[u].enabled THEN instant + 1 ELSE lastOn[u]
    BY DEF Pass
  <1>3. \A u \in People : lastOn[u] \in Nat /\ lastOn[u] <= instant
    BY DEF AccountsInv, TableOK
  <1>4. TableOK' /\ LastOnGrows
    BY <1>1, <1>2, <1>3 DEF AccountsInv, TableOK, LastOnGrows
  <1>5. CacheOK'
    BY <1>1, <1>4, CacheStays DEF AccountsInv, CacheOK
  <1>7. ASSUME NEW h \in Handlers PROVE HandlerOK(handler'[h], lastOn', instant')
    <2>1. PICK x : x = handler[h]
      OBVIOUS
    <2>2. HandlerOK(x, lastOn, instant)
      BY <2>1 DEF AccountsInv, HandlersOK
    <2>3. x # Waiting => instant < x.since + MaxRequest
      BY <2>1 DEF Pass
    <2>4. HandlerOK(x, lastOn, instant + 1)
      BY <1>1, <2>2, <2>3, AccountsAssumption DEF HandlerOK, InTime
    <2>5. PICK later : later = lastOn'
      OBVIOUS
    <2>6. \A u \in People : lastOn[u] \in Nat /\ later[u] \in Nat /\ lastOn[u] <= later[u]
      BY <1>3, <1>4, <2>5 DEF LastOnGrows
    <2>7. HandlerOK(x, later, instant + 1)
      BY <1>1, <2>4, <2>6, HandlerLater
    <2>8. QED
      BY <1>1, <2>1, <2>5, <2>7
  <1>8. QED
    BY <1>1, <1>4, <1>5, <1>7 DEF AccountsInv, HandlersOK

LEMMA UserRequestOK ==
  ASSUME AccountsInv, NEW h \in Handlers, UserRequest(h)
  PROVE  AccountsInv'
  <1>1. ASSUME NEW u \in People,
               \/ Authenticate(h, u) \/ Login(h, u) \/ AuthorizeUser(h, u, "update")
               \/ AuthorizeUser(h, u, "delete") \/ QueryMe(h, u)
        PROVE  AccountsInv'
    <2>1. CASE Authenticate(h, u) \/ Login(h, u)
      <3>1. PICK s \in Services : s = "auth"
        BY DEF Services
      <3>2. PICK then : then \in {"check", "token"} /\ QueryByID(h, s, u, then)
        BY <2>1, <3>1 DEF Authenticate, Login
      <3>3. Purpose(s, then)
        BY <3>1, <3>2 DEF Purpose
      <3>4. QED
        BY <3>2, <3>3, QueryByIDOK
    <2>2. CASE AuthorizeUser(h, u, "update") \/ AuthorizeUser(h, u, "delete") \/ QueryMe(h, u)
      <3>1. PICK s \in Services : s = "ingestor"
        BY DEF Services
      <3>2. PICK then : then \in {"update", "delete", "answer", "activate"} /\ QueryByID(h, s, u, then)
        BY <2>2, <3>1 DEF AuthorizeUser, QueryMe
      <3>3. Purpose(s, then)
        BY <3>1, <3>2 DEF Purpose
      <3>4. QED
        BY <3>2, <3>3, QueryByIDOK
    <2>3. QED
      BY <1>1, <2>1, <2>2
  <1>2. ASSUME NEW u \in People, ReadToken(h, u) \/ \E invited \in BOOLEAN : Register(h, u, invited)
        PROVE  AccountsInv'
    BY <1>2, ReadTokenOK, RegisterOK
  <1>3. CASE UpdateUserRole(h) \/ \E change \in {"on", "off"} : UpdateUser(h, change)
    BY <1>3, UpdateUserOK DEF UpdateUserRole
  <1>4. CASE Fill(h) \/ Admit(h) \/ Recache(h) \/ Uncache(h) \/ DeleteAccount(h)
    BY <1>4, FillOK, AdmitOK, RecacheOK, DeleteAccountOK
  <1>5. CASE VerifyEmail(h)
    BY <1>5, DeleteAccountOK, QueryForActivateOK, ActivateOK DEF VerifyEmail
  <1>6. CASE StoreVerifyToken(h) \/ EndRequest(h)
    <2>1. handler' = [handler EXCEPT ![h] = Waiting] /\ UNCHANGED <<instant, account, userCache, lastOn>>
      BY <1>6 DEF StoreVerifyToken, EndRequest
    <2>2. QED
      BY <2>1, NothingWritten, EndsOK
  <1>7. QED
    BY <1>1, <1>2, <1>3, <1>4, <1>5, <1>6 DEF UserRequest

LEMMA AccountsInitOK == AccountsInit => AccountsInv
  <1> SUFFICES ASSUME AccountsInit PROVE AccountsInv
    OBVIOUS
  <1>1. TableOK
    BY DEF AccountsInit, TableOK
  <1>2. CacheOK
    BY DEF AccountsInit, CacheOK, EntryOK, NoEntry, Services
  <1>3. HandlersOK
    BY DEF AccountsInit, HandlersOK, HandlerOK
  <1>4. QED
    BY <1>1, <1>2, <1>3 DEF AccountsInv

LEMMA AccountsStutter ==
  ASSUME AccountsInv, UNCHANGED accountVars
  PROVE  AccountsInv'
  <1>1. TableOK' /\ CacheOK'
    BY NothingWritten DEF accountVars
  <1>2. HandlersOK'
    BY DEF AccountsInv, HandlersOK, accountVars
  <1>3. QED
    BY <1>1, <1>2 DEF AccountsInv

\* Whatever fills, writes and deletions race, a request is admitted no later than one cache
\* lifetime and two requests after its account was last enabled.
THEOREM DisabledAreOutSoon == AccountsSpec => []StalenessBounded
  <1>1. AccountsInv /\ [AccountsNext]_accountVars => AccountsInv'
    BY PassOK, UserRequestOK, AccountsStutter DEF AccountsNext
  <1>2. AccountsInv => StalenessBounded
    <2> SUFFICES ASSUME AccountsInv, NEW h \in Handlers, handler[h].step = "admitted"
                 PROVE  instant <= lastOn[handler[h].user] + CacheTTL + 2 * MaxRequest
      BY DEF StalenessBounded
    <2>1. InTime(handler[h], instant) /\ CopyAge(handler[h], lastOn[handler[h].user])
          /\ lastOn[handler[h].user] \in Nat /\ instant \in Nat
      BY AtStep
    <2>2. PICK on \in Nat, since \in Nat : on = lastOn[handler[h].user] /\ since = handler[h].since
      BY <2>1 DEF InTime
    <2>3. since <= on + MaxRequest + CacheTTL /\ instant <= since + MaxRequest
      BY <2>1, <2>2 DEF InTime, CopyAge
    <2>4. QED
      BY <2>1, <2>2, <2>3, AccountsAssumption
  <1>3. QED
    BY <1>1, <1>2, AccountsInitOK, PTL DEF AccountsSpec
============================================================================
