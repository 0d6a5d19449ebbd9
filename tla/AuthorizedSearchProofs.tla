----------------------- MODULE AuthorizedSearchProofs -----------------------
(* Proofs about AuthorizedSearch, for any users, tags, requests, chunks and      *)
(* memories and life times of tokens.  First the accounts, which what a search   *)
(* does leaves alone; then the searches, with what RetrievalProofs says of one.  *)
EXTENDS AuthorizedSearch, RetrievalProofs, TLAPS

\* The primary organisation of a row is one of its tags.
Held(row) == IF row.orgTags = {} THEN row.primary = NoTag ELSE row.primary \in row.orgTags

TokenSteps == {"arrived", "listed", "verified", "admitted", "revoking"}

Steps == TokenSteps \union {"idle", "create", "tag", "save", "check", "saveTag"}

CallRecord == [op : Ops \union {"none"}, at : Steps, token : Token \union {NoToken},
               user : Users \union {NoRow}, row : UserRow \union {NoRow}, tag : AllTags \union {NoTag},
               asked : SUBSET (AllTags \union {NoTag}), revoked : BOOLEAN]

\* A request fits the tables: rows, revoked tokens and the time.
Fits(k, rows, out, time) ==
  /\ k \in CallRecord
  /\ k.at \in TokenSteps => k.user \in Users /\ rows[k.user] # NoRow /\ k.token \in Token
  /\ k.at \in {"create", "tag"} => k.user \in Users
  /\ k.at = "save" => k.user \in Users /\ k.row \in UserRow /\ Held(k.row)
  /\ k.at = "check" => /\ k.user \in Users /\ k.row \in UserRow
                       /\ k.tag \in k.asked /\ k.asked \subseteq AllTags
  /\ k.revoked => k.token \in out
  /\ k.at = "listed" /\ k.revoked => ~(time < Expires(k.token))
  /\ k.at \in {"verified", "admitted", "revoking"} => ~k.revoked

RowsAreHeld == \A u \in Users : users[u] # NoRow => Held(users[u])

\* A revoked token has run out, or Redis still has its entry.
LogoutsCount ==
  \A t \in loggedOut : ~(now < Expires(t)) \/ [token |-> t, until |-> Expires(t)] \in blacklist

TablesOK ==
  /\ users \in [Users -> UserRow \union {NoRow}]
  /\ minted \subseteq Token /\ loggedOut \subseteq Token
  /\ \A t \in minted : users[t.user] # NoRow
  /\ now \in 0 .. MaxTime
  /\ RowsAreHeld
  /\ LogoutsCount

CallsFit ==
  /\ call \in [Callers -> CallRecord]
  /\ \A c \in Callers : Fits(call[c], users, loggedOut, now)

AccountsInv == TablesOK /\ CallsFit

-----------------------------------------------------------------------------
LEMMA IdleFits ==
  ASSUME NEW rows, NEW out, NEW time
  PROVE  Fits(Idle, rows, out, time)
  BY DEF Fits, Idle, CallRecord, Steps, TokenSteps

\* No row and no revocation is taken back, and time goes on.
Grow ==
  /\ \A u \in Users : users[u] # NoRow => users'[u] # NoRow
  /\ loggedOut \subseteq loggedOut'
  /\ now' = now \/ now' = now + 1

LEMMA ExpiresIsNat ==
  ASSUME NEW t \in Token
  PROVE  Expires(t) \in Nat
  BY AccountsAssumption DEF Expires, Token

\* A request that fits the tables fits those that have grown.
LEMMA FitsStay ==
  ASSUME TablesOK, Grow, NEW k, Fits(k, users, loggedOut, now)
  PROVE  Fits(k, users', loggedOut', now')
  <1>1. now \in Nat
    BY AccountsAssumption DEF TablesOK
  <1>2. k.at = "listed" /\ k.revoked => ~(now' < Expires(k.token))
    <2> SUFFICES ASSUME k.at = "listed", k.revoked
                 PROVE  ~(now' < Expires(k.token))
      OBVIOUS
    <2>1. k.token \in Token /\ ~(now < Expires(k.token))
      BY DEF Fits, TokenSteps
    <2>2. Expires(k.token) \in Nat
      BY <2>1, ExpiresIsNat
    <2> QED BY <1>1, <2>1, <2>2 DEF Grow
  <1> QED BY <1>2 DEF Fits, Grow

\* Only the request of c changes, to one that fits the tables.
LEMMA OneCall ==
  ASSUME AccountsInv, Grow, NEW c \in Callers, NEW k, call' = [call EXCEPT ![c] = k],
         Fits(k, users, loggedOut, now)
  PROVE  CallsFit'
  <1>1. call'[c] = k /\ \A d \in Callers \ {c} : call'[d] = call[d]
    BY DEF AccountsInv, CallsFit
  <1>2. \A d \in Callers : Fits(call'[d], users, loggedOut, now)
    BY <1>1 DEF AccountsInv, CallsFit
  <1>3. \A d \in Callers : Fits(call'[d], users', loggedOut', now')
    BY <1>2, FitsStay DEF AccountsInv
  <1>4. call' \in [Callers -> CallRecord]
    BY DEF AccountsInv, CallsFit, Fits
  <1> QED BY <1>3, <1>4 DEF CallsFit

LEMMA SameTables ==
  ASSUME TablesOK, UNCHANGED <<users, minted, loggedOut, blacklist, now>>
  PROVE  TablesOK' /\ Grow
  BY DEF TablesOK, Grow, RowsAreHeld, LogoutsCount

\* A call that goes on changes nothing but where it stands.
LEMMA Stepped ==
  ASSUME CallsFit, NEW c \in Callers, NEW at \in Steps, Step(c, at)
  PROVE  LET k == [call[c] EXCEPT !.at = at] IN
         /\ call' = [call EXCEPT ![c] = k]
         /\ k \in CallRecord /\ k.at = at /\ k.op = call[c].op /\ k.token = call[c].token
         /\ k.user = call[c].user /\ k.row = call[c].row /\ k.tag = call[c].tag
         /\ k.asked = call[c].asked /\ k.revoked = call[c].revoked
  <1>1. call[c] \in CallRecord
    BY DEF CallsFit
  <1> QED BY <1>1 DEF Step, CallRecord

\* What a request may do next without touching a table.
LEMMA StepPreserves ==
  ASSUME AccountsInv, NEW c \in Callers, NEW at \in Steps, Step(c, at),
         UNCHANGED <<users, minted, loggedOut, blacklist, now>>,
         at \in TokenSteps => call[c].at \in TokenSteps,
         at \in {"create", "tag"} => call[c].at \in {"create", "tag"},
         at \notin {"save", "check"},
         at = "listed" /\ call[c].revoked => ~(now < Expires(call[c].token)),
         at \in {"verified", "admitted", "revoking"} => ~call[c].revoked
  PROVE  AccountsInv'
  <1> DEFINE k == [call[c] EXCEPT !.at = at]
  <1>1. /\ call' = [call EXCEPT ![c] = k]
        /\ k \in CallRecord /\ k.at = at /\ k.token = call[c].token
        /\ k.user = call[c].user /\ k.revoked = call[c].revoked
    BY Stepped DEF AccountsInv
  <1> HIDE DEF k
  <1>2. Fits(call[c], users, loggedOut, now)
    BY DEF AccountsInv, CallsFit
  <1>3. Fits(k, users, loggedOut, now)
    BY <1>1, <1>2 DEF Fits
  <1>4. TablesOK' /\ Grow
    BY SameTables DEF AccountsInv
  <1>5. CallsFit'
    BY <1>1, <1>3, <1>4, OneCall
  <1> QED BY <1>4, <1>5 DEF AccountsInv

\* A handler returns; the tables may have grown.
LEMMA DropPreserves ==
  ASSUME AccountsInv, NEW c \in Callers, Drop(c), TablesOK', Grow
  PROVE  AccountsInv'
  <1>1. CallsFit'
    BY IdleFits, OneCall DEF Drop
  <1> QED BY <1>1 DEF AccountsInv

LEMMA TablesPreserve ==
  ASSUME AccountsInv, UNCHANGED call, TablesOK', Grow
  PROVE  AccountsInv'
  <1>1. \A c \in Callers : Fits(call[c], users', loggedOut', now')
    BY FitsStay DEF AccountsInv, CallsFit
  <1> QED BY <1>1 DEF AccountsInv, CallsFit

\* Tokens for a user with a row.
LEMMA IssuePreserves ==
  ASSUME TablesOK, NEW u \in Users, users[u] # NoRow, Issue(u),
         UNCHANGED <<users, loggedOut, blacklist, now>>
  PROVE  TablesOK' /\ Grow
  <1>1. \A t \in minted' : t \in minted \/ (t.user = u /\ t \in Token)
    BY DEF Issue, Token, TablesOK
  <1>2. minted' \subseteq Token /\ \A t \in minted' : users[t.user] # NoRow
    BY <1>1 DEF TablesOK
  <1> QED BY <1>2 DEF TablesOK, Grow, RowsAreHeld, LogoutsCount

LEMMA RevokePreserves ==
  ASSUME TablesOK, NEW t \in Token, BlacklistToken(t), loggedOut' = loggedOut \union {t},
         UNCHANGED <<users, minted, now>>
  PROVE  TablesOK' /\ Grow
  <1>1. LogoutsCount'
    BY DEF TablesOK, LogoutsCount, BlacklistToken
  <1> QED BY <1>1 DEF TablesOK, Grow, RowsAreHeld

\* The row of a user is created or saved.
LEMMA SavePreserves ==
  ASSUME TablesOK, NEW u \in Users, NEW row \in UserRow, Held(row),
         users' = [users EXCEPT ![u] = row],
         UNCHANGED <<minted, loggedOut, blacklist, now>>
  PROVE  TablesOK' /\ Grow
  <1>1. row # NoRow
    BY RowAssumption
  <1>2. \A v \in Users : users'[v] = IF v = u THEN row ELSE users[v]
    BY DEF TablesOK
  <1>3. users' \in [Users -> UserRow \union {NoRow}]
    BY DEF TablesOK
  <1>4. \A v \in Users : users[v] # NoRow => users'[v] # NoRow
    BY <1>1, <1>2
  <1>5. RowsAreHeld'
    BY <1>2 DEF TablesOK, RowsAreHeld
  <1>6. \A t \in minted : t.user \in Users
    BY DEF TablesOK, Token
  <1> QED BY <1>3, <1>4, <1>5, <1>6 DEF TablesOK, Grow, LogoutsCount

\* An entry that Redis forgets belongs to a token that has run out.
LEMMA SecondPreserves ==
  ASSUME AccountsInv, Second
  PROVE  AccountsInv'
  <1>1. /\ now' = now + 1 /\ blacklist' = {entry \in blacklist : now' < entry.until}
        /\ now < MaxTime
        /\ UNCHANGED <<users, parentTag, minted, loggedOut, call>>
    BY DEF Second, accountVars
  <1>2. now \in Nat /\ MaxTime \in Nat /\ now' \in 0 .. MaxTime
    BY <1>1, AccountsAssumption DEF AccountsInv, TablesOK
  <1>3. LogoutsCount'
    <2> SUFFICES ASSUME NEW t \in loggedOut, now' < Expires(t)
                 PROVE  [token |-> t, until |-> Expires(t)] \in blacklist'
      BY <1>1 DEF LogoutsCount
    <2>1. Expires(t) \in Nat
      BY ExpiresIsNat DEF AccountsInv, TablesOK
    <2>2. [token |-> t, until |-> Expires(t)] \in blacklist
      BY <1>1, <1>2, <2>1 DEF AccountsInv, TablesOK, LogoutsCount
    <2> QED BY <1>1, <2>2
  <1>4. TablesOK' /\ Grow
    BY <1>1, <1>2, <1>3 DEF AccountsInv, TablesOK, RowsAreHeld, Grow
  <1> QED BY <1>1, <1>4, TablesPreserve

-----------------------------------------------------------------------------
(* Requests that arrive.                                                    *)

LEMMA BeginPreserves ==
  ASSUME AccountsInv, NEW c \in Callers, NEW k, Begin(c, k), Fits(k, users, loggedOut, now),
         UNCHANGED <<accountVars, sessionVars, now>>
  PROVE  AccountsInv'
  <1>1. TablesOK' /\ Grow
    BY SameTables DEF AccountsInv, accountVars, sessionVars
  <1>2. CallsFit'
    BY <1>1, OneCall DEF Begin
  <1> QED BY <1>1, <1>2 DEF AccountsInv

LEMMA ArrivePreserves ==
  ASSUME AccountsInv, NEW c \in Callers, NEW op \in Ops, NEW t \in minted, Arrive(c, op, t)
  PROVE  AccountsInv'
  <1> DEFINE out == t \in loggedOut
             k == [Idle EXCEPT !.op = op, !.at = "arrived", !.token = t, !.user = t.user,
                               !.revoked = out]
  <1>1. out \in BOOLEAN /\ (out => t \in loggedOut)
    OBVIOUS
  <1>2. Begin(c, k) /\ UNCHANGED <<accountVars, sessionVars, now>>
    BY DEF Arrive
  <1>3. t \in Token /\ t.user \in Users /\ users[t.user] # NoRow
    BY DEF AccountsInv, TablesOK, Token
  <1> HIDE DEF out
  <1>4. Fits(k, users, loggedOut, now)
    BY <1>1, <1>3 DEF Fits, Idle, CallRecord, Steps, TokenSteps
  <1> HIDE DEF k
  <1> QED BY <1>2, <1>4, BeginPreserves

LEMMA AdministerPreserves ==
  ASSUME AccountsInv, NEW c \in Callers, Administer(c)
  PROVE  AccountsInv'
  <1>1. ASSUME NEW u \in Users, Register(c, u)
        PROVE  AccountsInv'
    <2> DEFINE k == [Idle EXCEPT !.op = "register", !.at = "create", !.user = u]
    <2>1. Begin(c, k) /\ UNCHANGED <<accountVars, sessionVars, now>>
      BY <1>1 DEF Register
    <2>2. Fits(k, users, loggedOut, now)
      BY DEF Fits, Idle, CallRecord, Steps, TokenSteps, Ops
    <2> HIDE DEF k
    <2> QED BY <2>1, <2>2, BeginPreserves
  <1>2. ASSUME NEW u \in Users, NEW asked \in SUBSET Tags, NEW first \in asked,
               AssignOrgTagsToUser(c, u, asked, first)
        PROVE  AccountsInv'
    <2> DEFINE k == [Idle EXCEPT !.op = "assign", !.at = "check", !.user = u, !.row = users[u],
                                 !.asked = asked, !.tag = first]
    <2>1. Begin(c, k) /\ UNCHANGED <<accountVars, sessionVars, now>> /\ users[u] # NoRow
      BY <1>2 DEF AssignOrgTagsToUser
    <2>2. users[u] \in UserRow /\ asked \subseteq AllTags
      BY <2>1 DEF AccountsInv, TablesOK, AllTags
    <2>3. Fits(k, users, loggedOut, now)
      BY <2>2 DEF Fits, Idle, CallRecord, Steps, TokenSteps, Ops
    <2> HIDE DEF k
    <2> QED BY <2>1, <2>3, BeginPreserves
  <1>3. ASSUME NEW t \in Tags, NEW parent \in Tags \union {NoTag}, UpdateOrganizationTag(c, t, parent)
        PROVE  AccountsInv'
    <2> DEFINE k == [Idle EXCEPT !.op = "update", !.at = "saveTag", !.tag = t, !.asked = {parent}]
    <2>1. Begin(c, k) /\ UNCHANGED <<accountVars, sessionVars, now>>
      BY <1>3 DEF UpdateOrganizationTag
    <2>2. Fits(k, users, loggedOut, now)
      BY DEF Fits, Idle, CallRecord, Steps, TokenSteps, Ops, AllTags
    <2> HIDE DEF k
    <2> QED BY <2>1, <2>2, BeginPreserves
  <1> QED BY <1>1, <1>2, <1>3 DEF Administer

-----------------------------------------------------------------------------
(* Handlers that run on.                                                    *)

LEMMA TokenStepsPreserve ==
  ASSUME AccountsInv, NEW c \in Callers,
         CheckBlacklist(c) \/ VerifyToken(c) \/ LoadUser(c) \/ RefreshToken(c) \/ Profile(c)
  PROVE  AccountsInv'
  <1>1. /\ Fits(call[c], users, loggedOut, now) /\ TablesOK /\ call[c] \in CallRecord
        /\ TokenSteps = {"arrived", "listed", "verified", "admitted", "revoking"}
        /\ TokenSteps \subseteq Steps
    BY DEF AccountsInv, CallsFit, TokenSteps, Steps
  <1>2. ASSUME Drop(c), UNCHANGED <<accountVars, sessionVars, now>>
        PROVE  AccountsInv'
    BY <1>1, <1>2, SameTables, DropPreserves DEF accountVars, sessionVars
  <1>3. CASE CheckBlacklist(c)
    <2>1. CASE ~Blacklisted(call[c].token) /\ Step(c, "listed")
      <3>1. call[c].at = "arrived" /\ UNCHANGED <<accountVars, sessionVars, now>>
        BY <1>3 DEF CheckBlacklist
      <3>2. call[c].revoked => call[c].token \in loggedOut
        BY <1>1 DEF Fits
      <3>3. call[c].revoked => ~(now < Expires(call[c].token))
        BY <1>1, <2>1, <3>2 DEF TablesOK, LogoutsCount, Blacklisted
      <3> QED BY <1>1, <2>1, <3>1, <3>3, StepPreserves DEF accountVars, sessionVars
    <2> QED BY <1>2, <1>3, <2>1 DEF CheckBlacklist
  <1>4. CASE VerifyToken(c)
    <2>1. CASE Valid(call[c].token) /\ Step(c, "verified")
      <3>1. call[c].at = "listed" /\ UNCHANGED <<accountVars, sessionVars, now>>
        BY <1>4 DEF VerifyToken
      <3>2. ~call[c].revoked
        BY <1>1, <2>1, <3>1 DEF Fits, Valid
      <3> QED BY <1>1, <2>1, <3>1, <3>2, StepPreserves DEF accountVars, sessionVars
    <2> QED BY <1>2, <1>4, <2>1 DEF VerifyToken
  <1>5. CASE LoadUser(c)
    <2> DEFINE k == [call[c] EXCEPT !.at = "admitted", !.row = users[call[c].user]]
    <2>1. /\ call' = [call EXCEPT ![c] = k] /\ call[c].at = "verified"
          /\ UNCHANGED <<accountVars, sessionVars, now>>
      BY <1>5 DEF LoadUser
    <2>2. call[c].user \in Users /\ users[call[c].user] \in UserRow \union {NoRow}
      BY <1>1, <2>1 DEF Fits, TablesOK
    <2>3. /\ k \in CallRecord /\ k.at = "admitted" /\ k.user = call[c].user
          /\ k.token = call[c].token /\ k.revoked = call[c].revoked
      BY <1>1, <2>2 DEF CallRecord
    <2> HIDE DEF k
    <2>4. Fits(k, users, loggedOut, now)
      BY <1>1, <2>1, <2>3 DEF Fits
    <2>5. TablesOK' /\ Grow
      BY <1>1, <2>1, SameTables DEF accountVars, sessionVars
    <2>6. CallsFit'
      BY <2>1, <2>4, <2>5, OneCall
    <2> QED BY <2>5, <2>6 DEF AccountsInv
  <1>6. CASE RefreshToken(c)
    <2>1. /\ call[c].at = "verified" /\ Issue(call[c].user) /\ Drop(c)
          /\ UNCHANGED <<users, blacklist, loggedOut, now>>
      BY <1>6 DEF RefreshToken, Serving, accountVars
    <2>2. call[c].user \in Users /\ users[call[c].user] # NoRow
      BY <1>1, <2>1 DEF Fits
    <2> QED BY <1>1, <2>1, <2>2, IssuePreserves, DropPreserves
  <1>7. CASE Profile(c)
    BY <1>2, <1>7 DEF Profile
  <1> QED BY <1>3, <1>4, <1>5, <1>6, <1>7

LEMMA LogoutPreserves ==
  ASSUME AccountsInv, NEW c \in Callers, Logout(c) \/ LogoutRefresh(c)
  PROVE  AccountsInv'
  <1>1. /\ Fits(call[c], users, loggedOut, now) /\ TablesOK
        /\ TokenSteps = {"arrived", "listed", "verified", "admitted", "revoking"}
        /\ "revoking" \in Steps
    BY DEF AccountsInv, CallsFit, TokenSteps, Steps
  <1>2. ASSUME Drop(c), UNCHANGED <<users, minted, blacklist, loggedOut, now>>
        PROVE  AccountsInv'
    BY <1>1, <1>2, SameTables, DropPreserves
  <1>3. CASE Logout(c)
    <2>1. call[c].at = "admitted" /\ UNCHANGED <<users, minted, now>>
      BY <1>3 DEF Logout, Serving, accountVars
    <2>2. CASE /\ BlacklistToken(call[c].token)
               /\ loggedOut' = loggedOut \union {call[c].token}
               /\ Step(c, "revoking")
      <3>1. call[c].token \in Token
        BY <1>1, <2>1 DEF Fits
      <3>2. TablesOK' /\ Grow
        BY <1>1, <2>1, <2>2, <3>1, RevokePreserves
      <3> DEFINE k == [call[c] EXCEPT !.at = "revoking"]
      <3>3. /\ call' = [call EXCEPT ![c] = k] /\ k \in CallRecord /\ k.at = "revoking"
            /\ k.user = call[c].user /\ k.token = call[c].token /\ k.revoked = call[c].revoked
        BY <1>1, <2>2, Stepped DEF AccountsInv
      <3> HIDE DEF k
      <3>4. Fits(k, users, loggedOut, now)
        BY <1>1, <2>1, <3>3 DEF Fits
      <3>5. CallsFit'
        BY <3>2, <3>3, <3>4, OneCall
      <3> QED BY <3>2, <3>5 DEF AccountsInv
    <2> QED BY <1>2, <1>3, <2>1, <2>2 DEF Logout
  <1>4. CASE LogoutRefresh(c)
    <2>1. Drop(c) /\ UNCHANGED <<users, minted, now>>
      BY <1>4 DEF LogoutRefresh, accountVars
    <2>2. ASSUME NEW t \in minted, BlacklistToken(t), loggedOut' = loggedOut \union {t}
          PROVE  AccountsInv'
      <3>1. t \in Token
        BY <1>1 DEF TablesOK
      <3> QED BY <1>1, <2>1, <2>2, <3>1, RevokePreserves, DropPreserves
    <2> QED BY <1>2, <1>4, <2>1, <2>2 DEF LogoutRefresh
  <1> QED BY <1>3, <1>4

LEMMA RowStepsPreserve ==
  ASSUME AccountsInv, NEW c \in Callers,
         \/ CreateUser(c) \/ CreatePrivateTag(c) \/ SaveUser(c)
         \/ SetUserPrimaryOrg(c) \/ CheckAssignedTags(c) \/ SaveTag(c)
  PROVE  AccountsInv'
  <1>1. /\ Fits(call[c], users, loggedOut, now) /\ TablesOK /\ CallsFit /\ call[c] \in CallRecord
        /\ {"create", "tag", "save", "check"} \subseteq Steps
        /\ "admitted" \in TokenSteps
    BY DEF AccountsInv, CallsFit, TokenSteps, Steps
  <1>2. ASSUME Drop(c), UNCHANGED <<users, minted, blacklist, loggedOut, now>>
        PROVE  AccountsInv'
    BY <1>1, <1>2, SameTables, DropPreserves
  \* The row to be saved is in the handler's hands.
  <1>3. ASSUME NEW row \in UserRow, Held(row), call[c].user \in Users,
               call' = [call EXCEPT ![c].at = "save", ![c].row = row],
               UNCHANGED <<users, minted, blacklist, loggedOut, now>>,
               call[c].revoked => call[c].token \in loggedOut
        PROVE  AccountsInv'
    <2> DEFINE k == [call[c] EXCEPT !.at = "save", !.row = row]
    <2>1. call' = [call EXCEPT ![c] = k]
      BY <1>3
    <2>2. /\ k \in CallRecord /\ k.at = "save" /\ k.user = call[c].user /\ k.row = row
          /\ k.token = call[c].token /\ k.revoked = call[c].revoked
      BY <1>1 DEF CallRecord
    <2> HIDE DEF k
    <2>3. Fits(k, users, loggedOut, now)
      BY <1>1, <1>3, <2>2 DEF Fits, TokenSteps
    <2>4. TablesOK' /\ Grow
      BY <1>1, <1>3, SameTables
    <2>5. CallsFit'
      BY <2>1, <2>3, <2>4, OneCall
    <2> QED BY <2>4, <2>5 DEF AccountsInv
  <1>4. call[c].revoked => call[c].token \in loggedOut
    BY <1>1 DEF Fits
  <1>5. CASE CreateUser(c)
    <2>1. call[c].at = "create" /\ UNCHANGED <<minted, blacklist, loggedOut, now>>
      BY <1>5 DEF CreateUser, Serving, sessionVars
    <2>2. call[c].user \in Users
      BY <1>1, <2>1 DEF Fits
    <2>3. CASE /\ users' = [users EXCEPT ![call[c].user] = [orgTags |-> {}, primary |-> NoTag]]
               /\ Step(c, "tag")
      <3> DEFINE row == [orgTags |-> {}, primary |-> NoTag]
      <3>1. row \in UserRow /\ Held(row)
        BY DEF UserRow, Held
      <3>2. users' = [users EXCEPT ![call[c].user] = row]
        BY <2>3
      <3> HIDE DEF row
      <3>3. TablesOK' /\ Grow
        BY <1>1, <2>1, <2>2, <3>1, <3>2, SavePreserves
      <3> DEFINE k == [call[c] EXCEPT !.at = "tag"]
      <3>4. /\ call' = [call EXCEPT ![c] = k] /\ k \in CallRecord /\ k.at = "tag"
            /\ k.user = call[c].user /\ k.token = call[c].token /\ k.revoked = call[c].revoked
        BY <1>1, <2>3, Stepped
      <3> HIDE DEF k
      <3>5. Fits(k, users, loggedOut, now)
        BY <1>1, <2>2, <3>4 DEF Fits, TokenSteps
      <3>6. CallsFit'
        BY <3>3, <3>4, <3>5, OneCall
      <3> QED BY <3>3, <3>6 DEF AccountsInv
    <2> QED BY <1>2, <1>5, <2>1, <2>3 DEF CreateUser
  <1>6. CASE CreatePrivateTag(c)
    <2> DEFINE t == PrivateTag(call[c].user)
               row == [orgTags |-> {t}, primary |-> t]
    <2>1. call[c].at = "tag" /\ UNCHANGED <<users, minted, blacklist, loggedOut, now>>
      BY <1>6 DEF CreatePrivateTag, Serving, sessionVars
    <2>2. call[c].user \in Users
      BY <1>1, <2>1 DEF Fits
    <2>3. t \in AllTags
      BY <2>2 DEF AllTags
    <2>4. CASE call' = [call EXCEPT ![c].at = "save", ![c].row = row]
      <3> HIDE DEF t
      <3>1. row \in UserRow /\ Held(row)
        BY <2>3 DEF UserRow, Held
      <3> HIDE DEF row
      <3> QED BY <1>3, <1>4, <2>1, <2>2, <2>4, <3>1
    <2> QED BY <1>2, <1>6, <2>1, <2>4 DEF CreatePrivateTag
  <1>7. CASE SaveUser(c)
    <2>1. /\ call[c].at = "save" /\ Drop(c) /\ UNCHANGED <<minted, blacklist, loggedOut, now>>
          /\ users' \in {users, [users EXCEPT ![call[c].user] = call[c].row]}
      BY <1>7 DEF SaveUser, sessionVars
    <2>2. call[c].user \in Users /\ call[c].row \in UserRow /\ Held(call[c].row)
      BY <1>1, <2>1 DEF Fits
    <2> QED BY <1>1, <1>2, <2>1, <2>2, SavePreserves, DropPreserves
  <1>8. CASE SetUserPrimaryOrg(c)
    <2>1. call[c].at = "admitted" /\ UNCHANGED <<users, minted, blacklist, loggedOut, now>>
      BY <1>8 DEF SetUserPrimaryOrg, Serving, accountVars, sessionVars
    <2>2. call[c].user \in Users /\ users[call[c].user] \in UserRow
      BY <1>1, <2>1 DEF Fits, TablesOK
    <2>3. ASSUME NEW t \in users[call[c].user].orgTags,
                 call' = [call EXCEPT ![c].at = "save",
                                      ![c].row = [users[call[c].user] EXCEPT !.primary = t]]
          PROVE  AccountsInv'
      <3> DEFINE row == [users[call[c].user] EXCEPT !.primary = t]
      <3>1. row \in UserRow /\ Held(row)
        BY <2>2 DEF UserRow, Held
      <3> HIDE DEF row
      <3>2. call' = [call EXCEPT ![c].at = "save", ![c].row = row]
        BY <2>3 DEF row
      <3> QED BY <1>3, <1>4, <2>1, <2>2, <3>1, <3>2
    <2> QED BY <1>2, <1>8, <2>1, <2>3 DEF SetUserPrimaryOrg
  <1>9. CASE CheckAssignedTags(c)
    <2>1. call[c].at = "check" /\ UNCHANGED <<users, minted, blacklist, loggedOut, now>>
      BY <1>9 DEF CheckAssignedTags, Serving, accountVars, sessionVars
    <2>2. /\ call[c].user \in Users /\ call[c].row \in UserRow
          /\ call[c].tag \in call[c].asked /\ call[c].asked \subseteq AllTags
      BY <1>1, <2>1 DEF Fits
    <2> DEFINE row == [orgTags |-> call[c].asked,
                       primary |-> IF call[c].row.primary \in call[c].asked
                                   THEN call[c].row.primary ELSE call[c].tag]
    <2>3. row \in UserRow /\ Held(row)
      BY <2>2 DEF UserRow, Held
    <2>4. Drop(c) \/ call' = [call EXCEPT ![c].at = "save", ![c].row = row]
      BY <1>9 DEF CheckAssignedTags
    <2> HIDE DEF row
    <2> QED BY <1>2, <1>3, <1>4, <2>1, <2>2, <2>3, <2>4
  <1>10. CASE SaveTag(c)
    BY <1>2, <1>10 DEF SaveTag, sessionVars
  <1> QED BY <1>5, <1>6, <1>7, <1>8, <1>9, <1>10

-----------------------------------------------------------------------------
LEMMA InitAccountsInv ==
  ASSUME Init
  PROVE  AccountsInv
  <1> PICK u, w \in Users, s \in Tags : u # w /\ InitAccounts(u, w, s)
    BY DEF Init
  <1>1. /\ users = [x \in Users |-> CASE x = u -> Holding({s}, s)
                                      [] x = w -> Holding({PrivateTag(w)}, PrivateTag(w))
                                      [] OTHER -> NoRow]
        /\ minted = {AccessToken(u), RefreshTokenOf(u)}
        /\ blacklist = {} /\ now = 0 /\ loggedOut = {}
        /\ call = [c \in Callers |-> Idle]
    BY DEF InitAccounts
  <1>2. s \in AllTags /\ PrivateTag(w) \in AllTags
    BY DEF AllTags
  <1>3. /\ Holding({s}, s) \in UserRow /\ Held(Holding({s}, s))
        /\ Holding({PrivateTag(w)}, PrivateTag(w)) \in UserRow
        /\ Held(Holding({PrivateTag(w)}, PrivateTag(w)))
    BY <1>2 DEF Holding, Held, UserRow
  <1>4. users \in [Users -> UserRow \union {NoRow}] /\ RowsAreHeld
    BY <1>1, <1>3 DEF RowsAreHeld
  <1>5. users[u] # NoRow
    BY <1>1, <1>3, RowAssumption
  <1>6. minted \subseteq Token /\ \A t \in minted : t.user = u
    BY <1>1, AccountsAssumption DEF AccessToken, RefreshTokenOf, Token
  <1>7. TablesOK
    <2>1. \A t \in minted : users[t.user] # NoRow
      BY <1>5, <1>6
    <2>2. now \in 0 .. MaxTime /\ loggedOut \subseteq Token /\ LogoutsCount
      BY <1>1, AccountsAssumption DEF LogoutsCount
    <2> QED BY <1>4, <1>6, <2>1, <2>2 DEF TablesOK
  <1>8. Idle \in CallRecord
    BY DEF Idle, CallRecord, Steps, TokenSteps
  <1>9. CallsFit
    BY <1>1, <1>8, IdleFits DEF CallsFit
  <1> QED BY <1>7, <1>9 DEF AccountsInv

\* A step of a search, or none at all.
LEMMA ElsewherePreserves ==
  ASSUME AccountsInv, UNCHANGED <<accountVars, sessionVars, now, call>>
  PROVE  AccountsInv'
  BY SameTables, TablesPreserve DEF AccountsInv, accountVars, sessionVars

LEMMA NextAccounts ==
  ASSUME AccountsInv, Next
  PROVE  AccountsInv'
  <1>1. ASSUME NEW c \in Callers, Request(c)
        PROVE  AccountsInv'
    <2>1. {"logout", "refresh", "profile", "search", "ask", "primary"} \subseteq Ops
      BY DEF Ops
    <2> QED BY <1>1, <2>1, ArrivePreserves DEF Request
  <1>2. ASSUME NEW c \in Callers, Administer(c)
        PROVE  AccountsInv'
    BY <1>2, AdministerPreserves
  <1>3. ASSUME NEW c \in Callers, Handle(c)
        PROVE  AccountsInv'
    BY <1>3, TokenStepsPreserve, LogoutPreserves, RowStepsPreserve DEF Handle, Continue
  <1>4. ASSUME NEW c \in Callers, HybridSearch(c) \/ ChatQuestion(c) \/ Retrieve(c)
        PROVE  AccountsInv'
    BY <1>4, ElsewherePreserves DEF HybridSearch, ChatQuestion, Retrieve
  <1>5. ASSUME NEW c \in Callers, Respond(c) \/ CloseSocket(c)
        PROVE  AccountsInv'
    <2>1. UNCHANGED <<accountVars, sessionVars, now>> /\ (Drop(c) \/ UNCHANGED call)
      BY <1>5 DEF Respond, CloseSocket
    <2>2. TablesOK' /\ Grow
      BY <2>1, SameTables DEF AccountsInv, accountVars, sessionVars
    <2> QED BY <2>1, <2>2, DropPreserves, TablesPreserve
  <1>6. CASE AtOnce
    <2>1. ASSUME NEW u \in Users, Login(u)
          PROVE  AccountsInv'
      <3>1. /\ users[u] # NoRow /\ Issue(u) /\ UNCHANGED call
            /\ UNCHANGED <<users, loggedOut, blacklist, now>>
        BY <2>1 DEF Login, accountVars
      <3> QED BY <3>1, IssuePreserves, TablesPreserve DEF AccountsInv
    <2>2. ASSUME NEW t, NEW parent, CreateOrganizationTag(t, parent)
          PROVE  AccountsInv'
      BY <2>2, SameTables, TablesPreserve DEF CreateOrganizationTag, AccountsInv, sessionVars
    <2>3. ASSUME NEW t, DeleteOrganizationTag(t)
          PROVE  AccountsInv'
      BY <2>3, SameTables, TablesPreserve DEF DeleteOrganizationTag, AccountsInv, sessionVars
    <2> QED BY <1>6, <2>1, <2>2, <2>3 DEF AtOnce
  <1>7. CASE Second
    BY <1>7, SecondPreserves
  <1> QED BY <1>1, <1>2, <1>3, <1>4, <1>5, <1>6, <1>7 DEF Next

THEOREM AccountsInvariant == Spec => []AccountsInv
  <1>1. Init => AccountsInv
    BY InitAccountsInv
  <1>2. AccountsInv /\ [Next]_vars => AccountsInv'
    BY NextAccounts, ElsewherePreserves DEF vars, accountVars, sessionVars
  <1> QED BY <1>1, <1>2, PTL DEF Spec

\* The primary organisation of every user is one of the user's tags, however
\* registrations, assignments and choices of it interleave.
THEOREM PrimaryOrgStaysHeld == Spec => []PrimaryOrgIsHeld
  <1>1. AccountsInv => PrimaryOrgIsHeld
    BY DEF AccountsInv, TablesOK, RowsAreHeld, Held, PrimaryOrgIsHeld
  <1> QED BY <1>1, AccountsInvariant, PTL

\* A token that was logged out before a request arrived does not serve it.
THEOREM RevokedTokenStaysRefused == Spec => []RevokedTokenIsRefused
  <1>1. AccountsInv => RevokedTokenIsRefused
    BY DEF AccountsInv, CallsFit, Fits, RevokedTokenIsRefused
  <1> QED BY <1>1, AccountsInvariant, PTL

-----------------------------------------------------------------------------
(* Requests that search.                                                    *)

SearchOps == {"search", "ask"}

\* What the request of c may be answered with.
Permitted(c) == {item \in Items : MayHaveSeen(c, item)}

\* S has all that is above the tags the request's user has held.
HasWhatIsAbove(S, c) == since[c].held \subseteq S /\ Closed(S, since[c].links)

CallerInv(c) ==
  /\ call[c].at = "idle" => call[c] = Idle
  /\ call[c].op \in SearchOps =>
       /\ call[c].at \in {"arrived", "listed", "verified", "admitted"}
       /\ users[call[c].user].orgTags \subseteq since[c].held
       /\ Links \subseteq since[c].links
       /\ call[c].at = "admitted" => /\ call[c].row \in UserRow
                                     /\ call[c].row.orgTags \subseteq since[c].held
  /\ SearchInv(search[c], Users \union {0}, AllTags, Permitted(c))
  /\ search[c].at # "none" =>
       /\ call[c].op \in SearchOps /\ call[c].at = "admitted"
       /\ search[c].user = call[c].user
       /\ \A S \in SUBSET AllTags : HasWhatIsAbove(S, c) => search[c].tags \subseteq S

RestTyped ==
  /\ parentTag \in [AllTags -> AllTags \union {NoTag, NoRow}]
  /\ \A entry \in blacklist : entry.token \in Token /\ entry.until \in Nat
  /\ DOMAIN search = Callers

SearchersInv == RestTyped /\ \A c \in Callers : CallerInv(c)

\* Where a request that searches stands, and the searches of one that waits.
Searches(c) == call[c].op \in SearchOps /\ call[c].at = "admitted"

\* How a step of Accounts may change a request.
Moved(c) ==
  \/ call'[c] = call[c]
  \/ call'[c] = Idle /\ ~Searches(c)
  \/ /\ call[c] = Idle /\ call'[c].at # "idle"
     /\ call'[c].op \in SearchOps => call'[c].at = "arrived"
  \/ /\ call'[c].op = call[c].op /\ call'[c].user = call[c].user /\ call'[c].at # "idle"
     /\ call[c].op \in SearchOps =>
          /\ call[c].at # "admitted" /\ call'[c].at \in {"listed", "verified", "admitted"}
          /\ call'[c].at = "admitted" => /\ call'[c].row = users[call[c].user]
                                         /\ call[c].at = "verified" /\ users' = users

-----------------------------------------------------------------------------
(* GetUserEffectiveOrgTags.                                                 *)

LEMMA AllTagsAreFinite == IsFiniteSet(AllTags) /\ Cardinality(AllTags) \in Nat
  <1> DEFINE P == {PrivateTag(u) : u \in Users}
             f == [u \in Users |-> PrivateTag(u)]
  <1>1. f \in Surjection(Users, P)
    BY DEF Surjection
  <1>2. IsFiniteSet(P)
    BY <1>1, AccountsAssumption, FS_Surjection
  <1>3. IsFiniteSet(AllTags)
    BY <1>2, AccountsAssumption, FS_Union DEF AllTags
  <1> QED BY <1>3, FS_CardinalityType

\* One level of the search up the tags.
Up(X) == X \union ({parentTag[t] : t \in X} \ {NoTag, NoRow})

\* f has met f[n] after n levels.
Climbs(f, first, m) ==
  f = [n \in 0 .. m |-> IF n = 0 THEN first ELSE Up(f[n - 1])]

\* There is no first number of levels that cannot be searched.
LEMMA ClimbExists ==
  ASSUME NEW first, NEW N \in Nat
  PROVE  \E f : Climbs(f, first, N)
  <1> DEFINE bad == {m \in 0 .. N : ~(\E f : Climbs(f, first, m))}
  <1>1. bad = {}
    <2> SUFFICES ASSUME bad # {} PROVE FALSE
      OBVIOUS
    <2>1. bad \in SUBSET Nat
      OBVIOUS
    <2>2. PICK m \in bad : \A k \in bad : m <= k
      BY <2>1, LeastNumber
    <2>3. m \in 0 .. N /\ ~(\E f : Climbs(f, first, m))
      OBVIOUS
    <2>4. CASE m = 0
      <3> DEFINE f == [n \in 0 .. 0 |-> first]
      <3>1. \A n \in 0 .. 0 : n = 0
        OBVIOUS
      <3>2. f = [n \in 0 .. 0 |-> IF n = 0 THEN first ELSE Up(f[n - 1])]
        <4> HIDE DEF f
        <4>1. f = [n \in 0 .. 0 |-> first]
          BY DEF f
        <4> QED BY <3>1, <4>1
      <3>3. Climbs(f, first, 0)
        BY <3>2 DEF Climbs
      <3> QED BY <2>3, <2>4, <3>3
    <2>5. CASE m # 0
      <3> DEFINE k == m - 1
      <3>1. k \in 0 .. N /\ ~(m <= k) /\ k \in Nat /\ m \in Nat /\ m \in 0 .. m /\ k \in 0 .. k
        BY <2>3, <2>5
      <3>2. \A n \in 0 .. m : n # m => n \in 0 .. k
        BY <2>3, <2>5
      <3>3. \A n \in 0 .. m : n # 0 => n - 1 \in 0 .. k /\ n - 1 # m
        BY <2>3, <2>5
      <3>4. \E f : Climbs(f, first, k)
        <4> HIDE DEF k, Climbs
        <4> QED BY <2>2, <3>1
      <3>5. PICK f : Climbs(f, first, k)
        BY <3>4
      <3>6. \A n \in 0 .. k : f[n] = IF n = 0 THEN first ELSE Up(f[n - 1])
        BY <3>5 DEF Climbs
      <3> DEFINE g == [n \in 0 .. m |-> IF n = m THEN Up(f[k]) ELSE f[n]]
      <3>7. \A n \in 0 .. m : g[n] = IF n = m THEN Up(f[k]) ELSE f[n]
        OBVIOUS
      <3>8. \A n \in 0 .. k : n \in 0 .. m /\ n # m /\ g[n] = f[n]
        BY <2>3, <3>7
      <3>9. g = [n \in 0 .. m |-> g[n]]
        OBVIOUS
      <3> HIDE DEF g
      <3>10. \A n \in 0 .. m : g[n] = IF n = 0 THEN first ELSE Up(g[n - 1])
        <4> SUFFICES ASSUME NEW n \in 0 .. m
                     PROVE  g[n] = IF n = 0 THEN first ELSE Up(g[n - 1])
          OBVIOUS
        <4>1. CASE n = m
          <5>1. g[n] = Up(f[k]) /\ g[k] = f[k] /\ n - 1 = k
            BY <3>1, <3>7, <3>8, <4>1
          <5> QED BY <2>5, <4>1, <5>1
        <4>2. CASE n # m /\ n # 0
          <5>1. n \in 0 .. k /\ n - 1 \in 0 .. k
            BY <3>2, <3>3, <4>2
          <5>2. g[n] = f[n] /\ g[n - 1] = f[n - 1]
            BY <3>8, <5>1
          <5> QED BY <3>6, <4>2, <5>1, <5>2
        <4>3. CASE n # m /\ n = 0
          <5>1. n \in 0 .. k
            BY <3>2, <4>3
          <5> QED BY <3>6, <3>8, <4>3, <5>1
        <4> QED BY <4>1, <4>2, <4>3
      <3>11. Climbs(g, first, m)
        BY <3>9, <3>10, Zenon DEF Climbs
      <3> QED BY <2>3, <3>11
    <2> QED BY <2>4, <2>5
  <1> HIDE DEF bad
  <1>2. N \in 0 .. N
    OBVIOUS
  <1> QED BY <1>1, <1>2 DEF bad

\* What is above a set is in every set with it that is closed upwards.
LEMMA EffectiveTagsStay ==
  ASSUME NEW first, NEW S, first \subseteq S, \A X \in SUBSET S : Up(X) \subseteq S
  PROVE  EffectiveOrgTags(first) \subseteq S
  <1> DEFINE N == Cardinality(AllTags)
             Above == CHOOSE f : Climbs(f, first, N)
  <1>1. N \in Nat
    BY AllTagsAreFinite
  <1>2. Climbs(Above, first, N)
    <2>1. \E f : Climbs(f, first, N)
      BY <1>1, ClimbExists
    <2> HIDE DEF Climbs
    <2> QED BY <2>1
  <1>3. EffectiveOrgTags(first) = Above[N]
    BY DEF EffectiveOrgTags, Climbs, Up
  <1> HIDE DEF Above, N
  <1>4. \A n \in 0 .. N : Above[n] = IF n = 0 THEN first ELSE Up(Above[n - 1])
    BY <1>2, Zenon DEF Climbs
  <1> DEFINE bad == {n \in 0 .. N : ~(Above[n] \subseteq S)}
  <1>5. bad = {}
    <2> SUFFICES ASSUME bad # {} PROVE FALSE
      OBVIOUS
    <2>1. bad \in SUBSET Nat
      OBVIOUS
    <2>2. PICK m \in bad : \A k \in bad : m <= k
      BY <2>1, LeastNumber
    <2>3. m \in 0 .. N /\ m # 0 /\ ~(Above[m] \subseteq S)
      BY <1>4
    <2> DEFINE k == m - 1
    <2>4. k \in 0 .. N /\ ~(m <= k)
      BY <1>1, <2>3
    <2>5. Above[k] \subseteq S
      <3> HIDE DEF k
      <3> QED BY <2>2, <2>4
    <2>6. Above[m] = Up(Above[k])
      BY <1>4, <2>3
    <2> QED BY <2>3, <2>5, <2>6
  <1>6. N \in 0 .. N
    BY <1>1
  <1> QED BY <1>3, <1>5, <1>6

LEMMA EffectiveTagsAreAbove ==
  ASSUME RestTyped, NEW c \in Callers, Links \subseteq since[c].links,
         NEW held, held \subseteq since[c].held,
         NEW S \in SUBSET AllTags, HasWhatIsAbove(S, c)
  PROVE  EffectiveOrgTags(held) \subseteq S
  <1>1. held \subseteq S
    BY DEF HasWhatIsAbove
  <1>2. ASSUME NEW X \in SUBSET S
        PROVE  Up(X) \subseteq S
    <2>1. ASSUME NEW t \in X, parentTag[t] \notin {NoTag, NoRow}
          PROVE  parentTag[t] \in S
      <3>1. t \in AllTags /\ t \in S
        OBVIOUS
      <3>2. <<t, parentTag[t]>> \in since[c].links
        BY <2>1, <3>1 DEF Links
      <3>3. <<t, parentTag[t]>>[1] = t /\ <<t, parentTag[t]>>[2] = parentTag[t]
        OBVIOUS
      <3> QED BY <3>1, <3>2, <3>3 DEF HasWhatIsAbove, Closed
    <2> QED BY <2>1 DEF Up
  <1> QED BY <1>1, <1>2, EffectiveTagsStay

LEMMA EffectiveTagsAreTags ==
  ASSUME RestTyped, NEW held \in SUBSET AllTags
  PROVE  EffectiveOrgTags(held) \in SUBSET AllTags
  <1>1. ASSUME NEW X \in SUBSET AllTags
        PROVE  Up(X) \subseteq AllTags
    BY DEF Up, RestTyped
  <1> QED BY <1>1, EffectiveTagsStay

-----------------------------------------------------------------------------
(* How requests move.                                                       *)

\* A step that changes no request, or only that of c.
LEMMA OthersStay ==
  ASSUME CallsFit, NEW c \in Callers, NEW k, call' = [call EXCEPT ![c] = k]
  PROVE  call'[c] = k /\ \A d \in Callers \ {c} : Moved(d)
  BY DEF CallsFit, Moved

LEMMA DropMoves ==
  ASSUME CallsFit, NEW c \in Callers, Drop(c), ~Searches(c)
  PROVE  \A d \in Callers : Moved(d)
  <1>1. call'[c] = Idle /\ \A d \in Callers \ {c} : Moved(d)
    BY OthersStay DEF Drop
  <1>2. Moved(c)
    BY <1>1 DEF Moved
  <1> QED BY <1>1, <1>2

LEMMA BeginMoves ==
  ASSUME CallsFit, NEW c \in Callers, NEW k, Begin(c, k), k.at # "idle",
         k.op \in SearchOps => k.at = "arrived"
  PROVE  \A d \in Callers : Moved(d)
  <1>1. call'[c] = k /\ call[c] = Idle /\ \A d \in Callers \ {c} : Moved(d)
    BY OthersStay DEF Begin
  <1>2. Moved(c)
    BY <1>1 DEF Moved
  <1> QED BY <1>1, <1>2

\* A handler goes on.
LEMMA HandlerMoves ==
  ASSUME CallsFit, NEW c \in Callers, NEW at, NEW row, at # "idle", at # "admitted",
         call[c].op \notin SearchOps,
         call' = [call EXCEPT ![c].at = at, ![c].row = row]
  PROVE  \A d \in Callers : Moved(d)
  <1> DEFINE k == [call[c] EXCEPT !.at = at, !.row = row]
  <1>1. call[c] \in CallRecord
    BY DEF CallsFit
  <1>2. k.op = call[c].op /\ k.user = call[c].user /\ k.at = at
    BY <1>1 DEF CallRecord
  <1>3. call' = [call EXCEPT ![c] = k]
    OBVIOUS
  <1> HIDE DEF k
  <1>4. call'[c] = k /\ \A d \in Callers \ {c} : Moved(d)
    BY <1>3, OthersStay
  <1>5. Moved(c)
    BY <1>2, <1>4 DEF Moved
  <1> QED BY <1>4, <1>5

LEMMA StepMoves ==
  ASSUME CallsFit, NEW c \in Callers, NEW at \in Steps, Step(c, at), at # "idle",
         call[c].op \in SearchOps => call[c].at # "admitted" /\ at \in {"listed", "verified"}
  PROVE  \A d \in Callers : Moved(d)
  <1> DEFINE k == [call[c] EXCEPT !.at = at]
  <1>1. call' = [call EXCEPT ![c] = k] /\ k.at = at /\ k.op = call[c].op /\ k.user = call[c].user
    BY Stepped
  <1> HIDE DEF k
  <1>2. call'[c] = k /\ \A d \in Callers \ {c} : Moved(d)
    BY <1>1, OthersStay
  <1>3. Moved(c)
    BY <1>1, <1>2 DEF Moved
  <1> QED BY <1>2, <1>3

LEMMA LoadUserMoves ==
  ASSUME CallsFit, NEW c \in Callers, LoadUser(c)
  PROVE  \A d \in Callers : Moved(d)
  <1> DEFINE k == [call[c] EXCEPT !.at = "admitted", !.row = users[call[c].user]]
  <1>1. call[c] \in CallRecord /\ call[c].at = "verified" /\ users' = users
        /\ call' = [call EXCEPT ![c] = k]
    BY DEF CallsFit, LoadUser, accountVars
  <1>2. /\ k.op = call[c].op /\ k.user = call[c].user /\ k.at = "admitted"
        /\ k.row = users[call[c].user]
    BY <1>1 DEF CallRecord
  <1> HIDE DEF k
  <1>3. call'[c] = k /\ \A d \in Callers \ {c} : Moved(d)
    BY <1>1, OthersStay
  <1>4. Moved(c)
    BY <1>1, <1>2, <1>3 DEF Moved
  <1> QED BY <1>3, <1>4

LEMMA SavingMoves ==
  ASSUME CallsFit, NEW c \in Callers, call[c].op \notin SearchOps,
         NEW row, call' = [call EXCEPT ![c].at = "save", ![c].row = row]
  PROVE  \A d \in Callers : Moved(d)
  BY HandlerMoves

LEMMA ContinueMoves ==
  ASSUME CallsFit, NEW c \in Callers, CallerInv(c), Continue(c)
  PROVE  \A d \in Callers : Moved(d)
  <1>1. /\ {"listed", "verified", "admitted", "revoking", "tag"} \subseteq Steps
        /\ SearchOps = {"search", "ask"}
    BY DEF Steps, TokenSteps, SearchOps
  <1>2. call[c].op \in SearchOps => call[c].at \in {"arrived", "listed", "verified", "admitted"}
    BY DEF CallerInv
  <1>3. CASE CheckBlacklist(c)
    <2>1. call[c].at = "arrived" /\ (Step(c, "listed") \/ Drop(c))
      BY <1>3 DEF CheckBlacklist
    <2> QED BY <1>1, <2>1, StepMoves, DropMoves DEF Searches
  <1>4. CASE VerifyToken(c)
    <2>1. call[c].at = "listed" /\ (Step(c, "verified") \/ Drop(c))
      BY <1>4 DEF VerifyToken
    <2> QED BY <1>1, <2>1, StepMoves, DropMoves DEF Searches
  <1>5. CASE LoadUser(c)
    BY <1>5, LoadUserMoves
  <1>6. CASE RefreshToken(c) \/ Profile(c) \/ LogoutRefresh(c) \/ SaveTag(c)
    <2>1. call[c].op \in {"refresh", "profile", "logout", "update"} /\ Drop(c)
      BY <1>6 DEF RefreshToken, Profile, LogoutRefresh, SaveTag, Serving
    <2> QED BY <1>1, <2>1, DropMoves DEF Searches
  <1>7. CASE Logout(c)
    <2>1. call[c].op = "logout" /\ (Step(c, "revoking") \/ Drop(c))
      BY <1>7 DEF Logout, Serving
    <2> QED BY <1>1, <2>1, StepMoves, DropMoves DEF Searches
  <1>8. CASE CreateUser(c)
    <2>1. call[c].op = "register" /\ (Step(c, "tag") \/ Drop(c))
      BY <1>8 DEF CreateUser, Serving
    <2> QED BY <1>1, <2>1, StepMoves, DropMoves DEF Searches
  <1>9. CASE CreatePrivateTag(c)
    <2>1. call[c].op = "register" /\ (Drop(c) \/ \E row : call' = [call EXCEPT ![c].at = "save", ![c].row = row])
      BY <1>9 DEF CreatePrivateTag, Serving
    <2> QED BY <1>1, <2>1, SavingMoves, DropMoves DEF Searches
  <1>10. CASE SaveUser(c)
    <2>1. call[c].at = "save" /\ Drop(c)
      BY <1>10 DEF SaveUser
    <2> QED BY <2>1, DropMoves DEF Searches
  <1>11. CASE SetUserPrimaryOrg(c)
    <2>1. call[c].op = "primary" /\ (Drop(c) \/ \E row : call' = [call EXCEPT ![c].at = "save", ![c].row = row])
      BY <1>11 DEF SetUserPrimaryOrg, Serving
    <2> QED BY <1>1, <2>1, SavingMoves, DropMoves DEF Searches
  <1>12. CASE CheckAssignedTags(c)
    <2>1. call[c].op = "assign" /\ (Drop(c) \/ \E row : call' = [call EXCEPT ![c].at = "save", ![c].row = row])
      BY <1>12 DEF CheckAssignedTags, Serving
    <2> QED BY <1>1, <2>1, SavingMoves, DropMoves DEF Searches
  <1> QED BY <1>3, <1>4, <1>5, <1>6, <1>7, <1>8, <1>9, <1>10, <1>11, <1>12 DEF Continue

LEMMA ArrivalMoves ==
  ASSUME CallsFit, NEW c \in Callers, Request(c) \/ Administer(c)
  PROVE  \A d \in Callers : Moved(d)
  <1>1. ASSUME NEW op, NEW t, Arrive(c, op, t)
        PROVE  \A d \in Callers : Moved(d)
    <2> DEFINE k == [Idle EXCEPT !.op = op, !.at = "arrived", !.token = t, !.user = t.user,
                                 !.revoked = t \in loggedOut]
    <2>1. Begin(c, k)
      BY <1>1 DEF Arrive
    <2>2. k.at = "arrived"
      BY DEF Idle
    <2> HIDE DEF k
    <2> QED BY <2>1, <2>2, BeginMoves
  <1>2. ASSUME NEW u, Register(c, u)
        PROVE  \A d \in Callers : Moved(d)
    <2> DEFINE k == [Idle EXCEPT !.op = "register", !.at = "create", !.user = u]
    <2>1. Begin(c, k)
      BY <1>2 DEF Register
    <2>2. k.at = "create" /\ k.op \notin SearchOps
      BY DEF Idle, SearchOps
    <2> HIDE DEF k
    <2> QED BY <2>1, <2>2, BeginMoves
  <1>3. ASSUME NEW u, NEW asked, NEW first, AssignOrgTagsToUser(c, u, asked, first)
        PROVE  \A d \in Callers : Moved(d)
    <2> DEFINE k == [Idle EXCEPT !.op = "assign", !.at = "check", !.user = u, !.row = users[u],
                                 !.asked = asked, !.tag = first]
    <2>1. Begin(c, k)
      BY <1>3 DEF AssignOrgTagsToUser
    <2>2. k.at = "check" /\ k.op \notin SearchOps
      BY DEF Idle, SearchOps
    <2> HIDE DEF k
    <2> QED BY <2>1, <2>2, BeginMoves
  <1>4. ASSUME NEW t, NEW parent, UpdateOrganizationTag(c, t, parent)
        PROVE  \A d \in Callers : Moved(d)
    <2> DEFINE k == [Idle EXCEPT !.op = "update", !.at = "saveTag", !.tag = t, !.asked = {parent}]
    <2>1. Begin(c, k)
      BY <1>4 DEF UpdateOrganizationTag
    <2>2. k.at = "saveTag" /\ k.op \notin SearchOps
      BY DEF Idle, SearchOps
    <2> HIDE DEF k
    <2> QED BY <2>1, <2>2, BeginMoves
  <1> QED BY <1>1, <1>2, <1>3, <1>4 DEF Request, Administer

-----------------------------------------------------------------------------
(* What a search has is still permitted.                                    *)

LEMMA WatchIs ==
  ASSUME Watch, NEW c \in Callers, call'[c].op \in SearchOps
  PROVE  /\ since[c].held \subseteq since'[c].held
         /\ since[c].links \subseteq since'[c].links
         /\ users'[call'[c].user].orgTags \subseteq since'[c].held
         /\ Links' \subseteq since'[c].links
  <1>1. since'[c] = [held  |-> since[c].held \union users'[call'[c].user].orgTags,
                     links |-> since[c].links \union Links']
    BY DEF Watch, SearchOps
  <1> QED BY <1>1

LEMMA StillPermitted ==
  ASSUME Watch, UNCHANGED <<index, ownerOf>>, NEW c \in Callers,
         call'[c].op \in SearchOps, call'[c].user = call[c].user
  PROVE  /\ Permitted(c) \subseteq Permitted(c)'
         /\ \A S : HasWhatIsAbove(S, c)' => HasWhatIsAbove(S, c)
  <1>1. since[c].held \subseteq since'[c].held /\ since[c].links \subseteq since'[c].links
    BY WatchIs
  <1>2. \A S : HasWhatIsAbove(S, c)' => HasWhatIsAbove(S, c)
    BY <1>1 DEF HasWhatIsAbove, Closed
  <1>3. \A item : MayHaveSeen(c, item) <=>
          IF item \in Memories THEN ownerOf[item] = call[c].user
          ELSE \/ index[item].public
               \/ index[item].owner = call[c].user
               \/ \A S \in SUBSET AllTags : HasWhatIsAbove(S, c) => index[item].tag \in S
    BY DEF MayHaveSeen, HasWhatIsAbove
  <1>4. \A item : MayHaveSeen(c, item)' <=>
          IF item \in Memories THEN ownerOf[item] = call[c].user
          ELSE \/ index[item].public
               \/ index[item].owner = call[c].user
               \/ \A S \in SUBSET AllTags : HasWhatIsAbove(S, c)' => index[item].tag \in S
    BY DEF MayHaveSeen, HasWhatIsAbove
  <1>5. ASSUME NEW item, MayHaveSeen(c, item)
        PROVE  MayHaveSeen(c, item)'
    BY <1>2, <1>3, <1>4, <1>5
  <1> QED BY <1>2, <1>5 DEF Permitted

\* A request that moves while its search, if it has one, stands still.
LEMMA CallerStays ==
  ASSUME AccountsInv, SearchersInv, Watch, UNCHANGED <<index, ownerOf>>,
         NEW c \in Callers, Moved(c), search'[c] = search[c]
  PROVE  CallerInv(c)'
  <1>1. /\ CallerInv(c) /\ call[c] \in CallRecord /\ Fits(call[c], users, loggedOut, now)
        /\ users \in [Users -> UserRow \union {NoRow}]
    BY DEF SearchersInv, AccountsInv, CallsFit, TablesOK
  <1>2. Idle.op \notin SearchOps /\ Idle.at = "idle"
    BY DEF Idle, SearchOps
  <1>3. call'[c].at = "idle" => call'[c] = Idle
    BY <1>1 DEF Moved, CallerInv
  <1>4. call'[c].op \in SearchOps =>
          /\ call'[c].at \in {"arrived", "listed", "verified", "admitted"}
          /\ users'[call'[c].user].orgTags \subseteq since'[c].held
          /\ Links' \subseteq since'[c].links
          /\ call'[c].at = "admitted" => /\ call'[c].row \in UserRow
                                         /\ call'[c].row.orgTags \subseteq since'[c].held
    <2> SUFFICES ASSUME call'[c].op \in SearchOps
                 PROVE  /\ call'[c].at \in {"arrived", "listed", "verified", "admitted"}
                        /\ call'[c].at = "admitted" =>
                             /\ call'[c].row \in UserRow
                             /\ call'[c].row.orgTags \subseteq since'[c].held
      BY WatchIs
    <2>1. /\ since[c].held \subseteq since'[c].held
          /\ users'[call'[c].user].orgTags \subseteq since'[c].held
      BY WatchIs
    <2>2. CASE call'[c] = call[c]
      BY <1>1, <2>1, <2>2 DEF CallerInv
    <2>3. CASE call'[c].at = "arrived"
      BY <2>3
    <2>4. CASE /\ call'[c].op = call[c].op /\ call'[c].user = call[c].user
               /\ call'[c].at \in {"listed", "verified", "admitted"}
               /\ call'[c].at = "admitted" => /\ call'[c].row = users[call[c].user]
                                              /\ call[c].at = "verified" /\ users' = users
      <3>1. call[c].at = "verified" => users[call[c].user] \in UserRow
        BY <1>1 DEF Fits, TokenSteps
      <3> QED BY <2>1, <2>4, <3>1
    <2> QED BY <1>2, <2>2, <2>3, <2>4 DEF Moved
  <1>5. CASE search[c].at = "none"
    <2>1. search'[c] = NoSearch /\ NoSearch.at = "none"
      BY <1>1, <1>5 DEF CallerInv, SearchInv, NoSearch
    <2>2. SearchInv(search'[c], Users \union {0}, AllTags, Permitted(c)')
      BY <2>1, NoSearchInv
    <2> QED BY <1>3, <1>4, <2>1, <2>2 DEF CallerInv
  <1>6. CASE search[c].at # "none"
    <2>1. Searches(c) /\ search[c].user = call[c].user
      BY <1>1, <1>6 DEF CallerInv, Searches
    <2>2. call'[c] = call[c]
      BY <1>2, <2>1 DEF Moved, Searches
    <2>3. /\ Permitted(c) \subseteq Permitted(c)'
          /\ \A S : HasWhatIsAbove(S, c)' => HasWhatIsAbove(S, c)
      BY <2>1, <2>2, StillPermitted DEF Searches
    <2>4. SearchInv(search[c], Users \union {0}, AllTags, Permitted(c)')
      BY <1>1, <2>3, SearchInvGrows DEF CallerInv
    <2>5. \A S \in SUBSET AllTags : HasWhatIsAbove(S, c)' => search[c].tags \subseteq S
      BY <1>1, <1>6, <2>3 DEF CallerInv
    <2> QED BY <1>3, <1>4, <2>1, <2>2, <2>4, <2>5 DEF CallerInv, Searches
  <1> QED BY <1>5, <1>6

\* A search that goes on while its request waits for it.
LEMMA SearchStays ==
  ASSUME SearchersInv, Watch, UNCHANGED <<index, ownerOf, users, parentTag, call>>,
         NEW c \in Callers, Searches(c), search'[c].at # "none",
         SearchInv(search'[c], Users \union {0}, AllTags, Permitted(c)),
         search'[c].user = call[c].user,
         \A S \in SUBSET AllTags : HasWhatIsAbove(S, c) => search'[c].tags \subseteq S
  PROVE  CallerInv(c)'
  <1>1. /\ Permitted(c) \subseteq Permitted(c)'
        /\ \A S : HasWhatIsAbove(S, c)' => HasWhatIsAbove(S, c)
    BY StillPermitted DEF Searches
  <1>2. /\ since[c].held \subseteq since'[c].held
        /\ users'[call'[c].user].orgTags \subseteq since'[c].held
        /\ Links' \subseteq since'[c].links
    BY WatchIs DEF Searches
  <1>3. SearchInv(search'[c], Users \union {0}, AllTags, Permitted(c)')
    BY <1>1, SearchInvGrows
  <1>4. CallerInv(c)
    BY DEF SearchersInv
  <1>5. /\ call'[c].at = "idle" => call'[c] = Idle
        /\ call'[c].op \in SearchOps /\ call'[c].at = "admitted"
        /\ call'[c].row \in UserRow /\ call'[c].row.orgTags \subseteq since'[c].held
    BY <1>2, <1>4 DEF CallerInv, Searches
  <1>6. \A S \in SUBSET AllTags : HasWhatIsAbove(S, c)' => search'[c].tags \subseteq S
    BY <1>1
  <1> QED BY <1>2, <1>3, <1>5, <1>6 DEF CallerInv

\* The recalls of a search return only what its request may be answered with.
LEMMA VisibleIsPermitted ==
  ASSUME SearchersInv, NEW c \in Callers, search[c].at # "none"
  PROVE  /\ Visible(search[c]) \subseteq Permitted(c)
         /\ OwnMemories(search[c]) \subseteq Permitted(c)
  <1>1. /\ search[c].user = call[c].user
        /\ \A S \in SUBSET AllTags : HasWhatIsAbove(S, c) => search[c].tags \subseteq S
    BY DEF SearchersInv, CallerInv
  <1>2. ASSUME NEW x \in Visible(search[c])
        PROVE  x \in Permitted(c)
    <2>1. /\ x \in Chunks /\ x \in Items
          /\ \/ index[x].owner = call[c].user
             \/ index[x].public
             \/ index[x].tag \in search[c].tags
      BY <1>1 DEF Visible, Items
    <2>2. x \notin Memories
      BY <2>1 DEF Chunks, Memories
    <2> QED BY <1>1, <2>1, <2>2 DEF Permitted, MayHaveSeen, HasWhatIsAbove
  <1>3. ASSUME NEW x \in OwnMemories(search[c])
        PROVE  x \in Permitted(c)
    <2>1. x \in Memories /\ x \in Items /\ ownerOf[x] = call[c].user
      BY <1>1 DEF OwnMemories, Items
    <2> QED BY <2>1 DEF Permitted, MayHaveSeen
  <1> QED BY <1>2, <1>3

LEMMA IdleCaller ==
  ASSUME NEW c \in Callers, call'[c] = Idle, search'[c] = NoSearch
  PROVE  CallerInv(c)'
  <1>1. SearchInv(search'[c], Users \union {0}, AllTags, Permitted(c)')
    BY NoSearchInv
  <1>2. NoSearch.at = "none" /\ Idle.op \notin SearchOps
    BY DEF NoSearch, Idle, SearchOps
  <1> QED BY <1>1, <1>2 DEF CallerInv

-----------------------------------------------------------------------------
(* The types that the requests do not need.                                 *)

LEMMA TablesStayTyped ==
  ASSUME AccountsInv, RestTyped, NEW c \in Callers, Continue(c), UNCHANGED search
  PROVE  RestTyped'
  <1>1. call[c] \in CallRecord /\ TablesOK /\ Fits(call[c], users, loggedOut, now)
    BY DEF AccountsInv, CallsFit
  <1>2. ASSUME NEW t \in Token, BlacklistToken(t)
        PROVE  \A entry \in blacklist' : entry.token \in Token /\ entry.until \in Nat
    BY <1>2, ExpiresIsNat DEF BlacklistToken, RestTyped
  <1>3. ASSUME UNCHANGED <<parentTag, blacklist>>
        PROVE  RestTyped'
    BY <1>3 DEF RestTyped
  <1>4. CASE \/ CheckBlacklist(c) \/ VerifyToken(c) \/ LoadUser(c) \/ RefreshToken(c)
             \/ Profile(c) \/ CreateUser(c) \/ SaveUser(c) \/ SetUserPrimaryOrg(c)
             \/ CheckAssignedTags(c)
    BY <1>3, <1>4 DEF CheckBlacklist, VerifyToken, LoadUser, RefreshToken, Profile, CreateUser,
                      SaveUser, SetUserPrimaryOrg, CheckAssignedTags, accountVars, sessionVars
  <1>5. CASE Logout(c)
    <2>1. call[c].at = "admitted" /\ parentTag' = parentTag
      BY <1>5 DEF Logout, Serving, accountVars
    <2>2. call[c].token \in Token
      BY <1>1, <2>1 DEF Fits, TokenSteps
    <2>3. BlacklistToken(call[c].token) \/ blacklist' = blacklist
      BY <1>5 DEF Logout
    <2> QED BY <1>2, <1>3, <2>1, <2>2, <2>3 DEF RestTyped
  <1>6. CASE LogoutRefresh(c)
    <2>1. parentTag' = parentTag /\ (blacklist' = blacklist \/ \E t \in minted : BlacklistToken(t))
      BY <1>6 DEF LogoutRefresh, accountVars
    <2>2. \A t \in minted : t \in Token
      BY <1>1 DEF TablesOK
    <2> QED BY <1>2, <1>3, <2>1, <2>2 DEF RestTyped
  <1>7. CASE CreatePrivateTag(c)
    <2> DEFINE t == PrivateTag(call[c].user)
    <2>1. /\ blacklist' = blacklist
          /\ \/ parentTag' = [parentTag EXCEPT ![t] = IF @ = NoRow THEN NoTag ELSE @]
             \/ parentTag' = parentTag
      BY <1>7 DEF CreatePrivateTag, sessionVars
    <2> HIDE DEF t
    <2>2. parentTag' \in [AllTags -> AllTags \union {NoTag, NoRow}]
      BY <2>1 DEF RestTyped
    <2> QED BY <2>1, <2>2 DEF RestTyped
  <1>8. CASE SaveTag(c)
    <2>1. /\ blacklist' = blacklist
          /\ \/ \E parent \in call[c].asked : parentTag' = [parentTag EXCEPT ![call[c].tag] = parent]
             \/ parentTag' = parentTag
      BY <1>8 DEF SaveTag, sessionVars
    <2>2. call[c].asked \subseteq AllTags \union {NoTag}
      BY <1>1 DEF CallRecord
    <2>3. parentTag' \in [AllTags -> AllTags \union {NoTag, NoRow}]
      BY <2>1, <2>2 DEF RestTyped
    <2> QED BY <2>1, <2>3 DEF RestTyped
  <1> QED BY <1>4, <1>5, <1>6, <1>7, <1>8 DEF Continue

LEMMA AtOnceTyped ==
  ASSUME RestTyped, AtOnce
  PROVE  RestTyped'
  <1>1. search' = search /\ blacklist' = blacklist
    BY DEF AtOnce, retrievalVars, Login, CreateOrganizationTag, DeleteOrganizationTag, sessionVars
  <1>2. \/ parentTag' = parentTag
        \/ \E t \in AllTags, parent \in Tags \union {NoTag} :
             parentTag' = [parentTag EXCEPT ![t] = parent]
        \/ \E t \in Tags : parentTag' = [x \in AllTags |->
             IF x = t THEN NoRow ELSE IF parentTag[x] = t THEN NoTag ELSE parentTag[x]]
    BY DEF AtOnce, Login, CreateOrganizationTag, DeleteOrganizationTag, accountVars
  <1>3. parentTag' \in [AllTags -> AllTags \union {NoTag, NoRow}]
    BY <1>2 DEF RestTyped, AllTags
  <1> QED BY <1>1, <1>3 DEF RestTyped

-----------------------------------------------------------------------------
LEMMA InitSearchersInv ==
  ASSUME Init
  PROVE  SearchersInv
  <1> PICK u, w \in Users, s, t \in Tags :
        /\ InitAccounts(u, w, s)
        /\ \E third : InitRetrieval(u, w, s, t, third)
    BY DEF Init
  <1>1. /\ parentTag = [x \in AllTags |->
                          IF x \in Tags \union {PrivateTag(w)} THEN NoTag ELSE NoRow]
        /\ blacklist = {} /\ call = [c \in Callers |-> Idle]
    BY DEF InitAccounts
  <1>2. search = [c \in Callers |-> NoSearch]
    BY CompositionAssumption DEF InitRetrieval
  <1>3. RestTyped
    BY <1>1, <1>2 DEF RestTyped
  <1>4. ASSUME NEW c \in Callers
        PROVE  CallerInv(c)
    <2>1. call[c] = Idle /\ search[c] = NoSearch
      BY <1>1, <1>2
    <2>2. SearchInv(search[c], Users \union {0}, AllTags, Permitted(c))
      BY <2>1, NoSearchInv
    <2>3. NoSearch.at = "none" /\ Idle.op \notin SearchOps
      BY DEF NoSearch, Idle, SearchOps
    <2> QED BY <2>1, <2>2, <2>3 DEF CallerInv
  <1> QED BY <1>3, <1>4 DEF SearchersInv

\* The search of one request goes on, and the others stand still.
LEMMA OneSearch ==
  ASSUME AccountsInv, SearchersInv, Watch, NEW c \in Callers, CallerInv(c)',
         search' = [search EXCEPT ![c] = search'[c]],
         UNCHANGED <<accountVars, sessionVars, now, index, ownerOf>>,
         \A d \in Callers \ {c} : call'[d] = call[d]
  PROVE  SearchersInv'
  <1>1. DOMAIN search = Callers
    BY DEF SearchersInv, RestTyped
  <1>2. \A d \in Callers \ {c} : search'[d] = search[d]
    <2> DEFINE t == search'[c]
    <2>1. search' = [search EXCEPT ![c] = t]
      OBVIOUS
    <2> HIDE DEF t
    <2> QED BY <1>1, <2>1
  <1>3. \A d \in Callers \ {c} : CallerInv(d)'
    BY <1>2, CallerStays DEF Moved
  <1>4. DOMAIN search' = DOMAIN search
    OBVIOUS
  <1>5. RestTyped'
    BY <1>4 DEF SearchersInv, RestTyped, accountVars, sessionVars
  <1> QED BY <1>3, <1>5 DEF SearchersInv

LEMMA RetrieveKeeps ==
  ASSUME AccountsInv, SearchersInv, Watch, NEW c \in Callers, Retrieve(c)
  PROVE  SearchersInv'
  <1> DEFINE U == Users \union {0}
             A == Permitted(c)
  <1>1. UNCHANGED <<accountVars, sessionVars, now, index, ownerOf, call>>
    BY DEF Retrieve
  <1>2. CallerInv(c) /\ SearchInv(search[c], U, AllTags, A) /\ c \in DOMAIN search /\ RestTyped
    BY DEF SearchersInv, CallerInv, RestTyped
  <1>3. search[c].at # "none"
    <2>1. CASE \E effective : LoadTags(c, effective)
      BY <2>1 DEF LoadTags, At
    <2>2. CASE SearchStep(c)
      <3>1. CASE search[c] = NoSearch
        <4>1. /\ NoSearch.at = "none" /\ ~NoSearch.question
          BY DEF NoSearch
        <4> QED BY <2>2, <3>1, <4>1
            DEF SearchStep, Recall, DegradeToBM25, DegradeToVector, SearchFails, PhraseSearch,
                Answer, NamesFail, NextSearch, Collect, FuseContext, RerankContext, At, Settled
      <3> QED BY <1>2, <3>1 DEF SearchInv
    <2> QED BY <2>1, <2>2 DEF Retrieve
  <1>4. Searches(c) /\ search[c].user = call[c].user
    BY <1>2, <1>3 DEF CallerInv, Searches
  <1>5. Searching(c, U, AllTags, A)
    BY <1>2, <1>3, VisibleIsPermitted DEF Searching, Permitted
  <1>6. \A S \in SUBSET AllTags : HasWhatIsAbove(S, c) => search[c].tags \subseteq S
    BY <1>2, <1>3 DEF CallerInv
  <1> HIDE DEF U, A
  <1>7. /\ search' = [search EXCEPT ![c] = search'[c]]
        /\ SearchInv(search'[c], U, AllTags, A)
        /\ search'[c].at # "none" /\ search'[c].user = search[c].user
        /\ \A S \in SUBSET AllTags : HasWhatIsAbove(S, c) => search'[c].tags \subseteq S
    <2>1. CASE SearchStep(c)
      <3>1. Kept(c, U, AllTags, A)
        BY <1>5, <2>1, SearchStepKeeps
      <3> QED BY <1>6, <3>1 DEF Kept, GoesOn
    <2>2. CASE LoadTags(c, EffectiveOrgTags(call[c].row.orgTags))
      <3> DEFINE held == call[c].row.orgTags
                 effective == EffectiveOrgTags(held)
      <3>1. held \in SUBSET AllTags /\ held \subseteq since[c].held /\ Links \subseteq since[c].links
        BY <1>2, <1>4 DEF CallerInv, Searches, UserRow
      <3> HIDE DEF held
      <3>2. effective \in SUBSET AllTags
        BY <1>2, <3>1, EffectiveTagsAreTags
      <3>3. \A S \in SUBSET AllTags : HasWhatIsAbove(S, c) => effective \subseteq S
        BY <1>2, <3>1, EffectiveTagsAreAbove
      <3>4. LoadTags(c, effective)
        BY <2>2 DEF held
      <3> HIDE DEF effective
      <3>5. /\ search' = [search EXCEPT ![c] = search'[c]]
            /\ SearchInv(search'[c], U, AllTags, A)
            /\ search'[c].at # "none" /\ search'[c].user = search[c].user
            /\ search'[c].tags \in {effective, {}}
        BY <1>5, <3>2, <3>4, LoadTagsKeeps
      <3> QED BY <3>3, <3>5
    <2> QED BY <2>1, <2>2 DEF Retrieve
  <1>8. CallerInv(c)'
    BY <1>1, <1>4, <1>7, SearchStays DEF accountVars, U, A
  <1> QED BY <1>1, <1>7, <1>8, OneSearch

LEMMA BeginSearchKeeps ==
  ASSUME AccountsInv, SearchersInv, Watch, NEW c \in Callers, HybridSearch(c) \/ ChatQuestion(c)
  PROVE  SearchersInv'
  <1> DEFINE U == Users \union {0}
             A == Permitted(c)
  <1>1. /\ UNCHANGED <<accountVars, sessionVars, now, index, ownerOf, call>>
        /\ Searches(c)
    BY DEF HybridSearch, ChatQuestion, Serving, Searches, SearchOps
  <1>2. call[c].user \in U /\ 0 \in U
    BY <1>1 DEF AccountsInv, CallsFit, Fits, TokenSteps, Searches
  <1>3. c \in DOMAIN search
    BY DEF SearchersInv, RestTyped
  <1> HIDE DEF U, A
  <1>4. /\ search' = [search EXCEPT ![c] = search'[c]]
        /\ SearchInv(search'[c], U, AllTags, A)
        /\ search'[c].at # "none" /\ search'[c].user = call[c].user /\ search'[c].tags = {}
    <2>1. CASE HybridSearch(c)
      <3> DEFINE user == call[c].user
      <3>1. user \in U /\ \A n \in {0, 1, NumChunks} : n \in Nat
        BY <1>2, RetrievalAssumption
      <3>2. \E topK \in {0, 1, NumChunks}, rerank \in BOOLEAN :
              StartSearch(c, user, "hybrid", topK, rerank)
        BY <2>1, Zenon DEF HybridSearch
      <3> HIDE DEF user
      <3>3. StartsSearch(c, user)
        BY <3>1, <3>2, Zenon DEF StartsSearch
      <3>4. /\ search' = [search EXCEPT ![c] = search'[c]]
            /\ SearchInv(search'[c], U, AllTags, A)
            /\ search'[c].at # "none" /\ search'[c].user = user /\ search'[c].tags = {}
        BY <1>2, <1>3, <3>1, <3>3, StartSearchInv
      <3> QED BY <3>4 DEF user
    <2>2. CASE ChatQuestion(c)
      <3>1. AskQuestion(c, call[c].user)
        BY <2>2 DEF ChatQuestion
      <3> QED BY <1>2, <1>3, <3>1, AskQuestionInv
    <2> QED BY <2>1, <2>2
  <1>5. CallerInv(c)'
    BY <1>1, <1>4, SearchStays DEF accountVars, U, A
  <1> QED BY <1>1, <1>4, <1>5, OneSearch

LEMMA RespondKeeps ==
  ASSUME AccountsInv, SearchersInv, Watch, NEW c \in Callers, Respond(c)
  PROVE  SearchersInv'
  <1>1. /\ UNCHANGED <<accountVars, sessionVars, now, index, ownerOf>>
        /\ search' = [search EXCEPT ![c] = NoSearch] /\ search[c].at # "none"
        /\ IF call[c].op = "search" THEN Drop(c) ELSE UNCHANGED call
    BY DEF Respond, At, Put
  <1>2. DOMAIN search = Callers /\ CallerInv(c) /\ call \in [Callers -> CallRecord]
    BY DEF SearchersInv, RestTyped, AccountsInv, CallsFit
  <1>3. search'[c] = NoSearch
    BY <1>1, <1>2
  <1>4. \A d \in Callers \ {c} : call'[d] = call[d]
    BY <1>1, <1>2 DEF Drop
  <1>5. CallerInv(c)'
    <2>1. CASE call[c].op = "search"
      <3>1. call'[c] = Idle
        BY <1>1, <1>2, <2>1 DEF Drop
      <3> QED BY <1>3, <3>1, IdleCaller
    <2>2. CASE call[c].op # "search"
      <3>1. call'[c] = call[c] /\ users' = users /\ Links' = Links
        BY <1>1, <2>2 DEF accountVars, Links
      <3>2. call[c].op \in SearchOps /\ call[c].at = "admitted"
        BY <1>1, <1>2 DEF CallerInv
      <3>3. /\ since[c].held \subseteq since'[c].held
            /\ users'[call'[c].user].orgTags \subseteq since'[c].held
            /\ Links' \subseteq since'[c].links
        BY <3>1, <3>2, WatchIs
      <3>4. SearchInv(search'[c], Users \union {0}, AllTags, Permitted(c)')
        BY <1>3, NoSearchInv
      <3>5. search'[c].at = "none"
        BY <1>3 DEF NoSearch
      <3> QED BY <1>2, <3>1, <3>2, <3>3, <3>4, <3>5 DEF CallerInv
    <2> QED BY <2>1, <2>2
  <1> QED BY <1>1, <1>3, <1>4, <1>5, OneSearch

LEMMA CloseSocketKeeps ==
  ASSUME AccountsInv, SearchersInv, Watch, NEW c \in Callers, CloseSocket(c)
  PROVE  SearchersInv'
  <1>1. /\ UNCHANGED <<accountVars, sessionVars, now, index, ownerOf, search>>
        /\ Drop(c) /\ search[c].at = "none"
    BY DEF CloseSocket, At, retrievalVars
  <1>2. CallerInv(c) /\ call \in [Callers -> CallRecord] /\ DOMAIN search = Callers
    BY DEF SearchersInv, RestTyped, AccountsInv, CallsFit
  <1>3. call'[c] = Idle /\ \A d \in Callers \ {c} : call'[d] = call[d]
    BY <1>1, <1>2 DEF Drop
  <1>4. search'[c] = NoSearch
    BY <1>1, <1>2 DEF CallerInv, SearchInv
  <1>5. CallerInv(c)'
    BY <1>3, <1>4, IdleCaller
  <1>6. \A d \in Callers \ {c} : CallerInv(d)'
    BY <1>1, <1>3, CallerStays DEF Moved
  <1>7. RestTyped'
    BY <1>1 DEF SearchersInv, RestTyped, accountVars, sessionVars
  <1> QED BY <1>5, <1>6, <1>7 DEF SearchersInv

LEMMA SearchersStay ==
  ASSUME AccountsInv, SearchersInv, Watch, UNCHANGED retrievalVars, RestTyped',
         \A d \in Callers : Moved(d)
  PROVE  SearchersInv'
  BY CallerStays DEF SearchersInv, retrievalVars

LEMMA NextSearchers ==
  ASSUME AccountsInv, SearchersInv, Next
  PROVE  SearchersInv'
  <1>1. Watch /\ CallsFit /\ RestTyped
    BY DEF Next, AccountsInv, SearchersInv
  <1>2. ASSUME NEW c \in Callers, Request(c) \/ Administer(c)
        PROVE  SearchersInv'
    <2>1. \A d \in Callers : Moved(d)
      BY <1>1, <1>2, ArrivalMoves
    <2>2. UNCHANGED <<parentTag, blacklist>> /\ UNCHANGED retrievalVars
      BY <1>2 DEF Request, Administer, Arrive, Register, AssignOrgTagsToUser,
                  UpdateOrganizationTag, accountVars, sessionVars
    <2>3. RestTyped'
      BY <1>1, <2>2 DEF RestTyped, retrievalVars
    <2> QED BY <1>1, <2>1, <2>2, <2>3, SearchersStay
  <1>3. ASSUME NEW c \in Callers, Handle(c)
        PROVE  SearchersInv'
    <2>1. Continue(c) /\ UNCHANGED retrievalVars /\ CallerInv(c)
      BY <1>3 DEF Handle, SearchersInv
    <2>2. \A d \in Callers : Moved(d)
      BY <1>1, <2>1, ContinueMoves
    <2>3. RestTyped'
      BY <1>1, <2>1, TablesStayTyped DEF retrievalVars
    <2> QED BY <1>1, <2>1, <2>2, <2>3, SearchersStay
  <1>4. CASE AtOnce
    <2>1. call' = call /\ UNCHANGED retrievalVars
      BY <1>4 DEF AtOnce, Login, CreateOrganizationTag, DeleteOrganizationTag
    <2>2. RestTyped'
      BY <1>1, <1>4, AtOnceTyped
    <2> QED BY <1>1, <2>1, <2>2, SearchersStay DEF Moved
  <1>5. CASE Second /\ UNCHANGED <<retrievalVars, left>>
    <2>1. /\ call' = call /\ UNCHANGED retrievalVars /\ parentTag' = parentTag
          /\ blacklist' \subseteq blacklist
      BY <1>5 DEF Second, accountVars
    <2>2. RestTyped'
      BY <1>1, <2>1 DEF RestTyped, retrievalVars
    <2> QED BY <1>1, <2>1, <2>2, SearchersStay DEF Moved
  <1> QED BY <1>1, <1>2, <1>3, <1>4, <1>5, BeginSearchKeeps, RetrieveKeeps, RespondKeeps,
             CloseSocketKeeps DEF Next

LEMMA StutteringSearchers ==
  ASSUME SearchersInv, UNCHANGED vars
  PROVE  SearchersInv'
  <1>1. \A c \in Callers : Permitted(c)' = Permitted(c)
    BY DEF vars, Permitted, MayHaveSeen, Closed
  <1>2. \A c \in Callers : \A S : HasWhatIsAbove(S, c)' <=> HasWhatIsAbove(S, c)
    BY DEF vars, HasWhatIsAbove, Closed
  <1>3. Links' = Links
    BY DEF vars, Links
  <1>4. \A c \in Callers : CallerInv(c)'
    BY <1>1, <1>2, <1>3 DEF vars, SearchersInv, CallerInv
  <1> QED BY <1>4 DEF vars, SearchersInv, RestTyped

\* Where every request and its search stand, with what the search has and the tables
\* that it has been read from.
THEOREM SearchersInvariant == Spec => [](AccountsInv /\ SearchersInv)
  <1>1. Init => AccountsInv /\ SearchersInv
    BY InitAccountsInv, InitSearchersInv
  <1>2. AccountsInv /\ SearchersInv /\ [Next]_vars => (AccountsInv /\ SearchersInv)'
    <2>1. CASE Next
      BY <2>1, NextAccounts, NextSearchers
    <2>2. CASE UNCHANGED vars
      <3>1. AccountsInv => AccountsInv'
        BY <2>2, ElsewherePreserves DEF vars, accountVars, sessionVars
      <3> QED BY <2>2, <3>1, StutteringSearchers
    <2> QED BY <2>1, <2>2
  <1> QED BY <1>1, <1>2, PTL DEF Spec

\* The tables, the requests and the searches keep their types.
THEOREM AuthorizedSearchIsTyped == Spec => []TypeOK
  <1>1. AccountsInv /\ SearchersInv => TypeOK
    <2> SUFFICES ASSUME AccountsInv, SearchersInv
                 PROVE  TypeOK
      OBVIOUS
    <2>1. AccountsTypeOK
      <3>1. \A c \in Callers : /\ call[c] \in CallRecord /\ (call[c].at = "idle" => call[c] = Idle)
                               /\ Idle.at = "idle"
        BY DEF AccountsInv, CallsFit, SearchersInv, CallerInv, Idle
      <3>2. \A c \in Callers : /\ call[c].user \in Users \union {NoRow}
                               /\ call[c].row \in UserRow \union {NoRow}
                               /\ call[c].at = "idle" <=> call[c] = Idle
        BY <3>1 DEF CallRecord
      <3> QED BY <3>2 DEF AccountsTypeOK, AccountsInv, TablesOK, SearchersInv, RestTyped
    <2>2. RetrievalTypeOK
      <3> SUFFICES ASSUME NEW r \in Callers
                   PROVE  /\ search[r].at \in Stages
                          /\ {search[r].asked, search[r].mode} \subseteq Modes
                          /\ Elements(search[r].fused) \union Elements(search[r].answer)
                               \union search[r].pool \subseteq Items
                          /\ Recalled(search[r]) \subseteq Chunks
        BY CompositionAssumption DEF RetrievalTypeOK, Stages
      <3> DEFINE A == Permitted(r)
                 s == search[r]
      <3>1. s \in SearchRecord(Users \union {0}, AllTags, A) /\ A \subseteq Items
        BY DEF SearchersInv, CallerInv, SearchInv, Permitted
      <3> HIDE DEF A, s
      <3>2. /\ s.at \in Stages /\ s.asked \in Modes /\ s.mode \in Modes /\ s.pool \subseteq A
            /\ s.fused \in Lists(A) /\ s.answer \in Lists(A)
            /\ s.bm25.hits \in Lists(Chunks \cap A) /\ s.vector.hits \in Lists(Chunks \cap A)
            /\ s.phrase \in Lists(Chunks \cap A)
        BY <3>1 DEF SearchRecord, Outcomes
      <3>3. \A S : \A l \in Lists(S) : Elements(l) \subseteq S
        BY ListFacts
      <3> QED BY <3>1, <3>2, <3>3 DEF s, Recalled
    <2> QED BY <2>1, <2>2 DEF TypeOK
  <1> QED BY <1>1, SearchersInvariant, PTL

\* A search or a question is answered only with what is public, the caller's own, or
\* under a tag above one that the caller has held since the request arrived.
THEOREM AnswerStaysPermitted == Spec => []AnswerIsPermitted
  <1>1. SearchersInv => AnswerIsPermitted
    <2> SUFFICES ASSUME SearchersInv, NEW c \in Callers, NEW item \in Elements(search[c].answer)
                 PROVE  MayHaveSeen(c, item)
      BY DEF AnswerIsPermitted
    <2>1. search[c].answer \in Lists(Permitted(c))
      BY DEF SearchersInv, CallerInv, SearchInv, SearchRecord
    <2>2. Elements(search[c].answer) \subseteq Permitted(c)
      BY <2>1, ListFacts
    <2> QED BY <2>2 DEF Permitted
  <1> QED BY <1>1, SearchersInvariant, PTL

\* Fusion keeps all that the recalls returned, in an order they agree with, and the answer
\* has as much of it as it may, each item once, whatever the reranker does.
THEOREM AnswerStaysRanked == Spec => []AnswerIsRanked
  <1>1. SearchersInv => AnswerIsRanked
    BY DEF SearchersInv, CallerInv, SearchInv, AnswerIsRanked
  <1> QED BY <1>1, SearchersInvariant, PTL
=============================================================================
