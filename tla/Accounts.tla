------------------------------ MODULE Accounts ------------------------------
(***************************************************************************)
(* Users, organisation tags and tokens.  A handler reads rows of MySQL,     *)
(* works on its copy and saves whole rows; tokens are signed and live until *)
(* they expire, and those that were logged out are kept in a blacklist in   *)
(* Redis for as long.  Handlers interleave at every read and write.         *)
(***************************************************************************)
EXTENDS Integers, FiniteSets

CONSTANTS Users,        \* the user names; a user and its row are never deleted
          Tags,         \* the tags an administrator makes
          NoTag, NoRow, \* no tag, no row
          Callers,      \* the requests that are served at one time
          AccessLife,   \* seconds an access token lives
          RefreshLife,  \* seconds a refresh token lives
          MaxTime       \* bound: the seconds that pass

ASSUME AccountsAssumption == /\ {AccessLife, RefreshLife} \subseteq Nat \ {0}
                             /\ MaxTime \in Nat
                             /\ IsFiniteSet(Users) /\ IsFiniteSet(Tags)

VARIABLES users,     \* users[u]: the row of the table users
          parentTag, \* parentTag[t]: the parent of t in organization_tags
          minted,    \* the tokens that have been issued
          blacklist, \* the revoked tokens, each with its expiry in Redis
          now,       \* the time in seconds
          call,      \* call[c]: where request c stands
          loggedOut  \* not of the program: the tokens a logout has revoked

accountVars == <<users, parentTag>>
sessionVars == <<minted, blacklist, loggedOut>>

\* The tag that registration makes for a user.
PrivateTag(u) == <<"PRIVATE", u>>

AllTags == Tags \union {PrivateTag(u) : u \in Users}

UserRow == [orgTags : SUBSET AllTags, primary : AllTags \union {NoTag}]

ASSUME RowAssumption == NoRow \notin UserRow

\* A signed token is a function of its claims: two of the same kind that a user gets
\* within one second are the same string.
Token == [user : Users, kind : {"access", "refresh"}, iat : 0 .. MaxTime]

NoToken == [user |-> NoRow, kind |-> "none", iat |-> 0]

Expires(t) == t.iat + (IF t.kind = "access" THEN AccessLife ELSE RefreshLife)

\* row is the handler's copy of a user's row, tag and asked its arguments.  Not of the
\* program: revoked, whether the token was logged out before the request arrived.
Idle == [op |-> "none", at |-> "idle", token |-> NoToken, user |-> NoRow, row |-> NoRow,
         tag |-> NoTag, asked |-> {}, revoked |-> FALSE]

\* Handlers share nothing but the tables.
Step(c, at) == call' = [call EXCEPT ![c].at = at]

\* A fault: what one request has read is still there for the next.
DropKeepingRow(c) == call' = [call EXCEPT ![c].at = "idle"]

\* A handler returns.
Drop(c) == call' = [call EXCEPT ![c] = Idle]

Begin(c, request) == /\ call[c] = Idle
                     /\ call' = [call EXCEPT ![c] = request]
Serving(c, op, at) == call[c].op = op /\ call[c].at = at

-----------------------------------------------------------------------------
(* Tokens.  AuthMiddleware and the socket's handler look at the blacklist,  *)
(* then at the token, then load the user; refreshToken does the first two.  *)

\* A request with any token that was ever issued.
Arrive(c, op, t) ==
  /\ t \in minted
  /\ Begin(c, [Idle EXCEPT !.op = op, !.at = "arrived", !.token = t, !.user = t.user,
                           !.revoked = t \in loggedOut])
  /\ UNCHANGED <<accountVars, sessionVars, now>>

Blacklisted(t) == \E entry \in blacklist : entry.token = t /\ now < entry.until

\* Redis may fail; the request is then refused as well.
CheckBlacklist(c) ==
  /\ call[c].at = "arrived"
  /\ \/ ~Blacklisted(call[c].token) /\ Step(c, "listed")
     \/ Drop(c)
  /\ UNCHANGED <<accountVars, sessionVars, now>>

Valid(t) == now < Expires(t)

VerifyToken(c) ==
  /\ call[c].at = "listed"
  /\ IF /\ Valid(call[c].token)
        /\ call[c].token.kind = (IF call[c].op = "refresh" THEN "refresh" ELSE "access")
     THEN Step(c, "verified")
     ELSE Drop(c)
  /\ UNCHANGED <<accountVars, sessionVars, now>>

\* The claims are not trusted for the user's tags: the row is read for every request.
LoadUser(c) ==
  /\ call[c].at = "verified" /\ call[c].op # "refresh"
  /\ call' = [call EXCEPT ![c].at = "admitted", ![c].row = users[call[c].user]]
  /\ UNCHANGED <<accountVars, sessionVars, now>>

Issue(u) == minted' = minted \union {[user |-> u, kind |-> k, iat |-> now] :
                                     k \in {"access", "refresh"}}

Login(u) ==
  /\ users[u] # NoRow
  /\ Issue(u)
  /\ UNCHANGED <<accountVars, blacklist, loggedOut, now, call>>

\* The refresh token stays valid: it can be used again.
RefreshToken(c) ==
  /\ Serving(c, "refresh", "verified")
  /\ Issue(call[c].user)
  /\ Drop(c)
  /\ UNCHANGED <<accountVars, blacklist, loggedOut, now>>

\* A fault: an entry is kept for the shortest time Redis knows.
BlacklistForASecond(t) == blacklist' = blacklist \union {[token |-> t, until |-> now + 1]}

\* The entry lives as long as the token does; VerifyToken has just accepted it.
BlacklistToken(t) == blacklist' = blacklist \union {[token |-> t, until |-> Expires(t)]}

\* Logout revokes the access token it came with, or fails.
Logout(c) ==
  /\ Serving(c, "logout", "admitted")
  /\ \/ /\ Valid(call[c].token)
        /\ BlacklistToken(call[c].token)
        /\ loggedOut' = loggedOut \union {call[c].token}
        /\ Step(c, "revoking")
     \/ /\ Drop(c)
        /\ UNCHANGED <<blacklist, loggedOut>>
  /\ UNCHANGED <<accountVars, minted, now>>

\* Then the refresh token, if the client sends one.  A failure is only logged.
LogoutRefresh(c) ==
  /\ Serving(c, "logout", "revoking")
  /\ \/ \E t \in minted : /\ t.kind = "refresh" /\ t.user = call[c].user /\ Valid(t)
                          /\ BlacklistToken(t)
                          /\ loggedOut' = loggedOut \union {t}
     \/ UNCHANGED <<blacklist, loggedOut>>
  /\ Drop(c)
  /\ UNCHANGED <<accountVars, minted, now>>

\* Any other handler that only answers from the row it was given.
Profile(c) ==
  /\ Serving(c, "profile", "admitted")
  /\ Drop(c)
  /\ UNCHANGED <<accountVars, sessionVars, now>>

\* A second passes; Redis forgets the entries that have run out.
Second ==
  /\ now < MaxTime
  /\ now' = now + 1
  /\ blacklist' = {entry \in blacklist : now' < entry.until}
  /\ UNCHANGED <<accountVars, minted, loggedOut, call>>

-----------------------------------------------------------------------------
(* Users.                                                                   *)

\* The name is taken from here on, whatever becomes of the rest.
Register(c, u) ==
  /\ users[u] = NoRow
  /\ Begin(c, [Idle EXCEPT !.op = "register", !.at = "create", !.user = u])
  /\ UNCHANGED <<accountVars, sessionVars, now>>

\* The names are unique: of two registrations the second fails here.
CreateUser(c) ==
  /\ Serving(c, "register", "create")
  /\ IF users[call[c].user] = NoRow
     THEN /\ users' = [users EXCEPT ![call[c].user] = [orgTags |-> {}, primary |-> NoTag]]
          /\ Step(c, "tag")
     ELSE Drop(c) /\ UNCHANGED users
  /\ UNCHANGED <<parentTag, sessionVars, now>>

\* Any failure leaves a user without tags; nothing rolls the row back.
CreatePrivateTag(c) ==
  /\ Serving(c, "register", "tag")
  /\ LET t == PrivateTag(call[c].user) IN
     \/ /\ parentTag' = [parentTag EXCEPT ![t] = IF @ = NoRow THEN NoTag ELSE @]
        /\ call' = [call EXCEPT ![c].at = "save", ![c].row = [orgTags |-> {t}, primary |-> t]]
     \/ Drop(c) /\ UNCHANGED parentTag
  /\ UNCHANGED <<users, sessionVars, now>>

\* A whole-row UPDATE of what the handler has in its hands, or a failure.
SaveUser(c) ==
  /\ call[c].at = "save"
  /\ users' \in {users, [users EXCEPT ![call[c].user] = call[c].row]}
  /\ Drop(c)
  /\ UNCHANGED <<parentTag, sessionVars, now>>

\* A fault: SetUserPrimaryOrg checks the row it is given and updates the one column.
SetUserPrimaryOrgColumn(c) ==
  /\ Serving(c, "primary", "admitted")
  /\ \E t \in call[c].row.orgTags :
       users' = [users EXCEPT ![call[c].user].primary = t]
  /\ Drop(c)
  /\ UNCHANGED <<parentTag, sessionVars, now>>

\* The row is read again; a tag it does not hold is refused.
SetUserPrimaryOrg(c) ==
  /\ Serving(c, "primary", "admitted")
  /\ \/ \E t \in users[call[c].user].orgTags :
          call' = [call EXCEPT ![c].at = "save",
                               ![c].row = [users[call[c].user] EXCEPT !.primary = t]]
     \/ Drop(c)
  /\ UNCHANGED <<accountVars, sessionVars, now>>

\* An administrator gives u the tags in asked, the first of which is tag.
AssignOrgTagsToUser(c, u, asked, first) ==
  /\ users[u] # NoRow
  /\ first \in asked
  /\ Begin(c, [Idle EXCEPT !.op = "assign", !.at = "check", !.user = u, !.row = users[u],
                           !.asked = asked, !.tag = first])
  /\ UNCHANGED <<accountVars, sessionVars, now>>

\* Every tag must exist; a primary organisation that is no longer held is replaced.
CheckAssignedTags(c) ==
  /\ Serving(c, "assign", "check")
  /\ LET asked == call[c].asked
         row   == call[c].row
     IN IF \E t \in asked : parentTag[t] = NoRow THEN Drop(c)
        ELSE call' = [call EXCEPT ![c].at = "save", ![c].row =
               [orgTags |-> asked,
                primary |-> IF row.primary \in asked THEN row.primary ELSE call[c].tag]]
  /\ UNCHANGED <<accountVars, sessionVars, now>>

-----------------------------------------------------------------------------
(* Organisation tags.  The handlers do not look the parent up, MySQL does    *)
(* by its foreign key; it may be the tag itself or one of its descendants.  *)

MayBeUnder(t) == {NoTag, t} \union {x \in AllTags : parentTag[x] # NoRow}

CreateOrganizationTag(t, parent) ==
  /\ parentTag[t] = NoRow
  /\ parent \in MayBeUnder(t)
  /\ parentTag' = [parentTag EXCEPT ![t] = parent]
  /\ UNCHANGED <<users, sessionVars, now, call>>

UpdateOrganizationTag(c, t, parent) ==
  /\ parentTag[t] # NoRow
  /\ Begin(c, [Idle EXCEPT !.op = "update", !.at = "saveTag", !.tag = t, !.asked = {parent}])
  /\ UNCHANGED <<accountVars, sessionVars, now>>

\* The row is saved whole, and inserted when it has been deleted in the meantime; a
\* parent that is gone is refused.
SaveTag(c) ==
  /\ Serving(c, "update", "saveTag")
  /\ LET t == call[c].tag IN
     \E parent \in call[c].asked :
       parentTag' = IF parent \in MayBeUnder(t) THEN [parentTag EXCEPT ![t] = parent] ELSE parentTag
  /\ Drop(c)
  /\ UNCHANGED <<users, sessionVars, now>>

\* Users keep the id of a deleted tag; its children come to the top (ON DELETE SET NULL).
DeleteOrganizationTag(t) ==
  /\ parentTag[t] # NoRow
  /\ parentTag' = [x \in AllTags |-> IF x = t THEN NoRow
                                    ELSE IF parentTag[x] = t THEN NoTag ELSE parentTag[x]]
  /\ UNCHANGED <<users, sessionVars, now, call>>

\* GetUserEffectiveOrgTags: a user's tags and all the tags above them.  The search is
\* breadth first; Above[n] is what it has met after n levels.
EffectiveOrgTags(orgTags) ==
  LET Parents(S) == {parentTag[t] : t \in S} \ {NoTag, NoRow}
      Above[n \in 0 .. Cardinality(AllTags)] ==
        IF n = 0 THEN orgTags ELSE Above[n - 1] \union Parents(Above[n - 1])
  IN Above[Cardinality(AllTags)]

-----------------------------------------------------------------------------
AccountsTypeOK ==
  /\ users \in [Users -> UserRow \union {NoRow}]
  /\ parentTag \in [AllTags -> AllTags \union {NoTag, NoRow}]
  /\ minted \subseteq Token /\ loggedOut \subseteq Token
  /\ \A entry \in blacklist : entry.token \in Token /\ entry.until \in Nat
  /\ now \in 0 .. MaxTime
  /\ \A c \in Callers : /\ call[c].user \in Users \union {NoRow}
                        /\ call[c].row \in UserRow \union {NoRow}
                        /\ call[c].at = "idle" <=> call[c] = Idle

\* Accounts handlers that run on after their first step.
Continue(c) ==
  \/ CheckBlacklist(c) \/ VerifyToken(c) \/ LoadUser(c)
  \/ RefreshToken(c) \/ Logout(c) \/ LogoutRefresh(c) \/ Profile(c)
  \/ CreateUser(c) \/ CreatePrivateTag(c) \/ SaveUser(c)
  \/ SetUserPrimaryOrg(c) \/ CheckAssignedTags(c) \/ SaveTag(c)

=============================================================================
