-------------------------- MODULE AuthorizedSearch --------------------------
(***************************************************************************)
(* Requests that search: an HTTP search is authenticated, and answered from *)
(* what its user may see; a chat socket is authenticated once, and its       *)
(* questions are answered with the user's row of that moment.  Meanwhile     *)
(* administrators reassign users and tags, and users log in and out.  This   *)
(* module composes Accounts and Retrieval.                                  *)
(***************************************************************************)
EXTENDS Accounts, Retrieval, TLC

ASSUME CompositionAssumption == /\ Callers = Searchers
                                /\ NumChunks >= 3 /\ NumMemories >= 2
                                /\ Cardinality(Users) >= 2 /\ Cardinality(Tags) >= 2

VARIABLES left,  \* bound: left[op] is how many calls of a kind may still begin
          since  \* not of the program: since[c] is what has been in the tables since
                 \* request c arrived

vars == <<users, parentTag, minted, blacklist, now, call, loggedOut,
          index, ownerOf, search, left, since>>

retrievalVars == <<index, ownerOf, search>>

Ops == {"login", "logout", "refresh", "profile", "search", "ask", "question",
        "register", "primary", "assign", "create", "update", "delete"}

Spend(op) == left[op] > 0 /\ left' = [left EXCEPT ![op] = @ - 1]

-----------------------------------------------------------------------------
(* Six beginnings share the calls between them.  u and w are two users, s   *)
(* and t two tags; w has a chunk under each, and the third chunk is public,  *)
(* u's own or w's own.                                                      *)

Holding(S, p) == [orgTags |-> S, primary |-> p]

AccessToken(u)  == [user |-> u, kind |-> "access", iat |-> 0]
RefreshTokenOf(u) == [user |-> u, kind |-> "refresh", iat |-> 0]

InitAccounts(u, w, s) ==
  /\ users = [x \in Users |-> CASE x = u -> Holding({s}, s)
                                [] x = w -> Holding({PrivateTag(w)}, PrivateTag(w))
                                [] OTHER -> NoRow]
  /\ parentTag = [x \in AllTags |-> IF x \in Tags \union {PrivateTag(w)} THEN NoTag ELSE NoRow]
  /\ minted = {AccessToken(u), RefreshTokenOf(u)}
  /\ blacklist = {} /\ now = 0 /\ loggedOut = {}
  /\ call = [c \in Callers |-> Idle]

InitRetrieval(u, w, s, t, third) ==
  /\ index = [c \in Chunks |->
       CASE c[2] = 1 -> [owner |-> w, tag |-> s, public |-> FALSE]
         [] c[2] = 2 -> [owner |-> w, tag |-> t, public |-> FALSE]
         [] OTHER    -> third]
  /\ ownerOf = [m \in Memories |-> IF m[2] = 1 THEN w ELSE u]
  /\ search = [c \in Searchers |-> NoSearch]

Only(budget) == left = [op \in Ops |-> IF op \in DOMAIN budget THEN budget[op] ELSE 0]

\* Sessions: tokens are issued, used, refreshed and revoked as time passes.
InitSessions == Only([login |-> 1, logout |-> 2, refresh |-> 1, profile |-> 1])

\* Memberships: administrators and the user change its row, and a tag goes.
InitMemberships == Only([assign |-> 2, primary |-> 1, delete |-> 1])

\* Registrations, and the administration of users and tags that are new.
InitRegistrations == Only([register |-> 2, assign |-> 1, create |-> 1])

\* A search, while an administrator moves a tag and deletes one; the caller may see up to
\* three chunks.
InitSearching == Only([search |-> 1, update |-> 1, delete |-> 1])

\* A search, while an administrator moves the user and a tag; up to two.
InitReassigning == Only([search |-> 1, assign |-> 1, update |-> 1])

\* A socket with a question, while an administrator moves the user.
InitAsking == Only([ask |-> 1, question |-> 2, assign |-> 1])

Init ==
  \E u, w \in Users, s, t \in Tags :
    LET Chunk(x, public) == [owner |-> x, tag |-> PrivateTag(x), public |-> public]
    IN /\ u # w /\ s # t
       /\ InitAccounts(u, w, s)
       /\ since = [c \in Callers |-> [held |-> {}, links |-> {}]]
       /\ \/ /\ InitSearching
             /\ InitRetrieval(u, w, s, t, Chunk(w, TRUE))
          \/ /\ InitReassigning
             /\ InitRetrieval(u, w, s, t, Chunk(w, FALSE))
          \/ /\ InitSessions \/ InitMemberships \/ InitRegistrations \/ InitAsking
             /\ InitRetrieval(u, w, s, t, Chunk(u, FALSE))

\* The users, tags and requests are interchangeable.
Symmetry == Permutations(Users) \union Permutations(Tags) \union Permutations(Callers)

-----------------------------------------------------------------------------
Request(c) ==
  /\ \E op \in {"logout", "refresh", "profile", "search", "ask", "primary"}, t \in minted :
       Spend(op) /\ Arrive(c, op, t)
  /\ UNCHANGED retrievalVars

\* A search that has its tags reads none of the tables of Accounts any more, so what
\* happens there before it ends might as well happen after: only that is explored.
NoneUnderWay == \A r \in Searchers : search[r].at \in {"none", "tags", "next"}

Administer(c) ==
  /\ NoneUnderWay
  /\ \/ \E u \in Users : Spend("register") /\ Register(c, u)
     \/ \E u \in Users, asked \in SUBSET Tags : \E first \in asked :
          Spend("assign") /\ AssignOrgTagsToUser(c, u, asked, first)
     \/ \E t \in Tags, parent \in Tags \union {NoTag} :
          Spend("update") /\ UpdateOrganizationTag(c, t, parent)
  /\ UNCHANGED retrievalVars

AtOnce ==
  /\ NoneUnderWay
  /\ \/ \E u \in Users : Spend("login") /\ Login(u)
     \/ \E t \in AllTags, parent \in Tags \union {NoTag} :
          Spend("create") /\ CreateOrganizationTag(t, parent)
     \/ \E t \in Tags : Spend("delete") /\ DeleteOrganizationTag(t)
  /\ UNCHANGED retrievalVars

Handle(c) == NoneUnderWay /\ Continue(c) /\ UNCHANGED <<retrievalVars, left>>

\* The handler of /search always searches in hybrid mode.
HybridSearch(c) ==
  /\ Serving(c, "search", "admitted")
  /\ \E topK \in {0, 1, NumChunks}, rerank \in BOOLEAN :
       StartSearch(c, call[c].user, "hybrid", topK, rerank)
  /\ UNCHANGED <<accountVars, sessionVars, now, call, index, ownerOf, left>>

\* The socket keeps the row it was opened with, and the orchestrator is sent it.
ChatQuestion(c) ==
  /\ Serving(c, "ask", "admitted")
  /\ Spend("question")
  /\ AskQuestion(c, call[c].user)
  /\ UNCHANGED <<accountVars, sessionVars, now, call, index, ownerOf>>

Retrieve(c) ==
  /\ \/ LoadTags(c, EffectiveOrgTags(call[c].row.orgTags))
     \/ SearchStep(c)
  /\ UNCHANGED <<accountVars, sessionVars, now, call, index, ownerOf, left>>

\* The answer is sent; a socket goes on to the next question.
Respond(c) ==
  /\ At(c, "answered") \/ At(c, "failed")
  /\ search[c].question => search[c].topK = 0
  /\ Put(c, NoSearch)
  /\ IF call[c].op = "search" THEN Drop(c) ELSE UNCHANGED call
  /\ UNCHANGED <<accountVars, sessionVars, now, index, ownerOf, left>>

CloseSocket(c) ==
  /\ Serving(c, "ask", "admitted") /\ At(c, "none")
  /\ Drop(c)
  /\ UNCHANGED <<accountVars, sessionVars, now, retrievalVars, left>>

\* What has been in the tables while a searching request is served.
Links == {<<t, parentTag[t]>> : t \in {t \in AllTags : parentTag[t] \notin {NoTag, NoRow}}}

Watch ==
  since' = [c \in Callers |->
    IF call'[c].op \notin {"search", "ask"} THEN [held |-> {}, links |-> {}]
    ELSE [held  |-> since[c].held \union users'[call'[c].user].orgTags,
          links |-> since[c].links \union Links']]

Next ==
  /\ \/ \E c \in Callers : \/ Request(c) \/ Administer(c) \/ Handle(c)
                           \/ HybridSearch(c) \/ ChatQuestion(c)
                           \/ Retrieve(c) \/ Respond(c) \/ CloseSocket(c)
     \/ AtOnce
     \/ Second /\ UNCHANGED <<retrievalVars, left>>
  /\ Watch

Spec == Init /\ [][Next]_vars

-----------------------------------------------------------------------------
(* Properties.                                                              *)

TypeOK == AccountsTypeOK /\ RetrievalTypeOK

\* A user's primary organisation is one of its tags, however registrations, assignments
\* and choices of it interleave: each may undo another, but they save whole rows, and
\* never half of one decision and half of the other.
PrimaryOrgIsHeld ==
  \A u \in Users : users[u] # NoRow =>
    IF users[u].orgTags = {} THEN users[u].primary = NoTag
    ELSE users[u].primary \in users[u].orgTags

\* A token that a logout has revoked serves no request that arrives afterwards, up to
\* and beyond the second in which Redis forgets it, and gives no new tokens.
RevokedTokenIsRefused ==
  \A c \in Callers : call[c].at \in {"verified", "admitted", "revoking"} => ~call[c].revoked

\* Tags are looked up along links: what lies above a set is in all sets closed under them.
Closed(S, links) == \A link \in links : link[1] \in S => link[2] \in S

MayHaveSeen(c, item) ==
  IF item \in Memories THEN ownerOf[item] = call[c].user
  ELSE \/ index[item].public
       \/ index[item].owner = call[c].user
       \/ \A S \in SUBSET AllTags :
            since[c].held \subseteq S /\ Closed(S, since[c].links) => index[item].tag \in S

\* What a search or a question is answered with is public, or the caller's own, or under
\* a tag that lies above one the caller has held since the request arrived, by links
\* that were in the table since then: by every recall, degraded or not, and through
\* fusion and reranking.  (For a socket the request is the connection.)
AnswerIsPermitted ==
  \A c \in Callers : \A item \in Elements(search[c].answer) : MayHaveSeen(c, item)

\* Nothing is lost or said twice between recall and answer, whatever fails: the hits of
\* all recalls that did not fail are fused in an order they agree with; a search returns
\* as many of them as it may, also when the reranker times out, repeats itself or names
\* documents that do not exist; a question that something was found for is not answered
\* without it.
AnswerIsRanked == \A c \in Callers : RanksWhatItRecalled(search[c])

=============================================================================
