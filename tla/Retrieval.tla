------------------------------ MODULE Retrieval ------------------------------
(***************************************************************************)
(* One search of the knowledge base, and the retrieval for one question of  *)
(* the assistant, which makes up to two searches, looks up the user's long- *)
(* term memories, fuses what they return and reranks it.  Elasticsearch, the *)
(* embedding and the reranker are external: they return any ranking of what  *)
(* the filter lets through, fail, or (the reranker) return indexes that make *)
(* no sense.                                                                *)
(***************************************************************************)
EXTENDS Integers, Sequences, FiniteSets

CONSTANTS Searchers,     \* the requests that may be searching at one time
          NumChunks,     \* the chunks of the knowledge index, numbered in key order
          NumMemories,   \* the long-term memories, numbered in the order of their age
          TopN,          \* bm25_top_n and vector_top_n
          RerankTopN, FinalTopK, ContextTopK, LongTermTopK,
          RRFK,          \* the k of reciprocal rank fusion
          RankUnit,      \* a multiple of RRFK + i for every rank i: scores are integers
          PhraseFloor, PhraseCeiling  \* 5 and 20 in the code

ASSUME RetrievalAssumption ==
  /\ {NumChunks, NumMemories} \subseteq Nat
  /\ {TopN, RerankTopN, FinalTopK, ContextTopK, LongTermTopK, RRFK, RankUnit,
      PhraseFloor} \subseteq Nat \ {0}
  /\ PhraseCeiling >= PhraseFloor
  /\ \A i \in 1 .. NumChunks + NumMemories : RankUnit % (RRFK + i) = 0

Chunks   == {<<"knowledge", n>> : n \in 1 .. NumChunks}
Memories == {<<"memory", n>> : n \in 1 .. NumMemories}
Items    == Chunks \union Memories

VARIABLES index,   \* index[c]: owner, tag and visibility of chunk c
          ownerOf, \* ownerOf[m]: the user of memory m
          search   \* search[r]: where the retrieval of request r stands

Smaller(a, b) == IF a < b THEN a ELSE b
Larger(a, b)  == IF a > b THEN a ELSE b
Elements(s)   == {s[i] : i \in DOMAIN s}
Prefix(s, n)  == SubSeq(s, 1, Smaller(n, Len(s)))

\* The elements of S in the order `before`, a set of pairs, which must be total.
Ranked(S, before) ==
  [i \in 1 .. Cardinality(S) |->
     CHOOSE x \in S : Cardinality({y \in S : <<y, x>> \in before}) = i - 1]

\* The rankings of at most n elements of S, without repetition.
Rankings(S, n) ==
  UNION {{s \in [1 .. k -> S] : \A i, j \in 1 .. k : i # j => s[i] # s[j]} :
           k \in 0 .. Smaller(n, Cardinality(S))}

\* The outcomes of one recall, over what the filter lets through.
NotAsked == [ok |-> TRUE, hits |-> <<>>]
Failed   == [ok |-> FALSE, hits |-> <<>>]
Recalls(S, n) == {[ok |-> TRUE, hits |-> s] : s \in Rankings(S, n)} \union {Failed}

\* asked is the mode of the request, mode the one it is degraded to; plan the modes
\* that remain to be searched for a question, groups what the earlier ones returned.
\* Not of the program: pool is what all recalls have returned.
NoSearch == [at |-> "none", asked |-> "hybrid", mode |-> "hybrid", user |-> 0, topK |-> 0,
             rerank |-> FALSE, retried |-> FALSE, tags |-> {},
             bm25 |-> NotAsked, vector |-> NotAsked, phrase |-> <<>>, fused |-> <<>>,
             answer |-> <<>>, pool |-> {}, question |-> FALSE, plan |-> <<>>, groups |-> <<>>]

Modes == {"bm25", "vector", "hybrid"}

At(r, at) == search[r].at = at
Put(r, s) == search' = [search EXCEPT ![r] = s]

-----------------------------------------------------------------------------
(* Search.                                                                  *)

\* resolveRequestedTopK and resolveReturnTopK.
RequestedTopK(topK) == Smaller(IF topK = 0 THEN FinalTopK ELSE topK,
                               Larger(TopN, Larger(RerankTopN, FinalTopK)))
ReturnTopK(s) == IF s.rerank THEN Smaller(s.topK, FinalTopK) ELSE s.topK

\* A search by itself; topK = 0 stands for none given.
StartSearch(r, user, mode, topK, rerank) ==
  /\ At(r, "none")
  /\ Put(r, [NoSearch EXCEPT !.at = "tags", !.user = user, !.asked = mode, !.mode = mode,
                             !.topK = RequestedTopK(topK), !.rerank = rerank])

\* The tags are those the caller has now, or none when they cannot be loaded.
LoadTags(r, effective) ==
  /\ At(r, "tags")
  /\ \E tags \in {effective, {}} : Put(r, [search[r] EXCEPT !.at = "recall", !.tags = tags])

\* buildPermissionFilter.
Visible(s) == {c \in Chunks : \/ index[c].owner = s.user
                              \/ index[c].public
                              \/ index[c].tag \in s.tags}

Recalled(s) == Elements(s.bm25.hits) \union Elements(s.vector.hits) \union Elements(s.phrase)

\* One recall or two at once, by the mode.
Recall(r) ==
  /\ At(r, "recall")
  /\ LET s == search[r] IN
     \E b \in (IF s.mode = "vector" THEN {NotAsked} ELSE Recalls(Visible(s), TopN)),
        v \in (IF s.mode = "bm25" THEN {NotAsked} ELSE Recalls(Visible(s), TopN)) :
       Put(r, [s EXCEPT !.at = "recalled", !.bm25 = b, !.vector = v])

\* A search by one mode that fails is tried in the other; bm25 that was itself the
\* second choice goes back to the vectors once more.
Degraded(s) == \/ s.mode = "vector" /\ ~s.vector.ok /\ ~s.retried
               \/ s.mode = "bm25" /\ ~s.bm25.ok

DegradeToBM25(r) ==
  /\ At(r, "recalled") /\ search[r].mode = "vector" /\ Degraded(search[r])
  /\ \E b \in Recalls(Visible(search[r]), TopN) :
       Put(r, [search[r] EXCEPT !.bm25 = b, !.mode = "bm25"])

DegradeToVector(r) ==
  /\ At(r, "recalled") /\ search[r].mode = "bm25" /\ Degraded(search[r])
  /\ \E v \in Recalls(Visible(search[r]), TopN) :
       Put(r, [search[r] EXCEPT !.vector = v, !.mode = "vector", !.retried = TRUE])

BothFailed(s) == ~s.bm25.ok /\ ~s.vector.ok

Settled(r) == At(r, "recalled") /\ ~Degraded(search[r])

SearchFails(r) ==
  /\ Settled(r) /\ BothFailed(search[r])
  /\ Put(r, [search[r] EXCEPT !.at = "failed", !.bm25 = NotAsked, !.vector = NotAsked])

PhraseThreshold(topK) == Smaller(Larger(topK, PhraseFloor), PhraseCeiling)

-----------------------------------------------------------------------------
(* Fusion and reranking.                                                    *)

Place(x, l) == CHOOSE i \in DOMAIN l : l[i] = x

Weight(x, l) == IF x \in Elements(l) THEN RankUnit \div (RRFK + Place(x, l)) ELSE 0

\* The sum of 1/(k + rank) over the rankings that have x, in units of 1/RankUnit.
Score(x, lists) ==
  LET Sum[n \in 0 .. Len(lists)] == IF n = 0 THEN 0 ELSE Sum[n - 1] + Weight(x, lists[n])
  IN Sum[Len(lists)]

Contents(lists) == UNION {Elements(lists[n]) : n \in DOMAIN lists}

\* Items are told apart, and ties are broken, by their keys: a memory's begins with
\* "memory", which comes after every content hash.
KeyBefore(a, b) == \/ a[1] = "knowledge" /\ b[1] = "memory"
                   \/ a[1] = b[1] /\ a[2] < b[2]

RRFFuse(lists) ==
  LET all == Contents(lists)
  IN Ranked(all, {p \in all \X all :
       \/ Score(p[1], lists) > Score(p[2], lists)
       \/ Score(p[1], lists) = Score(p[2], lists) /\ KeyBefore(p[1], p[2])})

\* Memories of one score: the newest first.
RRFFuseMemories(lists) ==
  LET all == Contents(lists)
  IN Ranked(all, {p \in all \X all :
       \/ Score(p[1], lists) > Score(p[2], lists)
       \/ Score(p[1], lists) = Score(p[2], lists) /\ KeyBefore(p[2], p[1])})

FuseHitsByMode(s) ==
  CASE s.mode = "bm25"   -> RRFFuse(<<s.bm25.hits, s.phrase>>)
    [] s.mode = "vector" -> s.vector.hits
    [] OTHER             -> RRFFuse(<<s.bm25.hits, s.vector.hits, s.phrase>>)

Fused(s, phrase) ==
  LET t == [s EXCEPT !.at = "fused", !.phrase = phrase]
  IN [t EXCEPT !.fused = FuseHitsByMode(t), !.pool = Recalled(t)]

\* A fault: the phrase is looked up without the filter.
PhraseSearchUnfiltered(r) ==
  /\ Settled(r) /\ ~BothFailed(search[r])
  /\ \E phrase \in Rankings(Chunks, TopN) : Put(r, Fused(search[r], phrase))

\* With few hits of one kind the phrase is looked up as well, and its failure is passed
\* over; then the rankings are fused.
PhraseSearch(r) ==
  /\ Settled(r) /\ ~BothFailed(search[r])
  /\ LET s == search[r]
         few == \/ Len(s.bm25.hits) < PhraseThreshold(s.topK)
                \/ Len(s.vector.hits) < PhraseThreshold(s.topK)
     IN \E phrase \in (IF s.mode # "vector" /\ few THEN Rankings(Visible(s), TopN) ELSE {<<>>}) :
          Put(r, Fused(s, phrase))

\* What the reranker may answer: indexes, some of which may not exist or be repeated.
RerankAnswers(n) == UNION {[1 .. k -> 0 .. n] : k \in 0 .. 2}

\* The candidates with the indexes I, in the order of the candidates.
InTheirOrder(candidates, I) ==
  LET order == Ranked(I, {p \in I \X I : p[1] < p[2]})
  IN [k \in DOMAIN order |-> candidates[order[k]]]

\* The first place where r mentions i.
Mentioned(r, i) == CHOOSE k \in DOMAIN r : r[k] = i /\ \A j \in 1 .. k - 1 : r[j] # i

\* The candidates the reranker names, at their first mention.
Named(candidates, results) ==
  LET named == Elements(results) \intersect DOMAIN candidates
      order == Ranked(named, {p \in named \X named :
                                Mentioned(results, p[1]) < Mentioned(results, p[2])})
  IN [k \in DOMAIN order |-> candidates[order[k]]]

\* A fault: what the reranker does not name is left out.
RerankedNamedOnly(candidates, results, limit) == Prefix(Named(candidates, results), limit)

\* rerankWithTimeout: those it names, then the others in their old order.
Reranked(candidates, results, limit) ==
  Prefix(Named(candidates, results)
           \o InTheirOrder(candidates, DOMAIN candidates \ Elements(results)), limit)

\* The answer of a search that found hits.  An error or a timeout of the reranker
\* leaves the fused order.
Answers(s) ==
  LET candidates == Prefix(s.fused, RerankTopN)
      plain      == Prefix(s.fused, ReturnTopK(s))
  IN {plain} \union (IF s.rerank /\ s.fused # <<>>
                     THEN {Reranked(candidates, results, ReturnTopK(s)) :
                             results \in RerankAnswers(Len(candidates))}
                     ELSE {})

Answered(s, answer) == [s EXCEPT !.at = "answered", !.answer = answer,
                                 !.bm25 = NotAsked, !.vector = NotAsked, !.phrase = <<>>]

Answer(r) ==
  /\ At(r, "fused")
  /\ \E answer \in Answers(search[r]) : Put(r, Answered(search[r], answer))

\* The rows with the file names cannot be loaded.
NamesFail(r) ==
  /\ At(r, "fused") /\ search[r].fused # <<>>
  /\ Put(r, [Answered(search[r], <<>>) EXCEPT !.at = "failed", !.fused = <<>>])

-----------------------------------------------------------------------------
(* A question of the assistant.                                             *)

\* The search modes a question's plan stands for; retrieval may be skipped.
Plans == {<<"bm25", "vector">>, <<"bm25">>, <<"vector">>}

\* resolveKnowledgeTopK
KnowledgeTopK == Larger(8, Larger(FinalTopK, ContextTopK))

AskQuestion(r, user) ==
  /\ At(r, "none")
  /\ \/ \E plan \in Plans :
          Put(r, [NoSearch EXCEPT !.at = "next", !.user = user, !.question = TRUE, !.plan = plan])
     \/ Put(r, [NoSearch EXCEPT !.at = "answered", !.user = user, !.question = TRUE])

\* A question's searches do not rerank.  The two of a hybrid plan run side by side, but
\* share nothing: their order does not matter.
NextSearch(r) ==
  /\ At(r, "next") /\ search[r].plan # <<>>
  /\ LET s == search[r] IN
     Put(r, [NoSearch EXCEPT !.at = "tags", !.user = s.user, !.question = TRUE,
                             !.asked = Head(s.plan), !.mode = Head(s.plan),
                             !.topK = RequestedTopK(KnowledgeTopK),
                             !.plan = Tail(s.plan), !.groups = s.groups])

\* A search that fails is left out.
Collect(r) ==
  /\ search[r].question /\ search[r].topK > 0
  /\ At(r, "answered") \/ At(r, "failed")
  /\ LET s == search[r] IN
     Put(r, [NoSearch EXCEPT !.at = "next", !.user = s.user, !.question = TRUE, !.plan = s.plan,
               !.groups = IF s.at = "failed" THEN s.groups ELSE Append(s.groups, s.answer)])

OwnMemories(s) == {m \in Memories : ownerOf[m] = s.user}

\* SearchLongTermMemories: two recalls, each of which may fail unnoticed; or none, when
\* the question does not ask for the past.
RecallMemories(s) ==
  LET lists == Rankings(OwnMemories(s), 2 * LongTermTopK)
  IN {Prefix(RRFFuseMemories(<<text, vector>>), LongTermTopK) : text, vector \in lists}

\* The graph fuses the searches, then the knowledge with the memories.
FuseContext(r) ==
  /\ At(r, "next") /\ search[r].plan = <<>>
  /\ LET s == search[r]
         knowledge == Prefix(RRFFuse(s.groups), KnowledgeTopK)
     IN \E memories \in RecallMemories(s) :
          Put(r, [NoSearch EXCEPT !.at = "context", !.user = s.user, !.question = TRUE,
                    !.fused = Prefix(RRFFuse(<<knowledge, memories>>), 2 * ContextTopK),
                    !.pool = Elements(knowledge) \union Elements(memories)])

\* RerankContext keeps what the reranker names, and nothing else.  When it names
\* nothing or fails, the items are sorted by a comparison that is not transitive, so
\* any order may come out.  When the call itself fails the graph goes on with all.
RerankContext(r) ==
  /\ At(r, "context")
  /\ LET s == search[r]
         n == Len(s.fused)
         named == {Prefix(Named(s.fused, results), ContextTopK) : results \in RerankAnswers(n)}
         sorted == {p \in Rankings(Elements(s.fused), ContextTopK) : Len(p) = Smaller(n, ContextTopK)}
     IN \E answer \in (named \ {<<>>}) \union sorted \union {s.fused} :
          Put(r, Answered(s, answer))

-----------------------------------------------------------------------------
RetrievalTypeOK ==
  \A r \in Searchers :
    LET s == search[r] IN
    /\ s.at \in {"none", "tags", "recall", "recalled", "fused", "answered",
                 "failed", "next", "context"}
    /\ {s.asked, s.mode} \subseteq Modes
    /\ Elements(s.fused) \union Elements(s.answer) \union s.pool \subseteq Items
    /\ Recalled(s) \subseteq Chunks

\* No recall prefers y to x, and one has only x or prefers it: x comes before y.
FusionRespects(s) ==
  LET lists == {s.bm25.hits, s.vector.hits, s.phrase}
      NotAfter(x, y, l) == y \in Elements(l) => x \in Elements(l) /\ Place(x, l) < Place(y, l)
  IN \A x, y \in Elements(s.fused) :
       x # y /\ (\A l \in lists : NotAfter(x, y, l)) => Place(x, s.fused) < Place(y, s.fused)

\* What one search makes of what its recalls returned.
RanksWhatItRecalled(s) ==
  /\ s.at = "fused" => /\ Elements(s.fused) = s.pool /\ Len(s.fused) = Cardinality(s.pool)
                       /\ FusionRespects(s)
  /\ s.at = "answered" =>
       /\ Elements(s.answer) \subseteq s.pool
       /\ Len(s.answer) = Cardinality(Elements(s.answer))
       /\ IF s.topK = 0 THEN s.pool # {} => s.answer # <<>>
          ELSE /\ Len(s.answer) <= ReturnTopK(s)
               /\ Len(s.answer) >= Smaller(Smaller(ReturnTopK(s), RerankTopN),
                                           Cardinality(s.pool))

SearchStep(r) ==
  \/ Recall(r) \/ DegradeToBM25(r) \/ DegradeToVector(r) \/ SearchFails(r)
  \/ PhraseSearch(r) \/ Answer(r) \/ NamesFail(r)
  \/ NextSearch(r) \/ Collect(r) \/ FuseContext(r) \/ RerankContext(r)

=============================================================================
