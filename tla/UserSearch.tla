------------------------------ MODULE UserSearch ------------------------------
(***************************************************************************)
(* The index of users: those who write it, UserIndexer and the consumer of *)
(* user events, the reindexing in batches, and a client that walks through *)
(* the pages of SearchUsers while they do.                                 *)
(*                                                                         *)
(* internal/search/user_indexer.go, internal/search/search_service.go,     *)
(* internal/api/friend_handlers.go, pkg/elasticsearch/client.go,           *)
(* internal/search/event_consumer.go                                       *)
(*                                                                         *)
(* A search has text, filters and a sort order that stay the same from page*)
(* to page.  Any write, and any copy of a shard that answers, may change   *)
(* whom it finds and in which order: the scores count who else is there.   *)
(***************************************************************************)
EXTENDS Integers, Sequences, SequencesExt, FiniteSets

CONSTANTS
  Users,
  Me,          \* "current-user-id", whom every search leaves out
  Limits,      \* page sizes that clients ask for, 0 to 50 in the code
  Tokens,      \* the offsets in page tokens that walks start from
  NoToken,     \* none, or one that cannot be decoded
  Window,      \* the deepest that Elasticsearch searches, 10000
  BatchSize,   \* 100 in the code
  Lists,       \* bound: what reindexes are given
  Created,     \* bound: whom events of creation name
  Counted      \* bound: whose mutual friends are counted

ASSUME UsersAssumption == IsFiniteSet(Users)
ASSUME LimitsAssumption == Limits \subseteq Nat
ASSUME TokensAssumption == Tokens \subseteq Int \cup {NoToken} /\ NoToken \in Tokens
ASSUME ListsAssumption ==
  \A l \in Lists : l \in Seq(Users) /\ IsInjective(l)
ASSUME SizesAssumption == Window \in Nat /\ BatchSize \in Nat \ {0}

VARIABLES
  docs,     \* of each user: "none", "event", "faint", "full" or "counted"
  exists,   \* there is an index
  maker,    \* CreateIndex: "idle" or "dropped"
  ranking,  \* the users that the client's search finds, best first
  job,      \* ReindexAllUsers
  walk,     \* the client's search
  changes,  \* what happened to the ranking during the walk
  shown     \* its results, and who was there at its start, for the properties

index == <<docs, exists, ranking>>
notes == <<changes, shown>>
vars == <<index, maker, job, walk, notes>>

NoJob == [at |-> "idle", given |-> {}, left |-> <<>>, excused |-> {}]
NoWalk == [at |-> "idle", limit |-> 0, offset |-> 0, top |-> FALSE]
NothingShown == [seen |-> <<>>, start |-> {}]

Init ==
  /\ docs = [u \in Users |-> "none"]
  /\ exists = TRUE /\ maker = "idle"
  /\ ranking = <<>>
  /\ job = NoJob
  /\ walk = NoWalk
  /\ changes = {} /\ shown = NothingShown

-----------------------------------------------------------------------------
(* Search.                                                                 *)

(* What UserIndexer writes has the status and the privacy settings that    *)
(* every filter asks for.  "counted" has mutual friends, which lift any    *)
(* score above min_score; what has neither friends nor activity is "faint".*)
Complete == {"faint", "full", "counted"}

(* buildFilterClauses, buildMustNotClauses: whom some search may find.     *)
Matches(d, u) == d[u] \in Complete /\ u # Me
Found(d) == {u \in Users : Matches(d, u)}

(* Whom the search without text and filters finds.                         *)
Plain(d) == {u \in Found(d) : d[u] # "faint"}

SuggestionTypes == {"interest_based", "mutual_friends", "location_based", "mixed"}

(* Whom GetUserSuggestions may name.  The interests only raise a score, and*)
(* no document has the city that location_based asks for.                  *)
Suggested(d, type, asker) ==
  {u \in Users \ {asker} :
     /\ d[u] \in Complete
     /\ type = "mutual_friends" => d[u] = "counted"
     /\ type # "location_based"}

(* The orders that scores and sort fields can put users in.                *)
Rankings == [S \in SUBSET Users |-> {r \in [1..Cardinality(S) -> S] : IsInjective(r)}]

(* What a search may find in d: its text, its filters on counts, places and*)
(* interests, and min_score let some of them through.                      *)
Orders(d) == UNION {Rankings[S] : S \in SUBSET Found(d)}

Precedes(r, u, v) == \E i, j \in DOMAIN r : i < j /\ r[i] = u /\ r[j] = v

(* How one ranking differs from another.                                   *)
Kinds(was, now) ==
  (IF ToSet(now) \ ToSet(was) # {} THEN {"added"} ELSE {}) \cup
  (IF ToSet(was) \ ToSet(now) # {} THEN {"removed"} ELSE {}) \cup
  (IF \E u, v \in ToSet(was) \cap ToSet(now) : ~ (Precedes(was, u, v) <=> Precedes(now, u, v))
     THEN {"moved"} ELSE {})

(* Who moves, or comes while another goes, may be shown twice or never;    *)
(* there is nothing to say of the walk from then on.                       *)
Tells(kinds) == kinds \in {{}, {"added"}, {"removed"}}

NoteChanges ==
  /\ changes' = changes \cup Kinds(ranking, ranking')
  /\ shown' = IF Tells(changes') THEN shown ELSE NothingShown

(* The ranking without those that d takes out.                             *)
Left(d) ==
  {r \in Rankings[ToSet(ranking) \cap Found(d)] :
     \A u, v \in ToSet(r) : Precedes(r, u, v) <=> Precedes(ranking, u, v)}

(* The documents become d.  What else that does to a search is its next    *)
(* step, RankAnew.                                                         *)
Write(d) ==
  /\ docs' = d
  /\ ranking' \in Left(d)
  /\ NoteChanges

(* The next answer ranks anew: after a write of anybody, or because other  *)
(* copies of the shards give it, which break ties and count deleted        *)
(* documents in their own way.                                             *)
RankAnew ==
  /\ walk.at = "asking"
  /\ ranking' \in Orders(docs)
  /\ NoteChanges
  /\ UNCHANGED <<docs, exists, maker, job, walk>>

(* Those who are taken out are no longer the job's.                        *)
JobWithout(lost) ==
  IF job.at \in {"running", "done"}
    THEN [job EXCEPT !.excused = @ \cup (lost \cap job.given)] ELSE job

-----------------------------------------------------------------------------
(* UserIndexer and its callers.  Indexing a document creates the index if  *)
(* it is missing.                                                          *)

IndexUser(u) ==
  /\ Write([docs EXCEPT ![u] = "full"])
  /\ exists' = TRUE
  /\ UNCHANGED <<maker, job, walk>>

(* UpdateUser merges a full document into the one that is there.           *)
UpdateUser(u) ==
  /\ docs[u] # "none"
  /\ Write([docs EXCEPT ![u] = "full"])
  /\ UNCHANGED <<exists, maker, job, walk>>

(* The new metrics change the scores: no activity makes them faint.        *)
UpdateUserSocialMetrics(u) ==
  /\ docs[u] # "none"
  /\ \E as \in IF docs[u] \notin Complete THEN {docs[u]}
               ELSE IF u \in Counted THEN Complete ELSE {"full"} :
       Write([docs EXCEPT ![u] = as])
  /\ UNCHANGED <<exists, maker, job, walk>>

(* Mutant: the deletion is not refreshed.                                  *)
DeleteUserUnrefreshed(u) ==
  /\ exists
  /\ docs' = [docs EXCEPT ![u] = "none"]
  /\ job' = JobWithout({u})
  /\ UNCHANGED <<exists, ranking, maker, walk, notes>>

DeleteUser(u) ==
  /\ exists
  /\ Write([docs EXCEPT ![u] = "none"])
  /\ job' = JobWithout({u})
  /\ UNCHANGED <<exists, maker, walk>>

(* processUserEvent indexes the names of a created user, in the place of   *)
(* any document of that user.                                              *)
UserCreated(u) ==
  /\ Write([docs EXCEPT ![u] = "event"])
  /\ exists' = TRUE
  /\ job' = JobWithout({u})
  /\ UNCHANGED <<maker, walk>>

(* CreateIndex deletes an index that exists, and makes a new one unless a  *)
(* write has done so in between.                                           *)
DropIndex ==
  /\ maker = "idle"
  /\ Write([u \in Users |-> "none"])
  /\ exists' = FALSE
  /\ maker' = "dropped"
  /\ job' = JobWithout(Users)
  /\ UNCHANGED walk

MakeIndex ==
  /\ maker = "dropped"
  /\ maker' = "idle"
  /\ exists' = TRUE
  /\ UNCHANGED <<docs, ranking, job, walk, notes>>

-----------------------------------------------------------------------------
(* ReindexAllUsers.                                                        *)

StartReindex(users) ==
  /\ job.at # "running"
  /\ job' = [NoJob EXCEPT !.at = "running", !.given = ToSet(users), !.left = users]
  /\ UNCHANGED <<index, maker, walk, notes>>

BatchEnd == IF BatchSize < Len(job.left) THEN BatchSize ELSE Len(job.left)

(* Mutant: the batch that is not full is left out.                         *)
BatchIfFull == IF Len(job.left) < BatchSize THEN {} ELSE ToSet(SubSeq(job.left, 1, BatchEnd))

BatchNow == ToSet(SubSeq(job.left, 1, BatchEnd))

(* Mutant: the index is deleted first, as the comment has it.              *)
WrittenAnew(batch) ==
  [u \in Users |-> IF u \in batch THEN "full"
                   ELSE IF Len(job.left) = Cardinality(job.given) THEN "none" ELSE docs[u]]

WrittenBy(batch) == [u \in Users |-> IF u \in batch THEN "full" ELSE docs[u]]

(* BulkIndexUsers: items that the index refuses are only logged.           *)
Batch ==
  /\ job.at = "running" /\ job.left # <<>>
  /\ \E refused \in SUBSET BatchNow :
       /\ Write(WrittenBy(BatchNow \ refused))
       /\ job' = [job EXCEPT
            !.left = SubSeq(@, BatchEnd + 1, Len(@)),
            !.excused = (@ \ BatchNow) \cup refused]
  /\ exists' = TRUE
  /\ UNCHANGED <<maker, walk>>

(* A request that fails, carried out or not, ends it half way.             *)
BatchFails ==
  /\ job.at = "running" /\ job.left # <<>>
  /\ \E done \in {{}, BatchNow} :
       /\ Write(WrittenBy(done))
       /\ exists' = (exists \/ done # {})
  /\ job' = NoJob
  /\ UNCHANGED <<maker, walk>>

ReindexReturns ==
  /\ job.at = "running" /\ job.left = <<>>
  /\ job' = [job EXCEPT !.at = "done"]
  /\ UNCHANGED <<index, maker, walk, notes>>

-----------------------------------------------------------------------------
(* A client walks: it asks for a page, and for the next as long as it is   *)
(* given a token.                                                          *)

(* getOffsetFromPageToken.                                                 *)
OffsetOf(token) == IF token = NoToken THEN 0 ELSE token

StartWalk(limit, token) ==
  /\ walk.at = "idle"
  /\ walk' = [at |-> "asking", limit |-> limit, offset |-> OffsetOf(token),
              top |-> OffsetOf(token) = 0]
  /\ ranking' \in Orders(docs)
  /\ changes' = {}
  /\ shown' = IF walk'.top THEN [seen |-> <<>>, start |-> ToSet(ranking')] ELSE NothingShown
  /\ UNCHANGED <<docs, exists, maker, job>>

(* What Elasticsearch refuses to search.                                   *)
Refused == ~ exists \/ walk.offset < 0 \/ walk.offset + walk.limit > Window

(* Mutant: the token is the one that was sent.                             *)
NextOffsetSame == walk.offset

(* Mutant: the next page overlaps.                                         *)
NextOffsetShort == walk.offset + walk.limit - 1

NextOffset == walk.offset + walk.limit

PageNow ==
  LET end == walk.offset + walk.limit IN
  IF Refused THEN <<>>
  ELSE SubSeq(ranking, walk.offset + 1, IF end < Len(ranking) THEN end ELSE Len(ranking))

(* SearchUsers gives a token when the page is full, and the handler sends  *)
(* it with the last result, so that a page without results has none.       *)
GivesToken(sent) == Len(sent) = walk.limit /\ sent # <<>>

SearchUsers ==
  /\ walk.at = "asking" /\ ~ Refused /\ GivesToken(PageNow)
  /\ walk' = [walk EXCEPT !.offset = NextOffset]
  /\ shown' = IF Tells(changes) THEN [shown EXCEPT !.seen = @ \o PageNow] ELSE shown
  /\ UNCHANGED <<index, maker, job, changes>>

EndWalk ==
  /\ walk' = NoWalk /\ ranking' = <<>>
  /\ changes' = {} /\ shown' = NothingShown
  /\ UNCHANGED <<docs, exists, maker, job>>

SearchUsersLast ==
  /\ walk.at = "asking" /\ ~ Refused /\ ~ GivesToken(PageNow)
  /\ EndWalk

(* The search fails, or Send does after some of the results.               *)
SearchUsersFails ==
  /\ walk.at = "asking"
  /\ EndWalk

-----------------------------------------------------------------------------
Writers == \E u \in Users : \/ IndexUser(u) \/ UpdateUser(u) \/ UpdateUserSocialMetrics(u)
                            \/ DeleteUser(u) \/ (u \in Created /\ UserCreated(u))

Next ==
  \/ Writers \/ DropIndex \/ MakeIndex \/ RankAnew
  \/ \E users \in Lists : StartReindex(users)
  \/ Batch \/ BatchFails \/ ReindexReturns
  \/ \E limit \in Limits, token \in Tokens : StartWalk(limit, token)
  \/ SearchUsers \/ SearchUsersLast \/ SearchUsersFails

(* The client goes on asking; it needs no failure to end.                  *)
Fairness == WF_vars(SearchUsers \/ SearchUsersLast \/ (Refused /\ SearchUsersFails))

Spec == Init /\ [][Next]_vars /\ Fairness

-----------------------------------------------------------------------------
(* Properties.                                                             *)

TypeOK ==
  /\ docs \in [Users -> {"none", "event"} \cup Complete]
  /\ exists \in BOOLEAN /\ maker \in {"idle", "dropped"}
  /\ ranking \in Seq(Users) /\ IsInjective(ranking)
  /\ ToSet(ranking) \subseteq Found(docs)
  /\ walk.at = "idle" => ranking = <<>>
  /\ job \in [at : {"idle", "running", "done"}, given : SUBSET Users,
              left : Seq(Users), excused : SUBSET Users]
  /\ job.excused \subseteq job.given
  /\ walk \in [at : {"idle", "asking"}, limit : Nat, offset : Int, top : BOOLEAN]
  /\ shown \in [seen : Seq(Users), start : SUBSET Users]
  /\ changes \subseteq {"added", "removed", "moved"}

(* A walk from the top comes to its end.                                   *)
Ends == walk.top /\ walk.limit > 0 /\ SearchUsersLast
Shown == shown.seen \o PageNow

(* A walk shows every user that its search finds, once and in the order of *)
(* the ranking, if neither a write nor another copy changes that meanwhile.*)
(* Offsets shift: when users only drop out it may miss some, but shows     *)
(* nobody twice; when users are only added it may show some twice, but     *)
(* misses nobody who was there when it began (search_service.go:52-59).    *)
WalksAreTrue ==
  [][Ends => /\ changes = {} => Shown = ranking
             /\ changes \subseteq {"removed"} => IsInjective(Shown)
             /\ changes \subseteq {"added"} => shown.start \subseteq ToSet(Shown)]_vars

(* A reindex that succeeds leaves each user it was given to be found,      *)
(* except for those whom the index refused, about whom nobody learns, or   *)
(* who were taken out since (user_indexer.go:249-273, client.go:232-243).  *)
ReindexCovers ==
  job.at = "done" =>
    \A u \in job.given \ job.excused : docs[u] \in Complete

(* No step of a reindex takes anybody out of the search without text and   *)
(* filters, or out of suggestions other than those by mutual friends: it   *)
(* does not delete the index (user_indexer.go:250 says that it does).  A   *)
(* search with text or with filters may lose a user, since the counts and  *)
(* scores begin anew (user_indexer.go:170-176).                            *)
NoHoleWhileReindexing ==
  [][job.at = "running" /\ job'.at = "running" /\ job'.left # job.left =>
       /\ Plain(docs) \subseteq Plain(docs')
       /\ \A type \in SuggestionTypes \ {"mutual_friends"}, asker \in Users :
            Suggested(docs, type, asker) \subseteq Suggested(docs', type, asker)]_vars

(* A walk ends: every token is for a deeper page, and the index has an end,*)
(* whatever happens to it meanwhile.                                       *)
WalksEnd == walk.at = "asking" ~> walk.at = "idle"
=============================================================================
