--------------------------- MODULE UserSearchProofs ---------------------------
(***************************************************************************)
(* What a walk through the pages of SearchUsers shows, whatever is written *)
(* meanwhile, for any users, page sizes and depths; and that a reindex     *)
(* covers whom it was given and takes nobody out.                          *)
(***************************************************************************)
EXTENDS UserSearch, FiniteSetTheorems, SequenceTheorems, WellFoundedInduction, TLAPS

-----------------------------------------------------------------------------
(* Rankings.                                                               *)

LEMMA Least ==
  ASSUME NEW T \in SUBSET Nat, T # {}
  PROVE  \E x \in T : \A y \in T : x <= y
<1>1. PICK x \in T : \A y \in T : ~ (<<y, x>> \in OpToRel(<, Nat))
  BY NatLessThanWellFounded, WFMin
<1>2. \A y \in T : ~ (y < x)
  BY <1>1 DEF OpToRel
<1>. QED  BY <1>2

(* Each user that is found has one place in the ranking.                   *)
LEMMA RankingsAre ==
  ASSUME NEW S \in SUBSET Users, NEW r \in Rankings[S]
  PROVE  r \in Seq(Users) /\ ToSet(r) = S /\ IsInjective(r)
<1>1. IsFiniteSet(S) /\ Cardinality(S) \in Nat
  BY UsersAssumption, FS_Subset, FS_CardinalityType
<1>2. r \in [1..Cardinality(S) -> S] /\ IsInjective(r)
  BY DEF Rankings
<1>3. r \in Injection(1..Cardinality(S), S)
  BY <1>2 DEF Injection
<1>4. Cardinality(1..Cardinality(S)) = Cardinality(S)
  BY <1>1, FS_Interval
<1>5. r \in Surjection(1..Cardinality(S), S)
  BY <1>1, <1>3, <1>4, FS_Injection
<1>6. \A u \in S : \E i \in 1..Cardinality(S) : r[i] = u
  BY <1>5 DEF Surjection
<1>7. ToSet(r) = S
  BY <1>2, <1>6 DEF ToSet
<1>8. r \in Seq(Users)
  BY <1>1, <1>2
<1>. QED  BY <1>2, <1>7, <1>8

(* Where r keeps the order of all the users of s, none comes sooner.       *)
LEMMA NoneSooner ==
  ASSUME NEW r \in Seq(Users), NEW s \in Seq(Users), IsInjective(r), IsInjective(s),
         ToSet(s) \subseteq ToSet(r),
         \A u, v \in ToSet(s) : Precedes(s, u, v) => Precedes(r, u, v)
  PROVE  \A k \in DOMAIN s, j \in DOMAIN r : r[j] = s[k] => k <= j
<1> DEFINE Sooner == {k \in DOMAIN s : \E j \in DOMAIN r : r[j] = s[k] /\ j < k}
<1>1. SUFFICES ASSUME Sooner # {} PROVE FALSE
  OBVIOUS
<1>2. /\ DOMAIN s = 1..Len(s) /\ Len(s) \in Nat
      /\ DOMAIN r = 1..Len(r) /\ Len(r) \in Nat
  OBVIOUS
<1>3. Sooner \in SUBSET Nat
  BY <1>2
<1>4. PICK k \in Sooner : \A y \in Sooner : k <= y
  BY <1>1, <1>3, Least
<1>5. PICK j \in DOMAIN r : r[j] = s[k] /\ j < k
  BY <1>4
<1>6. k \in DOMAIN s /\ k \in Nat /\ j \in Nat /\ j >= 1 /\ k - 1 \in DOMAIN s
  BY <1>2, <1>4, <1>5
<1>7. s[k - 1] \in ToSet(s) /\ s[k] \in ToSet(s)
  BY <1>6 DEF ToSet
<1>8. Precedes(s, s[k - 1], s[k])
  BY <1>6 DEF Precedes
<1>9. Precedes(r, s[k - 1], s[k])
  BY <1>7, <1>8
<1>10. PICK a \in DOMAIN r, b \in DOMAIN r : a < b /\ r[a] = s[k - 1] /\ r[b] = s[k]
  BY <1>9 DEF Precedes
<1>11. b = j
  BY <1>5, <1>10 DEF IsInjective
<1>12. a < k - 1
  BY <1>2, <1>5, <1>6, <1>10, <1>11
<1>13. k - 1 \in Sooner
  BY <1>6, <1>10, <1>12
<1>. QED  BY <1>4, <1>6, <1>13

(* A ranking follows from whom it ranks, and in which order.               *)
LEMMA SameOrder ==
  ASSUME NEW r \in Seq(Users), NEW s \in Seq(Users), IsInjective(r), IsInjective(s),
         ToSet(s) = ToSet(r),
         \A u, v \in ToSet(s) : Precedes(s, u, v) <=> Precedes(r, u, v)
  PROVE  r = s
<1>1. \A k \in DOMAIN s, j \in DOMAIN r : r[j] = s[k] => k = j
  <2>1. \A k \in DOMAIN s, j \in DOMAIN r : r[j] = s[k] => k <= j
    BY NoneSooner
  <2>2. \A j \in DOMAIN r, k \in DOMAIN s : s[k] = r[j] => j <= k
    BY NoneSooner
  <2>. QED  BY <2>1, <2>2
<1>2. \A k \in DOMAIN s : k \in DOMAIN r /\ r[k] = s[k]
  <2>1. \A k \in DOMAIN s : \E j \in DOMAIN r : r[j] = s[k]
    BY DEF ToSet
  <2>. QED  BY <1>1, <2>1
<1>3. \A j \in DOMAIN r : j \in DOMAIN s /\ r[j] = s[j]
  <2>1. \A j \in DOMAIN r : \E k \in DOMAIN s : s[k] = r[j]
    BY DEF ToSet
  <2>. QED  BY <1>1, <2>1
<1>4. DOMAIN s = DOMAIN r
  BY <1>2, <1>3
<1>5. Len(s) = Len(r)
  BY <1>4
<1>. QED  BY <1>2, <1>5

-----------------------------------------------------------------------------
(* Changes of a ranking.                                                   *)

(* If nobody moves nor comes, none comes sooner than before; if nobody     *)
(* moves nor goes, none comes later than before.                           *)
LEMMA KindsSay ==
  ASSUME NEW was \in Seq(Users), NEW now \in Seq(Users), IsInjective(was), IsInjective(now)
  PROVE  /\ Kinds(was, now) \subseteq {"added", "removed", "moved"}
         /\ Kinds(was, now) = {} => now = was
         /\ Kinds(was, now) \subseteq {"removed"} =>
              \A k \in DOMAIN now : \E j \in DOMAIN was : k <= j /\ was[j] = now[k]
         /\ Kinds(was, now) \subseteq {"added"} =>
              \A k \in DOMAIN was : \E j \in DOMAIN now : k <= j /\ now[j] = was[k]
<1> DEFINE B == ToSet(was)
           N == ToSet(now)
<1>1. /\ "added" \notin Kinds(was, now) => N \subseteq B
      /\ "removed" \notin Kinds(was, now) => B \subseteq N
      /\ "moved" \notin Kinds(was, now) =>
           \A u, v \in B \cap N : Precedes(was, u, v) <=> Precedes(now, u, v)
  BY DEF Kinds
<1>2. Kinds(was, now) \subseteq {"added", "removed", "moved"}
  BY DEF Kinds
<1> HIDE DEF B, N
<1>3. ASSUME Kinds(was, now) = {} PROVE now = was
  <2>1. N = B /\ \A u, v \in B : Precedes(was, u, v) <=> Precedes(now, u, v)
    BY <1>1, <1>3
  <2>. QED  BY <2>1, SameOrder DEF B, N
<1>4. ASSUME Kinds(was, now) \subseteq {"removed"}, NEW k \in DOMAIN now
      PROVE  \E j \in DOMAIN was : k <= j /\ was[j] = now[k]
  <2>1. N \subseteq B /\ \A u, v \in N : Precedes(now, u, v) => Precedes(was, u, v)
    BY <1>1, <1>4
  <2>2. \A i \in DOMAIN now, j \in DOMAIN was : was[j] = now[i] => i <= j
    BY <2>1, NoneSooner DEF B, N
  <2>3. now[k] \in B
    BY <1>4, <2>1 DEF ToSet, N
  <2>. QED  BY <1>4, <2>2, <2>3 DEF B, ToSet
<1>5. ASSUME Kinds(was, now) \subseteq {"added"}, NEW k \in DOMAIN was
      PROVE  \E j \in DOMAIN now : k <= j /\ now[j] = was[k]
  <2>1. B \subseteq N /\ \A u, v \in B : Precedes(was, u, v) => Precedes(now, u, v)
    BY <1>1, <1>5
  <2>2. \A i \in DOMAIN was, j \in DOMAIN now : now[j] = was[i] => i <= j
    BY <2>1, NoneSooner DEF B, N
  <2>3. was[k] \in N
    BY <1>5, <2>1 DEF ToSet, B
  <2>. QED  BY <1>5, <2>2, <2>3 DEF N, ToSet
<1>. QED  BY <1>2, <1>3, <1>4, <1>5

(* What a write leaves of the ranking.                                     *)
LEMMA WriteRanks ==
  ASSUME TypeOK, NEW d, Write(d)
  PROVE  /\ ranking' \in Seq(Users) /\ IsInjective(ranking')
         /\ ToSet(ranking') \subseteq Found(d)
         /\ walk.at = "idle" => ranking' = <<>>
<1> DEFINE S == ToSet(ranking) \cap Found(d)
<1>1. S \in SUBSET Users /\ ranking' \in Rankings[S]
  BY DEF Found, Write, Left
<1>2. ranking' \in Seq(Users) /\ ToSet(ranking') = S /\ IsInjective(ranking')
  BY <1>1, RankingsAre
<1>3. ASSUME walk.at = "idle" PROVE ranking' = <<>>
  <2>1. S = {}
    BY <1>3 DEF TypeOK, ToSet
  <2>2. DOMAIN ranking' = {}
    BY <1>2, <2>1 DEF ToSet
  <2>. QED  BY <1>2, <2>2
<1>. QED  BY <1>2, <1>3

-----------------------------------------------------------------------------
(* The invariant.                                                          *)

Statuses == {"none", "event"} \cup Complete
Jobs == [at : {"idle", "running", "done"}, given : SUBSET Users,
         left : Seq(Users), excused : SUBSET Users]
Walks == [at : {"idle", "asking"}, limit : Nat, offset : Int, top : BOOLEAN]

(* Whom the job was given, and has been done with, can be found.           *)
JobOK ==
  /\ ToSet(job.left) \subseteq job.given
  /\ job.at = "done" => job.left = <<>>
  /\ job.at \in {"running", "done"} =>
       \A u \in job.given : \/ u \in job.excused
                            \/ u \in ToSet(job.left)
                            \/ docs[u] \in Complete

(* Those whom the next pages would show.                                   *)
Ahead == {ranking[j] : j \in {i \in DOMAIN ranking : i > walk.offset}}

(* What the walk has shown, and what is ahead, complete each other.        *)
WalkOK ==
  walk.at = "asking" /\ walk.top /\ Tells(changes) =>
    /\ walk.offset = Len(shown.seen)
    /\ changes = {} => /\ walk.offset <= Len(ranking)
                       /\ shown.seen = SubSeq(ranking, 1, walk.offset)
    /\ changes \subseteq {"removed"} =>
         /\ IsInjective(shown.seen)
         /\ ToSet(shown.seen) \cap Ahead = {}
    /\ changes \subseteq {"added"} =>
         shown.start \subseteq ToSet(shown.seen) \cup Ahead

IInv == TypeOK /\ JobOK /\ WalkOK

-----------------------------------------------------------------------------
(* Writes and the walk.                                                    *)

LEMMA NoteTypes ==
  ASSUME TypeOK, ranking' \in Seq(Users), IsInjective(ranking'), NoteChanges
  PROVE  /\ changes' \subseteq {"added", "removed", "moved"}
         /\ shown' \in [seen : Seq(Users), start : SUBSET Users]
<1>1. Kinds(ranking, ranking') \subseteq {"added", "removed", "moved"}
  BY KindsSay DEF TypeOK
<1>2. shown' \in {shown, NothingShown}
  BY DEF NoteChanges
<1>3. NothingShown \in [seen : Seq(Users), start : SUBSET Users]
  BY DEF NothingShown
<1>. QED  BY <1>1, <1>2, <1>3 DEF NoteChanges, TypeOK

(* What is noted of a new ranking keeps the walk's account.                *)
LEMMA NoteWalks ==
  ASSUME IInv, ranking' \in Seq(Users), IsInjective(ranking'), NoteChanges, UNCHANGED walk
  PROVE  WalkOK'
<1>1. SUFFICES ASSUME walk.at = "asking", walk.top, Tells(changes')
               PROVE
    /\ walk.offset = Len(shown'.seen)
    /\ changes' = {} => /\ walk.offset <= Len(ranking')
                        /\ shown'.seen = SubSeq(ranking', 1, walk.offset)
    /\ changes' \subseteq {"removed"} =>
         /\ IsInjective(shown'.seen)
         /\ ToSet(shown'.seen) \cap Ahead' = {}
    /\ changes' \subseteq {"added"} =>
         shown'.start \subseteq ToSet(shown'.seen) \cup Ahead'
  BY DEF WalkOK
<1>2. changes' = changes \cup Kinds(ranking, ranking') /\ shown' = shown
  BY <1>1 DEF NoteChanges
<1>3. Tells(changes) /\ changes \subseteq changes' /\ Kinds(ranking, ranking') \subseteq changes'
  BY <1>1, <1>2 DEF Tells
<1>4. /\ walk.offset = Len(shown.seen)
      /\ changes = {} => /\ walk.offset <= Len(ranking)
                         /\ shown.seen = SubSeq(ranking, 1, walk.offset)
      /\ changes \subseteq {"removed"} =>
           /\ IsInjective(shown.seen)
           /\ ToSet(shown.seen) \cap Ahead = {}
      /\ changes \subseteq {"added"} =>
           shown.start \subseteq ToSet(shown.seen) \cup Ahead
  BY <1>1, <1>3 DEF IInv, WalkOK
<1>5. TypeOK
  BY DEF IInv
<1>6. /\ ranking \in Seq(Users) /\ ranking' \in Seq(Users) /\ walk.offset \in Int
      /\ IsInjective(ranking) /\ IsInjective(ranking')
  BY <1>5 DEF TypeOK
<1>7. ASSUME changes' = {} PROVE ranking' = ranking
  <2>1. Kinds(ranking, ranking') = {}
    BY <1>3, <1>7
  <2>. QED  BY <1>6, <2>1, KindsSay
<1>8. ASSUME changes' \subseteq {"removed"} PROVE Ahead' \subseteq Ahead
  <2>1. Kinds(ranking, ranking') \subseteq {"removed"}
    BY <1>3, <1>8
  <2>2. \A k \in DOMAIN ranking' : \E j \in DOMAIN ranking : k <= j /\ ranking[j] = ranking'[k]
    BY <1>6, <2>1, KindsSay
  <2>3. SUFFICES ASSUME NEW k \in DOMAIN ranking', k > walk.offset
                 PROVE  ranking'[k] \in Ahead
    BY DEF Ahead
  <2>4. PICK j \in DOMAIN ranking : k <= j /\ ranking[j] = ranking'[k]
    BY <2>2, <2>3
  <2>5. j > walk.offset
    BY <1>6, <2>3, <2>4
  <2>. QED  BY <2>4, <2>5 DEF Ahead
<1>9. ASSUME changes' \subseteq {"added"} PROVE Ahead \subseteq Ahead'
  <2>1. Kinds(ranking, ranking') \subseteq {"added"}
    BY <1>3, <1>9
  <2>2. \A k \in DOMAIN ranking : \E j \in DOMAIN ranking' : k <= j /\ ranking'[j] = ranking[k]
    BY <1>6, <2>1, KindsSay
  <2>3. SUFFICES ASSUME NEW k \in DOMAIN ranking, k > walk.offset
                 PROVE  ranking[k] \in Ahead'
    BY DEF Ahead
  <2>4. PICK j \in DOMAIN ranking' : k <= j /\ ranking'[j] = ranking[k]
    BY <2>2, <2>3
  <2>5. j > walk.offset
    BY <1>6, <2>3, <2>4
  <2>. QED  BY <2>4, <2>5 DEF Ahead
<1>. QED  BY <1>2, <1>3, <1>4, <1>7, <1>8, <1>9

(* A write whose effect on the job is known.                               *)
LEMMA WriteKeeps ==
  ASSUME IInv, NEW d \in [Users -> Statuses], Write(d), UNCHANGED walk,
         exists' \in BOOLEAN, maker' \in {"idle", "dropped"},
         job' \in Jobs, job'.excused \subseteq job'.given, JobOK'
  PROVE  IInv'
<1>1. TypeOK
  BY DEF IInv
<1>2. /\ ranking' \in Seq(Users) /\ IsInjective(ranking') /\ ToSet(ranking') \subseteq Found(d)
      /\ walk'.at = "idle" => ranking' = <<>>
  BY <1>1, WriteRanks
<1>3. docs' = d /\ NoteChanges
  BY DEF Write
<1>4. WalkOK'
  BY <1>2, <1>3, NoteWalks
<1>5. TypeOK'
  <2>1. Found(d) = Found(docs')
    BY <1>3
  <2>. QED  BY <1>1, <1>2, <1>3, <2>1, NoteTypes DEF TypeOK, Statuses, Jobs
<1>. QED  BY <1>4, <1>5 DEF IInv

-----------------------------------------------------------------------------
(* Writes and the job.                                                     *)

(* Nobody whom the job was given becomes incomplete.                       *)
LEMMA JobStays ==
  ASSUME IInv, UNCHANGED job, \A u \in Users : docs[u] \in Complete => docs'[u] \in Complete
  PROVE  job' \in Jobs /\ job'.excused \subseteq job'.given /\ JobOK'
BY DEF IInv, TypeOK, JobOK, Jobs

(* Those who become incomplete are excused.                                *)
LEMMA JobExcuses ==
  ASSUME IInv, NEW lost \in SUBSET Users, job' = JobWithout(lost),
         \A u \in Users \ lost : docs[u] \in Complete => docs'[u] \in Complete
  PROVE  job' \in Jobs /\ job'.excused \subseteq job'.given /\ JobOK'
<1>1. job \in Jobs /\ job.excused \subseteq job.given /\ JobOK
  BY DEF IInv, TypeOK, Jobs
<1>2. CASE job.at \in {"running", "done"}
  <2> DEFINE excused == job.excused \cup (lost \cap job.given)
  <2>1. job' = [job EXCEPT !.excused = excused]
    BY <1>2 DEF JobWithout
  <2>2. excused \in SUBSET Users /\ excused \subseteq job.given
    BY <1>1 DEF Jobs
  <2>3. \A u \in job.given \ job.excused : u \notin excused => u \in Users \ lost
    BY <1>1 DEF Jobs
  <2>4. job.excused \subseteq excused
    OBVIOUS
  <2> HIDE DEF excused
  <2>5. /\ job' \in Jobs /\ job'.excused = excused /\ job'.at = job.at
        /\ job'.given = job.given /\ job'.left = job.left
    BY <1>1, <2>1, <2>2 DEF Jobs
  <2>6. JobOK'
    BY <1>1, <2>3, <2>4, <2>5 DEF JobOK
  <2>. QED  BY <2>2, <2>5, <2>6
<1>3. CASE job.at \notin {"running", "done"}
  <2>1. job' = job
    BY <1>3 DEF JobWithout
  <2>. QED  BY <1>1, <1>3, <2>1 DEF JobOK
<1>. QED  BY <1>2, <1>3

-----------------------------------------------------------------------------
(* The steps.                                                              *)

LEMMA Typed ==
  ASSUME IInv
  PROVE  /\ docs \in [Users -> Statuses]
         /\ exists \in BOOLEAN /\ maker \in {"idle", "dropped"}
         /\ ranking \in Seq(Users) /\ IsInjective(ranking)
         /\ job \in Jobs /\ job.excused \subseteq job.given
         /\ walk \in Walks
         /\ shown \in [seen : Seq(Users), start : SUBSET Users]
BY DEF IInv, TypeOK, Statuses, Jobs, Walks

(* A write that makes one document complete, or leaves it as complete as   *)
(* it was.                                                                 *)
LEMMA OneWritten ==
  ASSUME IInv, NEW u \in Users, NEW as \in Statuses,
         docs[u] \in Complete => as \in Complete,
         Write([docs EXCEPT ![u] = as]),
         exists' \in BOOLEAN, UNCHANGED <<maker, job, walk>>
  PROVE  IInv'
<1> DEFINE d == [docs EXCEPT ![u] = as]
<1>1. d \in [Users -> Statuses] /\ \A v \in Users : docs[v] \in Complete => d[v] \in Complete
  BY Typed
<1>2. Write(d)
  OBVIOUS
<1> HIDE DEF d
<1>3. docs' = d
  BY <1>2 DEF Write
<1>4. job' \in Jobs /\ job'.excused \subseteq job'.given /\ JobOK'
  BY <1>1, <1>3, JobStays
<1>. QED  BY <1>1, <1>2, <1>4, Typed, WriteKeeps

LEMMA IndexUserStep ==
  ASSUME IInv, NEW u \in Users, IndexUser(u)
  PROVE  IInv'
<1>1. "full" \in Statuses /\ "full" \in Complete
  BY DEF Statuses, Complete
<1>. QED  BY <1>1, OneWritten DEF IndexUser

LEMMA UpdateUserStep ==
  ASSUME IInv, NEW u \in Users, UpdateUser(u)
  PROVE  IInv'
<1>1. "full" \in Statuses /\ "full" \in Complete
  BY DEF Statuses, Complete
<1>. QED  BY <1>1, Typed, OneWritten DEF UpdateUser

LEMMA MetricsStep ==
  ASSUME IInv, NEW u \in Users, UpdateUserSocialMetrics(u)
  PROVE  IInv'
<1>1. PICK as \in IF docs[u] \notin Complete THEN {docs[u]}
                  ELSE IF u \in Counted THEN Complete ELSE {"full"} :
        Write([docs EXCEPT ![u] = as])
  BY DEF UpdateUserSocialMetrics
<1>2. docs[u] \in Statuses
  BY Typed
<1>3. as \in Statuses /\ (docs[u] \in Complete => as \in Complete)
  BY <1>1, <1>2 DEF Statuses, Complete
<1>4. UNCHANGED <<exists, maker, job, walk>>
  BY DEF UpdateUserSocialMetrics
<1>. QED  BY <1>1, <1>3, <1>4, Typed, OneWritten

(* A write that takes out some users.                                      *)
LEMMA SomeLost ==
  ASSUME IInv, NEW lost \in SUBSET Users, NEW d \in [Users -> Statuses],
         \A v \in Users \ lost : docs[v] \in Complete => d[v] \in Complete,
         Write(d), job' = JobWithout(lost),
         exists' \in BOOLEAN, maker' \in {"idle", "dropped"}, UNCHANGED walk
  PROVE  IInv'
<1>1. docs' = d
  BY DEF Write
<1>2. job' \in Jobs /\ job'.excused \subseteq job'.given /\ JobOK'
  BY <1>1, JobExcuses
<1>. QED  BY <1>2, WriteKeeps

LEMMA DeleteUserStep ==
  ASSUME IInv, NEW u \in Users, DeleteUser(u)
  PROVE  IInv'
<1> DEFINE d == [docs EXCEPT ![u] = "none"]
<1>1. d \in [Users -> Statuses] /\ \A v \in Users \ {u} : d[v] = docs[v]
  BY Typed DEF Statuses
<1>2. Write(d) /\ job' = JobWithout({u}) /\ UNCHANGED <<exists, maker, walk>>
  BY DEF DeleteUser
<1> HIDE DEF d
<1>. QED  BY <1>1, <1>2, Typed, SomeLost

LEMMA UserCreatedStep ==
  ASSUME IInv, NEW u \in Users, UserCreated(u)
  PROVE  IInv'
<1> DEFINE d == [docs EXCEPT ![u] = "event"]
<1>1. d \in [Users -> Statuses] /\ \A v \in Users \ {u} : d[v] = docs[v]
  BY Typed DEF Statuses
<1>2. Write(d) /\ job' = JobWithout({u}) /\ exists' = TRUE /\ UNCHANGED <<maker, walk>>
  BY DEF UserCreated
<1> HIDE DEF d
<1>. QED  BY <1>1, <1>2, Typed, SomeLost

LEMMA DropIndexStep ==
  ASSUME IInv, DropIndex
  PROVE  IInv'
<1> DEFINE d == [u \in Users |-> "none"]
<1>1. d \in [Users -> Statuses]
  BY DEF Statuses
<1>2. /\ Write(d) /\ job' = JobWithout(Users)
      /\ exists' = FALSE /\ maker' = "dropped" /\ UNCHANGED walk
  BY DEF DropIndex
<1> HIDE DEF d
<1>. QED  BY <1>1, <1>2, SomeLost

(* Steps that leave the documents and the ranking alone.                   *)
LEMMA MakeIndexStep ==
  ASSUME IInv, MakeIndex
  PROVE  IInv'
BY DEF MakeIndex, IInv, TypeOK, JobOK, WalkOK, Ahead, notes, Found, Matches

LEMMA StartReindexStep ==
  ASSUME IInv, NEW users \in Lists, StartReindex(users)
  PROVE  IInv'
<1>1. users \in Seq(Users)
  BY ListsAssumption
<1>2. ToSet(users) \subseteq Users
  BY <1>1 DEF ToSet
<1>3. /\ job' \in Jobs /\ job'.at = "running" /\ job'.given = ToSet(users)
      /\ job'.left = users /\ job'.excused = {}
  BY <1>1, <1>2 DEF StartReindex, NoJob, Jobs
<1>4. JobOK'
  BY <1>3 DEF JobOK
<1>5. UNCHANGED <<docs, exists, ranking, maker, walk, changes, shown>>
  BY DEF StartReindex, index, notes
<1>6. WalkOK'
  BY <1>5 DEF IInv, WalkOK, Ahead
<1>7. TypeOK'
  BY <1>3, <1>5 DEF IInv, TypeOK, Jobs, Found, Matches
<1>. QED  BY <1>4, <1>6, <1>7 DEF IInv

LEMMA ReindexReturnsStep ==
  ASSUME IInv, ReindexReturns
  PROVE  IInv'
<1>1. /\ job' \in Jobs /\ job'.at = "done" /\ job'.given = job.given
      /\ job'.left = job.left /\ job'.excused = job.excused
      /\ job.at = "running" /\ job.left = <<>>
  BY Typed DEF ReindexReturns, Jobs
<1>2. UNCHANGED <<docs, exists, ranking, maker, walk, changes, shown>>
  BY DEF ReindexReturns, index, notes
<1>3. JobOK'
  BY <1>1, <1>2 DEF IInv, JobOK
<1>4. WalkOK'
  BY <1>2 DEF IInv, WalkOK, Ahead
<1>5. TypeOK'
  BY <1>1, <1>2 DEF IInv, TypeOK, Jobs, Found, Matches
<1>. QED  BY <1>3, <1>4, <1>5 DEF IInv

(* The batch and what is left after it.                                    *)
LEMMA Batches ==
  ASSUME IInv
  PROVE  /\ BatchNow \subseteq ToSet(job.left)
         /\ SubSeq(job.left, BatchEnd + 1, Len(job.left)) \in Seq(Users)
         /\ ToSet(job.left)
              = BatchNow \cup ToSet(SubSeq(job.left, BatchEnd + 1, Len(job.left)))
<1> DEFINE s == job.left
           e == BatchEnd
<1>1. s \in Seq(Users) /\ Len(s) \in Nat
  BY Typed DEF Jobs
<1>2. e \in 0..Len(s)
  BY <1>1, SizesAssumption DEF BatchEnd
<1> HIDE DEF s, e
<1>3. /\ SubSeq(s, 1, e) \in Seq(Users) /\ Len(SubSeq(s, 1, e)) = e
      /\ \A i \in 1..e : SubSeq(s, 1, e)[i] = s[i]
  BY <1>1, <1>2
<1>4. /\ SubSeq(s, e + 1, Len(s)) \in Seq(Users)
      /\ Len(SubSeq(s, e + 1, Len(s))) = Len(s) - e
      /\ \A i \in 1..(Len(s) - e) : SubSeq(s, e + 1, Len(s))[i] = s[e + i]
  BY <1>1, <1>2
<1>5. ToSet(SubSeq(s, 1, e)) = {s[i] : i \in 1..e}
  BY <1>3 DEF ToSet
<1>6. ToSet(SubSeq(s, e + 1, Len(s))) = {s[i] : i \in (e + 1)..Len(s)}
  <2> DEFINE t == SubSeq(s, e + 1, Len(s))
  <2>1. DOMAIN t = 1..(Len(s) - e)
    BY <1>4
  <2>2. \A i \in 1..(Len(s) - e) : e + i \in (e + 1)..Len(s) /\ t[i] = s[e + i]
    BY <1>1, <1>2, <1>4
  <2>3. \A i \in (e + 1)..Len(s) : i - e \in 1..(Len(s) - e) /\ t[i - e] = s[i]
    BY <1>1, <1>2, <1>4
  <2> HIDE DEF t
  <2>4. ToSet(t) = {s[i] : i \in (e + 1)..Len(s)}
    BY <2>1, <2>2, <2>3 DEF ToSet
  <2>. QED  BY <2>4 DEF t
<1>7. ToSet(s) = {s[i] : i \in 1..Len(s)}
  BY <1>1 DEF ToSet
<1>8. 1..Len(s) = (1..e) \cup ((e + 1)..Len(s))
  BY <1>1, <1>2
<1>. QED  BY <1>4, <1>5, <1>6, <1>7, <1>8 DEF BatchNow, s, e

(* What a batch writes is complete, and nothing else changes.              *)
LEMMA Written ==
  ASSUME IInv, NEW batch
  PROVE  /\ WrittenBy(batch) \in [Users -> Statuses]
         /\ \A u \in Users : docs[u] \in Complete => WrittenBy(batch)[u] \in Complete
         /\ \A u \in Users \cap batch : WrittenBy(batch)[u] \in Complete
BY Typed DEF WrittenBy, Statuses, Complete

LEMMA BatchStep ==
  ASSUME IInv, Batch
  PROVE  IInv'
<1>1. PICK refused \in SUBSET BatchNow :
        /\ Write(WrittenBy(BatchNow \ refused))
        /\ job' = [job EXCEPT
             !.left = SubSeq(@, BatchEnd + 1, Len(@)),
             !.excused = (@ \ BatchNow) \cup refused]
  BY DEF Batch
<1> DEFINE left == SubSeq(job.left, BatchEnd + 1, Len(job.left))
           excused == (job.excused \ BatchNow) \cup refused
           d == WrittenBy(BatchNow \ refused)
<1>2. job \in Jobs /\ job.excused \subseteq job.given /\ JobOK /\ job.at = "running"
  BY Typed DEF IInv, Batch
<1>3. /\ left \in Seq(Users) /\ BatchNow \subseteq ToSet(job.left)
      /\ ToSet(job.left) = BatchNow \cup ToSet(left)
  BY Batches
<1>4. ToSet(job.left) \subseteq job.given /\ job.given \subseteq Users
  BY <1>2 DEF JobOK, Jobs
<1>5. excused \subseteq job.given /\ excused \in SUBSET Users
  BY <1>2, <1>3, <1>4
<1>6. /\ d \in [Users -> Statuses]
      /\ \A u \in Users : docs[u] \in Complete => d[u] \in Complete
      /\ \A u \in Users \cap (BatchNow \ refused) : d[u] \in Complete
  BY Written
<1>7. job' = [job EXCEPT !.left = left, !.excused = excused]
  BY <1>1, <1>2 DEF Jobs
<1>8. \A u \in job.given : u \in excused \/ u \in ToSet(left) \/ d[u] \in Complete
  <2>1. SUFFICES ASSUME NEW u \in job.given, u \notin excused, u \notin ToSet(left)
                 PROVE  d[u] \in Complete
    OBVIOUS
  <2>2. CASE u \in BatchNow
    BY <1>4, <1>6, <2>1, <2>2
  <2>3. CASE u \notin BatchNow
    <3>1. docs[u] \in Complete
      BY <1>2, <1>3, <2>1, <2>3 DEF JobOK
    <3>. QED  BY <1>4, <1>6, <2>1, <3>1
  <2>. QED  BY <2>2, <2>3
<1>9. Write(d) /\ docs' = d
  BY <1>1 DEF Write
<1> HIDE DEF left, excused, d
<1>10. /\ job' \in Jobs /\ job'.at = "running" /\ job'.given = job.given
       /\ job'.left = left /\ job'.excused = excused
  BY <1>2, <1>3, <1>5, <1>7 DEF Jobs
<1>11. JobOK'
  BY <1>3, <1>4, <1>8, <1>9, <1>10 DEF JobOK
<1>12. exists' \in BOOLEAN /\ maker' \in {"idle", "dropped"} /\ UNCHANGED walk
  BY Typed DEF Batch
<1>. QED  BY <1>5, <1>6, <1>9, <1>10, <1>11, <1>12, WriteKeeps

LEMMA BatchFailsStep ==
  ASSUME IInv, BatchFails
  PROVE  IInv'
<1>1. PICK done \in {{}, BatchNow} :
        Write(WrittenBy(done)) /\ exists' = (exists \/ done # {})
  BY DEF BatchFails
<1>2. WrittenBy(done) \in [Users -> Statuses]
  BY Written
<1>3. job' = NoJob /\ UNCHANGED <<maker, walk>>
  BY DEF BatchFails
<1>4. /\ job' \in Jobs /\ job'.excused \subseteq job'.given
      /\ job'.at = "idle" /\ job'.left = <<>>
  BY <1>3 DEF NoJob, Jobs
<1>5. JobOK'
  BY <1>4 DEF JobOK, ToSet
<1>6. exists' \in BOOLEAN /\ maker' \in {"idle", "dropped"} /\ UNCHANGED walk
  BY <1>1, <1>3, Typed
<1>. QED  BY <1>1, <1>2, <1>4, <1>5, <1>6, WriteKeeps

-----------------------------------------------------------------------------
(* The walk.                                                               *)

(* A page with a token is full.                                            *)
LEMMA PageFull ==
  ASSUME IInv, ~ Refused, GivesToken(PageNow)
  PROVE  /\ walk.limit \in Nat \ {0} /\ walk.offset \in Nat
         /\ walk.offset + walk.limit <= Len(ranking)
         /\ PageNow = SubSeq(ranking, walk.offset + 1, walk.offset + walk.limit)
         /\ PageNow \in Seq(Users) /\ Len(PageNow) = walk.limit
         /\ \A i \in 1..walk.limit : PageNow[i] = ranking[walk.offset + i]
<1> DEFINE o == walk.offset
           l == walk.limit
           n == Len(ranking)
           e == IF o + walk.limit < n THEN o + walk.limit ELSE n
<1>1. ranking \in Seq(Users) /\ n \in Nat /\ l \in Nat /\ o \in Int
  BY Typed DEF Walks
<1>2. o >= 0
  BY <1>1 DEF Refused
<1>3. PageNow = SubSeq(ranking, o + 1, e)
  BY DEF PageNow
<1>4. Len(PageNow) = l /\ PageNow # <<>>
  BY DEF GivesToken
<1>5. e \in Int /\ e <= n /\ e <= o + l
  BY <1>1
<1> HIDE DEF e, o, l, n
<1>6. Len(PageNow) = IF o + 1 <= e THEN e - o ELSE 0
  BY <1>1, <1>2, <1>3, <1>5 DEF n
<1>7. l # 0
  <2>1. SUFFICES ASSUME l = 0 PROVE FALSE
    OBVIOUS
  <2>2. e <= o
    BY <1>1, <1>5, <2>1
  <2>3. SubSeq(ranking, o + 1, e) = <<>>
    BY <1>1, <1>2, <1>5, <2>2 DEF n
  <2>. QED  BY <1>3, <1>4, <2>3
<1>8. e = o + l
  BY <1>1, <1>4, <1>5, <1>6, <1>7
<1>9. /\ PageNow \in Seq(Users)
      /\ \A i \in 1..l : PageNow[i] = ranking[o + i]
  BY <1>1, <1>2, <1>3, <1>5, <1>8 DEF n
<1>10. PageNow = SubSeq(ranking, o + 1, o + l) /\ o + l <= n
  BY <1>3, <1>5, <1>8
<1>11. l \in Nat \ {0} /\ o \in Nat
  BY <1>1, <1>2, <1>7
<1>. QED  BY <1>4, <1>9, <1>10, <1>11 DEF o, l, n

LEMMA SearchUsersStep ==
  ASSUME IInv, SearchUsers
  PROVE  IInv'
<1> DEFINE o == walk.offset
           l == walk.limit
           seen == shown.seen
           page == PageNow
           new == seen \o page
<1>1. /\ walk.at = "asking" /\ ~ Refused /\ GivesToken(page)
      /\ walk' = [walk EXCEPT !.offset = o + l]
      /\ shown' = IF Tells(changes) THEN [shown EXCEPT !.seen = new] ELSE shown
      /\ UNCHANGED <<docs, exists, ranking, maker, job, changes>>
  BY DEF SearchUsers, NextOffset, index
<1>2. /\ l \in Nat \ {0} /\ o \in Nat /\ o + l <= Len(ranking)
      /\ page = SubSeq(ranking, o + 1, o + l)
      /\ page \in Seq(Users) /\ Len(page) = l
      /\ \A i \in 1..l : page[i] = ranking[o + i]
  BY <1>1, PageFull
<1>3. /\ walk \in Walks /\ ranking \in Seq(Users) /\ IsInjective(ranking)
      /\ shown \in [seen : Seq(Users), start : SUBSET Users]
  BY Typed
<1>4. seen \in Seq(Users)
  BY <1>3
<1> HIDE DEF page, o, l, seen
<1>5. /\ new \in Seq(Users) /\ Len(new) = Len(seen) + l
      /\ \A i \in 1..Len(seen) : new[i] = seen[i]
      /\ \A i \in 1..l : new[Len(seen) + i] = page[i]
      /\ Len(seen) \in Nat /\ DOMAIN seen = 1..Len(seen) /\ DOMAIN new = 1..Len(new)
  BY <1>2, <1>4
<1> HIDE DEF new
<1>6. /\ walk' \in Walks /\ walk'.offset = o + l /\ walk'.at = walk.at
      /\ walk'.top = walk.top
  <2>1. o + l \in Int
    BY <1>2
  <2>. QED  BY <1>1, <1>3, <2>1 DEF Walks
<1>7. /\ shown' \in [seen : Seq(Users), start : SUBSET Users]
      /\ Tells(changes) => shown'.seen = new /\ shown'.start = shown.start
  BY <1>1, <1>3, <1>5
<1>8. ASSUME walk.top, Tells(changes)
      PROVE
        /\ o + l = Len(new)
        /\ changes = {} => o + l <= Len(ranking) /\ new = SubSeq(ranking, 1, o + l)
        /\ changes \subseteq {"removed"} => IsInjective(new) /\ ToSet(new) \cap Ahead' = {}
        /\ changes \subseteq {"added"} => shown.start \subseteq ToSet(new) \cup Ahead'
  <2>1. /\ o = Len(seen)
        /\ changes = {} => o <= Len(ranking) /\ seen = SubSeq(ranking, 1, o)
        /\ changes \subseteq {"removed"} => IsInjective(seen) /\ ToSet(seen) \cap Ahead = {}
        /\ changes \subseteq {"added"} => shown.start \subseteq ToSet(seen) \cup Ahead
    BY <1>1, <1>8 DEF IInv, WalkOK, o, seen
  <2>2. o + l = Len(new)
    BY <1>5, <2>1
  <2>3. /\ \A i \in 1..o : new[i] = seen[i]
        /\ \A i \in 1..l : new[o + i] = ranking[o + i]
        /\ DOMAIN new = 1..(o + l) /\ DOMAIN seen = 1..o
        /\ DOMAIN ranking = 1..Len(ranking) /\ Len(ranking) \in Nat
    <3>1. /\ DOMAIN ranking = 1..Len(ranking) /\ Len(ranking) \in Nat
          /\ DOMAIN new = 1..(o + l) /\ DOMAIN seen = 1..o
      BY <1>3, <1>5, <2>1, <2>2
    <3>2. \A i \in 1..o : new[i] = seen[i]
      BY <1>5, <2>1
    <3>3. \A i \in 1..l : new[o + i] = page[i] /\ page[i] = ranking[o + i]
      BY <1>2, <1>5, <2>1
    <3>. QED  BY <3>1, <3>2, <3>3
  <2>4. \A k \in (o + 1)..(o + l) : new[k] = ranking[k] /\ k \in DOMAIN ranking
    <3>0. o \in Nat /\ l \in Nat /\ o + l <= Len(ranking)
      BY <1>2
    <3>1. \A k \in (o + 1)..(o + l) : k - o \in 1..l /\ o + (k - o) = k
      BY <3>0
    <3>2. \A k \in (o + 1)..(o + l) : k \in DOMAIN ranking
      BY <2>3, <3>0
    <3>3. SUFFICES ASSUME NEW k \in (o + 1)..(o + l) PROVE new[k] = ranking[k]
      BY <3>2
    <3>4. PICK i \in 1..l : o + i = k
      BY <3>1
    <3>. QED  BY <2>3, <3>4
  <2>5. Ahead' = {ranking[j] : j \in {i \in DOMAIN ranking : i > o + l}}
    BY <1>1, <1>6 DEF Ahead
  <2>6. ASSUME changes = {} PROVE new = SubSeq(ranking, 1, o + l)
    <3> DEFINE t == SubSeq(ranking, 1, o + l)
    <3>1. /\ t \in Seq(Users) /\ Len(t) = o + l
          /\ \A i \in 1..(o + l) : t[i] = ranking[i]
      BY <1>2, <1>3
    <3>2. \A i \in 1..o : seen[i] = ranking[i]
      <4>1. seen = SubSeq(ranking, 1, o) /\ o <= Len(ranking)
        BY <2>1, <2>6
      <4>. QED  BY <1>2, <1>3, <4>1
    <3> HIDE DEF t
    <3>3. \A i \in 1..(o + l) : new[i] = t[i]
      BY <1>2, <2>3, <2>4, <3>1, <3>2
    <3>4. new = t
      BY <1>5, <2>2, <3>1, <3>3
    <3>. QED  BY <3>4 DEF t
  <2>7. ASSUME changes \subseteq {"removed"}
        PROVE  IsInjective(new) /\ ToSet(new) \cap Ahead' = {}
    <3>1. \A i, j \in 1..o : seen[i] = seen[j] => i = j
      BY <2>1, <2>3, <2>7 DEF IsInjective
    <3>2. \A i \in 1..o, j \in DOMAIN ranking : j > o => seen[i] # ranking[j]
      <4>1. ToSet(seen) \cap Ahead = {}
        BY <2>1, <2>7
      <4>2. \A i \in 1..o : seen[i] \in ToSet(seen)
        BY <2>3 DEF ToSet
      <4>3. \A j \in DOMAIN ranking : j > o => ranking[j] \in Ahead
        BY DEF Ahead, o
      <4>. QED  BY <4>1, <4>2, <4>3
    <3>3. \A i, j \in DOMAIN ranking : ranking[i] = ranking[j] => i = j
      BY <1>3 DEF IsInjective
    <3>4. \A i \in DOMAIN new : i \in 1..o \/ i \in (o + 1)..(o + l)
      BY <1>2, <2>3
    <3>5. IsInjective(new)
      <4>1. SUFFICES ASSUME NEW i \in DOMAIN new, NEW j \in DOMAIN new, new[i] = new[j]
                     PROVE  i = j
        BY DEF IsInjective
      <4>2. CASE i \in 1..o /\ j \in 1..o
        BY <2>3, <3>1, <4>1, <4>2
      <4>3. CASE i \in 1..o /\ j \in (o + 1)..(o + l)
        BY <1>2, <2>3, <2>4, <3>2, <4>1, <4>3
      <4>4. CASE i \in (o + 1)..(o + l) /\ j \in 1..o
        BY <1>2, <2>3, <2>4, <3>2, <4>1, <4>4
      <4>5. CASE i \in (o + 1)..(o + l) /\ j \in (o + 1)..(o + l)
        BY <2>4, <3>3, <4>1, <4>5
      <4>. QED  BY <3>4, <4>2, <4>3, <4>4, <4>5
    <3>6. ASSUME NEW i \in DOMAIN new, NEW j \in DOMAIN ranking, j > o + l
          PROVE  new[i] # ranking[j]
      <4>1. CASE i \in 1..o
        BY <1>2, <2>3, <3>2, <3>6, <4>1
      <4>2. CASE i \in (o + 1)..(o + l)
        BY <1>2, <2>4, <3>3, <3>6, <4>2
      <4>. QED  BY <3>4, <4>1, <4>2
    <3>. QED  BY <2>5, <3>5, <3>6 DEF ToSet
  <2>8. ASSUME changes \subseteq {"added"} PROVE shown.start \subseteq ToSet(new) \cup Ahead'
    <3>1. SUFFICES ASSUME NEW u \in shown.start PROVE u \in ToSet(new) \cup Ahead'
      OBVIOUS
    <3>2. CASE u \in ToSet(seen)
      <4>1. PICK i \in 1..o : u = seen[i]
        BY <2>3, <3>2 DEF ToSet
      <4>2. i \in DOMAIN new /\ new[i] = u
        BY <1>2, <2>3, <4>1
      <4>. QED  BY <4>2 DEF ToSet
    <3>3. CASE u \in Ahead
      <4>1. PICK j \in DOMAIN ranking : j > o /\ u = ranking[j]
        BY <3>3 DEF Ahead, o
      <4>2. CASE j > o + l
        BY <2>5, <4>1, <4>2
      <4>3. CASE ~ (j > o + l)
        <5>1. j \in (o + 1)..(o + l) /\ j \in DOMAIN new
          BY <1>2, <2>3, <4>1, <4>3
        <5>. QED  BY <2>4, <4>1, <5>1 DEF ToSet
      <4>. QED  BY <4>2, <4>3
    <3>. QED  BY <2>1, <2>8, <3>1, <3>2, <3>3
  <2>. QED  BY <1>2, <2>2, <2>6, <2>7, <2>8
<1>9. WalkOK'
  BY <1>1, <1>6, <1>7, <1>8 DEF WalkOK
<1>10. TypeOK'
  BY <1>1, <1>6, <1>7 DEF IInv, TypeOK, Walks, Found, Matches
<1>11. JobOK'
  BY <1>1 DEF IInv, JobOK
<1>. QED  BY <1>9, <1>10, <1>11 DEF IInv

(* Whatever order a search answers in.                                     *)
LEMMA Ordered ==
  ASSUME NEW d, NEW r \in Orders(d)
  PROVE  r \in Seq(Users) /\ IsInjective(r) /\ ToSet(r) \subseteq Found(d)
<1>1. PICK S \in SUBSET Found(d) : r \in Rankings[S]
  <2>1. PICK S \in SUBSET Found(d) : r \in Rankings[S]
    BY DEF Orders
  <2>. QED  BY <2>1
<1>2. S \in SUBSET Users
  BY DEF Found
<1>. QED  BY <1>1, <1>2, RankingsAre

LEMMA RankAnewStep ==
  ASSUME IInv, RankAnew
  PROVE  IInv'
<1>1. ranking' \in Seq(Users) /\ IsInjective(ranking') /\ ToSet(ranking') \subseteq Found(docs)
  BY Ordered DEF RankAnew
<1>2. walk.at = "asking" /\ NoteChanges /\ UNCHANGED <<docs, exists, maker, job, walk>>
  BY DEF RankAnew
<1>3. WalkOK'
  BY <1>1, <1>2, NoteWalks
<1>4. TypeOK'
  <2>1. Found(docs) = Found(docs') /\ walk'.at # "idle"
    BY <1>2
  <2>. QED  BY <1>1, <1>2, <2>1, NoteTypes DEF IInv, TypeOK
<1>5. JobOK'
  BY <1>2 DEF IInv, JobOK
<1>. QED  BY <1>3, <1>4, <1>5 DEF IInv

LEMMA StartWalkStep ==
  ASSUME IInv, NEW limit \in Limits, NEW token \in Tokens, StartWalk(limit, token)
  PROVE  IInv'
<1>1. limit \in Nat /\ OffsetOf(token) \in Int
  BY LimitsAssumption, TokensAssumption DEF OffsetOf
<1>2. /\ walk' \in Walks /\ walk'.offset = OffsetOf(token) /\ walk'.at = "asking"
      /\ walk'.top => walk'.offset = 0
  BY <1>1 DEF StartWalk, Walks
<1>3. ranking' \in Seq(Users) /\ IsInjective(ranking') /\ ToSet(ranking') \subseteq Found(docs)
  BY Ordered DEF StartWalk
<1>4. ToSet(ranking') \subseteq Users
  BY <1>3 DEF ToSet
<1>5. /\ shown' \in [seen : Seq(Users), start : SUBSET Users]
      /\ shown'.seen = <<>> /\ (walk'.top => shown'.start = ToSet(ranking')) /\ changes' = {}
      /\ UNCHANGED <<docs, exists, maker, job>>
  BY <1>4 DEF StartWalk, NothingShown
<1>6. ASSUME walk'.top PROVE ToSet(ranking') = Ahead'
  <2>1. \A i \in DOMAIN ranking' : i > 0
    BY <1>3
  <2>2. ToSet(ranking') = {ranking'[j] : j \in {i \in DOMAIN ranking' : i > 0}}
    BY <2>1 DEF ToSet
  <2>. QED  BY <1>2, <1>6, <2>2 DEF Ahead
<1>7. WalkOK'
  <2>1. SubSeq(ranking', 1, 0) = <<>> /\ Len(ranking') >= 0 /\ Len(<<>>) = 0
    BY <1>3
  <2>2. IsInjective(<<>>) /\ ToSet(<<>>) = {}
    BY DEF IsInjective, ToSet
  <2>. QED  BY <1>2, <1>5, <1>6, <2>1, <2>2 DEF WalkOK
<1>8. TypeOK'
  <2>1. Found(docs) = Found(docs')
    BY <1>5
  <2>. QED  BY <1>2, <1>3, <1>5, <2>1 DEF IInv, TypeOK, Walks
<1>9. JobOK'
  BY <1>5 DEF IInv, JobOK
<1>. QED  BY <1>7, <1>8, <1>9 DEF IInv

LEMMA WalkOver ==
  ASSUME IInv, EndWalk
  PROVE  IInv'
<1>1. NoWalk \in Walks /\ NothingShown \in [seen : Seq(Users), start : SUBSET Users]
  BY DEF NoWalk, Walks, NothingShown
<1>2. <<>> \in Seq(Users) /\ IsInjective(<<>>) /\ ToSet(<<>>) = {}
  BY DEF IsInjective, ToSet
<1>3. /\ walk' = NoWalk /\ ranking' = <<>> /\ changes' = {} /\ shown' = NothingShown
      /\ UNCHANGED <<docs, exists, maker, job>>
  BY DEF EndWalk
<1>4. TypeOK'
  BY <1>1, <1>2, <1>3 DEF IInv, TypeOK, Walks
<1>5. JobOK' /\ WalkOK'
  BY <1>3 DEF IInv, JobOK, WalkOK, NoWalk
<1>. QED  BY <1>4, <1>5 DEF IInv

-----------------------------------------------------------------------------
(* The theorems.                                                           *)

LEMMA InitOK == Init => IInv
<1>1. SUFFICES ASSUME Init PROVE IInv
  OBVIOUS
<1>2. /\ docs = [u \in Users |-> "none"] /\ ranking = <<>> /\ job = NoJob /\ walk = NoWalk
      /\ exists = TRUE /\ maker = "idle" /\ changes = {} /\ shown = NothingShown
  BY <1>1 DEF Init
<1>3. Found(docs) = {} /\ ToSet(ranking) = {} /\ IsInjective(ranking)
  BY <1>2 DEF Found, Matches, Complete, ToSet, IsInjective
<1>4. job \in Jobs /\ job.excused \subseteq job.given /\ walk \in Walks
  BY <1>2 DEF NoJob, Jobs, NoWalk, Walks
<1>5. TypeOK
  <2>1. docs \in [Users -> {"none", "event"} \cup Complete] /\ ranking \in Seq(Users)
    BY <1>2
  <2>2. shown \in [seen : Seq(Users), start : SUBSET Users]
    BY <1>2 DEF NothingShown
  <2>. QED  BY <1>2, <1>3, <1>4, <2>1, <2>2 DEF TypeOK, Jobs, Walks
<1>6. JobOK /\ WalkOK
  BY <1>2 DEF JobOK, WalkOK, NoJob, NoWalk, ToSet
<1>. QED  BY <1>5, <1>6 DEF IInv

LEMMA NextOK == IInv /\ [Next]_vars => IInv'
<1>1. SUFFICES ASSUME IInv, [Next]_vars PROVE IInv'
  OBVIOUS
<1>2. ASSUME Writers PROVE IInv'
  BY <1>1, <1>2, IndexUserStep, UpdateUserStep, MetricsStep, DeleteUserStep, UserCreatedStep
  DEF Writers
<1>3. ASSUME NEW users \in Lists, StartReindex(users) PROVE IInv'
  BY <1>1, <1>3, StartReindexStep
<1>4. ASSUME NEW limit \in Limits, NEW token \in Tokens, StartWalk(limit, token) PROVE IInv'
  BY <1>1, <1>4, StartWalkStep
<1>5. ASSUME SearchUsersLast \/ SearchUsersFails PROVE IInv'
  BY <1>1, <1>5, WalkOver DEF SearchUsersLast, SearchUsersFails
<1>6. CASE UNCHANGED vars
  BY <1>1, <1>6
  DEF vars, index, notes, IInv, TypeOK, JobOK, WalkOK, Ahead, Found, Matches
<1>. QED  BY <1>1, <1>2, <1>3, <1>4, <1>5, <1>6, DropIndexStep, MakeIndexStep, RankAnewStep, BatchStep,
            BatchFailsStep, ReindexReturnsStep, SearchUsersStep DEF Next

(* What holds in every state of the index, the reindex and the walk.       *)
THEOREM InductiveInvariant == Spec => []IInv
BY InitOK, NextOK, PTL DEF Spec

(* Every variable has its type, and the ranking names each user that a     *)
(* search finds, once (search_service.go:52-59).                           *)
THEOREM TypeCorrect == Spec => []TypeOK
BY InductiveInvariant, PTL DEF IInv

(* A reindex that succeeds leaves whom it was given complete, but for      *)
(* those refused or taken out since (user_indexer.go:249-273).             *)
THEOREM ReindexCorrect == Spec => []ReindexCovers
<1>1. IInv => ReindexCovers
  BY DEF IInv, JobOK, ReindexCovers, ToSet
<1>. QED  BY <1>1, InductiveInvariant, PTL

(* The last page of a walk from the top reaches the end of the ranking.    *)
LEMMA LastPage ==
  ASSUME IInv, walk.top, walk.limit > 0, SearchUsersLast, walk.offset = Len(shown.seen)
  PROVE  PageNow = SubSeq(ranking, walk.offset + 1, Len(ranking))
<1> DEFINE o == walk.offset
           l == walk.limit
           n == Len(ranking)
           e == IF o + l < n THEN o + l ELSE n
<1>1. ranking \in Seq(Users) /\ n \in Nat /\ l \in Nat /\ l > 0 /\ o \in Int
  BY Typed DEF Walks
<1>2. shown.seen \in Seq(Users)
  BY Typed
<1>3. o \in Nat
  BY <1>2
<1>4. PageNow = SubSeq(ranking, o + 1, e) /\ ~ GivesToken(PageNow)
  BY DEF PageNow, SearchUsersLast
<1> HIDE DEF o, l
<1>5. SUFFICES ASSUME o + l < n PROVE FALSE
  BY <1>1, <1>4 DEF o, l
<1>6. PageNow = SubSeq(ranking, o + 1, o + l)
  BY <1>4, <1>5
<1>7. Len(PageNow) = l /\ PageNow # <<>>
  <2>1. Len(SubSeq(ranking, o + 1, o + l)) = l
    BY <1>1, <1>3, <1>5
  <2>2. Len(PageNow) = l /\ l # 0 /\ Len(<<>>) = 0
    BY <1>1, <1>6, <2>1
  <2>. QED  BY <2>2
<1>. QED  BY <1>4, <1>7 DEF GivesToken, l

(* What the walk has shown, and the last page.                             *)
LEMMA WalkEnds ==
  ASSUME IInv, Ends
  PROVE  /\ changes = {} => Shown = ranking
         /\ changes \subseteq {"removed"} => IsInjective(Shown)
         /\ changes \subseteq {"added"} => shown.start \subseteq ToSet(Shown)
<1> DEFINE o == walk.offset
           seen == shown.seen
           rest == SubSeq(ranking, o + 1, Len(ranking))
           all == seen \o rest
<1>1. SUFFICES ASSUME Tells(changes)
               PROVE  /\ changes = {} => Shown = ranking
                      /\ changes \subseteq {"removed"} => IsInjective(Shown)
                      /\ changes \subseteq {"added"} => shown.start \subseteq ToSet(Shown)
  BY DEF Tells
<1>2. walk.at = "asking" /\ walk.top /\ walk.limit > 0 /\ SearchUsersLast
  BY DEF Ends, SearchUsersLast
<1>3. /\ o = Len(seen)
      /\ changes = {} => o <= Len(ranking) /\ seen = SubSeq(ranking, 1, o)
      /\ changes \subseteq {"removed"} => IsInjective(seen) /\ ToSet(seen) \cap Ahead = {}
      /\ changes \subseteq {"added"} => shown.start \subseteq ToSet(seen) \cup Ahead
  BY <1>1, <1>2 DEF IInv, WalkOK
<1>4. Shown = all
  BY <1>2, <1>3, LastPage DEF Shown, all
<1>5. ranking \in Seq(Users) /\ IsInjective(ranking) /\ seen \in Seq(Users)
  BY Typed
<1>6. Ahead = {ranking[j] : j \in {i \in DOMAIN ranking : i > o}}
  BY DEF Ahead
<1> HIDE DEF o, seen, all
<1>7. o \in Nat /\ Len(ranking) \in Nat /\ DOMAIN ranking = 1..Len(ranking)
      /\ DOMAIN seen = 1..o
  BY <1>3, <1>5
<1>8. CASE o >= Len(ranking)
  <2>1. rest = <<>>
    BY <1>5, <1>7, <1>8
  <2>2. all = seen
    BY <1>5, <2>1, ConcatEmptySeq DEF all
  <2>3. Ahead = {}
    BY <1>6, <1>7, <1>8
  <2>4. ASSUME changes = {} PROVE all = ranking
    <3>0. seen = SubSeq(ranking, 1, o) /\ o <= Len(ranking)
      BY <1>3, <2>4
    <3>1. seen = SubSeq(ranking, 1, o) /\ o = Len(ranking)
      <4>1. PICK n \in Nat : n = Len(ranking)
        BY <1>7
      <4>2. o <= n /\ o >= n
        BY <1>8, <3>0, <4>1
      <4>3. o \in Int /\ n \in Int
        BY <1>7
      <4>4. o = n
        BY <4>2, <4>3
      <4>. QED  BY <3>0, <4>1, <4>4
    <3>2. seen = SubSeq(ranking, 1, Len(ranking))
      BY <3>1
    <3>. QED  BY <1>5, <2>2, <3>2, SubSeqFull
  <2>. QED  BY <1>3, <1>4, <2>2, <2>3, <2>4
<1>9. CASE o < Len(ranking)
  <2>1. /\ rest \in Seq(Users) /\ Len(rest) = Len(ranking) - o
        /\ \A i \in 1..(Len(ranking) - o) : rest[i] = ranking[o + i]
    <3>1. PICK n \in Nat : n = Len(ranking)
      BY <1>7
    <3>2. /\ SubSeq(ranking, o + 1, n) \in Seq(Users)
          /\ Len(SubSeq(ranking, o + 1, n)) = n - o
          /\ \A i \in 1..(n - o) : SubSeq(ranking, o + 1, n)[i] = ranking[o + i]
      <4>1. \A i \in (o + 1)..n : ranking[i] \in Users
        BY <1>5, <1>7, <3>1
      <4>2. o + 1 \in Int /\ o + 1 <= n /\ n - (o + 1) + 1 = n - o
        BY <1>7, <1>9, <3>1
      <4>3. /\ SubSeq(ranking, o + 1, n) \in Seq(Users)
            /\ Len(SubSeq(ranking, o + 1, n)) = IF o + 1 <= n THEN n - (o + 1) + 1 ELSE 0
            /\ \A i \in 1..(n - (o + 1) + 1) :
                 SubSeq(ranking, o + 1, n)[i] = ranking[(o + 1) + i - 1]
        BY <3>1, <4>1, <4>2, SubSeqProperties
      <4>4. \A i \in 1..(n - o) : (o + 1) + i - 1 = o + i
        BY <1>7
      <4>. QED  BY <4>2, <4>3, <4>4
    <3>. QED  BY <3>1, <3>2 DEF rest
  <2>2. /\ all \in Seq(Users) /\ Len(all) = Len(ranking) /\ DOMAIN all = 1..Len(ranking)
        /\ \A i \in 1..o : all[i] = seen[i]
        /\ \A i \in 1..(Len(ranking) - o) : all[o + i] = rest[i]
    <3>1. PICK n \in Nat : n = Len(ranking)
      BY <1>7
    <3>2. rest \in Seq(Users) /\ Len(rest) = n - o /\ Len(seen) = o
      BY <1>3, <2>1, <3>1
    <3>3. all = seen \o rest
      BY DEF all
    <3> HIDE DEF rest
    <3>4. all \in Seq(Users) /\ Len(all) = n
      <4>1. all \in Seq(Users) /\ Len(all) = Len(seen) + Len(rest)
        BY <1>5, <3>2, <3>3, ConcatProperties
      <4>. QED  BY <1>7, <3>1, <3>2, <4>1
    <3>5. DOMAIN all = 1..n
      BY <3>4
    <3>6. \A i \in 1..o : all[i] = seen[i]
      BY <1>5, <1>7, <3>2, <3>3
    <3>7. \A i \in 1..(n - o) : all[o + i] = rest[i]
      BY <1>5, <1>7, <1>9, <3>1, <3>2, <3>3
    <3>. QED  BY <3>1, <3>4, <3>5, <3>6, <3>7
  <2> HIDE DEF all
  <2>3. \A i \in (o + 1)..Len(ranking) : all[i] = ranking[i]
    <3>1. SUFFICES ASSUME NEW i \in (o + 1)..Len(ranking) PROVE all[i] = ranking[i]
      OBVIOUS
    <3>2. PICK k \in 1..(Len(ranking) - o) : o + k = i
      <4>1. i - o \in 1..(Len(ranking) - o) /\ o + (i - o) = i
        BY <1>7, <1>9, <3>1
      <4>. QED  BY <4>1
    <3>. QED  BY <2>1, <2>2, <3>2
  <2>4. \A i \in DOMAIN all : i \in 1..o \/ i \in (o + 1)..Len(ranking)
    BY <1>7, <1>9, <2>2
  <2>5. ASSUME changes = {} PROVE all = ranking
    <3>1. seen = SubSeq(ranking, 1, o) /\ o <= Len(ranking)
      BY <1>3, <2>5
    <3>2. \A i \in 1..o : seen[i] = ranking[i]
      BY <1>5, <1>7, <3>1
    <3>3. \A i \in 1..Len(ranking) : all[i] = ranking[i]
      BY <2>2, <2>3, <2>4, <3>2
    <3>. QED  BY <1>5, <2>2, <3>3
  <2>6. ASSUME changes \subseteq {"removed"} PROVE IsInjective(all)
    <3>1. SUFFICES ASSUME NEW i \in DOMAIN all, NEW j \in DOMAIN all, all[i] = all[j]
                   PROVE  i = j
      BY DEF IsInjective
    <3>2. \A a, b \in DOMAIN ranking : ranking[a] = ranking[b] => a = b
      BY <1>5 DEF IsInjective
    <3>3. \A a, b \in 1..o : seen[a] = seen[b] => a = b
      BY <1>3, <1>7, <2>6 DEF IsInjective
    <3>4. \A a \in 1..o, b \in (o + 1)..Len(ranking) : seen[a] # ranking[b]
      <4>1. ToSet(seen) \cap Ahead = {}
        BY <1>3, <2>6
      <4>2. \A a \in 1..o : seen[a] \in ToSet(seen)
        BY <1>7 DEF ToSet
      <4>3. \A b \in (o + 1)..Len(ranking) : ranking[b] \in Ahead
        BY <1>6, <1>7
      <4>. QED  BY <4>1, <4>2, <4>3
    <3>5. CASE i \in 1..o /\ j \in 1..o
      BY <2>2, <3>1, <3>3, <3>5
    <3>6. CASE i \in 1..o /\ j \in (o + 1)..Len(ranking)
      BY <2>2, <2>3, <3>1, <3>4, <3>6
    <3>7. CASE i \in (o + 1)..Len(ranking) /\ j \in 1..o
      BY <2>2, <2>3, <3>1, <3>4, <3>7
    <3>8. CASE i \in (o + 1)..Len(ranking) /\ j \in (o + 1)..Len(ranking)
      BY <1>7, <2>3, <3>1, <3>2, <3>8
    <3>. QED  BY <2>4, <3>5, <3>6, <3>7, <3>8
  <2>7. ASSUME changes \subseteq {"added"} PROVE shown.start \subseteq ToSet(all)
    <3>1. ToSet(seen) \subseteq ToSet(all)
      <4>1. SUFFICES ASSUME NEW i \in 1..o PROVE seen[i] \in ToSet(all)
        BY <1>7 DEF ToSet
      <4>2. i \in DOMAIN all /\ all[i] = seen[i]
        BY <1>7, <1>9, <2>2
      <4>. QED  BY <4>2 DEF ToSet
    <3>2. Ahead \subseteq ToSet(all)
      <4>1. SUFFICES ASSUME NEW j \in DOMAIN ranking, j > o PROVE ranking[j] \in ToSet(all)
        BY <1>6
      <4>2. j \in DOMAIN all /\ all[j] = ranking[j]
        BY <1>7, <2>2, <2>3, <4>1
      <4>. QED  BY <4>2 DEF ToSet
    <3>. QED  BY <1>3, <2>7, <3>1, <3>2
  <2>. QED  BY <1>4, <2>5, <2>6, <2>7
<1>. QED  BY <1>7, <1>8, <1>9

(* What a walk from the top has shown when it ends: all that was there if  *)
(* nothing happened to the ranking, nobody twice if users only dropped     *)
(* out, and whoever was there at its start if users only came              *)
(* (search_service.go:52-59).                                              *)
THEOREM WalksCorrect == Spec => WalksAreTrue
<1>1. IInv /\ [Next]_vars =>
        [Ends => /\ changes = {} => Shown = ranking
                 /\ changes \subseteq {"removed"} => IsInjective(Shown)
                 /\ changes \subseteq {"added"} => shown.start \subseteq ToSet(Shown)]_vars
  BY WalkEnds
<1>. QED  BY <1>1, InductiveInvariant, PTL DEF Spec, WalksAreTrue

(* Only a batch takes users from what the job has left, and goes on.       *)
LEMMA ReindexProgress ==
  ASSUME IInv, [Next]_vars,
         job.at = "running", job'.at = "running", job'.left # job.left
  PROVE  Batch
<1>1. /\ job # job'
      /\ \A lost \in SUBSET Users : job' # JobWithout(lost)
  <2>1. job \in Jobs
    BY Typed
  <2>. QED  BY <2>1 DEF JobWithout, Jobs
<1>2. ~ Writers /\ ~ DropIndex
  BY <1>1 DEF Writers, IndexUser, UpdateUser, UpdateUserSocialMetrics, DeleteUser,
    UserCreated, DropIndex
<1>3. ~ MakeIndex /\ ~ RankAnew /\ ~ SearchUsers /\ ~ SearchUsersLast /\ ~ SearchUsersFails
      /\ ~ UNCHANGED vars
  BY <1>1 DEF MakeIndex, RankAnew, SearchUsers, SearchUsersLast, SearchUsersFails, EndWalk, vars
<1>4. /\ \A users \in Lists : ~ StartReindex(users)
      /\ \A limit \in Limits, token \in Tokens : ~ StartWalk(limit, token)
      /\ ~ BatchFails /\ ~ ReindexReturns
  BY <1>1, Typed DEF StartReindex, StartWalk, BatchFails, ReindexReturns, NoJob, Jobs
<1>. QED  BY <1>2, <1>3, <1>4 DEF Next

(* A batch of a reindex takes nobody out of the search without text and    *)
(* filters, or of suggestions other than those by mutual friends           *)
(* (user_indexer.go:249-273).                                              *)
THEOREM ReindexLeavesNoHole == Spec => NoHoleWhileReindexing
<1>1. ASSUME IInv, [Next]_vars,
             job.at = "running", job'.at = "running", job'.left # job.left
      PROVE  /\ Plain(docs) \subseteq Plain(docs')
             /\ \A type \in SuggestionTypes \ {"mutual_friends"}, asker \in Users :
                  Suggested(docs, type, asker) \subseteq Suggested(docs', type, asker)
  <2>1. PICK batch : docs' = WrittenBy(batch)
    BY <1>1, ReindexProgress DEF Batch, Write
  <2>2. \A u \in Users : docs[u] \in Complete => docs'[u] \in Complete
    BY <1>1, <2>1, Written
  <2>3. \A u \in Users : docs'[u] = "faint" => docs[u] = "faint"
    BY <2>1 DEF WrittenBy
  <2>4. Plain(docs) \subseteq Plain(docs')
    BY <2>2, <2>3 DEF Plain, Found, Matches
  <2>5. ASSUME NEW type \in SuggestionTypes \ {"mutual_friends"}, NEW asker \in Users
        PROVE  Suggested(docs, type, asker) \subseteq Suggested(docs', type, asker)
    BY <2>2 DEF Suggested
  <2>. QED  BY <2>4, <2>5
<1>2. IInv /\ [Next]_vars =>
        [job.at = "running" /\ job'.at = "running" /\ job'.left # job.left =>
          /\ Plain(docs) \subseteq Plain(docs')
          /\ \A type \in SuggestionTypes \ {"mutual_friends"}, asker \in Users :
               Suggested(docs, type, asker) \subseteq Suggested(docs', type, asker)]_vars
  BY <1>1
<1>. QED  BY <1>2, InductiveInvariant, PTL DEF Spec, NoHoleWhileReindexing
=============================================================================
