-------------------------- MODULE QueryCache_proofs --------------------------
(***************************************************************************)
(* What the cache of any query keeps, whatever hooks are called and in     *)
(* whatever order their answers come.  The pages that extend the cache     *)
(* cite these lemmas, and WebApp_proofs the theorems that follow.          *)
(***************************************************************************)
EXTENDS QueryCache, TLAPS, SequenceTheorems

-----------------------------------------------------------------------------
\* The hooks: a query a success must be shown in is set or marked by it, it is
\* set only by a hook that writes it, and only account queries are set.
EffectRow == [touches : BOOLEAN, sets : BOOLEAN, marks : BOOLEAN, owes : BOOLEAN]

TellsItsQuery(effect, q) ==
    /\ effect.owes => effect.touches /\ (effect.sets \/ effect.marks)
    /\ effect.sets => effect.owes /\ q \in AccountQueries

\* The same of a row of the table.
Tells(row, q) ==
    LET touches == row.writes \cap Reads(q) # {}
    IN /\ touches => q \in row.sets \/ q \in row.marks
       /\ q \in row.sets => touches /\ q \in AccountQueries

LEMMA EntityTells ==
    ASSUME NEW writes, NEW q \in Queries  PROVE Tells(Entity(writes), q)
BY DEF Tells, Entity, Effect

LEMMA ReadsOfAccount ==
    ASSUME NEW q \in Queries
    PROVE  /\ "session" \in Reads(q) <=> q = "session"
           /\ "settings" \in Reads(q) <=> q = "settings"
           /\ "secrets" \in Reads(q) <=> q = "secrets-status"
BY DEF Queries, AccountQueries, CourseQueries, ListQueries, FileQueries, Reads, Planner

LEMMA SessionTells ==
    ASSUME NEW m \in DOMAIN SessionMutations, NEW q \in Queries
    PROVE  Tells(SessionMutations[m], q)
BY ReadsOfAccount DEF SessionMutations, Effect, Tells, AccountQueries

LEMMA SettingsTell ==
    ASSUME NEW m \in DOMAIN SettingsMutations, NEW q \in Queries
    PROVE  Tells(SettingsMutations[m], q)
BY ReadsOfAccount DEF SettingsMutations, Effect, Tells, AccountQueries

LEMMA CoursesTell ==
    ASSUME NEW m \in DOMAIN CourseMutations, NEW q \in Queries
    PROVE  Tells(CourseMutations[m], q)
BY EntityTells DEF CourseMutations

LEMMA SlotsTell ==
    ASSUME NEW m \in DOMAIN SlotMutations, NEW q \in Queries
    PROVE  Tells(SlotMutations[m], q)
BY EntityTells DEF SlotMutations

LEMMA LecturesTell ==
    ASSUME NEW m \in DOMAIN LectureMutations, NEW q \in Queries
    PROVE  Tells(LectureMutations[m], q)
BY EntityTells DEF LectureMutations

LEMMA ListsTell ==
    ASSUME NEW q \in Queries, NEW G \in {DeliverableMutations, TopicMutations, TaskMutations},
           NEW m \in DOMAIN G
    PROVE  Tells(G[m], q)
BY EntityTells DEF DeliverableMutations, TopicMutations, TaskMutations

\* The files hooks mark the listings alone, and leave three queries untold.
LEMMA FilesTell ==
    ASSUME NEW q \in Queries, NEW m \in DOMAIN FileMutations
    PROVE  q \notin {"events", "files/lecture-materials"} => Tells(FileMutations[m], q)
<1>1. "files" \in Reads(q) <=> q \in {"files/list", "files/lecture-materials"}
  BY DEF Queries, AccountQueries, CourseQueries, ListQueries, FileQueries, Reads, Planner
<1>2. "events" \in Reads(q) <=> q = "events"
  BY DEF Queries, AccountQueries, CourseQueries, ListQueries, FileQueries, Reads, Planner
<1> QED  BY <1>1, <1>2 DEF FileMutations, Effect, Tells

\* Every hook of the application tells the query of what it wrote, but for
\* those the files hooks leave untold.
LEMMA HooksTell ==
    ASSUME NEW m \in DOMAIN Mutations, NEW q \in Queries
    PROVE  Tells(Mutations[m], q) \/ (m \in DOMAIN FileMutations /\ Untold(m, q)
                                      /\ ~Overwrites(m, q))
<1> DEFINE G == CHOOSE G \in Groups : m \in DOMAIN G
<1>1. G \in Groups /\ m \in DOMAIN G /\ Mutations[m] = G[m]
  BY DEF Mutations
<1> HIDE DEF G
<1>2. CASE G = FileMutations
  <2>1. CASE q \in {"events", "files/lecture-materials"}
    BY <1>1, <1>2, <2>1 DEF Untold, Overwrites, FileMutations, Effect
  <2>2. CASE q \notin {"events", "files/lecture-materials"}
    BY <1>1, <1>2, <2>2, FilesTell
  <2> QED  BY <2>1, <2>2
<1>3. CASE G # FileMutations
  BY <1>1, <1>3, SessionTells, CoursesTell, SettingsTell, SlotsTell, LecturesTell, ListsTell
     DEF Groups
<1> QED  BY <1>2, <1>3

LEMMA EffectsTell ==
    ASSUME NEW m \in DOMAIN Mutations, NEW q \in Queries
    PROVE  EffectOn(m, q) \in EffectRow /\ TellsItsQuery(EffectOn(m, q), q)
<1>1. /\ EffectOn(m, q).touches = Touches(m, q) /\ EffectOn(m, q).sets = Overwrites(m, q)
      /\ EffectOn(m, q).marks = Marks(m, q)
      /\ EffectOn(m, q).owes = (Touches(m, q) /\ ~Untold(m, q))
  BY DEF EffectOn
<1>2. EffectOn(m, q) \in EffectRow
  BY DEF EffectOn, EffectRow, Touches, Overwrites, Marks, Untold
<1>3. CASE Tells(Mutations[m], q)
  <2>1. q \in Mutations[m].sets => ~Untold(m, q)
    BY <1>3 DEF Tells, Untold, AccountQueries
  <2> QED  BY <1>1, <1>2, <1>3, <2>1 DEF Tells, TellsItsQuery, Touches, Overwrites, Marks
<1>4. CASE Untold(m, q) /\ ~Overwrites(m, q)
  BY <1>1, <1>2, <1>4 DEF TellsItsQuery
<1> QED  BY <1>3, <1>4, HooksTell

-----------------------------------------------------------------------------
\* The cache.
VersionsOf(s) == {s[n] : n \in 1..Len(s)}
EntryRow(now) == [data : 0..now, stale : BOOLEAN, error : BOOLEAN]
FetchRow(now) == [state : {"idle", "asked", "answered"}, rev : 0..now, tries : 0..2]

CacheTypes ==
    /\ query \in Queries
    /\ server \in Seq(VersionsOf(server)) /\ Now >= 1
    /\ entry \in EntryRow(Now) /\ fetch \in FetchRow(Now)
    /\ mounted \in BOOLEAN /\ raced \in BOOLEAN /\ own \in 0..Now

\* What a call in flight carries.
GoodCacheCall(call, q, now) == call # NoCall =>
    /\ call \in [state : {"sent", "applied"}, rev : 0..now, effect : EffectRow,
                 job : {call.job}]
    /\ TellsItsQuery(call.effect, q)
    /\ call.state = "applied" /\ call.effect.touches => call.rev >= 1

GoodCacheCalls ==
    DOMAIN calls = Calls /\ \A c \in Calls : GoodCacheCall(calls[c], query, Now)

\* No answer that travels is older than what the user was told, nor, when only
\* answers fill the query, than what it shows.
AnswersAreNew ==
    fetch.state = "answered" =>
      /\ fetch.rev >= 1
      /\ raced \/ fetch.rev >= own
      /\ query \in AccountQueries \/ fetch.rev >= entry.data

\* A query at rest that is behind will be asked for when it is next seen, or
\* its failure is on screen.
BehindIsMarked ==
    ~raced /\ fetch.state = "idle" /\ entry.data < own
      => entry.error \/ (~mounted /\ (entry.data = 0 \/ entry.stale))

CacheInv == CacheTypes /\ GoodCacheCalls /\ AnswersAreNew /\ BehindIsMarked

\* A step of a query that no hook sets shows no older data.
Forward ==
    query \notin AccountQueries /\ entry.data # 0 /\ entry'.data # 0
      => entry'.data >= entry.data

LEMMA CacheOf ==
    ASSUME CacheInv
    PROVE  /\ Now \in Nat /\ Now >= 1 /\ query \in Queries
           /\ entry \in EntryRow(Now) /\ fetch \in FetchRow(Now)
           /\ mounted \in BOOLEAN /\ raced \in BOOLEAN /\ own \in 0..Now
           /\ entry.data \in Nat /\ fetch.rev \in Nat /\ own \in Nat
           /\ entry.stale \in BOOLEAN /\ entry.error \in BOOLEAN
BY DEF CacheInv, CacheTypes, Now, EntryRow, FetchRow

\* A step that leaves the server and the calls alone.
LEMMA ShownKeeps ==
    ASSUME CacheInv, UNCHANGED <<query, server, calls>>,
           entry' \in EntryRow(Now), fetch' \in FetchRow(Now),
           mounted' \in BOOLEAN, raced' \in BOOLEAN, own' \in 0..Now,
           AnswersAreNew', BehindIsMarked'
    PROVE  CacheInv'
<1>1. Now' = Now
  BY DEF Now
<1>2. CacheTypes'
  BY <1>1 DEF CacheInv, CacheTypes
<1>3. GoodCacheCalls'
  BY <1>1 DEF CacheInv, GoodCacheCalls
<1> QED  BY <1>2, <1>3 DEF CacheInv

LEMMA IdleIs == /\ \A now \in Nat : Idle \in FetchRow(now) /\ Asked(0) \in FetchRow(now)
                /\ Idle.state = "idle" /\ Asked(0).state = "asked"
BY DEF Idle, Asked, FetchRow

LEMMA MountKeeps == ASSUME CacheInv, Mount  PROVE CacheInv' /\ Forward
<1>1. /\ UNCHANGED <<query, server, calls, entry, own, raced>> /\ mounted' = TRUE
      /\ fetch' = IF fetch.state = "idle" /\ (entry.data = 0 \/ entry.stale) THEN Asked(0) ELSE fetch
  BY DEF Mount
<1>2. fetch' \in FetchRow(Now)
  BY <1>1, CacheOf, IdleIs
<1>3. AnswersAreNew' /\ BehindIsMarked'
  BY <1>1, CacheOf, IdleIs DEF CacheInv, AnswersAreNew, BehindIsMarked
<1>4. Forward
  BY <1>1, CacheOf DEF Forward
<1> QED  BY <1>1, <1>2, <1>3, <1>4, CacheOf, ShownKeeps

LEMMA UnmountKeeps == ASSUME CacheInv, Unmount  PROVE CacheInv' /\ Forward
<1>1. UNCHANGED <<query, server, calls, entry, fetch, own, raced>> /\ mounted' = FALSE /\ mounted
  BY DEF Unmount
<1>2. AnswersAreNew' /\ BehindIsMarked'
  BY <1>1 DEF CacheInv, AnswersAreNew, BehindIsMarked
<1>3. Forward
  BY <1>1, CacheOf DEF Forward
<1> QED  BY <1>1, <1>2, <1>3, CacheOf, ShownKeeps

LEMMA AgeKeeps == ASSUME CacheInv, Age  PROVE CacheInv' /\ Forward
<1>1. /\ UNCHANGED <<query, server, calls, fetch, mounted, own, raced>>
      /\ entry' = [entry EXCEPT !.stale = TRUE]
  BY DEF Age
<1>2. entry' \in EntryRow(Now) /\ entry'.data = entry.data /\ entry'.stale = TRUE
      /\ entry'.error = entry.error
  BY <1>1, CacheOf DEF EntryRow
<1>3. AnswersAreNew' /\ BehindIsMarked'
  BY <1>1, <1>2 DEF CacheInv, AnswersAreNew, BehindIsMarked
<1>4. Forward
  BY <1>2, CacheOf DEF Forward
<1> QED  BY <1>1, <1>2, <1>3, <1>4, CacheOf, ShownKeeps

LEMMA FocusKeeps == ASSUME CacheInv, Focus  PROVE CacheInv' /\ Forward
<1>1. UNCHANGED <<query, server, calls, entry, mounted, own, raced>> /\ fetch' = Asked(0)
  BY DEF Focus
<1>2. AnswersAreNew' /\ BehindIsMarked'
  BY <1>1, IdleIs DEF CacheInv, AnswersAreNew, BehindIsMarked
<1>3. Forward
  BY <1>1, CacheOf DEF Forward
<1> QED  BY <1>1, <1>2, <1>3, CacheOf, IdleIs, ShownKeeps

LEMMA CollectKeeps == ASSUME CacheInv, Collect  PROVE CacheInv' /\ Forward
<1>1. /\ UNCHANGED <<query, server, calls, fetch, mounted, own, raced>>
      /\ entry' = NoEntry /\ ~mounted /\ fetch.state = "idle"
  BY DEF Collect
<1>2. NoEntry \in EntryRow(Now) /\ NoEntry.data = 0
  BY CacheOf DEF NoEntry, EntryRow
<1>3. AnswersAreNew' /\ BehindIsMarked'
  BY <1>1, <1>2 DEF CacheInv, AnswersAreNew, BehindIsMarked
<1>4. Forward
  BY <1>1, <1>2 DEF Forward
<1> QED  BY <1>1, <1>2, <1>3, <1>4, CacheOf, ShownKeeps

LEMMA AnswerKeeps == ASSUME CacheInv, Answer  PROVE CacheInv' /\ Forward
<1>1. /\ UNCHANGED <<query, server, calls, entry, mounted, own, raced>>
      /\ fetch' = [fetch EXCEPT !.state = "answered", !.rev = Now]
  BY DEF Answer
<1>2. fetch' \in FetchRow(Now) /\ fetch'.state = "answered" /\ fetch'.rev = Now
  <2> DEFINE read == [fetch EXCEPT !.state = "answered"]
  <2>1. read \in FetchRow(Now) /\ read.state = "answered"
    BY CacheOf DEF FetchRow
  <2>2. fetch' = [read EXCEPT !.rev = Now]
    BY <1>1, CacheOf DEF FetchRow
  <2> HIDE DEF read
  <2> QED  BY <2>1, <2>2, CacheOf DEF FetchRow
<1>3. entry.data <= Now /\ own <= Now
  BY CacheOf DEF EntryRow
<1>4. AnswersAreNew' /\ BehindIsMarked'
  BY <1>1, <1>2, <1>3, CacheOf DEF CacheInv, AnswersAreNew, BehindIsMarked
<1>5. Forward
  BY <1>1, CacheOf DEF Forward
<1> QED  BY <1>1, <1>2, <1>4, <1>5, CacheOf, ShownKeeps

LEMMA FillKeeps == ASSUME CacheInv, Fill  PROVE CacheInv' /\ Forward
<1>1. /\ UNCHANGED <<query, server, calls, mounted, own>> /\ fetch' = Idle
      /\ entry' = [data |-> fetch.rev, stale |-> FALSE, error |-> FALSE]
      /\ raced' = (raced /\ fetch.rev < own) /\ fetch.state = "answered"
  BY DEF Fill
<1>2. entry' \in EntryRow(Now) /\ entry'.data = fetch.rev /\ raced' \in BOOLEAN
  BY <1>1, CacheOf DEF EntryRow, FetchRow
<1>3. AnswersAreNew' /\ BehindIsMarked'
  BY <1>1, <1>2, CacheOf, IdleIs DEF CacheInv, AnswersAreNew, BehindIsMarked
<1>4. Forward
  BY <1>1, <1>2, CacheOf DEF CacheInv, AnswersAreNew, Forward
<1> QED  BY <1>1, <1>2, <1>3, <1>4, CacheOf, IdleIs, ShownKeeps

LEMMA FetchFailsKeeps == ASSUME CacheInv, FetchFails  PROVE CacheInv' /\ Forward
<1>1. UNCHANGED <<query, server, calls, mounted, own, raced>>
  BY DEF FetchFails
<1>2. CASE fetch' = Asked(fetch.tries + 1) /\ fetch.tries < 2 /\ UNCHANGED entry
  <2>1. fetch' \in FetchRow(Now) /\ fetch'.state = "asked"
    BY <1>2, CacheOf DEF Asked, FetchRow
  <2>2. AnswersAreNew' /\ BehindIsMarked'
    BY <2>1 DEF AnswersAreNew, BehindIsMarked
  <2>3. Forward
    BY <1>2, CacheOf DEF Forward
  <2> QED  BY <1>1, <1>2, <2>1, <2>2, <2>3, CacheOf, ShownKeeps
<1>3. CASE fetch' = Idle /\ entry' = [entry EXCEPT !.error = TRUE]
  <2>1. entry' \in EntryRow(Now) /\ entry'.error = TRUE /\ entry'.data = entry.data
    BY <1>3, CacheOf DEF EntryRow
  <2>2. AnswersAreNew' /\ BehindIsMarked'
    BY <1>3, <2>1, IdleIs DEF AnswersAreNew, BehindIsMarked
  <2>3. Forward
    BY <2>1, CacheOf DEF Forward
  <2> QED  BY <1>1, <1>3, <2>1, <2>2, <2>3, CacheOf, IdleIs, ShownKeeps
<1> QED  BY <1>2, <1>3 DEF FetchFails, Retries

LEMMA QueryStepKeeps == ASSUME CacheInv, QueryStep  PROVE CacheInv' /\ Forward
BY MountKeeps, UnmountKeeps, AgeKeeps, FocusKeeps, CollectKeeps, AnswerKeeps, FillKeeps,
   FetchFailsKeeps DEF QueryStep

-----------------------------------------------------------------------------
\* The calls.
LEMMA CallKeeps ==
    ASSUME CacheInv, NEW c \in Calls, NEW call, calls' = [calls EXCEPT ![c] = call],
           query' = query, Now' \in Nat, Now <= Now', GoodCacheCall(call, query, Now')
    PROVE  GoodCacheCalls'
<1>1. DOMAIN calls' = Calls
  BY DEF CacheInv, GoodCacheCalls
<1>2. ASSUME NEW d \in Calls  PROVE GoodCacheCall(calls'[d], query, Now')
  <2>1. CASE d = c
    BY <2>1 DEF CacheInv, GoodCacheCalls
  <2>2. CASE d # c
    <3>1. calls'[d] = calls[d] /\ GoodCacheCall(calls[d], query, Now)
      BY <2>2 DEF CacheInv, GoodCacheCalls
    <3>2. 0..Now \subseteq 0..Now'
      BY CacheOf
    <3> QED  BY <3>1, <3>2 DEF GoodCacheCall
  <2> QED  BY <2>1, <2>2
<1> QED  BY <1>1, <1>2 DEF GoodCacheCalls

LEMMA CallRests ==
    ASSUME CacheInv, NEW c \in Calls, NEW call, calls' = [calls EXCEPT ![c] = call],
           query' = query, Now' = Now, GoodCacheCall(call, query, Now)
    PROVE  GoodCacheCalls'
<1>1. Now' \in Nat /\ Now <= Now' /\ GoodCacheCall(call, query, Now')
  BY CacheOf
<1> QED  BY <1>1, CallKeeps

LEMMA NoCallIsGood == ASSUME NEW q, NEW now  PROVE GoodCacheCall(NoCall, q, now)
BY DEF GoodCacheCall

\* The request forgotten: what was shown and what was promised stay.
LEMMA ForgetKeeps ==
    ASSUME CacheInv, NEW c \in Calls, calls' = [calls EXCEPT ![c] = NoCall],
           UNCHANGED <<query, server, entry, fetch, mounted, own, raced>>
    PROVE  CacheInv' /\ Forward
<1>1. Now' = Now
  BY DEF Now
<1>2. CacheTypes' /\ AnswersAreNew' /\ BehindIsMarked'
  BY <1>1 DEF CacheInv, CacheTypes, AnswersAreNew, BehindIsMarked
<1>3. GoodCacheCalls'
  BY <1>1, CallRests, NoCallIsGood
<1> QED  BY <1>2, <1>3, CacheOf DEF CacheInv, Forward

LEMMA FailKeeps == ASSUME CacheInv, NEW c \in Calls, Fail(c)  PROVE CacheInv' /\ Forward
BY ForgetKeeps DEF Fail

LEMMA SendKeeps ==
    ASSUME CacheInv, NEW c \in Calls, NEW m \in DOMAIN Mutations, NEW job, Send(c, m, job),
           UNCHANGED <<query, server, entry, fetch, mounted, own, raced>>
    PROVE  CacheInv' /\ Forward
<1> DEFINE call == [state |-> "sent", rev |-> 0, effect |-> EffectOn(m, query), job |-> job]
<1>1. Now' = Now /\ calls' = [calls EXCEPT ![c] = call]
  BY DEF Now, Send
<1>2. CacheTypes' /\ AnswersAreNew' /\ BehindIsMarked'
  BY <1>1 DEF CacheInv, CacheTypes, AnswersAreNew, BehindIsMarked
<1>3. GoodCacheCall(call, query, Now)
  <2>1. EffectOn(m, query) \in EffectRow /\ TellsItsQuery(EffectOn(m, query), query)
    BY CacheOf, EffectsTell
  <2> QED  BY <2>1, CacheOf DEF GoodCacheCall
<1> HIDE DEF call
<1>4. GoodCacheCalls'
  BY <1>1, <1>3, CallRests
<1> QED  BY <1>2, <1>4, CacheOf DEF CacheInv, Forward

LEMMA GrowsAreVersions ==
    ASSUME CacheInv, NEW value
    PROVE  /\ Append(server, value) \in Seq(VersionsOf(Append(server, value)))
           /\ Len(Append(server, value)) = Now + 1
           /\ Append(server, value)[Now + 1] = value
           /\ \A n \in 1..Now : Append(server, value)[n] = server[n]
<1> DEFINE S == VersionsOf(server) \cup {value}
           next == Append(server, value)
<1>1. server \in Seq(S)
  BY DEF CacheInv, CacheTypes
<1>2. /\ next \in Seq(S) /\ Len(next) = Now + 1 /\ next[Now + 1] = value
      /\ \A n \in 1..Now : next[n] = server[n]
  BY <1>1, AppendProperties DEF Now
<1> HIDE DEF S, next
<1>3. Len(next) \in Nat /\ next \in [1..Len(next) -> S]
  BY <1>2, LenProperties
<1>4. next \in [1..Len(next) -> VersionsOf(next)]
  BY <1>3 DEF VersionsOf
<1>5. next \in Seq(VersionsOf(next))
  BY <1>3, <1>4, SeqDef
<1> QED  BY <1>2, <1>5 DEF next

\* The server's versions grow, the browser's knowledge does not.
LEMMA GrowthKeeps ==
    ASSUME CacheInv, NEW value, server' \in {server, Append(server, value)},
           UNCHANGED <<query, entry, fetch, mounted, own, raced>>
    PROVE  /\ Now' \in Nat /\ Now <= Now'
           /\ CacheTypes' /\ AnswersAreNew' /\ BehindIsMarked' /\ Forward
<1>1. Now' \in Nat /\ Now <= Now' /\ server' \in Seq(VersionsOf(server'))
  <2>1. CASE server' = server
    BY <2>1, CacheOf DEF CacheInv, CacheTypes, Now
  <2>2. CASE server' = Append(server, value)
    BY <2>2, GrowsAreVersions, CacheOf DEF Now
  <2> QED  BY <2>1, <2>2
<1>2. 0..Now \subseteq 0..Now'
  BY <1>1, CacheOf
<1>3. entry' \in EntryRow(Now') /\ fetch' \in FetchRow(Now') /\ own' \in 0..Now'
  BY <1>2, CacheOf DEF EntryRow, FetchRow
<1>4. CacheTypes'
  BY <1>1, <1>3, CacheOf DEF CacheTypes
<1>5. AnswersAreNew' /\ BehindIsMarked'
  BY DEF CacheInv, AnswersAreNew, BehindIsMarked
<1> QED  BY <1>1, <1>4, <1>5, CacheOf DEF Forward

LEMMA ForeignKeeps ==
    ASSUME CacheInv, NEW value, ForeignWrite(value)  PROVE CacheInv' /\ Forward
<1>1. server' = Append(server, value) /\ UNCHANGED <<query, entry, fetch, mounted, calls, own, raced>>
  BY DEF ForeignWrite
<1>2. /\ Now' \in Nat /\ Now <= Now'
      /\ CacheTypes' /\ AnswersAreNew' /\ BehindIsMarked' /\ Forward
  BY <1>1, GrowthKeeps
<1>3. 0..Now \subseteq 0..Now'
  BY <1>2, CacheOf
<1>4. GoodCacheCalls'
  BY <1>1, <1>3 DEF CacheInv, GoodCacheCalls, GoodCacheCall
<1> QED  BY <1>2, <1>4 DEF CacheInv

LEMMA ApplyKeeps ==
    ASSUME CacheInv, NEW c \in Calls, NEW value, Apply(c, value)
    PROVE  CacheInv' /\ Forward
<1> DEFINE done == [calls[c] EXCEPT !.state = "applied", !.rev = Now']
           half == [calls[c] EXCEPT !.state = "applied"]
<1>1. /\ server' = IF calls[c].effect.touches THEN Append(server, value) ELSE server
      /\ calls[c].state = "sent"
      /\ calls' = [calls EXCEPT ![c].state = "applied", ![c].rev = Now']
      /\ UNCHANGED <<query, entry, fetch, mounted, own, raced>>
  BY DEF Apply, Now
<1>2. /\ Now' \in Nat /\ Now <= Now'
      /\ CacheTypes' /\ AnswersAreNew' /\ BehindIsMarked' /\ Forward
  BY <1>1, GrowthKeeps
<1>3. calls' = [calls EXCEPT ![c] = done]
  BY <1>1 DEF CacheInv, GoodCacheCalls
<1>4. GoodCacheCall(calls[c], query, Now) /\ calls[c] # NoCall
  BY <1>1 DEF CacheInv, GoodCacheCalls, NoCall
<1>5. GoodCacheCall(done, query, Now')
  <2> DEFINE Row(now) == [state : {"sent", "applied"}, rev : 0..now, effect : EffectRow,
                          job : {calls[c].job}]
  <2>1. calls[c] \in Row(Now) /\ TellsItsQuery(calls[c].effect, query)
    BY <1>4 DEF GoodCacheCall
  <2>2. half \in Row(Now') /\ half.effect = calls[c].effect /\ half.job = calls[c].job
    BY <1>2, <2>1, CacheOf
  <2>3. done = [half EXCEPT !.rev = Now']
    BY <2>1
  <2> HIDE DEF half, done
  <2>4. done \in Row(Now') /\ done.effect = calls[c].effect /\ done.job = calls[c].job /\ done.rev = Now'
    BY <1>2, <2>2, <2>3
  <2> QED  BY <1>2, <2>1, <2>4, CacheOf DEF GoodCacheCall
<1> HIDE DEF done
<1>6. GoodCacheCalls'
  BY <1>1, <1>2, <1>3, <1>5, CallKeeps
<1> QED  BY <1>2, <1>6 DEF CacheInv

LEMMA SucceedKeeps ==
    ASSUME CacheInv, NEW c \in Calls, Succeed(c)  PROVE CacheInv' /\ Forward
<1> DEFINE effect == calls[c].effect
           rev == calls[c].rev
           shown == Overwritten(effect, rev)
           restarts == Restarts(effect, shown)
<1>1. /\ calls[c].state = "applied" /\ calls' = [calls EXCEPT ![c] = NoCall]
      /\ UNCHANGED <<query, server, mounted>>
      /\ entry' = [shown EXCEPT !.stale = @ \/ effect.marks]
      /\ fetch' = IF restarts THEN Asked(0) ELSE fetch
      /\ own' = IF effect.owes /\ rev > own THEN rev ELSE own
      /\ raced' = (raced \/ (effect.owes /\ Races(effect, rev, restarts)))
  BY DEF Succeed, Settle
<1>2. /\ effect \in EffectRow /\ TellsItsQuery(effect, query)
      /\ rev \in 0..Now /\ (effect.touches => rev >= 1)
  <2>1. GoodCacheCall(calls[c], query, Now) /\ calls[c] # NoCall
    BY <1>1 DEF CacheInv, GoodCacheCalls, NoCall
  <2> QED  BY <1>1, <2>1 DEF GoodCacheCall
<1>3. /\ shown \in EntryRow(Now)
      /\ effect.sets => shown.data = rev
      /\ ~effect.sets => shown = entry
  BY <1>2, CacheOf DEF Overwritten, EntryRow, EffectRow
<1>4. restarts = (effect.marks /\ mounted /\ (fetch.state = "idle" \/ shown.data # 0))
  BY DEF Restarts
<1>5. Races(effect, rev, restarts) =
        ((fetch.state = "answered" /\ fetch.rev < rev /\ ~restarts) \/ (effect.sets /\ ~effect.marks /\ rev < own))
  BY DEF Races
<1>6. /\ effect.owes \in BOOLEAN /\ effect.marks \in BOOLEAN /\ effect.sets \in BOOLEAN
      /\ effect.owes => effect.touches /\ (effect.sets \/ effect.marks)
      /\ effect.sets => effect.owes /\ query \in AccountQueries
  BY <1>2 DEF EffectRow, TellsItsQuery
<1> HIDE DEF effect, rev, shown, restarts
<1>7. /\ entry' \in EntryRow(Now) /\ entry'.data = shown.data /\ entry'.error = shown.error
      /\ entry'.stale = (shown.stale \/ effect.marks)
  BY <1>1, <1>3, <1>6 DEF EntryRow
<1>8. fetch' \in FetchRow(Now) /\ own' \in 0..Now /\ raced' \in BOOLEAN /\ mounted' \in BOOLEAN
  BY <1>1, <1>2, CacheOf, IdleIs
<1>9. Now' = Now
  BY <1>1 DEF Now
<1>10. CacheTypes'
  BY <1>1, <1>7, <1>8, <1>9 DEF CacheInv, CacheTypes
<1>11. GoodCacheCalls'
  BY <1>1, <1>9, CallRests, NoCallIsGood
<1>12. AnswersAreNew'
  <2> SUFFICES ASSUME fetch'.state = "answered"
               PROVE  /\ fetch'.rev >= 1 /\ (raced' \/ fetch'.rev >= own')
                      /\ (query' \in AccountQueries \/ fetch'.rev >= entry'.data)
    BY DEF AnswersAreNew
  <2>1. ~restarts /\ fetch' = fetch
    BY <1>1, IdleIs
  <2>2. /\ fetch.rev >= 1 /\ (raced \/ fetch.rev >= own)
        /\ (query \in AccountQueries \/ fetch.rev >= entry.data)
    BY <2>1 DEF CacheInv, AnswersAreNew
  <2>3. effect.owes => raced' \/ fetch.rev >= rev
    <3>1. effect.owes /\ fetch.rev < rev => raced'
      BY <1>1, <1>5, <2>1
    <3> QED  BY <1>2, <3>1, CacheOf
  <2> QED  BY <1>1, <1>3, <1>6, <1>7, <2>1, <2>2, <2>3
<1>13. BehindIsMarked'
  <2> SUFFICES ASSUME ~raced', fetch'.state = "idle", entry'.data < own'
               PROVE  entry'.error \/ (~mounted' /\ (entry'.data = 0 \/ entry'.stale))
    BY DEF BehindIsMarked
  <2>1. ~restarts /\ fetch' = fetch /\ ~raced
    BY <1>1, IdleIs
  <2>2. CASE ~effect.owes
    BY <1>1, <1>3, <1>6, <1>7, <2>1, <2>2 DEF CacheInv, BehindIsMarked
  <2>3. CASE effect.owes /\ effect.marks
    BY <1>1, <1>4, <1>7, <2>1, <2>3
  <2>4. CASE effect.owes /\ ~effect.marks
    BY <1>1, <1>2, <1>3, <1>5, <1>6, <1>7, <2>4, CacheOf
  <2> QED  BY <1>6, <2>2, <2>3, <2>4
<1>14. Forward
  BY <1>1, <1>3, <1>6, <1>7, CacheOf DEF Forward
<1> QED  BY <1>10, <1>11, <1>12, <1>13, <1>14 DEF CacheInv

LEMMA CacheRests == ASSUME CacheInv, UNCHANGED cacheVars  PROVE CacheInv' /\ Forward
<1>1. UNCHANGED <<query, server, entry, fetch, mounted, calls, own, raced>> /\ Now' = Now
  BY DEF cacheVars, Now
<1> QED  BY <1>1, CacheOf DEF CacheInv, CacheTypes, GoodCacheCalls, AnswersAreNew, BehindIsMarked, Forward

LEMMA CacheStarts ==
    ASSUME NEW q \in Queries, NEW value, NEW sends, CacheInit(q, value, sends)
    PROVE  CacheInv /\ Now = 1 /\ server[1] = value /\ calls = [c \in Calls |-> NoCall]
<1>1. /\ query = q /\ server = <<value>> /\ entry = NoEntry /\ fetch = Idle
      /\ mounted = FALSE /\ calls = [c \in Calls |-> NoCall] /\ own = 0 /\ raced = FALSE
  BY DEF CacheInit
<1>2. Now = 1 /\ server \in Seq(VersionsOf(server))
  BY <1>1 DEF Now, VersionsOf
<1>3. NoEntry \in EntryRow(1) /\ Idle \in FetchRow(1) /\ NoEntry.data = 0
  BY DEF NoEntry, Idle, EntryRow, FetchRow
<1>4. CacheTypes
  <2>1. entry \in EntryRow(Now) /\ fetch \in FetchRow(Now) /\ own \in 0..Now
    BY <1>1, <1>2, <1>3
  <2>2. query \in Queries /\ mounted \in BOOLEAN /\ raced \in BOOLEAN
    BY <1>1
  <2>3. Now >= 1
    BY <1>2
  <2> QED  BY <1>2, <2>1, <2>2, <2>3 DEF CacheTypes
<1> QED  BY <1>1, <1>2, <1>3, <1>4, IdleIs
         DEF CacheInv, GoodCacheCalls, GoodCacheCall, AnswersAreNew, BehindIsMarked

LEMMA PlainStepKeeps == ASSUME CacheInv, PlainStep  PROVE CacheInv' /\ Forward
BY QueryStepKeeps, SendKeeps, ApplyKeeps, SucceedKeeps, FailKeeps, ForeignKeeps DEF PlainStep

=============================================================================
