--------------------------- MODULE WebViews_proofs ---------------------------
(***************************************************************************)
(* For every store, every row of instants and every length of the panels:  *)
(* warnings stay true, the mirror warns first in Berlin's zone, urgency    *)
(* only grows and nothing is out of sight.                                 *)
(***************************************************************************)
EXTENDS WebViews, TLAPS, WellFoundedInduction, FiniteSetTheorems

\* What the pages and their responses hold, and how old they may be.
ViewInv ==
    /\ now \in Nat
    /\ IsStore(data)
    /\ reading # Nothing => reading.at = now /\ reading.slots \subseteq SlotRow
                           /\ IsFiniteSet(reading.slots)
    /\ Shown => /\ view.at \in 0..now
                /\ IsStore(view.data)
                /\ DOMAIN view.data.topics = DOMAIN data.topics

-----------------------------------------------------------------------------
\* Min is the least element of a set of numbers.
LEMMA MinOf ==
    ASSUME NEW S \in SUBSET Nat, S # {}
    PROVE  Min(S) \in S /\ \A y \in S : Min(S) <= y
<1> DEFINE R == {ss \in Nat \X Nat : ss[1] < ss[2]}
<1>1. IsWellFoundedOn(R, Nat)
  BY NatLessThanWellFounded DEF OpToRel
<1>2. \E x \in S : \A y \in S : ~ (<<y, x>> \in R)
  <2> HIDE DEF R
  <2> QED  BY <1>1, WFMin
<1>3. \A x, y \in S : ~ (<<y, x>> \in R) => x <= y
  OBVIOUS
<1> QED  BY <1>2, <1>3 DEF Min

\* What is scheduled on a day is on that day, and ahead.
LEMMA ScheduledAhead ==
    ASSUME NEW course, NEW slots \in SUBSET SlotRow, NEW day \in Nat, NEW at \in Nat,
           NEW x \in Scheduled(course, slots, day, at)
    PROVE  x \in Nat /\ x > at /\ DayOf(x) = day
<1>1. PICK s \in SlotRow : x = Day * day + s.start
  BY DEF Scheduled
<1>2. s.start \in 0..(Day - 1)
  BY DEF SlotRow
<1>3. x \notin 0..at
  BY DEF Scheduled
<1> QED  BY <1>1, <1>2, <1>3 DEF DayOf, Day, Hour

\* What is still ahead later on is scheduled then as well.
LEMMA StillScheduled ==
    ASSUME NEW course, NEW slots \in SUBSET SlotRow, NEW day \in Nat,
           NEW at \in Nat, NEW later \in Nat,
           NEW x \in Scheduled(course, slots, day, at), x > later
    PROVE  x \in Scheduled(course, slots, day, later)
<1>1. x \notin 0..later
  OBVIOUS
<1> QED  BY <1>1 DEF Scheduled

LectureDays(course, slots, at) ==
    {d \in 0..7 : Scheduled(course, slots, DayOf(at) + d, at) # {}}

\* The next lecture is the first on the first of the days that have one.
LEMMA NextOnFirstDay ==
    ASSUME NEW course, NEW slots \in SUBSET SlotRow, NEW at \in Nat,
           LectureDays(course, slots, at) # {}
    PROVE  \E d \in LectureDays(course, slots, at) :
             /\ \A e \in LectureDays(course, slots, at) : d <= e
             /\ next_lecture_at(course, slots, at) \in Scheduled(course, slots, DayOf(at) + d, at)
             /\ \A x \in Scheduled(course, slots, DayOf(at) + d, at) :
                  next_lecture_at(course, slots, at) <= x
<1> DEFINE days == LectureDays(course, slots, at)
           Starts(d) == Scheduled(course, slots, DayOf(at) + d, at)
<1>1. next_lecture_at(course, slots, at) = Min(Starts(Min(days)))
  BY DEF next_lecture_at, FirstStart, LectureDays
<1>2. Min(days) \in days /\ \A e \in days : Min(days) <= e
  <2>1. days \in SUBSET Nat
    BY DEF LectureDays
  <2> HIDE DEF days
  <2> QED  BY <2>1, MinOf DEF days
<1>3. PICK d \in days : d = Min(days)
  BY <1>2
<1>4. d \in Nat /\ Starts(d) # {}
  BY DEF LectureDays
<1>5. DayOf(at) + d \in Nat
  BY <1>4 DEF DayOf, Day, Hour
<1>6. Starts(d) \in SUBSET Nat
  BY <1>5, ScheduledAhead
<1>7. Min(Starts(d)) \in Starts(d) /\ \A x \in Starts(d) : Min(Starts(d)) <= x
  <2> HIDE DEF Starts
  <2> QED  BY <1>4, <1>6, MinOf
<1>8. next_lecture_at(course, slots, at) = Min(Starts(d))
  BY <1>1, <1>3
<1>9. \A e \in days : d <= e
  BY <1>2, <1>3
<1> QED  BY <1>3, <1>7, <1>8, <1>9

\* There is one, and it is ahead, if and only if it is not Never.
LEMMA NextType ==
    ASSUME NEW course, NEW slots \in SUBSET SlotRow, NEW at \in Nat
    PROVE  \/ /\ LectureDays(course, slots, at) = {}
              /\ next_lecture_at(course, slots, at) = Never
           \/ /\ LectureDays(course, slots, at) # {}
              /\ next_lecture_at(course, slots, at) \in Nat
              /\ \E d \in 0..7 :
                   next_lecture_at(course, slots, at) \in Scheduled(course, slots, DayOf(at) + d, at)
<1>1. CASE LectureDays(course, slots, at) = {}
  BY <1>1 DEF next_lecture_at, FirstStart, LectureDays
<1>2. CASE LectureDays(course, slots, at) # {}
  <2>1. PICK d \in LectureDays(course, slots, at) :
          next_lecture_at(course, slots, at) \in Scheduled(course, slots, DayOf(at) + d, at)
    BY <1>2, NextOnFirstDay
  <2>2. d \in 0..7
    BY DEF LectureDays
  <2>3. DayOf(at) + d \in Nat
    BY <2>2 DEF DayOf, Day, Hour
  <2>4. next_lecture_at(course, slots, at) \in Nat
    BY <2>1, <2>3, ScheduledAhead
  <2> QED  BY <1>2, <2>1, <2>2, <2>4
<1> QED  BY <1>1, <1>2

\* No lecture of the next eight days is before the next one.
LEMMA NextIsFirst ==
    ASSUME NEW course, NEW slots \in SUBSET SlotRow, NEW at \in Nat, NEW d \in 0..7,
           NEW x \in Scheduled(course, slots, DayOf(at) + d, at)
    PROVE  /\ next_lecture_at(course, slots, at) \in Nat
           /\ next_lecture_at(course, slots, at) <= x
<1> DEFINE next == next_lecture_at(course, slots, at)
<1>1. d \in LectureDays(course, slots, at)
  BY DEF LectureDays
<1>2. DayOf(at) \in Nat
  BY DEF DayOf, Day, Hour
<1>3. next \in Nat
  BY <1>1, NextType
<1>4. PICK e \in LectureDays(course, slots, at) :
        /\ \A f \in LectureDays(course, slots, at) : e <= f
        /\ next \in Scheduled(course, slots, DayOf(at) + e, at)
        /\ \A y \in Scheduled(course, slots, DayOf(at) + e, at) : next <= y
  BY <1>1, NextOnFirstDay
<1>5. e \in 0..7 /\ e <= d
  BY <1>1, <1>4 DEF LectureDays
<1>6. CASE e = d
  BY <1>3, <1>4, <1>6
<1>7. CASE e < d
  <2>1. x \in Nat /\ DayOf(x) = DayOf(at) + d
    BY <1>2, ScheduledAhead
  <2>2. DayOf(next) = DayOf(at) + e
    BY <1>2, <1>4, <1>5, ScheduledAhead
  <2>3. DayOf(next) < DayOf(x)
    BY <1>2, <1>5, <1>7, <2>1, <2>2
  <2> QED  BY <1>3, <2>1, <2>3 DEF DayOf, Day, Hour
<1> QED  BY <1>5, <1>6, <1>7

\* While no lecture begins, the next one does not move away.
LEMMA NextStays ==
    ASSUME NEW course, NEW slots \in SUBSET SlotRow, NEW at \in Nat, NEW later \in Nat,
           at <= later,
           \A day \in DayOf(at)..DayOf(later) :
             Scheduled(course, slots, day, at) \cap 0..later = {},
           next_lecture_at(course, slots, at) # Never
    PROVE  /\ next_lecture_at(course, slots, later) \in Nat
           /\ next_lecture_at(course, slots, later) <= next_lecture_at(course, slots, at)
<1> DEFINE next == next_lecture_at(course, slots, at)
<1>1. PICK d \in 0..7 : next \in Scheduled(course, slots, DayOf(at) + d, at)
  BY NextType
<1>2. DayOf(at) \in Nat /\ DayOf(later) \in Nat /\ DayOf(at) <= DayOf(later)
  BY DEF DayOf, Day, Hour
<1>3. next \in Nat /\ next > at /\ DayOf(next) = DayOf(at) + d
  BY <1>1, <1>2, ScheduledAhead
<1>4. next > later
  <2> SUFFICES ASSUME next <= later  PROVE FALSE
    BY <1>3
  <2>1. DayOf(next) \in DayOf(at)..DayOf(later)
    BY <1>2, <1>3 DEF DayOf, Day, Hour
  <2>2. next \in 0..later
    BY <1>3
  <2> QED  BY <1>1, <1>3, <2>1, <2>2
<1>5. DayOf(next) >= DayOf(later)
  BY <1>3, <1>4 DEF DayOf, Day, Hour
<1>6. PICK e \in 0..7 : DayOf(later) + e = DayOf(next)
  <2>1. DayOf(next) - DayOf(later) \in 0..7
    BY <1>2, <1>3, <1>5
  <2> QED  BY <1>2, <1>3, <2>1
<1>7. next \in Scheduled(course, slots, DayOf(later) + e, later)
  BY <1>1, <1>2, <1>3, <1>4, <1>6, StillScheduled
<1> QED  BY <1>7, NextIsFirst

-----------------------------------------------------------------------------
\* A topic behind then is behind later, and the course is no safer.
LEMMA BehindStays ==
    ASSUME NEW course, NEW slots \in SUBSET SlotRow, NEW at \in Nat, NEW later \in Nat,
           at <= later,
           \A day \in DayOf(at)..DayOf(later) :
             Scheduled(course, slots, day, at) \cap 0..later = {},
           NEW was, was \in [DOMAIN was -> TopicRow],
           NEW is, is \in [DOMAIN was -> TopicRow],
           \A t \in compute_fall_behind(course, was, slots, at).topics : is[t] = was[t]
    PROVE  LET shown == compute_fall_behind(course, was, slots, at)
               today == compute_fall_behind(course, is, slots, later)
           IN  /\ shown.topics \subseteq today.topics
               /\ Order(today.severity) >= Order(shown.severity)
<1> DEFINE shown == compute_fall_behind(course, was, slots, at)
           today == compute_fall_behind(course, is, slots, later)
           next == next_lecture_at(course, slots, at)
           next2 == next_lecture_at(course, slots, later)
<1>1. next = Never \/ (next \in Nat /\ next2 \in Nat /\ next2 <= next)
  BY NextType, NextStays
<1>2. next2 = Never \/ next2 \in Nat
  BY NextType
<1>3. ASSUME NEW hours \in Nat, next # Never, PyWithin(next - at, hours)
      PROVE  next2 # Never /\ PyWithin(next2 - later, hours)
  BY <1>1, <1>3 DEF PyWithin, Never, Hour
<1>4. shown.topics \subseteq today.topics
  <2> SUFFICES ASSUME NEW t \in shown.topics  PROVE t \in today.topics
    OBVIOUS
  <2>1. /\ t \in DOMAIN was /\ was[t].course = course
        /\ was[t].status \in {"not_started", "in_progress"}
        /\ was[t].covered_on # Never /\ at - (was[t].covered_on * Day + 0) >= 0
        /\ \/ (at - (was[t].covered_on * Day + 0)) \div Hour >= BEHIND_GRACE_HOURS
           \/ next # Never /\ PyWithin(next - at, IMMINENT_LECTURE_HOURS)
    BY DEF compute_fall_behind, FallBehindBy
  <2>2. t \in DOMAIN is /\ is[t] = was[t]
    BY <2>1
  <2>3. later - (is[t].covered_on * Day + 0) >= 0
    BY <2>1, <2>2 DEF TopicRow, Day, Hour
  <2>4. \/ (later - (is[t].covered_on * Day + 0)) \div Hour >= BEHIND_GRACE_HOURS
        \/ next2 # Never /\ PyWithin(next2 - later, IMMINENT_LECTURE_HOURS)
    <3>1. CASE (at - (was[t].covered_on * Day + 0)) \div Hour >= BEHIND_GRACE_HOURS
      BY <2>1, <2>2, <3>1 DEF TopicRow, Day, Hour, BEHIND_GRACE_HOURS
    <3>2. CASE next # Never /\ PyWithin(next - at, IMMINENT_LECTURE_HOURS)
      BY <1>3, <3>2 DEF IMMINENT_LECTURE_HOURS
    <3> QED  BY <2>1, <3>1, <3>2
  <2> QED  BY <2>1, <2>2, <2>3, <2>4 DEF compute_fall_behind, FallBehindBy
<1>5. Order(today.severity) >= Order(shown.severity)
  <2>1. shown.severity = IF shown.topics = {} THEN "ok"
                         ELSE IF next # Never /\ PyWithin(next - at, CRITICAL_WINDOW_HOURS)
                              THEN "critical" ELSE "warn"
    BY DEF compute_fall_behind, FallBehindBy
  <2>2. today.severity = IF today.topics = {} THEN "ok"
                         ELSE IF next2 # Never /\ PyWithin(next2 - later, CRITICAL_WINDOW_HOURS)
                              THEN "critical" ELSE "warn"
    BY DEF compute_fall_behind, FallBehindBy
  <2>3. CRITICAL_WINDOW_HOURS \in Nat
    BY DEF CRITICAL_WINDOW_HOURS
  <2> HIDE DEF shown, today, next, next2
  <2> QED  BY <1>3, <1>4, <2>1, <2>2, <2>3 DEF Order
<1> QED  BY <1>4, <1>5

-----------------------------------------------------------------------------
\* What every write leaves: well-formed rows, and the topics there were.
Kept(old, new) == IsStore(new) /\ DOMAIN new.topics = DOMAIN old.topics

LEMMA TopicKept ==
    ASSUME NEW rows, IsStore(rows), NEW t \in DOMAIN rows.topics, NEW row \in TopicRow
    PROVE  Kept(rows, [rows EXCEPT !.topics[t] = row])
BY DEF Kept, IsStore

LEMMA DeliverableKept ==
    ASSUME NEW rows, IsStore(rows), NEW d \in DOMAIN rows.deliverables,
           NEW row \in DeliverableRow
    PROVE  Kept(rows, [rows EXCEPT !.deliverables[d] = row])
BY DEF Kept, IsStore

LEMMA TaskKept ==
    ASSUME NEW rows, IsStore(rows), NEW t \in DOMAIN rows.tasks, NEW row \in TaskRow
    PROVE  Kept(rows, [rows EXCEPT !.tasks[t] = row])
BY DEF Kept, IsStore

Toggles == \E theme \in Themes : \E t \in DOMAIN data.tasks : toggle(theme, t)

LEMMA WriteKeeps ==
    ASSUME IsStore(data), now \in Nat, Elsewhere \/ Toggles
    PROVE  Kept(data, data')
<1>1. ASSUME NEW t \in DOMAIN data.topics, NEW status \in {"in_progress", "studied"},
             StudyElsewhere(t, status)
      PROVE  Kept(data, data')
  <2>1. [data.topics[t] EXCEPT !.status = status] \in TopicRow
    BY DEF IsStore, TopicRow, StudyTopicStatus
  <2>2. data' = [data EXCEPT !.topics[t] = [data.topics[t] EXCEPT !.status = status]]
    BY <1>1 DEF StudyElsewhere, Write, IsStore
  <2> QED  BY <2>1, <2>2, TopicKept
<1>2. ASSUME NEW t \in DOMAIN data.topics, CoverElsewhere(t)
      PROVE  Kept(data, data')
  <2>1. DayOf(now) \in Int
    BY DEF DayOf, Day, Hour
  <2>2. [data.topics[t] EXCEPT !.covered_on = DayOf(now)] \in TopicRow
    BY <2>1 DEF IsStore, TopicRow
  <2>3. data' = [data EXCEPT !.topics[t] = [data.topics[t] EXCEPT !.covered_on = DayOf(now)]]
    BY <1>2 DEF CoverElsewhere, Write, IsStore
  <2> QED  BY <2>2, <2>3, TopicKept
<1>3. ASSUME NEW s \in data.slots, MoveSlot(s)
      PROVE  Kept(data, data')
  <2>1. [s EXCEPT !.weekday = 2] \in SlotRow
    BY DEF IsStore, SlotRow
  <2> DEFINE moved == (data.slots \ {s}) \cup {[s EXCEPT !.weekday = 2]}
  <2>2. moved \subseteq SlotRow /\ IsFiniteSet(moved)
    <3>1. IsFiniteSet(data.slots) /\ data.slots \subseteq SlotRow
      BY DEF IsStore
    <3>2. IsFiniteSet(data.slots \ {s})
      BY <3>1, FS_RemoveElement
    <3> QED  BY <2>1, <3>1, <3>2, FS_AddElement
  <2>3. data' = [data EXCEPT !.slots = moved]
    BY <1>3 DEF MoveSlot, Write
  <2> HIDE DEF moved
  <2> QED  BY <2>2, <2>3 DEF IsStore, Kept
<1>4. ASSUME NEW d \in DOMAIN data.deliverables, Postpone(d)
      PROVE  Kept(data, data')
  <2> DEFINE due == data.deliverables[d].due_at + Day
  <2>1. [data.deliverables[d] EXCEPT !.due_at = due] \in DeliverableRow
    BY DEF IsStore, DeliverableRow, Day, Hour
  <2>2. data' = [data EXCEPT !.deliverables[d] = [data.deliverables[d] EXCEPT !.due_at = due]]
    BY <1>4 DEF Postpone, Write, IsStore
  <2> QED  BY <2>1, <2>2, DeliverableKept
<1>5. ASSUME NEW d \in DOMAIN data.deliverables, NEW status \in {"in_progress", "submitted"},
             HandIn(d, status)
      PROVE  Kept(data, data')
  <2>1. [data.deliverables[d] EXCEPT !.status = status] \in DeliverableRow
    BY DEF IsStore, DeliverableRow, DeliverableStatus
  <2>2. data' = [data EXCEPT !.deliverables[d] = [data.deliverables[d] EXCEPT !.status = status]]
    BY <1>5 DEF HandIn, Write, IsStore
  <2> QED  BY <2>1, <2>2, DeliverableKept
<1>6. ASSUME NEW theme \in Themes, NEW t \in DOMAIN data.tasks, toggle(theme, t)
      PROVE  Kept(data, data')
  <2>1. PICK status \in {"done", "open"} : data' = [data EXCEPT !.tasks[t].status = status]
    BY <1>6 DEF toggle, Write
  <2>2. [data.tasks[t] EXCEPT !.status = status] \in TaskRow
    BY DEF IsStore, TaskRow, TaskStatus
  <2>3. data' = [data EXCEPT !.tasks[t] = [data.tasks[t] EXCEPT !.status = status]]
    BY <2>1 DEF IsStore
  <2> QED  BY <2>2, <2>3, TaskKept
<1>7. CASE Elsewhere
  BY <1>1, <1>2, <1>3, <1>4, <1>5, <1>7 DEF Elsewhere
<1>8. CASE Toggles
  BY <1>6, <1>8 DEF Toggles
<1> QED  BY <1>7, <1>8

LEMMA InvInit == ViewsInit => ViewInv
<1> SUFFICES ASSUME ViewsInit  PROVE ViewInv
  OBVIOUS
<1>1. now \in Nat
  <2>1. Min(Instants) \in Instants
    BY StoresAssumption, MinOf
  <2> QED  BY <2>1, StoresAssumption DEF ViewsInit
<1>2. IsStore(data)
  BY StoresAssumption DEF ViewsInit
<1> QED  BY <1>1, <1>2 DEF ViewsInit, ViewInv, Shown

LEMMA InvStep == ViewInv /\ [ViewsNext]_viewVars => ViewInv'
<1> SUFFICES ASSUME ViewInv, [ViewsNext]_viewVars  PROVE ViewInv'
  OBVIOUS
<1>1. CASE Tick
  <2> DEFINE ahead == {i \in Instants : i > now}
  <2>1. ahead \in SUBSET Nat /\ ahead # {}
    BY <1>1, StoresAssumption DEF Tick
  <2>2. Min(ahead) \in ahead
    <3> HIDE DEF ahead
    <3> QED  BY <2>1, MinOf
  <2>3. now' \in Nat /\ now' > now
    BY <1>1, <2>1, <2>2 DEF Tick
  <2>4. UNCHANGED <<data, reading, view>> /\ reading = Nothing
    BY <1>1 DEF Tick
  <2> QED  BY <2>3, <2>4 DEF ViewInv, Shown
<1>2. CASE ReadSlots
  BY <1>2 DEF ReadSlots, ViewInv, Shown, IsStore
<1>3. CASE Respond
  <2>1. /\ IsStore(data) /\ reading.at = now /\ now \in Nat
        /\ reading.slots \subseteq SlotRow /\ IsFiniteSet(reading.slots)
    BY <1>3 DEF Respond, ViewInv
  <2>2. /\ view' = [at |-> now, data |-> [data EXCEPT !.slots = reading.slots]]
        /\ reading' = Nothing /\ UNCHANGED <<now, data>>
    BY <1>3, <2>1 DEF Respond
  <2>3. /\ IsStore(view'.data)
        /\ DOMAIN view'.data.topics = DOMAIN data.topics
    BY <2>1, <2>2 DEF IsStore
  <2> QED  BY <2>1, <2>2, <2>3 DEF ViewInv, Shown
<1>4. CASE Elsewhere \/ Toggles
  <2>1. IsStore(data)' /\ DOMAIN data'.topics = DOMAIN data.topics
    BY <1>4, WriteKeeps DEF ViewInv, Kept
  <2>2. UNCHANGED <<now, reading, view>>
    BY <1>4 DEF Toggles, Elsewhere, StudyElsewhere, CoverElsewhere, MoveSlot, Postpone, HandIn, toggle, Write
  <2> QED  BY <2>1, <2>2 DEF ViewInv, Shown
<1>5. CASE UNCHANGED viewVars
  BY <1>5 DEF viewVars, ViewInv, Shown
<1> QED  BY <1>1, <1>2, <1>3, <1>4, <1>5 DEF ViewsNext, Toggles

\* The inductive invariant: rows, response and page are well-formed, the page
\* is no younger than the clock and shows the topics there are.
THEOREM ViewsInvariant == Spec => []ViewInv
<1> QED  BY InvInit, InvStep, PTL DEF Spec

-----------------------------------------------------------------------------
\* What the server computed stays true on an ageing page: the topics it warns
\* of are still behind and the course is no safer, whatever the time table,
\* however old the page is (services/fall_behind.py, useDashboard).
THEOREM WarningsHold == Spec => []WarningsStayTrue
<1>1. ViewInv => WarningsStayTrue
  <2> SUFFICES ASSUME ViewInv, Shown, NEW c \in behindCourses,
                      data.slots = view.data.slots, ~Begun(c),
                      \A t \in fall_behind(c).topics : data.topics[t] = view.data.topics[t]
               PROVE  LET shown == fall_behind(c)
                          today == compute_fall_behind(c, data.topics, data.slots, now)
                      IN  /\ shown.topics \subseteq today.topics
                          /\ Order(today.severity) >= Order(shown.severity)
    BY DEF WarningsStayTrue
  <2>1. /\ now \in Nat /\ view.at \in Nat /\ view.at <= now
        /\ data.slots \in SUBSET SlotRow
        /\ view.data.topics \in [DOMAIN view.data.topics -> TopicRow]
        /\ data.topics \in [DOMAIN view.data.topics -> TopicRow]
    BY DEF ViewInv, IsStore
  <2>2. \A day \in DayOf(view.at)..DayOf(now) :
          Scheduled(c, data.slots, day, view.at) \cap 0..now = {}
    BY DEF Begun
  <2>3. fall_behind(c) = compute_fall_behind(c, view.data.topics, data.slots, view.at)
    BY DEF fall_behind
  <2>4. \A t \in compute_fall_behind(c, view.data.topics, data.slots, view.at).topics :
          data.topics[t] = view.data.topics[t]
    BY <2>3
  <2> DEFINE slots == data.slots
             at == view.at
             was == view.data.topics
             is == data.topics
  <2> HIDE DEF slots, at, was, is
  <2>5. LET shown == compute_fall_behind(c, was, slots, at)
            today == compute_fall_behind(c, is, slots, now)
        IN  /\ shown.topics \subseteq today.topics
            /\ Order(today.severity) >= Order(shown.severity)
    BY <2>1, <2>2, <2>4, BehindStays DEF slots, at, was, is
  <2> QED  BY <2>3, <2>5 DEF slots, at, was, is
<1> QED  BY <1>1, ViewsInvariant, PTL

\* In a browser of Berlin's zone the mirror in TypeScript (lib/fall-behind.ts)
\* names the same next lecture and never warns less; they differ within the
\* hour it cuts off, only.
THEOREM MirrorHolds == Spec => []MirrorWarnsFirst
<1>1. ViewInv => MirrorWarnsFirst
  <2> SUFFICES ASSUME ViewInv, NEW c \in Courses(data)
               PROVE  MirrorsServer(c)
    BY DEF MirrorWarnsFirst
  <2> DEFINE ts == computeFallBehind(c, data.topics, data.slots, now, 0)
             py == compute_fall_behind(c, data.topics, data.slots, now)
             next == next_lecture_at(c, data.slots, now)
             left == next - now
             CutOff(hours) == left > hours * Hour /\ left < (hours + 1) * Hour
             Since(t) == now - (data.topics[t].covered_on * Day + 0)
             Old(t) == Since(t) \div Hour >= BEHIND_GRACE_HOURS
             mine == {t \in DOMAIN data.topics :
                        /\ data.topics[t].course = c
                        /\ data.topics[t].status \in {"not_started", "in_progress"}
                        /\ data.topics[t].covered_on # Never
                        /\ Since(t) >= 0}
             Behind(imminent) == {t \in mine : Old(t) \/ imminent}
             Severity(behind, critical) ==
               IF behind = {} THEN "ok" ELSE IF critical THEN "critical" ELSE "warn"
             tsSoon == next # Never /\ TsWithin(left, IMMINENT_LECTURE_HOURS)
             pySoon == next # Never /\ PyWithin(left, IMMINENT_LECTURE_HOURS)
             tsNext == next # Never /\ TsWithin(left, CRITICAL_WINDOW_HOURS)
             pyNext == next # Never /\ PyWithin(left, CRITICAL_WINDOW_HOURS)
  <2>1. now \in Nat /\ (next = Never \/ next \in Nat)
    <3>1. now \in Nat /\ data.slots \in SUBSET SlotRow
      BY DEF ViewInv, IsStore
    <3> QED  BY <3>1, NextType
  <2>0. nextLectureAt(c, data.slots, now, 0) = next
    <3>1. now - 0 = now
      BY <2>1
    <3>2. next_lecture_at(c, data.slots, now) = FirstStart(c, data.slots, DayOf(now), now - 0)
      BY <3>1 DEF next_lecture_at
    <3> HIDE DEF next
    <3>3. next = FirstStart(c, data.slots, DayOf(now), now - 0)
      BY <3>2 DEF next
    <3> QED  BY <2>1, <3>3 DEF nextLectureAt
  <2>2. /\ pySoon => tsSoon
        /\ tsSoon /\ ~pySoon => CutOff(IMMINENT_LECTURE_HOURS)
    <3> HIDE DEF next
    <3> QED  BY <2>1 DEF TsWithin, PyWithin, IMMINENT_LECTURE_HOURS, Hour
  <2>3. /\ pyNext => tsNext
        /\ tsNext /\ ~pyNext => CutOff(CRITICAL_WINDOW_HOURS)
    <3> HIDE DEF next
    <3> QED  BY <2>1 DEF TsWithin, PyWithin, CRITICAL_WINDOW_HOURS, Hour
  <2>4. ts = [topics |-> Behind(tsSoon), next_lecture_at |-> next,
              severity |-> Severity(Behind(tsSoon), tsNext)]
    BY <2>0 DEF computeFallBehind, FallBehindBy
  <2>5. py = [topics |-> Behind(pySoon), next_lecture_at |-> next,
              severity |-> Severity(Behind(pySoon), pyNext)]
    BY DEF compute_fall_behind, FallBehindBy
  <2>6. Behind(pySoon) \subseteq Behind(tsSoon)
    BY <2>2
  <2>7. Order(Severity(Behind(pySoon), pyNext)) <= Order(Severity(Behind(tsSoon), tsNext))
    <3> HIDE DEF Behind, tsSoon, pySoon, tsNext, pyNext
    <3> QED  BY <2>3, <2>6 DEF Order
  <2>8. ASSUME ts # py
        PROVE  next # Never /\ (CutOff(IMMINENT_LECTURE_HOURS) \/ CutOff(CRITICAL_WINDOW_HOURS))
    <3>1. tsSoon # pySoon \/ tsNext # pyNext
      <4> HIDE DEF ts, py, Behind, Severity, tsSoon, pySoon, tsNext, pyNext
      <4> QED  BY <2>4, <2>5, <2>8
    <3> QED  BY <2>2, <2>3, <3>1
  <2> HIDE DEF ts, py, next, Behind, Severity, CutOff, tsSoon, pySoon, tsNext, pyNext
  <2>9. /\ ts.next_lecture_at = py.next_lecture_at
        /\ py.topics \subseteq ts.topics
        /\ Order(py.severity) <= Order(ts.severity)
        /\ ts # py => py.next_lecture_at # Never
                      /\ (CutOff(IMMINENT_LECTURE_HOURS) \/ CutOff(CRITICAL_WINDOW_HOURS))
    BY <2>4, <2>5, <2>6, <2>7, <2>8
  <2>10. py.next_lecture_at = next
    BY <2>5
  <2> QED  BY <2>9, <2>10 DEF ts, py, CutOff, MirrorsServer
<1> QED  BY <1>1, ViewsInvariant, PTL
-----------------------------------------------------------------------------
\* What orders a set: no element before itself, and of two one before the other.
TotalOrder(R, S) ==
    /\ \A x \in S : <<x, x>> \notin R
    /\ \A x, y, z \in S : <<x, y>> \in R /\ <<y, z>> \in R => <<x, z>> \in R
    /\ \A x, y \in S : x # y => <<x, y>> \in R \/ <<y, x>> \in R

\* A finite set that is not empty has a last element: a least set without one
\* would have it after one of its elements is taken away.
LEMMA LastOf ==
    ASSUME NEW S, NEW R, TotalOrder(R, S),
           NEW T \in SUBSET S, IsFiniteSet(T), T # {}
    PROVE  \E m \in T : \A x \in T \ {m} : <<x, m>> \in R
<1> DEFINE HasLast(U) == \E m \in U : \A x \in U \ {m} : <<x, m>> \in R
           Sizes == {n \in Nat : \E U \in SUBSET S :
                       IsFiniteSet(U) /\ U # {} /\ Cardinality(U) = n /\ ~HasLast(U)}
<1> SUFFICES ASSUME ~HasLast(T)  PROVE FALSE
  OBVIOUS
<1>1. Cardinality(T) \in Sizes
  BY FS_CardinalityType
<1>2. PICK n \in Sizes : \A k \in Sizes : n <= k
  <2>1. Sizes \in SUBSET Nat /\ Sizes # {}
    BY <1>1
  <2> HIDE DEF Sizes
  <2> QED  BY <2>1, MinOf
<1>3. PICK U \in SUBSET S : IsFiniteSet(U) /\ U # {} /\ Cardinality(U) = n /\ ~HasLast(U)
  BY <1>2
<1>4. PICK u \in U : TRUE
  BY <1>3
<1> DEFINE V == U \ {u}
<1>5. IsFiniteSet(V) /\ Cardinality(V) = n - 1 /\ V \in SUBSET S
  BY <1>3, <1>4, FS_RemoveElement
<1>6. V # {}
  BY <1>3, <1>4
<1>7. HasLast(V)
  <2>1. n - 1 \in Nat
    BY <1>5, FS_CardinalityType
  <2>2. n - 1 \notin Sizes
    <3>1. n \in Nat /\ ~(n <= n - 1)
      BY <2>1, <1>2
    <3> HIDE DEF Sizes
    <3> QED  BY <3>1, <1>2
  <2> HIDE DEF V, HasLast
  <2> QED  BY <2>1, <2>2, <1>5, <1>6
<1>8. PICK m \in V : \A x \in V \ {m} : <<x, m>> \in R
  BY <1>7
<1>9. m \in S /\ u \in S /\ m # u
  BY <1>3, <1>4, <1>8
<1>10. CASE <<u, m>> \in R
  <2>1. \A x \in U \ {m} : <<x, m>> \in R
    BY <1>8, <1>10
  <2> QED  BY <2>1, <1>3, <1>8
<1>11. CASE <<m, u>> \in R
  <2>1. \A x \in U \ {u} : <<x, u>> \in R
    BY <1>3, <1>8, <1>9, <1>11 DEF TotalOrder
  <2> QED  BY <2>1, <1>3, <1>4
<1> QED  BY <1>9, <1>10, <1>11 DEF TotalOrder

Sorts(seq, S, R) ==
    /\ seq \in [1..Cardinality(S) -> S]
    /\ \A i, j \in DOMAIN seq : i < j => <<seq[i], seq[j]>> \in R

\* A finite set can be put in order: take the last away, order the others.
LEMMA CanBeSorted ==
    ASSUME NEW S, IsFiniteSet(S), NEW R, TotalOrder(R, S)
    PROVE  \E seq : Sorts(seq, S, R)
<1> DEFINE Sortable(U) == \E seq : Sorts(seq, U, R)
           Sizes == {n \in Nat : \E U \in SUBSET S :
                       IsFiniteSet(U) /\ Cardinality(U) = n /\ ~Sortable(U)}
<1> SUFFICES ASSUME ~Sortable(S)  PROVE FALSE
  OBVIOUS
<1>1. Cardinality(S) \in Sizes
  BY FS_CardinalityType
<1>2. PICK n \in Sizes : \A k \in Sizes : n <= k
  <2>1. Sizes \in SUBSET Nat /\ Sizes # {}
    BY <1>1
  <2> HIDE DEF Sizes
  <2> QED  BY <2>1, MinOf
<1>3. PICK U \in SUBSET S : IsFiniteSet(U) /\ Cardinality(U) = n /\ ~Sortable(U)
  BY <1>2
<1>4. n \in Nat
  BY <1>2
<1>5. U # {}
  <2> SUFFICES ASSUME U = {}  PROVE FALSE
    OBVIOUS
  <2>1. Cardinality(U) = 0
    BY FS_EmptySet
  <2>2. [i \in 1..0 |-> 0] \in [1..Cardinality(U) -> U]
    BY <2>1
  <2>3. Sorts([i \in 1..0 |-> 0], U, R)
    BY <2>2 DEF Sorts
  <2> QED  BY <1>3, <2>3
<1>6. PICK m \in U : \A x \in U \ {m} : <<x, m>> \in R
  BY <1>3, <1>5, LastOf
<1> DEFINE V == U \ {m}
<1>7. IsFiniteSet(V) /\ Cardinality(V) = n - 1 /\ V \in SUBSET S
  BY <1>3, <1>6, FS_RemoveElement
<1>8. n - 1 \in Nat
  BY <1>7, FS_CardinalityType
<1>9. n - 1 \notin Sizes
  <2>1. ~(n <= n - 1)
    BY <1>4
  <2> HIDE DEF Sizes
  <2> QED  BY <2>1, <1>2
<1>10. PICK s : Sorts(s, V, R)
  <2> HIDE DEF V
  <2> QED  BY <1>7, <1>8, <1>9
<1>11. /\ s \in [1..(n - 1) -> V]
       /\ \A i, j \in 1..(n - 1) : i < j => <<s[i], s[j]>> \in R
  <2> HIDE DEF V
  <2> QED  BY <1>7, <1>10 DEF Sorts
<1> DEFINE seq == [i \in 1..n |-> IF i = n THEN m ELSE s[i]]
<1>12. \A i \in 1..n : i # n => i \in 1..(n - 1)
  BY <1>4
<1>13. seq \in [1..Cardinality(U) -> U]
  BY <1>3, <1>6, <1>11, <1>12
<1>14. ASSUME NEW i \in 1..n, NEW j \in 1..n, i < j
       PROVE  <<seq[i], seq[j]>> \in R
  <2>1. i # n /\ i \in 1..(n - 1)
    BY <1>4, <1>14
  <2>2. seq[i] = s[i] /\ s[i] \in V
    BY <2>1, <1>11
  <2>3. CASE j = n
    BY <2>2, <2>3, <1>6
  <2>4. CASE j # n
    BY <2>1, <2>2, <2>4, <1>11, <1>12, <1>14
  <2> QED  BY <2>3, <2>4
<1>15. Sorts(seq, U, R)
  <2>1. DOMAIN seq = 1..n
    OBVIOUS
  <2> HIDE DEF seq
  <2> QED  BY <2>1, <1>13, <1>14 DEF Sorts
<1> QED  BY <1>3, <1>15

\* What is in order has each element once, none twice.
LEMMA SortedOnce ==
    ASSUME NEW S, IsFiniteSet(S), NEW R, TotalOrder(R, S), NEW seq, Sorts(seq, S, R)
    PROVE  /\ seq \in Seq(S)
           /\ Len(seq) = Cardinality(S)
           /\ \A i, j \in 1..Len(seq) : i < j => <<seq[i], seq[j]>> \in R
           /\ \A x \in S : \E i \in 1..Len(seq) : seq[i] = x
<1>1. Cardinality(S) \in Nat /\ seq \in [1..Cardinality(S) -> S]
  BY FS_CardinalityType DEF Sorts
<1>2. seq \in Seq(S) /\ Len(seq) = Cardinality(S)
  BY <1>1
<1>3. \A i, j \in 1..Len(seq) : i < j => <<seq[i], seq[j]>> \in R
  BY <1>1, <1>2 DEF Sorts
<1>4. ASSUME NEW i \in 1..Cardinality(S), NEW j \in 1..Cardinality(S), i # j
      PROVE  seq[i] # seq[j]
  <2>1. i < j \/ j < i
    BY <1>1, <1>4
  <2>2. <<seq[i], seq[j]>> \in R \/ <<seq[j], seq[i]>> \in R
    BY <2>1, <1>2, <1>3
  <2> QED  BY <2>2, <1>1 DEF TotalOrder
<1>5. seq \in Injection(1..Cardinality(S), S)
  BY <1>1, <1>4 DEF Injection, IsInjective
<1>6. Cardinality(1..Cardinality(S)) = Cardinality(S)
  BY <1>1, FS_Interval
<1>7. seq \in Surjection(1..Cardinality(S), S)
  BY <1>5, <1>6, FS_Injection
<1> QED  BY <1>2, <1>3, <1>7 DEF Surjection
-----------------------------------------------------------------------------
\* A list of rows has each once, by the time they are due.
LEMMA ListedInOrder ==
    ASSUME NEW rows, NEW ids \in SUBSET Nat, IsFiniteSet(ids),
           \A id \in ids : rows[id].due_at \in Int
    PROVE  /\ Listed(rows, ids) \in Seq(ids)
           /\ \A i, j \in 1..Len(Listed(rows, ids)) :
                i < j => Due(rows, Listed(rows, ids)[i], Listed(rows, ids)[j])
           /\ \A id \in ids : \E i \in 1..Len(Listed(rows, ids)) : Listed(rows, ids)[i] = id
<1> DEFINE R == {p \in ids \X ids : Due(rows, p[1], p[2])}
           list == Listed(rows, ids)
<1>1. \A a, b \in ids : <<a, b>> \in R <=> Due(rows, a, b)
  OBVIOUS
<1>2. TotalOrder(R, ids)
  <2>1. \A a \in ids : ~Due(rows, a, a)
    BY DEF Due
  <2>2. ASSUME NEW a \in ids, NEW b \in ids, NEW c \in ids,
               Due(rows, a, b), Due(rows, b, c)
        PROVE  Due(rows, a, c)
    <3>1. PICK x \in Int, y \in Int, z \in Int :
            x = rows[a].due_at /\ y = rows[b].due_at /\ z = rows[c].due_at
      OBVIOUS
    <3>2. (x # Never /\ (y = Never \/ x < y)) \/ (x = y /\ a < b)
      BY <2>2, <3>1 DEF Due
    <3>3. (y # Never /\ (z = Never \/ y < z)) \/ (y = z /\ b < c)
      BY <2>2, <3>1 DEF Due
    <3>4. (x # Never /\ (z = Never \/ x < z)) \/ (x = z /\ a < c)
      BY <3>2, <3>3
    <3> QED  BY <3>1, <3>4 DEF Due
  <2>3. \A a, b \in ids : a # b => Due(rows, a, b) \/ Due(rows, b, a)
    BY DEF Due
  <2> HIDE DEF R
  <2> QED  BY <1>1, <2>1, <2>2, <2>3 DEF TotalOrder
<1>3. PICK s : Sorts(s, ids, R)
  <2> HIDE DEF R
  <2> QED  BY <1>2, CanBeSorted
<1>4. /\ s \in [1..Cardinality(ids) -> ids]
      /\ \A i, j \in DOMAIN s : i < j => Due(rows, s[i], s[j])
  BY <1>3 DEF Sorts
<1>5. /\ list \in [1..Cardinality(ids) -> ids]
      /\ \A i, j \in DOMAIN list : i < j => Due(rows, list[i], list[j])
  BY <1>4 DEF Listed, InOrder
<1> HIDE DEF list
<1>6. Sorts(list, ids, R)
  BY <1>5 DEF Sorts
<1>7. /\ list \in Seq(ids) /\ Len(list) = Cardinality(ids)
      /\ \A id \in ids : \E i \in 1..Len(list) : list[i] = id
  <2> HIDE DEF R
  <2> QED  BY <1>2, <1>6, SortedOnce
<1>8. DOMAIN list = 1..Len(list)
  BY <1>7
<1> QED  BY <1>5, <1>7, <1>8 DEF list

\* A course that is behind is named, in the order of the courses.
LEMMA CoursesInOrder ==
    ASSUME NEW ids \in SUBSET Int, IsFiniteSet(ids)
    PROVE  /\ InOrder(ids, <) \in Seq(ids)
           /\ \A id \in ids : \E i \in 1..Len(InOrder(ids, <)) : InOrder(ids, <)[i] = id
<1> DEFINE R == {p \in ids \X ids : p[1] < p[2]}
           list == InOrder(ids, <)
<1>1. TotalOrder(R, ids)
  BY DEF TotalOrder
<1>2. PICK s : Sorts(s, ids, R)
  <2> HIDE DEF R
  <2> QED  BY <1>1, CanBeSorted
<1>3. /\ s \in [1..Cardinality(ids) -> ids]
      /\ \A i, j \in DOMAIN s : i < j => s[i] < s[j]
  BY <1>2 DEF Sorts
<1>4. /\ list \in [1..Cardinality(ids) -> ids]
      /\ \A i, j \in DOMAIN list : i < j => list[i] < list[j]
  BY <1>3 DEF InOrder
<1> HIDE DEF list
<1>5. Sorts(list, ids, R)
  BY <1>4 DEF Sorts
<1>6. /\ list \in Seq(ids)
      /\ \A id \in ids : \E i \in 1..Len(list) : list[i] = id
  <2> HIDE DEF R
  <2> QED  BY <1>1, <1>5, SortedOnce
<1> QED  BY <1>6 DEF list

\* Some sequence of a finite set has no others.
LEMMA SomeSequence ==
    ASSUME NEW S, IsFiniteSet(S)
    PROVE  SetToSeq(S) \in Seq(S)
<1>1. Cardinality(S) \in Nat /\ \E f : f \in [1..Cardinality(S) -> S] /\ IsInjective(f)
  BY FS_CardinalityType DEF ExistsBijection, Bijection, Injection
<1>2. SetToSeq(S) \in [1..Cardinality(S) -> S]
  BY <1>1 DEF SetToSeq
<1> QED  BY <1>1, <1>2

\* The first rows of a list.
LEMMA FirstRows ==
    ASSUME NEW S, NEW seq \in Seq(S), NEW n \in Nat
    PROVE  /\ slice(seq, n) \in Seq(S)
           /\ Len(slice(seq, n)) = IF Len(seq) < n THEN Len(seq) ELSE n
           /\ \A i \in 1..Len(slice(seq, n)) : slice(seq, n)[i] = seq[i]
BY DEF slice
-----------------------------------------------------------------------------
\* The words for a distance, from the calmest.
LEMMA Ranks ==
    /\ Rank("far") = 1 /\ Rank("later") = 2 /\ Rank("soon") = 3
    /\ Rank("urgent") = 4 /\ Rank("past") = 5
<1>1. DOMAIN Severities = {1, 2, 3, 4, 5}
  BY DEF Severities
<1>2. /\ Severities[1] = "far" /\ Severities[2] = "later" /\ Severities[3] = "soon"
      /\ Severities[4] = "urgent" /\ Severities[5] = "past"
  BY DEF Severities
<1> QED  BY <1>1, <1>2 DEF Rank

\* A time and a day in half hours.
LEMMA DayBounds ==
    ASSUME NEW t \in Int
    PROVE  DayOf(t) \in Int /\ 48 * DayOf(t) <= t /\ t < 48 * DayOf(t) + 48
BY DEF DayOf, Day, Hour

\* A time and its date: the change of the clocks moves either by its hour.
LEMMA DateBounds ==
    ASSUME NEW t \in Int
    PROVE  /\ DateOf(t) \in Int
           /\ 48 * DateOf(t) + (IF Change = 0 - 2 THEN 0 - 2 ELSE 0) <= t
           /\ t < 48 * DateOf(t) + (IF Change = 2 THEN 50 ELSE 48)
<1>1. ChangeDay \in Nat /\ Change \in {0 - 2, 0, 2} /\ Day = 48
  BY ChangeAssumption DEF Day, Hour
<1>2. CASE t < 48 * ChangeDay
  <2>1. DateOf(t) = DayOf(t)
    BY <1>1, <1>2 DEF DateOf
  <2>2. PICK d \in Int : d = DayOf(t) /\ 48 * d <= t /\ t < 48 * d + 48
    BY DayBounds
  <2> QED  BY <1>1, <2>1, <2>2
<1>3. CASE t >= 48 * ChangeDay /\ t < 48 * (ChangeDay + 1) + Change
  <2>1. DateOf(t) = ChangeDay
    BY <1>1, <1>3 DEF DateOf
  <2> QED  BY <1>1, <1>3, <2>1
<1>4. CASE t >= 48 * (ChangeDay + 1) + Change
  <2>1. PICK u \in Int : u = t - Change
    BY <1>1
  <2>2. DateOf(t) = DayOf(u)
    <3>1. ~(t < 48 * ChangeDay)
      BY <1>1, <1>4
    <3> QED  BY <1>1, <1>4, <2>1, <3>1 DEF DateOf
  <2> QED  BY <1>1, <2>1, <2>2, DayBounds
<1> QED  BY <1>1, <1>2, <1>3, <1>4

LEMMA DatesGoOn ==
    ASSUME NEW t \in Int, NEW u \in Int, t <= u
    PROVE  DateOf(t) <= DateOf(u)
<1>1. ChangeDay \in Nat /\ Change \in {0 - 2, 0, 2} /\ Day = 48
  BY ChangeAssumption DEF Day, Hour
<1> DEFINE start == 48 * ChangeDay
           end == 48 * (ChangeDay + 1) + Change
<1>2. ASSUME NEW x \in Int
      PROVE  /\ x < start => DateOf(x) = DayOf(x) /\ DayOf(x) < ChangeDay
             /\ x >= start /\ x < end => DateOf(x) = ChangeDay
             /\ x >= end => DateOf(x) = DayOf(x - Change) /\ DayOf(x - Change) > ChangeDay
  <2>1. PICK y \in Int : y = x - Change
    BY <1>1
  <2>2. x >= end => ~(x < start)
    BY <1>1
  <2>3. /\ x < start => DateOf(x) = DayOf(x)
        /\ x >= start /\ x < end => DateOf(x) = ChangeDay
        /\ x >= end => DateOf(x) = DayOf(y)
    BY <1>1, <2>1, <2>2 DEF DateOf
  <2>4. x < start => DayOf(x) < ChangeDay
    BY <1>1, DayBounds
  <2>5. x >= end => DayOf(y) > ChangeDay
    BY <1>1, <2>1, DayBounds
  <2> QED  BY <2>1, <2>3, <2>4, <2>5
<1>3. DateOf(t) \in Int /\ DateOf(u) \in Int
  BY DateBounds
<1>4. CASE u < start
  <2>1. DayOf(t) <= DayOf(u)
    BY DEF DayOf, Day, Hour
  <2> QED  BY <1>1, <1>2, <1>4, <2>1
<1>5. CASE t >= end
  <2>1. PICK x \in Int, y \in Int : x = t - Change /\ y = u - Change /\ x <= y
    BY <1>1
  <2>2. DayOf(x) <= DayOf(y)
    BY <2>1 DEF DayOf, Day, Hour
  <2>3. u >= end
    BY <1>1, <1>5
  <2> QED  BY <1>2, <1>5, <2>1, <2>2, <2>3
<1>6. CASE u >= start /\ t < end
  <2>1. start \in Int /\ end \in Int
    BY <1>1
  <2>2. DateOf(t) <= ChangeDay
    <3>1. t < start \/ (t >= start /\ t < end)
      BY <1>6, <2>1
    <3>2. DateOf(t) < ChangeDay \/ DateOf(t) = ChangeDay
      BY <1>2, <3>1
    <3> QED  BY <1>1, <1>3, <3>2
  <2>3. DateOf(u) >= ChangeDay
    <3>1. (u >= start /\ u < end) \/ u >= end
      BY <1>6, <2>1
    <3>2. DateOf(u) = ChangeDay \/ DateOf(u) > ChangeDay
      BY <1>2, <3>1
    <3> QED  BY <1>1, <1>3, <3>2
  <2> QED  BY <1>1, <1>3, <2>2, <2>3
<1>7. start \in Int /\ end \in Int
  BY <1>1
<1> QED  BY <1>4, <1>5, <1>6, <1>7

\* The days to a time ahead.
LEMMA DaysAhead ==
    ASSUME NEW due \in Int, NEW at \in Nat
    PROVE  /\ calendarDays(due, at) \in Int
           /\ due >= at => calendarDays(due, at) >= 0
           /\ 48 * calendarDays(due, at) - 50 < due - at
           /\ due - at < 48 * calendarDays(due, at) + 50
<1>1. PICK d \in Int, e \in Int : d = DateOf(due) /\ e = DateOf(at)
  BY DateBounds
<1>2. Change \in {0 - 2, 0, 2}
  BY ChangeAssumption DEF Hour
<1>3. /\ 48 * d + (IF Change = 0 - 2 THEN 0 - 2 ELSE 0) <= due
      /\ due < 48 * d + (IF Change = 2 THEN 50 ELSE 48)
      /\ 48 * e + (IF Change = 0 - 2 THEN 0 - 2 ELSE 0) <= at
      /\ at < 48 * e + (IF Change = 2 THEN 50 ELSE 48)
  BY <1>1, DateBounds
<1>4. calendarDays(due, at) = d - e
  BY <1>1 DEF calendarDays
<1>5. due >= at => e <= d
  BY <1>1, DatesGoOn
<1> QED  BY <1>2, <1>3, <1>4, <1>5

\* How near relative() says a time is, as a number.
LEMMA RelativeRank ==
    ASSUME NEW due \in Int, NEW at \in Nat
    PROVE  Rank(relative(due, at)) =
             IF due - at < 0 THEN 5
             ELSE IF due - at < 12 THEN 4
             ELSE IF due - at < 48 THEN 3
             ELSE IF calendarDays(due, at) = 0 THEN 4
             ELSE IF calendarDays(due, at) <= 3 THEN 3
             ELSE IF calendarDays(due, at) <= 7 THEN 2 ELSE 1
<1>1. PICK days \in Int : days = calendarDays(due, at) /\ (due - at >= 0 => days >= 0)
  <2>1. calendarDays(due, at) \in Int /\ (due >= at => calendarDays(due, at) >= 0)
    BY DaysAhead
  <2> QED  BY <2>1
<1>2. Day = 48 /\ Hour = 2
  BY DEF Day, Hour
<1>3. due - at < 0 => relative(due, at) = "past"
  BY <1>1, <1>2 DEF relative
<1>4. due - at >= 0 /\ due - at < 12 => relative(due, at) = "urgent"
  BY <1>1, <1>2 DEF relative
<1>5. due - at >= 12 /\ due - at < 48 => relative(due, at) = "soon"
  BY <1>1, <1>2 DEF relative
<1>6. due - at >= 48 /\ days = 0 => relative(due, at) = "urgent"
  BY <1>1, <1>2 DEF relative
<1>7. due - at >= 48 /\ days # 0 /\ days <= 3 => relative(due, at) = "soon"
  BY <1>1, <1>2 DEF relative
<1>8. due - at >= 48 /\ days > 3 /\ days <= 7 => relative(due, at) = "later"
  BY <1>1, <1>2 DEF relative
<1>9. due - at >= 48 /\ days > 7 => relative(due, at) = "far"
  BY <1>1, <1>2 DEF relative
<1> QED  BY <1>1, <1>3, <1>4, <1>5, <1>6, <1>7, <1>8, <1>9, Ranks

\* How near a theme's label says it is: it rounds, and has no word for far
\* but the terminal's.
LEMMA LabelRank ==
    ASSUME NEW theme, NEW due \in Int, NEW at \in Nat
    PROVE  Rank(relLabel(theme, due, at)) \in
             IF due - at < 0 THEN {5}
             ELSE IF due - at < 11 THEN {4}
             ELSE IF due - at < 168 THEN {3}
             ELSE IF due - at < 360 THEN {2} ELSE {1, 2}
<1>1. Day = 48 /\ Hour = 2
  BY DEF Day, Hour
<1> DEFINE ahead == due - at
           h == Round(ahead, Hour)
           d == Round(ahead, Day)
<1>2. h = (2 * ahead + 2) \div 4 /\ d = (2 * ahead + 48) \div 96
  BY <1>1 DEF Round
<1>3. h \in Int /\ d \in Int
  BY <1>2
<1>4. ahead >= 0 => (h < 6 <=> ahead < 11) /\ (h < 24 <=> ahead < 47)
  BY <1>2
<1>5. ahead >= 0 => (d <= 3 <=> ahead < 168) /\ (d <= 7 <=> ahead < 360)
  BY <1>2
<1>6. relLabel(theme, due, at) =
        IF ahead < 0 THEN "past"
        ELSE IF ahead < 2 THEN "urgent"
        ELSE IF h < 24 THEN IF h < 6 THEN "urgent" ELSE "soon"
        ELSE IF d <= 3 THEN "soon"
        ELSE IF d <= 7 \/ theme # "terminal" THEN "later" ELSE "far"
  BY <1>1 DEF relLabel
<1>7. ahead \in Int
  OBVIOUS
<1> HIDE DEF ahead, h, d
<1>8. Rank(relLabel(theme, due, at)) \in
        IF ahead < 0 THEN {5}
        ELSE IF ahead < 11 THEN {4}
        ELSE IF ahead < 168 THEN {3}
        ELSE IF ahead < 360 THEN {2} ELSE {1, 2}
  BY <1>3, <1>4, <1>5, <1>6, <1>7, Ranks
<1> QED  BY <1>8 DEF ahead

\* As the clock goes on, a time comes closer in both measures.
LEMMA Closer ==
    ASSUME NEW due \in Int, NEW at \in Nat, NEW later \in Nat, at <= later
    PROVE  Rank(relative(due, later)) >= Rank(relative(due, at)) \/ DueInALongDay(due, at)
<1>1. PICK d \in Int, e \in Int : d = calendarDays(due, at) /\ e = calendarDays(due, later)
  BY DaysAhead
<1>2. e <= d
  <2>1. PICK x \in Int, y \in Int, z \in Int :
          x = DateOf(due) /\ y = DateOf(at) /\ z = DateOf(later)
    <3>1. DateOf(due) \in Int /\ DateOf(at) \in Int /\ DateOf(later) \in Int
      BY DateBounds
    <3> QED  BY <3>1
  <2>2. y <= z
    BY <2>1, DatesGoOn
  <2> QED  BY <1>1, <2>1, <2>2 DEF calendarDays
<1>3. PICK r, q : r = Rank(relative(due, at)) /\ q = Rank(relative(due, later))
  OBVIOUS
<1>4. r = IF due - at < 0 THEN 5 ELSE IF due - at < 12 THEN 4 ELSE IF due - at < 48 THEN 3
          ELSE IF d = 0 THEN 4 ELSE IF d <= 3 THEN 3 ELSE IF d <= 7 THEN 2 ELSE 1
  BY <1>1, <1>3, RelativeRank
<1>5. q = IF due - later < 0 THEN 5 ELSE IF due - later < 12 THEN 4 ELSE IF due - later < 48 THEN 3
          ELSE IF e = 0 THEN 4 ELSE IF e <= 3 THEN 3 ELSE IF e <= 7 THEN 2 ELSE 1
  BY <1>1, <1>3, RelativeRank
<1>6. q >= r \/ (due - at >= 48 /\ d = 0)
  BY <1>2, <1>4, <1>5
<1> QED  BY <1>1, <1>3, <1>6 DEF DueInALongDay, Day, Hour

\* The two vocabularies are at most one step apart.
LEMMA OneStepApart ==
    ASSUME NEW theme, NEW due \in Int, NEW at \in Nat
    PROVE  Rank(relLabel(theme, due, at)) \in
             (Rank(relative(due, at)) - 1)..(Rank(relative(due, at)) + 1)
<1>1. PICK days \in Int, ahead \in Int :
        /\ days = calendarDays(due, at) /\ ahead = due - at
        /\ 48 * days - 50 < ahead /\ ahead < 48 * days + 50
  <2>1. calendarDays(due, at) \in Int /\ due - at \in Int
    BY DaysAhead
  <2>2. PICK days \in Int : days = calendarDays(due, at)
    BY <2>1
  <2>3. 48 * days - 50 < due - at /\ due - at < 48 * days + 50
    BY <2>2, DaysAhead
  <2> QED  BY <2>1, <2>2, <2>3
<1>2. PICK r, l : r = Rank(relative(due, at)) /\ l = Rank(relLabel(theme, due, at))
  OBVIOUS
<1>3. r = IF ahead < 0 THEN 5 ELSE IF ahead < 12 THEN 4 ELSE IF ahead < 48 THEN 3
          ELSE IF days = 0 THEN 4 ELSE IF days <= 3 THEN 3 ELSE IF days <= 7 THEN 2 ELSE 1
  BY <1>1, <1>2, RelativeRank
<1>4. l \in IF ahead < 0 THEN {5} ELSE IF ahead < 11 THEN {4}
             ELSE IF ahead < 168 THEN {3} ELSE IF ahead < 360 THEN {2} ELSE {1, 2}
  BY <1>1, <1>2, LabelRank
<1>5. r \in Int /\ l \in (r - 1)..(r + 1)
  BY <1>1, <1>3, <1>4
<1> QED  BY <1>2, <1>5
-----------------------------------------------------------------------------
OpenOnes(rows) == {d \in DOMAIN rows : rows[d].status \in {"open", "in_progress"}}

\* The rows of a response.
LEMMA RowsShown ==
    ASSUME ViewInv, Shown
    PROVE  /\ view.at \in Nat /\ now \in Nat /\ view.at <= now
           /\ \A rows \in {view.data.deliverables, view.data.tasks} :
                /\ DOMAIN rows \in SUBSET Nat /\ IsFiniteSet(DOMAIN rows)
                /\ \A id \in DOMAIN rows : rows[id].due_at \in Int
<1>1. view.at \in 0..now /\ now \in Nat /\ IsStore(view.data)
  BY DEF ViewInv
<1>2. /\ view.data.deliverables \in [DOMAIN view.data.deliverables -> DeliverableRow]
      /\ view.data.tasks \in [DOMAIN view.data.tasks -> TaskRow]
      /\ \A rows \in {view.data.deliverables, view.data.tasks} :
           DOMAIN rows \in SUBSET Nat /\ IsFiniteSet(DOMAIN rows)
  BY <1>1 DEF IsStore
<1>3. /\ \A id \in DOMAIN view.data.deliverables : view.data.deliverables[id].due_at \in Int
      /\ \A id \in DOMAIN view.data.tasks : view.data.tasks[id].due_at \in Int
  BY <1>2 DEF DeliverableRow, TaskRow
<1> QED  BY <1>1, <1>2, <1>3

\* The open deliverables are listed, each once, by the time they are due.
LEMMA OpenListed ==
    ASSUME ViewInv, Shown
    PROVE  LET rows == view.data.deliverables
               open == openDeliverables(rows)
           IN  /\ open = Listed(rows, OpenOnes(rows))
               /\ open \in Seq(OpenOnes(rows))
               /\ \A i, j \in 1..Len(open) : i < j => Due(rows, open[i], open[j])
               /\ \A d \in OpenOnes(rows) : \E i \in 1..Len(open) : open[i] = d
<1> DEFINE rows == view.data.deliverables
<1>1. /\ OpenOnes(rows) \in SUBSET Nat /\ IsFiniteSet(OpenOnes(rows))
      /\ \A d \in OpenOnes(rows) : rows[d].due_at \in Int
  <2>1. OpenOnes(rows) \in SUBSET DOMAIN rows
    BY DEF OpenOnes
  <2>2. /\ DOMAIN rows \in SUBSET Nat /\ IsFiniteSet(DOMAIN rows)
        /\ \A d \in DOMAIN rows : rows[d].due_at \in Int
    BY RowsShown
  <2> HIDE DEF rows
  <2> QED  BY <2>1, <2>2, FS_Subset
<1>2. openDeliverables(rows) = Listed(rows, OpenOnes(rows))
  BY DEF openDeliverables, OpenOnes
<1> HIDE DEF rows
<1>3. LET open == openDeliverables(rows)
      IN  /\ open \in Seq(OpenOnes(rows))
          /\ \A i, j \in 1..Len(open) : i < j => Due(rows, open[i], open[j])
          /\ \A d \in OpenOnes(rows) : \E i \in 1..Len(open) : open[i] = d
  BY <1>1, <1>2, ListedInOrder
<1> QED  BY <1>2, <1>3 DEF rows

\* The tile names a row.
LEMMA NextDueIsARow ==
    ASSUME ViewInv, Shown, nextDue # Never
    PROVE  /\ nextDue \in OpenOnes(view.data.deliverables)
           /\ openDeliverables(view.data.deliverables) # <<>>
           /\ nextDue = openDeliverables(view.data.deliverables)[1]
<1> DEFINE open == openDeliverables(view.data.deliverables)
<1>1. open # <<>> /\ nextDue = open[1]
  BY DEF nextDue
<1>2. open \in Seq(OpenOnes(view.data.deliverables))
  BY OpenListed
<1> HIDE DEF open
<1>3. open[1] \in OpenOnes(view.data.deliverables)
  BY <1>1, <1>2
<1> QED  BY <1>1, <1>3 DEF open

\* Urgency only grows, whatever the times and whenever the clocks change: a
\* list drawn later is no calmer than the tile of the response (lib/time.ts,
\* the themes' relLabel), save on the day of 25 hours for what is due on it in
\* 24 hours or more; the two vocabularies are never two steps apart, and the
\* tile of a deadline within three days is coloured in every theme.
THEOREM UrgencyHolds == Spec => []UrgencyOnlyGrows
<1>1. ASSUME ViewInv, Shown  PROVE UrgencyOnlyGrows
  <2> DEFINE rows == view.data.deliverables
  <2>1. view.at \in Nat /\ now \in Nat /\ view.at <= now
        /\ \A d \in DOMAIN rows : rows[d].due_at \in Int
    BY <1>1, RowsShown
  <2>2. ASSUME NEW d \in DOMAIN rows
        PROVE  /\ \/ Rank(relative(rows[d].due_at, now)) >= Rank(relative(rows[d].due_at, view.at))
                  \/ DueInALongDay(rows[d].due_at, view.at)
               /\ \A theme \in Themes \ {"editorial"} :
                    Rank(relLabel(theme, rows[d].due_at, view.at)) \in
                      (Rank(relative(rows[d].due_at, view.at)) - 1)
                        ..(Rank(relative(rows[d].due_at, view.at)) + 1)
    <3>1. PICK due \in Int : due = rows[d].due_at
      BY <2>1, <2>2
    <3> HIDE DEF rows
    <3> QED  BY <2>1, <3>1, Closer, OneStepApart
  <2>3. ASSUME nextDue # Never, NEW theme \in Themes,
               rows[nextDue].due_at >= view.at,
               calendarDays(rows[nextDue].due_at, view.at) <= 3
        PROVE  nextDueTone(theme) # "default"
    <3>1. nextDue \in DOMAIN rows
      BY <1>1, <2>3, NextDueIsARow DEF OpenOnes
    <3>2. PICK due \in Int : due = rows[nextDue].due_at
      BY <2>1, <3>1
    <3>3. PICK days \in Int : days = calendarDays(due, view.at) /\ (due >= view.at => days >= 0)
      BY <2>1, <3>2, DaysAhead
    <3>4. relative(due, view.at) \in {"urgent", "soon"}
      <4>1. due - view.at \in Nat /\ days \in 0..3
        BY <2>1, <2>3, <3>2, <3>3
      <4> QED  BY <2>1, <3>3, <4>1 DEF relative, Day, Hour
    <3>5. nextDueTone(theme) =
            IF theme \in {"editorial", "terminal"}
            THEN CASE relative(due, view.at) = "urgent" -> "critical"
                   [] relative(due, view.at) = "soon" -> "warn"
                   [] OTHER -> "default"
            ELSE CASE (IF days < 0 THEN 0 ELSE days) <= 1 -> "critical"
                   [] (IF days < 0 THEN 0 ELSE days) \in 2..3 -> "warn"
                   [] OTHER -> "default"
      BY <2>3, <3>2, <3>3 DEF nextDueTone
    <3>6. days <= 3
      BY <2>3, <3>2, <3>3
    <3> QED  BY <3>4, <3>5, <3>6
  <2> QED  BY <2>2, <2>3 DEF UrgencyOnlyGrows
<1>2. ViewInv => UrgencyOnlyGrows
  BY <1>1 DEF UrgencyOnlyGrows
<1> QED  BY <1>2, ViewsInvariant, PTL
-----------------------------------------------------------------------------
\* What the first rows of a list leave out comes after a full panel.
LEMMA LeftOut ==
    ASSUME NEW rows, NEW ids, NEW list \in Seq(ids), NEW n \in Nat, NEW id \in ids,
           \A i, j \in 1..Len(list) : i < j => Due(rows, list[i], list[j]),
           \A x \in ids : \E i \in 1..Len(list) : list[i] = x,
           id \notin ToSet(slice(list, n))
    PROVE  Len(slice(list, n)) = n /\ Precede(rows, slice(list, n), id)
<1> DEFINE panel == slice(list, n)
<1>1. /\ panel \in Seq(ids)
      /\ Len(panel) = IF Len(list) < n THEN Len(list) ELSE n
      /\ \A i \in 1..Len(panel) : panel[i] = list[i]
  BY FirstRows
<1> HIDE DEF panel
<1>2. PICK k \in 1..Len(list) : list[k] = id
  OBVIOUS
<1>3. Len(panel) \in Nat /\ Len(list) \in Nat /\ DOMAIN panel = 1..Len(panel)
  BY <1>1
<1>4. k \notin 1..Len(panel)
  <2> SUFFICES ASSUME k \in 1..Len(panel)  PROVE FALSE
    OBVIOUS
  <2>1. panel[k] = id /\ k \in DOMAIN panel
    BY <1>3, <1>1, <1>2
  <2> QED  BY <2>1 DEF ToSet, panel
<1>5. Len(panel) = n /\ Len(panel) < k
  BY <1>1, <1>2, <1>3, <1>4
<1>6. ASSUME NEW i \in DOMAIN panel  PROVE Due(rows, panel[i], id)
  <2>1. PICK a \in Nat, b \in Nat :
          a = Len(panel) /\ b = Len(list) /\ i \in 1..a /\ a < k /\ k \in 1..b
    BY <1>3, <1>2, <1>5, <1>6
  <2>2. i \in 1..Len(panel) /\ i \in 1..Len(list) /\ i < k
    BY <2>1
  <2> QED  BY <2>2, <1>1, <1>2
<1> QED  BY <1>5, <1>6 DEF Precede, panel

\* A theme's panels and the editorial list hold every open deliverable there
\* is room for, the tile's first.
LEMMA DeadlinesInSight ==
    ASSUME ViewInv, Shown, NEW theme \in Themes
    PROVE  LET rows == view.data.deliverables
               deadlines == Deadlines(theme)
           IN  /\ nextDue # Never => deadlines # <<>> /\ deadlines[1] = nextDue
               /\ \A d \in DOMAIN rows \ ToSet(deadlines) :
                    rows[d].status \in {"open", "in_progress"} =>
                        /\ Len(deadlines) = IF theme = "editorial" THEN ListRows ELSE PanelRows
                        /\ Precede(rows, deadlines, d)
<1> DEFINE rows == view.data.deliverables
           open == openDeliverables(rows)
           n == IF theme = "editorial" THEN ListRows ELSE PanelRows
<1>1. n \in Nat \ {0}
  BY RowsAssumption
<1>2. /\ open = Listed(rows, OpenOnes(rows))
      /\ open \in Seq(OpenOnes(rows))
      /\ \A i, j \in 1..Len(open) : i < j => Due(rows, open[i], open[j])
      /\ \A d \in OpenOnes(rows) : \E i \in 1..Len(open) : open[i] = d
  BY OpenListed
<1>3. Deadlines(theme) = slice(open, n)
  BY <1>2 DEF Deadlines, OpenOnes
<1> HIDE DEF open, n
<1>4. ASSUME nextDue # Never
      PROVE  Deadlines(theme) # <<>> /\ Deadlines(theme)[1] = nextDue
  <2>1. open # <<>> /\ nextDue = open[1]
    BY <1>4, NextDueIsARow DEF open
  <2>2. /\ slice(open, n) \in Seq(OpenOnes(rows))
        /\ Len(slice(open, n)) = IF Len(open) < n THEN Len(open) ELSE n
        /\ \A i \in 1..Len(slice(open, n)) : slice(open, n)[i] = open[i]
    BY <1>1, <1>2, FirstRows
  <2>3. Len(open) \in Nat \ {0}
    BY <1>2, <2>1
  <2>4. Len(slice(open, n)) \in Nat \ {0}
    BY <1>1, <2>2, <2>3
  <2> QED  BY <1>3, <2>1, <2>2, <2>4
<1>5. ASSUME NEW d \in DOMAIN rows \ ToSet(Deadlines(theme)),
             rows[d].status \in {"open", "in_progress"}
      PROVE  Len(Deadlines(theme)) = n /\ Precede(rows, Deadlines(theme), d)
  <2>1. d \in OpenOnes(rows)
    BY <1>5 DEF OpenOnes
  <2>2. PICK ids : ids = OpenOnes(rows)
    OBVIOUS
  <2>3. d \in ids /\ n \in Nat /\ d \notin ToSet(slice(open, n))
    BY <1>1, <1>3, <1>5, <2>1, <2>2
  <2>4. /\ open \in Seq(ids)
        /\ \A i, j \in 1..Len(open) : i < j => Due(rows, open[i], open[j])
        /\ \A x \in ids : \E i \in 1..Len(open) : open[i] = x
    BY <1>2, <2>2
  <2> HIDE DEF rows
  <2>5. Len(slice(open, n)) = n /\ Precede(rows, slice(open, n), d)
    BY <2>3, <2>4, LeftOut
  <2> QED  BY <1>3, <2>5
<1> QED  BY <1>4, <1>5 DEF n

\* An open task is in the editorial inbox; a theme's leaves out what comes
\* after a full panel.
LEMMA TasksInSight ==
    ASSUME ViewInv, Shown, NEW theme \in Themes
    PROVE  LET tasks == view.data.tasks
               inbox == Inbox(theme)
           IN  \A t \in DOMAIN tasks \ ToSet(inbox) :
                 isOpen(tasks[t]) => theme # "editorial" /\ Len(inbox) = TaskRows
                                     /\ Precede(tasks, inbox, t)
<1> DEFINE tasks == view.data.tasks
           inbox == Inbox(theme)
<1> SUFFICES ASSUME NEW t \in DOMAIN tasks \ ToSet(inbox), isOpen(tasks[t])
             PROVE  theme # "editorial" /\ Len(inbox) = TaskRows /\ Precede(tasks, inbox, t)
  OBVIOUS
<1>1. /\ DOMAIN tasks \in SUBSET Nat /\ IsFiniteSet(DOMAIN tasks)
      /\ \A id \in DOMAIN tasks : tasks[id].due_at \in Int
  BY RowsShown
<1>2. theme # "editorial"
  <2> SUFFICES ASSUME theme = "editorial"  PROVE FALSE
    OBVIOUS
  <2> DEFINE open == {x \in DOMAIN tasks : isOpen(tasks[x])}
             done == {x \in DOMAIN tasks : tasks[x].status = "done"}
  <2>1. inbox = Listed(tasks, open) \o SetToSeq(done)
    BY DEF Inbox
  <2>2. open \in SUBSET DOMAIN tasks /\ done \in SUBSET DOMAIN tasks /\ t \in open
    OBVIOUS
  <2> HIDE DEF open, done, tasks
  <2>3. /\ open \in SUBSET Nat /\ IsFiniteSet(open)
        /\ \A id \in open : tasks[id].due_at \in Int
        /\ IsFiniteSet(done)
    BY <1>1, <2>2, FS_Subset
  <2>4. Listed(tasks, open) \in Seq(open) /\ \E i \in 1..Len(Listed(tasks, open)) : Listed(tasks, open)[i] = t
    BY <2>2, <2>3, ListedInOrder
  <2>5. SetToSeq(done) \in Seq(done)
    BY <2>3, SomeSequence
  <2>6. PICK first, rest : first = Listed(tasks, open) /\ rest = SetToSeq(done)
    OBVIOUS
  <2>7. PICK i \in 1..Len(first) : first[i] = t
    BY <2>4, <2>6
  <2>8. first \in Seq(open \cup done) /\ rest \in Seq(open \cup done)
    BY <2>4, <2>5, <2>6
  <2>9. i \in DOMAIN (first \o rest) /\ (first \o rest)[i] = t
    BY <2>7, <2>8
  <2>10. t \in ToSet(first \o rest)
    BY <2>9 DEF ToSet
  <2>11. t \notin ToSet(inbox)
    BY DEF tasks
  <2> QED  BY <2>1, <2>6, <2>10, <2>11
<1>3. inbox = slice(Listed(tasks, DOMAIN tasks), TaskRows)
  BY <1>2 DEF Inbox
<1>4. TaskRows \in Nat
  BY RowsAssumption
<1> HIDE DEF tasks, inbox
<1>5. PICK list : list = Listed(tasks, DOMAIN tasks)
  OBVIOUS
<1>6. /\ list \in Seq(DOMAIN tasks)
      /\ \A i, j \in 1..Len(list) : i < j => Due(tasks, list[i], list[j])
      /\ \A id \in DOMAIN tasks : \E i \in 1..Len(list) : list[i] = id
  BY <1>1, <1>5, ListedInOrder
<1>7. t \in DOMAIN tasks /\ t \notin ToSet(slice(list, TaskRows))
  BY <1>3, <1>5
<1>8. Len(slice(list, TaskRows)) = TaskRows /\ Precede(tasks, slice(list, TaskRows), t)
  BY <1>4, <1>6, <1>7, LeftOut
<1> QED  BY <1>2, <1>3, <1>5, <1>8

\* Courses are as many as the rows name, and integers.
LEMMA CoursesAreFew ==
    ASSUME NEW rows, IsStore(rows)
    PROVE  Courses(rows) \in SUBSET Int /\ IsFiniteSet(Courses(rows))
<1> DEFINE ofSlots == {s.course : s \in rows.slots}
           ofTopics == {rows.topics[t].course : t \in DOMAIN rows.topics}
<1>1. rows.slots \subseteq SlotRow /\ IsFiniteSet(rows.slots)
  BY DEF IsStore
<1>2. rows.topics \in [DOMAIN rows.topics -> TopicRow] /\ IsFiniteSet(DOMAIN rows.topics)
  BY DEF IsStore
<1>3. IsFiniteSet(ofSlots)
  <2> DEFINE f == [s \in rows.slots |-> s.course]
  <2>1. f \in Surjection(rows.slots, ofSlots)
    BY DEF Surjection
  <2> HIDE DEF f, ofSlots
  <2> QED  BY <2>1, <1>1, FS_Surjection
<1>4. IsFiniteSet(ofTopics)
  <2> DEFINE f == [t \in DOMAIN rows.topics |-> rows.topics[t].course]
  <2>1. f \in Surjection(DOMAIN rows.topics, ofTopics)
    BY DEF Surjection
  <2> HIDE DEF f, ofTopics
  <2> QED  BY <2>1, <1>2, FS_Surjection
<1>5. ofSlots \in SUBSET Int /\ ofTopics \in SUBSET Int
  BY <1>1, <1>2 DEF SlotRow, TopicRow
<1>6. Courses(rows) = ofSlots \cup ofTopics
  BY DEF Courses
<1> HIDE DEF ofSlots, ofTopics
<1> QED  BY <1>3, <1>4, <1>5, <1>6, FS_Union

\* A course that is behind is named by the notice, or marked.
LEMMA BehindInSight ==
    ASSUME ViewInv, Shown, NEW theme \in Themes
    PROVE  behindCourses \subseteq ToSet(Notice(theme)) \cup Marked(theme)
<1> SUFFICES ASSUME NEW c \in behindCourses
             PROVE  c \in ToSet(Notice(theme)) \cup Marked(theme)
  OBVIOUS
<1>1. CASE theme = "editorial"
  <2>1. Courses(view.data) \in SUBSET Int /\ IsFiniteSet(Courses(view.data))
    BY CoursesAreFew DEF ViewInv
  <2>2. behindCourses \in SUBSET Courses(view.data)
    BY DEF behindCourses
  <2>3. PICK courses : courses = behindCourses
    OBVIOUS
  <2>4. courses \in SUBSET Int /\ IsFiniteSet(courses) /\ c \in courses
    BY <2>1, <2>2, <2>3, FS_Subset
  <2>5. PICK list : list = InOrder(courses, <)
    OBVIOUS
  <2>6. list \in Seq(courses) /\ \E i \in 1..Len(list) : list[i] = c
    BY <2>4, <2>5, CoursesInOrder
  <2>7. c \in ToSet(list)
    BY <2>6 DEF ToSet
  <2>8. Notice(theme) = list
    BY <1>1, <2>3, <2>5 DEF Notice
  <2> QED  BY <2>7, <2>8
<1>2. CASE theme # "editorial"
  <2>1. c \in Courses(view.data) /\ fall_behind(c).severity # "ok"
    BY DEF behindCourses
  <2>2. fall_behind(c).topics # {}
    BY <2>1 DEF fall_behind, compute_fall_behind, FallBehindBy
  <2> QED  BY <1>2, <2>1, <2>2 DEF Marked
<1> QED  BY <1>1, <1>2

\* Nothing is out of sight, whatever the rows and however long the panels
\* (the dashboards' slice() of lists the server has sorted).
THEOREM AllIsInSight == Spec => []NothingIsOutOfSight
<1>1. ViewInv => NothingIsOutOfSight
  BY BehindInSight, DeadlinesInSight, TasksInSight DEF NothingIsOutOfSight
<1> QED  BY <1>1, ViewsInvariant, PTL
=============================================================================
