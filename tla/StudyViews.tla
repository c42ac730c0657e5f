----------------------------- MODULE StudyViews -----------------------------
(***************************************************************************)
(* The dashboard in its five themes, next to the rows it was computed from.*)
(* The server reads the lists of one response in separate transactions;    *)
(* the page keeps the response while the clock runs on and others write.   *)
(* Waiting for the response and its failure are QueryCache's.              *)
(***************************************************************************)
EXTENDS FallBehind, Sequences, SequencesExt

CONSTANTS
    Stores,       \* the databases a behaviour starts from
    Instants,     \* the half hours the clock stops at
    ListRows,     \* rows of the editorial deadline list (8 in the code)
    PanelRows,    \* rows of a themed deadline panel (10)
    TaskRows,     \* rows of a themed task panel (12)
    NoticeRows,   \* courses a themed notice names (3 or 4)
    ChangeDay,    \* the day the clocks change
    Change,       \* the half hours it is longer: 2 in autumn, -2 in spring
    MaxChanges    \* bound: writes of a behaviour

Themes == {"editorial", "terminal", "zine", "library", "swiss"}

\* Rows as the tables hold them: a start is a half hour of its day.
SlotKind == {"lecture", "exercise", "tutorial", "lab"}
StudyTopicStatus == {"not_started", "exposure", "reading", "guided_practice",
    "independent_practice", "timed_execution", "retry", "retention_verification",
    "in_progress", "studied", "mastered", "struggling"}
DeliverableStatus == {"open", "in_progress", "submitted", "graded", "skipped"}
TaskStatus == {"open", "in_progress", "done", "skipped", "blocked"}

SlotRow == [course : Int, kind : SlotKind, weekday : 1..7, start : 0..(Day - 1), starts_on : Int]
TopicRow == [course : Int, status : StudyTopicStatus, covered_on : Int]
DeliverableRow == [due_at : Int, status : DeliverableStatus]
TaskRow == [due_at : Int, status : TaskStatus]
IsStore(rows) ==
    /\ rows = [slots |-> rows.slots, topics |-> rows.topics,
               deliverables |-> rows.deliverables, tasks |-> rows.tasks]
    /\ rows.slots \subseteq SlotRow /\ IsFiniteSet(rows.slots)
    /\ \A ids \in {DOMAIN rows.topics, DOMAIN rows.deliverables, DOMAIN rows.tasks} :
         ids \subseteq Nat /\ IsFiniteSet(ids)
    /\ rows.topics \in [DOMAIN rows.topics -> TopicRow]
    /\ rows.deliverables \in [DOMAIN rows.deliverables -> DeliverableRow]
    /\ rows.tasks \in [DOMAIN rows.tasks -> TaskRow]

ASSUME StoresAssumption ==
    /\ Instants \subseteq Nat /\ Instants # {}
    /\ \A store \in Stores : IsStore(store)

ASSUME RowsAssumption == {ListRows, PanelRows, TaskRows, NoticeRows} \subseteq Nat \ {0}

ASSUME ChangeAssumption == ChangeDay \in Nat /\ Change \in {0 - Hour, 0, Hour}

VARIABLES
    now,       \* the clock, of the server and of the browser
    data,      \* the rows: slots, topics, deliverables, tasks
    reading,   \* a response in the making: its now, and the slots it has read
    view,      \* the response on the page: its now and its rows
    changes
viewVars == <<now, data, reading, view, changes>>

Nothing == [at |-> Never]
Shown == view # Nothing

ViewsInit ==
    /\ now = Min(Instants) /\ data \in Stores
    /\ reading = Nothing /\ view = Nothing /\ changes = 0

-----------------------------------------------------------------------------
\* How far a time is, in words: done by relative() against a clock, and again
\* by each theme's relLabel(), which rounds.
Severities == <<"far", "later", "soon", "urgent", "past">>
Rank(severity) == CHOOSE i \in DOMAIN Severities : Severities[i] = severity

\* The date on the browser's calendar: the day of the change is the longer or
\* the shorter for it. (The clocks change here alone: see FallBehind.)
DateOf(t) ==
    IF t < Day * ChangeDay THEN DayOf(t)
    ELSE IF t < Day * (ChangeDay + 1) + Change THEN ChangeDay
    ELSE DayOf(t - Change)

calendarDays(target, reference) == DateOf(target) - DateOf(reference)

\* Faulty: soon ends a day early.
SoonEndsEarly(target, reference) ==
    LET ahead == target - reference
        days == calendarDays(target, reference)
    IN  CASE ahead < 0 -> "past"
          [] ahead \in 0..(6 * Hour - 1) -> "urgent"
          [] ahead >= Day /\ days = 0 -> "urgent"
          [] ahead >= 6 * Hour /\ (ahead < Day \/ days \in 1..2) -> "soon"
          [] ahead >= Day /\ days \in 3..7 -> "later"
          [] ahead >= Day /\ days > 7 -> "far"

relative(target, reference) ==
    LET ahead == target - reference
        days == calendarDays(target, reference)
    IN  CASE ahead < 0 -> "past"
          [] ahead \in 0..(6 * Hour - 1) -> "urgent"
          [] ahead >= Day /\ days = 0 -> "urgent"
          [] ahead >= 6 * Hour /\ (ahead < Day \/ days \in 1..3) -> "soon"
          [] ahead >= Day /\ days \in 4..7 -> "later"
          [] ahead >= Day /\ days > 7 -> "far"

Round(time, unit) == (2 * time + unit) \div (2 * unit)

relLabel(theme, target, reference) ==
    LET ahead == target - reference
        d == Round(ahead, Day)
    IN  IF ahead < 0 THEN "past"
        ELSE IF ahead < Hour THEN "urgent"
        ELSE IF Round(ahead, Hour) < 24
             THEN IF Round(ahead, Hour) < 6 THEN "urgent" ELSE "soon"
        ELSE IF d <= 3 THEN "soon"
        ELSE IF d <= 7 \/ theme # "terminal" THEN "later" ELSE "far"

-----------------------------------------------------------------------------
\* The panels, each computed from the response, sorted by ORDER BY
\* or by the page.
InOrder(ids, Before(_, _)) ==
    CHOOSE seq \in [1..Cardinality(ids) -> ids] :
        \A i, j \in DOMAIN seq : i < j => Before(seq[i], seq[j])

Due(rows, a, b) ==     \* ORDER BY due_at, rows without one last
    \/ rows[a].due_at # Never /\ (rows[b].due_at = Never \/ rows[a].due_at < rows[b].due_at)
    \/ rows[a].due_at = rows[b].due_at /\ a < b
Listed(rows, ids) == InOrder(ids, LAMBDA a, b : Due(rows, a, b))
slice(seq, n) == SubSeq(seq, 1, IF Len(seq) < n THEN Len(seq) ELSE n)

\* Faulty: work that has been begun counts as handed in.
OnlyOpen(rows) == Listed(rows, {d \in DOMAIN rows : rows[d].status = "open"})

openDeliverables(rows) ==
    Listed(rows, {d \in DOMAIN rows : rows[d].status \in {"open", "in_progress"}})

\* The editorial list filters and sorts for itself.
Deadlines(theme) ==
    LET rows == view.data.deliverables
        open == {d \in DOMAIN rows : rows[d].status \in {"open", "in_progress"}}
    IN  IF theme = "editorial" THEN slice(Listed(rows, open), ListRows)
        ELSE slice(openDeliverables(rows), PanelRows)

isOpen(task) == task.status \notin {"done", "skipped"}

\* The editorial inbox lists what is open, then what is done when unfolded;
\* a theme lists the first rows whatever their status.
Inbox(theme) ==
    LET rows == view.data.tasks
    IN  IF theme = "editorial"
        THEN Listed(rows, {t \in DOMAIN rows : isOpen(rows[t])})
             \o SetToSeq({t \in DOMAIN rows : rows[t].status = "done"})
        ELSE slice(Listed(rows, DOMAIN rows), TaskRows)

nextDue == LET open == openDeliverables(view.data.deliverables)
           IN  IF open = <<>> THEN Never ELSE open[1]

\* The colour of the tile that names the next deadline.
nextDueTone(theme) ==
    IF nextDue = Never THEN "default" ELSE
    LET due == view.data.deliverables[nextDue].due_at
        severity == relative(due, view.at)
        days == IF calendarDays(due, view.at) < 0 THEN 0 ELSE calendarDays(due, view.at)
    IN  IF theme \in {"editorial", "terminal"}
        THEN CASE severity = "urgent" -> "critical"
               [] severity = "soon" -> "warn"
               [] OTHER -> "default"
        ELSE CASE days <= 1 -> "critical" [] days \in 2..3 -> "warn" [] OTHER -> "default"

\* What the response says of a course.
Courses(rows) == {s.course : s \in rows.slots} \cup {rows.topics[t].course : t \in DOMAIN rows.topics}
fall_behind(course) ==
    compute_fall_behind(course, view.data.topics, view.data.slots, view.at)
behindCourses == {c \in Courses(view.data) : fall_behind(c).severity # "ok"}

\* The courses a notice names, and the ones its row of dots marks.
Notice(theme) ==
    LET behind == InOrder(behindCourses, <)
    IN  IF theme = "editorial" THEN behind ELSE slice(behind, NoticeRows)
Marked(theme) ==
    IF theme = "editorial" THEN {}
    ELSE {c \in Courses(view.data) :
            fall_behind(c).severity # "ok" /\ fall_behind(c).topics # {}}

-----------------------------------------------------------------------------
\* The clock, the response and its reads, and the writes of others. The reads
\* of a response end before the clock goes on.
Tick ==
    /\ reading = Nothing /\ \E i \in Instants : i > now
    /\ now' = Min({i \in Instants : i > now})
    /\ UNCHANGED <<data, reading, view, changes>>

ReadSlots ==
    /\ reading = Nothing
    /\ reading' = [at |-> now, slots |-> data.slots]
    /\ UNCHANGED <<now, data, view, changes>>

Respond ==
    /\ reading # Nothing
    /\ view' = [at |-> reading.at, data |-> [data EXCEPT !.slots = reading.slots]]
    /\ reading' = Nothing
    /\ UNCHANGED <<now, data, changes>>

Write(rows) ==
    /\ changes < MaxChanges /\ rows # data
    /\ data' = rows /\ changes' = changes + 1
    /\ UNCHANGED <<now, reading, view>>

StudyElsewhere(t, status) == Write([data EXCEPT !.topics[t].status = status])
CoverElsewhere(t) ==
    /\ data.topics[t].covered_on = Never
    /\ Write([data EXCEPT !.topics[t].covered_on = DayOf(now)])
MoveSlot(s) == Write([data EXCEPT !.slots = (@ \ {s}) \cup {[s EXCEPT !.weekday = 2]}])
Postpone(d) == Write([data EXCEPT !.deliverables[d].due_at = @ + Day])
HandIn(d, status) == Write([data EXCEPT !.deliverables[d].status = status])

\* A click in a theme's inbox: what the page shows decides what is called.
toggle(theme, t) ==
    /\ Shown /\ t \in ToSet(Inbox(theme)) /\ t \in DOMAIN data.tasks
    /\ Write([data EXCEPT !.tasks[t].status = IF isOpen(view.data.tasks[t]) THEN "done" ELSE "open"])

Elsewhere ==
    \/ \E t \in DOMAIN data.topics :
         \/ \E status \in {"in_progress", "studied"} : StudyElsewhere(t, status)
         \/ CoverElsewhere(t)
    \/ \E s \in data.slots : MoveSlot(s)
    \/ \E d \in DOMAIN data.deliverables :
         Postpone(d) \/ HandIn(d, "in_progress") \/ HandIn(d, "submitted")

ViewsNext ==
    \/ Tick \/ ReadSlots \/ Respond \/ Elsewhere
    \/ \E theme \in Themes : \E t \in DOMAIN data.tasks : toggle(theme, t)
=============================================================================
