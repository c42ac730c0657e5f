------------------------------ MODULE WebViews ------------------------------
(***************************************************************************)
(* What the dashboards promise about the work they show.                   *)
(***************************************************************************)
EXTENDS StudyViews

Spec == ViewsInit /\ [][ViewsNext]_viewVars

\* A lecture or exercise of the course began after the page was computed.
Begun(course) ==
    \E day \in DayOf(view.at)..DayOf(now) :
        Scheduled(course, data.slots, day, view.at) \cap 0..now # {}

Order(severity) == CASE severity = "ok" -> 0 [] severity = "warn" -> 1 [] severity = "critical" -> 2

\* A warning on the page stays true while the page grows old: a topic it
\* shows as behind still is, and its course is no safer, unless the rows have
\* changed or one of the course's lectures has begun.
WarningsStayTrue ==
    Shown => \A c \in behindCourses :
        LET shown == fall_behind(c)
            today == compute_fall_behind(c, data.topics, data.slots, now)
        IN  \/ data.slots # view.data.slots
            \/ Begun(c)
            \/ \E t \in shown.topics : data.topics[t] # view.data.topics[t]
            \/ /\ shown.topics \subseteq today.topics
               /\ Order(today.severity) >= Order(shown.severity)

\* In a browser of Berlin's zone, where the shift is 0, the two computations
\* agree on the next lecture, and the mirror never warns less than the server:
\* they differ only in the hour it cuts off, after 72 and after 48 hours to the
\* lecture.  Elsewhere none of this holds: the mirror compares a shifted start
\* with the unshifted now (fall-behind.ts:60, 79), and may warn less.
MirrorsServer(c) ==
    LET ts == computeFallBehind(c, data.topics, data.slots, now, 0)
        py == compute_fall_behind(c, data.topics, data.slots, now)
        left == py.next_lecture_at - now
        CutOff(hours) == left > hours * Hour /\ left < (hours + 1) * Hour
    IN  /\ ts.next_lecture_at = py.next_lecture_at
        /\ py.topics \subseteq ts.topics
        /\ Order(py.severity) <= Order(ts.severity)
        /\ ts # py => py.next_lecture_at # Never
                      /\ (CutOff(IMMINENT_LECTURE_HOURS) \/ CutOff(CRITICAL_WINDOW_HOURS))

MirrorWarnsFirst == \A c \in Courses(data) : MirrorsServer(c)

\* A deadline only comes closer: a list, which reads the clock when it is
\* drawn, is never calmer than the tile, which keeps the response's time; the
\* themes' own words for the same time are at most one step from it; and the
\* tile of a deadline ahead, within three days, is coloured in every theme.
\* Save when the clocks go back: relative() calls what is due that day in 24
\* hours or more "today", urgent, and an hour later "in 23h", merely soon.
DueInALongDay(due, at) == due - at >= Day /\ calendarDays(due, at) = 0

UrgencyOnlyGrows ==
    Shown =>
        /\ \A d \in DOMAIN view.data.deliverables :
             LET due == view.data.deliverables[d].due_at
                 then == Rank(relative(due, view.at))
             IN  /\ Rank(relative(due, now)) >= then \/ DueInALongDay(due, view.at)
                 /\ \A theme \in Themes \ {"editorial"} :
                      Rank(relLabel(theme, due, view.at)) \in (then - 1)..(then + 1)
        /\ nextDue # Never =>
             LET due == view.data.deliverables[nextDue].due_at
             IN  due >= view.at /\ calendarDays(due, view.at) <= 3
                   => \A theme \in Themes : nextDueTone(theme) # "default"

\* Nothing that is due is out of sight, in any theme: a course that is behind
\* is named or marked; the tile's deadline heads the list; an open deliverable
\* or task is missing only from a panel filled by rows due no later, and an
\* open task is never missing from the editorial inbox.
Precede(rows, seq, id) == \A i \in DOMAIN seq : Due(rows, seq[i], id)

NothingIsOutOfSight ==
    Shown => \A theme \in Themes :
        LET deadlines == Deadlines(theme)
            inbox == Inbox(theme)
            deliverables == view.data.deliverables
            tasks == view.data.tasks
        IN  /\ behindCourses \subseteq ToSet(Notice(theme)) \cup Marked(theme)
            /\ nextDue # Never => deadlines # <<>> /\ deadlines[1] = nextDue
            /\ \A d \in DOMAIN deliverables \ ToSet(deadlines) :
                 deliverables[d].status \in {"open", "in_progress"} =>
                     /\ Len(deadlines) = IF theme = "editorial" THEN ListRows ELSE PanelRows
                     /\ Precede(deliverables, deadlines, d)
            /\ \A t \in DOMAIN tasks \ ToSet(inbox) :
                 isOpen(tasks[t]) => theme # "editorial" /\ Len(inbox) = TaskRows
                                     /\ Precede(tasks, inbox, t)
=============================================================================
