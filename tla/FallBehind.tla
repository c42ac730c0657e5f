----------------------------- MODULE FallBehind -----------------------------
(***************************************************************************)
(* Which topics a course is behind on, computed twice: by the server       *)
(* (fractional hours) and by its TypeScript mirror (hours cut to whole     *)
(* ones by date-fns, dates read in the browser's zone). Time is counted in *)
(* half hours from a Monday's midnight in Berlin; daylight saving is left  *)
(* out. A date is a day number.                                            *)
(***************************************************************************)
EXTENDS Integers, FiniteSets, FiniteSetsExt

Hour == 2
Day == 24 * Hour
DayOf(t) == t \div Day
Weekday(day) == (day % 7) + 1

Never == -1     \* no date, no lecture

BEHIND_GRACE_HOURS == 48
CRITICAL_WINDOW_HOURS == 48
IMMINENT_LECTURE_HOURS == 72

\* The starts, later than now, of a course's lectures and exercises on a day.
Scheduled(course, slots, day, now) ==
    {Day * day + s.start : s \in {x \in slots :
        x.course = course /\ x.kind \in {"lecture", "exercise"}
        /\ x.weekday = Weekday(day) /\ x.starts_on <= day}} \ 0..now

\* The first of the next eight days that has one after a moment, and the
\* earliest of it.
FirstStart(course, slots, today, after) ==
    LET days == {d \in 0..7 : Scheduled(course, slots, today + d, after) # {}}
    IN  IF days = {} THEN Never
        ELSE Min(Scheduled(course, slots, today + Min(days), after))

\* Faulty: the search begins tomorrow.
FromTomorrow(course, slots, now) == FirstStart(course, slots, DayOf(now) + 1, now)

next_lecture_at(course, slots, now) == FirstStart(course, slots, DayOf(now), now)

\* In a browser whose clock is behind Berlin's by a shift: the days searched
\* are Berlin's, toZonedTime() having shifted now, but a lecture starts, and a
\* topic was covered, at its hour of the browser's day; both are compared with
\* the unshifted now.
nextLectureAt(course, slots, now, shift) ==
    LET start == FirstStart(course, slots, DayOf(now), now - shift)
    IN  IF start = Never THEN Never ELSE start + shift

\* At most so many hours: date-fns drops what exceeds a whole hour, the
\* server does not.
TsWithin(time, hours) == time \div Hour <= hours
PyWithin(time, hours) == time <= hours * Hour

\* What both compute for a course, but for the next lecture, the comparison of
\* hours and the midnight of a date.
FallBehindBy(Within(_, _), course, topics, next, shift, now) ==
    LET Since(date) == now - (date * Day + shift)
        imminent == next # Never /\ Within(next - now, IMMINENT_LECTURE_HOURS)
        behind == {t \in DOMAIN topics :
            /\ topics[t].course = course
            /\ topics[t].status \in {"not_started", "in_progress"}
            /\ topics[t].covered_on # Never /\ Since(topics[t].covered_on) >= 0
            /\ \/ Since(topics[t].covered_on) \div Hour >= BEHIND_GRACE_HOURS
               \/ imminent}
    IN  [topics |-> behind,
         next_lecture_at |-> next,
         severity |-> IF behind = {} THEN "ok"
                      ELSE IF next # Never /\ Within(next - now, CRITICAL_WINDOW_HOURS)
                           THEN "critical" ELSE "warn"]

\* Faulty: the mirror's comparison of hours excludes the bound.
StrictMirror(course, topics, slots, now, shift) ==
    LET Within(time, hours) == time \div Hour < hours
    IN  FallBehindBy(Within, course, topics, nextLectureAt(course, slots, now, shift), shift, now)

computeFallBehind(course, topics, slots, now, shift) ==
    FallBehindBy(TsWithin, course, topics, nextLectureAt(course, slots, now, shift), shift, now)

compute_fall_behind(course, topics, slots, now) ==
    FallBehindBy(PyWithin, course, topics, next_lecture_at(course, slots, now), 0, now)
=============================================================================
