----------------------------- MODULE MCWebViews -----------------------------
(* Ten days of a student with two courses, and of one with deadlines, one of
   which is in the 25th hour of the Sunday on which the clocks go back. *)
EXTENDS WebViews

\* Around the lectures at 10:00 and at 14:00, the half hours in which they
\* are 72 and 48 hours away, the deadlines, and some midnights.
At(day, ks) == {Day * day + k : k \in ks}
MCInstants ==
    At(0, {19, 21}) \cup At(1, {21}) \cup At(2, {0, 27, 28})
    \cup At(4, {19, 20, 30}) \cup At(5, {19, 20}) \cup At(6, {0, 2, 27, 28})
    \cup At(7, {0, 19, 20, 28}) \cup At(8, {0}) \cup At(9, {28})

Slot(course, kind, weekday, start, starts_on) ==
    [course |-> course, kind |-> kind, weekday |-> weekday, start |-> start, starts_on |-> starts_on]

Weeks ==
    {{Slot(1, "lecture", 1, 20, 0), Slot(1, "exercise", 3, 28, 0)},
     {Slot(1, "lecture", 1, 20, 7), Slot(2, "lecture", 3, 28, 0)},
     {Slot(1, "tutorial", 2, 20, 0), Slot(2, "lecture", 4, 20, 0), Slot(2, "exercise", 4, 19, 0)}}

NoRows == [x \in {} |-> x]

Studying ==
    {[slots |-> week,
      topics |-> (1 :> [course |-> 1, status |-> "not_started", covered_on |-> c])
                 @@ (2 :> [course |-> k, status |-> "in_progress", covered_on |-> 1]),
      deliverables |-> NoRows, tasks |-> NoRows] :
        week \in Weeks, c \in {Never, 2}, k \in {1, 2}}

Deadline(due, status) == [due_at |-> due, status |-> status]

Working ==
    {[slots |-> {}, topics |-> NoRows,
      deliverables |-> <<Deadline(Day * 4 + 30, "open"), Deadline(Day * 4 + d, "open"),
                         Deadline(Day * 7 + 1, "in_progress")>>,
      tasks |-> <<Deadline(Day, x), Deadline(Never, "in_progress"), Deadline(Day, "open")>>] :
        d \in {19, 30}, x \in {"open", "done", "skipped"}}

MCStores == Studying \cup Working
=============================================================================
