---------------------------- MODULE AgendaItems ----------------------------
(***************************************************************************)
(* The daily agenda of app/services/agenda.py as pure operators: which     *)
(* work it offers on a date (one candidate per category, suppression,      *)
(* planning fallback, the cap) and what a completed item writes back       *)
(* (the mastery patch).  AgendaSession is the state machine over it.       *)
(*                                                                         *)
(* The course modelled is the one the curriculum seeder creates: study     *)
(* topics (mastery units) and tasks (lessons), flashcard files, no weekly  *)
(* slots, no exams, no deliverables, one learner.  Dates are day numbers;  *)
(* the hour of a review date is 09:00 and the code compares dates only.    *)
(***************************************************************************)
EXTENDS Integers, FiniteSets

CONSTANTS
    Topics,        \* ids of study_topics rows
    Tasks,         \* ids of tasks rows
    Lessons,       \* the tasks tagged "curriculum"
    Rank,          \* (sort_order, name, id) order of topics and tasks
    Weight,        \* _priority_weight of a task
    DueOn,         \* due day of a task, or None
    CoveredOn,     \* covered_on day of a topic, or None
    HasFlashcards, \* are flashcard files visible under the course files?
    None           \* SQL NULL / Python None

Sources == Topics \union Tasks

ASSUME SourcesAssumption ==
    /\ Topics \intersect Tasks = {}
    /\ Lessons \subseteq Tasks
    /\ Rank \in [Sources -> Nat]
    /\ \A x, y \in Sources : Rank[x] = Rank[y] => x = y
    /\ Weight \in [Tasks -> {0, 4, 8, 12}]
    /\ DueOn \in [Tasks -> Nat \union {None}]
    /\ CoveredOn \in [Topics -> Nat \union {None}]
    /\ HasFlashcards \in BOOLEAN

MasteryState ==
    {"not_started", "exposure", "understanding", "guided_practice",
     "independent_practice", "timed_execution", "retry_stabilization",
     "retention_verification", "mastered", "struggling"}

\* A topic's status may name its mastery state.
TopicStatus == MasteryState \union {"in_progress", "studied"}
TaskStatus == {"open", "in_progress", "done", "skipped", "blocked"}
Status == TopicStatus \union TaskStatus

ASSUME NoneAssumption ==
    None \notin Int \union Status \union MasteryState \union Sources

MaybeDay == Nat \union {None}
MaybeConfidence == (0..5) \union {None}

\* The adaptive columns of a row.  A task has no confidence column (None).
Row == [status: Status, mastery: MasteryState,
        confidence: MaybeConfidence, last_confidence: MaybeConfidence,
        retry_count: Nat, retry_priority: Nat, error_count: Nat,
        next_review: MaybeDay, last_reviewed: MaybeDay]

FreshRow(status) ==
    [status |-> status, mastery |-> "not_started",
     confidence |-> None, last_confidence |-> None,
     retry_count |-> 0, retry_priority |-> 0, error_count |-> 0,
     next_review |-> None, last_reviewed |-> None]

\* What a row holds when it is created: status and mastery_state defaults.
FreshRows ==
    [x \in Sources |-> FreshRow(IF x \in Topics THEN "not_started" ELSE "open")]

Default(value, otherwise) == IF value = None THEN otherwise ELSE value

(***************************************************************************)
(* Writing a row: a patch names every column, None where it is unset;      *)
(* model_dump_clean drops None, so a patch never clears a column.          *)
(***************************************************************************)
EmptyPatch ==
    [status |-> None, mastery |-> None,
     confidence |-> None, last_confidence |-> None,
     retry_count |-> None, retry_priority |-> None, error_count |-> None,
     next_review |-> None, last_reviewed |-> None]

\* StudyTopicPatch and TaskPatch, the columns modelled.
PatchType ==
    [status: Status \union {None}, mastery: MasteryState \union {None},
     confidence: MaybeConfidence, last_confidence: MaybeConfidence,
     retry_count: Nat \union {None}, retry_priority: Nat \union {None},
     error_count: Nat \union {None},
     next_review: MaybeDay, last_reviewed: MaybeDay]

\* Faulty: without exclude_none an unset column is written as NULL.
ColumnNullable(given, old) == given

Column(given, old) == IF given = None THEN old ELSE given

Patched(row, p) ==
    [status |-> Column(p.status, row.status),
     mastery |-> Column(p.mastery, row.mastery),
     confidence |-> Column(p.confidence, row.confidence),
     last_confidence |-> Column(p.last_confidence, row.last_confidence),
     retry_count |-> Column(p.retry_count, row.retry_count),
     retry_priority |-> Column(p.retry_priority, row.retry_priority),
     error_count |-> Column(p.error_count, row.error_count),
     next_review |-> Column(p.next_review, row.next_review),
     last_reviewed |-> Column(p.last_reviewed, row.last_reviewed)]

\* update_study_topic: studied and mastered also stamp last_reviewed_at.
UpdatedTopic(row, p, today) ==
    Patched(row, IF p.status \in {"studied", "mastered"}
                 THEN [p EXCEPT !.last_reviewed = today]
                 ELSE p)

(***************************************************************************)
(* _mastery_patch_for_result: what one result makes of a unit.             *)
(***************************************************************************)
Outcome(status, mastery, review, retries, priority) ==
    [status |-> status, mastery |-> mastery, next_review |-> review,
     retry_count |-> retries, retry_priority |-> priority]

MasteryOutcome(kind, c, e, prior, day) ==
    CASE c <= 1 ->
            Outcome("struggling", "struggling", day + 1, prior + 1, 9)
      [] c = 2 ->
            Outcome("in_progress", "guided_practice", day + 1, prior + 1, 6)
      [] c = 3 ->
            Outcome("in_progress", "independent_practice", day + 2,
                    IF e > 0 THEN prior + 1 ELSE prior,
                    IF e > 0 THEN 4 ELSE 0)
      [] c = 4 ->
            Outcome("studied", "timed_execution", day + 3, prior, 0)
      [] c > 4 /\ e <= 1 /\ kind = "retention_check" ->
            Outcome("mastered", "mastered", None, prior, 0)
      [] c > 4 /\ e <= 1 /\ kind # "retention_check" ->
            Outcome("studied", "retention_verification", day + 3, prior, 0)
      [] OTHER ->
            Outcome("in_progress", "retry_stabilization", day + 1, prior + 1, 7)

\* Faulty: any result of confidence 5 masters the unit.
MasteryPatchUngated(kind, confidence, errors, prior, day) ==
    LET c == Default(confidence, 3)
        e == Default(errors, 0)
        o == MasteryOutcome(kind, c, e, prior, day)
    IN IF c > 4 /\ e <= 1
       THEN Outcome("mastered", "mastered", None, prior, 0)
       ELSE o

\* Faulty: a good result forgets the retries before it.
MasteryPatchForgetful(kind, confidence, errors, prior, day) ==
    LET c == Default(confidence, 3)
        e == Default(errors, 0)
    IN MasteryOutcome(kind, c, e, IF c > 3 /\ e <= 1 THEN 0 ELSE prior, day)

MasteryPatchForResult(kind, confidence, errors, prior, day) ==
    MasteryOutcome(kind, Default(confidence, 3), Default(errors, 0), prior, day)

\* The StudyTopicPatch a completed topic item is written with.
TopicPatch(kind, confidence, errors, prior, day, today) ==
    LET o == MasteryPatchForResult(kind, confidence, errors, prior, day)
    IN [EmptyPatch EXCEPT
          !.status = o.status, !.mastery = o.mastery,
          !.confidence = confidence, !.last_confidence = confidence,
          !.retry_count = o.retry_count, !.retry_priority = o.retry_priority,
          !.error_count = Default(errors, 0),
          !.next_review = o.next_review, !.last_reviewed = today]

\* The TaskPatch of a completed lesson item: mastery and last result only.
LessonPatch(kind, confidence, errors, day) ==
    LET o == MasteryPatchForResult(kind, confidence, errors, 0, day)
    IN [EmptyPatch EXCEPT
          !.mastery = o.mastery, !.last_confidence = confidence,
          !.error_count = Default(errors, 0)]

(***************************************************************************)
(* Candidates.                                                             *)
(***************************************************************************)

\* `confidence or last_confidence`: a confidence of 0 is falsy in Python.
Confidence(row) ==
    IF row.confidence \in {None, 0} THEN row.last_confidence ELSE row.confidence

LowConfidence(row) == Confidence(row) # None /\ Confidence(row) <= 1

DueForReview(row, day) == row.next_review # None /\ row.next_review <= day

\* Lexicographic order of sort keys of one length.
Precedes(k, l) ==
    \E i \in DOMAIN k : k[i] < l[i] /\ \A j \in 1..(i - 1) : k[j] = l[j]

\* sorted(S, key=key)[0] as a set: empty when S is.
First(S, key) ==
    {x \in S : \A y \in S \ {x} : Precedes(key[x], key[y])}

Ref(type, id, mastery) == [type |-> type, id |-> id, mastery |-> mastery]

\* _source_ref_for_item
RefForItem(rows, x) ==
    Ref(IF x \in Topics THEN "study_topic" ELSE "task", x, rows[x].mastery)

\* Faulty: the key holds the mastery state the item was shown with.
SourceKeyWithState(ref) == <<ref.type, ref.id, ref.mastery>>

\* _source_key: suppression goes by the type and id of the source.
SourceKey(ref) == <<ref.type, ref.id>>

Item(order, kind, day, ref) ==
    [order |-> order, kind |-> kind, date |-> day, ref |-> ref]

UrgentWork(rows, live, day) ==
    LET urgent == {x \in Tasks \intersect live :
                     /\ rows[x].status \in {"open", "in_progress", "blocked"}
                     /\ DueOn[x] # None
                     /\ DueOn[x] <= day}
    IN {Item(0, "urgent_work", day, Ref("task", x, None)) :
          x \in First(urgent,
                  [y \in urgent |-> <<-(Weight[y] + day - DueOn[y]), DueOn[y], Rank[y]>>])}

\* Faulty: a retry waits for its review date.
RetryWorkWhenDue(rows, live, day) ==
    {x \in live :
       /\ \/ rows[x].mastery = "retry_stabilization"
          \/ rows[x].retry_priority > 0
          \/ rows[x].retry_count > 0
       /\ DueForReview(rows[x], day)
       /\ rows[x].status \notin {"done", "skipped", "mastered"}}

\* Faulty: a mastered row counts as unfinished.
RetryWorkOfMastered(rows, live, day) ==
    {x \in live :
       /\ \/ rows[x].mastery = "retry_stabilization"
          \/ rows[x].retry_priority > 0
          \/ rows[x].retry_count > 0
       /\ DueForReview(rows[x], day) \/ rows[x].retry_priority > 0
       /\ rows[x].status \notin {"done", "skipped"}}

RetryWork(rows, live, day) ==
    {x \in live :
       /\ \/ rows[x].mastery = "retry_stabilization"
          \/ rows[x].retry_priority > 0
          \/ rows[x].retry_count > 0
       /\ DueForReview(rows[x], day) \/ rows[x].retry_priority > 0
       /\ rows[x].status \notin {"done", "skipped", "mastered"}}

RetryCandidate(rows, live, day) ==
    {Item(1, "retry", day, RefForItem(rows, x)) :
       x \in First(RetryWork(rows, live, day),
               [y \in Sources |-> <<-rows[y].retry_priority, Default(rows[y].next_review, -1),
                                     -rows[y].error_count, Rank[y]>>])}

StrugglingWork(rows, live) ==
    {x \in Topics \intersect live :
       \/ rows[x].status = "struggling"
       \/ rows[x].mastery = "struggling"
       \/ LowConfidence(rows[x])}
    \union
    {x \in Tasks \intersect live :
       /\ rows[x].status # "done"
       /\ rows[x].mastery = "struggling" \/ LowConfidence(rows[x])}

StrugglingCandidate(rows, live, day) ==
    {Item(2, "struggling_topic", day, RefForItem(rows, x)) :
       x \in First(StrugglingWork(rows, live), [y \in Sources |-> <<Rank[y]>>])}

\* compute_fall_behind at noon of the day, in a course without slots: covered
\* two days ago and not yet studied.
FallBehind(rows, live, day) ==
    {x \in Topics \intersect live :
       /\ rows[x].status \in {"not_started", "in_progress"}
       /\ CoveredOn[x] # None
       /\ CoveredOn[x] + 2 <= day}

DueRetention(rows, live, day) ==
    {x \in Topics \intersect live :
       /\ rows[x].mastery = "retention_verification"
       /\ DueForReview(rows[x], day)}

StudiedTopics(rows, live) ==
    {x \in Topics \intersect live :
       rows[x].status \in {"studied", "mastered"} \/ rows[x].mastery = "mastered"}

ReviewCandidate(rows, live, day) ==
    LET behind == FallBehind(rows, live, day)
        due == DueRetention(rows, live, day)
    IN IF behind # {}
       THEN {Item(3, "review", day, Ref("fall_behind", x, None)) :
               x \in First(behind, [y \in behind |-> <<CoveredOn[y], Rank[y]>>])}
       ELSE IF due # {}
       THEN {Item(3, "retention_check", day, RefForItem(rows, x)) :
               x \in First(due, [y \in due |-> <<rows[y].next_review, Rank[y]>>])}
       ELSE {Item(3, "review", day, Ref("study_topic", x, None)) :
               x \in First(StudiedTopics(rows, live),
                       [y \in Topics |-> <<Default(rows[y].last_reviewed, -1), Rank[y]>>])}

MasteryProgressionCandidate(rows, live, day) ==
    LET active == {x \in Topics \intersect live :
                     /\ rows[x].mastery \in {"exposure", "understanding", "guided_practice",
                                             "independent_practice", "timed_execution"}
                     /\ rows[x].status \notin {"mastered", "struggling"}}
    IN {Item(4, "mastery_progression", day, RefForItem(rows, x)) :
          x \in First(active, [y \in active |-> <<-Default(Confidence(rows[y]), 0), Rank[y]>>])}

\* No exam is scheduled: the synthesised practice block of the course.
TimedExerciseCandidate(day) ==
    {Item(5, "timed_exercise", day, Ref("agenda_synthesis", "timed", None))}

NewLessons(rows, live) ==
    {x \in Lessons \intersect live :
       rows[x].status = "open" /\ rows[x].mastery \in {"not_started", "exposure"}}

NewConceptCandidate(rows, live, day) ==
    LET lessons == NewLessons(rows, live)
        topics == {x \in Topics \intersect live : rows[x].status = "not_started"}
    IN IF lessons # {}
       THEN {Item(6, "new_exposure", day, RefForItem(rows, x)) :
               x \in First(lessons, [y \in lessons |-> <<Rank[y]>>])}
       ELSE {Item(6, "new_concept", day, Ref("study_topic", x, None)) :
               x \in First(topics, [y \in topics |-> <<Rank[y]>>])}

FlashcardCandidate(day) ==
    IF HasFlashcards
    THEN {Item(7, "flashcards", day, Ref("course_files", "flashcards", None))}
    ELSE {}

PlanningIds == <<"planning-1", "planning-2", "planning-3", "planning-4">>

\* The ids of work that is not a row are none of a row's.
SyntheticIds == {"timed", "flashcards"} \union {PlanningIds[n] : n \in DOMAIN PlanningIds}

ASSUME SyntheticAssumption == Sources \intersect SyntheticIds = {}

PlanningItems(day) ==
    {Item(9 + n, "planning", day, Ref("empty_state", PlanningIds[n], None)) :
       n \in DOMAIN PlanningIds}

Candidates(rows, live, day) ==
    UNION {UrgentWork(rows, live, day), RetryCandidate(rows, live, day),
           StrugglingCandidate(rows, live, day), ReviewCandidate(rows, live, day),
           MasteryProgressionCandidate(rows, live, day), TimedExerciseCandidate(day),
           NewConceptCandidate(rows, live, day), FlashcardCandidate(day)}

AgendaMaxItems == 6

\* generate_daily_agenda: one candidate per category, those of suppressed
\* sources dropped, planning items when nothing is left, the first six.
DailyAgenda(rows, live, suppressed, day) ==
    LET open == {i \in Candidates(rows, live, day) : SourceKey(i.ref) \notin suppressed}
        shown == IF open = {} THEN PlanningItems(day) ELSE open
    IN {i \in shown : Cardinality({j \in shown : j.order < i.order}) < AgendaMaxItems}
=============================================================================
