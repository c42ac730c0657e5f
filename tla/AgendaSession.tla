--------------------------- MODULE AgendaSession ---------------------------
(***************************************************************************)
(* Clients (browser tabs, MCP sessions) working on one learner's agenda.   *)
(* complete_agenda_item and log_agenda_result are several transactions:    *)
(* resolve the item, read the topic, patch the row, record the event.      *)
(* Each is a step here, so requests interleave between them, the process   *)
(* may restart between them, rows are edited or deleted under them, and a  *)
(* client acts on an item it was shown days ago.                           *)
(***************************************************************************)
EXTENDS AgendaItems

CONSTANTS
    Clients,
    Kinds,       \* bound: the kinds of item a client works on
    Results,     \* the [confidence, errors] a client may report
    Outcomes,    \* what else than a completion a client may send
    TopicEdits,  \* the patches a learner may send for a topic,
    TaskEdits,   \* and for a task
    MaxDay,      \* bound: the last day
    MaxResults,  \* bound: results applied to one row
    Ahead,       \* how many days ahead of today an agenda may be asked for
    LastSlot     \* bound: 2 where the hour matters (snoozes), 0 elsewhere

ASSUME SessionAssumption ==
    /\ Results \subseteq [confidence: MaybeConfidence, errors: Nat \union {None}]
    /\ Outcomes \subseteq {"partial", "failed", "skipped", "snoozed"}
    /\ \A p \in TopicEdits : p \in PatchType /\ p.status \in TopicStatus \union {None}
    /\ \A p \in TaskEdits : /\ p \in PatchType /\ p.status \in TaskStatus \union {None}
                            /\ p.confidence = None /\ p.last_reviewed = None
    /\ MaxDay \in Nat /\ MaxResults \in Nat
    /\ Ahead \subseteq Nat /\ LastSlot \in 0..2
    /\ None \notin Clients /\ IsFiniteSet(Clients)

VARIABLES
    rows,      \* study_topics and tasks: the adaptive columns
    live,      \* the rows not deleted
    clock,     \* [day, slot]: slots 0, 1, 2 are before, at and after 12:00 UTC
    held,      \* the item each client is looking at
    req,       \* the request each client has in flight
    skips,     \* agenda:skipped events: <<source key, agenda date>>
    snoozes,   \* agenda:snoozed events: <<source key, snooze_until>>
    logged,    \* agenda:completed events that report a mutation, per row
    \* History, read by properties only.
    patches,   \* results written to each row
    weak,      \* what retry_count should be: the value last set by hand, or 0,
               \* and the results since that called for a retry
    attested,  \* topics that were ever in retention_verification
    byHand,    \* the columns of each row whose value a hand set
    stale,     \* <<client, writer>>: the retry_count the client read was
               \* overwritten since
    raced      \* <<topic, writer>>: a result was written from such a read, and
               \* retry_count was not set by hand since

history == <<patches, weak, attested, byHand, stale, raced>>
vars == <<rows, live, clock, held, req, skips, snoozes, logged, history>>

Slots == 0..LastSlot
Noon == 1
Moment == [day: Nat, slot: Slots]
Later(a, b) == a.day > b.day \/ (a.day = b.day /\ a.slot > b.slot)
NextSlot(m) == IF m.slot = LastSlot THEN [day |-> m.day + 1, slot |-> 0]
                             ELSE [m EXCEPT !.slot = @ + 1]

Idle == [pc |-> "idle", kind |-> "", ref |-> None, date |-> 0, outcome |-> "",
         result |-> None, until |-> None, prior |-> 0]

\* An attempt the learner has to repeat, whatever the code does with it.
CallsForRetry(result) ==
    LET c == Default(result.confidence, 3)
        e == Default(result.errors, 0)
    IN c <= 2 \/ (c = 3 /\ e > 0) \/ (c = 5 /\ e > 1)

\* Who writes retry_count, and the columns a patch sets.
Writers == {"result", "hand"}
Columns == {"status", "mastery", "confidence", "last_confidence", "retry_count",
            "retry_priority", "error_count", "next_review", "last_reviewed"}
SetBy(p) == {k \in Columns : p[k] # None}

(***************************************************************************)
(* _suppressed_source_keys: skipped for the date, or snoozed beyond what   *)
(* generate_daily_agenda takes for now, 12:00 UTC of the agenda's date.    *)
(***************************************************************************)
AgendaNow(day) == [day |-> day, slot |-> Noon]

Suppressed(day) ==
    {s[1] : s \in {k \in skips : k[2] = day}}
    \union {s[1] : s \in {z \in snoozes : Later(z[2], AgendaNow(day))}}

AgendaOf(day) == DailyAgenda(rows, live, Suppressed(day), day)

Init ==
    /\ rows = FreshRows
    /\ live = Sources
    /\ clock = [day |-> 0, slot |-> 0]
    /\ held = [c \in Clients |-> None]
    /\ req = [c \in Clients |-> Idle]
    /\ skips = {} /\ snoozes = {}
    /\ logged = [x \in Sources |-> 0]
    /\ patches = [x \in Sources |-> 0]
    /\ weak = [x \in Sources |-> 0]
    /\ attested = {} /\ byHand = [x \in Sources |-> {}]
    /\ stale = {} /\ raced = {}

\* GET /agenda/today, or the MCP tool with a date of its own: the client
\* takes one of the items up, or none when it is of no kind it works on.
ShowAgenda(c, day) ==
    /\ req[c].pc = "idle"
    /\ \E i \in AgendaOf(day) :
         held' = [held EXCEPT ![c] = IF i.kind \in Kinds THEN i ELSE None]
    /\ UNCHANGED <<rows, live, clock, req, skips, snoozes, logged, history>>

\* The transaction that follows resolve_agenda_item: apply_agenda_result_to_
\* source by source type; anything but a completion only records its event.
AfterResolve(outcome, type) ==
    CASE outcome # "completed" -> "record"
      [] outcome = "completed" /\ type \in {"study_topic", "fall_behind"} -> "read"
      [] outcome = "completed" /\ type = "task" -> "write"
      [] outcome = "completed" /\ type \in {"course_files", "agenda_synthesis"} -> "record"
      [] OTHER -> "rejected"

\* The request enters its next transaction, or fails with ValueError.
Enter(c, r) == req' = [req EXCEPT ![c] = IF r.pc = "rejected" THEN Idle ELSE r]

\* A request about the item the client looks at.  Only a completion carries a
\* result that counts; a snooze fixes its end before anything else is read.
Request(c, pc, kind, outcome, result) ==
    [pc |-> pc, kind |-> kind, ref |-> held[c].ref, date |-> held[c].date,
     outcome |-> outcome, result |-> result,
     until |-> IF outcome = "snoozed" THEN NextSlot(clock) ELSE None,
     prior |-> 0]

\* With the client's source_ref, nothing is looked up.  The kind is cut out of
\* the item id, whose source id holds dashes: none of the kinds the code knows.
SubmitWithRef(c, outcome, result) ==
    /\ req[c].pc = "idle" /\ held[c] # None
    /\ Enter(c, Request(c, AfterResolve(outcome, held[c].ref.type), "unknown",
                        outcome, result))
    /\ held' = [held EXCEPT ![c] = None]
    /\ UNCHANGED <<rows, live, clock, skips, snoozes, logged, history>>

\* With the item id alone, resolve_agenda_item regenerates the agenda of the
\* item's date and looks the id (kind and source) up in it.
SubmitById(c, outcome, result) ==
    /\ req[c].pc = "idle" /\ held[c] # None
    /\ \E i \in AgendaOf(held[c].date) :
         /\ i.kind = held[c].kind /\ SourceKey(i.ref) = SourceKey(held[c].ref)
         /\ Enter(c, [Request(c, AfterResolve(outcome, i.ref.type), i.kind, outcome, result)
                        EXCEPT !.ref = i.ref])
    /\ held' = [held EXCEPT ![c] = None]
    /\ UNCHANGED <<rows, live, clock, skips, snoozes, logged, history>>

\* ValueError: the item is on the agenda no longer.
Unresolved(c) ==
    /\ req[c].pc = "idle" /\ held[c] # None
    /\ \A i \in AgendaOf(held[c].date) :
         i.kind = held[c].kind => SourceKey(i.ref) # SourceKey(held[c].ref)
    /\ held' = [held EXCEPT ![c] = None]
    /\ UNCHANGED <<rows, live, clock, req, skips, snoozes, logged, history>>

\* list_study_topics, for the retry_count the patch builds on.
ReadTopic(c) ==
    LET t == req[c].ref.id
    IN /\ req[c].pc = "read"
       /\ req' = [req EXCEPT
                    ![c].pc = "write",
                    ![c].prior = IF t \in live THEN rows[t].retry_count ELSE 0]
       /\ stale' = stale \ ({c} \X Writers)
       /\ UNCHANGED <<rows, live, clock, held, skips, snoozes, logged,
                      patches, weak, attested, byHand, raced>>

\* Faulty: the missing row goes unnoticed and the completion is recorded.
WriteMissingUnnoticed(c) ==
    /\ req[c].pc = "write" /\ req[c].ref.id \notin live
    /\ req' = [req EXCEPT ![c].pc = "record"]
    /\ UNCHANGED <<rows, live, clock, held, skips, snoozes, logged, history>>

\* The patch found no row (deleted meanwhile): ValueError, no event.
WriteMissing(c) ==
    /\ req[c].pc = "write" /\ req[c].ref.id \notin live
    /\ req' = [req EXCEPT ![c] = Idle]
    /\ UNCHANGED <<rows, live, clock, held, skips, snoozes, logged, history>>

\* The item kind the mastery patch is computed for.
ResultKind(r) ==
    IF r.ref.mastery = "retention_verification" THEN "retention_check" ELSE r.kind

\* The requests that have read the retry_count of a topic, to write it.
Readers(t) == {c \in Clients : req[c].pc = "write" /\ req[c].ref.id = t}

WriteTopic(c) ==
    LET r == req[c]
        t == r.ref.id
        p == TopicPatch(ResultKind(r), r.result.confidence, r.result.errors,
                        r.prior, r.date, clock.day)
    IN /\ r.pc = "write" /\ t \in Topics \intersect live
       /\ patches[t] < MaxResults
       /\ rows' = [rows EXCEPT ![t] = UpdatedTopic(rows[t], p, clock.day)]
       /\ req' = [req EXCEPT ![c].pc = "record"]
       /\ patches' = [patches EXCEPT ![t] = @ + 1]
       /\ weak' = [weak EXCEPT ![t] = IF CallsForRetry(r.result) THEN @ + 1 ELSE @]
       /\ attested' = IF rows'[t].mastery = "retention_verification"
                      THEN attested \union {t} ELSE attested
       /\ byHand' = [byHand EXCEPT ![t] = @ \ SetBy(p)]
       /\ stale' = (stale \ ({c} \X Writers)) \union ((Readers(t) \ {c}) \X {"result"})
       /\ raced' = raced \union ({t} \X {w \in Writers : <<c, w>> \in stale})
       /\ UNCHANGED <<live, clock, held, skips, snoozes, logged>>

\* Faulty: goes by the kind, which a request with a source_ref does not have.
MovesMasteryByKind(r) == r.kind \in {"new_exposure", "retry", "struggling_topic"}

\* A lesson item moves its mastery_state; a task item without one is done.
MovesMastery(r) == r.ref.mastery # None \/ r.kind \in {"new_exposure", "retry"}

WriteTask(c) ==
    LET r == req[c]
        x == r.ref.id
        p == IF MovesMastery(r)
             THEN LessonPatch(r.kind, r.result.confidence, r.result.errors, r.date)
             ELSE [EmptyPatch EXCEPT !.status = "done"]
    IN /\ r.pc = "write" /\ x \in Tasks \intersect live
       /\ patches[x] < MaxResults
       /\ rows' = [rows EXCEPT ![x] = Patched(rows[x], p)]
       /\ req' = [req EXCEPT ![c].pc = "record"]
       /\ patches' = [patches EXCEPT ![x] = @ + 1]
       /\ byHand' = [byHand EXCEPT ![x] = @ \ SetBy(p)]
       /\ UNCHANGED <<live, clock, held, skips, snoozes, logged,
                      weak, attested, stale, raced>>

\* _record_action_event, in a transaction of its own.
RecordEvent(c) ==
    LET r == req[c]
        key == SourceKey(r.ref)
    IN /\ r.pc = "record"
       /\ skips' = IF r.outcome = "skipped" THEN skips \union {<<key, r.date>>} ELSE skips
       /\ snoozes' = IF r.outcome = "snoozed" THEN snoozes \union {<<key, r.until>>} ELSE snoozes
       /\ logged' = IF r.outcome = "completed" /\ r.ref.id \in Sources
                    THEN [logged EXCEPT ![r.ref.id] = @ + 1] ELSE logged
       /\ req' = [req EXCEPT ![c] = Idle]
       /\ UNCHANGED <<rows, live, clock, held, history>>

\* PATCH /study-topics and update_study_topic, with mark_studied and
\* set_confidence as short forms: any columns at once.  An empty patch is
\* refused with ValueError.
EditTopic(t, p) ==
    /\ t \in live /\ p # EmptyPatch
    /\ rows' = [rows EXCEPT ![t] = UpdatedTopic(@, p, clock.day)]
    /\ attested' = IF rows'[t].mastery = "retention_verification"
                   THEN attested \union {t} ELSE attested
    /\ byHand' = [byHand EXCEPT ![t] = @ \union SetBy(p)]
    /\ IF p.retry_count = None
       THEN UNCHANGED <<weak, stale, raced>>
       ELSE /\ weak' = [weak EXCEPT ![t] = p.retry_count]
            /\ stale' = stale \union (Readers(t) \X {"hand"})
            /\ raced' = raced \ ({t} \X Writers)
    /\ UNCHANGED <<live, clock, held, req, skips, snoozes, logged, patches>>

\* PATCH /tasks and update_task, with complete_task and reopen_task as short
\* forms; the due date stays.
EditTask(x, p) ==
    /\ x \in live /\ p # EmptyPatch
    /\ rows' = [rows EXCEPT ![x] = Patched(@, p)]
    /\ byHand' = [byHand EXCEPT ![x] = @ \union SetBy(p)]
    /\ UNCHANGED <<live, clock, held, req, skips, snoozes, logged,
                   patches, weak, attested, stale, raced>>

\* delete_study_topic, delete_task.
Delete(x) ==
    /\ x \in live
    /\ live' = live \ {x}
    /\ UNCHANGED <<rows, clock, held, req, skips, snoozes, logged, history>>

\* The one worker process restarts: every request in flight is gone.
Restart ==
    /\ \E c \in Clients : req[c].pc # "idle"
    /\ req' = [c \in Clients |-> Idle]
    /\ UNCHANGED <<rows, live, clock, held, skips, snoozes, logged, history>>

Tick ==
    /\ NextSlot(clock).day <= MaxDay
    /\ clock' = NextSlot(clock)
    /\ UNCHANGED <<rows, live, held, req, skips, snoozes, logged, history>>

Next ==
    \/ \E c \in Clients :
         \/ \E n \in Ahead : ShowAgenda(c, clock.day + n)
         \/ \E r \in Results :
              SubmitWithRef(c, "completed", r) \/ SubmitById(c, "completed", r)
         \/ \E o \in Outcomes : SubmitWithRef(c, o, None) \/ SubmitById(c, o, None)
         \/ Unresolved(c)
         \/ ReadTopic(c)
         \/ WriteMissing(c) \/ WriteTopic(c) \/ WriteTask(c)
         \/ RecordEvent(c)
    \/ \E t \in Topics, p \in TopicEdits : EditTopic(t, p)
    \/ \E x \in Tasks, p \in TaskEdits : EditTask(x, p)
    \/ \E x \in Sources : Delete(x)
    \/ Restart
    \/ Tick

Spec == Init /\ [][Next]_vars

(***************************************************************************)
(* Properties.                                                             *)
(***************************************************************************)

RefIds == Sources \union SyntheticIds

RefTypes == {"study_topic", "task", "fall_behind", "agenda_synthesis", "course_files",
             "empty_state"}

RefType == [type: RefTypes, id: RefIds, mastery: MasteryState \union {None}]

ItemKinds == {"urgent_work", "retry", "struggling_topic", "review", "retention_check",
              "mastery_progression", "timed_exercise", "new_exposure", "new_concept",
              "flashcards", "planning"}

ItemType == [order: 0..13, kind: ItemKinds, date: Nat, ref: RefType]

RequestType ==
    [pc: {"idle", "read", "write", "record"}, kind: ItemKinds \union {"unknown", ""},
     ref: RefType \union {None}, date: Nat, outcome: Outcomes \union {"completed", ""},
     result: Results \union {None}, until: Moment \union {None}, prior: Nat]

\* Every column keeps the range its schema gives it, under every interleaving,
\* and a request between two transactions has what the next one needs.
TypeOK ==
    /\ rows \in [Sources -> Row]
    /\ live \subseteq Sources
    /\ clock \in Moment
    /\ held \in [Clients -> ItemType \union {None}]
    /\ req \in [Clients -> RequestType]
    /\ \A c \in Clients :
         /\ req[c].pc # "idle" => req[c].ref \in RefType
         /\ req[c].pc \in {"read", "write"} =>
              req[c].outcome = "completed" /\ req[c].result \in Results
         /\ req[c].pc = "read" => req[c].ref.id \in Topics
         /\ req[c].pc = "write" => req[c].ref.id \in Sources
    /\ skips \subseteq (RefTypes \X RefIds) \X Nat
    /\ logged \in [Sources -> Nat] /\ patches \in [Sources -> Nat] /\ weak \in [Sources -> Nat]
    /\ attested \subseteq Topics /\ byHand \in [Sources -> SUBSET Columns]
    /\ stale \subseteq Clients \X Writers /\ raced \subseteq Topics \X Writers

\* No order of requests, stale items, or hand edits of other columns gets a
\* topic to mastered without a stay in retention_verification and without a
\* result of confidence 5 with at most one error (agenda.py:311): what says
\* otherwise is a value the learner's own hand put in that very column, as
\* PATCH /study-topics and update_study_topic allow.
MasteryEarned ==
    \A t \in Topics : rows[t].mastery = "mastered" /\ "mastery" \notin byHand[t] =>
        /\ t \in attested
        /\ rows[t].last_confidence = 5 \/ "last_confidence" \in byHand[t]
        /\ rows[t].error_count <= 1 \/ "error_count" \in byHand[t]

\* retry_count is the number of results that called for a retry, on top of the
\* value a hand last gave it.  It is less only where two results were computed
\* from one read (agenda.py:1140, the read and the write are two transactions),
\* and more only where a result was computed from a read that a hand edit of
\* the count has overtaken.
RetryCountHonest ==
    \A t \in Topics :
        /\ <<t, "hand">> \notin raced => rows[t].retry_count <= weak[t]
        /\ (\A w \in Writers : <<t, w>> \notin raced) => rows[t].retry_count = weak[t]

\* An agenda:completed event that reports a mutation has its mutation: no
\* crash, deletion or race leaves an event for a write that did not happen.
CompletionsWereApplied == \A x \in Sources : logged[x] <= patches[x]

\* A topic whose last result was weak is retry work on every day from then on,
\* whichever requests raced, until a later result, or a hand edit of its state,
\* status or priority ("keep it in retry stabilization", agenda.py:380).
WeakTopicIsRetried ==
    \A t \in Topics \intersect live :
        /\ rows[t].mastery \in {"struggling", "guided_practice", "retry_stabilization"}
        /\ byHand[t] \intersect {"mastery", "status", "retry_priority"} = {}
        => t \in RetryWork(rows, live, clock.day)

\* A topic that a result mastered comes back as a spaced review and as nothing
\* else, on today's agenda and on those asked for ahead, although its
\* retry_count and its old next_review_at are never cleared and a hand may have
\* set them to anything.
MasteredIsQuiet ==
    \A t \in Topics \intersect live :
        /\ rows[t].mastery = "mastered"
        /\ byHand[t] \intersect {"mastery", "status", "confidence"} = {}
        => \A n \in Ahead : \A i \in Candidates(rows, live, clock.day + n) :
             i.ref.id = t => i.kind = "review"

\* The agenda exposes a lesson "without marking it complete prematurely"
\* (agenda.py:724): only the learner's own hand closes an undated lesson,
\* whether the item comes by id or with a source_ref of any age.
LessonsAreNotClosed ==
    \A x \in Lessons : DueOn[x] = None /\ rows[x].status = "done" => "status" \in byHand[x]

\* A task skipped for a date is off that date's agenda under every kind: as
\* urgent work, as a new exposure, as struggling work, and after it changed.
SkippedTaskStaysOff ==
    \A s \in skips : \A i \in AgendaOf(s[2]) : s[1][2] \in Tasks => i.ref.id # s[1][2]

(***************************************************************************)
(* Why they hold, as an inductive invariant.                               *)
(***************************************************************************)

\* What an item's reference says is true for good: the kind of its row, a due
\* day where it has no mastery state, a stay in retention verification.
Honest(kind, ref) ==
    /\ ref.type \in {"study_topic", "fall_behind"} <=> ref.id \in Topics
    /\ ref.type = "task" <=> ref.id \in Tasks
    /\ ref.id \in Tasks /\ ref.mastery = None => DueOn[ref.id] # None
    /\ ref.mastery = "retention_verification" /\ ref.id \in Topics => ref.id \in attested
    /\ kind = "retention_check" => ref.mastery = "retention_verification"

ItemsHonest ==
    \A c \in Clients :
        /\ held[c] # None => Honest(held[c].kind, held[c].ref)
        /\ req[c].pc # "idle" => Honest(req[c].kind, req[c].ref)

SkipsHonest == \A s \in skips : s[1][1] = "task" <=> s[1][2] \in Tasks

\* A retry_count read is what the results call for, unless it was overwritten
\* since or was wrong when it was read.
ReadsHonest ==
    \A c \in Clients, t \in Topics :
        req[c].pc = "write" /\ req[c].ref.id = t =>
            /\ <<c, "hand">> \notin stale /\ <<t, "hand">> \notin raced =>
                 req[c].prior <= weak[t]
            /\ t \in live /\ (\A w \in Writers : <<c, w>> \notin stale /\ <<t, w>> \notin raced) =>
                 req[c].prior = weak[t]

RowsAttested ==
    \A t \in Topics : rows[t].mastery = "retention_verification" => t \in attested

\* Completions that are written and not yet recorded.
Recording(x) ==
    {c \in Clients : req[c].pc = "record" /\ req[c].outcome = "completed" /\ req[c].ref.id = x}

EventsFollowWrites ==
    \A x \in Sources : logged[x] + Cardinality(Recording(x)) <= patches[x]

\* What a result leaves a topic with, until a hand sets those columns.
ResultColumns ==
    \A t \in Topics :
        /\ rows[t].mastery = "mastered" /\ "mastery" \notin byHand[t] =>
              /\ rows[t].status = "mastered" \/ "status" \in byHand[t]
              /\ rows[t].confidence = 5 \/ "confidence" \in byHand[t]
        /\ rows[t].mastery \in {"struggling", "guided_practice", "retry_stabilization"}
           /\ "mastery" \notin byHand[t] =>
              /\ rows[t].status \in {"struggling", "in_progress"} \/ "status" \in byHand[t]
              /\ rows[t].retry_priority > 0 \/ "retry_priority" \in byHand[t]

SessionInv ==
    /\ TypeOK
    /\ ItemsHonest /\ SkipsHonest /\ ReadsHonest /\ RowsAttested /\ EventsFollowWrites
    /\ ResultColumns
    /\ MasteryEarned /\ RetryCountHonest /\ LessonsAreNotClosed

(***************************************************************************)
(* What the repository says and the code does not do: each is refuted by   *)
(* a run of its own.                                                       *)
(***************************************************************************)

\* "Snooze an agenda item until an ISO datetime" (mcp_tools.py:229): before
\* that moment the item's source is not on today's agenda.
SnoozedStaysHidden ==
    \A z \in snoozes : Later(z[2], clock) =>
        \A i \in AgendaOf(clock.day) : SourceKey(i.ref) # z[1]

\* "Delayed retention check is due before this unit can be mastered"
\* (agenda.py:591): the result that makes a topic mastered finds its check due.
MasteredOnlyWhenDue ==
    [][\A t \in Topics :
         (/\ rows'[t].mastery = "mastered" /\ rows[t].mastery = "retention_verification"
          /\ "mastery" \notin byHand'[t])
            => DueForReview(rows[t], clock.day)]_vars

\* "If confidence drops below 4, schedule guided or independent practice"
\* (agenda.py:637): a spaced review that went well leaves a mastered topic be.
GoodReviewKeepsMastery ==
    [][\A c \in Clients :
         (/\ req[c].pc = "write" /\ req'[c].pc = "record"
          /\ req[c].kind = "review" /\ req[c].ref.type = "study_topic"
          /\ rows[req[c].ref.id].mastery = "mastered"
          /\ req[c].result.confidence # None /\ req[c].result.confidence >= 4)
            => rows'[req[c].ref.id].mastery = "mastered"]_vars
=============================================================================
