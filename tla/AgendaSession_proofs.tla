------------------------ MODULE AgendaSession_proofs ------------------------
(***************************************************************************)
(* The safety properties of AgendaSession for any number of topics, tasks, *)
(* clients, results and days: SessionInv is inductive, and implies them.   *)
(***************************************************************************)
EXTENDS AgendaSession, FiniteSetTheorems, TLAPS

----------------------------------------------------------------------------

\* What writing a patch to a row does.

\* A patch of the right types keeps a row a row.
LEMMA PatchedIsRow == ASSUME NEW row \in Row, NEW p \in PatchType PROVE Patched(row, p) \in Row
BY NoneAssumption DEF Row, PatchType, Patched, Column, MaybeConfidence, MaybeDay

\* So does the stamp of the last review (update_study_topic).
LEMMA UpdatedIsRow ==
    ASSUME NEW row \in Row, NEW p \in PatchType, NEW today \in Nat
    PROVE  UpdatedTopic(row, p, today) \in Row
BY PatchedIsRow DEF UpdatedTopic, PatchType, MaybeDay

\* A column the patch does not set stays, whether or not the review is stamped.
LEMMA UnsetColumnsStay ==
    ASSUME NEW row \in Row, NEW p \in PatchType, NEW today \in Nat,
           NEW new \in {Patched(row, p), UpdatedTopic(row, p, today)}
    PROVE  /\ "status" \notin SetBy(p) => new.status = row.status
           /\ "mastery" \notin SetBy(p) => new.mastery = row.mastery
           /\ "confidence" \notin SetBy(p) => new.confidence = row.confidence
           /\ "last_confidence" \notin SetBy(p) => new.last_confidence = row.last_confidence
           /\ "error_count" \notin SetBy(p) => new.error_count = row.error_count
           /\ "retry_priority" \notin SetBy(p) => new.retry_priority = row.retry_priority
           /\ new.retry_count = IF p.retry_count = None THEN row.retry_count ELSE p.retry_count
<1> DEFINE q == [p EXCEPT !.last_reviewed = today]
<1>1. PICK o \in {p, q} : new = Patched(row, o)
  BY DEF UpdatedTopic
<1>2. /\ o.status = p.status /\ o.mastery = p.mastery /\ o.confidence = p.confidence
      /\ o.last_confidence = p.last_confidence /\ o.error_count = p.error_count
      /\ o.retry_priority = p.retry_priority /\ o.retry_count = p.retry_count
  BY DEF PatchType
<1>3. /\ "status" \notin SetBy(p) => p.status = None
      /\ "mastery" \notin SetBy(p) => p.mastery = None
      /\ "confidence" \notin SetBy(p) => p.confidence = None
      /\ "last_confidence" \notin SetBy(p) => p.last_confidence = None
      /\ "error_count" \notin SetBy(p) => p.error_count = None
      /\ "retry_priority" \notin SetBy(p) => p.retry_priority = None
  BY DEF SetBy, Columns, PatchType
<1> HIDE DEF q
<1> QED
  BY <1>1, <1>2, <1>3 DEF Patched, Column

\* The row of a topic after a result.
TopicAfter(row, kind, result, prior, day, today) ==
    UpdatedTopic(row, TopicPatch(kind, result.confidence, result.errors, prior, day, today), today)

\* What a result makes of a topic: retry_count counts it when it calls for a
\* retry, only a retention check of confidence 5 masters, and a weak result
\* leaves retry work behind.
LEMMA ResultOfTopic ==
    ASSUME NEW row \in Row, NEW kind, NEW result \in Results,
           NEW prior \in Nat, NEW day \in Nat, NEW today \in Nat
    PROVE  LET new == TopicAfter(row, kind, result, prior, day, today)
               p == TopicPatch(kind, result.confidence, result.errors, prior, day, today)
           IN  /\ new \in Row
               /\ {"status", "mastery", "error_count", "retry_priority"} \subseteq SetBy(p)
               /\ new.retry_count = IF CallsForRetry(result) THEN prior + 1 ELSE prior
               /\ new.mastery = "mastered" =>
                    /\ kind = "retention_check" /\ new.last_confidence = 5
                    /\ new.error_count <= 1
                    /\ new.status = "mastered" /\ new.confidence = 5
               /\ new.mastery \in {"struggling", "guided_practice", "retry_stabilization"} =>
                    new.status \in {"struggling", "in_progress"} /\ new.retry_priority > 0
<1> DEFINE c == Default(result.confidence, 3)
           e == Default(result.errors, 0)
           o == MasteryOutcome(kind, c, e, prior, day)
           p == TopicPatch(kind, result.confidence, result.errors, prior, day, today)
           new == UpdatedTopic(row, p, today)
<1>1. /\ result.confidence \in MaybeConfidence /\ result.errors \in Nat \union {None}
      /\ c \in 0..5 /\ e \in Nat
      /\ c > 3 => result.confidence = c
  BY SessionAssumption, NoneAssumption DEF Default, MaybeConfidence
<1> HIDE DEF c, e
<1>2. /\ o.status \in TopicStatus /\ o.mastery \in MasteryState
      /\ o.next_review \in MaybeDay /\ o.retry_priority \in Nat /\ o.retry_count \in Nat
  BY <1>1 DEF MasteryOutcome, Outcome, TopicStatus, MasteryState, MaybeDay
<1>3. o.retry_count = IF CallsForRetry(result) THEN prior + 1 ELSE prior
  BY <1>1 DEF MasteryOutcome, Outcome, CallsForRetry, c, e
<1>4. /\ o.mastery = "mastered" => kind = "retention_check" /\ c = 5 /\ e <= 1 /\ o.status = "mastered"
      /\ o.mastery \in {"struggling", "guided_practice", "retry_stabilization"} =>
           o.status \in {"struggling", "in_progress"} /\ o.retry_priority > 0
  BY <1>1 DEF MasteryOutcome, Outcome
<1>5. p = [EmptyPatch EXCEPT
             !.status = o.status, !.mastery = o.mastery,
             !.confidence = result.confidence, !.last_confidence = result.confidence,
             !.retry_count = o.retry_count, !.retry_priority = o.retry_priority,
             !.error_count = e, !.next_review = o.next_review, !.last_reviewed = today]
  BY DEF TopicPatch, MasteryPatchForResult, c, e
<1> HIDE DEF o, p
<1>6. p \in PatchType
  BY <1>1, <1>2, <1>5, NoneAssumption
  DEF EmptyPatch, PatchType, Status, MaybeDay
<1>7. /\ p.status = o.status /\ p.mastery = o.mastery /\ p.confidence = result.confidence
      /\ p.last_confidence = result.confidence /\ p.retry_count = o.retry_count
      /\ p.retry_priority = o.retry_priority /\ p.error_count = e
  BY <1>5 DEF EmptyPatch
<1>8. new \in Row
  BY <1>6, UpdatedIsRow
<1>9. /\ new.status = o.status /\ new.mastery = o.mastery
      /\ result.confidence # None =>
           new.confidence = result.confidence /\ new.last_confidence = result.confidence
      /\ new.retry_count = o.retry_count /\ new.retry_priority = o.retry_priority
      /\ new.error_count = e
  <2> DEFINE q == IF p.status \in {"studied", "mastered"}
                  THEN [p EXCEPT !.last_reviewed = today] ELSE p
  <2>1. new = Patched(row, q)
    BY DEF UpdatedTopic
  <2>2. /\ q.status = o.status /\ q.mastery = o.mastery /\ q.confidence = result.confidence
        /\ q.last_confidence = result.confidence /\ q.retry_count = o.retry_count
        /\ q.retry_priority = o.retry_priority /\ q.error_count = e
    BY <1>6, <1>7 DEF PatchType
  <2> HIDE DEF q
  <2>3. /\ o.status # None /\ o.mastery # None /\ o.retry_count # None
        /\ o.retry_priority # None /\ e # None
    BY <1>1, <1>2, NoneAssumption DEF Status
  <2> QED
    BY <2>1, <2>2, <2>3 DEF Patched, Column
<1>10. c = 5 => result.confidence # None /\ result.confidence = 5
  BY <1>1, NoneAssumption
<1>11. TopicAfter(row, kind, result, prior, day, today) = new
  BY DEF TopicAfter, p
<1>12. {"status", "mastery", "error_count", "retry_priority"} \subseteq SetBy(p)
  <2>1. p.status # None /\ p.mastery # None /\ p.error_count # None /\ p.retry_priority # None
    BY <1>1, <1>2, <1>7, NoneAssumption DEF Status
  <2> QED
    BY <1>6, <2>1 DEF SetBy, Columns, PatchType
<1>13. TopicPatch(kind, result.confidence, result.errors, prior, day, today) = p
  BY DEF p
<1> HIDE DEF new
<1> QED
  BY <1>3, <1>4, <1>8, <1>9, <1>10, <1>11, <1>12, <1>13

----------------------------------------------------------------------------

\* What the agenda shows.

\* The ids of the synthesised items.
LEMMA SyntheticMembers ==
    /\ "timed" \in SyntheticIds /\ "flashcards" \in SyntheticIds
    /\ \A n \in 1..4 : PlanningIds[n] \in SyntheticIds
    /\ DOMAIN PlanningIds = 1..4
BY DEF SyntheticIds, PlanningIds

\* A reference with the mastery state of its row.
LEMMA RowRefIsHonest ==
    ASSUME TypeOK, RowsAttested, NEW x \in Sources, NEW kind,
           kind = "retention_check" => rows[x].mastery = "retention_verification"
    PROVE  RefForItem(rows, x) \in RefType /\ Honest(kind, RefForItem(rows, x))
<1>1. rows[x].mastery \in MasteryState /\ rows[x].mastery # None
  BY NoneAssumption DEF TypeOK, Row
<1>2. RefForItem(rows, x).id = x /\ RefForItem(rows, x).mastery = rows[x].mastery
  BY DEF RefForItem, Ref
<1>3. RefForItem(rows, x) \in RefType
  BY <1>1 DEF RefForItem, Ref, RefType, RefTypes, RefIds
<1>4. /\ RefForItem(rows, x).type \in {"study_topic", "fall_behind"} <=> x \in Topics
      /\ RefForItem(rows, x).type = "task" <=> x \in Tasks
  BY SourcesAssumption DEF RefForItem, Ref, Sources
<1>5. rows[x].mastery = "retention_verification" /\ x \in Topics => x \in attested
  BY DEF RowsAttested
<1> QED
  BY <1>1, <1>2, <1>3, <1>4, <1>5 DEF Honest

\* A reference without one.
LEMMA BareRefIsHonest ==
    ASSUME NEW type \in RefTypes, NEW id \in RefIds, NEW kind, kind # "retention_check",
           type \in {"study_topic", "fall_behind"} <=> id \in Topics,
           type = "task" <=> id \in Tasks,
           id \in Tasks => DueOn[id] # None
    PROVE  Ref(type, id, None) \in RefType /\ Honest(kind, Ref(type, id, None))
BY NoneAssumption DEF Ref, RefType, Honest, MasteryState

\* Every candidate is an item whose reference is honest.
LEMMA CandidateIsHonest ==
    ASSUME TypeOK, RowsAttested, NEW day \in Nat, NEW i \in Candidates(rows, live, day)
    PROVE  i \in ItemType /\ Honest(i.kind, i.ref)
<1> USE DEF Item, ItemType, ItemKinds
<1>1. \A x \in Topics : x \in Sources /\ x \notin Tasks /\ x \in RefIds
  BY SourcesAssumption DEF Sources, RefIds
<1>2. \A x \in Tasks : x \in Sources /\ x \notin Topics /\ x \in RefIds
  BY SourcesAssumption DEF Sources, RefIds
<1>3. \A x \in SyntheticIds : x \notin Topics /\ x \notin Tasks /\ x \in RefIds
  BY SyntheticAssumption DEF Sources, RefIds
<1>a. CASE i \in UrgentWork(rows, live, day)
  <2>1. PICK x \in Tasks : DueOn[x] # None /\ i = Item(0, "urgent_work", day, Ref("task", x, None))
    BY <1>a DEF UrgentWork, First
  <2>2. Ref("task", x, None) \in RefType /\ Honest("urgent_work", Ref("task", x, None))
    BY <1>2, <2>1, BareRefIsHonest DEF RefTypes
  <2> QED
    BY <2>1, <2>2
<1>b. CASE i \in RetryCandidate(rows, live, day)
  <2>1. PICK x \in Sources : i = Item(1, "retry", day, RefForItem(rows, x))
    BY <1>b DEF RetryCandidate, RetryWork, First, TypeOK
  <2> QED
    BY <2>1, RowRefIsHonest
<1>c. CASE i \in StrugglingCandidate(rows, live, day)
  <2>1. PICK x \in Sources : i = Item(2, "struggling_topic", day, RefForItem(rows, x))
    BY <1>c DEF StrugglingCandidate, StrugglingWork, First, Sources
  <2> QED
    BY <2>1, RowRefIsHonest
<1>d. CASE i \in ReviewCandidate(rows, live, day)
  <2>1. CASE FallBehind(rows, live, day) # {}
    <3>1. PICK x \in Topics : i = Item(3, "review", day, Ref("fall_behind", x, None))
      BY <1>d, <2>1 DEF ReviewCandidate, FallBehind, First
    <3>2. Ref("fall_behind", x, None) \in RefType /\ Honest("review", Ref("fall_behind", x, None))
      BY <1>1, BareRefIsHonest DEF RefTypes
    <3> QED
      BY <3>1, <3>2
  <2>2. CASE FallBehind(rows, live, day) = {} /\ DueRetention(rows, live, day) # {}
    <3>1. PICK x \in Topics : /\ rows[x].mastery = "retention_verification"
                              /\ i = Item(3, "retention_check", day, RefForItem(rows, x))
      BY <1>d, <2>2 DEF ReviewCandidate, DueRetention, First
    <3> QED
      BY <1>1, <3>1, RowRefIsHonest
  <2>3. CASE FallBehind(rows, live, day) = {} /\ DueRetention(rows, live, day) = {}
    <3>1. PICK x \in Topics : i = Item(3, "review", day, Ref("study_topic", x, None))
      BY <1>d, <2>3 DEF ReviewCandidate, StudiedTopics, First
    <3>2. Ref("study_topic", x, None) \in RefType /\ Honest("review", Ref("study_topic", x, None))
      BY <1>1, BareRefIsHonest DEF RefTypes
    <3> QED
      BY <3>1, <3>2
  <2> QED
    BY <2>1, <2>2, <2>3
<1>e. CASE i \in MasteryProgressionCandidate(rows, live, day)
  <2>1. PICK x \in Topics : i = Item(4, "mastery_progression", day, RefForItem(rows, x))
    BY <1>e DEF MasteryProgressionCandidate, First
  <2> QED
    BY <1>1, <2>1, RowRefIsHonest
<1>f. CASE i \in TimedExerciseCandidate(day)
  <2>1. i = Item(5, "timed_exercise", day, Ref("agenda_synthesis", "timed", None))
    BY <1>f DEF TimedExerciseCandidate
  <2>2. /\ Ref("agenda_synthesis", "timed", None) \in RefType
        /\ Honest("timed_exercise", Ref("agenda_synthesis", "timed", None))
    BY <1>3, SyntheticMembers, BareRefIsHonest DEF RefTypes
  <2> QED
    BY <2>1, <2>2
<1>g. CASE i \in NewConceptCandidate(rows, live, day)
  <2>1. CASE NewLessons(rows, live) # {}
    <3>1. PICK x \in Tasks : i = Item(6, "new_exposure", day, RefForItem(rows, x))
      BY <1>g, <2>1, SourcesAssumption DEF NewConceptCandidate, NewLessons, First
    <3> QED
      BY <1>2, <3>1, RowRefIsHonest
  <2>2. CASE NewLessons(rows, live) = {}
    <3>1. PICK x \in Topics : i = Item(6, "new_concept", day, Ref("study_topic", x, None))
      BY <1>g, <2>2 DEF NewConceptCandidate, First
    <3>2. /\ Ref("study_topic", x, None) \in RefType
          /\ Honest("new_concept", Ref("study_topic", x, None))
      BY <1>1, BareRefIsHonest DEF RefTypes
    <3> QED
      BY <3>1, <3>2
  <2> QED
    BY <2>1, <2>2
<1>h. CASE i \in FlashcardCandidate(day)
  <2>1. i = Item(7, "flashcards", day, Ref("course_files", "flashcards", None))
    BY <1>h DEF FlashcardCandidate
  <2>2. /\ Ref("course_files", "flashcards", None) \in RefType
        /\ Honest("flashcards", Ref("course_files", "flashcards", None))
    BY <1>3, SyntheticMembers, BareRefIsHonest DEF RefTypes
  <2> QED
    BY <2>1, <2>2
<1> QED
  BY <1>a, <1>b, <1>c, <1>d, <1>e, <1>f, <1>g, <1>h DEF Candidates

\* So is every item shown; one about a row is an unsuppressed candidate.
LEMMA ShownIsHonest ==
    ASSUME TypeOK, RowsAttested, NEW day \in Nat, NEW i \in AgendaOf(day)
    PROVE  /\ i \in ItemType /\ Honest(i.kind, i.ref)
           /\ i.ref.id \in Sources =>
                i \in Candidates(rows, live, day) /\ SourceKey(i.ref) \notin Suppressed(day)
<1>1. \/ i \in Candidates(rows, live, day) /\ SourceKey(i.ref) \notin Suppressed(day)
      \/ i \in PlanningItems(day)
  BY DEF AgendaOf, DailyAgenda
<1>2. CASE i \in Candidates(rows, live, day) /\ SourceKey(i.ref) \notin Suppressed(day)
  BY <1>2, CandidateIsHonest
<1>3. CASE i \in PlanningItems(day)
  <2>1. PICK n \in 1..4 : i = Item(9 + n, "planning", day, Ref("empty_state", PlanningIds[n], None))
    BY <1>3, SyntheticMembers DEF PlanningItems
  <2> DEFINE id == PlanningIds[n]
  <2>2. id \in SyntheticIds /\ id \in RefIds /\ id \notin Topics /\ id \notin Tasks
    BY SyntheticMembers, SyntheticAssumption DEF Sources, RefIds
  <2> HIDE DEF id
  <2>3. /\ Ref("empty_state", id, None) \in RefType
        /\ Honest("planning", Ref("empty_state", id, None))
    BY <2>2, BareRefIsHonest DEF RefTypes
  <2>4. i = Item(9 + n, "planning", day, Ref("empty_state", id, None))
    BY <2>1 DEF id
  <2> QED
    BY <2>2, <2>3, <2>4 DEF Item, ItemType, ItemKinds, Ref, Sources
<1> QED
  BY <1>1, <1>2, <1>3

----------------------------------------------------------------------------

\* The invariant, action by action.

USE DEF SessionInv

\* The next moment is one.
LEMMA NextMoment == ASSUME clock \in Moment PROVE NextSlot(clock) \in Moment
BY SessionAssumption DEF Moment, NextSlot, Slots

\* A request that is over.
LEMMA IdleIsRequest == Idle \in RequestType /\ Idle.pc = "idle"
BY DEF Idle, RequestType

\* When requests only move out of Recording, no more is recording than before.
LEMMA RecordingShrinks ==
    ASSUME NEW x \in Sources, Recording(x)' \subseteq Recording(x)
    PROVE  /\ Cardinality(Recording(x)) \in Nat /\ Cardinality(Recording(x)') \in Nat
           /\ Cardinality(Recording(x)') <= Cardinality(Recording(x))
<1>1. IsFiniteSet(Recording(x))
  BY SessionAssumption, FS_Subset DEF Recording
<1> QED
  BY <1>1, FS_Subset, FS_CardinalityType

\* Steps that leave the rows and what is said of them alone: requests and items
\* may go, rows may be deleted, time may pass.
LEMMA FrameStep ==
    ASSUME SessionInv,
           UNCHANGED <<rows, skips, logged, history>>,
           live' \subseteq live, clock' \in Moment,
           held' \in [Clients -> ItemType \union {None}],
           req' \in [Clients -> RequestType],
           \A c \in Clients : held'[c] \in {held[c], None} /\ req'[c] \in {req[c], Idle}
    PROVE  SessionInv'
<1> USE IdleIsRequest
<1>1. TypeOK'
  BY DEF TypeOK, history
<1>2. ItemsHonest'
  BY DEF ItemsHonest, Honest, history
<1>3. ReadsHonest'
  BY DEF ReadsHonest, history
<1>4. EventsFollowWrites'
  <2> SUFFICES ASSUME NEW x \in Sources
               PROVE  logged'[x] + Cardinality(Recording(x)') <= patches'[x]
    BY DEF EventsFollowWrites
  <2>1. Recording(x)' \subseteq Recording(x)
    BY DEF Recording
  <2>2. logged[x] + Cardinality(Recording(x)) <= patches[x]
    BY DEF EventsFollowWrites
  <2> QED
    BY <2>1, <2>2, RecordingShrinks DEF TypeOK, history
<1>5. /\ SkipsHonest' /\ RowsAttested' /\ ResultColumns'
      /\ MasteryEarned' /\ RetryCountHonest' /\ LessonsAreNotClosed'
  BY DEF SkipsHonest, RowsAttested, ResultColumns, MasteryEarned, RetryCountHonest,
         LessonsAreNotClosed, history
<1> QED
  BY <1>1, <1>2, <1>3, <1>4, <1>5

\* An item is taken up from an agenda.
LEMMA ShowStep ==
    ASSUME SessionInv, NEW c \in Clients, NEW n \in Ahead, ShowAgenda(c, clock.day + n)
    PROVE  SessionInv'
<1>1. clock.day + n \in Nat
  BY SessionAssumption DEF TypeOK, Moment
<1>2. PICK i \in AgendaOf(clock.day + n) :
        held' = [held EXCEPT ![c] = IF i.kind \in Kinds THEN i ELSE None]
  BY DEF ShowAgenda
<1>3. i \in ItemType /\ Honest(i.kind, i.ref)
  BY <1>1, ShownIsHonest
<1>4. UNCHANGED <<rows, live, clock, req, skips, snoozes, logged, history>>
  BY DEF ShowAgenda
<1>5. TypeOK'
  BY <1>2, <1>3, <1>4 DEF TypeOK, history
<1>6. ItemsHonest'
  <2>1. \A d \in Clients : held'[d] # None => Honest(held'[d].kind, held'[d].ref)
    BY <1>2, <1>3 DEF ItemsHonest, TypeOK
  <2> QED
    BY <1>4, <2>1 DEF ItemsHonest, Honest, history
<1>7. EventsFollowWrites'
  BY <1>4 DEF EventsFollowWrites, Recording, history
<1>8. /\ SkipsHonest' /\ ReadsHonest' /\ RowsAttested' /\ ResultColumns'
      /\ MasteryEarned' /\ RetryCountHonest' /\ LessonsAreNotClosed'
  BY <1>4 DEF SkipsHonest, ReadsHonest, RowsAttested, ResultColumns, MasteryEarned,
              RetryCountHonest, LessonsAreNotClosed, history
<1> QED
  BY <1>5, <1>6, <1>7, <1>8

\* A request is made about an honest item, by id or with its reference.
LEMMA SubmitStep ==
    ASSUME SessionInv, NEW c \in Clients, NEW kind \in ItemKinds \union {"unknown"}, NEW ref \in RefType,
           NEW outcome, NEW result,
           \/ outcome = "completed" /\ result \in Results
           \/ outcome \in Outcomes /\ result = None,
           held[c] # None, req[c].pc = "idle", Honest(kind, ref),
           Enter(c, [Request(c, AfterResolve(outcome, ref.type), kind, outcome, result)
                       EXCEPT !.ref = ref]),
           held' = [held EXCEPT ![c] = None],
           UNCHANGED <<rows, live, clock, skips, snoozes, logged, history>>
    PROVE  SessionInv'
<1> DEFINE pc == AfterResolve(outcome, ref.type)
           r == [Request(c, pc, kind, outcome, result) EXCEPT !.ref = ref]
<1> USE IdleIsRequest
<1>1. /\ r.pc = pc /\ r.kind = kind /\ r.ref = ref /\ r.outcome = outcome /\ r.result = result
      /\ r.prior = 0
  BY DEF Request
<1>2. req' = [req EXCEPT ![c] = IF r.pc = "rejected" THEN Idle ELSE r]
  BY DEF Enter
<1>3. /\ pc \in {"read", "write", "record", "rejected"}
      /\ pc = "read" => outcome = "completed" /\ ref.id \in Topics
      /\ pc = "write" => outcome = "completed" /\ ref.id \in Tasks
      /\ pc = "record" /\ outcome = "completed" => ref.id \notin Sources
  BY DEF AfterResolve, Honest, Sources
<1>4. /\ outcome \in Outcomes \union {"completed"} /\ result \in Results \union {None}
      /\ held[c].date \in Nat
  BY SessionAssumption DEF TypeOK, ItemType
<1>5. pc # "rejected" => r \in RequestType
  <2> DEFINE until == IF outcome = "snoozed" THEN NextSlot(clock) ELSE None
  <2>1. until \in Moment \union {None}
    BY NextMoment DEF TypeOK
  <2> HIDE DEF until
  <2>2. r = [pc |-> pc, kind |-> kind, ref |-> ref, date |-> held[c].date, outcome |-> outcome,
             result |-> result, until |-> until, prior |-> 0]
    BY DEF Request, until
  <2> HIDE DEF r, pc
  <2> QED
    BY <1>3, <1>4, <2>1, <2>2 DEF RequestType
<1> HIDE DEF r, pc
<1>6. \A d \in Clients : req'[d] = IF d = c THEN IF pc = "rejected" THEN Idle ELSE r ELSE req[d]
  BY <1>1, <1>2 DEF TypeOK
<1>7. req' \in [Clients -> RequestType]
  BY <1>1, <1>2, <1>5 DEF TypeOK
<1>8. TypeOK'
  BY <1>1, <1>3, <1>6, <1>7, SessionAssumption DEF TypeOK, history, Sources
<1>9. ItemsHonest'
  BY <1>1, <1>6 DEF ItemsHonest, Honest, TypeOK, history
<1>10. ReadsHonest'
  <2>1. \A d \in Clients, t \in Topics : req'[d].pc = "write" /\ req'[d].ref.id = t => req'[d] = req[d]
    BY <1>1, <1>3, <1>6, SourcesAssumption
  <2> QED
    BY <2>1 DEF ReadsHonest, history
<1>11. EventsFollowWrites'
  <2> SUFFICES ASSUME NEW x \in Sources
               PROVE  logged'[x] + Cardinality(Recording(x)') <= patches'[x]
    BY DEF EventsFollowWrites
  <2>1. Recording(x)' \subseteq Recording(x)
    BY <1>1, <1>3, <1>6 DEF Recording
  <2>2. logged[x] + Cardinality(Recording(x)) <= patches[x]
    BY DEF EventsFollowWrites
  <2> QED
    BY <2>1, <2>2, RecordingShrinks DEF TypeOK, history
<1>12. /\ SkipsHonest' /\ RowsAttested' /\ ResultColumns'
       /\ MasteryEarned' /\ RetryCountHonest' /\ LessonsAreNotClosed'
  BY DEF SkipsHonest, RowsAttested, ResultColumns, MasteryEarned, RetryCountHonest,
         LessonsAreNotClosed, history
<1> QED
  BY <1>8, <1>9, <1>10, <1>11, <1>12

\* A request that has read, and one that has written.
Reading(r, prior) == [r EXCEPT !.pc = "write", !.prior = prior]
Written(r) == [r EXCEPT !.pc = "record"]

\* A request whose write is done goes on to its event.
LEMMA RequestRecords ==
    ASSUME NEW r \in RequestType
    PROVE  LET q == Written(r)
           IN  /\ q \in RequestType
               /\ q.pc = "record" /\ q.kind = r.kind /\ q.ref = r.ref /\ q.outcome = r.outcome
<1>1. Written(r) \in RequestType
  BY DEF RequestType, Written
<1>2. LET q == Written(r)
      IN  q.pc = "record" /\ q.kind = r.kind /\ q.ref = r.ref /\ q.outcome = r.outcome
  BY DEF RequestType, Written
<1> QED
  BY <1>1, <1>2

\* The retry_count of the topic is read: what it is now is what was called for,
\* unless requests have raced.
LEMMA ReadStep == ASSUME SessionInv, NEW c \in Clients, ReadTopic(c) PROVE SessionInv'
<1> DEFINE t == req[c].ref.id
           prior == IF t \in live THEN rows[t].retry_count ELSE 0
<1>1. /\ req[c].pc = "read" /\ t \in Topics /\ t \in Sources
      /\ stale' = stale \ ({c} \X Writers)
      /\ UNCHANGED <<rows, live, clock, held, skips, snoozes, logged,
                     patches, weak, attested, byHand, raced>>
  BY DEF ReadTopic, TypeOK, Sources
<1>2. prior \in Nat
  BY <1>1 DEF TypeOK, Row
<1>3. req' = [req EXCEPT ![c] = Reading(req[c], prior)]
  BY DEF ReadTopic, TypeOK, Reading
<1>4. /\ \A d \in Clients \ {c} : req'[d] = req[d]
      /\ req'[c] = Reading(req[c], prior)
  BY <1>3 DEF TypeOK
<1> HIDE DEF prior
<1>5. /\ req'[c] \in RequestType
      /\ req'[c].pc = "write" /\ req'[c].prior = prior
      /\ req'[c].kind = req[c].kind /\ req'[c].ref = req[c].ref
      /\ req'[c].outcome = req[c].outcome /\ req'[c].result = req[c].result
  <2> DEFINE r == req[c]
             q == Reading(r, prior)
  <2>1. r \in RequestType /\ req'[c] = q /\ prior \in Nat
    BY <1>2, <1>4 DEF TypeOK
  <2> HIDE DEF r
  <2>2. q \in RequestType
    BY <2>1 DEF Reading, RequestType
  <2>3. q.pc = "write" /\ q.prior = prior
    BY <2>1 DEF Reading, RequestType
  <2>4. q.kind = r.kind /\ q.ref = r.ref /\ q.outcome = r.outcome /\ q.result = r.result
    BY <2>1 DEF Reading, RequestType
  <2> HIDE DEF q
  <2> QED
    BY <2>1, <2>2, <2>3, <2>4 DEF r
<1>7. req' \in [Clients -> RequestType]
  BY <1>3, <1>4, <1>5 DEF TypeOK
<1>8. TypeOK'
  <2>1. \A d \in Clients :
          /\ req'[d].pc # "idle" => req'[d].ref \in RefType
          /\ req'[d].pc \in {"read", "write"} =>
               req'[d].outcome = "completed" /\ req'[d].result \in Results
          /\ req'[d].pc = "read" => req'[d].ref.id \in Topics
          /\ req'[d].pc = "write" => req'[d].ref.id \in Sources
    BY <1>1, <1>4, <1>5 DEF TypeOK
  <2>2. stale' \subseteq Clients \X Writers
    BY <1>1 DEF TypeOK
  <2> QED
    BY <1>1, <1>7, <2>1, <2>2 DEF TypeOK
<1>9. ItemsHonest'
  <2> SUFFICES ASSUME NEW d \in Clients
               PROVE  /\ held[d] # None => Honest(held[d].kind, held[d].ref)
                      /\ req'[d].pc # "idle" => Honest(req'[d].kind, req'[d].ref)
    BY <1>1 DEF ItemsHonest, Honest
  <2> QED
    BY <1>1, <1>4, <1>5 DEF ItemsHonest
<1>10. ReadsHonest'
  <2>1. /\ <<t, "hand">> \notin raced => prior <= weak[t]
        /\ t \in live /\ (\A w \in Writers : <<t, w>> \notin raced) => prior = weak[t]
    BY <1>1 DEF RetryCountHonest, prior, TypeOK
  <2> SUFFICES ASSUME NEW d \in Clients, NEW u \in Topics, req'[d].pc = "write", req'[d].ref.id = u
               PROVE  /\ <<d, "hand">> \notin stale' /\ <<u, "hand">> \notin raced =>
                           req'[d].prior <= weak[u]
                      /\ u \in live
                         /\ (\A w \in Writers : <<d, w>> \notin stale' /\ <<u, w>> \notin raced) =>
                           req'[d].prior = weak[u]
    BY <1>1 DEF ReadsHonest
  <2>2. CASE d = c
    BY <1>5, <2>1, <2>2
  <2>3. CASE d # c
    <3>1. \A w \in Writers : <<d, w>> \in stale <=> <<d, w>> \in stale'
      BY <1>1, <2>3
    <3> QED
      BY <1>4, <2>3, <3>1 DEF ReadsHonest, Writers
  <2> QED
    BY <2>2, <2>3
<1>11. EventsFollowWrites'
  <2> SUFFICES ASSUME NEW x \in Sources
               PROVE  logged'[x] + Cardinality(Recording(x)') <= patches'[x]
    BY DEF EventsFollowWrites
  <2>1. Recording(x)' \subseteq Recording(x)
    BY <1>4, <1>5 DEF Recording
  <2>2. logged[x] + Cardinality(Recording(x)) <= patches[x]
    BY DEF EventsFollowWrites
  <2> QED
    BY <1>1, <2>1, <2>2, RecordingShrinks DEF TypeOK
<1>12. /\ SkipsHonest' /\ RowsAttested' /\ ResultColumns'
       /\ MasteryEarned' /\ RetryCountHonest' /\ LessonsAreNotClosed'
  BY <1>1 DEF SkipsHonest, RowsAttested, ResultColumns, MasteryEarned, RetryCountHonest,
              LessonsAreNotClosed
<1> QED
  BY <1>8, <1>9, <1>10, <1>11, <1>12

\* A request goes from its write to recording its event.
LEMMA WrittenRequest ==
    ASSUME SessionInv, NEW c \in Clients, req[c].pc = "write",
           req' = [req EXCEPT ![c].pc = "record"], logged' = logged,
           patches' = [patches EXCEPT ![req[c].ref.id] = @ + 1]
    PROVE  /\ req' \in [Clients -> RequestType]
           /\ \A d \in Clients \ {c} : req'[d] = req[d]
           /\ req'[c].pc = "record" /\ req'[c].ref = req[c].ref /\ req'[c].kind = req[c].kind
           /\ patches' \in [Sources -> Nat]
           /\ EventsFollowWrites'
<1> DEFINE t == req[c].ref.id
<1>1. t \in Sources /\ req[c].outcome = "completed"
  BY DEF TypeOK
<1>2. /\ \A d \in Clients \ {c} : req'[d] = req[d]
      /\ req'[c] = Written(req[c])
      /\ req[c] \in RequestType
  BY DEF TypeOK, Written
<1>3. /\ req'[c] \in RequestType
      /\ req'[c].pc = "record" /\ req'[c].ref = req[c].ref /\ req'[c].kind = req[c].kind
      /\ req'[c].outcome = req[c].outcome
  BY <1>2, RequestRecords
<1>4. req' \in [Clients -> RequestType]
  BY <1>2, <1>3 DEF TypeOK
<1>5. /\ patches' \in [Sources -> Nat] /\ patches'[t] = patches[t] + 1
      /\ \A x \in Sources \ {t} : patches'[x] = patches[x]
  BY <1>1 DEF TypeOK
<1>6. EventsFollowWrites'
  <2> SUFFICES ASSUME NEW x \in Sources
               PROVE  logged'[x] + Cardinality(Recording(x)') <= patches'[x]
    BY DEF EventsFollowWrites
  <2>1. logged[x] + Cardinality(Recording(x)) <= patches[x]
    BY DEF EventsFollowWrites
  <2>2. logged[x] \in Nat /\ patches[x] \in Nat
    BY DEF TypeOK
  <2>3. CASE x = t
    <3>1. Recording(x)' = Recording(x) \union {c}
      BY <1>1, <1>2, <1>3, <2>3 DEF Recording
    <3>2. IsFiniteSet(Recording(x))
      BY SessionAssumption, FS_Subset DEF Recording
    <3>3. /\ Cardinality(Recording(x)) \in Nat
          /\ Cardinality(Recording(x)') \in {Cardinality(Recording(x)), Cardinality(Recording(x)) + 1}
      BY <3>1, <3>2, FS_AddElement, FS_CardinalityType
    <3> QED
      BY <1>5, <2>1, <2>2, <2>3, <3>3
  <2>4. CASE x # t
    <3>1. Recording(x)' \subseteq Recording(x)
      BY <1>2, <1>3, <2>4 DEF Recording
    <3> QED
      BY <1>5, <2>1, <2>2, <2>4, <3>1, RecordingShrinks
  <2> QED
    BY <2>3, <2>4
<1> QED
  BY <1>2, <1>3, <1>4, <1>5, <1>6

\* A result is written to a topic.
LEMMA WriteTopicStep == ASSUME SessionInv, NEW c \in Clients, WriteTopic(c) PROVE SessionInv'
<1> DEFINE r == req[c]
           t == req[c].ref.id
           new == TopicAfter(rows[t], ResultKind(r), r.result, r.prior, r.date, clock.day)
           set == SetBy(TopicPatch(ResultKind(r), r.result.confidence, r.result.errors,
                                   r.prior, r.date, clock.day))
<1>1. /\ r.pc = "write" /\ t \in Topics /\ t \in live /\ t \in Sources
      /\ UNCHANGED <<live, clock, held, skips, snoozes, logged>>
  BY DEF WriteTopic, Sources
<1>2. /\ rows' = [rows EXCEPT ![t] = new]
      /\ weak' = [weak EXCEPT ![t] = IF CallsForRetry(r.result) THEN @ + 1 ELSE @]
      /\ attested' = IF rows'[t].mastery = "retention_verification"
                     THEN attested \union {t} ELSE attested
      /\ byHand' = [byHand EXCEPT ![t] = @ \ set]
      /\ stale' = (stale \ ({c} \X Writers)) \union ((Readers(t) \ {c}) \X {"result"})
      /\ raced' = raced \union ({t} \X {w \in Writers : <<c, w>> \in stale})
  BY DEF WriteTopic, TopicAfter
<1>3. /\ req' \in [Clients -> RequestType]
      /\ \A d \in Clients \ {c} : req'[d] = req[d]
      /\ req'[c].pc = "record" /\ req'[c].ref = r.ref /\ req'[c].kind = r.kind
      /\ patches' \in [Sources -> Nat]
      /\ EventsFollowWrites'
  BY <1>1, WrittenRequest DEF WriteTopic
<1>4. patches'[t] = patches[t] + 1 /\ \A x \in Sources \ {t} : patches'[x] = patches[x]
  BY <1>1 DEF WriteTopic, TypeOK
<1>5. /\ rows[t] \in Row /\ r.result \in Results /\ r.prior \in Nat
      /\ r.date \in Nat /\ clock.day \in Nat /\ weak[t] \in Nat /\ patches[t] \in Nat
  BY <1>1 DEF TypeOK, RequestType, Moment
<1>6. /\ new \in Row
      /\ {"status", "mastery", "error_count", "retry_priority"} \subseteq set
      /\ new.retry_count = IF CallsForRetry(r.result) THEN r.prior + 1 ELSE r.prior
      /\ new.mastery = "mastered" =>
           /\ ResultKind(r) = "retention_check" /\ new.last_confidence = 5 /\ new.error_count <= 1
           /\ new.status = "mastered" /\ new.confidence = 5
      /\ new.mastery \in {"struggling", "guided_practice", "retry_stabilization"} =>
           new.status \in {"struggling", "in_progress"} /\ new.retry_priority > 0
  <2> DEFINE row == rows[t]
             kind == ResultKind(r)
             today == clock.day
  <2>1. PICK w \in Row : w = row
    BY <1>5
  <2>2. PICK k : k = kind
    OBVIOUS
  <2>3. PICK n \in Nat : n = today
    BY <1>5
  <2>4. new = TopicAfter(w, k, r.result, r.prior, r.date, n)
    BY <2>1, <2>2, <2>3
  <2>5. set = SetBy(TopicPatch(k, r.result.confidence, r.result.errors, r.prior, r.date, n))
    BY <2>2, <2>3
  <2> HIDE DEF new, set
  <2> QED
    BY <1>5, <2>2, <2>4, <2>5, ResultOfTopic
<1> HIDE DEF new, set
<1>7. /\ rows' \in [Sources -> Row] /\ rows'[t] = new
      /\ \A x \in Sources \ {t} : rows'[x] = rows[x]
  BY <1>1, <1>2, <1>6 DEF TypeOK
<1>8. /\ weak' \in [Sources -> Nat]
      /\ weak'[t] = IF CallsForRetry(r.result) THEN weak[t] + 1 ELSE weak[t]
      /\ \A x \in Sources \ {t} : weak'[x] = weak[x]
  BY <1>1, <1>2 DEF TypeOK
<1>9. attested \subseteq attested' /\ attested' \subseteq Topics
  BY <1>1, <1>2 DEF TypeOK
<1>10. new.mastery = "mastered" => t \in attested
  <2>1. Honest(r.kind, r.ref)
    BY <1>1 DEF ItemsHonest
  <2> QED
    BY <1>1, <1>6, <2>1 DEF ResultKind, Honest
<1>11. TypeOK'
  <2>1. \A d \in Clients :
          /\ req'[d].pc # "idle" => req'[d].ref \in RefType
          /\ req'[d].pc \in {"read", "write"} =>
               req'[d].outcome = "completed" /\ req'[d].result \in Results
          /\ req'[d].pc = "read" => req'[d].ref.id \in Topics
          /\ req'[d].pc = "write" => req'[d].ref.id \in Sources
    BY <1>1, <1>3 DEF TypeOK
  <2>2. /\ byHand' \in [Sources -> SUBSET Columns]
        /\ stale' \subseteq Clients \X Writers /\ raced' \subseteq Topics \X Writers
    BY <1>1, <1>2 DEF TypeOK, Readers, Writers
  <2> QED
    BY <1>1, <1>3, <1>7, <1>8, <1>9, <2>1, <2>2 DEF TypeOK
<1>12. ItemsHonest' /\ SkipsHonest'
  BY <1>1, <1>3, <1>9 DEF ItemsHonest, SkipsHonest, Honest
<1>13. ReadsHonest'
  <2> SUFFICES ASSUME NEW d \in Clients, NEW u \in Topics, req'[d].pc = "write", req'[d].ref.id = u
               PROVE  /\ <<d, "hand">> \notin stale' /\ <<u, "hand">> \notin raced' =>
                           req'[d].prior <= weak'[u]
                      /\ u \in live'
                         /\ (\A w \in Writers : <<d, w>> \notin stale' /\ <<u, w>> \notin raced') =>
                           req'[d].prior = weak'[u]
    BY DEF ReadsHonest
  <2>1. d # c /\ req'[d] = req[d] /\ u \in Sources
    BY <1>3 DEF Sources
  <2>2. /\ <<d, "hand">> \notin stale /\ <<u, "hand">> \notin raced => req[d].prior <= weak[u]
        /\ u \in live /\ (\A w \in Writers : <<d, w>> \notin stale /\ <<u, w>> \notin raced) =>
             req[d].prior = weak[u]
    BY <2>1 DEF ReadsHonest
  <2>3. req[d].prior \in Nat /\ weak[u] \in Nat
    BY <2>1 DEF TypeOK, RequestType
  <2>4. /\ \A w \in Writers : <<d, w>> \in stale => <<d, w>> \in stale'
        /\ \A w \in Writers : <<u, w>> \in raced => <<u, w>> \in raced'
    BY <1>2, <2>1
  <2>5. CASE u = t
    <3>1. d \in Readers(t) \ {c}
      BY <2>1, <2>5 DEF Readers
    <3>2. "result" \in Writers /\ "hand" \in Writers
      BY DEF Writers
    <3>3. <<d, "result">> \in stale'
      BY <1>2, <3>1
    <3>4. weak[u] <= weak'[u]
      BY <1>5, <1>8, <2>5
    <3>5. <<d, "hand">> \notin stale' /\ <<u, "hand">> \notin raced' => req[d].prior <= weak[u]
      BY <2>2, <2>4, <3>2
    <3>6. weak'[u] \in Nat
      BY <1>8, <2>1
    <3>7. <<d, "hand">> \notin stale' /\ <<u, "hand">> \notin raced' => req[d].prior <= weak'[u]
      BY <2>3, <3>4, <3>5, <3>6
    <3> QED
      BY <2>1, <3>2, <3>3, <3>7
  <2>6. CASE u # t
    <3>1. weak'[u] = weak[u]
      BY <1>8, <2>1, <2>6
    <3> QED
      BY <1>1, <2>1, <2>2, <2>4, <3>1 DEF Writers
  <2> QED
    BY <2>5, <2>6
<1>14. RowsAttested'
  BY <1>2, <1>7, <1>9 DEF RowsAttested, Sources
<1>19. /\ \A u \in Topics \ {t} : byHand'[u] = byHand[u] /\ rows'[u] = rows[u] /\ u \in Sources
       /\ byHand'[t] = byHand[t] \ set
  BY <1>1, <1>2, <1>7 DEF TypeOK, Sources
<1>15. ResultColumns'
  <2>1. (new.status = "mastered" /\ new.confidence = 5) \/ new.mastery # "mastered"
    BY <1>6
  <2> QED
    BY <1>6, <1>7, <1>19, <2>1 DEF ResultColumns
<1>16. MasteryEarned'
  BY <1>6, <1>7, <1>9, <1>10, <1>19 DEF MasteryEarned
<1>17. RetryCountHonest'
  <2>1. /\ <<c, "hand">> \notin stale /\ <<t, "hand">> \notin raced => r.prior <= weak[t]
        /\ (\A w \in Writers : <<c, w>> \notin stale /\ <<t, w>> \notin raced) =>
             r.prior = weak[t]
    BY <1>1 DEF ReadsHonest
  <2>2. /\ \A w \in Writers : <<c, w>> \in stale => <<t, w>> \in raced'
        /\ \A u \in Topics, w \in Writers : <<u, w>> \in raced => <<u, w>> \in raced'
    BY <1>2
  <2>3. /\ <<t, "hand">> \notin raced' => new.retry_count <= weak'[t]
        /\ (\A w \in Writers : <<t, w>> \notin raced') => new.retry_count = weak'[t]
    BY <1>1, <1>5, <1>6, <1>8, <2>1, <2>2 DEF Writers
  <2> QED
    BY <1>7, <1>8, <2>2, <2>3 DEF RetryCountHonest, Sources, Writers
<1>18. LessonsAreNotClosed'
  <2>1. \A x \in Lessons : x \in Sources /\ x # t
    BY <1>1, SourcesAssumption DEF Sources
  <2>2. \A x \in Sources \ {t} : byHand'[x] = byHand[x]
    BY <1>1, <1>2 DEF TypeOK
  <2> QED
    BY <1>7, <2>1, <2>2 DEF LessonsAreNotClosed
<1> QED
  BY <1>3, <1>11, <1>12, <1>13, <1>14, <1>15, <1>16, <1>17, <1>18

\* A result is written to a task: a lesson moves its mastery state, only a task
\* with a due date is closed.
LEMMA WriteTaskStep == ASSUME SessionInv, NEW c \in Clients, WriteTask(c) PROVE SessionInv'
<1> DEFINE r == req[c]
           x == req[c].ref.id
           p == IF MovesMastery(r)
                THEN LessonPatch(r.kind, r.result.confidence, r.result.errors, r.date)
                ELSE [EmptyPatch EXCEPT !.status = "done"]
           new == Patched(rows[x], p)
<1>1. /\ r.pc = "write" /\ x \in Tasks /\ x \in Sources /\ x \notin Topics
      /\ UNCHANGED <<live, clock, held, skips, snoozes, logged, weak, attested, stale, raced>>
  BY SourcesAssumption DEF WriteTask, Sources
<1>2. rows' = [rows EXCEPT ![x] = new] /\ byHand' = [byHand EXCEPT ![x] = @ \ SetBy(p)]
  BY DEF WriteTask
<1>3. /\ req' \in [Clients -> RequestType]
      /\ \A d \in Clients \ {c} : req'[d] = req[d]
      /\ req'[c].pc = "record" /\ req'[c].ref = r.ref /\ req'[c].kind = r.kind
      /\ patches' \in [Sources -> Nat]
      /\ EventsFollowWrites'
  BY <1>1, WrittenRequest DEF WriteTask
<1>4. \A y \in Sources \ {x} : patches'[y] = patches[y]
  BY DEF WriteTask, TypeOK
<1>5. p \in PatchType /\ (p.status = None \/ r.ref.mastery = None)
  <2>1. CASE MovesMastery(r)
    <3> DEFINE a == Default(r.result.confidence, 3)
               e == Default(r.result.errors, 0)
               o == MasteryOutcome(r.kind, a, e, 0, r.date)
    <3>1. /\ r.result.confidence \in MaybeConfidence /\ a \in 0..5 /\ e \in Nat /\ r.date \in Nat
      <4>1. r.result \in Results /\ r \in RequestType
        BY <1>1 DEF TypeOK
      <4>2. r.result.confidence \in MaybeConfidence /\ r.result.errors \in Nat \union {None}
        BY <4>1, SessionAssumption
      <4>3. r.date \in Nat
        BY <4>1 DEF RequestType
      <4> QED
        BY <4>2, <4>3, NoneAssumption DEF Default, MaybeConfidence
    <3> HIDE DEF a, e
    <3>2. o.mastery \in MasteryState
      BY <3>1 DEF MasteryOutcome, Outcome, MasteryState
    <3>3. p = [EmptyPatch EXCEPT !.mastery = o.mastery, !.last_confidence = r.result.confidence,
                                 !.error_count = e]
      BY <2>1 DEF LessonPatch, MasteryPatchForResult, a, e
    <3> HIDE DEF p, o
    <3> QED
      BY <3>1, <3>2, <3>3 DEF EmptyPatch, PatchType, MaybeConfidence, MaybeDay
  <2>2. CASE ~MovesMastery(r)
    BY <2>2 DEF MovesMastery, EmptyPatch, PatchType, MaybeConfidence, MaybeDay, Status, TaskStatus
  <2> QED
    BY <2>1, <2>2
<1> HIDE DEF p
<1>6. /\ new \in Row
      /\ (new.status = rows[x].status /\ "status" \notin SetBy(p)) \/ r.ref.mastery = None
  <2>1. rows[x] \in Row
    BY <1>1 DEF TypeOK
  <2>2. new \in Row
    BY <1>5, <2>1, PatchedIsRow
  <2>3. p.status = None => new.status = rows[x].status /\ "status" \notin SetBy(p)
    BY <1>5 DEF Patched, Column, SetBy, PatchType
  <2> QED
    BY <1>5, <2>2, <2>3
<1> HIDE DEF new
<1>7. /\ rows' \in [Sources -> Row] /\ rows'[x] = new
      /\ byHand' \in [Sources -> SUBSET Columns] /\ byHand'[x] = byHand[x] \ SetBy(p)
      /\ \A y \in Sources \ {x} : rows'[y] = rows[y] /\ byHand'[y] = byHand[y]
  BY <1>1, <1>2, <1>6 DEF TypeOK
<1>8. \A t \in Topics : /\ t \in Sources \ {x} /\ rows'[t] = rows[t]
                        /\ byHand'[t] = byHand[t] /\ patches'[t] = patches[t]
  BY <1>1, <1>4, <1>7 DEF Sources
<1>9. TypeOK'
  <2>1. \A d \in Clients :
          /\ req'[d].pc # "idle" => req'[d].ref \in RefType
          /\ req'[d].pc \in {"read", "write"} =>
               req'[d].outcome = "completed" /\ req'[d].result \in Results
          /\ req'[d].pc = "read" => req'[d].ref.id \in Topics
          /\ req'[d].pc = "write" => req'[d].ref.id \in Sources
    BY <1>1, <1>3 DEF TypeOK
  <2> QED
    BY <1>1, <1>3, <1>7, <2>1 DEF TypeOK
<1>10. ItemsHonest' /\ SkipsHonest'
  BY <1>1, <1>3 DEF ItemsHonest, SkipsHonest, Honest
<1>11. ReadsHonest'
  <2>1. \A d \in Clients : req'[d].pc = "write" => req'[d] = req[d]
    BY <1>3
  <2> QED
    BY <1>1, <1>8, <2>1 DEF ReadsHonest
<1>12. RowsAttested' /\ ResultColumns' /\ MasteryEarned' /\ RetryCountHonest'
  BY <1>1, <1>8 DEF RowsAttested, ResultColumns, MasteryEarned, RetryCountHonest
<1>13. LessonsAreNotClosed'
  <2>1. DueOn[x] # None \/ (new.status = rows[x].status /\ "status" \notin SetBy(p))
    BY <1>1, <1>6 DEF ItemsHonest, Honest
  <2> QED
    BY <1>1, <1>7, <2>1, SourcesAssumption DEF LessonsAreNotClosed, Sources
<1> QED
  BY <1>3, <1>9, <1>10, <1>11, <1>12, <1>13

\* The event of a request is recorded.
LEMMA RecordStep == ASSUME SessionInv, NEW c \in Clients, RecordEvent(c) PROVE SessionInv'
<1> USE IdleIsRequest
<1> DEFINE r == req[c]
<1>1. /\ r.pc = "record" /\ r.ref \in RefType /\ r.date \in Nat /\ Honest(r.kind, r.ref)
      /\ req' = [req EXCEPT ![c] = Idle]
      /\ skips' \in {skips, skips \union {<<SourceKey(r.ref), r.date>>}}
      /\ logged' = IF r.outcome = "completed" /\ r.ref.id \in Sources
                   THEN [logged EXCEPT ![r.ref.id] = @ + 1] ELSE logged
      /\ UNCHANGED <<rows, live, clock, held, history>>
  BY DEF RecordEvent, TypeOK, RequestType, ItemsHonest
<1>2. \A d \in Clients : req'[d] = IF d = c THEN Idle ELSE req[d]
  BY <1>1 DEF TypeOK
<1>3. SourceKey(r.ref) = <<r.ref.type, r.ref.id>> /\ r.ref.type \in RefTypes /\ r.ref.id \in RefIds
  BY <1>1 DEF SourceKey, RefType
<1>4. TypeOK'
  <2>1. req' \in [Clients -> RequestType]
    BY <1>1 DEF TypeOK
  <2>2. skips' \subseteq (RefTypes \X RefIds) \X Nat
    BY <1>1, <1>3 DEF TypeOK
  <2>3. logged' \in [Sources -> Nat]
    BY <1>1 DEF TypeOK
  <2>4. \A d \in Clients :
          /\ req'[d].pc # "idle" => req'[d].ref \in RefType
          /\ req'[d].pc \in {"read", "write"} =>
               req'[d].outcome = "completed" /\ req'[d].result \in Results
          /\ req'[d].pc = "read" => req'[d].ref.id \in Topics
          /\ req'[d].pc = "write" => req'[d].ref.id \in Sources
    BY <1>2 DEF TypeOK
  <2> QED
    BY <1>1, <2>1, <2>2, <2>3, <2>4 DEF TypeOK, history
<1>5. ItemsHonest' /\ ReadsHonest'
  BY <1>1, <1>2 DEF ItemsHonest, ReadsHonest, Honest, history
<1>6. SkipsHonest'
  <2>1. r.ref.type = "task" <=> r.ref.id \in Tasks
    BY <1>1 DEF Honest
  <2> QED
    BY <1>1, <1>3, <2>1 DEF SkipsHonest
<1>7. EventsFollowWrites'
  <2> SUFFICES ASSUME NEW x \in Sources
               PROVE  logged'[x] + Cardinality(Recording(x)') <= patches'[x]
    BY DEF EventsFollowWrites
  <2>1. logged[x] + Cardinality(Recording(x)) <= patches[x] /\ patches' = patches
    BY <1>1 DEF EventsFollowWrites, history
  <2>2. logged[x] \in Nat /\ patches[x] \in Nat
    BY DEF TypeOK
  <2>3. CASE r.outcome = "completed" /\ r.ref.id = x
    <3>1. Recording(x)' = Recording(x) \ {c} /\ c \in Recording(x)
      BY <1>1, <1>2, <2>3 DEF Recording
    <3>2. IsFiniteSet(Recording(x))
      BY SessionAssumption, FS_Subset DEF Recording
    <3>3. /\ Cardinality(Recording(x)) \in Nat
          /\ Cardinality(Recording(x)') = Cardinality(Recording(x)) - 1
      BY <3>1, <3>2, FS_RemoveElement, FS_CardinalityType
    <3>4. logged'[x] = logged[x] + 1
      BY <1>1, <2>3 DEF TypeOK
    <3> QED
      BY <2>1, <2>2, <3>3, <3>4
  <2>4. CASE ~(r.outcome = "completed" /\ r.ref.id = x)
    <3>1. Recording(x)' \subseteq Recording(x)
      BY <1>2 DEF Recording
    <3>2. logged'[x] = logged[x]
      BY <1>1, <2>4 DEF TypeOK
    <3> QED
      BY <2>1, <2>2, <3>1, <3>2, RecordingShrinks
  <2> QED
    BY <2>3, <2>4
<1>8. /\ RowsAttested' /\ ResultColumns' /\ MasteryEarned' /\ RetryCountHonest'
      /\ LessonsAreNotClosed'
  BY <1>1 DEF RowsAttested, ResultColumns, MasteryEarned, RetryCountHonest, LessonsAreNotClosed,
              history
<1> QED
  BY <1>4, <1>5, <1>6, <1>7, <1>8

\* A hand edit of a row is noted for the columns it sets; the others stay.
LEMMA EditStep ==
    ASSUME SessionInv, NEW x \in Sources, NEW p \in PatchType, NEW new \in Row,
           "status" \notin SetBy(p) => new.status = rows[x].status,
           "mastery" \notin SetBy(p) => new.mastery = rows[x].mastery,
           "confidence" \notin SetBy(p) => new.confidence = rows[x].confidence,
           "last_confidence" \notin SetBy(p) => new.last_confidence = rows[x].last_confidence,
           "error_count" \notin SetBy(p) => new.error_count = rows[x].error_count,
           "retry_priority" \notin SetBy(p) => new.retry_priority = rows[x].retry_priority,
           rows' = [rows EXCEPT ![x] = new],
           byHand' = [byHand EXCEPT ![x] = @ \union SetBy(p)],
           attested \subseteq attested'
    PROVE  /\ rows' \in [Sources -> Row] /\ byHand' \in [Sources -> SUBSET Columns]
           /\ rows'[x] = new
           /\ \A y \in Sources \ {x} : rows'[y] = rows[y] /\ byHand'[y] = byHand[y]
           /\ ResultColumns' /\ MasteryEarned' /\ LessonsAreNotClosed'
<1>1. /\ rows' \in [Sources -> Row] /\ byHand' \in [Sources -> SUBSET Columns]
      /\ rows'[x] = new /\ byHand'[x] = byHand[x] \union SetBy(p)
      /\ \A y \in Sources \ {x} : rows'[y] = rows[y] /\ byHand'[y] = byHand[y]
  BY DEF TypeOK, SetBy
<1>2. ResultColumns'
  BY <1>1 DEF ResultColumns, Sources
<1>3. MasteryEarned'
  BY <1>1 DEF MasteryEarned, Sources
<1>4. LessonsAreNotClosed'
  BY <1>1, SourcesAssumption DEF LessonsAreNotClosed, Sources
<1> QED
  BY <1>1, <1>2, <1>3, <1>4

\* A learner sets columns of a topic.  A retry_count set by hand is what the
\* results count on from, and overtakes every request that has read it.
LEMMA EditTopicStep ==
    ASSUME SessionInv, NEW t \in Topics, NEW p \in TopicEdits, EditTopic(t, p)
    PROVE  SessionInv'
<1> DEFINE new == UpdatedTopic(rows[t], p, clock.day)
<1>1. t \in Sources /\ rows[t] \in Row /\ clock.day \in Nat /\ p \in PatchType
  BY SessionAssumption DEF TypeOK, Sources, Moment
<1>2. new \in Row
  BY <1>1, UpdatedIsRow
<1>3. /\ "status" \notin SetBy(p) => new.status = rows[t].status
      /\ "mastery" \notin SetBy(p) => new.mastery = rows[t].mastery
      /\ "confidence" \notin SetBy(p) => new.confidence = rows[t].confidence
      /\ "last_confidence" \notin SetBy(p) => new.last_confidence = rows[t].last_confidence
      /\ "error_count" \notin SetBy(p) => new.error_count = rows[t].error_count
      /\ "retry_priority" \notin SetBy(p) => new.retry_priority = rows[t].retry_priority
      /\ new.retry_count = IF p.retry_count = None THEN rows[t].retry_count ELSE p.retry_count
  <2>1. new \in {Patched(rows[t], p), UpdatedTopic(rows[t], p, clock.day)}
    OBVIOUS
  <2> HIDE DEF new
  <2> QED
    BY <1>1, <2>1, UnsetColumnsStay
<1>4. /\ rows' = [rows EXCEPT ![t] = new]
      /\ attested' = IF rows'[t].mastery = "retention_verification"
                     THEN attested \union {t} ELSE attested
      /\ byHand' = [byHand EXCEPT ![t] = @ \union SetBy(p)]
      /\ UNCHANGED <<live, clock, held, req, skips, snoozes, logged, patches>>
      /\ p.retry_count = None => UNCHANGED <<weak, stale, raced>>
      /\ p.retry_count # None => /\ weak' = [weak EXCEPT ![t] = p.retry_count]
                                 /\ stale' = stale \union (Readers(t) \X {"hand"})
                                 /\ raced' = raced \ ({t} \X Writers)
  BY DEF EditTopic
<1> HIDE DEF new
<1>5. attested \subseteq attested' /\ attested' \subseteq Topics
  BY <1>4 DEF TypeOK
<1>6. /\ rows' \in [Sources -> Row] /\ byHand' \in [Sources -> SUBSET Columns]
      /\ rows'[t] = new
      /\ \A y \in Sources \ {t} : rows'[y] = rows[y] /\ byHand'[y] = byHand[y]
      /\ ResultColumns' /\ MasteryEarned' /\ LessonsAreNotClosed'
  BY <1>1, <1>2, <1>3, <1>4, <1>5, EditStep
<1>7. /\ weak' \in [Sources -> Nat]
      /\ stale' \subseteq Clients \X Writers /\ raced' \subseteq Topics \X Writers
      /\ \A u \in Topics \ {t} : weak'[u] = weak[u]
      /\ weak'[t] = IF p.retry_count = None THEN weak[t] ELSE p.retry_count
  BY <1>1, <1>4 DEF TypeOK, Readers, Writers, PatchType, Sources
<1>8. TypeOK'
  BY <1>4, <1>5, <1>6, <1>7 DEF TypeOK
<1>9. ItemsHonest' /\ SkipsHonest' /\ EventsFollowWrites'
  BY <1>4, <1>5 DEF ItemsHonest, SkipsHonest, Honest, EventsFollowWrites, Recording
<1>10. RowsAttested'
  BY <1>4, <1>6 DEF RowsAttested, Sources
<1>11. RetryCountHonest' /\ ReadsHonest'
  <2>1. CASE p.retry_count = None
    <3>1. \A u \in Topics : rows'[u].retry_count = rows[u].retry_count
      BY <1>3, <1>6, <2>1 DEF Sources
    <3> QED
      BY <1>4, <2>1, <3>1 DEF RetryCountHonest, ReadsHonest
  <2>2. CASE p.retry_count # None
    <3>1. rows'[t].retry_count = weak'[t] /\ weak'[t] \in Nat
      BY <1>1, <1>3, <1>6, <1>7, <2>2 DEF PatchType
    <3>2. \A u \in Topics \ {t}, w \in Writers : <<u, w>> \in raced <=> <<u, w>> \in raced'
      BY <1>4, <2>2
    <3>3. \A u \in Topics \ {t} : rows'[u] = rows[u]
      BY <1>6 DEF Sources
    <3>4. RetryCountHonest'
      <4> SUFFICES ASSUME NEW u \in Topics
                   PROVE  /\ <<u, "hand">> \notin raced' => rows'[u].retry_count <= weak'[u]
                          /\ (\A w \in Writers : <<u, w>> \notin raced') =>
                               rows'[u].retry_count = weak'[u]
        BY DEF RetryCountHonest
      <4>1. CASE u = t
        BY <3>1, <4>1
      <4>2. CASE u # t
        <5>1. /\ <<u, "hand">> \notin raced => rows[u].retry_count <= weak[u]
              /\ (\A w \in Writers : <<u, w>> \notin raced) => rows[u].retry_count = weak[u]
          BY DEF RetryCountHonest
        <5>2. "hand" \in Writers
          BY DEF Writers
        <5>3. rows'[u] = rows[u] /\ weak'[u] = weak[u]
          BY <1>7, <3>3, <4>2
        <5> QED
          BY <3>2, <4>2, <5>1, <5>2, <5>3
      <4> QED
        BY <4>1, <4>2
    <3>5. ASSUME NEW d \in Clients, NEW u \in Topics, req[d].pc = "write", req[d].ref.id = u
          PROVE  /\ <<d, "hand">> \notin stale' /\ <<u, "hand">> \notin raced' =>
                      req[d].prior <= weak'[u]
                 /\ u \in live
                    /\ (\A w \in Writers : <<d, w>> \notin stale' /\ <<u, w>> \notin raced') =>
                      req[d].prior = weak'[u]
      <4>1. CASE u = t
        <5>1. d \in Readers(t)
          BY <3>5, <4>1 DEF Readers
        <5>2. <<d, "hand">> \in stale'
          BY <1>4, <2>2, <5>1
        <5> QED
          BY <5>2 DEF Writers
      <4>2. CASE u # t
        <5>1. \A w \in Writers : <<d, w>> \in stale => <<d, w>> \in stale'
          BY <1>4, <2>2
        <5>2. /\ <<d, "hand">> \notin stale /\ <<u, "hand">> \notin raced => req[d].prior <= weak[u]
              /\ u \in live /\ (\A w \in Writers : <<d, w>> \notin stale /\ <<u, w>> \notin raced) =>
                   req[d].prior = weak[u]
          BY <3>5 DEF ReadsHonest
        <5> QED
          BY <1>7, <3>2, <4>2, <5>1, <5>2 DEF Writers
      <4> QED
        BY <4>1, <4>2
    <3>6. ReadsHonest'
      BY <1>4, <3>5 DEF ReadsHonest
    <3> QED
      BY <3>4, <3>6
  <2> QED
    BY <2>1, <2>2
<1> QED
  BY <1>6, <1>8, <1>9, <1>10, <1>11

\* A learner sets columns of a task.
LEMMA EditTaskStep ==
    ASSUME SessionInv, NEW x \in Tasks, NEW p \in TaskEdits, EditTask(x, p)
    PROVE  SessionInv'
<1> DEFINE new == Patched(rows[x], p)
<1>1. x \in Sources /\ x \notin Topics /\ rows[x] \in Row /\ p \in PatchType
  BY SessionAssumption, SourcesAssumption DEF TypeOK, Sources
<1>2. new \in Row
  BY <1>1, PatchedIsRow
<1>3. /\ "status" \notin SetBy(p) => new.status = rows[x].status
      /\ "mastery" \notin SetBy(p) => new.mastery = rows[x].mastery
      /\ "confidence" \notin SetBy(p) => new.confidence = rows[x].confidence
      /\ "last_confidence" \notin SetBy(p) => new.last_confidence = rows[x].last_confidence
      /\ "error_count" \notin SetBy(p) => new.error_count = rows[x].error_count
      /\ "retry_priority" \notin SetBy(p) => new.retry_priority = rows[x].retry_priority
  <2>1. new \in {Patched(rows[x], p), UpdatedTopic(rows[x], p, 0)}
    OBVIOUS
  <2> HIDE DEF new
  <2> QED
    BY <1>1, <2>1, UnsetColumnsStay
<1>4. /\ rows' = [rows EXCEPT ![x] = new]
      /\ byHand' = [byHand EXCEPT ![x] = @ \union SetBy(p)]
      /\ UNCHANGED <<live, clock, held, req, skips, snoozes, logged,
                     patches, weak, attested, stale, raced>>
  BY DEF EditTask
<1> HIDE DEF new
<1>5. /\ rows' \in [Sources -> Row] /\ byHand' \in [Sources -> SUBSET Columns]
      /\ \A y \in Sources \ {x} : rows'[y] = rows[y] /\ byHand'[y] = byHand[y]
      /\ ResultColumns' /\ MasteryEarned' /\ LessonsAreNotClosed'
  BY <1>1, <1>2, <1>3, <1>4, EditStep
<1>6. \A t \in Topics : rows'[t] = rows[t]
  BY <1>1, <1>5 DEF Sources
<1>7. TypeOK'
  BY <1>4, <1>5 DEF TypeOK
<1>8. ItemsHonest' /\ SkipsHonest' /\ ReadsHonest' /\ EventsFollowWrites'
  BY <1>4 DEF ItemsHonest, SkipsHonest, ReadsHonest, Honest, EventsFollowWrites, Recording
<1>9. RowsAttested' /\ RetryCountHonest'
  BY <1>4, <1>6 DEF RowsAttested, RetryCountHonest
<1> QED
  BY <1>5, <1>7, <1>8, <1>9

\* A request carries the reference the client was shown.
LEMMA SubmitWithRefStep ==
    ASSUME SessionInv, NEW c \in Clients, NEW outcome, NEW result,
           \/ outcome = "completed" /\ result \in Results
           \/ outcome \in Outcomes /\ result = None,
           SubmitWithRef(c, outcome, result)
    PROVE  SessionInv'
<1> DEFINE ref == held[c].ref
           r == Request(c, AfterResolve(outcome, ref.type), "unknown", outcome, result)
<1>1. /\ held[c] # None /\ req[c].pc = "idle" /\ Enter(c, r)
      /\ held' = [held EXCEPT ![c] = None]
      /\ UNCHANGED <<rows, live, clock, skips, snoozes, logged, history>>
  BY DEF SubmitWithRef
<1>2. ref \in RefType
  BY <1>1 DEF TypeOK, ItemType
<1>3. Honest("unknown", ref)
  BY <1>1 DEF ItemsHonest, Honest
<1>4. r = [r EXCEPT !.ref = ref]
  BY DEF Request
<1> QED
  BY <1>1, <1>2, <1>3, <1>4, SubmitStep

\* A request names an item, which is looked up in the agenda of its date.
LEMMA SubmitByIdStep ==
    ASSUME SessionInv, NEW c \in Clients, NEW outcome, NEW result,
           \/ outcome = "completed" /\ result \in Results
           \/ outcome \in Outcomes /\ result = None,
           SubmitById(c, outcome, result)
    PROVE  SessionInv'
<1>1. /\ held[c] # None /\ req[c].pc = "idle"
      /\ held' = [held EXCEPT ![c] = None]
      /\ UNCHANGED <<rows, live, clock, skips, snoozes, logged, history>>
  BY DEF SubmitById
<1>2. PICK i \in AgendaOf(held[c].date) :
        Enter(c, [Request(c, AfterResolve(outcome, i.ref.type), i.kind, outcome, result)
                    EXCEPT !.ref = i.ref])
  BY DEF SubmitById
<1>3. held[c].date \in Nat
  BY <1>1 DEF TypeOK, ItemType
<1>4. i \in ItemType /\ Honest(i.kind, i.ref)
  BY <1>3, ShownIsHonest
<1>5. i.kind \in ItemKinds \union {"unknown"} /\ i.ref \in RefType
  BY <1>4 DEF ItemType
<1> QED
  BY <1>1, <1>2, <1>4, <1>5, SubmitStep

\* A request fails, a row is deleted, the process restarts, time passes, or
\* nothing happens.
LEMMA QuietStep ==
    ASSUME SessionInv,
           \/ \E c \in Clients : Unresolved(c) \/ WriteMissing(c)
           \/ \E x \in Sources : Delete(x)
           \/ Restart \/ Tick \/ UNCHANGED vars
    PROVE  SessionInv'
<1> USE IdleIsRequest
<1>1. ASSUME NEW c \in Clients, Unresolved(c) PROVE SessionInv'
  <2>1. held' \in [Clients -> ItemType \union {None}] /\ \A d \in Clients : held'[d] \in {held[d], None}
    BY <1>1 DEF Unresolved, TypeOK
  <2> QED
    BY <1>1, <2>1, FrameStep DEF Unresolved, TypeOK
<1>2. ASSUME NEW c \in Clients, WriteMissing(c) PROVE SessionInv'
  <2>1. req' \in [Clients -> RequestType] /\ \A d \in Clients : req'[d] \in {req[d], Idle}
    BY <1>2 DEF WriteMissing, TypeOK
  <2> QED
    BY <1>2, <2>1, FrameStep DEF WriteMissing, TypeOK
<1>3. ASSUME NEW x \in Sources, Delete(x) PROVE SessionInv'
  BY <1>3, FrameStep DEF Delete, TypeOK
<1>4. CASE Restart
  <2>1. req' \in [Clients -> RequestType] /\ \A d \in Clients : req'[d] \in {req[d], Idle}
    BY <1>4 DEF Restart
  <2> QED
    BY <1>4, <2>1, FrameStep DEF Restart, TypeOK
<1>5. CASE Tick
  BY <1>5, NextMoment, FrameStep DEF Tick, TypeOK
<1>6. CASE UNCHANGED vars
  BY <1>6, FrameStep DEF vars, TypeOK
<1> QED
  BY <1>1, <1>2, <1>3, <1>4, <1>5, <1>6

\* No row, no request, no event: the invariant holds at the start.
LEMMA InvInit == ASSUME Init PROVE SessionInv
<1>1. /\ rows = [x \in Sources |-> FreshRow(IF x \in Topics THEN "not_started" ELSE "open")]
      /\ \A x \in Sources : rows[x] = FreshRow(IF x \in Topics THEN "not_started" ELSE "open")
  BY DEF Init, FreshRows
<1>2. FreshRow("not_started") \in Row /\ FreshRow("open") \in Row
  BY DEF FreshRow, Row, Status, TopicStatus, TaskStatus, MasteryState, MaybeConfidence, MaybeDay
<1>3. /\ \A x \in Sources : /\ rows[x] \in Row /\ rows[x].mastery = "not_started"
                            /\ rows[x].retry_count = 0 /\ rows[x].status # "done"
      /\ rows \in [Sources -> Row]
  BY <1>1, <1>2 DEF FreshRow
<1>4. /\ \A c \in Clients : req[c] = Idle /\ held[c] = None
      /\ req = [c \in Clients |-> Idle] /\ held = [c \in Clients |-> None]
  BY DEF Init
<1>5. TypeOK
  <2>1. clock \in Moment
    BY SessionAssumption DEF Init, Moment, Slots
  <2>2. req \in [Clients -> RequestType] /\ held \in [Clients -> ItemType \union {None}]
    BY <1>4, IdleIsRequest
  <2> QED
    BY <1>3, <1>4, <2>1, <2>2, IdleIsRequest DEF Init, TypeOK
<1>6. EventsFollowWrites
  <2> SUFFICES ASSUME NEW x \in Sources PROVE logged[x] + Cardinality(Recording(x)) <= patches[x]
    BY DEF EventsFollowWrites
  <2>1. Recording(x) = {}
    BY <1>4, IdleIsRequest DEF Recording
  <2> QED
    BY <2>1, FS_EmptySet DEF Init
<1>7. ItemsHonest /\ ReadsHonest
  BY <1>4, IdleIsRequest DEF ItemsHonest, ReadsHonest
<1>8. SkipsHonest
  BY DEF Init, SkipsHonest
<1>9. RowsAttested /\ ResultColumns /\ MasteryEarned /\ LessonsAreNotClosed /\ RetryCountHonest
  BY <1>3, SourcesAssumption
  DEF Init, Sources, RowsAttested, ResultColumns, MasteryEarned, LessonsAreNotClosed, RetryCountHonest
<1> QED
  BY <1>5, <1>6, <1>7, <1>8, <1>9

\* Every step keeps it.
LEMMA InvStep == ASSUME SessionInv, [Next]_vars PROVE SessionInv'
<1> USE QuietStep
<1>1. ASSUME NEW c \in Clients, NEW n \in Ahead, ShowAgenda(c, clock.day + n) PROVE SessionInv'
  BY <1>1, ShowStep
<1>2. ASSUME NEW c \in Clients, NEW r \in Results,
             SubmitWithRef(c, "completed", r) \/ SubmitById(c, "completed", r)
      PROVE  SessionInv'
  BY <1>2, SubmitWithRefStep, SubmitByIdStep
<1>3. ASSUME NEW c \in Clients, NEW o \in Outcomes,
             SubmitWithRef(c, o, None) \/ SubmitById(c, o, None)
      PROVE  SessionInv'
  BY <1>3, SubmitWithRefStep, SubmitByIdStep
<1>4. ASSUME NEW c \in Clients, ReadTopic(c) PROVE SessionInv'
  BY <1>4, ReadStep
<1>5. ASSUME NEW c \in Clients, WriteTopic(c) PROVE SessionInv'
  BY <1>5, WriteTopicStep
<1>6. ASSUME NEW c \in Clients, WriteTask(c) PROVE SessionInv'
  BY <1>6, WriteTaskStep
<1>7. ASSUME NEW c \in Clients, RecordEvent(c) PROVE SessionInv'
  BY <1>7, RecordStep
<1>8. ASSUME NEW t \in Topics, NEW p \in TopicEdits, EditTopic(t, p) PROVE SessionInv'
  BY <1>8, EditTopicStep
<1>9. ASSUME NEW x \in Tasks, NEW p \in TaskEdits, EditTask(x, p) PROVE SessionInv'
  BY <1>9, EditTaskStep
<1> QED
  BY <1>1, <1>2, <1>3, <1>4, <1>5, <1>6, <1>7, <1>8, <1>9 DEF Next

----------------------------------------------------------------------------

\* What it implies in a state.

\* A weak result leaves a status and a priority that make retry work.
LEMMA WeakIsRetryWork == ASSUME SessionInv PROVE WeakTopicIsRetried
<1> SUFFICES ASSUME NEW t \in Topics \intersect live,
                    rows[t].mastery \in {"struggling", "guided_practice", "retry_stabilization"},
                    byHand[t] \intersect {"mastery", "status", "retry_priority"} = {}
             PROVE  t \in RetryWork(rows, live, clock.day)
  BY DEF WeakTopicIsRetried
<1>1. rows[t].status \in {"struggling", "in_progress"} /\ rows[t].retry_priority > 0
  BY DEF ResultColumns
<1> QED
  BY <1>1 DEF RetryWork

\* No category but the spaced review takes a mastered topic.
LEMMA MasteredIsReviewOnly == ASSUME SessionInv PROVE MasteredIsQuiet
<1> SUFFICES ASSUME NEW t \in Topics \intersect live, rows[t].mastery = "mastered",
                    byHand[t] \intersect {"mastery", "status", "confidence"} = {},
                    NEW n \in Ahead,
                    NEW i \in Candidates(rows, live, clock.day + n), i.ref.id = t
             PROVE  i.kind = "review"
  BY DEF MasteredIsQuiet
<1> DEFINE day == clock.day + n
<1>1. rows[t].status = "mastered" /\ rows[t].confidence = 5
  BY DEF ResultColumns
<1>2. t \notin Tasks /\ t \notin SyntheticIds
  BY SourcesAssumption, SyntheticAssumption DEF Sources
<1>3. ~LowConfidence(rows[t])
  BY <1>1, NoneAssumption DEF LowConfidence, Confidence
<1>4. CASE i \in UrgentWork(rows, live, day)
  <2>1. PICK x \in Tasks : i = Item(0, "urgent_work", day, Ref("task", x, None))
    BY <1>4 DEF UrgentWork, First
  <2> QED
    BY <1>2, <2>1 DEF Item, Ref
<1>5. CASE i \in RetryCandidate(rows, live, day)
  <2>1. PICK x : rows[x].status # "mastered" /\ i = Item(1, "retry", day, RefForItem(rows, x))
    BY <1>5 DEF RetryCandidate, RetryWork, First
  <2> QED
    BY <1>1, <2>1 DEF Item, Ref, RefForItem
<1>6. CASE i \in StrugglingCandidate(rows, live, day)
  <2>1. PICK x \in StrugglingWork(rows, live) :
          i = Item(2, "struggling_topic", day, RefForItem(rows, x))
    BY <1>6 DEF StrugglingCandidate, First
  <2>2. x = t
    BY <2>1 DEF Item, Ref, RefForItem
  <2> QED
    BY <1>1, <1>2, <1>3, <2>1, <2>2 DEF StrugglingWork
<1>7. CASE i \in ReviewCandidate(rows, live, day)
  <2>1. CASE FallBehind(rows, live, day) # {}
    <3>1. PICK x : i = Item(3, "review", day, Ref("fall_behind", x, None))
      BY <1>7, <2>1 DEF ReviewCandidate
    <3> QED
      BY <3>1 DEF Item
  <2>2. CASE FallBehind(rows, live, day) = {} /\ DueRetention(rows, live, day) # {}
    <3>1. PICK x : /\ rows[x].mastery = "retention_verification"
                   /\ i = Item(3, "retention_check", day, RefForItem(rows, x))
      BY <1>7, <2>2 DEF ReviewCandidate, DueRetention, First
    <3> QED
      BY <3>1 DEF Item, Ref, RefForItem
  <2>3. CASE FallBehind(rows, live, day) = {} /\ DueRetention(rows, live, day) = {}
    <3>1. PICK x : i = Item(3, "review", day, Ref("study_topic", x, None))
      BY <1>7, <2>3 DEF ReviewCandidate
    <3> QED
      BY <3>1 DEF Item
  <2> QED
    BY <2>1, <2>2, <2>3
<1>8. CASE i \in MasteryProgressionCandidate(rows, live, day)
  <2>1. PICK x : /\ rows[x].status # "mastered"
                 /\ i = Item(4, "mastery_progression", day, RefForItem(rows, x))
    BY <1>8 DEF MasteryProgressionCandidate, First
  <2> QED
    BY <1>1, <2>1 DEF Item, Ref, RefForItem
<1>9. i \notin TimedExerciseCandidate(day) /\ i \notin FlashcardCandidate(day)
  BY <1>2, SyntheticMembers DEF TimedExerciseCandidate, FlashcardCandidate, Item, Ref
<1>10. CASE i \in NewConceptCandidate(rows, live, day)
  <2>1. CASE NewLessons(rows, live) # {}
    <3>1. PICK x \in Tasks : i = Item(6, "new_exposure", day, RefForItem(rows, x))
      BY <1>10, <2>1, SourcesAssumption DEF NewConceptCandidate, NewLessons, First
    <3> QED
      BY <1>2, <3>1 DEF Item, Ref, RefForItem
  <2>2. CASE NewLessons(rows, live) = {}
    <3>1. PICK x : /\ rows[x].status = "not_started"
                   /\ i = Item(6, "new_concept", day, Ref("study_topic", x, None))
      BY <1>10, <2>2 DEF NewConceptCandidate, First
    <3> QED
      BY <1>1, <3>1 DEF Item, Ref
  <2> QED
    BY <2>1, <2>2
<1> QED
  BY <1>4, <1>5, <1>6, <1>7, <1>8, <1>9, <1>10 DEF Candidates

\* The key of a skipped task is suppressed, whatever kind it would be shown as.
LEMMA SkippedIsSuppressed == ASSUME SessionInv PROVE SkippedTaskStaysOff
<1> SUFFICES ASSUME NEW s \in skips, NEW i \in AgendaOf(s[2]), s[1][2] \in Tasks,
                    i.ref.id = s[1][2]
             PROVE  FALSE
  BY DEF SkippedTaskStaysOff
<1>1. s \in (RefTypes \X RefIds) \X Nat
  BY DEF TypeOK
<1>2. Honest(i.kind, i.ref) /\ SourceKey(i.ref) \notin Suppressed(s[2])
  BY <1>1, ShownIsHonest DEF Sources
<1>3. i.ref.type = "task" /\ s[1][1] = "task"
  BY <1>2 DEF Honest, SkipsHonest
<1>4. s[1] = SourceKey(i.ref)
  BY <1>1, <1>3 DEF SourceKey
<1>5. s[1] \in Suppressed(s[2])
  BY DEF Suppressed
<1> QED
  BY <1>2, <1>4, <1>5

\* An event was a recording, and every recording follows a write.
LEMMA EventsAreWrites == ASSUME SessionInv PROVE CompletionsWereApplied
<1> SUFFICES ASSUME NEW x \in Sources PROVE logged[x] <= patches[x]
  BY DEF CompletionsWereApplied
<1>1. Cardinality(Recording(x)) \in Nat
  BY SessionAssumption, FS_Subset, FS_CardinalityType DEF Recording
<1> QED
  BY <1>1 DEF EventsFollowWrites, TypeOK

----------------------------------------------------------------------------

\* The theorems.

\* The strengthening is an invariant of every execution.
THEOREM SessionInvariant == Spec => []SessionInv
<1> USE DEF SessionInv
<1>1. Init => SessionInv
  BY InvInit
<1>2. SessionInv /\ [Next]_vars => SessionInv'
  BY InvStep
<1> HIDE DEF SessionInv
<1> QED
  BY <1>1, <1>2, PTL DEF Spec

\* Rows, requests and history keep their types.
THEOREM TypeCorrect == Spec => []TypeOK
<1>1. SessionInv => TypeOK
  OBVIOUS
<1> HIDE DEF SessionInv
<1> QED
  BY <1>1, SessionInvariant, PTL

\* Where no hand wrote it, mastered is reached through retention_verification and
\* a good result only (agenda.py:311), whatever requests interleave, however old
\* their items are and whatever else was set by hand.
THEOREM MasteryIsEarned == Spec => []MasteryEarned
<1>1. SessionInv => MasteryEarned
  OBVIOUS
<1> HIDE DEF SessionInv
<1> QED
  BY <1>1, SessionInvariant, PTL

\* retry_count is the value last set by hand and the results since that called
\* for a retry, unless requests computed one from a read that was overwritten.
THEOREM RetriesAreCounted == Spec => []RetryCountHonest
<1>1. SessionInv => RetryCountHonest
  OBVIOUS
<1> HIDE DEF SessionInv
<1> QED
  BY <1>1, SessionInvariant, PTL

\* No completion event reports a write that did not happen.
THEOREM EventsHaveWrites == Spec => []CompletionsWereApplied
<1>1. SessionInv => CompletionsWereApplied
  BY EventsAreWrites
<1> HIDE DEF SessionInv
<1> QED
  BY <1>1, SessionInvariant, PTL

\* A topic with a weak last result is retry work on every later day.
THEOREM WeakIsRetried == Spec => []WeakTopicIsRetried
<1>1. SessionInv => WeakTopicIsRetried
  BY WeakIsRetryWork
<1> HIDE DEF SessionInv
<1> QED
  BY <1>1, SessionInvariant, PTL

\* A topic that a result mastered comes back as a spaced review only, today and
\* on the agendas asked for ahead.
THEOREM MasteredStaysQuiet == Spec => []MasteredIsQuiet
<1>1. SessionInv => MasteredIsQuiet
  BY MasteredIsReviewOnly
<1> HIDE DEF SessionInv
<1> QED
  BY <1>1, SessionInvariant, PTL

\* The agenda never closes an undated lesson.
THEOREM LessonsStayOpen == Spec => []LessonsAreNotClosed
<1>1. SessionInv => LessonsAreNotClosed
  OBVIOUS
<1> HIDE DEF SessionInv
<1> QED
  BY <1>1, SessionInvariant, PTL

\* A skipped task is off the agenda of the date it was skipped for.
THEOREM SkippedStaysOff == Spec => []SkippedTaskStaysOff
<1>1. SessionInv => SkippedTaskStaysOff
  BY SkippedIsSuppressed
<1> HIDE DEF SessionInv
<1> QED
  BY <1>1, SessionInvariant, PTL
=============================================================================
