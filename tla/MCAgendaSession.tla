-------------------------- MODULE MCAgendaSession --------------------------
(***************************************************************************)
(* AgendaSession on one mastery unit (two clients racing), and on tasks:   *)
(* a lesson without a date and a lesson that is due.                       *)
(***************************************************************************)
EXTENDS AgendaSession, TLC

CONSTANTS t1, l1, d1, c1, c2

MCTopics == {t1}
MCTasks == {l1, d1}
MCRank == [x \in Sources |-> CASE x = t1 -> 1 [] x = l1 -> 2 [] x = d1 -> 3]
MCWeight == [x \in Tasks |-> 4]
MCDueOn == [x \in Tasks |-> IF x = d1 THEN 1 ELSE None]
MCCoveredOn == [x \in Topics |-> 0]
MCClients == {c1, c2}

\* A weak result and a good one.
MCResults == {[confidence |-> 2, errors |-> None], [confidence |-> 5, errors |-> 0]}

\* The results of a lesson: unsure, and lost.
MCLessonResults == {[confidence |-> None, errors |-> None], [confidence |-> 1, errors |-> 1]}

\* The learner marks the topic studied, with little confidence.
Studied == [EmptyPatch EXCEPT !.status = "studied", !.confidence = 1]
MCStudied == {Studied}

\* A hand sends the topic to its check, and gives it three retries.
MCTopicEdits == {[EmptyPatch EXCEPT !.mastery = "retention_verification", !.retry_count = 3]}

\* A task is completed, or reopened.
MCTaskEdits == {[EmptyPatch EXCEPT !.status = "done"], [EmptyPatch EXCEPT !.status = "open"]}

ClientSymmetry == Permutations(MCClients)
=============================================================================
