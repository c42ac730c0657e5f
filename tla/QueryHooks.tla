----------------------------- MODULE QueryHooks -----------------------------
(***************************************************************************)
(* The data hooks of the web application (src/web/src/lib/queries.ts) as   *)
(* tables: what every query reads on the server, and for every mutation    *)
(* what it writes there, which cached queries its success overwrites with  *)
(* the response, and which it marks as out of date.                        *)
(***************************************************************************)
Planner == {"courses", "slots", "exams", "deliverables", "topics", "tasks",
            "lectures"}

\* The server's data as the queries see it.  "index" is the full-text index
\* of the files, brought up to date by passes of its own.
Tables == Planner \cup {"session", "settings", "secrets", "files", "index",
                        "events"}

(***************************************************************************)
(* Queries: the cache key (without its parameters) and the tables read.    *)
(***************************************************************************)
AccountQueries == {"session", "settings", "secrets-status"}
CourseQueries == {"dashboard", "courses"}
ListQueries == {"slots", "exams", "deliverables", "study-topics", "tasks", "lectures"}
FileQueries == {"files/list", "files/search", "files/lecture-materials", "events"}
Queries == AccountQueries \cup CourseQueries \cup ListQueries \cup FileQueries

\* Most read the table they are named after.
Reads(q) ==
    CASE q = "secrets-status" -> {"secrets"}
      [] q = "dashboard" -> Planner
      [] q = "study-topics" -> {"topics"}
      [] q = "files/list" -> {"files"}
      [] q = "files/search" -> {"index"}
      [] q = "files/lecture-materials" -> {"files", "courses"}
      [] OTHER -> {q}

(***************************************************************************)
(* Mutations: tables written, queries set from the response, queries       *)
(* invalidated.                                                            *)
(***************************************************************************)
Effect(writes, sets, marks) == [writes |-> writes, sets |-> sets, marks |-> marks]

\* Faulty: the response is put into the cache instead.
SettingEntity(writes) == Effect(writes \cup {"events"}, Queries, {})

\* invalidateAll: every query of the cache.  A trigger of the database logs
\* every change of a planner table in events.
Entity(writes) == Effect(writes \cup {"events"}, {}, Queries)

\* Logout is not here: it empties the cache (see WebAccounts).
SessionMutations ==
    [login |-> Effect({"session"}, {"session"}, Queries),
     totpSetup |-> Effect({}, {}, {}),
     totpEnable |-> Effect({"session"}, {"session"}, {}),
     totpDisable |-> Effect({"session"}, {"session"}, {})]

\* Deleting a course deletes what hangs on it (ON DELETE CASCADE), tasks keep
\* living without a course.
CourseMutations ==
    [updateCourse |-> Entity({"courses"}), createCourse |-> Entity({"courses"}),
     deleteCourse |-> Entity(Planner)]

SettingsMutations ==
    [updateSettings |-> Effect({"settings"}, {"settings"}, {"settings"}),
     updateSecrets |-> Effect({"secrets"}, {"secrets-status"}, {}),
     telegramTest |-> Effect({}, {}, {})]

SlotMutations ==
    [createSlot |-> Entity({"slots"}), updateSlot |-> Entity({"slots"}),
     deleteSlot |-> Entity({"slots"}), updateExam |-> Entity({"exams"})]

DeliverableMutations ==
    [m \in {"createDeliverable", "updateDeliverable", "markSubmitted", "reopenDeliverable",
            "deleteDeliverable"} |-> Entity({"deliverables"})]

TopicMutations ==
    [m \in {"createTopic", "updateTopic", "markStudied", "deleteTopic"} |-> Entity({"topics"})]

TaskHooks == {"createTask", "updateTask", "completeTask", "reopenTask", "deleteTask"}

\* Faulty: completing a task leaves the cache alone.
QuietTaskMutations ==
    [m \in TaskHooks |-> IF m = "completeTask" THEN Effect({"tasks", "events"}, {}, {})
                         ELSE Entity({"tasks"})]

TaskMutations == [m \in TaskHooks |-> Entity({"tasks"})]

\* Deleting a lecture clears lecture_id of its topics (ON DELETE SET NULL).
LectureMutations ==
    [createLecture |-> Entity({"lectures"}), updateLecture |-> Entity({"lectures"}),
     toggleAttended |-> Entity({"lectures"}), deleteLecture |-> Entity({"lectures", "topics"})]

\* The prefix ["files", "list"] matches the listing of every folder, and
\* neither the search nor the lecture materials.
FileMutations ==
    [m \in {"syncMoodle", "uploadFile", "deleteEntry", "createFolder", "moveEntry"} |->
        Effect({"files", "events"}, {}, {"files/list"})]

\* All of them in one table: the names are distinct.
Groups == {SessionMutations, CourseMutations, SettingsMutations, SlotMutations,
           DeliverableMutations, TopicMutations, TaskMutations, LectureMutations,
           FileMutations}
Mutations == [m \in UNION {DOMAIN G : G \in Groups} |->
                 (CHOOSE G \in Groups : m \in DOMAIN G)[m]]

\* The files API logs an event too, which the activity page and the lecture
\* materials are not told of.
Untold(m, q) == m \in DOMAIN FileMutations
             /\ q \in {"events", "files/lecture-materials"}

Touches(m, q) == Mutations[m].writes \cap Reads(q) # {}
Overwrites(m, q) == q \in Mutations[m].sets
Marks(m, q) == q \in Mutations[m].marks
=============================================================================
