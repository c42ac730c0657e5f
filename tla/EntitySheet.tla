----------------------------- MODULE EntitySheet -----------------------------
(***************************************************************************)
(* The forms of the course page (components/forms and course-detail.tsx)   *)
(* and the buttons on its rows, on top of the cached dashboard query.      *)
(*                                                                         *)
(* A behaviour follows one form and one class of its fields, chosen at the *)
(* start: fields of a class are seeded, edited and sent alike.  The page   *)
(* shows two rows.  A value of the field is a number v that tells apart    *)
(* who wrote it (0: blank) with k, the number of lossy conversions it went *)
(* through.  For class "state" v is 1 or 2: open or closed, absent or      *)
(* attended.  A version of the server is the rows with, for the watched    *)
(* field, its value, and the number of rows created so far.                *)
(***************************************************************************)
EXTENDS QueryCache

CONSTANTS Watched,      \* the forms and field classes to follow
          MaxOpenings,  \* bound: sheets opened
          MaxSaves      \* bound: calls sent from the page

VARIABLES form, class, sheet,
          pressed      \* the last call a row's button made, where it matters
sheetVars == <<form, class, sheet, pressed>>

Rows == {"a", "b"}
Val(v, k) == [v |-> v, k |-> k]
Blank == Val(0, 0)
Gone == Val(-1, 0)
Keep == Val(-2, 0)      \* the field is not in the request

(***************************************************************************)
(* The forms.  seeds: when the draft is taken from the page's data: each   *)
(* time the sheet opens on the row clicked, whenever the row changes under *)
(* the open sheet too (it was handed the live row), or once, when the page *)
(* appears.  guards: the hooks whose pending call disables the submit      *)
(* button; Cancel and Delete are disabled by them only if strict.  rows:   *)
(* what it can be opened on.                                               *)
(* Classes: required (no submit when blank), text (blank is dropped from   *)
(* the request), choice (always sent), kind and colour (choices a row may  *)
(* lack: the seed fills them in; the colour has a text box too), list      *)
(* (always sent, also empty), minute (a date of which the seed drops the   *)
(* seconds), shifted (a UTC date read as local time), state (the status or *)
(* the tick).                                                              *)
(***************************************************************************)
Form(hooks, rows, seeds, guards, strict, classes) ==
    [hooks |-> hooks, rows |-> rows, seeds |-> seeds, guards |-> guards,
     strict |-> strict, classes |-> classes]

Hooks(create, save, delete) == [create |-> create, save |-> save, delete |-> delete]

AnyRow == Rows \cup {"new"}

TaskForm == Form(Hooks("createTask", "updateTask", "deleteTask"),
    AnyRow, "open", {"create", "save"}, FALSE,
    {"required", "text", "choice", "list", "minute"})   \* not the status
DeliverableForm == Form(Hooks("createDeliverable", "updateDeliverable", "deleteDeliverable"),
    AnyRow, "open", {"create", "save"}, FALSE, {"required", "text", "minute", "state"})
SlotForm == Form(Hooks("createSlot", "updateSlot", "deleteSlot"),
    AnyRow, "open", {"create", "save", "delete"}, TRUE, {"required", "text", "choice"})
LectureForm == Form(Hooks("createLecture", "updateLecture", "deleteLecture"),
    AnyRow, "open", {"create", "save"}, FALSE, {"text", "kind", "state"})
StudyTopicForm == Form(Hooks("createTopic", "updateTopic", "deleteTopic"),
    AnyRow, "open", {"create", "save"}, FALSE, {"required", "text", "state"})
CourseForm == Form(Hooks("createCourse", "updateCourse", "deleteCourse"),
    {"a"}, "live", {"create", "save", "delete"}, TRUE, {"required", "text", "colour"})
NewCourseForm == [CourseForm EXCEPT !.rows = {"new"}, !.seeds = "open"]
CourseNotesForm == Form(Hooks("none", "updateCourse", "none"),
    {"a"}, "once", {"save"}, FALSE, {"text"})
ExamForm == Form(Hooks("none", "updateExam", "none"),
    {"a"}, "once", {"save"}, FALSE, {"text", "choice", "shifted"})

\* Where a form is opened from.  buttons: what the button of a row calls
\* while the row is in state 1 or 2.  waits: it is disabled while the last call
\* of such a button is pending and was made for the row.  undo: what the toast of the first of them offers.
\* drops: rows are deleted here rather than in the sheet.
Tab(F, buttons, waits, undo, drops) ==
    [hooks |-> F.hooks, rows |-> F.rows, seeds |-> F.seeds, guards |-> F.guards,
     strict |-> F.strict, classes |-> F.classes,
     buttons |-> buttons, waits |-> waits, undo |-> undo, drops |-> drops]

Bare(F) == Tab(F, <<>>, FALSE, "none", FALSE)

TasksTab == Tab(TaskForm, <<"completeTask", "reopenTask">>, FALSE, "reopenTask", FALSE)
DeliverablesTab == Tab(DeliverableForm, <<"markSubmitted", "reopenDeliverable">>,
                       FALSE, "reopenDeliverable", FALSE)
ScheduleTab == Bare(SlotForm)
LecturesTab == Tab(LectureForm, <<"toggleAttended", "toggleAttended">>, FALSE, "none", TRUE)
StudyTab == Tab(StudyTopicForm, <<"markStudied">>, TRUE, "none", FALSE)
CourseHeader == Bare(CourseForm)
OverviewTab == [notes |-> Bare(CourseNotesForm), exam |-> Bare(ExamForm)]

Forms == [task |-> TasksTab, deliverable |-> DeliverablesTab, slot |-> ScheduleTab,
          lecture |-> LecturesTab, topic |-> StudyTab, course |-> CourseHeader,
          newCourse |-> Bare(NewCourseForm), notes |-> OverviewTab.notes,
          exam |-> OverviewTab.exam]

\* The pairs followed name forms of the page.
ASSUME WatchedAssumption == \A w \in Watched : w[1] \in DOMAIN Forms

\* The fields a row may lack; the default of a choice (the kind lecture, the
\* accent colour of the course).
Nullable == {"text", "kind", "colour", "list", "minute", "shifted"}
Default == Val(1, 0)

\* The seed of a field from a row, and what a submit sends of a draft.
Seed(value) ==
    CASE class \in {"kind", "colour"} /\ value = Blank -> Default
      [] class = "minute" /\ value # Blank -> [value EXCEPT !.k = 1]
      [] class = "shifted" /\ value # Blank -> [value EXCEPT !.k = IF @ < 2 THEN @ + 1 ELSE @]
      [] OTHER -> value

Sent(draft) ==
    IF class \notin form.classes \/ (draft = Blank /\ class \notin {"list", "colour", "state"})
    THEN Keep ELSE draft

\* A new row's field starts blank, choices and states at their default.
Fresh == IF class \in {"choice", "kind", "colour", "state"} THEN Default ELSE Blank

(***************************************************************************)
(* The page.                                                               *)
(***************************************************************************)
\* mine: the calls whose hooks live in the page.  Ghosts: shown, the value
\* on the page when the draft was taken; made and failed, the rows created
\* and the failures shown of this opening.
Empty(opening, toast) ==
    [open |-> FALSE, row |-> "a", shown |-> Blank, draft |-> Blank,
     typed |-> FALSE, made |-> 0, failed |-> 0, mine |-> {},
     opening |-> opening, toast |-> toast]

SheetInit ==
    \E w \in Watched :
      /\ form = Forms[w[1]] /\ class = w[2] /\ class \in form.classes \cup (IF form.buttons = <<>> THEN {} ELSE {"state"})
      /\ sheet = Empty(0, "none")
      /\ pressed = {}
      /\ \E first \in {Val(1, 0)} \cup (IF class \in Nullable THEN {Blank} ELSE {}) :
           CacheInit("dashboard", [rows |-> [a |-> first, b |-> Val(2, 0)], made |-> 0], MaxSaves)

\* A refetch that failed hides the page and what it holds, as the first load
\* does; so does a course that is gone.
Displays(e, on) ==
    /\ on /\ e.data # 0 /\ ~e.error
    /\ form.seeds = "live" => server[e.data].rows["a"] # Gone

Page == Displays(entry, mounted)
Row(r) == server[entry.data].rows[r]
\* Faulty: a deleted row keeps its buttons.
AllRows == [r \in Rows |-> Row(r)]

Live == [r \in {r \in Rows : Row(r) # Gone} |-> Row(r)]

\* Faulty: only an empty draft is seeded.
FirstSeeded(s, r, value) ==
    [s EXCEPT !.row = r, !.shown = value, !.typed = FALSE,
              !.draft = IF @ = Blank THEN Seed(value) ELSE @]

Seeded(s, r, value) ==
    [s EXCEPT !.row = r, !.shown = value, !.draft = Seed(value), !.typed = FALSE]

\* The draft of a closed sheet is void, except where it is never taken anew.
Shut(s) == IF form.seeds = "once" THEN [s EXCEPT !.open = FALSE]
           ELSE [Empty(s.opening, s.toast) EXCEPT !.mine = s.mine]

\* Faulty: every form is handed the live row.
LiveReseeds(old, new) == sheet.open /\ new # old

\* What a change of the cached data does to the sheet.
Reseeds(old, new) == form.seeds = "live" /\ sheet.open /\ new # old

AfterView(e, on) ==
    LET new == IF Displays(e, on) THEN server[e.data].rows[sheet.row] ELSE Gone
    IN IF ~Displays(e, on) THEN Empty(sheet.opening, sheet.toast)
       ELSE IF ~Page
            THEN IF form.seeds = "once" THEN Seeded(sheet, "a", server[e.data].rows["a"]) ELSE sheet
       ELSE IF sheet.row # "new" /\ Reseeds(Row(sheet.row), new)
            THEN Seeded(sheet, sheet.row, new)
       ELSE sheet

View ==
    /\ Mount \/ Unmount \/ Answer \/ Fill \/ FetchFails
    /\ sheet' = AfterView(entry', mounted')

\* A row, or the button for a new one, is clicked.
Opens(r) == IF form.seeds = "once" THEN sheet
            ELSE IF r = "new" THEN Seeded(sheet, r, Fresh)
            ELSE Seeded(sheet, r, Row(r))

OpenSheet ==
    /\ Page /\ ~sheet.open /\ sheet.opening < MaxOpenings
    /\ \E r \in form.rows \cap (DOMAIN Live \cup {"new"}) :
         sheet' = [Opens(r) EXCEPT !.open = TRUE, !.opening = @ + 1,
                                      !.made = 0, !.failed = 0]
    /\ UNCHANGED cacheVars

\* X, Escape and a click beside the sheet close it whatever is under way.
CloseSheet ==
    /\ sheet.open
    /\ sheet' = Shut(sheet)
    /\ UNCHANGED cacheVars

Type ==
    /\ sheet.open /\ ~sheet.typed /\ class \in form.classes
    /\ \E v \in IF class = "state" THEN {3 - sheet.draft.v}
                ELSE IF class \in {"choice", "kind"} THEN {4} ELSE {0, 4} :
         sheet' = [sheet EXCEPT !.draft = Val(v, 0), !.typed = TRUE]
    /\ UNCHANGED cacheVars

Pending(kinds) ==
    \E c \in sheet.mine : calls[c].state # "none" /\ calls[c].job.kind \in kinds

Job(kind, row, value) ==
    [kind |-> kind, row |-> row, value |-> value, opening |-> sheet.opening,
     typed |-> sheet.typed, shown |-> sheet.shown]

Request(c, hook, kind, row, value) ==
    /\ Send(c, hook, Job(kind, row, value))
    /\ sheet' = [sheet EXCEPT !.mine = @ \cup {c}]
    /\ UNCHANGED <<query, server, entry, fetch, mounted, own, raced>>

\* Faulty: the button stays enabled.
AlwaysEnabled == TRUE

SubmitEnabled == ~Pending(form.guards)

Submit(c) ==
    /\ sheet.open /\ SubmitEnabled
    /\ class = "required" => sheet.draft # Blank
    /\ IF sheet.row = "new"
       THEN Request(c, form.hooks.create, "create", "new", Sent(sheet.draft))
       ELSE Request(c, form.hooks.save, "save", sheet.row, Sent(sheet.draft))

\* In the sheet, or from the row.
Delete(c) ==
    /\ form.seeds # "once"
    /\ form.strict => ~Pending(form.guards)
    /\ \E r \in Rows :
         /\ IF form.drops THEN Page /\ ~sheet.open /\ r \in DOMAIN Live
            ELSE sheet.open /\ r = sheet.row
         /\ Request(c, form.hooks.delete, "delete", r, Gone)

\* The buttons of a row change its status at once.
PressRow(c) ==
    /\ class = "state" /\ Page /\ ~sheet.open
    /\ \E r \in DOMAIN Live :
         /\ Row(r).v \in DOMAIN form.buttons
         /\ ~\E d \in sheet.mine \cap pressed :
               calls[d].state # "none" /\ calls[d].job.kind = "press" /\ calls[d].job.row = r
         /\ Request(c, form.buttons[Row(r).v], "press", r, Val(3 - Row(r).v, 0))
    /\ pressed' = IF form.waits THEN {c} ELSE pressed

\* The toast of a task completed or a deliverable submitted offers Undo.
Undo(c) ==
    /\ sheet.toast # "none"
    /\ Send(c, form.undo, Job("undo", sheet.toast, Val(1, 0)))
    /\ sheet' = [sheet EXCEPT !.toast = "none"]
    /\ UNCHANGED <<query, server, entry, fetch, mounted, own, raced>>

(***************************************************************************)
(* The server, and what its answers do.                                    *)
(***************************************************************************)
Written(job, last) ==
    IF job.kind = "create" THEN [last EXCEPT !.made = @ + 1]
    ELSE IF job.value = Keep THEN last
    ELSE [last EXCEPT !.rows[job.row] = job.value]

Target(job) == job.kind # "create" => server[Now].rows[job.row] # Gone

Execute(c) ==
    /\ calls[c].state = "sent" /\ Target(calls[c].job)
    /\ LET job == calls[c].job
       IN /\ Apply(c, Written(job, server[Now]))
          /\ sheet' = IF job.kind = "create" /\ job.opening = sheet.opening /\ c \in sheet.mine
                      THEN [sheet EXCEPT !.made = @ + 1] ELSE sheet

\* 404: the row is gone.  The failure is shown in a toast.
Refuse(c) ==
    /\ calls[c].state = "sent" /\ ~Target(calls[c].job)
    /\ calls' = [calls EXCEPT ![c] = NoCall]
    /\ sheet' = [sheet EXCEPT !.mine = @ \ {c}]
    /\ UNCHANGED <<query, server, entry, fetch, mounted, own, raced, budget>>

\* After the await, the sheet that happens to be open is closed.
Closes(c) == c \in sheet.mine /\ calls[c].job.kind \in {"create", "save", "delete"}

Submits(job) == form.undo # "none" /\ job.kind = "press" /\ job.value.v = 2

Finish(c) ==
    /\ Succeed(c)
    /\ LET done == [sheet EXCEPT !.mine = @ \ {c},
                      !.toast = IF Submits(calls[c].job) THEN calls[c].job.row ELSE @]
       IN sheet' = IF Closes(c) /\ ~(form.drops /\ calls[c].job.kind = "delete")
                   THEN Shut(done) ELSE done

Break(c) ==
    /\ Fail(c)
    /\ sheet' = [sheet EXCEPT !.mine = @ \ {c},
                  !.failed = @ + IF c \in sheet.mine /\ calls[c].job.kind = "create"
                                    /\ calls[c].job.opening = sheet.opening THEN 1 ELSE 0]

\* Someone else changes row a.
Elsewhere ==
    /\ \E v \in IF class = "state" THEN {3 - server[Now].rows["a"].v} ELSE {3} :
         ForeignWrite([server[Now] EXCEPT !.rows["a"] = Val(v, 0)])
    /\ server[Now].rows["a"] # Gone
    /\ UNCHANGED sheet

SheetStep ==
    /\ \/ /\ \/ View \/ OpenSheet \/ CloseSheet \/ Type \/ Elsewhere
             \/ \E c \in Calls :
                  \/ Submit(c) \/ Delete(c) \/ Undo(c)
                  \/ Execute(c) \/ Refuse(c) \/ Finish(c) \/ Break(c)
          /\ UNCHANGED pressed
       \/ \E c \in Calls : PressRow(c)
    /\ UNCHANGED <<form, class>>
=============================================================================
