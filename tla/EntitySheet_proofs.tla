------------------------- MODULE EntitySheet_proofs -------------------------
(***************************************************************************)
(* What the forms of the course page keep, in every order of the user's    *)
(* clicks, the server's answers, lost answers, refetches and the writes of *)
(* others.  WebApp_proofs draws the theorems of the application from it.   *)
(***************************************************************************)
EXTENDS EntitySheet, QueryCache_proofs

-----------------------------------------------------------------------------
\* The values of the field followed, in a draft and in a row.
Values == [v : IF class = "state" THEN 0..3 ELSE Nat, k : Nat]
RowValues == Values \cup (IF form.seeds = "once" THEN {} ELSE {Gone})
Versions == [rows : [Rows -> RowValues], made : Nat]
SheetRow ==
    [open : BOOLEAN, row : AnyRow, shown : Values, draft : Values, typed : BOOLEAN,
     made : Nat, failed : Nat, mine : SUBSET Calls, opening : Nat, toast : Rows \cup {"none"}]

\* A request carries the field as it was drafted, and an untouched one as the
\* page showed it.
GoodJob(job, opening) ==
    /\ job \in [kind : {"create", "save", "delete", "press", "undo"}, row : AnyRow,
                value : RowValues \cup {Keep}, opening : 0..opening,
                typed : BOOLEAN, shown : Values]
    /\ IF job.kind = "create" THEN "new" \in form.rows ELSE job.row \in Rows
    /\ job.kind = "save" /\ form.seeds # "once" /\ ~job.typed /\ job.value # Keep
         => job.value = Seed(job.shown)

VersionsInv == \A n \in 1..Now : server[n] \in Versions
JobsInv == \A c \in Calls : calls[c] # NoCall => GoodJob(calls[c].job, sheet.opening)

\* A state of the sheet by itself.
Fits(s) ==
    /\ s \in SheetRow
    /\ s.open => s.row \in form.rows
    /\ s.open /\ ~s.typed /\ form.seeds # "once" => s.draft = Seed(s.shown)
    /\ form.seeds = "once" => s.row = "a"
    /\ s.toast # "none" => form.undo # "none"

SheetFits ==
    /\ Fits(sheet)
    /\ sheet.open => Page
    /\ \A c \in sheet.mine : calls[c] # NoCall

\* The call of this page, if any, that creates a row: while it is under way
\* the submit button is disabled.
Creating(c) == calls[c] # NoCall /\ calls[c].job.kind = "create"

\* One row more than failures shown only while the answer of the call that
\* created it travels.
Counted ==
    /\ \A c, d \in sheet.mine : Creating(c) /\ Creating(d) => c = d
    /\ \/ sheet.made <= sheet.failed
       \/ /\ sheet.made <= sheet.failed + 1
          /\ \E c \in sheet.mine : /\ Creating(c) /\ calls[c].state = "applied"
                                   /\ calls[c].job.opening = sheet.opening

FormIs == query = "dashboard" /\ form \in {Forms[f] : f \in DOMAIN Forms}
SheetInv == FormIs /\ VersionsInv /\ JobsInv /\ SheetFits /\ Counted

-----------------------------------------------------------------------------
\* What the proofs need of the table of forms: every hook that is called is
\* one, only the sheets with a button for a new row create rows, and creating
\* one disables their submit button.
FormRow(F) ==
    /\ F.rows \subseteq AnyRow /\ F.hooks.save \in DOMAIN Mutations
    /\ F.seeds \in {"open", "live", "once"}
    /\ F.seeds # "open" => F.rows = {"a"}
    /\ "new" \in F.rows => F.hooks.create \in DOMAIN Mutations /\ "create" \in F.guards
    /\ F.seeds # "once" => F.hooks.delete \in DOMAIN Mutations
    /\ \A i \in DOMAIN F.buttons : F.buttons[i] \in DOMAIN Mutations
    /\ F.undo # "none" => F.undo \in DOMAIN Mutations

HooksOfForms ==
    {"createTask", "updateTask", "deleteTask", "completeTask", "reopenTask",
     "createDeliverable", "updateDeliverable", "deleteDeliverable", "markSubmitted",
     "reopenDeliverable", "createSlot", "updateSlot", "deleteSlot", "updateExam",
     "createLecture", "updateLecture", "deleteLecture", "toggleAttended",
     "createTopic", "updateTopic", "deleteTopic", "markStudied",
     "createCourse", "updateCourse", "deleteCourse"}

LEMMA HooksAreMutations == HooksOfForms \subseteq DOMAIN Mutations
<1>1. DOMAIN Mutations = UNION {DOMAIN G : G \in Groups}
  BY DEF Mutations
<1>2. /\ DOMAIN TaskMutations \subseteq DOMAIN Mutations
      /\ DOMAIN DeliverableMutations \subseteq DOMAIN Mutations
      /\ DOMAIN SlotMutations \subseteq DOMAIN Mutations
      /\ DOMAIN LectureMutations \subseteq DOMAIN Mutations
      /\ DOMAIN TopicMutations \subseteq DOMAIN Mutations
      /\ DOMAIN CourseMutations \subseteq DOMAIN Mutations
  BY <1>1 DEF Groups
<1>3. /\ TaskHooks \subseteq DOMAIN Mutations
      /\ {"createDeliverable", "updateDeliverable", "markSubmitted", "reopenDeliverable",
          "deleteDeliverable"} \subseteq DOMAIN Mutations
      /\ {"createTopic", "updateTopic", "markStudied", "deleteTopic"} \subseteq DOMAIN Mutations
  BY <1>2 DEF TaskMutations, DeliverableMutations, TopicMutations
<1>4. /\ {"createSlot", "updateSlot", "deleteSlot", "updateExam"} \subseteq DOMAIN Mutations
      /\ {"createLecture", "updateLecture", "toggleAttended", "deleteLecture"} \subseteq DOMAIN Mutations
      /\ {"updateCourse", "createCourse", "deleteCourse"} \subseteq DOMAIN Mutations
  BY <1>2 DEF SlotMutations, LectureMutations, CourseMutations
<1> QED  BY <1>3, <1>4 DEF HooksOfForms, TaskHooks

LEMMA SheetTabs ==
    /\ FormRow(TasksTab) /\ FormRow(DeliverablesTab) /\ FormRow(ScheduleTab)
    /\ FormRow(LecturesTab) /\ FormRow(StudyTab)
<1>1. FormRow(TasksTab)
  BY HooksAreMutations DEF FormRow, TasksTab, Tab, TaskForm, Form, Hooks, HooksOfForms
<1>2. FormRow(DeliverablesTab)
  BY HooksAreMutations DEF FormRow, DeliverablesTab, Tab, DeliverableForm, Form, Hooks, HooksOfForms
<1>3. FormRow(ScheduleTab)
  BY HooksAreMutations DEF FormRow, ScheduleTab, Bare, Tab, SlotForm, Form, Hooks, HooksOfForms
<1>4. FormRow(LecturesTab)
  BY HooksAreMutations DEF FormRow, LecturesTab, Tab, LectureForm, Form, Hooks, HooksOfForms
<1>5. FormRow(StudyTab)
  BY HooksAreMutations DEF FormRow, StudyTab, Tab, StudyTopicForm, Form, Hooks, HooksOfForms
<1> QED  BY <1>1, <1>2, <1>3, <1>4, <1>5

LEMMA OverviewForms ==
    /\ FormRow(CourseHeader) /\ FormRow(Bare(NewCourseForm))
    /\ FormRow(OverviewTab.notes) /\ FormRow(OverviewTab.exam)
<1>1. FormRow(CourseHeader)
  BY HooksAreMutations
     DEF FormRow, CourseHeader, Bare, Tab, CourseForm, Form, Hooks, HooksOfForms, AnyRow, Rows
<1>2. FormRow(Bare(NewCourseForm))
  <2> DEFINE half == [CourseForm EXCEPT !.rows = {"new"}]
  <2>1. /\ half.hooks = Hooks("createCourse", "updateCourse", "deleteCourse")
        /\ half.guards = {"create", "save", "delete"} /\ half.rows = {"new"}
        /\ NewCourseForm = [half EXCEPT !.seeds = "open"] /\ "seeds" \in DOMAIN half
    BY DEF CourseForm, Form, NewCourseForm
  <2> HIDE DEF half
  <2>2. /\ NewCourseForm.hooks = Hooks("createCourse", "updateCourse", "deleteCourse")
        /\ NewCourseForm.guards = {"create", "save", "delete"}
        /\ NewCourseForm.rows = {"new"} /\ NewCourseForm.seeds = "open"
    BY <2>1
  <2> QED  BY <2>2, HooksAreMutations DEF FormRow, Bare, Tab, Hooks, HooksOfForms, AnyRow, Rows
<1>3. FormRow(OverviewTab.notes)
  BY HooksAreMutations
     DEF FormRow, OverviewTab, Bare, Tab, CourseNotesForm, Form, Hooks, HooksOfForms, AnyRow, Rows
<1>4. FormRow(OverviewTab.exam)
  BY HooksAreMutations
     DEF FormRow, OverviewTab, Bare, Tab, ExamForm, Form, Hooks, HooksOfForms, AnyRow, Rows
<1> QED  BY <1>1, <1>2, <1>3, <1>4

LEMMA FormsAreRows == ASSUME FormIs  PROVE FormRow(form)
BY SheetTabs, OverviewForms DEF FormIs, Forms

-----------------------------------------------------------------------------
\* Values of a field, and the states of a sheet.
LEMMA ValuesAre ==
    /\ Blank \in Values /\ Fresh \in Values
    /\ \A v \in Nat : (class = "state" => v <= 3) => Val(v, 0) \in Values
    /\ \A x \in Values : Seed(x) \in Values /\ x.v \in Nat /\ (class = "state" => x.v <= 3)
    /\ Gone \notin Values /\ Keep \notin Values
<1>1. \A v \in Nat : (class = "state" => v <= 3) => Val(v, 0) \in Values
  BY DEF Values, Val
<1>2. Blank \in Values /\ Fresh \in Values
  BY <1>1 DEF Blank, Fresh, Default
<1>3. \A x \in Values : x.v \in Nat /\ (class = "state" => x.v <= 3) /\ x.k \in Nat
  BY DEF Values
<1>4. Gone \notin Values /\ Keep \notin Values
  <2>1. Gone.v = 0 - 1 /\ Keep.v = 0 - 2
    BY DEF Gone, Keep, Val
  <2> QED  BY <1>3, <2>1
<1>5. ASSUME NEW x \in Values  PROVE Seed(x) \in Values
  <2>1. \A k \in Nat : [x EXCEPT !.k = k] \in Values
    BY DEF Values
  <2>2. (IF x.k < 2 THEN x.k + 1 ELSE x.k) \in Nat
    BY <1>3
  <2>3. Seed(x) = x \/ Seed(x) = Default \/ \E k \in Nat : Seed(x) = [x EXCEPT !.k = k]
    BY <2>2 DEF Seed
  <2> QED  BY <1>1, <2>1, <2>3 DEF Default
<1> QED  BY <1>1, <1>2, <1>3, <1>4, <1>5

\* The seed of a value has its number, or is the default of a choice.
LEMMA SeedShows ==
    ASSUME NEW x \in Values
    PROVE  \/ Seed(x).v = x.v
           \/ class \in {"kind", "colour"} /\ x = Blank /\ Seed(x) = Default
<1>1. \A k \in Nat : [x EXCEPT !.k = k].v = x.v
  BY DEF Values
<1>2. (IF x.k < 2 THEN x.k + 1 ELSE x.k) \in Nat
  BY DEF Values
<1>3. \/ Seed(x) = x
      \/ \E k \in Nat : Seed(x) = [x EXCEPT !.k = k]
      \/ class \in {"kind", "colour"} /\ x = Blank /\ Seed(x) = Default
  BY <1>2 DEF Seed
<1>4. ASSUME NEW k \in Nat, Seed(x) = [x EXCEPT !.k = k]  PROVE Seed(x).v = x.v
  BY <1>1, <1>4
<1> QED  BY <1>3, <1>4

LEMMA EmptyFits ==
    ASSUME NEW opening \in Nat, NEW toast \in Rows \cup {"none"},
           toast # "none" => form.undo # "none"
    PROVE  Fits(Empty(opening, toast))
<1>1. Empty(opening, toast) \in SheetRow
  BY ValuesAre DEF SheetRow, Empty, AnyRow, Rows
<1>2. /\ Empty(opening, toast).open = FALSE /\ Empty(opening, toast).row = "a"
      /\ Empty(opening, toast).toast = toast /\ Empty(opening, toast).opening = opening
      /\ Empty(opening, toast).made = 0 /\ Empty(opening, toast).failed = 0
      /\ Empty(opening, toast).mine = {}
  BY DEF Empty
<1> QED  BY <1>1, <1>2 DEF Fits

LEMMA SeededIs ==
    ASSUME NEW s \in SheetRow, NEW r \in AnyRow, NEW value \in Values
    PROVE  /\ Seeded(s, r, value) \in SheetRow
           /\ Seeded(s, r, value).open = s.open /\ Seeded(s, r, value).row = r
           /\ Seeded(s, r, value).draft = Seed(Seeded(s, r, value).shown)
           /\ Seeded(s, r, value).typed = FALSE /\ Seeded(s, r, value).toast = s.toast
           /\ Seeded(s, r, value).opening = s.opening /\ Seeded(s, r, value).mine = s.mine
           /\ Seeded(s, r, value).made = s.made /\ Seeded(s, r, value).failed = s.failed
<1> DEFINE s1 == [s EXCEPT !.row = r]
           s2 == [s1 EXCEPT !.shown = value]
           s3 == [s2 EXCEPT !.draft = Seed(value)]
           s4 == [s3 EXCEPT !.typed = FALSE]
<1>1. Seeded(s, r, value) = s4
  BY DEF Seeded
<1>2. /\ s1 \in SheetRow /\ s1.row = r /\ s1.open = s.open /\ s1.toast = s.toast
      /\ s1.opening = s.opening /\ s1.mine = s.mine /\ s1.made = s.made /\ s1.failed = s.failed
  BY DEF SheetRow
<1> HIDE DEF s1
<1>3. /\ s2 \in SheetRow /\ s2.row = r /\ s2.shown = value /\ s2.open = s.open /\ s2.toast = s.toast
      /\ s2.opening = s.opening /\ s2.mine = s.mine /\ s2.made = s.made /\ s2.failed = s.failed
  BY <1>2 DEF SheetRow
<1> HIDE DEF s2
<1>4. Seed(value) \in Values
  BY ValuesAre
<1>5. /\ s3 \in SheetRow /\ s3.row = r /\ s3.shown = value /\ s3.draft = Seed(value)
      /\ s3.open = s.open /\ s3.toast = s.toast
      /\ s3.opening = s.opening /\ s3.mine = s.mine /\ s3.made = s.made /\ s3.failed = s.failed
  BY <1>3, <1>4 DEF SheetRow
<1> HIDE DEF s3
<1>6. /\ s4 \in SheetRow /\ s4.row = r /\ s4.shown = value /\ s4.draft = Seed(value)
      /\ s4.typed = FALSE /\ s4.open = s.open /\ s4.toast = s.toast
      /\ s4.opening = s.opening /\ s4.mine = s.mine /\ s4.made = s.made /\ s4.failed = s.failed
  BY <1>5 DEF SheetRow
<1> HIDE DEF s4
<1> QED  BY <1>1, <1>6

LEMMA ReseededIs ==
    ASSUME NEW s \in SheetRow, NEW r \in AnyRow, NEW value \in Values, NEW t, t = Seeded(s, r, value)
    PROVE  /\ t \in SheetRow /\ t.open = s.open /\ t.row = r /\ t.draft = Seed(t.shown)
           /\ t.toast = s.toast /\ t.opening = s.opening /\ t.mine = s.mine
           /\ t.made = s.made /\ t.failed = s.failed
BY SeededIs

LEMMA MineIs ==
    ASSUME NEW s, Fits(s), NEW mine \in SUBSET Calls
    PROVE  /\ Fits([s EXCEPT !.mine = mine]) /\ [s EXCEPT !.mine = mine].mine = mine
           /\ \A x \in {"open", "row", "shown", "draft", "typed", "made", "failed", "opening", "toast"} :
                [s EXCEPT !.mine = mine][x] = s[x]
<1> DEFINE t == [s EXCEPT !.mine = mine]
<1>1. t \in SheetRow /\ t.mine = mine
  BY DEF Fits, SheetRow
<1>2. /\ t.open = s.open /\ t.row = s.row /\ t.shown = s.shown /\ t.draft = s.draft
      /\ t.typed = s.typed /\ t.made = s.made /\ t.failed = s.failed
      /\ t.opening = s.opening /\ t.toast = s.toast
  BY DEF Fits, SheetRow
<1> HIDE DEF t
<1>3. Fits(t)
  BY <1>1, <1>2 DEF Fits
<1> QED  BY <1>1, <1>2, <1>3 DEF t

LEMMA ToastIs ==
    ASSUME NEW s, Fits(s), NEW toast \in Rows \cup {"none"}, toast # "none" => form.undo # "none"
    PROVE  /\ Fits([s EXCEPT !.toast = toast])
           /\ \A x \in {"open", "row", "shown", "draft", "typed", "made", "failed", "opening", "mine"} :
                [s EXCEPT !.toast = toast][x] = s[x]
<1> DEFINE t == [s EXCEPT !.toast = toast]
<1>1. t \in SheetRow /\ t.toast = toast
  BY DEF Fits, SheetRow
<1>2. /\ t.open = s.open /\ t.row = s.row /\ t.shown = s.shown /\ t.draft = s.draft
      /\ t.typed = s.typed /\ t.made = s.made /\ t.failed = s.failed
      /\ t.opening = s.opening /\ t.mine = s.mine
  BY DEF Fits, SheetRow
<1> HIDE DEF t
<1>3. Fits(t)
  BY <1>1, <1>2 DEF Fits
<1> QED  BY <1>1, <1>2, <1>3 DEF t

LEMMA CountIs ==
    ASSUME NEW s, Fits(s), NEW n \in Nat
    PROVE  /\ Fits([s EXCEPT !.made = n]) /\ [s EXCEPT !.made = n].made = n
           /\ Fits([s EXCEPT !.failed = n]) /\ [s EXCEPT !.failed = n].failed = n
           /\ \A x \in {"open", "row", "shown", "draft", "typed", "opening", "mine", "toast"} :
                /\ [s EXCEPT !.made = n][x] = s[x]
                /\ [s EXCEPT !.failed = n][x] = s[x]
           /\ [s EXCEPT !.made = n].failed = s.failed /\ [s EXCEPT !.failed = n].made = s.made
<1> DEFINE t == [s EXCEPT !.made = n]
           u == [s EXCEPT !.failed = n]
<1>1. t \in SheetRow /\ t.made = n /\ t.failed = s.failed
  BY DEF Fits, SheetRow
<1>2. /\ t.open = s.open /\ t.row = s.row /\ t.shown = s.shown /\ t.draft = s.draft
      /\ t.typed = s.typed /\ t.opening = s.opening /\ t.toast = s.toast /\ t.mine = s.mine
  BY DEF Fits, SheetRow
<1>3. u \in SheetRow /\ u.failed = n /\ u.made = s.made
  BY DEF Fits, SheetRow
<1>4. /\ u.open = s.open /\ u.row = s.row /\ u.shown = s.shown /\ u.draft = s.draft
      /\ u.typed = s.typed /\ u.opening = s.opening /\ u.toast = s.toast /\ u.mine = s.mine
  BY DEF Fits, SheetRow
<1> HIDE DEF t, u
<1>5. Fits(t) /\ Fits(u)
  BY <1>1, <1>2, <1>3, <1>4 DEF Fits
<1> QED  BY <1>1, <1>2, <1>3, <1>4, <1>5 DEF t, u

\* A sheet closes, and forgets its counts with its draft.
LEMMA ShutFits ==
    ASSUME NEW s, Fits(s)
    PROVE  /\ Fits(Shut(s)) /\ Shut(s).open = FALSE /\ Shut(s).mine = s.mine
           /\ Shut(s).opening = s.opening
           /\ IF form.seeds = "once" THEN Shut(s).made = s.made /\ Shut(s).failed = s.failed
              ELSE Shut(s).made = 0 /\ Shut(s).failed = 0
<1>1. CASE form.seeds = "once"
  <2> DEFINE t == [s EXCEPT !.open = FALSE]
  <2>1. t \in SheetRow /\ t.open = FALSE
    BY DEF Fits, SheetRow
  <2>2. /\ t.row = s.row /\ t.toast = s.toast /\ t.made = s.made /\ t.failed = s.failed
        /\ t.opening = s.opening /\ t.mine = s.mine
    BY DEF Fits, SheetRow
  <2> HIDE DEF t
  <2>3. Fits(t)
    BY <2>1, <2>2 DEF Fits
  <2>4. Shut(s) = t
    BY <1>1 DEF Shut, t
  <2> QED  BY <1>1, <2>1, <2>2, <2>3, <2>4
<1>2. CASE form.seeds # "once"
  <2> DEFINE e == Empty(s.opening, s.toast)
  <2>1. Shut(s) = [e EXCEPT !.mine = s.mine]
    BY <1>2 DEF Shut
  <2>2. /\ s.opening \in Nat /\ s.toast \in Rows \cup {"none"} /\ s.mine \in SUBSET Calls
        /\ (s.toast # "none" => form.undo # "none")
    BY DEF Fits, SheetRow
  <2>3. Fits(e) /\ e.open = FALSE /\ e.made = 0 /\ e.failed = 0 /\ e.opening = s.opening
    <3>1. e.open = FALSE /\ e.made = 0 /\ e.failed = 0 /\ e.opening = s.opening
      BY DEF Empty
    <3>2. Fits(e)
      BY <2>2, EmptyFits
    <3> QED  BY <3>1, <3>2
  <2> HIDE DEF e
  <2> QED  BY <1>2, <2>1, <2>2, <2>3, MineIs
<1> QED  BY <1>1, <1>2

-----------------------------------------------------------------------------
\* A step, from what it does to each part.
LEMMA FitsNext ==
    ASSUME form' = form, class' = class, Fits(sheet')  PROVE Fits(sheet)'
<1>1. SheetRow' = SheetRow
  BY DEF SheetRow, Values
<1>2. Seed(sheet.shown)' = Seed(sheet'.shown)
  BY DEF Seed
<1> QED  BY <1>1, <1>2 DEF Fits

LEMMA JobNext ==
    ASSUME form' = form, class' = class, NEW c \in Calls,
           GoodJob(calls'[c].job, sheet'.opening)
    PROVE  GoodJob(calls[c].job, sheet.opening)'
<1>1. Values' = Values /\ RowValues' = RowValues
  BY DEF Values, RowValues
<1>2. Seed(calls[c].job.shown)' = Seed(calls'[c].job.shown)
  BY DEF Seed
<1> QED  BY <1>1, <1>2 DEF GoodJob

LEMMA SheetTurns ==
    ASSUME SheetInv, form' = form, class' = class, query' = query,
           \A n \in 1..Now' : server'[n] \in Versions,
           \A c \in Calls : calls'[c] # NoCall => GoodJob(calls'[c].job, sheet'.opening),
           Fits(sheet'), sheet'.open => Page', \A c \in sheet'.mine : calls'[c] # NoCall,
           Counted'
    PROVE  SheetInv'
<1>1. FormIs'
  BY DEF SheetInv, FormIs
<1>2. VersionsInv'
  <2>1. Versions' = Versions
    BY DEF Versions, RowValues, Values
  <2> QED  BY <2>1 DEF VersionsInv
<1>3. JobsInv'
  BY JobNext DEF JobsInv
<1>4. SheetFits'
  BY FitsNext DEF SheetFits
<1> QED  BY <1>1, <1>2, <1>3, <1>4 DEF SheetInv

\* The jobs of earlier openings.
LEMMA JobsStay ==
    ASSUME JobsInv, sheet.opening \in Nat, NEW opening \in Nat, sheet.opening <= opening
    PROVE  \A c \in Calls : calls[c] # NoCall => GoodJob(calls[c].job, opening)
<1>1. 0..sheet.opening \subseteq 0..opening
  OBVIOUS
<1> QED  BY <1>1 DEF JobsInv, GoodJob

\* A step of the page alone.
LEMMA PageTurns ==
    ASSUME SheetInv, form' = form, class' = class, UNCHANGED <<query, server, calls>>,
           Fits(sheet'), sheet'.open => Page', sheet.opening <= sheet'.opening,
           \/ sheet'.mine = sheet.mine /\ sheet'.made = 0
           \/ sheet'.mine = {} /\ sheet'.made = 0
           \/ /\ sheet'.mine = sheet.mine /\ sheet'.made = sheet.made
              /\ sheet'.failed = sheet.failed /\ sheet'.opening = sheet.opening
    PROVE  SheetInv'
<1>1. Now' = Now /\ \A n \in 1..Now' : server'[n] \in Versions
  BY DEF Now, SheetInv, VersionsInv
<1>2. sheet.opening \in Nat /\ sheet'.opening \in Nat /\ sheet'.failed \in Nat
  BY DEF SheetInv, SheetFits, Fits, SheetRow
<1>3. \A c \in Calls : calls'[c] # NoCall => GoodJob(calls'[c].job, sheet'.opening)
  BY <1>2, JobsStay DEF SheetInv
<1>4. \A c \in sheet'.mine : calls'[c] # NoCall
  BY DEF SheetInv, SheetFits
<1>5. \A c \in Calls : Creating(c)' <=> Creating(c)
  BY DEF Creating
<1>6. sheet'.mine \subseteq Calls /\ sheet.mine \subseteq Calls
  BY DEF SheetInv, SheetFits, Fits, SheetRow
<1>7. Counted'
  <2>1. \A c, d \in sheet'.mine : Creating(c)' /\ Creating(d)' => c = d
    BY <1>5, <1>6 DEF SheetInv, Counted
  <2>2. CASE sheet'.made = 0
    BY <1>2, <2>1, <2>2 DEF Counted
  <2>3. CASE /\ sheet'.mine = sheet.mine /\ sheet'.made = sheet.made
             /\ sheet'.failed = sheet.failed /\ sheet'.opening = sheet.opening
    BY <1>5, <1>6, <2>1, <2>3 DEF SheetInv, Counted
  <2> QED  BY <2>2, <2>3
<1> QED  BY <1>1, <1>3, <1>4, <1>7, SheetTurns

\* What the page shows is a row of a version.
LEMMA RowsAre ==
    ASSUME VersionsInv, NEW n \in 1..Now, NEW r \in Rows
    PROVE  server[n].rows[r] \in RowValues
BY DEF VersionsInv, Versions

LEMMA LiveRows ==
    ASSUME CacheInv, VersionsInv, Page, NEW r \in DOMAIN Live
    PROVE  r \in Rows /\ Row(r) \in Values /\ Row(r) # Gone
<1>1. r \in Rows /\ Row(r) # Gone
  BY DEF Live
<1>2. entry.data \in 1..Now
  BY CacheOf DEF Page, Displays, EntryRow
<1>3. Row(r) \in RowValues
  BY <1>1, <1>2, RowsAre DEF Row
<1> QED  BY <1>1, <1>3 DEF RowValues

-----------------------------------------------------------------------------
\* The user opens, edits and closes a sheet.
LEMMA SheetIs ==
    ASSUME SheetInv
    PROVE  /\ Fits(sheet) /\ sheet \in SheetRow /\ FormRow(form)
           /\ sheet.opening \in Nat /\ sheet.made \in Nat /\ sheet.failed \in Nat
           /\ sheet.mine \subseteq Calls /\ sheet.toast \in Rows \cup {"none"}
           /\ (sheet.toast # "none" => form.undo # "none")
           /\ VersionsInv /\ query = "dashboard"
<1>1. FormRow(form)
  BY FormsAreRows DEF SheetInv
<1> QED  BY <1>1 DEF SheetInv, SheetFits, Fits, SheetRow, FormIs

LEMMA OpensIs ==
    ASSUME CacheInv, SheetInv, Page, NEW r \in form.rows, r \in DOMAIN Live \/ r = "new"
    PROVE  /\ Opens(r) \in SheetRow /\ Opens(r).row = r
           /\ Opens(r).mine = sheet.mine /\ Opens(r).opening = sheet.opening
           /\ Opens(r).toast = sheet.toast
           /\ form.seeds # "once" => Opens(r).draft = Seed(Opens(r).shown)
<1>1. CASE form.seeds = "once"
  <2>1. r = "a" /\ sheet.row = "a"
    BY <1>1, SheetIs DEF FormRow, Fits
  <2> QED  BY <1>1, <2>1, SheetIs DEF Opens
<1>2. CASE form.seeds # "once"
  <2>1. PICK value \in Values : Opens(r) = Seeded(sheet, r, value)
    <3>1. CASE r = "new"
      BY <1>2, <3>1, ValuesAre DEF Opens
    <3>2. CASE r # "new"
      BY <1>2, <3>2, LiveRows, SheetIs DEF Opens
    <3> QED  BY <3>1, <3>2
  <2>2. r \in AnyRow
    BY SheetIs DEF FormRow
  <2>3. /\ Seeded(sheet, r, value) \in SheetRow /\ Seeded(sheet, r, value).row = r
        /\ Seeded(sheet, r, value).draft = Seed(Seeded(sheet, r, value).shown)
        /\ Seeded(sheet, r, value).toast = sheet.toast
        /\ Seeded(sheet, r, value).opening = sheet.opening
        /\ Seeded(sheet, r, value).mine = sheet.mine
    BY <2>2, SheetIs, SeededIs, Zenon
  <2> QED  BY <2>1, <2>3
<1> QED  BY <1>1, <1>2

LEMMA OpenSheetKeeps ==
    ASSUME CacheInv, SheetInv, OpenSheet, UNCHANGED <<form, class>>  PROVE SheetInv'
<1>1. PICK r \in form.rows \cap (DOMAIN Live \cup {"new"}) :
        sheet' = [Opens(r) EXCEPT !.open = TRUE, !.opening = @ + 1, !.made = 0, !.failed = 0]
  BY DEF OpenSheet
<1>2. Page /\ UNCHANGED cacheVars
  BY DEF OpenSheet
<1> DEFINE s == Opens(r)
           s1 == [s EXCEPT !.open = TRUE]
           s2 == [s1 EXCEPT !.opening = s.opening + 1]
           s3 == [s2 EXCEPT !.made = 0]
           s4 == [s3 EXCEPT !.failed = 0]
<1>3. sheet' = s4
  BY <1>1
<1>4. /\ s \in SheetRow /\ s.row = r /\ s.mine = sheet.mine /\ s.opening = sheet.opening
      /\ s.toast = sheet.toast /\ (form.seeds # "once" => s.draft = Seed(s.shown))
  BY <1>1, <1>2, OpensIs
<1> HIDE DEF s
<1>5. /\ s1 \in SheetRow /\ s1.row = r /\ s1.mine = sheet.mine /\ s1.opening = sheet.opening
      /\ s1.toast = sheet.toast /\ s1.draft = s.draft /\ s1.shown = s.shown
  BY <1>4 DEF SheetRow
<1> HIDE DEF s1
<1>6. /\ s2 \in SheetRow /\ s2.row = r /\ s2.mine = sheet.mine /\ s2.opening = sheet.opening + 1
      /\ s2.toast = sheet.toast /\ s2.draft = s.draft /\ s2.shown = s.shown
  BY <1>4, <1>5, SheetIs DEF SheetRow
<1> HIDE DEF s2
<1>7. /\ s3 \in SheetRow /\ s3.row = r /\ s3.mine = sheet.mine /\ s3.opening = sheet.opening + 1
      /\ s3.toast = sheet.toast /\ s3.draft = s.draft /\ s3.shown = s.shown /\ s3.made = 0
  BY <1>6 DEF SheetRow
<1> HIDE DEF s3
<1>8. /\ s4 \in SheetRow /\ s4.row = r /\ s4.mine = sheet.mine /\ s4.opening = sheet.opening + 1
      /\ s4.toast = sheet.toast /\ s4.draft = s.draft /\ s4.shown = s.shown /\ s4.made = 0
  BY <1>7 DEF SheetRow
<1> HIDE DEF s4
<1>9. Fits(s4)
  BY <1>1, <1>4, <1>8, SheetIs DEF Fits, FormRow
<1>10. Page' <=> Page
  BY <1>2 DEF cacheVars, Page, Displays
<1>11. /\ UNCHANGED <<query, server, calls>> /\ form' = form /\ class' = class
       /\ sheet.opening <= sheet'.opening
  BY <1>2, <1>3, <1>8, SheetIs DEF cacheVars
<1> QED  BY <1>2, <1>3, <1>8, <1>9, <1>10, <1>11, PageTurns

LEMMA CloseSheetKeeps ==
    ASSUME CacheInv, SheetInv, CloseSheet, UNCHANGED <<form, class>>  PROVE SheetInv'
<1>1. sheet' = Shut(sheet) /\ UNCHANGED <<query, server, calls>> /\ form' = form /\ class' = class
  BY DEF CloseSheet, cacheVars
<1>2. /\ Fits(sheet') /\ sheet'.open = FALSE /\ sheet'.mine = sheet.mine
      /\ sheet'.opening = sheet.opening
      /\ IF form.seeds = "once" THEN sheet'.made = sheet.made /\ sheet'.failed = sheet.failed
         ELSE sheet'.made = 0 /\ sheet'.failed = 0
  BY <1>1, SheetIs, ShutFits
<1>3. sheet.opening <= sheet'.opening
  BY <1>2, SheetIs
<1> QED  BY <1>1, <1>2, <1>3, PageTurns

LEMMA TypeKeeps ==
    ASSUME CacheInv, SheetInv, Type, UNCHANGED <<form, class>>  PROVE SheetInv'
<1>1. PICK v \in IF class = "state" THEN {3 - sheet.draft.v} ELSE {0, 4} :
        sheet' = [sheet EXCEPT !.draft = Val(v, 0), !.typed = TRUE]
  BY DEF Type
<1>2. /\ sheet.open /\ UNCHANGED <<query, server, calls>> /\ form' = form /\ class' = class
      /\ UNCHANGED <<entry, mounted>>
  BY DEF Type, cacheVars
<1>3. Val(v, 0) \in Values
  <2>1. sheet.draft \in Values
    BY SheetIs DEF SheetRow
  <2>2. v \in Nat /\ (class = "state" => v <= 3)
    BY <1>1, <2>1, ValuesAre
  <2> QED  BY <2>2, ValuesAre
<1> DEFINE s1 == [sheet EXCEPT !.draft = Val(v, 0)]
           s2 == [s1 EXCEPT !.typed = TRUE]
<1>4. sheet' = s2
  BY <1>1
<1>5. /\ s1 \in SheetRow /\ s1.row = sheet.row /\ s1.mine = sheet.mine
      /\ s1.opening = sheet.opening /\ s1.made = sheet.made /\ s1.failed = sheet.failed
      /\ s1.toast = sheet.toast /\ s1.open = sheet.open
  BY <1>3, SheetIs DEF SheetRow
<1> HIDE DEF s1
<1>6. /\ s2 \in SheetRow /\ s2.row = sheet.row /\ s2.mine = sheet.mine
      /\ s2.opening = sheet.opening /\ s2.made = sheet.made /\ s2.failed = sheet.failed
      /\ s2.toast = sheet.toast /\ s2.open = sheet.open /\ s2.typed = TRUE
  BY <1>5 DEF SheetRow
<1> HIDE DEF s2
<1>7. Fits(sheet')
  BY <1>4, <1>6, SheetIs DEF Fits
<1>8. Page'
  <2>1. Page
    BY <1>2 DEF SheetInv, SheetFits
  <2> QED  BY <1>2, <2>1 DEF Page, Displays
<1>9. sheet.opening <= sheet'.opening
  BY <1>4, <1>6, SheetIs
<1> QED  BY <1>2, <1>4, <1>6, <1>7, <1>8, <1>9, PageTurns

\* The cached data change under the sheet.
LEMMA ViewKeeps ==
    ASSUME CacheInv, CacheInv', SheetInv, View, UNCHANGED <<form, class>>  PROVE SheetInv'
<1>1. /\ UNCHANGED <<query, server, calls>> /\ form' = form /\ class' = class
      /\ sheet' = AfterView(entry', mounted')
  BY DEF View, Mount, Unmount, Answer, Fill, FetchFails
<1>2. Page' <=> Displays(entry', mounted')
  BY <1>1 DEF Page, Displays
<1>3. Displays(entry', mounted') => entry'.data \in 1..Now
  BY <1>1, CacheOf DEF CacheInv, CacheTypes, EntryRow, Displays, Now
<1> DEFINE new == server[entry'.data].rows[sheet.row]
           Same == /\ sheet'.mine = sheet.mine /\ sheet'.made = sheet.made
                   /\ sheet'.failed = sheet.failed /\ sheet'.opening = sheet.opening
<1>4. CASE ~Displays(entry', mounted')
  <2>1. sheet' = Empty(sheet.opening, sheet.toast)
    BY <1>1, <1>4 DEF AfterView
  <2>2. sheet'.open = FALSE /\ sheet'.mine = {} /\ sheet'.made = 0 /\ sheet'.opening = sheet.opening
    BY <2>1 DEF Empty
  <2>3. Fits(sheet')
    BY <2>1, EmptyFits, SheetIs
  <2>4. sheet.opening <= sheet'.opening
    BY <2>2, SheetIs
  <2> QED  BY <1>1, <2>2, <2>3, <2>4, PageTurns
<1>5. CASE Displays(entry', mounted') /\ ~Page /\ form.seeds = "once"
  <2>1. sheet' = Seeded(sheet, "a", server[entry'.data].rows["a"])
    BY <1>1, <1>5 DEF AfterView
  <2>2. server[entry'.data].rows["a"] \in Values
    BY <1>3, <1>5, RowsAre, SheetIs DEF RowValues, Rows
  <2>3. ~sheet.open
    BY <1>5 DEF SheetInv, SheetFits
  <2>4. sheet' \in SheetRow /\ sheet'.row = "a" /\ sheet'.open = sheet.open /\ sheet'.toast = sheet.toast /\ Same
    <3>1. sheet \in SheetRow /\ "a" \in AnyRow
      BY SheetIs DEF AnyRow, Rows
    <3> QED  BY <2>1, <2>2, <3>1, ReseededIs
  <2>5. Fits(sheet') /\ sheet.opening <= sheet'.opening
    BY <2>3, <2>4, SheetIs DEF Fits
  <2> QED  BY <1>1, <2>3, <2>4, <2>5, PageTurns
<1>6. CASE Displays(entry', mounted') /\ Page /\ sheet.row # "new" /\ Reseeds(Row(sheet.row), new)
  <2>1. sheet' = Seeded(sheet, sheet.row, new)
    BY <1>1, <1>6 DEF AfterView
  <2>2. form.seeds = "live" /\ sheet.open
    BY <1>6 DEF Reseeds
  <2>3. sheet.row = "a"
    BY <2>2, SheetIs DEF Fits, FormRow
  <2>4. new \in Values
    <3>1. new \in RowValues
      BY <1>3, <1>6, <2>3, RowsAre, SheetIs DEF Rows
    <3>2. new # Gone
      BY <1>6, <2>2, <2>3 DEF Displays
    <3> QED  BY <3>1, <3>2 DEF RowValues
  <2>5. /\ sheet' \in SheetRow /\ sheet'.row = "a" /\ sheet'.open = sheet.open
        /\ sheet'.toast = sheet.toast /\ Same /\ sheet'.draft = Seed(sheet'.shown)
    <3>1. sheet \in SheetRow /\ "a" \in AnyRow
      BY SheetIs DEF AnyRow, Rows
    <3> QED  BY <2>1, <2>3, <2>4, <3>1, ReseededIs
  <2>6. Fits(sheet') /\ sheet.opening <= sheet'.opening
    BY <2>3, <2>5, SheetIs DEF Fits
  <2> QED  BY <1>1, <1>2, <1>6, <2>5, <2>6, PageTurns
<1>7. CASE /\ Displays(entry', mounted')
           /\ IF Page THEN sheet.row = "new" \/ ~Reseeds(Row(sheet.row), new) ELSE form.seeds # "once"
  <2>1. sheet' = sheet
    BY <1>1, <1>7 DEF AfterView
  <2>2. Fits(sheet') /\ Same /\ sheet.opening <= sheet'.opening
    BY <2>1, SheetIs
  <2> QED  BY <1>1, <1>2, <1>7, <2>2, PageTurns
<1> QED  BY <1>4, <1>5, <1>6, <1>7

-----------------------------------------------------------------------------
\* Requests.
LEMMA InFlight ==
    ASSUME CacheInv, NEW c \in Calls
    PROVE  /\ (calls[c] # NoCall) = (calls[c].state # "none")
           /\ calls[c] # NoCall => calls[c].state \in {"sent", "applied"}
BY DEF CacheInv, GoodCacheCalls, GoodCacheCall, NoCall

LEMMA RequestTurns ==
    ASSUME CacheInv, SheetInv, form' = form, class' = class, UNCHANGED <<query, server, entry, mounted>>,
           NEW c \in Calls, NEW call, calls[c].state = "none",
           calls' = [calls EXCEPT ![c] = call], call # NoCall, call.state = "sent",
           GoodJob(call.job, sheet.opening), Fits(sheet'),
           sheet'.open = sheet.open, sheet'.made = sheet.made, sheet'.failed = sheet.failed,
           sheet'.opening = sheet.opening, sheet'.mine \in {sheet.mine, sheet.mine \cup {c}},
           call.job.kind = "create" => \A d \in sheet.mine : ~Creating(d)
    PROVE  SheetInv'
<1>1. Now' = Now /\ \A n \in 1..Now' : server'[n] \in Versions
  BY DEF Now, SheetInv, VersionsInv
<1>2. DOMAIN calls = Calls /\ calls'[c] = call /\ \A d \in Calls : d # c => calls'[d] = calls[d]
  BY DEF CacheInv, GoodCacheCalls
<1>3. \A d \in Calls : calls'[d] # NoCall => GoodJob(calls'[d].job, sheet'.opening)
  BY <1>2 DEF SheetInv, JobsInv
<1>4. sheet'.open => Page'
  BY DEF Page, Displays, SheetInv, SheetFits
<1>5. c \notin sheet.mine /\ sheet.mine \subseteq Calls
  BY InFlight, SheetIs DEF SheetInv, SheetFits
<1>6. \A d \in sheet'.mine : calls'[d] # NoCall
  BY <1>2, <1>5 DEF SheetInv, SheetFits
<1>7. \A d \in sheet.mine : Creating(d)' <=> Creating(d)
  BY <1>2, <1>5 DEF Creating
<1>8. Creating(c)' => call.job.kind = "create"
  BY <1>2 DEF Creating
<1>9. Counted'
  <2>1. \A d, e \in sheet'.mine : Creating(d)' /\ Creating(e)' => d = e
    BY <1>5, <1>7, <1>8 DEF SheetInv, Counted
  <2>2. \/ sheet'.made <= sheet'.failed
        \/ /\ sheet'.made <= sheet'.failed + 1
           /\ \E d \in sheet'.mine : /\ Creating(d)' /\ calls'[d].state = "applied"
                                     /\ calls'[d].job.opening = sheet'.opening
    BY <1>2, <1>5, <1>7 DEF SheetInv, Counted
  <2> QED  BY <2>1, <2>2 DEF Counted
<1> QED  BY <1>1, <1>3, <1>4, <1>6, <1>9, SheetTurns

LEMMA PendingCreates ==
    ASSUME CacheInv, SheetInv, "create" \in form.guards, ~Pending(form.guards)
    PROVE  \A d \in sheet.mine : ~Creating(d)
BY InFlight, SheetIs DEF Pending, Creating

\* What Send leaves in the slot of the call.
Posted(m, job) == [state |-> "sent", rev |-> 0, effect |-> EffectOn(m, query), job |-> job]

LEMMA SendIs ==
    ASSUME NEW c \in Calls, NEW m, NEW job, Send(c, m, job)
    PROVE  /\ calls[c].state = "none" /\ calls' = [calls EXCEPT ![c] = Posted(m, job)]
           /\ Posted(m, job) # NoCall /\ Posted(m, job).state = "sent" /\ Posted(m, job).job = job
BY DEF Send, Posted, NoCall

LEMMA JobIs ==
    ASSUME SheetInv, NEW row \in AnyRow, NEW value \in RowValues \cup {Keep},
           NEW kind \in {"create", "save", "delete", "press", "undo"},
           IF kind = "create" THEN "new" \in form.rows ELSE row \in Rows,
           kind = "save" /\ form.seeds # "once" /\ ~sheet.typed /\ value # Keep
             => value = Seed(sheet.shown)
    PROVE  GoodJob(Job(kind, row, value), sheet.opening) /\ Job(kind, row, value).kind = kind
<1>1. sheet.typed \in BOOLEAN /\ sheet.shown \in Values /\ sheet.opening \in 0..sheet.opening
  BY SheetIs DEF SheetRow
<1> QED  BY <1>1 DEF GoodJob, Job

LEMMA RequestKeeps ==
    ASSUME CacheInv, SheetInv, UNCHANGED <<form, class>>,
           NEW c \in Calls, NEW hook, NEW row \in AnyRow, NEW value \in RowValues \cup {Keep},
           NEW kind \in {"create", "save", "delete", "press", "undo"},
           IF kind = "create" THEN "new" \in form.rows ELSE row \in Rows,
           kind = "save" /\ form.seeds # "once" /\ ~sheet.typed /\ value # Keep
             => value = Seed(sheet.shown),
           kind = "create" => \A d \in sheet.mine : ~Creating(d),
           Request(c, hook, kind, row, value)
    PROVE  SheetInv'
<1> DEFINE job == Job(kind, row, value)
<1>1. GoodJob(job, sheet.opening) /\ job.kind = kind
  BY JobIs
<1>2. /\ Send(c, hook, job) /\ sheet' = [sheet EXCEPT !.mine = sheet.mine \cup {c}]
      /\ UNCHANGED <<query, server, entry, mounted>>
  BY DEF Request
<1> HIDE DEF job
<1>3. /\ calls[c].state = "none" /\ calls' = [calls EXCEPT ![c] = Posted(hook, job)]
      /\ Posted(hook, job) # NoCall /\ Posted(hook, job).state = "sent" /\ Posted(hook, job).job = job
  BY <1>2, SendIs
<1>4. sheet.mine \cup {c} \in SUBSET Calls /\ Fits(sheet)
  BY SheetIs
<1>5. /\ Fits(sheet') /\ sheet'.mine = sheet.mine \cup {c} /\ sheet'.open = sheet.open
      /\ sheet'.made = sheet.made /\ sheet'.failed = sheet.failed /\ sheet'.opening = sheet.opening
  BY <1>2, <1>4, MineIs
<1>6. form' = form /\ class' = class
  OBVIOUS
<1> QED  BY <1>1, <1>2, <1>3, <1>5, <1>6, RequestTurns

LEMMA SubmitKeeps ==
    ASSUME CacheInv, SheetInv, UNCHANGED <<form, class>>, NEW c \in Calls, Submit(c)
    PROVE  SheetInv'
<1>1. sheet.open /\ ~Pending(form.guards) /\ sheet.row \in form.rows /\ sheet.row \in AnyRow
  BY SheetIs DEF Submit, SubmitEnabled, Fits, SheetRow
<1>2. /\ Sent(sheet.draft) \in RowValues \cup {Keep}
      /\ ~sheet.typed /\ form.seeds # "once" /\ Sent(sheet.draft) # Keep
           => Sent(sheet.draft) = Seed(sheet.shown)
  BY <1>1, SheetIs DEF Sent, Fits, SheetRow, RowValues
<1>3. CASE sheet.row = "new"
  <2>1. "new" \in form.rows /\ "new" \in AnyRow /\ \A d \in sheet.mine : ~Creating(d)
    BY <1>1, <1>3, PendingCreates, SheetIs DEF FormRow
  <2>2. Request(c, form.hooks.create, "create", "new", Sent(sheet.draft))
    BY <1>3 DEF Submit
  <2> QED  BY <1>2, <2>1, <2>2, RequestKeeps
<1>4. CASE sheet.row # "new"
  <2>1. Request(c, form.hooks.save, "save", sheet.row, Sent(sheet.draft))
    BY <1>4 DEF Submit
  <2>2. sheet.row \in Rows
    BY <1>1, <1>4 DEF AnyRow
  <2> QED  BY <1>1, <1>2, <2>1, <2>2, RequestKeeps
<1> QED  BY <1>3, <1>4

LEMMA DeleteKeeps ==
    ASSUME CacheInv, SheetInv, UNCHANGED <<form, class>>, NEW c \in Calls, Delete(c)
    PROVE  SheetInv'
<1>1. PICK r \in Rows : Request(c, form.hooks.delete, "delete", r, Gone)
  BY DEF Delete
<1>2. Gone \in RowValues \cup {Keep} /\ r \in AnyRow
  BY DEF Delete, RowValues, AnyRow
<1> QED  BY <1>1, <1>2, RequestKeeps

LEMMA PressRowKeeps ==
    ASSUME CacheInv, SheetInv, UNCHANGED <<form, class>>, NEW c \in Calls, PressRow(c)
    PROVE  SheetInv'
<1>1. PICK r \in DOMAIN Live :
        Request(c, form.buttons[Row(r).v], "press", r, Val(3 - Row(r).v, 0))
  BY DEF PressRow
<1>2. r \in Rows /\ Row(r) \in Values
  BY SheetIs, LiveRows DEF PressRow
<1>3. Val(3 - Row(r).v, 0) \in RowValues \cup {Keep} /\ r \in AnyRow
  <2>1. Row(r).v \in Nat /\ Row(r).v <= 3
    BY <1>2, ValuesAre DEF PressRow
  <2>2. 3 - Row(r).v \in Nat /\ 3 - Row(r).v <= 3
    BY <2>1
  <2> QED  BY <1>2, <2>2, ValuesAre DEF RowValues, AnyRow
<1> QED  BY <1>1, <1>2, <1>3, RequestKeeps

LEMMA UndoKeeps ==
    ASSUME CacheInv, SheetInv, UNCHANGED <<form, class>>, NEW c \in Calls, Undo(c)
    PROVE  SheetInv'
<1> DEFINE job == Job("undo", sheet.toast, Val(1, 0))
<1>1. sheet.toast \in Rows /\ sheet.toast \in AnyRow
  BY SheetIs DEF Undo, AnyRow
<1>2. Val(1, 0) \in RowValues \cup {Keep}
  BY ValuesAre DEF RowValues
<1>3. GoodJob(job, sheet.opening) /\ job.kind = "undo"
  BY <1>1, <1>2, JobIs
<1>4. /\ Send(c, form.undo, job) /\ sheet' = [sheet EXCEPT !.toast = "none"]
      /\ UNCHANGED <<query, server, entry, mounted>>
  BY DEF Undo
<1> HIDE DEF job
<1>5. /\ calls[c].state = "none" /\ calls' = [calls EXCEPT ![c] = Posted(form.undo, job)]
      /\ Posted(form.undo, job) # NoCall /\ Posted(form.undo, job).state = "sent"
      /\ Posted(form.undo, job).job = job
  BY <1>4, SendIs
<1>6. /\ Fits(sheet') /\ sheet'.mine = sheet.mine /\ sheet'.open = sheet.open
      /\ sheet'.made = sheet.made /\ sheet'.failed = sheet.failed /\ sheet'.opening = sheet.opening
  BY <1>4, SheetIs, ToastIs
<1>7. form' = form /\ class' = class
  OBVIOUS
<1> QED  BY <1>3, <1>4, <1>5, <1>6, <1>7, RequestTurns

-----------------------------------------------------------------------------
\* The server.
LEMMA VersionSets ==
    ASSUME NEW last \in Versions, NEW r \in Rows, NEW value \in RowValues
    PROVE  /\ [last EXCEPT !.rows[r] = value] \in Versions
           /\ [last EXCEPT !.made = last.made + 1] \in Versions
<1>1. last.rows \in [Rows -> RowValues] /\ last.made \in Nat
  BY DEF Versions
<1>2. [last.rows EXCEPT ![r] = value] \in [Rows -> RowValues]
  BY <1>1
<1>3. [last EXCEPT !.rows = [last.rows EXCEPT ![r] = value]] \in Versions
  BY <1>2 DEF Versions
<1>4. [last EXCEPT !.rows[r] = value] = [last EXCEPT !.rows = [last.rows EXCEPT ![r] = value]]
  BY DEF Versions
<1>5. [last EXCEPT !.made = last.made + 1] \in Versions
  BY <1>1 DEF Versions
<1> QED  BY <1>3, <1>4, <1>5

LEMMA WrittenIs ==
    ASSUME NEW job, NEW opening, GoodJob(job, opening), NEW last \in Versions
    PROVE  Written(job, last) \in Versions
<1>1. CASE job.kind = "create"
  <2>1. Written(job, last) = [last EXCEPT !.made = last.made + 1]
    BY <1>1 DEF Written
  <2>2. [last EXCEPT !.made = last.made + 1] \in Versions
    BY DEF Versions
  <2> QED  BY <2>1, <2>2
<1>2. CASE job.kind # "create" /\ job.value = Keep
  BY <1>2 DEF Written
<1>3. CASE job.kind # "create" /\ job.value # Keep
  <2>1. job.row \in Rows /\ job.value \in RowValues
    BY <1>3 DEF GoodJob
  <2>2. Written(job, last) = [last EXCEPT !.rows[job.row] = job.value]
    BY <1>3 DEF Written
  <2>3. [last EXCEPT !.rows[job.row] = job.value] \in Versions
    BY <2>1, VersionSets, Zenon
  <2> QED  BY <2>2, <2>3
<1> QED  BY <1>1, <1>2, <1>3

\* Versions are added at the end: what the page shows stays what it was.
LEMMA GrowingTurns ==
    ASSUME CacheInv, SheetInv, form' = form, UNCHANGED <<entry, mounted>>,
           NEW value \in Versions, server' \in {server, Append(server, value)}
    PROVE  /\ \A n \in 1..Now' : server'[n] \in Versions
           /\ Page' <=> Page
<1>1. /\ \A n \in 1..Now : server[n] \in Versions
      /\ Now \in Nat /\ entry.data \in 0..Now
  BY CacheOf DEF SheetInv, VersionsInv, EntryRow
<1>2. CASE server' = server
  BY <1>1, <1>2 DEF Now, Page, Displays
<1>3. CASE server' = Append(server, value)
  <2>1. /\ Now' = Now + 1 /\ server'[Now + 1] = value
        /\ \A n \in 1..Now : server'[n] = server[n]
    BY <1>3, GrowsAreVersions DEF Now
  <2>2. \A n \in 1..(Now + 1) : n \in 1..Now \/ n = Now + 1
    BY <1>1
  <2>3. entry.data # 0 => server'[entry.data] = server[entry.data]
    BY <1>1, <2>1
  <2> QED  BY <1>1, <2>1, <2>2, <2>3 DEF Page, Displays
<1> QED  BY <1>2, <1>3

LEMMA ApplyIs ==
    ASSUME CacheInv, NEW c \in Calls, NEW value, Apply(c, value)
    PROVE  /\ calls[c].state = "sent" /\ server' \in {server, Append(server, value)}
           /\ UNCHANGED <<query, entry, fetch, mounted, own, raced>>
           /\ calls'[c].job = calls[c].job /\ calls'[c].effect = calls[c].effect
           /\ calls'[c].state = "applied" /\ calls'[c].rev = Now'
           /\ calls[c] # NoCall /\ calls'[c] # NoCall
           /\ calls[c].effect.touches => server' = Append(server, value)
           /\ DOMAIN calls' = Calls /\ \A d \in Calls : d # c => calls'[d] = calls[d]
<1> DEFINE half == [calls[c] EXCEPT !.state = "applied"]
           done == [half EXCEPT !.rev = Now']
<1>1. /\ calls[c].state = "sent"
      /\ server' = IF calls[c].effect.touches THEN Append(server, value) ELSE server
      /\ UNCHANGED <<query, entry, fetch, mounted, own, raced>>
      /\ calls' = [calls EXCEPT ![c].state = "applied", ![c].rev = Now']
  BY DEF Apply, Now
<1>2. DOMAIN calls = Calls
  BY DEF CacheInv, GoodCacheCalls
<1>3. calls' = [calls EXCEPT ![c] = done]
  BY <1>1, <1>2
<1>4. /\ calls[c] # NoCall
      /\ calls[c] \in [state : {"sent", "applied"}, rev : 0..Now, effect : EffectRow, job : {calls[c].job}]
  BY <1>1, InFlight DEF CacheInv, GoodCacheCalls, GoodCacheCall
<1>5. /\ half.state = "applied" /\ half.job = calls[c].job /\ half.effect = calls[c].effect
      /\ DOMAIN half = {"state", "rev", "effect", "job"}
      /\ half = [state |-> half.state, rev |-> half.rev, effect |-> half.effect, job |-> half.job]
  BY <1>4
<1> HIDE DEF half
<1>6. /\ done.state = "applied" /\ done.job = calls[c].job /\ done.effect = calls[c].effect
      /\ done.rev = Now'
  BY <1>5
<1> HIDE DEF done
<1>7. calls'[c] = done /\ DOMAIN calls' = Calls /\ \A d \in Calls : d # c => calls'[d] = calls[d]
  BY <1>2, <1>3
<1>8. calls'[c] # NoCall
  BY <1>6, <1>7 DEF NoCall
<1> QED  BY <1>1, <1>4, <1>6, <1>7, <1>8

LEMMA ElsewhereKeeps ==
    ASSUME CacheInv, SheetInv, Elsewhere, UNCHANGED <<form, class>>  PROVE SheetInv'
<1> DEFINE last == server[Now]
<1>1. PICK v \in IF class = "state" THEN {3 - last.rows["a"].v} ELSE {3} :
        ForeignWrite([last EXCEPT !.rows["a"] = Val(v, 0)])
  BY DEF Elsewhere
<1>2. last.rows["a"] # Gone /\ sheet' = sheet /\ form' = form /\ class' = class
  BY DEF Elsewhere
<1>3. last \in Versions /\ last.rows["a"] \in RowValues
  BY CacheOf, SheetIs, RowsAre DEF VersionsInv, Rows
<1> HIDE DEF last
<1>4. Val(v, 0) \in Values
  <2>1. last.rows["a"] \in Values
    BY <1>2, <1>3 DEF RowValues
  <2>2. v \in Nat /\ (class = "state" => v <= 3)
    BY <1>1, <2>1, ValuesAre
  <2> QED  BY <2>2, ValuesAre
<1> DEFINE next == [last EXCEPT !.rows["a"] = Val(v, 0)]
<1>5. next \in Versions
  BY <1>3, <1>4, VersionSets DEF RowValues, Rows
<1>6. server' = Append(server, next) /\ UNCHANGED <<query, entry, mounted, calls>>
  BY <1>1 DEF ForeignWrite
<1> HIDE DEF next
<1>7. (\A n \in 1..Now' : server'[n] \in Versions) /\ (Page' <=> Page)
  BY <1>2, <1>5, <1>6, GrowingTurns
<1>8. \A c \in Calls : calls'[c] # NoCall => GoodJob(calls'[c].job, sheet'.opening)
  BY <1>2, <1>6 DEF SheetInv, JobsInv
<1>9. Fits(sheet') /\ (sheet'.open => Page') /\ \A c \in sheet'.mine : calls'[c] # NoCall
  BY <1>2, <1>6, <1>7 DEF SheetInv, SheetFits
<1>10. Counted'
  <2>1. \A c \in Calls : Creating(c)' <=> Creating(c)
    BY <1>6 DEF Creating
  <2> QED  BY <1>2, <1>6, <2>1, SheetIs DEF SheetInv, Counted
<1> QED  BY <1>2, <1>6, <1>7, <1>8, <1>9, <1>10, SheetTurns

LEMMA ExecuteKeeps ==
    ASSUME CacheInv, SheetInv, UNCHANGED <<form, class>>, NEW c \in Calls, Execute(c)
    PROVE  SheetInv'
<1> DEFINE job == calls[c].job
           Counts == job.kind = "create" /\ job.opening = sheet.opening /\ c \in sheet.mine
           value == Written(job, server[Now])
<1>1. Apply(c, value) /\ calls[c].state = "sent"
  BY DEF Execute
<1>2. sheet' = IF Counts THEN [sheet EXCEPT !.made = sheet.made + 1] ELSE sheet
  BY DEF Execute
<1>3. GoodJob(job, sheet.opening) /\ calls[c] # NoCall
  BY <1>1, InFlight DEF SheetInv, JobsInv
<1>4. value \in Versions
  <2>1. server[Now] \in Versions
    BY CacheOf, SheetIs DEF VersionsInv
  <2> QED  BY <1>3, <2>1, WrittenIs
<1> HIDE DEF value
<1>5. /\ server' \in {server, Append(server, value)} /\ UNCHANGED <<query, entry, mounted>>
      /\ calls'[c].job = job /\ calls'[c].state = "applied" /\ calls'[c] # NoCall
      /\ \A d \in Calls : d # c => calls'[d] = calls[d]
  BY <1>1, ApplyIs
<1> HIDE DEF job
<1>6. form' = form /\ class' = class /\ query' = query
  BY <1>5
<1>7. (\A n \in 1..Now' : server'[n] \in Versions) /\ (Page' <=> Page)
  BY <1>4, <1>5, <1>6, GrowingTurns
<1>8. /\ Fits(sheet') /\ sheet'.open = sheet.open /\ sheet'.mine = sheet.mine
      /\ sheet'.opening = sheet.opening /\ sheet'.failed = sheet.failed
      /\ sheet'.made = IF Counts THEN sheet.made + 1 ELSE sheet.made
  <2>1. sheet.made + 1 \in Nat /\ Fits(sheet)
    BY SheetIs
  <2>2. CASE Counts
    <3>1. PICK n \in Nat : n = sheet.made + 1
      BY <2>1
    <3>2. sheet' = [sheet EXCEPT !.made = n]
      BY <1>2, <2>2, <3>1
    <3>3. /\ Fits([sheet EXCEPT !.made = n]) /\ [sheet EXCEPT !.made = n].made = n
          /\ \A x \in {"open", "row", "shown", "draft", "typed", "opening", "mine", "toast"} :
               [sheet EXCEPT !.made = n][x] = sheet[x]
          /\ [sheet EXCEPT !.made = n].failed = sheet.failed
      BY <2>1, CountIs
    <3> QED  BY <2>2, <3>1, <3>2, <3>3
  <2>3. CASE ~Counts
    BY <1>2, <2>1, <2>3
  <2> QED  BY <2>2, <2>3
<1>9. \A d \in Calls : calls'[d] # NoCall => GoodJob(calls'[d].job, sheet'.opening)
  BY <1>3, <1>5, <1>8 DEF SheetInv, JobsInv
<1>10. sheet.mine \subseteq Calls
  BY SheetIs
<1>11. /\ sheet'.open => Page'
       /\ \A d \in sheet'.mine : calls'[d] # NoCall
  BY <1>5, <1>7, <1>8, <1>10 DEF SheetInv, SheetFits
<1>12. \A d \in Calls : Creating(d)' <=> Creating(d)
  BY <1>3, <1>5 DEF Creating, job
<1>13. Counted'
  <2>1. \A d, e \in sheet'.mine : Creating(d)' /\ Creating(e)' => d = e
    BY <1>8, <1>10, <1>12 DEF SheetInv, Counted
  <2>2. CASE Counts
    <3>1. Creating(c) /\ c \in sheet.mine
      BY <1>3, <2>2 DEF Creating, job
    <3>2. sheet.made <= sheet.failed
      <4>1. \A d \in sheet.mine : Creating(d) => d = c
        BY <3>1 DEF SheetInv, Counted
      <4> QED  BY <1>1, <4>1 DEF SheetInv, Counted
    <3>3. sheet'.made <= sheet'.failed + 1
      BY <1>8, <2>2, <3>2, SheetIs
    <3>4. calls'[c].job.opening = sheet'.opening /\ Creating(c)' /\ c \in sheet'.mine
      BY <1>5, <1>8, <1>12, <2>2, <3>1
    <3> QED  BY <1>5, <2>1, <3>3, <3>4 DEF Counted
  <2>3. CASE ~Counts
    <3>1. \A d \in Calls : calls[d].state = "applied" =>
            calls'[d].state = "applied" /\ calls'[d].job.opening = calls[d].job.opening
      BY <1>1, <1>5
    <3> QED  BY <1>8, <1>10, <1>12, <2>1, <2>3, <3>1 DEF SheetInv, Counted
  <2> QED  BY <2>2, <2>3
<1> QED  BY <1>6, <1>7, <1>8, <1>9, <1>11, <1>13, SheetTurns

-----------------------------------------------------------------------------
\* Answers.
LEMMA AnswerTurns ==
    ASSUME CacheInv, SheetInv, form' = form, class' = class, UNCHANGED <<query, server, mounted>>,
           entry'.data = entry.data, entry'.error = entry.error,
           NEW c \in Calls, calls' = [calls EXCEPT ![c] = NoCall],
           Fits(sheet'), sheet'.open => sheet.open,
           sheet'.mine = sheet.mine \ {c}, sheet'.opening = sheet.opening,
           \/ sheet'.made = 0
           \/ sheet'.made = sheet.made /\ sheet'.failed = sheet.failed + 1
           \/ /\ sheet'.made = sheet.made /\ sheet'.failed = sheet.failed
              /\ ~(c \in sheet.mine /\ Creating(c) /\ calls[c].job.opening = sheet.opening)
    PROVE  SheetInv'
<1>1. Now' = Now /\ \A n \in 1..Now' : server'[n] \in Versions
  BY DEF Now, SheetInv, VersionsInv
<1>2. calls'[c] = NoCall /\ \A d \in Calls : d # c => calls'[d] = calls[d]
  BY DEF CacheInv, GoodCacheCalls
<1>3. \A d \in Calls : calls'[d] # NoCall => GoodJob(calls'[d].job, sheet'.opening)
  BY <1>2 DEF SheetInv, JobsInv
<1>4. sheet'.open => Page'
  BY DEF Page, Displays, SheetInv, SheetFits
<1>5. sheet.mine \subseteq Calls /\ sheet'.made \in Nat /\ sheet'.failed \in Nat
  BY SheetIs DEF Fits, SheetRow
<1>6. \A d \in sheet'.mine : calls'[d] # NoCall
  BY <1>2, <1>5 DEF SheetInv, SheetFits
<1>7. \A d \in sheet'.mine : Creating(d)' <=> Creating(d)
  BY <1>2, <1>5 DEF Creating
<1>8. Counted'
  <2>1. \A d, e \in sheet'.mine : Creating(d)' /\ Creating(e)' => d = e
    BY <1>7 DEF SheetInv, Counted
  <2>2. CASE sheet'.made = 0
    BY <1>5, <2>1, <2>2 DEF Counted
  <2>3. CASE sheet'.made = sheet.made /\ sheet'.failed = sheet.failed + 1
    BY <2>1, <2>3, SheetIs DEF SheetInv, Counted
  <2>4. CASE /\ sheet'.made = sheet.made /\ sheet'.failed = sheet.failed
             /\ ~(c \in sheet.mine /\ Creating(c) /\ calls[c].job.opening = sheet.opening)
    BY <1>2, <1>5, <1>7, <2>1, <2>4 DEF SheetInv, Counted
  <2> QED  BY <2>2, <2>3, <2>4
<1> QED  BY <1>1, <1>3, <1>4, <1>6, <1>8, SheetTurns

LEMMA RefuseKeeps ==
    ASSUME CacheInv, SheetInv, UNCHANGED <<form, class>>, NEW c \in Calls, Refuse(c)
    PROVE  SheetInv'
<1>1. /\ calls' = [calls EXCEPT ![c] = NoCall] /\ sheet' = [sheet EXCEPT !.mine = sheet.mine \ {c}]
      /\ UNCHANGED <<query, server, mounted, entry>> /\ form' = form /\ class' = class
      /\ ~Creating(c)
  BY DEF Refuse, Target, Creating
<1>2. /\ Fits(sheet') /\ sheet'.mine = sheet.mine \ {c} /\ sheet'.open = sheet.open
      /\ sheet'.made = sheet.made /\ sheet'.failed = sheet.failed /\ sheet'.opening = sheet.opening
  <2>1. sheet.mine \ {c} \in SUBSET Calls /\ Fits(sheet)
    BY SheetIs
  <2> QED  BY <1>1, <2>1, MineIs
<1> QED  BY <1>1, <1>2, AnswerTurns

LEMMA BreakKeeps ==
    ASSUME CacheInv, SheetInv, UNCHANGED <<form, class>>, NEW c \in Calls, Break(c)
    PROVE  SheetInv'
<1> DEFINE Counts == c \in sheet.mine /\ calls[c].job.kind = "create" /\ calls[c].job.opening = sheet.opening
           s == [sheet EXCEPT !.mine = sheet.mine \ {c}]
           n == sheet.failed + IF Counts THEN 1 ELSE 0
<1>1. /\ calls' = [calls EXCEPT ![c] = NoCall]
      /\ UNCHANGED <<query, server, mounted, entry>> /\ form' = form /\ class' = class
      /\ Creating(c) => calls[c].job.kind = "create"
  BY DEF Break, Fail, Creating
<1>2. sheet' = [s EXCEPT !.failed = n]
  BY SheetIs DEF Break, SheetRow
<1>3. /\ Fits(s) /\ s.mine = sheet.mine \ {c} /\ s.open = sheet.open
      /\ s.made = sheet.made /\ s.failed = sheet.failed /\ s.opening = sheet.opening
  <2>1. sheet.mine \ {c} \in SUBSET Calls /\ Fits(sheet)
    BY SheetIs
  <2> QED  BY <2>1, MineIs
<1>4. n \in Nat /\ n = IF Counts THEN sheet.failed + 1 ELSE sheet.failed
  BY SheetIs
<1> HIDE DEF s, n
<1>5. /\ Fits(sheet') /\ sheet'.mine = s.mine /\ sheet'.open = s.open
      /\ sheet'.made = s.made /\ sheet'.failed = n /\ sheet'.opening = s.opening
  <2>1. PICK k \in Nat : k = n
    BY <1>4
  <2>2. /\ Fits([s EXCEPT !.failed = k]) /\ [s EXCEPT !.failed = k].failed = k
        /\ \A x \in {"open", "row", "shown", "draft", "typed", "opening", "mine", "toast"} :
             [s EXCEPT !.failed = k][x] = s[x]
        /\ [s EXCEPT !.failed = k].made = s.made
    <3>1. Fits(s) /\ k \in Nat
      BY <1>3, <2>1
    <3> QED  BY <3>1, CountIs, Zenon
  <2> QED  BY <1>2, <2>1, <2>2
<1>6. \/ sheet'.made = sheet.made /\ sheet'.failed = sheet.failed + 1
      \/ /\ sheet'.made = sheet.made /\ sheet'.failed = sheet.failed
         /\ ~(c \in sheet.mine /\ Creating(c) /\ calls[c].job.opening = sheet.opening)
  BY <1>1, <1>3, <1>4, <1>5
<1> QED  BY <1>1, <1>3, <1>5, <1>6, AnswerTurns

\* No hook sets the dashboard: what the page shows is not touched.
LEMMA SucceedShows ==
    ASSUME CacheInv, query \notin AccountQueries, NEW c \in Calls, Succeed(c)
    PROVE  /\ calls[c].state = "applied" /\ calls' = [calls EXCEPT ![c] = NoCall]
           /\ UNCHANGED <<query, server, mounted>>
           /\ entry'.data = entry.data /\ entry'.error = entry.error
<1> DEFINE effect == calls[c].effect
<1>1. /\ calls[c].state = "applied" /\ calls' = [calls EXCEPT ![c] = NoCall]
      /\ UNCHANGED <<query, server, mounted>>
      /\ entry' = [Overwritten(effect, calls[c].rev) EXCEPT !.stale = @ \/ effect.marks]
  BY DEF Succeed, Settle
<1>2. TellsItsQuery(effect, query)
  BY <1>1, InFlight DEF CacheInv, GoodCacheCalls, GoodCacheCall
<1>3. Overwritten(effect, calls[c].rev) = entry
  BY <1>2 DEF TellsItsQuery, Overwritten
<1> QED  BY <1>1, <1>3, CacheOf DEF EntryRow

LEMMA FinishKeeps ==
    ASSUME CacheInv, SheetInv, UNCHANGED <<form, class>>, NEW c \in Calls, Finish(c)
    PROVE  SheetInv'
<1> DEFINE s == [sheet EXCEPT !.mine = sheet.mine \ {c}]
           toast == IF Submits(calls[c].job) THEN calls[c].job.row ELSE sheet.toast
           done == [s EXCEPT !.toast = toast]
           shuts == Closes(c) /\ ~(form.drops /\ calls[c].job.kind = "delete")
<1>1. query \notin AccountQueries
  BY SheetIs DEF AccountQueries
<1>2. /\ calls[c].state = "applied" /\ calls' = [calls EXCEPT ![c] = NoCall]
      /\ UNCHANGED <<query, server, mounted>>
      /\ entry'.data = entry.data /\ entry'.error = entry.error
  BY <1>1, SucceedShows DEF Finish
<1>3. sheet' = IF shuts THEN Shut(done) ELSE done
  <2>1. done = [sheet EXCEPT !.mine = sheet.mine \ {c}, !.toast = toast]
    BY SheetIs DEF SheetRow
  <2> QED  BY <2>1, SheetIs DEF Finish
<1>4. GoodJob(calls[c].job, sheet.opening) /\ calls[c] # NoCall
  BY <1>2, InFlight DEF SheetInv, JobsInv
<1>5. toast \in Rows \cup {"none"} /\ (toast # "none" => form.undo # "none")
  BY <1>4, SheetIs DEF Submits, GoodJob
<1>6. /\ Fits(s) /\ s.mine = sheet.mine \ {c} /\ s.open = sheet.open
      /\ s.made = sheet.made /\ s.failed = sheet.failed /\ s.opening = sheet.opening
  <2>1. sheet.mine \ {c} \in SUBSET Calls /\ Fits(sheet)
    BY SheetIs
  <2> QED  BY <2>1, MineIs
<1> HIDE DEF s, toast
<1>7. /\ Fits(done) /\ done.mine = s.mine /\ done.open = s.open
      /\ done.made = s.made /\ done.failed = s.failed /\ done.opening = s.opening
  BY <1>5, <1>6, ToastIs
<1> HIDE DEF done
<1>8. form' = form /\ class' = class
  OBVIOUS
<1>9. CASE ~shuts
  <2>1. ~(c \in sheet.mine /\ Creating(c))
    BY <1>9 DEF Closes, Creating
  <2> QED  BY <1>2, <1>3, <1>6, <1>7, <1>8, <1>9, <2>1, AnswerTurns
<1>10. CASE shuts
  <2>1. /\ Fits(sheet') /\ sheet'.open = FALSE /\ sheet'.mine = done.mine
        /\ sheet'.opening = done.opening
        /\ IF form.seeds = "once" THEN sheet'.made = done.made /\ sheet'.failed = done.failed
           ELSE sheet'.made = 0 /\ sheet'.failed = 0
    BY <1>3, <1>7, <1>10, ShutFits
  <2>2. form.seeds = "once" => ~Creating(c)
    BY <1>4, SheetIs DEF Creating, FormRow, GoodJob
  <2>3. \/ sheet'.made = 0
        \/ /\ sheet'.made = sheet.made /\ sheet'.failed = sheet.failed /\ ~Creating(c)
    BY <1>6, <1>7, <2>1, <2>2
  <2> QED  BY <1>2, <1>6, <1>7, <1>8, <2>1, <2>3, AnswerTurns
<1> QED  BY <1>9, <1>10

-----------------------------------------------------------------------------
\* The page as a whole.
LEMMA SheetStarts == ASSUME SheetInit  PROVE CacheInv /\ SheetInv
<1>0. PICK value \in {Val(1, 0), Blank} :
        CacheInit("dashboard", [rows |-> [a |-> value, b |-> Val(2, 0)], made |-> 0], MaxSaves)
  BY DEF SheetInit
<1> DEFINE first == [rows |-> [a |-> value, b |-> Val(2, 0)], made |-> 0]
<1>1. PICK w \in Watched : form = Forms[w[1]]
  BY DEF SheetInit
<1>2. sheet = Empty(0, "none") /\ CacheInit("dashboard", first, MaxSaves)
  BY <1>0 DEF SheetInit
<1>3. first \in Versions
  <2>1. value \in RowValues /\ Val(2, 0) \in RowValues
    BY ValuesAre DEF RowValues
  <2>2. [a |-> value, b |-> Val(2, 0)] \in [Rows -> RowValues]
    BY <2>1 DEF Rows
  <2> QED  BY <2>2 DEF Versions
<1> HIDE DEF first
<1>4. "dashboard" \in Queries
  BY DEF Queries, CourseQueries
<1>5. /\ CacheInv /\ Now = 1 /\ server[1] = first /\ calls = [c \in Calls |-> NoCall]
      /\ query = "dashboard"
  BY <1>2, <1>4, CacheStarts DEF CacheInit
<1>6. FormIs
  BY <1>1, <1>5, WatchedAssumption DEF FormIs
<1>7. VersionsInv
  BY <1>3, <1>5 DEF VersionsInv
<1>8. JobsInv
  BY <1>5 DEF JobsInv
<1>9. Fits(sheet) /\ sheet.open = FALSE /\ sheet.mine = {} /\ sheet.made = 0 /\ sheet.failed = 0
  <2>1. Fits(sheet)
    BY <1>2, EmptyFits
  <2> QED  BY <1>2, <2>1 DEF Empty
<1>10. SheetFits /\ Counted
  BY <1>9 DEF SheetFits, Counted
<1> QED  BY <1>5, <1>6, <1>7, <1>8, <1>10 DEF SheetInv

LEMMA RequestCaches ==
    ASSUME CacheInv, NEW c \in Calls, NEW hook \in DOMAIN Mutations, NEW kind, NEW row, NEW value,
           Request(c, hook, kind, row, value)
    PROVE  CacheInv' /\ Forward
BY SendKeeps DEF Request

LEMMA SheetRequestsCache ==
    ASSUME CacheInv, SheetInv, NEW c \in Calls, Submit(c) \/ Delete(c) \/ PressRow(c) \/ Undo(c)
    PROVE  CacheInv' /\ Forward
<1>1. CASE Submit(c)
  <2>1. "new" \in form.rows \/ sheet.row # "new"
    BY <1>1, SheetIs DEF Submit, Fits
  <2> QED  BY <1>1, <2>1, RequestCaches, SheetIs DEF Submit, FormRow
<1>2. CASE Delete(c)
  BY <1>2, RequestCaches, SheetIs DEF Delete, FormRow
<1>3. CASE PressRow(c)
  <2>1. PICK r \in DOMAIN Live :
          /\ Row(r).v \in DOMAIN form.buttons
          /\ Request(c, form.buttons[Row(r).v], "press", r, Val(3 - Row(r).v, 0))
    BY <1>3 DEF PressRow
  <2>2. form.buttons[Row(r).v] \in DOMAIN Mutations
    BY <2>1, SheetIs DEF FormRow
  <2> QED  BY <2>1, <2>2, RequestCaches
<1>4. CASE Undo(c)
  <2>1. form.undo \in DOMAIN Mutations
    BY <1>4, SheetIs DEF Undo, FormRow
  <2> QED  BY <1>4, <2>1, SendKeeps DEF Undo
<1> QED  BY <1>1, <1>2, <1>3, <1>4

LEMMA SheetStepCaches ==
    ASSUME CacheInv, SheetInv, SheetStep  PROVE CacheInv' /\ Forward
<1>1. CASE View
  BY <1>1, QueryStepKeeps DEF View, QueryStep
<1>2. CASE OpenSheet \/ CloseSheet \/ Type
  BY <1>2, CacheRests DEF OpenSheet, CloseSheet, Type
<1>3. CASE Elsewhere
  BY <1>3, ForeignKeeps DEF Elsewhere
<1>4. ASSUME NEW c \in Calls, Submit(c) \/ Delete(c) \/ PressRow(c) \/ Undo(c)
      PROVE  CacheInv' /\ Forward
  BY <1>4, SheetRequestsCache
<1>5. ASSUME NEW c \in Calls, Execute(c)  PROVE CacheInv' /\ Forward
  BY <1>5, ApplyKeeps DEF Execute
<1>6. ASSUME NEW c \in Calls, Refuse(c)  PROVE CacheInv' /\ Forward
  BY <1>6, ForgetKeeps DEF Refuse
<1>7. ASSUME NEW c \in Calls, Finish(c)  PROVE CacheInv' /\ Forward
  BY <1>7, SucceedKeeps DEF Finish
<1>8. ASSUME NEW c \in Calls, Break(c)  PROVE CacheInv' /\ Forward
  BY <1>8, FailKeeps DEF Break
<1> QED  BY <1>1, <1>2, <1>3, <1>4, <1>5, <1>6, <1>7, <1>8 DEF SheetStep

LEMMA SheetStepKeeps ==
    ASSUME CacheInv, SheetInv, SheetStep  PROVE CacheInv' /\ SheetInv' /\ Forward
<1>1. CacheInv' /\ Forward
  BY SheetStepCaches
<1>2. UNCHANGED <<form, class>>
  BY DEF SheetStep
<1>3. SheetInv'
  BY <1>1, <1>2, ViewKeeps, OpenSheetKeeps, CloseSheetKeeps, TypeKeeps, ElsewhereKeeps,
     SubmitKeeps, DeleteKeeps, PressRowKeeps, UndoKeeps, ExecuteKeeps, RefuseKeeps,
     FinishKeeps, BreakKeeps DEF SheetStep
<1> QED  BY <1>1, <1>3

\* What is typed stays until the user, a failed refetch or a success of the
\* page itself takes it away.
Kept == sheet'.open /\ sheet'.draft = sheet.draft
Taken ==
    \/ CloseSheet \/ ~mounted' \/ entry'.error
    \/ \E c \in sheet.mine : calls[c].state = "applied" /\ calls'[c] = NoCall

LEMMA DraftsSurvive ==
    ASSUME CacheInv, SheetInv, SheetStep, form.seeds = "open", sheet.open, sheet.typed
    PROVE  Kept \/ Taken
<1>1. Page /\ sheet \in SheetRow
  BY SheetIs DEF SheetInv, SheetFits
<1>2. CASE View
  <2>1. sheet' = AfterView(entry', mounted')
    BY <1>2 DEF View
  <2>2. CASE Displays(entry', mounted')
    BY <1>1, <2>1, <2>2 DEF AfterView, Reseeds, Kept
  <2>3. CASE ~Displays(entry', mounted')
    <3>1. entry'.data # 0
      <4>1. entry.data # 0
        BY <1>1 DEF Page, Displays
      <4>2. CASE Fill
        BY <4>2, CacheOf DEF Fill, CacheInv, AnswersAreNew
      <4>3. CASE FetchFails
        BY <4>1, <4>3, CacheOf DEF FetchFails, EntryRow
      <4>4. CASE Mount \/ Unmount \/ Answer
        BY <4>1, <4>4 DEF Mount, Unmount, Answer
      <4> QED  BY <1>2, <4>2, <4>3, <4>4 DEF View
    <3> QED  BY <2>3, <3>1 DEF Displays, Taken
  <2> QED  BY <2>2, <2>3
<1>3. CASE OpenSheet \/ Type
  BY <1>3 DEF OpenSheet, Type
<1>4. CASE CloseSheet
  BY <1>4 DEF Taken
<1>5. CASE Elsewhere
  BY <1>1, <1>5 DEF Elsewhere, Kept
<1>6. ASSUME NEW c \in Calls, Submit(c) \/ Delete(c) \/ PressRow(c) \/ Undo(c)  PROVE Kept
  <2>1. \/ sheet' = [sheet EXCEPT !.mine = @ \cup {c}]
        \/ sheet' = [sheet EXCEPT !.toast = "none"]
    BY <1>6 DEF Submit, Delete, PressRow, Undo, Request
  <2> QED  BY <1>1, <2>1 DEF SheetRow, Kept
<1>7. ASSUME NEW c \in Calls, Execute(c)  PROVE Kept
  <2>1. sheet' = sheet \/ sheet' = [sheet EXCEPT !.made = @ + 1]
    BY <1>7 DEF Execute
  <2> QED  BY <1>1, <2>1 DEF SheetRow, Kept
<1>8. ASSUME NEW c \in Calls, Refuse(c)  PROVE Kept
  BY <1>1, <1>8 DEF Refuse, SheetRow, Kept
<1>9. ASSUME NEW c \in Calls, Break(c)  PROVE Kept
  <2>1. PICK n : sheet' = [sheet EXCEPT !.mine = @ \ {c}, !.failed = n]
    BY <1>9 DEF Break
  <2>2. sheet'.open = sheet.open /\ sheet'.draft = sheet.draft
    BY <1>1, <2>1 DEF SheetRow
  <2> QED  BY <2>2 DEF Kept
<1>10. ASSUME NEW c \in Calls, Finish(c)  PROVE Kept \/ Taken
  <2>1. query \notin AccountQueries
    BY SheetIs DEF AccountQueries
  <2>2. calls[c].state = "applied" /\ calls' = [calls EXCEPT ![c] = NoCall]
    BY <1>10, <2>1, SucceedShows DEF Finish
  <2>3. CASE Closes(c)
    <3>1. c \in sheet.mine /\ calls'[c] = NoCall
      BY <2>2, <2>3 DEF Closes, CacheInv, GoodCacheCalls
    <3> QED  BY <2>2, <3>1 DEF Taken
  <2>4. CASE ~Closes(c)
    <3>1. PICK toast : sheet' = [sheet EXCEPT !.mine = @ \ {c}, !.toast = toast]
      BY <1>10, <2>4 DEF Finish
    <3>2. sheet'.open = sheet.open /\ sheet'.draft = sheet.draft
      BY <1>1, <3>1 DEF SheetRow
    <3> QED  BY <3>2 DEF Kept
  <2> QED  BY <2>3, <2>4
<1> QED  BY <1>2, <1>3, <1>4, <1>5, <1>6, <1>7, <1>8, <1>9, <1>10 DEF SheetStep
=============================================================================
