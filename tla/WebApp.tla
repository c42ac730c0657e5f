------------------------------- MODULE WebApp -------------------------------
(***************************************************************************)
(* The web application behind the login: a behaviour is a document opened  *)
(* at one of its pages, where the user works while the cache fetches, the  *)
(* server executes calls, answers come late or never, and others write.    *)
(***************************************************************************)
EXTENDS EntitySheet, SettingsPage, FilesPage

CONSTANT MaxHooks   \* bound: calls sent on the plain page

VARIABLE address
vars == <<address, cacheVars, sheetVars, page, browser>>

NoSheet == form = "none" /\ class = "none" /\ sheet = "none" /\ pressed = {}
NoPage == page = "none"
NoBrowser == browser = "none"

Init ==
    \/ /\ address = "anywhere" /\ NoSheet /\ NoPage /\ NoBrowser
       /\ \E q \in Queries : CacheInit(q, "any", MaxHooks)
    \/ address = "course" /\ SheetInit /\ NoPage /\ NoBrowser
    \/ address = "settings" /\ SettingsInit /\ NoSheet /\ NoBrowser
    \/ address = "files" /\ FilesInit /\ NoSheet /\ NoPage

Anywhere == address = "anywhere" /\ PlainStep /\ UNCHANGED <<address, sheetVars, page, browser>>
AtCourse == address = "course" /\ SheetStep /\ UNCHANGED <<address, page, browser>>
AtSettings == address = "settings" /\ SettingsStep /\ UNCHANGED <<address, sheetVars, browser>>
AtFiles == address = "files" /\ FilesStep /\ UNCHANGED <<address, sheetVars, page>>

Next == Anywhere \/ AtCourse \/ AtSettings \/ AtFiles
Spec == Init /\ [][Next]_vars

-----------------------------------------------------------------------------
\* Every index into the server's versions is one; a page
\* waits for calls that are in flight, and an open sheet holds a row's draft.
TypeOK ==
    /\ query \in Queries /\ Now >= 1
    /\ entry \in [data : 0..Now, stale : BOOLEAN, error : BOOLEAN]
    /\ fetch \in [state : {"idle", "asked", "answered"}, rev : 0..Now, tries : 0..2]
    /\ mounted \in BOOLEAN /\ raced \in BOOLEAN /\ own \in 0..Now
    /\ \A c \in Calls : calls[c] # NoCall =>
         calls[c].state \in {"sent", "applied"} /\ calls[c].rev \in 0..Now
    /\ address = "course" =>
         /\ sheet.mine \subseteq {c \in Calls : calls[c] # NoCall}
         /\ sheet.open => sheet.row \in form.rows /\ sheet.draft.v >= 0

Quiet == fetch.state = "idle" /\ ~entry.error

\* What the user was told is saved is what the page shows: once its query is
\* at rest, it shows data at least as new as every success it heard of that
\* concerns it, whether the hook invalidated the query or set it, and also if
\* the page was off screen or a fetch was on its way at the time.  Not covered
\* is a success after which data read before it still arrived (see Races): the
\* cache takes them for fresh, and the page shows the old row until staleTime
\* has passed.
OwnWritesAreShown == mounted /\ Quiet /\ ~raced => entry.data >= own

\* A page never falls back to older data, except for the queries some hook
\* sets from its response.
ViewsNeverGoBack ==
    [][query \notin AccountQueries /\ entry.data # 0 /\ entry'.data # 0
         => entry'.data >= entry.data]_vars

\* A save of a form writes back into a field the user left alone what the
\* page showed when the draft was taken, but for the seconds of a time; the
\* kind of a lecture and the colour of a course that have none are the
\* exception, the save sets the default the form filled in.  (The two forms
\* that take the draft once for all are left out: it may be long ago.)
SendsWhatWasShown ==
    address = "course" =>
      \A c \in Calls : calls[c].state # "none" =>
        LET job == calls[c].job
        IN job.kind = "save" /\ form.seeds # "once" /\ ~job.typed /\ job.value # Keep
             => \/ job.value.v = job.shown.v
                \/ class \in {"kind", "colour"} /\ job.shown = Blank /\ job.value = Default

\* One opening of a form creates one row, and one more at most for every
\* failure the user was shown.
NoSilentDuplicate == address = "course" => sheet.made <= 1 + sheet.failed

\* What the user typed in a form that is open is only lost by closing it, by
\* leaving the page, by a failed refetch, which hides the page, or when a
\* call sent from the page succeeds.
DraftsAreKept ==
    [][address = "course" /\ form.seeds = "open" /\ sheet.open /\ sheet.typed
         => \/ sheet'.open /\ sheet'.draft = sheet.draft
            \/ CloseSheet \/ ~mounted' \/ entry'.error
            \/ \E c \in sheet.mine : calls[c].state = "applied" /\ calls'[c] = NoCall]_vars

\* Unless a pick is under way, or failed when the cached theme was no longer
\* the one it was made on, the document has the theme of the settings.
ThemeMatchesSettings ==
    address = "settings" /\ entry.data # 0 /\ ~page.crossed
      => \/ page.theme = Loaded(entry).theme
         \/ \E c \in Calls : calls[c].state # "none" /\ calls[c].job.field = "theme"

\* So do the fields that save themselves, unless a save is under way or
\* failed, or the user cleared a date: the field stays blank until the
\* settings change, though they keep the date (services/settings.py:33).
PickersShowSettings ==
    address = "settings" /\ page.open /\ entry.data # 0 /\ ~page.unsaved
      => \/ page.auto = Loaded(entry).auto
         \/ \E c \in Calls : calls[c].state # "none" /\ calls[c].job.field = "auto"

\* When an upload of several files is over, each was tried, each was reported
\* uploaded or failed, and one reported uploaded is on the server in the
\* folder where it was picked, or a later call took it away.
EveryFileIsAccountedFor ==
    address = "files" /\ browser.picked /\ browser.queue = <<>> /\ ~Uploading
      => /\ browser.ok \cup browser.failed = {"f", "g"}
         /\ \A f \in browser.ok : \E n \in 1..Now : f \in server[n][browser.at]
=============================================================================
