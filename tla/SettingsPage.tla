---------------------------- MODULE SettingsPage ----------------------------
(***************************************************************************)
(* The settings page (routes/settings.tsx) and the theme of the document   *)
(* (lib/themes.ts, app-shell.tsx), on top of the cached settings.          *)
(*                                                                         *)
(* A version of the settings is a theme, one free text (the profile's or   *)
(* the semester's label) and one field that saves itself, a date (the time *)
(* zone and the locale are dates that are never blank).  0 is blank.       *)
(***************************************************************************)
EXTENDS QueryCache

CONSTANT MaxPatches   \* bound: settings saved

VARIABLE page
Themes == {1, 2}
DefaultTheme == 2
None == [theme |-> 0, text |-> 0, auto |-> 0]   \* nothing loaded yet
Loaded(e) == IF e.data = 0 THEN None ELSE server[e.data]

normalizeTheme(theme) == IF theme \in Themes THEN theme ELSE DefaultTheme

\* owner: which form has the text.  theme: document and localStorage, which
\* applyTheme sets together; before the first render it is the stored one.
\* Ghosts: crossed, a failed pick fell back to a theme that is no longer the
\* cached one; unsaved, what the self-saving field shows was not saved: its
\* request failed, or was to clear it.
SettingsInit ==
    /\ \E date \in {0, 1} :
         CacheInit("settings", [theme |-> 1, text |-> 1, auto |-> date], MaxPatches)
    /\ \E owner \in {"profile", "label"}, stored \in Themes :
         page = [owner |-> owner, open |-> FALSE, text |-> 0, typed |-> FALSE, auto |-> 0,
                 theme |-> stored, mine |-> {}, crossed |-> FALSE, unsaved |-> FALSE]

\* Faulty: the self-saving field is forgotten.
TextReseed(p, now) == [p EXCEPT !.text = now.text, !.typed = FALSE]

\* The forms take what the cache holds whenever that changes, whatever is
\* typed in them; the document follows a change of the theme.
Reseed(p, now) ==
    [p EXCEPT !.text = now.text, !.typed = FALSE, !.auto = now.auto, !.unsaved = FALSE]
ApplyTheme(p, theme) == [p EXCEPT !.theme = theme, !.crossed = FALSE]

Absorb(p, was, now) ==
    LET forms == IF p.open /\ now # was THEN Reseed(p, now) ELSE p
    IN IF now.theme # was.theme THEN ApplyTheme(forms, now.theme) ELSE forms

SettingsView ==
    /\ Mount \/ Age \/ Focus \/ Answer \/ Fill \/ FetchFails
    /\ page' = Absorb(page, Loaded(entry), Loaded(entry'))

OpenPage ==
    /\ ~page.open
    /\ LET p == [page EXCEPT !.open = TRUE]
       IN page' = IF Loaded(entry) = None THEN p ELSE Reseed(p, Loaded(entry))
    /\ UNCHANGED cacheVars

\* The drafts and the hooks' pending flags go with the page.
LeavePage ==
    /\ page.open
    /\ page' = [page EXCEPT !.open = FALSE, !.text = 0, !.typed = FALSE, !.auto = 0,
                            !.mine = {}, !.unsaved = FALSE]
    /\ UNCHANGED cacheVars

TypeText ==
    /\ page.open /\ Loaded(entry) # None /\ ~page.typed
    /\ \E v \in {0, 2} : page' = [page EXCEPT !.text = v, !.typed = TRUE]
    /\ UNCHANGED cacheVars

Waiting(field) ==
    \E c \in page.mine : calls[c].state # "none" /\ calls[c].job.field = field

Patch(c, field, value, back) ==
    /\ Send(c, "updateSettings", [field |-> field, value |-> value, back |-> back])
    /\ UNCHANGED <<query, server, entry, fetch, mounted, own, raced>>

Mine(c, p) == [p EXCEPT !.mine = @ \cup {c}]

\* A dirty text is saved; Enter saves the label also while a call is pending.
SaveText(c) ==
    /\ page.open /\ Loaded(entry) # None
    /\ page.text # Loaded(entry).text
    /\ page.owner = "profile" => ~Waiting("text")
    /\ Patch(c, "text", page.text, 0)
    /\ page' = Mine(c, page)

AutoSave(c) ==
    /\ page.open /\ Loaded(entry) # None
    /\ \E v \in {0, 2} \ {page.auto} :
         /\ Patch(c, "auto", v, 0)
         /\ page' = Mine(c, [page EXCEPT !.auto = v, !.unsaved = (v = 0)])

Current == normalizeTheme(Loaded(entry).theme)

PickTheme(c) ==
    /\ page.open /\ ~Waiting("theme")
    /\ \E id \in Themes \ {Current} :
         /\ Patch(c, "theme", id, Current)
         /\ page' = Mine(c, [page EXCEPT !.theme = id])

\* The service drops nulls: a blank text or date clears nothing.
Patched(job, last) ==
    CASE job.field = "text" -> IF job.value = 0 THEN last ELSE [last EXCEPT !.text = job.value]
      [] job.field = "auto" -> IF job.value = 0 THEN last ELSE [last EXCEPT !.auto = job.value]
      [] job.field = "theme" -> [last EXCEPT !.theme = job.value]

Store(c) ==
    /\ calls[c].state = "sent"
    /\ Apply(c, Patched(calls[c].job, server[Now]))
    /\ UNCHANGED page

Saved(c) ==
    /\ Succeed(c)
    /\ page' = Absorb([page EXCEPT !.mine = @ \ {c}], Loaded(entry), Loaded(entry'))

\* Faulty: the document keeps the theme that was not saved.
NoRollback(p, job) == [p EXCEPT !.unsaved = @ \/ (p.open /\ job.field = "auto")]

\* A pick that failed goes back to the theme it was made on, even when the
\* page was left meanwhile.  The other forms keep what they show.
Rollback(p, job) ==
    IF job.field # "theme" THEN [p EXCEPT !.unsaved = @ \/ (p.open /\ job.field = "auto")]
    ELSE [p EXCEPT !.theme = job.back, !.crossed = (job.back # Current)]

NotSaved(c) ==
    /\ Fail(c)
    /\ page' = Rollback([page EXCEPT !.mine = @ \ {c}], calls[c].job)

SettingsElsewhere ==
    /\ \E v \in {[server[Now] EXCEPT !.theme = 3 - @], [server[Now] EXCEPT !.text = 3]} :
         ForeignWrite(v)
    /\ UNCHANGED page

SettingsStep ==
    \/ SettingsView \/ OpenPage \/ LeavePage \/ TypeText \/ SettingsElsewhere
    \/ \E c \in Calls : SaveText(c) \/ AutoSave(c) \/ PickTheme(c)
                        \/ Store(c) \/ Saved(c) \/ NotSaved(c)
=============================================================================
