---------------------------- MODULE WebApp_proofs ----------------------------
(***************************************************************************)
(* The theorems of the web application: what every page keeps.             *)
(***************************************************************************)
EXTENDS WebApp, EntitySheet_proofs

-----------------------------------------------------------------------------
\* The settings page.
Settings == [theme : Themes, text : Nat, auto : Int]
PageRow ==
    [owner : {"profile", "label"}, open : BOOLEAN, text : Nat, typed : BOOLEAN, auto : Int,
     theme : Themes, mine : SUBSET Calls, crossed : BOOLEAN, unsaved : BOOLEAN]

\* A request stored is in the version its answer brings.
GoodPatch(call, versions) ==
    /\ call.effect.touches
    /\ call.effect.sets
    /\ \/ call.job \in [field : {"text"}, value : Nat, back : {0}]
       \/ call.job \in [field : {"auto"}, value : Int, back : {0}]
       \/ call.job \in [field : {"theme"}, value : Themes, back : Themes]
    /\ call.state = "applied" =>
         /\ call.job.field = "auto" /\ call.job.value # 0 => versions[call.rev].auto = call.job.value
         /\ call.job.field = "theme" => versions[call.rev].theme = call.job.value

\* What a page shows that the cache does not is what a request carries.
Carried(field, value) ==
    \E c \in Calls : calls[c] # NoCall /\ calls[c].job.field = field /\ calls[c].job.value = value

ThemeShown ==
    entry.data # 0 /\ ~page.crossed
      => page.theme = Loaded(entry).theme \/ Carried("theme", page.theme)

PickersShown ==
    page.open /\ entry.data # 0 /\ ~page.unsaved
      => page.auto = Loaded(entry).auto \/ Carried("auto", page.auto)

\* A date is blank on the page when it is in the settings, or it was cleared.
BlankShown ==
    page.open /\ entry.data # 0 /\ ~page.unsaved /\ page.auto = 0 => Loaded(entry).auto = 0

PageInv ==
    /\ query = "settings" /\ page \in PageRow
    /\ \A n \in 1..Now : server[n] \in Settings
    /\ \A c \in Calls : calls[c] # NoCall => GoodPatch(calls[c], server)
    /\ ThemeShown /\ PickersShown /\ BlankShown

-----------------------------------------------------------------------------
\* The file browser.
Names == {"e", "r", "f", "g", "d", "m"}
Picked == {"f", "g"}
BrowserRow ==
    [prefix : Folders, queue : {<<>>, <<"g">>, Batch}, at : Folders, picked : BOOLEAN,
     ok : SUBSET Picked, failed : SUBSET Picked]

InQueue(f) == (f = "f" /\ browser.queue = Batch) \/ (f = "g" /\ browser.queue # <<>>)
Travels(f) == \E c \in Calls : calls[c] # NoCall /\ calls[c].job.kind = "put" /\ calls[c].job.file = f
Arrived(f, folder, versions) == \E n \in 1..Len(versions) : f \in versions[n][folder]

\* An upload goes to the folder where the batch was picked.
GoodFileCall(call, b, versions) ==
    /\ call.job \in [kind : {"put", "move", "delete", "folder", "sync"}, file : Names, folder : Folders]
    /\ call.job.kind = "put" =>
         /\ call.effect.touches /\ b.picked
         /\ call.job.folder = b.at /\ call.job.file \in Picked
         /\ call.state = "applied" => Arrived(call.job.file, b.at, versions)

\* Every file of the batch waits, travels, or was reported.
Tracked ==
    IF browser.picked
    THEN \A f \in Picked : f \in browser.ok \cup browser.failed \/ InQueue(f) \/ Travels(f)
    ELSE browser.ok = {} /\ browser.queue = <<>>

BrowserInv ==
    /\ query = "files/list" /\ browser \in BrowserRow
    /\ \A n \in 1..Now : server[n] \in [Folders -> SUBSET Names]
    /\ \A c \in Calls : calls[c] # NoCall => GoodFileCall(calls[c], browser, server)
    /\ Tracked
    /\ \A f \in browser.ok : Arrived(f, browser.at, server)

-----------------------------------------------------------------------------
\* The two hooks the pages rely on write, and set, what their query reads.
LEMMA SettingsEffect ==
    /\ "updateSettings" \in DOMAIN Mutations
    /\ EffectOn("updateSettings", "settings").touches = TRUE
    /\ EffectOn("updateSettings", "settings").sets = TRUE
<1> DEFINE m == "updateSettings"
           G == CHOOSE G \in Groups : m \in DOMAIN G
<1>1. m \in DOMAIN SettingsMutations /\ SettingsMutations \in Groups
  BY DEF SettingsMutations, Groups
<1>2. m \in DOMAIN Mutations /\ Mutations[m] = G[m] /\ G \in Groups /\ m \in DOMAIN G
  BY <1>1 DEF Mutations
<1> HIDE DEF G
<1>3. G = SettingsMutations
  BY <1>2 DEF Groups, SessionMutations, CourseMutations, SlotMutations, DeliverableMutations,
              TopicMutations, TaskMutations, TaskHooks, LectureMutations, FileMutations
<1>4. /\ Mutations[m].writes = {"settings"} /\ Mutations[m].sets = {"settings"}
      /\ Reads("settings") = {"settings"}
  <2>1. Mutations[m].writes = {"settings"} /\ Mutations[m].sets = {"settings"}
    BY <1>2, <1>3 DEF SettingsMutations, Effect
  <2>2. Reads("settings") = {"settings"}
    BY DEF Reads
  <2> QED  BY <2>1, <2>2
<1>5. m \notin DOMAIN FileMutations
  BY DEF FileMutations
<1> QED  BY <1>2, <1>4, <1>5 DEF EffectOn, Touches, Overwrites

LEMMA UploadEffect ==
    /\ "uploadFile" \in DOMAIN Mutations
    /\ EffectOn("uploadFile", "files/list").touches = TRUE
<1> DEFINE m == "uploadFile"
           G == CHOOSE G \in Groups : m \in DOMAIN G
<1>1. m \in DOMAIN FileMutations /\ FileMutations \in Groups
  BY DEF FileMutations, Groups
<1>2. m \in DOMAIN Mutations /\ Mutations[m] = G[m] /\ G \in Groups /\ m \in DOMAIN G
  BY <1>1 DEF Mutations
<1> HIDE DEF G
<1>3. G = FileMutations
  BY <1>2 DEF Groups, SessionMutations, CourseMutations, SlotMutations, DeliverableMutations,
              TopicMutations, TaskMutations, TaskHooks, LectureMutations, SettingsMutations
<1>4. Mutations[m].writes = {"files", "events"} /\ Reads("files/list") = {"files"}
  <2>1. Mutations[m].writes = {"files", "events"}
    BY <1>2, <1>3 DEF FileMutations, Effect
  <2>2. Reads("files/list") = {"files"}
    BY DEF Reads
  <2> QED  BY <2>1, <2>2
<1> QED  BY <1>2, <1>4 DEF EffectOn, Touches

-----------------------------------------------------------------------------
\* The settings page: what is loaded, and how the page takes it over.
LEMMA LoadedIs ==
    ASSUME CacheInv, PageInv
    PROVE  /\ Loaded(entry) = IF entry.data = 0 THEN None ELSE server[entry.data]
           /\ entry.data # 0 => Loaded(entry) \in Settings
           /\ None.theme \notin Themes
           /\ entry.data \in 0..Now /\ page \in PageRow /\ query = "settings"
BY CacheOf DEF Loaded, None, Themes, PageInv, EntryRow

LEMMA ReseedIs ==
    ASSUME NEW p \in PageRow, NEW now \in Settings \cup {None}
    PROVE  /\ Reseed(p, now) \in PageRow
           /\ Reseed(p, now).auto = now.auto /\ Reseed(p, now).unsaved = FALSE
           /\ Reseed(p, now).text = now.text
           /\ \A x \in {"owner", "open", "theme", "mine", "crossed"} : Reseed(p, now)[x] = p[x]
<1> DEFINE p1 == [p EXCEPT !.text = now.text]
           p2 == [p1 EXCEPT !.typed = FALSE]
           p3 == [p2 EXCEPT !.auto = now.auto]
           p4 == [p3 EXCEPT !.unsaved = FALSE]
           Same(q) == \A x \in {"owner", "open", "theme", "mine", "crossed"} : q[x] = p[x]
<1>1. Reseed(p, now) = p4
  BY DEF Reseed
<1>2. now.text \in Nat /\ now.auto \in Int
  BY DEF Settings, None
<1>3. p1 \in PageRow /\ p1.text = now.text /\ Same(p1)
  BY <1>2 DEF PageRow
<1> HIDE DEF p1
<1>4. p2 \in PageRow /\ p2.text = now.text /\ Same(p2)
  BY <1>3 DEF PageRow
<1> HIDE DEF p2
<1>5. p3 \in PageRow /\ p3.text = now.text /\ p3.auto = now.auto /\ Same(p3)
  BY <1>2, <1>4 DEF PageRow
<1> HIDE DEF p3
<1>6. /\ p4 \in PageRow /\ p4.text = now.text /\ p4.auto = now.auto /\ p4.unsaved = FALSE
      /\ Same(p4)
  BY <1>5 DEF PageRow
<1> HIDE DEF p4
<1> QED  BY <1>1, <1>6

LEMMA ApplyThemeIs ==
    ASSUME NEW p \in PageRow, NEW theme \in Themes
    PROVE  /\ ApplyTheme(p, theme) \in PageRow
           /\ ApplyTheme(p, theme).theme = theme /\ ApplyTheme(p, theme).crossed = FALSE
           /\ \A x \in {"owner", "open", "mine", "auto", "unsaved", "text", "typed"} :
                ApplyTheme(p, theme)[x] = p[x]
<1> DEFINE p1 == [p EXCEPT !.theme = theme]
           p2 == [p1 EXCEPT !.crossed = FALSE]
           Same(q) == \A x \in {"owner", "open", "mine", "auto", "unsaved", "text", "typed"} : q[x] = p[x]
<1>1. ApplyTheme(p, theme) = p2
  BY DEF ApplyTheme
<1>2. p1 \in PageRow /\ p1.theme = theme /\ Same(p1)
  BY DEF PageRow
<1> HIDE DEF p1
<1>3. p2 \in PageRow /\ p2.theme = theme /\ p2.crossed = FALSE /\ Same(p2)
  BY <1>2 DEF PageRow
<1> HIDE DEF p2
<1> QED  BY <1>1, <1>3

LEMMA AbsorbIs ==
    ASSUME NEW p \in PageRow, NEW was \in Settings \cup {None}, NEW now \in Settings \cup {None},
           now = None => was = None, NEW t, t = Absorb(p, was, now)
    PROVE  /\ t \in PageRow /\ t.open = p.open /\ t.mine = p.mine /\ t.owner = p.owner
           /\ IF now.theme # was.theme THEN t.theme = now.theme
              ELSE t.theme = p.theme /\ t.crossed = p.crossed
           /\ IF p.open /\ now # was THEN t.auto = now.auto
              ELSE t.auto = p.auto /\ t.unsaved = p.unsaved /\ t.text = p.text
<1> DEFINE forms == IF p.open /\ now # was THEN Reseed(p, now) ELSE p
<1>1. t = IF now.theme # was.theme THEN ApplyTheme(forms, now.theme) ELSE forms
  BY DEF Absorb
<1>2. /\ forms \in PageRow /\ forms.open = p.open /\ forms.mine = p.mine /\ forms.owner = p.owner
      /\ forms.theme = p.theme /\ forms.crossed = p.crossed
      /\ IF p.open /\ now # was THEN forms.auto = now.auto
         ELSE forms.auto = p.auto /\ forms.unsaved = p.unsaved /\ forms.text = p.text
  BY ReseedIs
<1> HIDE DEF forms
<1>3. now.theme # was.theme => now.theme \in Themes
  BY DEF Settings
<1>4. CASE now.theme = was.theme
  BY <1>1, <1>2, <1>4
<1>5. CASE now.theme # was.theme
  <2>1. PICK theme \in Themes : theme = now.theme
    BY <1>3, <1>5
  <2>2. /\ ApplyTheme(forms, theme) \in PageRow /\ ApplyTheme(forms, theme).theme = theme
        /\ \A x \in {"owner", "open", "mine", "auto", "unsaved", "text", "typed"} :
             ApplyTheme(forms, theme)[x] = forms[x]
    BY <1>2, ApplyThemeIs
  <2> QED  BY <1>1, <1>2, <1>5, <2>1, <2>2
<1> QED  BY <1>4, <1>5

\* The cache changes under the page: what the page shows follows it, and what
\* it shows that is not there yet is still carried by a request.
LEMMA AbsorbShows ==
    ASSUME CacheInv, PageInv, UNCHANGED <<query, server>>, entry'.data \in 0..Now,
           entry.data # 0 => entry'.data # 0,
           NEW p \in PageRow,
           \A x \in {"owner", "open", "theme", "auto", "crossed", "unsaved", "text"} : p[x] = page[x],
           page' = Absorb(p, Loaded(entry), Loaded(entry')),
           \A c \in Calls : calls[c] # NoCall /\ calls'[c] # calls[c] =>
              /\ calls'[c] = NoCall /\ entry'.data # 0
              /\ calls[c].job.field = "theme" => Loaded(entry').theme = calls[c].job.value
              /\ calls[c].job.field = "auto" /\ calls[c].job.value # 0 => Loaded(entry').auto = calls[c].job.value,
           \A c \in Calls : calls[c] = NoCall => calls'[c] = NoCall
    PROVE  PageInv'
<1> DEFINE was == Loaded(entry)
           now == Loaded(entry')
<1>1. Loaded(entry)' = now /\ Now' = Now
  BY DEF Loaded, Now
<1>2. /\ was = IF entry.data = 0 THEN None ELSE server[entry.data]
      /\ now = IF entry'.data = 0 THEN None ELSE server[entry'.data]
      /\ was \in Settings \cup {None} /\ now \in Settings \cup {None}
      /\ (entry'.data # 0 => now \in Settings) /\ (entry.data # 0 => was \in Settings)
  BY LoadedIs DEF PageInv, Loaded
<1>3. None \notin Settings /\ \A s \in Settings : s.theme # None.theme
  BY DEF None, Settings, Themes
<1> HIDE DEF was, now
<1>4. now = None => was = None
  BY <1>2, <1>3
<1>5. /\ page' \in PageRow /\ page'.open = p.open
      /\ IF now.theme # was.theme THEN page'.theme = now.theme
         ELSE page'.theme = p.theme /\ page'.crossed = p.crossed
      /\ IF p.open /\ now # was THEN page'.auto = now.auto
         ELSE page'.auto = p.auto /\ page'.unsaved = p.unsaved
  <2>1. page' = Absorb(p, was, now)
    BY DEF was, now
  <2>2. /\ was \in Settings \cup {None} /\ now \in Settings \cup {None}
        /\ (now = None => was = None)
    BY <1>2, <1>4
  <2>3. PICK w \in Settings \cup {None} : w = was
    BY <2>2
  <2>4. PICK n \in Settings \cup {None} : n = now
    BY <2>2
  <2>5. page' = Absorb(p, w, n) /\ (n = None => w = None)
    BY <2>1, <2>2, <2>3, <2>4
  <2>6. /\ page' \in PageRow /\ page'.open = p.open /\ page'.mine = p.mine /\ page'.owner = p.owner
        /\ IF n.theme # w.theme THEN page'.theme = n.theme
           ELSE page'.theme = p.theme /\ page'.crossed = p.crossed
        /\ IF p.open /\ n # w THEN page'.auto = n.auto
           ELSE page'.auto = p.auto /\ page'.unsaved = p.unsaved /\ page'.text = p.text
    BY <2>5, AbsorbIs
  <2> QED  BY <2>3, <2>4, <2>6
<1>6. p.open = page.open /\ p.theme = page.theme /\ p.auto = page.auto
      /\ p.crossed = page.crossed /\ p.unsaved = page.unsaved
  OBVIOUS
<1>7. ThemeShown'
  <2> SUFFICES ASSUME entry'.data # 0, ~page'.crossed
               PROVE  page'.theme = now.theme \/ Carried("theme", page.theme)'
    BY <1>1 DEF ThemeShown, Carried
  <2>1. CASE now.theme # was.theme
    BY <1>5, <2>1
  <2>2. CASE now.theme = was.theme
    <3>1. entry.data # 0 /\ page'.theme = page.theme /\ ~page.crossed
      BY <1>2, <1>3, <1>5, <1>6, <2>2
    <3>2. page.theme = was.theme \/ Carried("theme", page.theme)
      BY <3>1 DEF PageInv, ThemeShown, was
    <3>3. CASE Carried("theme", page.theme)
      <4>1. PICK c \in Calls : calls[c] # NoCall /\ calls[c].job.field = "theme"
                               /\ calls[c].job.value = page.theme
        BY <3>3 DEF Carried
      <4>2. CASE calls'[c] = calls[c]
        BY <3>1, <4>1, <4>2 DEF Carried
      <4>3. CASE calls'[c] # calls[c]
        BY <3>1, <4>1, <4>3 DEF now
      <4> QED  BY <4>2, <4>3
    <3> QED  BY <2>2, <3>1, <3>2, <3>3
  <2> QED  BY <2>1, <2>2
<1>8. PickersShown'
  <2> SUFFICES ASSUME page'.open, entry'.data # 0, ~page'.unsaved
               PROVE  page'.auto = now.auto \/ Carried("auto", page.auto)'
    BY <1>1 DEF PickersShown, Carried
  <2>1. CASE now # was
    BY <1>5, <1>6, <2>1
  <2>2. CASE now = was
    <3>1. entry.data # 0 /\ page'.auto = page.auto /\ ~page.unsaved /\ page.open
      BY <1>2, <1>3, <1>5, <1>6, <2>2
    <3>2. page.auto = was.auto \/ Carried("auto", page.auto)
      BY <3>1 DEF PageInv, PickersShown, was
    <3>3. CASE Carried("auto", page.auto)
      <4>1. PICK c \in Calls : calls[c] # NoCall /\ calls[c].job.field = "auto"
                               /\ calls[c].job.value = page.auto
        BY <3>3 DEF Carried
      <4>2. CASE calls'[c] = calls[c]
        BY <3>1, <4>1, <4>2 DEF Carried
      <4>3. CASE page.auto = 0
        BY <2>2, <3>1, <4>3 DEF PageInv, BlankShown, was
      <4>4. CASE calls'[c] # calls[c] /\ page.auto # 0
        BY <3>1, <4>1, <4>4 DEF now
      <4> QED  BY <4>2, <4>3, <4>4
    <3> QED  BY <2>2, <3>1, <3>2, <3>3
  <2> QED  BY <2>1, <2>2
<1>10. BlankShown'
  <2> SUFFICES ASSUME page'.open, entry'.data # 0, ~page'.unsaved, page'.auto = 0
               PROVE  now.auto = 0
    BY <1>1 DEF BlankShown
  <2>1. CASE now # was
    BY <1>5, <1>6, <2>1
  <2>2. CASE now = was
    <3>1. entry.data # 0 /\ page'.auto = page.auto /\ ~page.unsaved /\ page.open
      BY <1>2, <1>3, <1>5, <1>6, <2>2
    <3> QED  BY <2>2, <3>1 DEF PageInv, BlankShown, was
  <2> QED  BY <2>1, <2>2
<1>9. \A c \in Calls : calls'[c] # NoCall => GoodPatch(calls'[c], server')
  BY DEF PageInv
<1> QED  BY <1>1, <1>5, <1>7, <1>8, <1>9, <1>10 DEF PageInv

-----------------------------------------------------------------------------
\* The steps of the settings page.
LEMMA SettingsStarts == ASSUME SettingsInit  PROVE CacheInv /\ PageInv
<1>0. PICK date \in {0, 1} : CacheInit("settings", [theme |-> 1, text |-> 1, auto |-> date], MaxPatches)
  BY DEF SettingsInit
<1> DEFINE first == [theme |-> 1, text |-> 1, auto |-> date]
<1>1. CacheInit("settings", first, MaxPatches) /\ "settings" \in Queries
  BY <1>0 DEF Queries, AccountQueries
<1>2. first \in Settings
  BY DEF Settings, Themes
<1> HIDE DEF first
<1>3. /\ CacheInv /\ Now = 1 /\ server[1] = first /\ calls = [c \in Calls |-> NoCall]
      /\ query = "settings" /\ entry.data = 0
  BY <1>1, CacheStarts DEF CacheInit, NoEntry
<1>4. page \in PageRow
  BY DEF SettingsInit, PageRow, Themes
<1> QED  BY <1>2, <1>3, <1>4 DEF PageInv, ThemeShown, PickersShown, BlankShown

LEMMA SettingsViewKeeps ==
    ASSUME CacheInv, PageInv, SettingsView  PROVE CacheInv' /\ PageInv' /\ Forward
<1>1. CacheInv' /\ Forward
  BY QueryStepKeeps DEF SettingsView, QueryStep
<1>2. UNCHANGED <<query, server, calls>>
  BY DEF SettingsView, Mount, Age, Focus, Answer, Fill, FetchFails
<1>3. entry'.data \in 0..Now
  BY <1>1, <1>2 DEF CacheInv, CacheTypes, EntryRow, Now
<1>4. entry.data # 0 => entry'.data # 0
  <2>1. CASE Fill
    BY <2>1, CacheOf DEF Fill, CacheInv, AnswersAreNew
  <2>2. CASE Age \/ FetchFails
    BY <2>2, CacheOf DEF Age, FetchFails, EntryRow
  <2>3. CASE Mount \/ Focus \/ Answer
    BY <2>3 DEF Mount, Focus, Answer
  <2> QED  BY <2>1, <2>2, <2>3 DEF SettingsView
<1>5. page' = Absorb(page, Loaded(entry), Loaded(entry')) /\ page \in PageRow
  BY LoadedIs DEF SettingsView
<1>6. PageInv'
  BY <1>2, <1>3, <1>4, <1>5, AbsorbShows
<1> QED  BY <1>1, <1>6

\* A step of the user that leaves the cache alone.
LEMMA UserTurns ==
    ASSUME CacheInv, PageInv, UNCHANGED cacheVars, page' \in PageRow,
           page'.theme = page.theme, page'.crossed = page.crossed,
           \/ ~page'.open
           \/ entry.data = 0
           \/ page'.auto = Loaded(entry).auto
           \/ page'.open = page.open /\ page'.auto = page.auto /\ page'.unsaved = page.unsaved
    PROVE  CacheInv' /\ PageInv' /\ Forward
<1>1. UNCHANGED <<query, server, entry, calls>> /\ Loaded(entry)' = Loaded(entry) /\ Now' = Now
  BY DEF cacheVars, Loaded, Now
<1>2. \A field, value : Carried(field, value)' <=> Carried(field, value)
  BY <1>1 DEF Carried
<1>3. ThemeShown'
  BY <1>1, <1>2 DEF PageInv, ThemeShown, Carried
<1>4. PickersShown'
  BY <1>1, <1>2 DEF PageInv, PickersShown, Carried
<1>5. BlankShown'
  BY <1>1 DEF PageInv, BlankShown
<1> QED  BY <1>1, <1>3, <1>4, <1>5, CacheRests DEF PageInv

LEMMA OpenPageKeeps ==
    ASSUME CacheInv, PageInv, OpenPage  PROVE CacheInv' /\ PageInv' /\ Forward
<1> DEFINE p == [page EXCEPT !.open = TRUE]
<1>1. page' = IF Loaded(entry) = None THEN p ELSE Reseed(p, Loaded(entry))
  BY DEF OpenPage
<1>2. p \in PageRow /\ p.theme = page.theme /\ p.crossed = page.crossed
  BY LoadedIs DEF PageRow
<1> HIDE DEF p
<1>3. CASE Loaded(entry) = None
  <2>1. entry.data = 0
    BY <1>3, LoadedIs DEF Settings
  <2> QED  BY <1>1, <1>2, <1>3, <2>1, UserTurns DEF OpenPage
<1>4. CASE Loaded(entry) # None
  <2>1. PICK now \in Settings \cup {None} : now = Loaded(entry)
    BY LoadedIs
  <2>2. /\ Reseed(p, now) \in PageRow /\ Reseed(p, now).auto = now.auto
        /\ Reseed(p, now).theme = p.theme /\ Reseed(p, now).crossed = p.crossed
    BY <1>2, ReseedIs
  <2> QED  BY <1>1, <1>2, <1>4, <2>1, <2>2, UserTurns DEF OpenPage
<1> QED  BY <1>3, <1>4

LEMMA LeavePageKeeps ==
    ASSUME CacheInv, PageInv, LeavePage  PROVE CacheInv' /\ PageInv' /\ Forward
<1> DEFINE p1 == [page EXCEPT !.open = FALSE]
           p2 == [p1 EXCEPT !.text = 0, !.typed = FALSE]
           p3 == [p2 EXCEPT !.auto = 0]
           p4 == [p3 EXCEPT !.mine = {}]
           p5 == [p4 EXCEPT !.unsaved = FALSE]
<1>1. page' = p5
  BY LoadedIs DEF LeavePage, PageRow
<1>2. p1 \in PageRow /\ p1.open = FALSE /\ p1.theme = page.theme /\ p1.crossed = page.crossed
  BY LoadedIs DEF PageRow
<1> HIDE DEF p1
<1>3. p2 \in PageRow /\ p2.open = FALSE /\ p2.theme = page.theme /\ p2.crossed = page.crossed
  BY <1>2 DEF PageRow
<1> HIDE DEF p2
<1>4. p3 \in PageRow /\ p3.open = FALSE /\ p3.theme = page.theme /\ p3.crossed = page.crossed
  BY <1>3 DEF PageRow
<1> HIDE DEF p3
<1>5. p4 \in PageRow /\ p4.open = FALSE /\ p4.theme = page.theme /\ p4.crossed = page.crossed
  BY <1>4 DEF PageRow
<1> HIDE DEF p4
<1>6. p5 \in PageRow /\ p5.open = FALSE /\ p5.theme = page.theme /\ p5.crossed = page.crossed
  BY <1>5 DEF PageRow
<1> HIDE DEF p5
<1> QED  BY <1>1, <1>6, UserTurns DEF LeavePage

LEMMA TypeTextKeeps ==
    ASSUME CacheInv, PageInv, TypeText  PROVE CacheInv' /\ PageInv' /\ Forward
<1>1. PICK v \in {0, 2} : page' = [page EXCEPT !.text = v, !.typed = TRUE]
  BY DEF TypeText
<1> DEFINE p1 == [page EXCEPT !.text = v]
           p2 == [p1 EXCEPT !.typed = TRUE]
           Same(q) == \A x \in {"open", "theme", "auto", "crossed", "unsaved"} : q[x] = page[x]
<1>2. page' = p2
  BY <1>1
<1>3. p1 \in PageRow /\ Same(p1)
  BY LoadedIs DEF PageRow
<1> HIDE DEF p1
<1>4. p2 \in PageRow /\ Same(p2)
  BY <1>3 DEF PageRow
<1> HIDE DEF p2
<1> QED  BY <1>2, <1>4, UserTurns DEF TypeText

\* A request joins those in flight.
LEMMA PatchTurns ==
    ASSUME CacheInv, PageInv, NEW c \in Calls, NEW job, Send(c, "updateSettings", job),
           UNCHANGED <<query, server, entry, fetch, mounted, own, raced>>, page' \in PageRow,
           \/ job \in [field : {"text"}, value : Nat, back : {0}]
           \/ job \in [field : {"auto"}, value : Int, back : {0}]
           \/ job \in [field : {"theme"}, value : Themes, back : Themes],
           \/ page'.theme = page.theme
           \/ job.field = "theme" /\ job.value = page'.theme,
           page'.crossed = page.crossed, page'.open = page.open,
           \/ page'.auto = page.auto /\ page'.unsaved = page.unsaved
           \/ job.field = "auto" /\ job.value = page'.auto /\ (page'.auto = 0 => page'.unsaved)
    PROVE  CacheInv' /\ PageInv' /\ Forward
<1> DEFINE call == Posted("updateSettings", job)
<1>1. CacheInv' /\ Forward
  BY SettingsEffect, SendKeeps
<1>2. /\ calls[c].state = "none" /\ calls' = [calls EXCEPT ![c] = call]
      /\ call # NoCall /\ call.state = "sent" /\ call.job = job
  BY SendIs
<1>3. call.effect.touches = TRUE /\ call.effect.sets = TRUE
  BY SettingsEffect, LoadedIs DEF Posted
<1> HIDE DEF call
<1>4. /\ calls[c] = NoCall /\ calls'[c] = call
      /\ \A d \in Calls : d # c => calls'[d] = calls[d]
  BY <1>2, InFlight DEF CacheInv, GoodCacheCalls
<1>5. GoodPatch(call, server)
  BY <1>2, <1>3 DEF GoodPatch
<1>6. \A d \in Calls : calls'[d] # NoCall => GoodPatch(calls'[d], server')
  BY <1>4, <1>5 DEF PageInv
<1>7. \A field, value : Carried(field, value) \/ (field = job.field /\ value = job.value)
                          => \E d \in Calls : /\ calls'[d] # NoCall /\ calls'[d].job.field = field
                                              /\ calls'[d].job.value = value
  BY <1>2, <1>4 DEF Carried
<1>8. Loaded(entry)' = Loaded(entry) /\ Now' = Now
  BY DEF Loaded, Now
<1>9. ThemeShown'
  <2> SUFFICES ASSUME entry.data # 0, ~page.crossed
               PROVE  \/ page'.theme = Loaded(entry).theme
                      \/ \E d \in Calls : /\ calls'[d] # NoCall /\ calls'[d].job.field = "theme"
                                           /\ calls'[d].job.value = page'.theme
    BY <1>8 DEF ThemeShown, Carried
  <2>1. page.theme = Loaded(entry).theme \/ Carried("theme", page.theme)
    BY DEF PageInv, ThemeShown
  <2> QED  BY <1>7, <2>1
<1>10. PickersShown'
  BY <1>7, <1>8 DEF PageInv, PickersShown, Carried
<1>11. BlankShown'
  BY <1>8 DEF PageInv, BlankShown
<1> QED  BY <1>1, <1>6, <1>8, <1>9, <1>10, <1>11 DEF PageInv

LEMMA MineOf ==
    ASSUME NEW p \in PageRow, NEW c \in Calls
    PROVE  /\ Mine(c, p) \in PageRow /\ [p EXCEPT !.mine = p.mine \ {c}] \in PageRow
           /\ \A x \in {"owner", "open", "theme", "auto", "crossed", "unsaved", "text", "typed"} :
                Mine(c, p)[x] = p[x] /\ [p EXCEPT !.mine = p.mine \ {c}][x] = p[x]
BY DEF PageRow, Mine

LEMMA SettingsRequestKeeps ==
    ASSUME CacheInv, PageInv, NEW c \in Calls, SaveText(c) \/ AutoSave(c) \/ PickTheme(c)
    PROVE  CacheInv' /\ PageInv' /\ Forward
<1>1. CASE SaveText(c)
  <2> DEFINE job == [field |-> "text", value |-> page.text, back |-> 0]
  <2>1. /\ Send(c, "updateSettings", job) /\ page' = Mine(c, page)
        /\ UNCHANGED <<query, server, entry, fetch, mounted, own, raced>>
    BY <1>1 DEF SaveText, Patch
  <2>2. job \in [field : {"text"}, value : Nat, back : {0}]
    BY LoadedIs DEF PageRow
  <2> HIDE DEF job
  <2>3. /\ page' \in PageRow /\ page'.theme = page.theme /\ page'.crossed = page.crossed
        /\ page'.open = page.open /\ page'.auto = page.auto /\ page'.unsaved = page.unsaved
    BY <2>1, LoadedIs, MineOf
  <2> QED  BY <2>1, <2>2, <2>3, PatchTurns
<1>2. CASE AutoSave(c)
  <2>0. PICK v \in {0, 2} :
          /\ Patch(c, "auto", v, 0)
          /\ page' = Mine(c, [page EXCEPT !.auto = v, !.unsaved = (v = 0)])
    BY <1>2 DEF AutoSave
  <2> DEFINE job == [field |-> "auto", value |-> v, back |-> 0]
             p1 == [page EXCEPT !.auto = v]
             p2 == [p1 EXCEPT !.unsaved = (v = 0)]
  <2>1. /\ Send(c, "updateSettings", job) /\ page' = Mine(c, p2)
        /\ UNCHANGED <<query, server, entry, fetch, mounted, own, raced>>
    BY <2>0 DEF Patch
  <2>2. v \in Int
    OBVIOUS
  <2>3. job \in [field : {"auto"}, value : Int, back : {0}] /\ job.field = "auto" /\ job.value = v
    BY <2>2
  <2> HIDE DEF job
  <2>4. /\ p1 \in PageRow /\ p1.theme = page.theme /\ p1.crossed = page.crossed
        /\ p1.open = page.open /\ p1.auto = v
    BY <2>2, LoadedIs DEF PageRow
  <2> HIDE DEF p1
  <2>5. /\ p2 \in PageRow /\ p2.theme = page.theme /\ p2.crossed = page.crossed
        /\ p2.open = page.open /\ p2.auto = v /\ p2.unsaved = (v = 0)
    BY <2>4 DEF PageRow
  <2> HIDE DEF p2
  <2>6. /\ page' \in PageRow /\ page'.theme = page.theme /\ page'.crossed = page.crossed
        /\ page'.open = page.open /\ page'.auto = v /\ page'.unsaved = (v = 0)
    BY <2>1, <2>5, MineOf
  <2> QED  BY <2>1, <2>3, <2>6, PatchTurns
<1>3. CASE PickTheme(c)
  <2>1. PICK id \in Themes \ {Current} :
          Patch(c, "theme", id, Current) /\ page' = Mine(c, [page EXCEPT !.theme = id])
    BY <1>3 DEF PickTheme
  <2> DEFINE job == [field |-> "theme", value |-> id, back |-> Current]
             p == [page EXCEPT !.theme = id]
  <2>2. /\ Send(c, "updateSettings", job) /\ page' = Mine(c, p)
        /\ UNCHANGED <<query, server, entry, fetch, mounted, own, raced>>
    BY <2>1 DEF Patch
  <2>3. Current \in Themes
    BY DEF Current, normalizeTheme, DefaultTheme, Themes
  <2>4. /\ job \in [field : {"theme"}, value : Themes, back : Themes]
        /\ job.field = "theme" /\ job.value = id
    BY <2>1, <2>3
  <2> HIDE DEF job
  <2>5. /\ p \in PageRow /\ p.theme = id /\ p.crossed = page.crossed
        /\ p.open = page.open /\ p.auto = page.auto /\ p.unsaved = page.unsaved
    BY <2>1, LoadedIs DEF PageRow
  <2> HIDE DEF p
  <2>6. /\ page' \in PageRow /\ page'.theme = id /\ page'.crossed = page.crossed
        /\ page'.open = page.open /\ page'.auto = page.auto /\ page'.unsaved = page.unsaved
    BY <2>2, <2>5, MineOf
  <2> QED  BY <2>2, <2>4, <2>6, PatchTurns
<1> QED  BY <1>1, <1>2, <1>3

\* The server's versions grow under the page.
LEMMA SettingsGrow ==
    ASSUME CacheInv, PageInv, UNCHANGED <<query, entry, page>>,
           NEW value \in Settings, server' \in {server, Append(server, value)},
           \A c \in Calls : /\ (calls'[c] # NoCall) = (calls[c] # NoCall)
                            /\ calls[c] # NoCall => calls'[c].job = calls[c].job
                            /\ calls'[c] # NoCall => GoodPatch(calls'[c], server')
    PROVE  PageInv'
<1>1. /\ \A n \in 1..Now : server[n] \in Settings /\ server'[n] = server[n]
      /\ Now \in Nat /\ entry.data \in 0..Now
      /\ \A n \in 1..Now' : server'[n] \in Settings
  <2>1. (\A n \in 1..Now : server[n] \in Settings) /\ Now \in Nat /\ entry.data \in 0..Now
    BY CacheOf, LoadedIs DEF PageInv
  <2>2. CASE server' = server
    BY <2>1, <2>2 DEF Now
  <2>3. CASE server' = Append(server, value)
    <3>1. /\ Now' = Now + 1 /\ server'[Now + 1] = value
          /\ \A n \in 1..Now : server'[n] = server[n]
      BY <2>3, GrowsAreVersions DEF Now
    <3>2. \A n \in 1..(Now + 1) : n \in 1..Now \/ n = Now + 1
      BY <2>1
    <3> QED  BY <2>1, <3>1, <3>2
  <2> QED  BY <2>2, <2>3
<1>2. Loaded(entry)' = Loaded(entry)
  BY <1>1 DEF Loaded
<1>3. ThemeShown'
  BY <1>2 DEF PageInv, ThemeShown, Carried
<1>4. PickersShown'
  BY <1>2 DEF PageInv, PickersShown, Carried
<1>5. BlankShown'
  BY <1>2 DEF PageInv, BlankShown
<1> QED  BY <1>1, <1>3, <1>4, <1>5 DEF PageInv

\* A request stored stays in its version.
LEMMA PatchStays ==
    ASSUME CacheInv, PageInv, NEW c \in Calls, calls[c] # NoCall, NEW versions,
           \A n \in 1..Now : versions[n] = server[n]
    PROVE  GoodPatch(calls[c], versions)
<1>1. GoodPatch(calls[c], server)
  BY DEF PageInv
<1>2. calls[c].state = "applied" => calls[c].rev \in 1..Now
  BY <1>1, CacheOf DEF GoodPatch, CacheInv, GoodCacheCalls, GoodCacheCall
<1> QED  BY <1>1, <1>2 DEF GoodPatch

LEMMA StoreKeeps ==
    ASSUME CacheInv, PageInv, NEW c \in Calls, Store(c)
    PROVE  CacheInv' /\ PageInv' /\ Forward
<1> DEFINE job == calls[c].job
           last == server[Now]
           value == Patched(job, last)
<1>1. Apply(c, value) /\ page' = page /\ calls[c].state = "sent"
  BY DEF Store
<1>2. CacheInv' /\ Forward
  BY <1>1, ApplyKeeps
<1>3. GoodPatch(calls[c], server) /\ calls[c] # NoCall
  BY <1>1, InFlight DEF PageInv
<1>4. last \in Settings
  BY CacheOf DEF PageInv
<1>5. /\ value \in Settings
      /\ job.field = "auto" /\ job.value # 0 => value.auto = job.value
      /\ job.field = "theme" => value.theme = job.value
  <2> HIDE DEF last
  <2>1. CASE job \in [field : {"text"}, value : Nat, back : {0}]
    BY <1>4, <2>1 DEF Patched, Settings
  <2>2. CASE job \in [field : {"auto"}, value : Int, back : {0}]
    BY <1>4, <2>2 DEF Patched, Settings
  <2>3. CASE job \in [field : {"theme"}, value : Themes, back : Themes]
    BY <1>4, <2>3 DEF Patched, Settings
  <2> QED  BY <1>3, <2>1, <2>2, <2>3 DEF GoodPatch
<1> HIDE DEF value
<1>6. /\ server' = Append(server, value) /\ UNCHANGED <<query, entry, mounted>>
      /\ calls'[c].job = job /\ calls'[c].state = "applied" /\ calls'[c] # NoCall
      /\ calls'[c].effect = calls[c].effect /\ calls'[c].rev = Now'
      /\ \A d \in Calls : d # c => calls'[d] = calls[d]
  BY <1>1, <1>3, ApplyIs DEF GoodPatch
<1>7. /\ Now' = Now + 1 /\ server'[Now + 1] = value
      /\ \A n \in 1..Now : server'[n] = server[n]
  BY <1>6, GrowsAreVersions DEF Now
<1>8. GoodPatch(calls'[c], server')
  BY <1>3, <1>5, <1>6, <1>7 DEF GoodPatch
<1>9. \A d \in Calls : d # c /\ calls'[d] # NoCall => GoodPatch(calls'[d], server')
  BY <1>6, <1>7, PatchStays
<1>10. \A d \in Calls : /\ (calls'[d] # NoCall) = (calls[d] # NoCall)
                        /\ calls[d] # NoCall => calls'[d].job = calls[d].job
                        /\ calls'[d] # NoCall => GoodPatch(calls'[d], server')
  BY <1>3, <1>6, <1>8, <1>9
<1>11. PageInv'
  BY <1>1, <1>5, <1>6, <1>10, SettingsGrow
<1> QED  BY <1>2, <1>11

LEMMA SettingsElsewhereKeeps ==
    ASSUME CacheInv, PageInv, SettingsElsewhere  PROVE CacheInv' /\ PageInv' /\ Forward
<1>1. PICK v \in {[server[Now] EXCEPT !.theme = 3 - @], [server[Now] EXCEPT !.text = 3]} :
        ForeignWrite(v)
  BY DEF SettingsElsewhere
<1>2. CacheInv' /\ Forward
  BY <1>1, ForeignKeeps
<1>3. server[Now] \in Settings
  BY CacheOf DEF PageInv
<1>4. v \in Settings
  BY <1>1, <1>3 DEF Settings, Themes
<1>5. server' = Append(server, v) /\ UNCHANGED <<query, entry, calls, page>>
  BY <1>1 DEF ForeignWrite, SettingsElsewhere
<1>6. \A n \in 1..Now : server'[n] = server[n]
  BY <1>5, GrowsAreVersions
<1>7. \A d \in Calls : calls[d] # NoCall => GoodPatch(calls[d], server')
  BY <1>6, PatchStays
<1>8. PageInv'
  BY <1>4, <1>5, <1>7, SettingsGrow
<1> QED  BY <1>2, <1>8

\* Answers to the settings.
LEMMA SavedKeeps ==
    ASSUME CacheInv, PageInv, NEW c \in Calls, Saved(c)
    PROVE  CacheInv' /\ PageInv' /\ Forward
<1>1. Succeed(c) /\ page' = Absorb([page EXCEPT !.mine = page.mine \ {c}], Loaded(entry), Loaded(entry'))
  BY LoadedIs DEF Saved, PageRow
<1>2. CacheInv' /\ Forward
  BY <1>1, SucceedKeeps
<1>3. /\ calls[c].state = "applied" /\ calls' = [calls EXCEPT ![c] = NoCall]
      /\ UNCHANGED <<query, server, mounted>>
      /\ entry' = [Overwritten(calls[c].effect, calls[c].rev) EXCEPT !.stale = @ \/ calls[c].effect.marks]
  BY <1>1 DEF Succeed, Settle
<1>4. GoodPatch(calls[c], server) /\ calls[c] # NoCall
  BY <1>3, InFlight DEF PageInv
<1>5. calls[c].rev \in 1..Now
  BY <1>3, <1>4, CacheOf DEF GoodPatch, CacheInv, GoodCacheCalls, GoodCacheCall
<1>6. entry'.data = calls[c].rev
  BY <1>3, <1>4 DEF GoodPatch, Overwritten
<1>7. /\ calls'[c] = NoCall /\ \A d \in Calls : d # c => calls'[d] = calls[d]
  BY <1>3 DEF CacheInv, GoodCacheCalls
<1>8. Loaded(entry') = server[calls[c].rev]
  BY <1>5, <1>6 DEF Loaded
<1>9. /\ calls[c].job.field = "theme" => Loaded(entry').theme = calls[c].job.value
      /\ calls[c].job.field = "auto" /\ calls[c].job.value # 0 => Loaded(entry').auto = calls[c].job.value
  BY <1>3, <1>4, <1>8 DEF GoodPatch
<1>10. PageInv'
  <2> DEFINE p == [page EXCEPT !.mine = page.mine \ {c}]
  <2>1. /\ p \in PageRow
        /\ \A x \in {"open", "owner", "theme", "auto", "crossed", "unsaved", "text"} : p[x] = page[x]
    BY LoadedIs, MineOf
  <2>2. page' = Absorb(p, Loaded(entry), Loaded(entry'))
    BY <1>1
  <2> HIDE DEF p
  <2>3. entry'.data \in 0..Now /\ entry'.data # 0 /\ UNCHANGED <<query, server>>
    BY <1>3, <1>5, <1>6, CacheOf
  <2>4. \A d \in Calls : calls[d] # NoCall /\ calls'[d] # calls[d] =>
              /\ calls'[d] = NoCall /\ entry'.data # 0
              /\ calls[d].job.field = "theme" => Loaded(entry').theme = calls[d].job.value
              /\ calls[d].job.field = "auto" /\ calls[d].job.value # 0 => Loaded(entry').auto = calls[d].job.value
    BY <1>7, <1>9, <2>3
  <2>5. \A d \in Calls : calls[d] = NoCall => calls'[d] = NoCall
    BY <1>7
  <2> QED  BY <2>1, <2>2, <2>3, <2>4, <2>5, AbsorbShows
<1> QED  BY <1>2, <1>10

LEMMA NotSavedKeeps ==
    ASSUME CacheInv, PageInv, NEW c \in Calls, NotSaved(c)
    PROVE  CacheInv' /\ PageInv' /\ Forward
<1> DEFINE job == calls[c].job
           p == [page EXCEPT !.mine = page.mine \ {c}]
<1>1. /\ Fail(c) /\ page' = Rollback(p, job) /\ calls[c].state # "none"
      /\ calls' = [calls EXCEPT ![c] = NoCall] /\ UNCHANGED <<query, server, entry>>
  BY LoadedIs DEF NotSaved, Fail, PageRow
<1>2. CacheInv' /\ Forward
  BY <1>1, FailKeeps
<1>3. GoodPatch(calls[c], server) /\ calls[c] # NoCall
  BY <1>1, InFlight DEF PageInv
<1>4. /\ p \in PageRow /\ p.open = page.open /\ p.theme = page.theme /\ p.auto = page.auto
      /\ p.crossed = page.crossed /\ p.unsaved = page.unsaved
  BY LoadedIs, MineOf
<1> HIDE DEF p
<1>5. /\ calls'[c] = NoCall /\ \A d \in Calls : d # c => calls'[d] = calls[d]
  BY <1>1 DEF CacheInv, GoodCacheCalls
<1>6. \A d \in Calls : calls'[d] # NoCall => GoodPatch(calls'[d], server')
  BY <1>1, <1>5 DEF PageInv
<1>7. \A field, value : Carried(field, value) /\ field # job.field
                          => \E d \in Calls : /\ calls'[d] # NoCall /\ calls'[d].job.field = field
                                              /\ calls'[d].job.value = value
  BY <1>5 DEF Carried
<1>8. Loaded(entry)' = Loaded(entry) /\ Now' = Now
  BY <1>1 DEF Loaded, Now
<1>9. CASE job.field = "theme"
  <2> DEFINE q == [p EXCEPT !.theme = job.back]
             crossed == job.back # Current
  <2>1. page' = [q EXCEPT !.crossed = crossed]
    BY <1>1, <1>9 DEF Rollback
  <2>2. job.back \in Themes /\ crossed \in BOOLEAN
    BY <1>3, <1>9 DEF GoodPatch
  <2>3. /\ q \in PageRow /\ q.theme = job.back /\ q.open = page.open /\ q.auto = page.auto
        /\ q.unsaved = page.unsaved
    BY <1>4, <2>2 DEF PageRow
  <2> HIDE DEF q
  <2>4. /\ page' \in PageRow /\ page'.theme = job.back /\ page'.open = page.open /\ page'.auto = page.auto
        /\ page'.unsaved = page.unsaved /\ page'.crossed = crossed
    BY <2>1, <2>2, <2>3 DEF PageRow
  <2>5. entry.data # 0 => Current = Loaded(entry).theme
    BY LoadedIs DEF Current, normalizeTheme, Settings
  <2>6. ThemeShown'
    BY <1>1, <1>8, <2>4, <2>5 DEF ThemeShown
  <2>7. PickersShown'
    BY <1>1, <1>7, <1>8, <1>9, <2>4 DEF PageInv, PickersShown, Carried
  <2>8. BlankShown'
    BY <1>1, <1>8, <2>4 DEF PageInv, BlankShown
  <2> QED  BY <1>1, <1>2, <1>6, <1>8, <2>4, <2>6, <2>7, <2>8 DEF PageInv
<1>10. CASE job.field # "theme"
  <2>1. page' = [p EXCEPT !.unsaved = @ \/ (p.open /\ job.field = "auto")]
    BY <1>1, <1>10 DEF Rollback
  <2>2. /\ page' \in PageRow /\ page'.theme = page.theme /\ page'.open = page.open
        /\ page'.auto = page.auto /\ page'.crossed = page.crossed
        /\ page'.unsaved = (page.unsaved \/ (page.open /\ job.field = "auto"))
    BY <1>4, <2>1 DEF PageRow
  <2>3. ThemeShown'
    BY <1>1, <1>7, <1>8, <1>10, <2>2 DEF PageInv, ThemeShown, Carried
  <2>4. PickersShown'
    <3> SUFFICES ASSUME page.open, entry.data # 0, ~page.unsaved, job.field # "auto"
                 PROVE  \/ page.auto = Loaded(entry).auto
                        \/ \E d \in Calls : /\ calls'[d] # NoCall /\ calls'[d].job.field = "auto"
                                             /\ calls'[d].job.value = page.auto
      BY <1>1, <1>8, <2>2 DEF PickersShown, Carried
    <3>1. page.auto = Loaded(entry).auto \/ Carried("auto", page.auto)
      BY DEF PageInv, PickersShown
    <3> QED  BY <1>7, <3>1
  <2>5. BlankShown'
    BY <1>1, <1>8, <2>2 DEF PageInv, BlankShown
  <2> QED  BY <1>1, <1>2, <1>6, <1>8, <2>2, <2>3, <2>4, <2>5 DEF PageInv
<1> QED  BY <1>9, <1>10

LEMMA SettingsStepKeeps ==
    ASSUME CacheInv, PageInv, SettingsStep  PROVE CacheInv' /\ PageInv' /\ Forward
BY SettingsViewKeeps, OpenPageKeeps, LeavePageKeeps, TypeTextKeeps, SettingsElsewhereKeeps,
   SettingsRequestKeeps, StoreKeeps, SavedKeeps, NotSavedKeeps DEF SettingsStep

-----------------------------------------------------------------------------
\* The steps of the file browser.
LEMMA ArrivedStays ==
    ASSUME CacheInv, NEW versions, Len(versions) \in Nat, Now <= Len(versions),
           \A n \in 1..Now : versions[n] = server[n]
    PROVE  \A f, folder : Arrived(f, folder, server) => Arrived(f, folder, versions)
<1>1. 1..Now \subseteq 1..Len(versions)
  BY CacheOf
<1> QED  BY <1>1 DEF Arrived, Now

LEMMA FileCallStays ==
    ASSUME NEW call, NEW b, NEW c, NEW versions, NEW later,
           GoodFileCall(call, b, versions), c.at = b.at, c.picked = b.picked,
           \A f, folder : Arrived(f, folder, versions) => Arrived(f, folder, later)
    PROVE  GoodFileCall(call, c, later)
BY DEF GoodFileCall

\* A step that keeps the batch: what it says of the files not reported yet.
LEMMA BrowserTurns ==
    ASSUME CacheInv, BrowserInv, query' = query, browser' \in BrowserRow,
           browser'.at = browser.at, browser'.picked = browser.picked,
           Now' \in Nat, Now <= Now', \A n \in 1..Now : server'[n] = server[n],
           \A n \in 1..Now' : server'[n] \in [Folders -> SUBSET Names],
           \A c \in Calls : calls'[c] # NoCall =>
              calls'[c] = calls[c] \/ GoodFileCall(calls'[c], browser', server'),
           ~browser.picked => browser'.ok = browser.ok /\ browser'.queue = browser.queue,
           browser.picked => \A f \in Picked :
              f \in browser.ok \cup browser.failed \/ InQueue(f) \/ Travels(f)
                => \/ f \in browser'.ok \cup browser'.failed
                   \/ InQueue(f)' \/ Travels(f)',
           \A f \in browser'.ok : f \in browser.ok \/ Arrived(f, browser.at, server)
    PROVE  BrowserInv'
<1>1. \A f, folder : Arrived(f, folder, server) => Arrived(f, folder, server')
  BY ArrivedStays DEF Now
<1>2. \A c \in Calls : calls'[c] # NoCall => GoodFileCall(calls'[c], browser', server')
  <2> SUFFICES ASSUME NEW c \in Calls, calls'[c] # NoCall, calls'[c] = calls[c]
               PROVE  GoodFileCall(calls'[c], browser', server')
    OBVIOUS
  <2>1. GoodFileCall(calls[c], browser, server)
    BY DEF BrowserInv
  <2> QED  BY <1>1, <2>1, FileCallStays
<1>3. Tracked'
  <2>1. CASE browser.picked
    BY <2>1 DEF BrowserInv, Tracked
  <2>2. CASE ~browser.picked
    BY <2>2 DEF BrowserInv, Tracked
  <2> QED  BY <2>1, <2>2
<1>4. \A f \in browser'.ok : Arrived(f, browser'.at, server')
  BY <1>1 DEF BrowserInv
<1> QED  BY <1>2, <1>3, <1>4 DEF BrowserInv

LEMMA BrowserIs ==
    ASSUME CacheInv, BrowserInv
    PROVE  /\ query = "files/list" /\ browser \in BrowserRow /\ Now \in Nat /\ Now >= 1
           /\ \A n \in 1..Now : server[n] \in [Folders -> SUBSET Names]
           /\ \A c \in Calls : calls[c] # NoCall => GoodFileCall(calls[c], browser, server)
BY CacheOf DEF BrowserInv

LEMMA FilesStart == ASSUME FilesInit  PROVE CacheInv /\ BrowserInv
<1> DEFINE first == [root |-> {}, X |-> {"e"}]
<1>1. CacheInit("files/list", first, MaxFileCalls) /\ "files/list" \in Queries
  BY DEF FilesInit, Queries, FileQueries
<1>2. first \in [Folders -> SUBSET Names]
  BY DEF Folders, Names
<1> HIDE DEF first
<1>3. /\ CacheInv /\ Now = 1 /\ server[1] = first /\ calls = [c \in Calls |-> NoCall]
      /\ query = "files/list"
  BY <1>1, CacheStarts DEF CacheInit
<1>4. browser \in BrowserRow /\ browser.picked = FALSE /\ browser.ok = {} /\ browser.queue = <<>>
  BY DEF FilesInit, BrowserRow, Folders, Picked
<1> QED  BY <1>2, <1>3, <1>4 DEF BrowserInv, Tracked

LEMMA FilesViewKeeps ==
    ASSUME CacheInv, BrowserInv, FilesView \/ GoTo  PROVE CacheInv' /\ BrowserInv' /\ Forward
<1>1. CacheInv' /\ Forward
  BY QueryStepKeeps DEF FilesView, GoTo, QueryStep
<1>2. UNCHANGED <<query, server, calls>> /\ Now' = Now
  BY DEF FilesView, GoTo, Mount, Unmount, Answer, Fill, FetchFails, Now
<1>3. /\ browser' \in BrowserRow
      /\ browser'.at = browser.at /\ browser'.picked = browser.picked
      /\ browser'.ok = browser.ok /\ browser'.failed = browser.failed /\ browser'.queue = browser.queue
  <2>1. \/ browser' = browser \/ browser' = [browser EXCEPT !.prefix = "X"]
        \/ browser' = [browser EXCEPT !.prefix = "root"]
    BY DEF FilesView, GoTo
  <2>2. \A prefix \in Folders :
          /\ [browser EXCEPT !.prefix = prefix] \in BrowserRow
          /\ \A x \in {"at", "picked", "ok", "failed", "queue"} :
               [browser EXCEPT !.prefix = prefix][x] = browser[x]
    BY BrowserIs DEF BrowserRow
  <2> QED  BY <2>1, <2>2, BrowserIs DEF Folders
<1>4. \A f \in Picked : (InQueue(f)' <=> InQueue(f)) /\ (Travels(f)' <=> Travels(f))
  BY <1>2, <1>3 DEF InQueue, Travels
<1>5. BrowserInv'
  BY <1>2, <1>3, <1>4, BrowserIs, BrowserTurns
<1> QED  BY <1>1, <1>5

LEMMA PickFilesKeeps ==
    ASSUME CacheInv, BrowserInv, PickFiles  PROVE CacheInv' /\ BrowserInv' /\ Forward
<1> DEFINE b1 == [browser EXCEPT !.queue = Batch]
           b2 == [b1 EXCEPT !.at = browser.prefix]
           b3 == [b2 EXCEPT !.picked = TRUE]
<1>1. browser' = b3 /\ ~browser.picked /\ UNCHANGED cacheVars
  BY BrowserIs DEF PickFiles, BrowserRow
<1>2. b1 \in BrowserRow /\ b1.queue = Batch /\ b1.ok = browser.ok
  BY BrowserIs DEF BrowserRow
<1> HIDE DEF b1
<1>3. b2 \in BrowserRow /\ b2.queue = Batch /\ b2.ok = browser.ok
  BY <1>2, BrowserIs DEF BrowserRow
<1> HIDE DEF b2
<1>4. b3 \in BrowserRow /\ b3.queue = Batch /\ b3.ok = browser.ok /\ b3.picked = TRUE
  BY <1>3 DEF BrowserRow
<1> HIDE DEF b3
<1>5. browser.ok = {}
  BY <1>1 DEF BrowserInv, Tracked
<1>6. \A c \in Calls : calls[c] # NoCall => GoodFileCall(calls[c], browser', server)
  BY <1>1, BrowserIs DEF GoodFileCall
<1>7. Tracked'
  <2>1. Batch # <<>>
    BY DEF Batch
  <2> QED  BY <1>1, <1>4, <2>1 DEF Tracked, InQueue, Picked
<1>8. BrowserInv'
  BY <1>1, <1>4, <1>5, <1>6, <1>7, BrowserIs DEF BrowserInv, cacheVars, Now
<1> QED  BY <1>1, <1>8, CacheRests

\* A request joins those in flight.
LEMMA AskTurns ==
    ASSUME CacheInv, BrowserInv, NEW c \in Calls, NEW hook \in DOMAIN Mutations, NEW job,
           Ask(c, hook, job), browser' \in BrowserRow,
           browser'.at = browser.at, browser'.picked = browser.picked, browser'.ok = browser.ok,
           browser'.failed = browser.failed,
           GoodFileCall(Posted(hook, job), browser, server),
           ~browser.picked => browser'.queue = browser.queue,
           \A f \in Picked : InQueue(f) => InQueue(f)' \/ (job.kind = "put" /\ job.file = f)
    PROVE  CacheInv' /\ BrowserInv' /\ Forward
<1> DEFINE call == Posted(hook, job)
<1>1. Send(c, hook, job) /\ UNCHANGED <<query, server, entry, fetch, mounted, own, raced>> /\ Now' = Now
  BY DEF Ask, Now
<1>2. CacheInv' /\ Forward
  BY <1>1, SendKeeps
<1>3. /\ calls[c].state = "none" /\ calls' = [calls EXCEPT ![c] = call]
      /\ call # NoCall /\ call.job = job
  BY <1>1, SendIs
<1> HIDE DEF call
<1>4. /\ calls[c] = NoCall /\ calls'[c] = call
      /\ \A d \in Calls : d # c => calls'[d] = calls[d]
  BY <1>3, InFlight DEF CacheInv, GoodCacheCalls
<1>5. GoodFileCall(call, browser', server')
  <2>1. GoodFileCall(call, browser, server)
    BY DEF call
  <2> QED  BY <1>1, <2>1, FileCallStays
<1>6. \A d \in Calls : calls'[d] # NoCall =>
              calls'[d] = calls[d] \/ GoodFileCall(calls'[d], browser', server')
  BY <1>4, <1>5
<1>7. \A f \in Picked : Travels(f) \/ (job.kind = "put" /\ job.file = f) => Travels(f)'
  BY <1>3, <1>4 DEF Travels
<1>8. BrowserInv'
  BY <1>1, <1>6, <1>7, BrowserIs, BrowserTurns
<1> QED  BY <1>2, <1>8

LEMMA FileHooks ==
    {"uploadFile", "moveEntry", "deleteEntry", "createFolder", "syncMoodle"} \subseteq DOMAIN Mutations
<1>1. DOMAIN FileMutations = {"syncMoodle", "uploadFile", "deleteEntry", "createFolder", "moveEntry"}
  BY DEF FileMutations
<1>2. DOMAIN FileMutations \subseteq DOMAIN Mutations
  BY DEF Mutations, Groups
<1> QED  BY <1>1, <1>2

LEMMA UploadNextKeeps ==
    ASSUME CacheInv, BrowserInv, NEW c \in Calls, UploadNext(c)
    PROVE  CacheInv' /\ BrowserInv' /\ Forward
<1> DEFINE job == [kind |-> "put", file |-> Head(browser.queue), folder |-> browser.at]
<1>1. /\ browser.queue # <<>> /\ Ask(c, "uploadFile", job)
      /\ browser' = [browser EXCEPT !.queue = Tail(browser.queue)]
  BY BrowserIs DEF UploadNext, UploadFolder, BrowserRow
<1>2. browser.picked /\ browser.queue \in {<<"g">>, Batch}
  BY <1>1, BrowserIs DEF BrowserInv, Tracked, BrowserRow
<1>3. /\ Tail(browser.queue) \in {<<>>, <<"g">>, Batch} /\ Head(browser.queue) \in Picked
      /\ \A f \in Picked : InQueue(f) =>
           \/ f = Head(browser.queue)
           \/ (f = "f" /\ Tail(browser.queue) = Batch) \/ (f = "g" /\ Tail(browser.queue) # <<>>)
  <2>1. CASE browser.queue = <<"g">>
    BY <2>1 DEF InQueue, Picked, Batch
  <2>2. CASE browser.queue = Batch
    <3>1. Head(browser.queue) = "f" /\ Tail(browser.queue) = <<"g">> /\ <<"g">> # <<>>
      BY <2>2 DEF Batch
    <3> QED  BY <3>1 DEF Picked
  <2> QED  BY <1>2, <2>1, <2>2
<1>4. /\ browser' \in BrowserRow /\ browser'.queue = Tail(browser.queue)
      /\ \A x \in {"at", "picked", "ok", "failed"} : browser'[x] = browser[x]
  BY <1>1, <1>3, BrowserIs DEF BrowserRow
<1>5. GoodFileCall(Posted("uploadFile", job), browser, server)
  <2>1. browser.at \in Folders /\ Head(browser.queue) \in Names
    BY <1>3, BrowserIs DEF BrowserRow, Picked, Names
  <2>2. Posted("uploadFile", job).effect.touches /\ Posted("uploadFile", job).state = "sent"
        /\ Posted("uploadFile", job).job = job
    BY UploadEffect, BrowserIs DEF Posted
  <2> QED  BY <1>2, <1>3, <2>1, <2>2 DEF GoodFileCall
<1>6. /\ job.kind = "put" /\ job.file = Head(browser.queue)
      /\ \A f \in Picked : InQueue(f) => InQueue(f)' \/ (job.kind = "put" /\ job.file = f)
  BY <1>3, <1>4 DEF InQueue
<1> HIDE DEF job
<1> QED  BY <1>1, <1>2, <1>4, <1>5, <1>6, FileHooks, AskTurns

LEMMA ActionKeeps ==
    ASSUME CacheInv, BrowserInv, NEW c \in Calls, RowAction(c) \/ FolderAction(c)
    PROVE  CacheInv' /\ BrowserInv' /\ Forward
<1>1. PICK hook \in {"moveEntry", "deleteEntry", "createFolder", "syncMoodle"},
           kind \in {"move", "delete", "folder", "sync"}, file \in Names, folder \in Folders :
        Ask(c, hook, [kind |-> kind, file |-> file, folder |-> folder])
  <2>1. CASE RowAction(c)
    <3>1. PICK f \in Listing :
            \/ Ask(c, "moveEntry", [kind |-> "move", file |-> f, folder |-> "X"])
            \/ Ask(c, "deleteEntry", [kind |-> "delete", file |-> f, folder |-> "X"])
      BY <2>1 DEF RowAction
    <3>2. f \in Names
      <4>1. f \in server[entry.data]["X"] /\ entry.data \in 1..Now
        BY CacheOf DEF Listing, EntryRow
      <4> QED  BY <4>1, BrowserIs DEF Folders
    <3> QED  BY <3>1, <3>2 DEF Folders
  <2>2. CASE FolderAction(c)
    BY <2>2, BrowserIs DEF FolderAction, BrowserRow, Folders, Names
  <2> QED  BY <2>1, <2>2
<1> DEFINE job == [kind |-> kind, file |-> file, folder |-> folder]
<1>2. GoodFileCall(Posted(hook, job), browser, server)
  BY DEF GoodFileCall, Posted
<1>3. Ask(c, hook, job) /\ browser' = browser
  BY <1>1 DEF RowAction, FolderAction
<1> HIDE DEF job
<1>4. \A f \in Picked : InQueue(f) => InQueue(f)'
  BY <1>3 DEF InQueue
<1> QED  BY <1>2, <1>3, <1>4, BrowserIs, FileHooks, AskTurns

LEMMA MovedIs ==
    ASSUME NEW job \in [kind : {"put", "move", "delete", "folder", "sync"}, file : Names, folder : Folders],
           NEW last \in [Folders -> SUBSET Names]
    PROVE  /\ Moved(job, last) \in [Folders -> SUBSET Names]
           /\ job.kind = "put" => job.file \in Moved(job, last)[job.folder]
<1> DEFINE put == [last EXCEPT ![job.folder] = @ \cup {job.file}]
           out == [last EXCEPT ![job.folder] = @ \ {job.file}]
           moved == [out EXCEPT ![job.folder] = @ \cup {"r"}]
<1>1. put \in [Folders -> SUBSET Names] /\ job.file \in put[job.folder]
  OBVIOUS
<1>2. out \in [Folders -> SUBSET Names]
  OBVIOUS
<1>3. moved \in [Folders -> SUBSET Names]
  BY <1>2 DEF Names
<1>4. /\ job.kind \in {"put", "folder", "sync"} => Moved(job, last) = put
      /\ job.kind = "delete" => Moved(job, last) = out
      /\ job.kind = "move" => Moved(job, last) = moved
  BY DEF Moved
<1> HIDE DEF put, out, moved
<1> QED  BY <1>1, <1>2, <1>3, <1>4

LEMMA PerformKeeps ==
    ASSUME CacheInv, BrowserInv, NEW c \in Calls, Perform(c)
    PROVE  CacheInv' /\ BrowserInv' /\ Forward
<1> DEFINE job == calls[c].job
           value == Moved(job, server[Now])
<1>1. Apply(c, value) /\ browser' = browser /\ calls[c].state = "sent"
  BY DEF Perform
<1>2. CacheInv' /\ Forward
  BY <1>1, ApplyKeeps
<1>3. GoodFileCall(calls[c], browser, server) /\ calls[c] # NoCall
  BY <1>1, InFlight, BrowserIs
<1>4. /\ value \in [Folders -> SUBSET Names]
      /\ job.kind = "put" => job.file \in value[job.folder]
  BY <1>3, BrowserIs, MovedIs DEF GoodFileCall
<1> HIDE DEF value
<1>5. /\ server' \in {server, Append(server, value)} /\ query' = query
      /\ calls[c].effect.touches => server' = Append(server, value)
      /\ calls'[c].job = job /\ calls'[c].effect = calls[c].effect /\ calls'[c] # NoCall
      /\ \A d \in Calls : d # c => calls'[d] = calls[d]
  BY <1>1, ApplyIs
<1>6. /\ Now' \in Nat /\ Now <= Now' /\ \A n \in 1..Now : server'[n] = server[n]
      /\ \A n \in 1..Now' : server'[n] \in [Folders -> SUBSET Names]
      /\ server' # server => Now' = Now + 1 /\ server'[Now'] = value
  <2>1. CASE server' = server
    BY <2>1, BrowserIs DEF Now
  <2>2. CASE server' = Append(server, value)
    <3>1. /\ Now' = Now + 1 /\ server'[Now + 1] = value
          /\ \A n \in 1..Now : server'[n] = server[n]
      BY <2>2, GrowsAreVersions DEF Now
    <3>2. \A n \in 1..(Now + 1) : n \in 1..Now \/ n = Now + 1
      BY BrowserIs
    <3> QED  BY <1>4, <3>1, <3>2, BrowserIs
  <2> QED  BY <1>5, <2>1, <2>2
<1>7. GoodFileCall(calls'[c], browser', server')
  <2>1. CASE job.kind # "put"
    BY <1>3, <1>5, <2>1 DEF GoodFileCall
  <2>2. CASE job.kind = "put"
    <3>1. server' = Append(server, value) /\ job.folder = browser.at
      BY <1>3, <1>5, <2>2 DEF GoodFileCall
    <3>2. Now' = Now + 1 /\ server'[Now'] = value
      BY <3>1, GrowsAreVersions DEF Now
    <3>3. Arrived(job.file, browser.at, server')
      BY <1>4, <2>2, <3>1, <3>2, BrowserIs DEF Arrived, Now
    <3> QED  BY <1>1, <1>3, <1>5, <2>2, <3>3 DEF GoodFileCall
  <2> QED  BY <2>1, <2>2
<1>8. \A d \in Calls : calls'[d] # NoCall =>
              calls'[d] = calls[d] \/ GoodFileCall(calls'[d], browser', server')
  BY <1>5, <1>7
<1>9. \A f \in Picked : (InQueue(f) => InQueue(f)') /\ (Travels(f) => Travels(f)')
  BY <1>1, <1>5 DEF InQueue, Travels
<1>10. BrowserInv'
  BY <1>1, <1>5, <1>6, <1>8, <1>9, BrowserIs, BrowserTurns
<1> QED  BY <1>2, <1>10

\* An answer: the file of the call is reported.
LEMMA ReportTurns ==
    ASSUME CacheInv, BrowserInv, NEW c \in Calls, UNCHANGED <<query, server>>,
           calls' = [calls EXCEPT ![c] = NoCall], calls[c] # NoCall, browser' \in BrowserRow,
           browser'.at = browser.at, browser'.picked = browser.picked, browser'.queue = browser.queue,
           browser.ok \subseteq browser'.ok, browser.failed \subseteq browser'.failed,
           calls[c].job.kind # "put" => browser'.ok = browser.ok,
           calls[c].job.kind = "put" => calls[c].job.file \in browser'.ok \cup browser'.failed,
           \A f \in browser'.ok : f \in browser.ok \/ Arrived(f, browser.at, server)
    PROVE  BrowserInv'
<1>1. Now' = Now
  BY DEF Now
<1>2. calls'[c] = NoCall /\ \A d \in Calls : d # c => calls'[d] = calls[d]
  BY DEF CacheInv, GoodCacheCalls
<1>3. \A f \in Picked : InQueue(f) => InQueue(f)'
  BY DEF InQueue
<1>4. \A f \in Picked : Travels(f) => f \in browser'.ok \cup browser'.failed \/ Travels(f)'
  BY <1>2 DEF Travels
<1>5. ~browser.picked => calls[c].job.kind # "put"
  BY BrowserIs DEF GoodFileCall
<1>6. \A d \in Calls : calls'[d] # NoCall => calls'[d] = calls[d]
  BY <1>2
<1> QED  BY <1>1, <1>3, <1>4, <1>5, <1>6, BrowserIs, BrowserTurns

LEMMA AnswersKeep ==
    ASSUME CacheInv, BrowserInv, NEW c \in Calls, Missing(c) \/ Done(c) \/ Failed(c)
    PROVE  CacheInv' /\ BrowserInv' /\ Forward
<1>1. CASE Missing(c)
  <2>1. /\ calls' = [calls EXCEPT ![c] = NoCall] /\ calls[c].state = "sent" /\ browser' = browser
        /\ calls[c].job.kind = "move"
        /\ UNCHANGED <<query, server, entry, fetch, mounted, own, raced>>
    BY <1>1 DEF Missing
  <2>2. calls[c] # NoCall
    BY <2>1, InFlight
  <2>3. BrowserInv'
    BY <2>1, <2>2, BrowserIs, ReportTurns
  <2> QED  BY <2>1, <2>3, ForgetKeeps
<1>2. CASE Done(c)
  <2>1. /\ Succeed(c) /\ calls[c].state = "applied" /\ calls' = [calls EXCEPT ![c] = NoCall]
        /\ UNCHANGED <<query, server>>
        /\ browser' = IF calls[c].job.kind = "put"
                      THEN [browser EXCEPT !.ok = browser.ok \cup {calls[c].job.file}] ELSE browser
    BY <1>2, BrowserIs DEF Done, Succeed, BrowserRow
  <2>2. CacheInv' /\ Forward
    BY <2>1, SucceedKeeps
  <2>3. calls[c] # NoCall /\ GoodFileCall(calls[c], browser, server)
    BY <2>1, InFlight, BrowserIs
  <2>4. CASE calls[c].job.kind = "put"
    <3>1. calls[c].job.file \in Picked /\ Arrived(calls[c].job.file, browser.at, server)
      BY <2>1, <2>3, <2>4 DEF GoodFileCall
    <3>2. /\ browser' \in BrowserRow /\ browser'.ok = browser.ok \cup {calls[c].job.file}
          /\ \A x \in {"at", "picked", "queue", "failed"} : browser'[x] = browser[x]
      BY <2>1, <2>4, <3>1, BrowserIs DEF BrowserRow
    <3> QED  BY <2>1, <2>2, <2>3, <2>4, <3>1, <3>2, ReportTurns
  <2>5. CASE calls[c].job.kind # "put"
    BY <2>1, <2>2, <2>3, <2>5, BrowserIs, ReportTurns
  <2> QED  BY <2>4, <2>5
<1>3. CASE Failed(c)
  <2>1. /\ Fail(c) /\ calls[c].state # "none" /\ calls' = [calls EXCEPT ![c] = NoCall]
        /\ UNCHANGED <<query, server>>
        /\ browser' = IF calls[c].job.kind = "put"
                      THEN [browser EXCEPT !.failed = browser.failed \cup {calls[c].job.file}] ELSE browser
    BY <1>3, BrowserIs DEF Failed, Fail, AfterFailure, BrowserRow
  <2>2. CacheInv' /\ Forward
    BY <2>1, FailKeeps
  <2>3. calls[c] # NoCall /\ GoodFileCall(calls[c], browser, server)
    BY <2>1, InFlight, BrowserIs
  <2>4. CASE calls[c].job.kind = "put"
    <3>1. calls[c].job.file \in Picked
      BY <2>3, <2>4 DEF GoodFileCall
    <3>2. /\ browser' \in BrowserRow /\ browser'.failed = browser.failed \cup {calls[c].job.file}
          /\ \A x \in {"at", "picked", "queue", "ok"} : browser'[x] = browser[x]
      BY <2>1, <2>4, <3>1, BrowserIs DEF BrowserRow
    <3> QED  BY <2>1, <2>2, <2>3, <2>4, <3>2, ReportTurns
  <2>5. CASE calls[c].job.kind # "put"
    BY <2>1, <2>2, <2>3, <2>5, BrowserIs, ReportTurns
  <2> QED  BY <2>4, <2>5
<1> QED  BY <1>1, <1>2, <1>3

LEMMA FilesStepKeeps ==
    ASSUME CacheInv, BrowserInv, FilesStep  PROVE CacheInv' /\ BrowserInv' /\ Forward
BY FilesViewKeeps, PickFilesKeeps, UploadNextKeeps, ActionKeeps, PerformKeeps, AnswersKeep
   DEF FilesStep

-----------------------------------------------------------------------------
\* The application: the cache is sound wherever the document is, and the page
\* at its address is.
AppInv ==
    /\ address \in {"anywhere", "course", "settings", "files"} /\ CacheInv
    /\ address = "course" => SheetInv
    /\ address = "settings" => PageInv
    /\ address = "files" => BrowserInv

LEMMA AppStarts == ASSUME Init  PROVE AppInv
<1>1. CASE address = "anywhere" /\ \E q \in Queries : CacheInit(q, "any", MaxHooks)
  BY <1>1, CacheStarts DEF AppInv
<1>2. CASE address = "course" /\ SheetInit
  BY <1>2, SheetStarts DEF AppInv
<1>3. CASE address = "settings" /\ SettingsInit
  BY <1>3, SettingsStarts DEF AppInv
<1>4. CASE address = "files" /\ FilesInit
  BY <1>4, FilesStart DEF AppInv
<1> QED  BY <1>1, <1>2, <1>3, <1>4 DEF Init

\* Nothing happens: each part of the invariant reads variables that stay.
LEMMA AppRests == ASSUME AppInv, UNCHANGED vars  PROVE AppInv' /\ Forward
<1>1. UNCHANGED <<address, cacheVars, sheetVars, page, browser>>
  BY DEF vars
<1>2. /\ UNCHANGED <<address, query, server, entry, fetch, mounted, calls, form, class, sheet,
                     page, browser>>
      /\ Now' = Now
  BY <1>1 DEF cacheVars, sheetVars, Now
<1>3. CacheInv' /\ Forward
  BY <1>1, CacheRests DEF AppInv
<1>4. SheetInv => SheetInv'
  <2>1. Values' = Values
    BY <1>2 DEF Values
  <2>2. RowValues' = RowValues
    BY <1>2, <2>1 DEF RowValues
  <2>3. Versions' = Versions /\ SheetRow' = SheetRow
    BY <2>1, <2>2 DEF Versions, SheetRow
  <2>4. VersionsInv => VersionsInv'
    BY <1>2, <2>3 DEF VersionsInv
  <2>5. JobsInv => JobsInv'
    BY <1>2, <2>1, <2>2 DEF JobsInv, GoodJob, Seed
  <2>6. SheetFits => SheetFits'
    BY <1>2, <2>3 DEF SheetFits, Fits, Page, Displays, Seed
  <2>7. Counted => Counted'
    BY <1>2 DEF Counted, Creating
  <2> QED  BY <1>2, <2>4, <2>5, <2>6, <2>7 DEF SheetInv, FormIs
<1>5. PageInv => PageInv'
  BY <1>2 DEF PageInv, ThemeShown, PickersShown, BlankShown, Carried, Loaded
<1>6. BrowserInv => BrowserInv'
  BY <1>2 DEF BrowserInv, Tracked, InQueue, Travels
<1> QED  BY <1>2, <1>3, <1>4, <1>5, <1>6 DEF AppInv

LEMMA AppStepKeeps == ASSUME AppInv, [Next]_vars  PROVE AppInv' /\ Forward
<1>1. CASE Anywhere
  BY <1>1, PlainStepKeeps DEF Anywhere, AppInv
<1>2. CASE AtCourse
  BY <1>2, SheetStepKeeps DEF AtCourse, AppInv
<1>3. CASE AtSettings
  BY <1>3, SettingsStepKeeps DEF AtSettings, AppInv
<1>4. CASE AtFiles
  BY <1>4, FilesStepKeeps DEF AtFiles, AppInv
<1>5. CASE UNCHANGED vars
  BY <1>5, AppRests
<1> QED  BY <1>1, <1>2, <1>3, <1>4, <1>5 DEF Next

\* Whatever page is open and in whatever order clicks, answers, lost answers,
\* refetches and the writes of others come, the cache and the page stay sound.
THEOREM AppInvariant == Spec => []AppInv
<1>1. Init => AppInv
  BY AppStarts
<1>2. AppInv /\ [Next]_vars => AppInv'
  BY AppStepKeeps
<1> QED  BY <1>1, <1>2, PTL DEF Spec

-----------------------------------------------------------------------------
\* The browser only ever refers to versions the server has had, and an open
\* sheet waits for calls in flight only.
THEOREM TypesHold == Spec => []TypeOK
<1>1. AppInv => TypeOK
  <2> SUFFICES ASSUME AppInv  PROVE TypeOK
    OBVIOUS
  <2>1. CacheInv /\ (address = "course" => SheetInv)
    BY DEF AppInv
  <2>2. /\ query \in Queries /\ Now >= 1
        /\ entry \in [data : 0..Now, stale : BOOLEAN, error : BOOLEAN]
        /\ fetch \in [state : {"idle", "asked", "answered"}, rev : 0..Now, tries : 0..2]
        /\ mounted \in BOOLEAN /\ raced \in BOOLEAN /\ own \in 0..Now
    BY <2>1, CacheOf DEF EntryRow, FetchRow
  <2>3. \A c \in Calls : calls[c] # NoCall =>
          calls[c].state \in {"sent", "applied"} /\ calls[c].rev \in 0..Now
    BY <2>1 DEF CacheInv, GoodCacheCalls, GoodCacheCall
  <2>4. ASSUME address = "course"
        PROVE  /\ sheet.mine \subseteq {c \in Calls : calls[c] # NoCall}
               /\ sheet.open => sheet.row \in form.rows /\ sheet.draft.v >= 0
    <3>1. Fits(sheet) /\ \A c \in sheet.mine : calls[c] # NoCall
      BY <2>1, <2>4 DEF SheetInv, SheetFits
    <3>2. sheet.mine \in SUBSET Calls /\ sheet.draft \in Values
      BY <3>1 DEF Fits, SheetRow
    <3>3. sheet.draft.v >= 0
      BY <3>2 DEF Values
    <3> QED  BY <3>1, <3>2, <3>3 DEF Fits
  <2> QED  BY <2>2, <2>3, <2>4 DEF TypeOK
<1> QED  BY <1>1, AppInvariant, PTL

\* What the user was told is saved is what the page shows once its query is
\* at rest, for every hook and every query of queries.ts.
THEOREM OwnWritesHold == Spec => []OwnWritesAreShown
<1>1. AppInv => OwnWritesAreShown
  BY CacheOf DEF AppInv, CacheInv, BehindIsMarked, OwnWritesAreShown, Quiet
<1> QED  BY <1>1, AppInvariant, PTL

\* A refetch never puts older data on the screen, whatever order the answers
\* come in (queries no hook sets from its response).
THEOREM ViewsMoveOn == Spec => ViewsNeverGoBack
<1>1. AppInv /\ [Next]_vars =>
        [query \notin AccountQueries /\ entry.data # 0 /\ entry'.data # 0
           => entry'.data >= entry.data]_vars
  BY AppStepKeeps DEF Forward
<1> QED  BY <1>1, AppInvariant, PTL DEF Spec, ViewsNeverGoBack

\* A save writes into an untouched field what the page showed in it, or the
\* default of a choice the row lacks.
THEOREM SavesAreOfWhatWasShown == Spec => []SendsWhatWasShown
<1>1. AppInv => SendsWhatWasShown
  <2> SUFFICES ASSUME AppInv, address = "course", NEW c \in Calls, calls[c].state # "none",
                      calls[c].job.kind = "save", form.seeds # "once", ~calls[c].job.typed,
                      calls[c].job.value # Keep
               PROVE  \/ calls[c].job.value.v = calls[c].job.shown.v
                      \/ class \in {"kind", "colour"} /\ calls[c].job.shown = Blank
                         /\ calls[c].job.value = Default
    BY DEF SendsWhatWasShown
  <2>1. calls[c] # NoCall /\ SheetInv
    BY InFlight DEF AppInv
  <2>2. GoodJob(calls[c].job, sheet.opening)
    BY <2>1 DEF SheetInv, JobsInv
  <2>3. calls[c].job.shown \in Values /\ calls[c].job.value = Seed(calls[c].job.shown)
    BY <2>2 DEF GoodJob
  <2> QED  BY <2>3, SeedShows
<1> QED  BY <1>1, AppInvariant, PTL

\* One opening of a form leaves one row, and one more at most for every
\* failure it showed.
THEOREM DuplicatesAreToldOf == Spec => []NoSilentDuplicate
<1>1. AppInv => NoSilentDuplicate
  <2> SUFFICES ASSUME AppInv, address = "course"  PROVE sheet.made <= 1 + sheet.failed
    BY DEF NoSilentDuplicate
  <2>1. Counted /\ sheet.made \in Nat /\ sheet.failed \in Nat
    BY DEF AppInv, SheetInv, SheetFits, Fits, SheetRow
  <2> QED  BY <2>1 DEF Counted
<1> QED  BY <1>1, AppInvariant, PTL

\* Nothing but the user, a failed refetch or a success of the page itself
\* takes away what is typed into an open form.
THEOREM DraftsSurviveRefetches == Spec => DraftsAreKept
<1>1. AppInv /\ [Next]_vars =>
        [address = "course" /\ form.seeds = "open" /\ sheet.open /\ sheet.typed
           => \/ sheet'.open /\ sheet'.draft = sheet.draft
              \/ CloseSheet \/ ~mounted' \/ entry'.error
              \/ \E c \in sheet.mine : calls[c].state = "applied" /\ calls'[c] = NoCall]_vars
  <2> SUFFICES ASSUME AppInv, Next, address = "course", form.seeds = "open", sheet.open, sheet.typed
               PROVE  \/ sheet'.open /\ sheet'.draft = sheet.draft
                      \/ CloseSheet \/ ~mounted' \/ entry'.error
                      \/ \E c \in sheet.mine : calls[c].state = "applied" /\ calls'[c] = NoCall
    OBVIOUS
  <2>1. CacheInv /\ SheetInv
    BY DEF AppInv
  <2>2. SheetStep
    BY DEF Next, Anywhere, AtCourse, AtSettings, AtFiles
  <2> QED  BY <2>1, <2>2, DraftsSurvive DEF Kept, Taken
<1> QED  BY <1>1, AppInvariant, PTL DEF Spec, DraftsAreKept

\* The document wears the theme of the settings, or a pick is on its way.
THEOREM ThemesMatch == Spec => []ThemeMatchesSettings
<1>1. NoCall.state = "none"
  BY DEF NoCall
<1>2. AppInv => ThemeMatchesSettings
  <2> SUFFICES ASSUME AppInv, address = "settings", entry.data # 0, ~page.crossed,
                      page.theme # Loaded(entry).theme
               PROVE  \E c \in Calls : calls[c].state # "none" /\ calls[c].job.field = "theme"
    BY DEF ThemeMatchesSettings
  <2>1. CacheInv /\ Carried("theme", page.theme)
    BY DEF AppInv, PageInv, ThemeShown
  <2> QED  BY <2>1, InFlight DEF Carried
<1> QED  BY <1>2, AppInvariant, PTL

\* A field that saves itself shows what is stored, or its save is on its way,
\* failed, or was to clear a date.
THEOREM PickersMatch == Spec => []PickersShowSettings
<1>1. AppInv => PickersShowSettings
  <2> SUFFICES ASSUME AppInv, address = "settings", page.open, entry.data # 0, ~page.unsaved,
                      page.auto # Loaded(entry).auto
               PROVE  \E c \in Calls : calls[c].state # "none" /\ calls[c].job.field = "auto"
    BY DEF PickersShowSettings
  <2>1. CacheInv /\ Carried("auto", page.auto)
    BY DEF AppInv, PageInv, PickersShown
  <2> QED  BY <2>1, InFlight DEF Carried
<1> QED  BY <1>1, AppInvariant, PTL

\* When the batch is over every file of it was reported, and one reported
\* uploaded reached the folder where it was picked.
THEOREM FilesAreAccountedFor == Spec => []EveryFileIsAccountedFor
<1>1. AppInv => EveryFileIsAccountedFor
  <2> SUFFICES ASSUME AppInv, address = "files", browser.picked, browser.queue = <<>>, ~Uploading
               PROVE  /\ browser.ok \cup browser.failed = {"f", "g"}
                      /\ \A f \in browser.ok : \E n \in 1..Now : f \in server[n][browser.at]
    BY DEF EveryFileIsAccountedFor
  <2>1. CacheInv /\ BrowserInv
    BY DEF AppInv
  <2>2. browser.ok \subseteq Picked /\ browser.failed \subseteq Picked
    BY <2>1, BrowserIs DEF BrowserRow
  <2>3. \A f : ~InQueue(f)
    BY DEF InQueue, Batch
  <2>4. \A f \in Picked : ~Travels(f)
    BY <2>1, InFlight DEF Travels, Uploading
  <2>5. \A f \in Picked : f \in browser.ok \cup browser.failed
    BY <2>1, <2>3, <2>4 DEF BrowserInv, Tracked
  <2>6. \A f \in browser.ok : \E n \in 1..Now : f \in server[n][browser.at]
    BY <2>1 DEF BrowserInv, Arrived, Now
  <2> QED  BY <2>2, <2>5, <2>6 DEF Picked
<1> QED  BY <1>1, AppInvariant, PTL
=============================================================================
