# OpenStudy in TLA+

OpenStudy is a self-hosted study dashboard: a FastAPI backend (`app/`) on
Postgres, a React frontend (`web/`), an MCP server through which Claude works on
the same data, a curriculum seeder (`scripts/curriculum/`) and a deploy script.
This directory holds TLA+ models of its core logic, TLC configurations that
check them on small instances, and proofs checked by TLAPS.

    tlc -workers 2 -config MCAgendaSession.cfg MCAgendaSession
    tlapm AgendaSession_proofs.tla
    tlapm OAuthGrant_proofs.tla
    tlapm FileIndex_proofs.tla
    tlapm WebAccounts_proofs.tla
    tlapm WebApp_proofs.tla
    tlapm WebViews_proofs.tla

`PROJECT.json` lists the runs, the source lines each definition stands for, one
seeded fault per property (the definitions commented `Faulty:`), the findings,
the hazards and the theorems.

## 1. The system

One uvicorn worker serves everything: REST routes for the web app, `/mcp` for
MCP clients, `/oauth/*` for their authorization, `/internal/*` for the n8n
timer. Routes call intents, intents call services, services run SQL through
`app/db.py`. **Every `db.*` call is a transaction of its own**, and every one of
them, and every `asyncio.to_thread`, is a point where another request may run.
That is the grain of the models: one action per transaction, or per system call
where threads work on files.

The frontend is a single-page application. Its pages read through one cache
(TanStack Query, `components/layout/query-provider.tsx`) and write through the mutation hooks
of `lib/queries.ts`, which invalidate or overwrite cached queries when the
response comes. A request, its execution on the server, its response and the
render that follows are separate moments, between which the user clicks, other
tabs and the agents write, and answers are lost.

| Component | State | Operations | What is hard | What makes it correct |
|---|---|---|---|---|
| Agenda and mastery (`services/agenda.py`, 1474 lines: the core) | adaptive columns of `study_topics` and `tasks`; `agenda:*` events | generate the daily agenda, complete, log, skip, snooze | several transactions per request, stale `source_ref`s, retries by the client, dates counted from the item's date | mastery is earned through retention verification; weak units are retried; events report only what was written; skipped work stays away |
| Topic and task store (`services/study_topics.py`, `tasks.py`) | rows | patch, complete, reopen, delete, bulk add | a patch drops NULLs (`_helpers.py`) and may set any column, mastery and retry count included | every column keeps its range |
| Fall-behind and dashboards (`services/fall_behind.py`, `dashboard.py`, `lib/fall-behind.ts`, `lib/time.ts`, five dashboard themes) | none | which covered topics were not studied before the next slot; panels, tiles, notices | the response is a picture of an instant and ages on the page; two implementations of one rule; rows cut off in each theme | a warning shown stays true; nothing due is out of sight |
| OAuth server (`services/oauth.py`, `routers/oauth.py`) | `oauth_clients`, `oauth_auth_codes`, `oauth_tokens`; a signed consent cookie | register, authorize, consent, token, revoke | parallel token requests, a restart between two transactions, tabs and sessions that change | one token per code, for who approved it |
| MCP binding (`mcp_http.py`, `mcp_tools.py`) | a context variable per request | check the bearer, bind its user | requests of several users in one event loop | tools act for the token's user |
| Course files (`services/storage.py`, `routers/files.py`) | a directory tree per user | upload, delete, move, list | threads interleave between system calls; folders are handled file by file from a listing | an upload is atomic; no temporary names stay |
| Full-text index (`services/file_index.py`, `routers/internal.py`) | `file_index` rows | reindex every 30 minutes and on demand, search | passes overlap each other and the uploads; each step may fail | the index comes to agree with the tree |
| Accounts (`services/auth_signup.py`, `routers/auth.py`, four public pages) | `users`, verification and reset tokens | sign up, verify, ask for a reset, reset | check and use of a token in two transactions; mail that fails after the commit; answers that are lost | a token is used once; a page that reports success tells the truth |
| Sessions and second factor (`auth.py`, `services/totp.py`, login page, `app-shell.tsx`, `totp-card.tsx`) | a signed cookie, `users.totp_*`, a cached session per tab | log in and out; set up, enable, disable | tabs share the cookie and not the cache; the gate renders from a cached answer; setup replaces a secret; session and data routes do not check the same | a logout sticks; login and application stop sending the user to and fro; a required factor is one the user has paired |
| Query cache and hooks (`lib/queries.ts`, `query-provider.tsx`) | one entry per query | fetch, invalidate, overwrite, retry | answers out of order, refetches crossing mutations | what was saved is shown, and the view does not go back |
| Course page (`routes/course-detail.tsx`, `components/forms`) | a draft per form | nine forms, the buttons on rows | drafts taken from a cache that changes below them | a draft is kept; a field left alone is saved as shown; no silent duplicates |
| Settings page, file browser (`routes/settings.tsx`, `lib/themes.ts`, `file-browser.tsx`) | drafts, the document's theme, a batch of uploads | save, pick a theme, upload, move, delete | fields that save themselves and roll back; the folder changes during a batch | page and settings agree; every file of a batch is accounted for |
| Course store (`services/courses.py`, `lectures.py`, `slots.py`, `deliverables.py`, `exams.py`) | rows | CRUD, exam upsert, bulk add | read-then-insert | no half-added lecture |
| Seeder (`scripts/curriculum/`) | none; finds rows by natural key | seed, seed again, validate a manifest | rows the learner advanced meanwhile | a second seeding duplicates and resets nothing |
| Deploy and migrations (`deploy.sh`, `scripts/run_migrations.py`) | image tags, containers, `schema_migrations` | tag, build, migrate, swap, health gate, rollback | a step fails in the middle | a failed deploy leaves a working stack |
| Others: packaged assets, Telegram webhook and secrets, email | single rows, files | | stateless or single-row | not modelled (section 7) |

They interact through the database (the agenda writes topics and tasks, which
the learner also edits by hand; the events log is both audit trail and input to
suppression), through the file tree (uploads write it, the index, the agenda's
flashcards and the MCP file tools read it), and through context variables (the
OAuth token's user becomes the user of every service call).

## 2. Modules

| Module | Models | How it corresponds to the code |
|---|---|---|
| `AgendaItems` | the pure part of `agenda.py` | one operator per candidate function, with its filter and sort key; `MasteryOutcome` is the table of `_mastery_patch_for_result`; `Patched` is what `model_dump_clean` and `UPDATE` make of a patch; `DailyAgenda` is `generate_daily_agenda` with suppression, the planning fallback and the cap of six |
| `AgendaSession` | clients working on the agenda | one action per transaction of `complete_agenda_item`, `log_agenda_result` and `snooze_agenda_item`: resolve (`SubmitWithRef`, `SubmitById`, `Unresolved`), `ReadTopic`, `WriteTopic`/`WriteTask`/`WriteMissing`, `RecordEvent`; besides, hand edits of any columns (`EditTopic`, `EditTask`: the PATCH routes and the MCP tools), deletions, restarts and the clock |
| `AgendaSession_proofs` | proofs about `AgendaSession` | section 5 |
| `OneShotGrant` | what an approval is worth, abstractly | none, open, live, over; whom it acts for is settled by the approval |
| `OAuthGrant` | the authorization server and the bearer check | `ConsumeAuthCode` is the one `DELETE ... RETURNING`, `CreateAccessToken` the transaction after it; `Authorize`/`Consent` are the two routes with the cookie between them; `BeginMcp`/`EndMcp` enclose a request to `/mcp` |
| `OAuthGrant_proofs` | proofs about `OAuthGrant` | section 5 |
| `CourseFiles` | one user's tree | names lead to inodes; an upload is `UploadOpen` (truncating whatever has the temporary name), `UploadWrite` or `UploadWriteFails`, `UploadReplace`, `UploadCleanup`; a folder is deleted or moved name by name (`DeleteListed`, `MoveListed`, `MoveFails`) from a listing |
| `FileIndex` | `index_all` over a changing tree (extends `CourseFiles`) | one action per step of a pass between two awaits, one per `except` |
| `FileIndex_proofs` | proofs about `FileIndex` and `CourseFiles` | section 5 |
| `QueryHooks` | every query and mutation hook | tables: what a query reads (`Reads`), what a mutation writes, overwrites and marks as out of date (`Effect`, `Entity` for `invalidateAll`) |
| `QueryCache` | the cache of one query | `Mount`, `Age`, `Focus`, `Collect`, `Answer`, `Fill`, `FetchFails` for the fetch; `Send`, `Apply`, `Succeed`, `Fail` for a call, whose answer may be lost after it was applied |
| `EntitySheet` (extends `QueryCache`) | the course page | one record per form (`Forms`: what seeds it, which hooks disable its buttons), one class of fields at a time; open, type, submit, cancel, delete, tick, undo |
| `SettingsPage`, `FilesPage` (extend `QueryCache`) | settings page and theme; file browser | effects that seed the forms (`Reseed`), self-saving fields, `Rollback`; the upload loop, one call after another, in the folder its handler closed over |
| `WebApp` | their composition: a document opened at one of the pages | the properties of the frontend |
| `QueryCache_proofs`, `EntitySheet_proofs`, `WebApp_proofs` | proofs about the cache, the forms, and all of it | section 5 |
| `AccountMail` | one address from sign-up to reset | one action per transaction of each handler, one per moment of the page in each window |
| `SessionGate` | the session in several tabs | the cookie and the user behind it, which the session route does not look at and the others do; cached session, shell, login page and second-factor card per tab; `Renders` is everything the effects of a page do after a change |
| `WebAccounts` | their composition | |
| `WebAccounts_proofs` | proofs about `WebAccounts` | section 5 |
| `FallBehind` | both computations of falling behind | `compute_fall_behind` (Python) and `computeFallBehind` (TypeScript), in half hours; they share `FallBehindBy` but for the comparison of hours, the zone in which dates and lecture times are read (`shift`), and the next lecture (`next_lecture_at`, `nextLectureAt`) |
| `StudyViews` (extends `FallBehind`) | the dashboard in five themes | `ReadSlots` and `Respond` are the transactions of one response, `Deadlines`, `Inbox`, `nextDueTone`, `Notice` what the themes make of it, `toggle` a click in their inboxes |
| `WebViews` | the promises of the dashboards | |
| `WebViews_proofs` | proofs about `WebViews` | section 5 |
| `MC...` | the instances TLC checks | |

Variables marked "history" are written by the actions and read only by
properties: for instance `weak` counts the applied results that called for a
retry, `byHand` the columns whose value a hand put there, and `raced` marks rows
written from a count that was no longer current.

## 3. Runs

Deadlock is checked in the agenda, OAuth and file runs: there something can
always happen. The runs of the frontend end (`CHECK_DEADLOCK FALSE`): the
user has made the clicks the bounds allow, or the clock has reached its last
instant, and nothing remains in flight.

| Run | Shows | Bounds and why they do |
|---|---|---|
| `agenda_session` | Two clients on one mastery unit, items of today and of three days ahead, a hand edit that sends the unit to its check with three retries on its count, deletion, restarts. `MasteryEarned`: mastered only through retention verification and a result of confidence 5 with at most one error, whatever is stale or raced, unless a hand wrote that column. `RetryCountHonest`: the count is exact, on top of what a hand last gave it, unless two requests read before either wrote; it is too high only where the hand's edit came between read and write. `CompletionsWereApplied`: no event without its write. `WeakTopicIsRetried`: a weak result is retry work from then on. `MasteredIsQuiet`: a mastered unit returns only as a spaced review, although retry count, priority and review date are never cleared | one unit, since requests meet only on one row; two applied results are the shortest way to mastery (to retention verification, then mastered) and to a lost update; results are a weak one (confidence 2, errors not given) and a good one (5, none), the two that decide every property here. A result on an item of today leaves a review date one to three days on, so the agenda asked for three days ahead finds a mastered unit whose old review date is past, with the hand's retries still counted. Spaced reviews are not completed here (`Kinds`) but in `agenda_review`. 1.9M states |
| `agenda_tasks` | One client, a dated and an undated lesson, two days, skips and reopening. `LessonsAreNotClosed`: the agenda itself never closes an undated lesson, whether the item comes by id or with a `source_ref`. `SkippedTaskStaysOff`: under no kind, also after the row changed. `CompletionsWereApplied` on tasks | two tasks compete for one category; one day boundary. 1.3M states |
| `agenda_snooze`, `agenda_delay`, `agenda_review` | violations, section 6 | the smallest instance of each |
| `oauth_grant` | Two apps, two users in one browser, two codes, two tokens, two calls. `OneTokenPerCode`, `TokenAsApproved`, `McpActsForApprover`, and `ImplementsGrant`: the server implements `OneShotGrant` | a code redeemed twice has room to show (two calls, two tokens), and so has a mixed-up flow (two apps, two challenges, two users); lifetimes of one instant and three instants let everything expire and overlap. 282k states |
| `files_index` | Two clients, two folders with one visible name, a short and a long content, two changes, one fault (a failing step or a restart), two overlapping passes. `LoneUploadsAreWhole`: a file holds one upload in full unless two uploads of it overlapped or its folder was moved under it. `TemporaryNamesAreUnlinked`. `IndexFollowsTree`: after one undisturbed pass the index agrees with the tree and overlapping or failing passes keep it so. `EventuallyInSync` (liveness) | two changes and two passes are the smallest way for a pass to write from an old read after another pruned or wrote; the extracted text can fail ("mixed" content); with a hidden name besides (`Hidden`, never listed) the run passes too, at 948k states, and is left smaller for time. 638k states |
| `files_upload` | violation, section 6 | two uploads of one name |
| `web_app` | Every query under every hook; every form of the course page; settings; files. `OwnWritesAreShown`: once its query is at rest, a page shows everything it was told is saved, unless a fetch that had read older data arrived after the success without a refetch (the page was off screen, or its first load under way), or two settings answers came out of order: then it may show the old row for `staleTime`. `ViewsNeverGoBack`. `SendsWhatWasShown`: a field left alone is saved as the page showed it, or, for a missing kind or colour, as the form's default. `NoSilentDuplicate`: one opening of a form creates one row, and one more at most per failure shown. `DraftsAreKept`. `ThemeMatchesSettings`; `PickersShowSettings`, unless a save is under way, failed, or was to clear a date. `EveryFileIsAccountedFor` | the cache keeps its keys apart, so a behaviour follows one query. Two calls in flight (interchangeable, hence the symmetry) are the least that can cross; one surprise (a failed request or a write from elsewhere); two openings of a form and two saves, to open it again on another row or after a failure; two settings saved; three calls of the file browser, a batch of two and one in between; two calls on the plain page. 13 of the form and field classes, at least one per way of seeding, guarding and sending; a field that may be missing starts missing or not, so does the date. 3.4M states |
| `web_accounts` | An address in two windows, or a session in two tabs. `LinkRedeemedOnce`, unless two requests checked the token before either used it. `PagesTellTheTruth`: whoever is told of success has an account, a confirmed address, or the password typed twice. `EnabledSecretIsPaired`: a required second factor is one whose code was entered, unless a setup or disable came between check and write of a confirmation. `LogoutSticks`. `BounceEnds` (liveness): a refused tab comes to rest, unless the cookie is that of a deleted user | two windows race for one link, and two links let one be stale; two passwords tell old from new; one mishap (a lost request, a failed mail, an expiry). Two tabs share a cookie, two secrets let a setup replace one; three forms sent; ageing, focus and failures only with one tab open, twice and once (the once is a lost answer, an expired cookie, a failed read or a deleted user). 567k states |
| `web_bounce` | violation, section 6 | one tab, one deletion |
| `web_views` | Ten days of dashboards. `WarningsStayTrue`: a topic shown as behind still is, and its course is no safer, however old the page, unless the rows changed or a lecture began. `MirrorWarnsFirst`: in a browser of Berlin's zone TypeScript and Python agree on the next lecture, and differ only in the hour TypeScript cuts off, towards warning. `UrgencyOnlyGrows` across the two vocabularies and the tiles, but for a deadline 24 hours or more ahead on the 25-hour day. `NothingIsOutOfSight`: what a panel leaves out comes after what fills it | 22 instants, the half hours around each lecture, each deadline and each threshold of 48 and 72 hours before them, and some midnights; 12 stores with courses (three weeks of slots, one of them starting later, one with a tutorial) and 6 with deadlines, one write in between; panels of 1, 2 and 2 rows in place of 8, 10 and 12, so that three rows overflow them, and notices of one course in place of three or four; the clocks go back on the Sunday, a deadline in its 25th hour. 156k states |

**Fairness.** Two modules have a liveness property. `FileIndex` has one under
`WF_vars(\E i : StartPass(i) \/ PassStep(i))`: some pass goes on. The n8n timer
posts to `/internal/sync` every 30 minutes, the event loop runs the background
task it queues, and each step of a pass ends. Nothing is assumed of requests,
of faults (bounded by `MaxFaults`), or of one particular pass: one that hangs
for ever does no harm. Changes to the tree end because `MaxOps` bounds them.
Agenda and OAuth are checked for safety only.

`WebAccounts` has one as well, under weak fairness of five things: a page renders
after a change (React runs its effects), the server answers the session request,
the cache takes the answer, the pages' own requests are answered, and a cached
session becomes stale after its minute. Nothing is assumed of the users; lost
requests, failing reads and deletions are bounded by `MaxTrouble`. The same
fairness is assumed in `web_bounce`, where a tab goes on for ever without it being
anybody's doing. `WebApp` and `WebViews` have safety and
action properties only.

## 4. Abstractions

- *Agenda*: the course is the one the seeder creates (no weekly slots, exams or
  deliverables; one learner, one course). Dates are day numbers, since the code
  compares dates only; for snoozes an hour is before, at or after 12:00 UTC.
  `(sort_order, name, id)` is one total `Rank`. `generate_daily_agenda` reads in
  one step; `resolve_agenda_item` without a reference is one step with the
  submission (older items come from `held`). A client keeps one item at a time.
  A hand edit is a patch of any modelled columns; a run takes those of its
  `TopicEdits`, the proofs any. The mastery states and statuses are all of
  `schemas.py`. Clients report what they were shown.
  The `LIMIT 200` on events is taken not to be reached. Flashcards exist or not.
- *OAuth*: SHA-256 is injective; randomly drawn codes and tokens are fresh; the
  MC instance has one redirect URI. A cookie may survive a second click.
- *Files*: one user; directories exist and stay (every write makes its
  parents); a listing and a `write(2)` are one step each; users do not name
  files like temporary ones; the process id does not change within a run of the
  process, and a restart may get it again (containers do). The rows stay within
  `Preload` (`LIMIT 10000` in the code); beyond it a pass would not prune all.
  A listing that fails counts as an empty tree and its pass prunes the user's
  rows (`file_index.py:143`), so it ends `synced`. A file whose text cannot be
  extracted keeps its old row.
- *Frontend*: what the server holds is a sequence of versions and everything the
  browser knows an index into it. One query, one form and one class of its
  fields are followed at a time (fields of a class are seeded, edited and sent
  alike); two rows are shown. At most one fetch of a query is in flight; a
  failed one is tried again twice, or never after a 401. A value remembers how often it went through a
  lossy conversion (a date without its seconds, a UTC time read as local). A settings date is
  cleared or set; the server drops the null.
- *Accounts*: hashing is exact, addresses are well-formed, one address. The rate
  limit is a refusal that may come at any request; its counters are left out. The
  second factor is that of the operator's account, the one the code protects;
  when its state cannot be read it counts as off, as `get_state` has it. A user is
  deleted by setting `deleted_at`; deleting the row, which takes the second factor
  with it, and cookies signed before there were users are left out.
- *Dashboards*: half hours from a Monday's midnight in Berlin. The clocks change
  once (`ChangeDay`, `Change`), in the browser's calendar days only: lecture times
  and fall-behind are without it. A browser's zone differs from Berlin's by a fixed
  `shift`, which only the computation in TypeScript reads, and which is 0 wherever a
  property is stated of it; the clock stands still while a response is read; the seven reads of a
  response are two, the slots and the rest (a write that falls between any two is
  one that falls between slots and rest, or the response is that of one moment).
  Waiting for a response and its failure are `QueryCache`'s.

## 5. Proofs

`OAuthGrant_proofs` proves for every number of apps, users, codes, tokens, calls
and every lifetime:

| Theorem | |
|---|---|
| `TypeCorrect` | `Spec => []TypeOK` |
| `GrantInvariant` | `Spec => []GrantInv`, the inductive invariant |
| `OneShot`, `Faithful`, `BoundToApprover` | `OneTokenPerCode`, `TokenAsApproved`, `McpActsForApprover` |
| `Implements` | `Spec => ImplementsGrant`: the refinement of `OneShotGrant` |

They use `OAuthAssumption` only. `OneTokenPerCode` is not inductive by itself:
nothing in it says that a row still in the table has no token yet. `GrantInv`
adds that a row is the approval it was created with (`RowsAsApproved`), that
nothing has been made of it while it is there (`RowsUnspent`), that a call
between the two transactions carries what was approved (`CallsAsApproved`) and
that tokens and their origins come together (`TokensHaveOrigin`). Each action
that touches codes, tokens or calls has a lemma; the others share `FrameStep`.
The refinement rests on two facts: while a code is pending no token has it as
origin (so redeeming takes `open` to `live`), and a step after which nothing is
pending or working that was not before only ends grants (`EndStep`), which
covers expiry, restarts, revocation and burnt codes at once.

`AgendaSession_proofs` proves for every number of topics, tasks, clients, days
and results, every rank, weight and due day:

| Theorem | |
|---|---|
| `TypeCorrect` | `Spec => []TypeOK` |
| `SessionInvariant` | `Spec => []SessionInv`, the inductive invariant |
| `MasteryIsEarned`, `RetriesAreCounted` | `MasteryEarned`, `RetryCountHonest` |
| `EventsHaveWrites` | `CompletionsWereApplied` |
| `WeakIsRetried`, `MasteredStaysQuiet` | `WeakTopicIsRetried`, `MasteredIsQuiet` |
| `LessonsStayOpen`, `SkippedStaysOff` | `LessonsAreNotClosed`, `SkippedTaskStaysOff` |

They use `SourcesAssumption`, `NoneAssumption`, `SyntheticAssumption` and
`SessionAssumption`. None of the properties is inductive alone, because a write
acts on what a request read, and on what an item said, some steps before.
`SessionInv` says what of that is still true: an item's reference stays `Honest`
(a mastery state of retention verification was once the unit's own; a task
reference without a mastery state has a due day, so the agenda closes dated
tasks only), a `retry_count` read is what the results and the hand call for
unless another result or a hand edit has overtaken it (`ReadsHonest`), completions that are written and not yet recorded
make up the difference between events and writes (`EventsFollowWrites`, an
argument on cardinalities), and a row keeps the status, confidence and priority
its last result gave it, column by column, until a hand edits that column
(`ResultColumns`). A hand edit is any patch of `PatchType`: nothing is assumed of
`TopicEdits`. The lemmas follow the code:
what a patch makes of a row (`ResultOfTopic`), what the agenda can show
(`ShownIsHonest`, one case per candidate function), then one lemma per action.

`WebViews_proofs` proves for all rows, all instants, all lengths of the panels
and any number of writes:

| Theorem | |
|---|---|
| `ViewsInvariant` | `Spec => []ViewInv`, the inductive invariant |
| `WarningsHold` | `WarningsStayTrue` |
| `MirrorHolds` | `MirrorWarnsFirst`: a browser of Berlin's zone (`shift` 0); for others it does not hold, and is not claimed |
| `UrgencyHolds` | `UrgencyOnlyGrows` |
| `AllIsInSight` | `NothingIsOutOfSight` |

They use `StoresAssumption` (instants are numbers, the tables are finite and hold
rows of their kind), `RowsAssumption` (a panel has room for a row) and
`ChangeAssumption` (the clocks change by an hour, either way, or not). `ViewInv` says that this stays so under every write, that a response is
made of well-formed rows, that the page is no younger than the clock, and that it
shows the topics there are. The heart is `NextStays`: while no lecture of the
course begins, the next one, searched day by day from a later day on, is still
there and no later than it was; it rests on `NextIsFirst` (the first day that has
a lecture, and the earliest on it, is before every other lecture of the eight
days), itself on the least-element principle (`MinOf`, by well-foundedness).
`BehindStays` concludes: grace only runs out, and the distance to the next lecture
only shrinks. Ten days of TLC's half hours thus become any time table and any age.

`UrgencyHolds` is arithmetic on days and half hours: `DateBounds` and `DatesGoOn`
say what the change of the clocks does to a date (it moves by the hour at most,
and never back), `RelativeRank` and `LabelRank` at which distances the two vocabularies change their word, and
`Closer` and `OneStepApart` compare them. The exemption `DueInALongDay` is needed:
`relative` calls a deadline "today" that is on this date and 24 hours or more away,
which the longer day alone has, and an hour later "in 23h". `AllIsInSight` needs the panels to be
what their name says. `InOrder` is a `CHOOSE`, which says nothing until a sorted
sequence is known to exist: `CanBeSorted` shows it for every finite set and total
order (a smallest set that could not be sorted would, without its last element,
be sorted), `ListedInOrder` that `Due` is one, and `LeftOut` that what the first
rows leave out comes after all of them.

`FileIndex_proofs` proves, for every number of folders, names, clients, passes,
changes and faults:

| Theorem | |
|---|---|
| `FilesInvariant` | `Spec => []ShapeInv`, the inductive invariant |
| `TypesHold` | `TypeOK` |
| `UploadsAreWholeAlone`, `UploadsTidyUp` | `LoneUploadsAreWhole`, `TemporaryNamesAreUnlinked` |
| `IndexAgrees` | `RowsAreLoaded` implies `IndexFollowsTree` |

They use `FilesAssumption` and `IndexAssumption`; `IndexAgrees` has a hypothesis
besides: a pass can load a row for every file there may be (`LIMIT 10000`,
`file_index.py:126`). Without it the property is false: a pass does not prune the
rows it did not load. That uploads are whole rests on inodes: no inode has two
names (`OneName`), an upload that none overlapped has its inode to itself until
it is written (`FreshWriters`), and what it is about to rename is what it wrote
(`OwnTemporary`). That the index agrees rests on what an undisturbed pass knows
(`Undisturbed`: it is alone, the rows it has still to visit are as it loaded
them, the others are right) and on what any pass knows while the tree is at rest
(`UpToDate`: what it listed and read is so still). TLC finds these to hold on two
folders with a visible and a hidden name (948k states) and, for uploads, with
three clients, four changes and two faults (6.2M states).

`WebAccounts_proofs` proves, for any number of windows, passwords, links, tabs,
secrets, forms and mishaps:

| Theorem | |
|---|---|
| `AccountsInvariant` | `Spec => []AccountsInv`, the inductive invariant |
| `TypesHold` | `TypeOK` |
| `LinksAreRedeemedOnce`, `PagesAreTruthful` | `LinkRedeemedOnce`, `PagesTellTheTruth` |
| `SecretsArePaired`, `LogoutsStick` | `EnabledSecretIsPaired`, `LogoutSticks` |

No assumption is used. For the mail, `SingleRedeemer` counts: the requests past
the check of a link and its uses are together at most one, or two checked it at
once; `GoodPage` says for every stage of a page what the tables hold already when
its success is on the way, so that it is true when it is read. For the gate,
`GoodTab` says that in a tab that was logged out neither the cache nor an answer
under way holds a session, and `Paired` follows the secret in force, and the one
a checked confirmation is about to put in force, to the code that was entered.
That a setup in another tab, between the check and the write of a confirmation,
enables a secret nobody has paired is exempted (`crossed`): the code allows it.

`WebApp_proofs`, with the lemmas of `QueryCache_proofs` (the cache alone) and
`EntitySheet_proofs` (the forms over it), proves for any number of calls in
flight, openings, saves, surprises, settings and files calls, and every form and
class of fields:

| Theorem | |
|---|---|
| `AppInvariant` | `Spec => []AppInv`, the inductive invariant |
| `TypesHold` | `TypeOK` |
| `OwnWritesHold`, `ViewsMoveOn` | `OwnWritesAreShown`, `ViewsNeverGoBack` |
| `SavesAreOfWhatWasShown`, `DuplicatesAreToldOf`, `DraftsSurviveRefetches` | `SendsWhatWasShown`, `NoSilentDuplicate`, `DraftsAreKept` |
| `ThemesMatch`, `PickersMatch` | `ThemeMatchesSettings`, `PickersShowSettings` |
| `FilesAreAccountedFor` | `EveryFileIsAccountedFor` |

They use `WatchedAssumption`: the forms followed are forms of the page.
`OwnWritesAreShown` speaks of a query at rest and is not inductive: `CacheInv`
adds that an answer under way is no older than what the user was told, nor than
what the page shows (`AnswersAreNew`), and that a query at rest that is behind
shows its failure, or is off screen and will be asked for when it comes back
(`BehindIsMarked`). `SheetInv` relates every save in
flight to the draft it was made from (`JobsInv`) and the rows made to the
failures shown (`Counted`); `PageInv` and `BrowserInv` do the same for settings
and uploads. The cache steps are proved once and used on every page. The proof
found one thing wrong in the model: `Written` (what a request leaves in a row)
had two cases that could both apply, of which TLC took the first and the
semantics promise none; it now orders them.

What the code is known to lose is exempted in these properties, by ghosts set where
it happens: `raced` (data read before a success arrived after it and are taken for
fresh), `crossed` (a failed theme pick rolled back to a theme that was no longer the
cached one), `unsaved` (a self-saving field that failed or was cleared), and the
defaults a form fills in for a missing kind or colour.

Model-checked only:

- liveness, `EventuallyInSync` and `BounceEnds`: it is out of the prover's reach,
  as is `ENABLED`;
- the five refuted properties of section 6, where there is nothing to prove.

Every invariant and every action property of a passing run is thus also a
theorem, for all values of the constants (with the hypothesis of `IndexAgrees`);
for the two liveness properties the runs are all there is. What is abstracted (section 4) is
abstracted in the theorems, too.

## 6. Where code and documents disagree

Each is the counterexample of a run whose property quotes the repository.

- `agenda_snooze` / `SnoozedStaysHidden`: "Snooze an agenda item until an ISO
  datetime" (`mcp_tools.py:229`). The agenda compares the end of a snooze with
  12:00 UTC of its own date, because no route passes the present
  (`agenda.py:975`): snoozed in the morning until later that morning, the item
  is still there.
- `agenda_delay` / `MasteredOnlyWhenDue`: "Delayed retention check is due before
  this unit can be mastered" (`agenda.py:591`). A unit awaiting its check that
  the learner rates low comes up as a struggling topic at once, its reference
  says `retention_verification`, and a good result masters it the same day.
- `agenda_review` / `GoodReviewKeepsMastery`: a spaced review of a mastered unit
  that ends with confidence 5 is not a retention check and sets the unit back to
  `retention_verification`; `agenda.py:637` schedules practice only "if
  confidence drops below 4".
- `files_upload` / `UploadsAreWhole`: `storage.py:297` calls an upload "Atomic
  via tmp+rename"; two uploads of one file share the temporary name
  (`storage.py:210`), and the first renames what the second has just truncated.
- `web_bounce` / `RefusedTabRests`: "On 401 we dispatch a custom event so the
  router can redirect to /login" (`api.ts:3`). The session route looks at the
  cookie's signature only (`auth.py:147`), the data routes at the user
  (`auth.py:221`): with the cookie of a deleted user the login page goes on to the
  application (`login.tsx:25-29`), which is refused, without end. As long as reads of
  the users table fail, it is the same.

Seen while modelling, without a run: the tool text "If failed, move the unit
back to retry stabilization" (`agenda.py:599`) while the outcome `failed` changes
nothing (`agenda.py:1128`); "4-6 items" (`agenda.py:5`) while `AGENDA_MIN_ITEMS`
is unused; skipping the best item of a category hides the whole category for the
day; the least recently reviewed topic takes the review slot each day however
well it goes (`agenda.py:620`); a lesson completed once without a confidence goes
to `independent_practice` with no review date and no retry priority
(`agenda.py:1229`), a state no category picks up (`agenda.py:645`, `705`); deleting a folder leaves its directories and
`.keep` (`files.py:134`: "a folder and everything under it"); a folder that is
moved or deleted takes the temporary names of running uploads with it.

Seen in the frontend, without a run:

- *Forms.* A semester date that is cleared is sent as null, which the service drops
  (`services/settings.py:33`): the page says "Saved" and stays blank over settings
  that keep the date; the other settings forms do the same. Optional fields of the entity forms send
  nothing when blank and cannot be cleared either. `CourseNotesForm` and
  `ExamForm` take their draft once, when the page appears, and save it back however
  old it is: `SendsWhatWasShown` leaves them out. `ExamForm` cuts a UTC date to 16
  characters and reads it as local time, so saving an untouched exam shifts it;
  the other forms lose the seconds. The open course form follows its row and loses
  what is typed when a refetch changes it (`DraftsAreKept` leaves it out); the
  profile and semester drafts go when another field saves itself. A background
  refetch that fails replaces the page by its error view, and the draft with it. A
  sheet that was closed and opened again during a save is closed by its answer.
  A self-saving field whose request failed keeps the unsaved value. The lecture
  and course forms save a kind or colour the page showed as missing.
- *Cache.* File mutations do not invalidate search, lecture materials or events;
  of two theme picks, a late failure rolls back to the theme before both. A success
  heard while the page is off screen, or while its first load is under way, lets data
  read before it into the cache as fresh.
  Deleting a folder that holds only `.keep` answers with nothing deleted while
  the toast says deleted.
- *Buttons.* Undo sets a task back to `open`, also one that was in progress; the
  inbox disables only the row of its latest call.
- *Dashboards.* The first twelve tasks whatever their status can hide open ones
  behind done ones; notices name the first three or four courses in course order;
  the themes' labels round where `relative` truncates; an overdue deadline is calm
  in two themes and critical in three; progress counts upcoming topics on the
  dashboards and not on the course page; `ends_on` is ignored by the next lecture;
  `computeFallBehind` cuts hours where the server does not, and compares lecture
  times built from a date shifted to Berlin's zone (`fall-behind.ts:60`) with the
  real now (lines 29, 41, 79), so that in a browser of another zone it may warn less
  than the server (nothing calls it at present); the seven lists of a response are read in separate transactions.
- *Accounts.* A verification page fetched again shows an error although the
  address is verified; a sign-up whose mail failed is told of success when it is
  repeated, without a mail; setting up a second factor in one tab disables the
  one another tab enabled; a wrong code (401) sends the settings card to the login
  page; a page refused while the cached session is fresh bounces between login and
  application for up to a minute; an enable or disable that answers after a
  logout marks the session as logged in; `get_state` reads a failing database as
  "off".

## 7. Not modelled

- Security-only matters (rate-limit counters, password hashing, path
  sanitising), wording and layout, the metadata documents.
- Of the frontend: the activity, tasks, exams and courses pages beyond the hooks
  they use, sidebars, landing page, Telegram card, language picker, file viewer,
  search box, week grids, and the percentages of progress: they render what the
  modelled queries hold, and add no state that outlives a click.
- Packaged assets, email and Telegram: I/O on single rows or files.
- Manifest creation and validation: batch text tools.
- The course store, the seeder and deploy, which are planned.

## 8. Plan

1. *Done*: agenda items and sessions; the OAuth grant with its refinement and
   proofs; course files and the index; the query cache with every hook, the forms,
   settings and files pages; accounts, sessions and the second factor; falling
   behind and the dashboards, with proofs.
2. *Course store*: bulk add of lecture topics in one transaction, exam upsert,
   exams and deliverables as agenda candidates.
3. *Seeder* (`CurriculumSeed` composed with learner steps on the rows): seeding
   twice, with a changed manifest, over rows the learner advanced; abstractly, each
   natural key has at most one row and the learner's columns are the learner's.
4. *Deploy and migrations* (`Deploy`): image tags, per-file migration
   transactions, health gate, rollback; a stack that serves is one whose image
   and schema go together, or the script has said so.
5. *Done*: proofs of every invariant and action property the runs check.
   *Left*: the components of 2 to 4 with their invariants; an abstract
   specification of the cache (what a page shows is a version of the server that
   only moves on) that `QueryCache` implements, and one of the index.
