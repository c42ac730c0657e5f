----------------------------- MODULE FileIndex -----------------------------
(***************************************************************************)
(* The full-text index of app/services/file_index.py over the course tree  *)
(* of CourseFiles.  A reindex pass (a background task of POST              *)
(* /internal/sync) awaits between its steps: it preloads the rows, lists   *)
(* the tree, reads and upserts file after file, prunes.  The tree changes  *)
(* and other passes run in between; steps fail and are skipped.            *)
(***************************************************************************)
EXTENDS CourseFiles

CONSTANTS
    Passes,     \* reindex passes that may be in flight
    Indexable,  \* the names with a suffix text is extracted from
    Unreadable, \* data that extraction fails on
    Preload     \* LIMIT of the rows a pass loads

ASSUME IndexAssumption ==
    /\ Indexable \subseteq Names
    /\ Unreadable \subseteq Data
    /\ Preload \in Nat

VARIABLES
    index,  \* file_index: the data whose text and hash a row has, or None
    pass,
    \* History, read by properties only.
    alone,  \* passes in flight that nothing has disturbed
    synced  \* has such a pass ended since the tree last changed, or failed to list?

vars == <<files, index, pass, alone, synced>>

NoPass == [pc |-> "idle"]
Rows == {f \in Files : index[f] # None}

IndexInit ==
    /\ Init
    /\ index = [f \in Files |-> None]
    /\ pass = [i \in Passes |-> NoPass]
    /\ alone = {}
    /\ synced = FALSE

\* A request changes the tree: what passes have read of it may be stale.
ChangeFiles ==
    /\ FilesNext
    /\ alone' = IF Disk' = Disk THEN alone ELSE {}
    /\ synced' = (synced /\ Disk' = Disk)
    /\ UNCHANGED <<index, pass>>

\* The rows there are, the first Preload of them in no order.
StartPass(i) ==
    /\ pass[i].pc = "idle"
    /\ \E S \in SUBSET Rows :
         /\ Cardinality(S) = IF Cardinality(Rows) <= Preload THEN Cardinality(Rows) ELSE Preload
         /\ pass' = [pass EXCEPT ![i] =
                       [pc |-> "list", existing |-> [f \in Files |-> IF f \in S THEN index[f] ELSE None]]]
    /\ alone' = IF \A j \in Passes : pass[j].pc = "idle" THEN {i} ELSE {}
    /\ UNCHANGED <<files, index, synced>>

\* With the hash of a row unknown, every file is taken for new, and no row for stale.
PreloadFails(i) ==
    /\ pass[i].pc = "idle" /\ Fault
    /\ pass' = [pass EXCEPT ![i] = [pc |-> "list", existing |-> [f \in Files |-> None]]]
    /\ alone' = {}
    /\ UNCHANGED <<tree, tmp, data, op, ops, raced, left, index, synced>>

ListTree(i) ==
    LET found == UNION {Listing(d) : d \in Folders}
    IN /\ pass[i].pc = "list"
       /\ pass' = [pass EXCEPT ![i] = [pc |-> "visit", existing |-> @.existing,
                                       todo |-> found, seen |-> found]]
       /\ UNCHANGED <<files, index, alone, synced>>

\* A tree that cannot be listed counts as empty: the pass will prune its rows.
ListFails(i) ==
    /\ pass[i].pc = "list" /\ Fault
    /\ pass' = [pass EXCEPT ![i] = [pc |-> "visit", existing |-> @.existing,
                                    todo |-> {}, seen |-> {}]]
    /\ alone' = {} /\ synced' = FALSE
    /\ UNCHANGED <<tree, tmp, data, op, ops, raced, left, index>>

\* Faulty: a file with a row is taken for indexed.
KnownByName(existing, f) == existing[f] # None

\* The row has this file's hash already.
Known(existing, f) == existing[f] = Disk[f]

\* A file of another kind, gone, or known: nothing to do.
PassOver(i, f) ==
    /\ pass[i].pc = "visit" /\ f \in pass[i].todo
    /\ f[2] \notin Indexable \/ tree[f] = None \/ Known(pass[i].existing, f)
    /\ pass' = [pass EXCEPT ![i].todo = @ \ {f}]
    /\ UNCHANGED <<files, index, alone, synced>>

\* The file is read; its text is then extracted on a thread.
ReadFile(i, f) ==
    /\ pass[i].pc = "visit" /\ f \in pass[i].todo
    /\ f[2] \in Indexable /\ tree[f] # None /\ ~Known(pass[i].existing, f)
    /\ pass' = [pass EXCEPT ![i] =
                  [pc |-> "extract", existing |-> @.existing, todo |-> @.todo \ {f},
                   seen |-> @.seen, file |-> f, text |-> Disk[f]]]
    /\ UNCHANGED <<files, index, alone, synced>>

GoOn(i) ==
    pass' = [pass EXCEPT ![i] = [pc |-> "visit", existing |-> @.existing,
                                 todo |-> @.todo, seen |-> @.seen]]

\* INSERT ... ON CONFLICT DO UPDATE.  Without a text, the row stays as it was.
Upsert(i) ==
    /\ pass[i].pc = "extract"
    /\ index' = IF pass[i].text \in Unreadable THEN index
                ELSE [index EXCEPT ![pass[i].file] = pass[i].text]
    /\ GoOn(i)
    /\ UNCHANGED <<files, alone, synced>>

\* Reading or upserting a file raises, and the pass goes on with the next.
UpsertFails(i) ==
    /\ pass[i].pc = "extract" /\ Fault
    /\ GoOn(i)
    /\ alone' = {}
    /\ UNCHANGED <<tree, tmp, data, op, ops, raced, left, index, synced>>

\* Faulty: rows of files that are gone stay.
StaleNowhere(i) == {}

\* The preloaded rows whose file the listing did not have.
Stale(i) == {f \in Files \ pass[i].seen : pass[i].existing[f] # None}

Prune(i, f) ==
    /\ pass[i].pc = "visit" /\ pass[i].todo = {}
    /\ f \in Stale(i)
    /\ index' = [index EXCEPT ![f] = None]
    /\ pass' = [pass EXCEPT ![i].existing[f] = None]
    /\ UNCHANGED <<files, alone, synced>>

EndPass(i) ==
    /\ pass[i].pc = "visit" /\ pass[i].todo = {} /\ Stale(i) = {}
    /\ pass' = [pass EXCEPT ![i] = NoPass]
    /\ synced' = (synced \/ i \in alone)
    /\ alone' = alone \ {i}
    /\ UNCHANGED <<files, index>>

\* A DELETE raises: the rest of the prune phase is left out.
PruneFails(i) ==
    /\ pass[i].pc = "visit" /\ pass[i].todo = {} /\ Stale(i) # {} /\ Fault
    /\ pass' = [pass EXCEPT ![i] = NoPass]
    /\ alone' = {}
    /\ UNCHANGED <<tree, tmp, data, op, ops, raced, left, index, synced>>

\* The next step of a pass that goes well.
PassStep(i) ==
    \/ ListTree(i)
    \/ \E f \in Files : PassOver(i, f) \/ ReadFile(i, f) \/ Prune(i, f)
    \/ Upsert(i)
    \/ EndPass(i)

Restart ==
    /\ DropRequests
    /\ pass' = [i \in Passes |-> NoPass]
    /\ alone' = {}
    /\ UNCHANGED <<index, synced>>

Next ==
    \/ ChangeFiles
    \/ \E i \in Passes :
         \/ StartPass(i) \/ PassStep(i)
         \/ PreloadFails(i) \/ ListFails(i) \/ UpsertFails(i) \/ PruneFails(i)
    \/ Restart

Spec == IndexInit /\ [][Next]_vars

\* The timer starts passes, and the event loop runs what is started; requests
\* may take as long as they like.
Fairness == WF_vars(\E i \in Passes : StartPass(i) \/ PassStep(i))

FairSpec == Spec /\ Fairness

(***************************************************************************)
(* Properties.                                                             *)
(***************************************************************************)

PassType ==
    {NoPass}
    \union [pc: {"list"}, existing: [Files -> Data \union {None}]]
    \union [pc: {"visit"}, existing: [Files -> Data \union {None}],
            todo: SUBSET Visible, seen: SUBSET Visible]
    \union [pc: {"extract"}, existing: [Files -> Data \union {None}],
            todo: SUBSET Visible, seen: SUBSET Visible, file: Visible, text: Data]

\* The tree, its requests, the rows and the passes keep their shape.
TypeOK ==
    /\ FilesTypeOK
    /\ index \in [Files -> Data \union {None}]
    /\ \A i \in Passes : pass[i] \in PassType
    /\ alone \subseteq {i \in Passes : pass[i].pc # "idle"}
    /\ synced \in BOOLEAN

\* A row for every file text can be extracted from, with the text of now, and
\* for no file that is not there.
InSync ==
    \A f \in Visible :
        IF tree[f] = None \/ f[2] \notin Indexable THEN index[f] = None
        ELSE Disk[f] \notin Unreadable => index[f] = Disk[f]

\* After a pass that nothing disturbed the index agrees with the tree, whatever
\* stale upserts and prunes overlapping passes had left; passes that overlap
\* later, or whose steps fail, keep it so until the tree changes again or a
\* listing fails.
IndexFollowsTree == synced => InSync

\* The index agrees with the tree in the end: rows that a pass wrote from an
\* old read, or left for a deleted file, do not stay.
EventuallyInSync == <>[]InSync
=============================================================================
