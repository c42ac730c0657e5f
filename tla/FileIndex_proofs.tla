-------------------------- MODULE FileIndex_proofs --------------------------
(***************************************************************************)
(* What a user's files and their index keep, for any number of folders,    *)
(* names, requests and passes, in every order of their steps, with steps   *)
(* that fail and restarts.                                                 *)
(***************************************************************************)
EXTENDS FileIndex, FiniteSetTheorems, TLAPS

-----------------------------------------------------------------------------
\* The files and the requests that change them.
Inode == Inodes \cup {None}
Upload == [pc : {"write", "replace", "cleanup"}, file : Files, fd : Inodes, content : Contents]
FolderJob == [pc : {"delete", "move"}, todo : SUBSET Visible, tmps : SUBSET Visible, to : Folders]

FilesTypes ==
    /\ tree \in [Files -> Inode] /\ tmp \in [Files -> Inode] /\ data \in [Inodes -> Data]
    /\ op \in [Clients -> {Idle} \cup Upload \cup {job \in FolderJob : job.todo \cup job.tmps # {}}]
    /\ ops \in 0..MaxOps /\ faults \in 0..MaxFaults
    /\ raced \subseteq Inodes /\ left \subseteq Files

\* No inode has two names.
OneName ==
    \A f, g \in Files :
        /\ tree[f] # None => tree[f] # tmp[g]
        /\ tree[f] # None /\ tree[f] = tree[g] => f = g
        /\ tmp[f] # None /\ tmp[f] = tmp[g] => f = g

\* An upload that none overlapped has its inode to itself, under no file's
\* name until it is written in full.
FreshWriters ==
    \A c \in Clients : Writing(c) /\ op[c].fd \notin raced =>
        /\ IF op[c].pc = "write"
           THEN data[op[c].fd] = Empty /\ \A f \in Files : tree[f] # op[c].fd
           ELSE data[op[c].fd] \in Contents
        /\ \A b \in Clients : b # c /\ Writing(b) => op[b].fd # op[c].fd

\* What an upload is about to rename is what it wrote.
OwnTemporary ==
    \A f \in Files, c \in Clients :
        tmp[f] # None /\ tmp[f] \notin raced /\ Writing(c) /\ op[c].file = f
          => op[c].fd = tmp[f]

FilesInv ==
    /\ FilesTypes /\ OneName /\ FreshWriters /\ OwnTemporary
    /\ LoneUploadsAreWhole /\ TemporaryNamesAreUnlinked

-----------------------------------------------------------------------------
\* The index.
Row == Data \cup {None}
Found == {f \in Visible : tree[f] # None}
ListRow == [pc : {"list"}, existing : [Files -> Row]]
VisitRow == [pc : {"visit"}, existing : [Files -> Row], todo : SUBSET Visible, seen : SUBSET Visible]
ExtractRow ==
    [pc : {"extract"}, existing : [Files -> Row], todo : SUBSET Visible, seen : SUBSET Visible,
     file : Visible, text : Data]
PassRow == {NoPass} \cup ListRow \cup VisitRow \cup ExtractRow

IndexTypes ==
    /\ index \in [Files -> Row] /\ pass \in [Passes -> PassRow]
    /\ alone \subseteq {i \in Passes : pass[i].pc # "idle"}
    /\ synced \in BOOLEAN

Indexed(f) == f \in Visible /\ f[2] \in Indexable

\* Rows, and texts on the way to one, are of files of the kinds that are indexed.
OnlyIndexed ==
    /\ \A f \in Files : index[f] # None => Indexed(f)
    /\ \A i \in Passes : pass[i].pc = "extract" => Indexed(pass[i].file)

\* What a pass listed and read is so still.
UpToDate(i) ==
    /\ pass[i].pc \in {"visit", "extract"} => pass[i].seen = Found
    /\ pass[i].pc = "extract" => tree[pass[i].file] # None /\ pass[i].text = Disk[pass[i].file]

\* The row of f is right, as far as the pass still has to care for it.
RowDone(f) == Disk[f] \notin Unreadable => index[f] = Disk[f]

\* A pass nothing disturbed is the only one; what it has left to do, it knows
\* the rows of, and what it has done is right.
Undisturbed(i) ==
    /\ \A j \in Passes : j # i => pass[j].pc = "idle"
    /\ pass[i].pc = "list" => pass[i].existing = index
    /\ pass[i].pc = "extract" => pass[i].file \notin pass[i].todo
    /\ pass[i].pc \in {"visit", "extract"} =>
         /\ pass[i].todo \subseteq Found
         /\ \A f \in Visible :
              IF f \notin Found \/ f \in pass[i].todo THEN pass[i].existing[f] = index[f]
              ELSE f[2] \in Indexable /\ ~(pass[i].pc = "extract" /\ pass[i].file = f) => RowDone(f)

FollowInv ==
    /\ IndexFollowsTree
    /\ synced => \A i \in Passes : UpToDate(i)
    /\ \A i \in alone : UpToDate(i) /\ Undisturbed(i)

ShapeInv == FilesInv /\ IndexTypes /\ OnlyIndexed

\* The preload of a pass has room for a row of every file.
RowsAreLoaded == IsFiniteSet(Files) /\ Cardinality(Files) <= Preload

-----------------------------------------------------------------------------
\* The operators of the two modules.
LEMMA Apart ==
    /\ None \notin Inodes /\ None \notin Data /\ Empty \notin Contents
    /\ Contents \subseteq Data /\ Empty \in Data /\ Mixed \in Data
    /\ Visible \subseteq Files
<1>1. Visible \subseteq Files
  BY DEF Visible, Files
<1> QED  BY <1>1, FilesAssumption DEF Data

LEMMA OpIs ==
    ASSUME FilesTypes, NEW c \in Clients
    PROVE  /\ Writing(c) => op[c] \in Upload /\ op[c].fd \in Inodes /\ op[c].file \in Files
           /\ op[c].pc \in {"write", "replace", "cleanup"} => op[c] \in Upload
           /\ op[c].pc \in {"delete", "move"} => op[c] \in FolderJob
           /\ op[c].pc \in {"idle", "write", "replace", "cleanup", "delete", "move"}
           /\ op[c].pc = "idle" => op[c] = Idle
BY DEF FilesTypes, Writing, Upload, FolderJob, Idle

LEMMA UnlinkedIs ==
    ASSUME NEW names \in [Files -> Inode], NEW f \in Files
    PROVE  /\ Unlinked(names, f) \in [Files -> Inode]
           /\ \A h \in Files : Unlinked(names, f)[h] = IF h = f THEN None ELSE names[h]
BY DEF Unlinked, Inode

LEMMA RenamedIs ==
    ASSUME NEW names \in [Files -> Inode], NEW f \in Files, NEW g \in Files
    PROVE  /\ Renamed(names, f, g) \in [Files -> Inode]
           /\ \A h \in Files : Renamed(names, f, g)[h] =
                IF h = g THEN names[f] ELSE IF h = f THEN None ELSE names[h]
<1> DEFINE cut == [names EXCEPT ![f] = None]
<1>1. cut \in [Files -> Inode] /\ \A h \in Files : cut[h] = IF h = f THEN None ELSE names[h]
  BY DEF Inode
<1>2. Renamed(names, f, g) = [cut EXCEPT ![g] = names[f]]
  BY DEF Renamed
<1> HIDE DEF cut
<1> QED  BY <1>1, <1>2

\* What a request writes: two contents in one inode are in pieces.
LEMMA OverIs ==
    ASSUME NEW old \in Data, NEW new \in Contents
    PROVE  Over(old, new) \in Data /\ Over(Empty, new) = new
BY Apart DEF Over

-----------------------------------------------------------------------------
\* The steps of the requests.
LEMMA FilesStart == ASSUME Init  PROVE FilesInv
<1>1. FilesTypes
  <2>1. MaxOps \in Nat /\ MaxFaults \in Nat
    BY FilesAssumption
  <2>2. 0 \in 0..MaxOps /\ 0 \in 0..MaxFaults
    BY <2>1
  <2>3. tree \in [Files -> Inode] /\ tmp \in [Files -> Inode] /\ data \in [Inodes -> Data]
    BY Apart DEF Init, Inode
  <2> QED  BY <2>2, <2>3 DEF Init, FilesTypes
<1>2. /\ \A f \in Files : tree[f] = None /\ tmp[f] = None
      /\ \A c \in Clients : ~Writing(c)
  BY DEF Init, Writing, Idle
<1> QED  BY <1>1, <1>2 DEF FilesInv, OneName, FreshWriters, OwnTemporary, LoneUploadsAreWhole,
                           TemporaryNamesAreUnlinked

\* Names are moved and removed: from says which name each had before.
Shifts(new, old, from) ==
    /\ from \in [Files -> Files]
    /\ \A f \in Files : new[f] \in {None, old[from[f]]}
    /\ \A f, g \in Files : new[f] # None /\ new[g] # None /\ from[f] = from[g] => f = g

Same == [h \in Files |-> h]
Redirect(f, g) == [h \in Files |-> IF h = g THEN f ELSE h]

LEMMA Shifting ==
    ASSUME NEW names \in [Files -> Inode], NEW f \in Files, NEW g \in Files
    PROVE  /\ Shifts(names, names, Same) /\ Shifts(Unlinked(names, f), names, Same)
           /\ Shifts(Renamed(names, f, g), names, Redirect(f, g))
           /\ \A h \in Files : Same[h] = h /\ Redirect(f, g)[h] = IF h = g THEN f ELSE h
<1>1. Same \in [Files -> Files] /\ \A h \in Files : Same[h] = h
  BY DEF Same
<1>2. /\ Redirect(f, g) \in [Files -> Files]
      /\ \A h \in Files : Redirect(f, g)[h] = IF h = g THEN f ELSE h
  BY DEF Redirect
<1>3. Shifts(names, names, Same)
  BY <1>1 DEF Shifts
<1>4. Shifts(Unlinked(names, f), names, Same)
  BY <1>1, UnlinkedIs DEF Shifts
<1>5. Shifts(Renamed(names, f, g), names, Redirect(f, g))
  <2> DEFINE new == Renamed(names, f, g)
             from == Redirect(f, g)
  <2>1. \A h \in Files : new[h] = IF h = g THEN names[f] ELSE IF h = f THEN None ELSE names[h]
    BY RenamedIs
  <2> HIDE DEF new, from
  <2>2. from \in [Files -> Files] /\ \A h \in Files : from[h] = IF h = g THEN f ELSE h
    BY <1>2 DEF from
  <2>3. Shifts(new, names, from)
    BY <2>1, <2>2 DEF Shifts
  <2> QED  BY <2>3 DEF new, from
<1> QED  BY <1>1, <1>2, <1>3, <1>4, <1>5

\* A step that only moves and removes names: an inode it gives a temporary name
\* to becomes raced, its new name left.
LEMMA NamesTurn ==
    ASSUME FilesInv, FilesTypes', data' = data, raced \subseteq raced', left \subseteq left',
           \A c \in Clients : op'[c] = op[c] \/ (~Writing(c) /\ ~Writing(c)'),
           \A c \in Clients, f \in Files : Uploading(c, f) => Uploading(c, f)',
           NEW from, Shifts(tree', tree, from), NEW of, Shifts(tmp', tmp, of),
           \A f \in Files : tmp'[f] # None /\ of[f] # f => tmp'[f] \in raced' /\ f \in left'
    PROVE  FilesInv'
<1>1. \A c \in Clients : Writing(c)' => op'[c] = op[c] /\ Writing(c)
  BY DEF Writing
<1>2. OneName'
  BY DEF FilesInv, OneName, Shifts
<1>3. FreshWriters'
  <2> SUFFICES ASSUME NEW c \in Clients, Writing(c)', op'[c].fd \notin raced'
               PROVE  /\ IF op'[c].pc = "write"
                         THEN data'[op'[c].fd] = Empty /\ \A f \in Files : tree'[f] # op'[c].fd
                         ELSE data'[op'[c].fd] \in Contents
                      /\ \A b \in Clients : b # c /\ Writing(b)' => op'[b].fd # op'[c].fd
    BY DEF FreshWriters
  <2>1. op'[c] = op[c] /\ Writing(c) /\ op[c].fd \notin raced
    BY <1>1
  <2>2. op[c].fd # None
    BY <2>1, OpIs, Apart DEF FilesInv
  <2>3. (\A f \in Files : tree[f] # op[c].fd) => (\A f \in Files : tree'[f] # op[c].fd)
    BY <2>2 DEF Shifts
  <2> QED  BY <1>1, <2>1, <2>3 DEF FilesInv, FreshWriters
<1>4. OwnTemporary'
  BY <1>1 DEF FilesInv, OwnTemporary, Shifts
<1>5. LoneUploadsAreWhole'
  BY DEF FilesInv, LoneUploadsAreWhole, Shifts
<1>6. TemporaryNamesAreUnlinked'
  BY DEF FilesInv, TemporaryNamesAreUnlinked, Shifts
<1> QED  BY <1>2, <1>3, <1>4, <1>5, <1>6 DEF FilesInv

\* The name of a file is removed, or becomes another's.
LEMMA FileTurns ==
    ASSUME FilesInv, FilesTypes', NEW f \in Files, NEW g \in Files,
           tree' = Unlinked(tree, f) \/ tree' = Renamed(tree, f, g) \/ tree' = tree,
           UNCHANGED <<tmp, data, raced, left>>,
           \A c \in Clients : op'[c] = op[c] \/ (~Writing(c) /\ ~Writing(c)'),
           \A c \in Clients, h \in Files : Uploading(c, h) => Uploading(c, h)'
    PROVE  FilesInv'
<1>1. tree \in [Files -> Inode] /\ tmp \in [Files -> Inode]
  BY DEF FilesInv, FilesTypes
<1>2. \E from : Shifts(tree', tree, from)
  BY <1>1, Shifting
<1>3. Shifts(tmp', tmp, Same) /\ \A h \in Files : Same[h] = h
  BY <1>1, Shifting
<1> QED  BY <1>2, <1>3, NamesTurn

\* So does the temporary name of an upload.
LEMMA TemporaryTurns ==
    ASSUME FilesInv, FilesTypes', NEW f \in Files, NEW g \in Files,
           \/ tmp' = Unlinked(tmp, f)
           \/ tmp' = Renamed(tmp, f, g) /\ tmp[f] \in raced' /\ g \in left',
           UNCHANGED <<tree, data>>, raced \subseteq raced', left \subseteq left',
           \A c \in Clients : op'[c] = op[c] \/ (~Writing(c) /\ ~Writing(c)'),
           \A c \in Clients, h \in Files : Uploading(c, h) => Uploading(c, h)'
    PROVE  FilesInv'
<1>1. tree \in [Files -> Inode] /\ tmp \in [Files -> Inode]
  BY DEF FilesInv, FilesTypes
<1>2. Shifts(tree', tree, Same)
  BY <1>1, Shifting
<1>3. CASE tmp' = Unlinked(tmp, f)
  <2>1. Shifts(tmp', tmp, Same) /\ \A h \in Files : Same[h] = h
    BY <1>1, <1>3, Shifting
  <2> QED  BY <1>2, <2>1, NamesTurn
<1>4. CASE tmp' = Renamed(tmp, f, g) /\ tmp[f] \in raced' /\ g \in left'
  <2>1. /\ Shifts(tmp', tmp, Redirect(f, g))
        /\ \A h \in Files : Redirect(f, g)[h] = IF h = g THEN f ELSE h
    BY <1>1, <1>4, Shifting
  <2>2. tmp'[g] = tmp[f]
    BY <1>1, <1>4, RenamedIs
  <2>3. \A h \in Files : tmp'[h] # None /\ Redirect(f, g)[h] # h => tmp'[h] \in raced' /\ h \in left'
    BY <1>4, <2>1, <2>2
  <2> QED  BY <1>2, <2>1, <2>3, NamesTurn
<1> QED  BY <1>3, <1>4

LEMMA SpentOps == ASSUME FilesTypes, Begin  PROVE ops' \in 0..MaxOps
BY FilesAssumption DEF FilesTypes, Begin
LEMMA SpentFaults == ASSUME FilesTypes, Fault  PROVE faults' \in 0..MaxFaults
BY FilesAssumption DEF FilesTypes, Fault

LEMMA FileStepKeeps ==
    ASSUME FilesInv, NEW f \in Files, NEW g \in Files, DeleteFile(f) \/ MoveFile(f, g)
    PROVE  FilesInv'
<1>1. /\ tree' = Unlinked(tree, f) \/ tree' = Renamed(tree, f, g)
      /\ UNCHANGED <<tmp, data, op, faults, raced, left>> /\ Begin
  BY DEF DeleteFile, MoveFile
<1>2. FilesTypes'
  <2>1. tree' \in [Files -> Inode]
    BY <1>1, UnlinkedIs, RenamedIs DEF FilesInv, FilesTypes
  <2>2. ops' \in 0..MaxOps
    BY <1>1, SpentOps DEF FilesInv
  <2> QED  BY <1>1, <2>1, <2>2 DEF FilesInv, FilesTypes
<1>3. \A c \in Clients, h \in Files : Uploading(c, h) => Uploading(c, h)'
  BY <1>1 DEF Uploading
<1> QED  BY <1>1, <1>2, <1>3, FileTurns

\* A folder job of a request: it has no upload before or after the step.
LEMMA JobTurns ==
    ASSUME FilesInv, NEW c \in Clients, op[c].pc \in {"idle", "delete", "move"},
           NEW job, job = Idle \/ job \in {j \in FolderJob : j.todo \cup j.tmps # {}},
           op' = [op EXCEPT ![c] = job]
    PROVE  /\ op' \in [Clients -> {Idle} \cup Upload \cup {j \in FolderJob : j.todo \cup j.tmps # {}}]
           /\ \A b \in Clients : op'[b] = op[b] \/ (~Writing(b) /\ ~Writing(b)')
           /\ \A b \in Clients, h \in Files : Uploading(b, h) => Uploading(b, h)'
<1>1. op \in [Clients -> {Idle} \cup Upload \cup {j \in FolderJob : j.todo \cup j.tmps # {}}]
  BY DEF FilesInv, FilesTypes
<1>2. /\ op' \in [Clients -> {Idle} \cup Upload \cup {j \in FolderJob : j.todo \cup j.tmps # {}}]
      /\ op'[c] = job /\ \A b \in Clients : b # c => op'[b] = op[b]
  BY <1>1
<1>3. job.pc \notin {"write", "replace", "cleanup"}
  BY DEF Idle, FolderJob
<1> QED  BY <1>2, <1>3 DEF Writing, Uploading

LEMMA FolderStepTurns ==
    ASSUME FilesInv, NEW c \in Clients, op[c].pc \in {"delete", "move"},
           NEW todo \in SUBSET Visible, NEW tmps \in SUBSET Visible, FolderStep(c, todo, tmps)
    PROVE  /\ op' \in [Clients -> {Idle} \cup Upload \cup {j \in FolderJob : j.todo \cup j.tmps # {}}]
           /\ \A b \in Clients : op'[b] = op[b] \/ (~Writing(b) /\ ~Writing(b)')
           /\ \A b \in Clients, h \in Files : Uploading(b, h) => Uploading(b, h)'
<1> DEFINE j1 == [op[c] EXCEPT !.todo = todo]
           j2 == [j1 EXCEPT !.tmps = tmps]
           job == IF todo \cup tmps = {} THEN Idle ELSE j2
<1>1. op[c] \in FolderJob
  BY OpIs DEF FilesInv
<1>2. j1 \in FolderJob /\ j1.todo = todo
  BY <1>1 DEF FolderJob
<1> HIDE DEF j1
<1>3. j2 \in FolderJob /\ j2.todo = todo /\ j2.tmps = tmps
  BY <1>2 DEF FolderJob
<1> HIDE DEF j2
<1>4. op' = [op EXCEPT ![c] = job]
  BY <1>1 DEF FolderStep, j1, j2, FilesInv, FilesTypes, FolderJob
<1> QED  BY <1>3, <1>4, JobTurns

LEMMA ListFolderKeeps ==
    ASSUME FilesInv, NEW c \in Clients, NEW pc \in {"delete", "move"}, NEW d \in Folders,
           NEW e \in Folders, ListFolder(c, pc, d, e)
    PROVE  FilesInv'
<1> DEFINE job == [pc |-> pc, todo |-> Listing(d), tmps |-> TmpListing(d), to |-> e]
<1>1. /\ op[c].pc = "idle" /\ Begin /\ Listing(d) \cup TmpListing(d) # {}
      /\ op' = [op EXCEPT ![c] = job] /\ UNCHANGED <<tree, tmp, data, faults, raced, left>>
  BY DEF ListFolder
<1>2. Listing(d) \in SUBSET Visible /\ TmpListing(d) \in SUBSET Visible
  BY DEF Listing, TmpListing
<1>3. job \in {j \in FolderJob : j.todo \cup j.tmps # {}}
  BY <1>1, <1>2 DEF FolderJob
<1> HIDE DEF job
<1>4. /\ op' \in [Clients -> {Idle} \cup Upload \cup {j \in FolderJob : j.todo \cup j.tmps # {}}]
      /\ \A b \in Clients : op'[b] = op[b] \/ (~Writing(b) /\ ~Writing(b)')
      /\ \A b \in Clients, h \in Files : Uploading(b, h) => Uploading(b, h)'
  BY <1>1, <1>3, JobTurns
<1>5. FilesTypes'
  BY <1>1, <1>4, SpentOps DEF FilesInv, FilesTypes
<1>6. PICK f : f \in Files
  BY <1>1, Apart DEF Listing, TmpListing
<1> QED  BY <1>1, <1>4, <1>5, <1>6, FileTurns

LEMMA FolderTurnsKeep ==
    ASSUME FilesInv, NEW c \in Clients, DeleteListed(c) \/ MoveListed(c) \/ MoveFails(c)
    PROVE  FilesInv'
<1>1. op[c] \in FolderJob /\ op[c].pc \in {"delete", "move"} /\ UNCHANGED <<data, ops, faults>>
  BY OpIs DEF DeleteListed, MoveListed, MoveFails, FilesInv
<1>2. op[c].todo \in SUBSET Visible /\ op[c].tmps \in SUBSET Visible /\ op[c].to \in Folders
  BY <1>1 DEF FolderJob
<1>3. \A f \in Visible : f \in Files /\ <<op[c].to, f[2]>> \in Files
  BY <1>2, Apart DEF Visible, Files
<1>4. CASE MoveFails(c)
  <2>1. op' = [op EXCEPT ![c] = Idle] /\ UNCHANGED <<tree, tmp, raced, left>>
    BY <1>4 DEF MoveFails
  <2>2. /\ op' \in [Clients -> {Idle} \cup Upload \cup {j \in FolderJob : j.todo \cup j.tmps # {}}]
        /\ \A b \in Clients : op'[b] = op[b] \/ (~Writing(b) /\ ~Writing(b)')
        /\ \A b \in Clients, h \in Files : Uploading(b, h) => Uploading(b, h)'
    BY <1>1, <2>1, JobTurns
  <2>3. FilesTypes'
    BY <1>1, <2>1, <2>2 DEF FilesInv, FilesTypes
  <2>4. PICK f : f \in Files
    BY <1>2, <1>3, <1>4 DEF MoveFails
  <2> QED  BY <1>1, <2>1, <2>2, <2>3, <2>4, FileTurns
<1>5. ASSUME NEW f \in op[c].todo,
             \/ tree' = Unlinked(tree, f)
             \/ tree' = Renamed(tree, f, <<op[c].to, f[2]>>),
             FolderStep(c, op[c].todo \ {f}, op[c].tmps), UNCHANGED <<tmp, raced, left>>
      PROVE  FilesInv'
  <2>1. PICK g \in Files : g = <<op[c].to, f[2]>>
    BY <1>2, <1>3
  <2>2. /\ op' \in [Clients -> {Idle} \cup Upload \cup {j \in FolderJob : j.todo \cup j.tmps # {}}]
        /\ \A b \in Clients : op'[b] = op[b] \/ (~Writing(b) /\ ~Writing(b)')
        /\ \A b \in Clients, h \in Files : Uploading(b, h) => Uploading(b, h)'
    <3>1. PICK todo \in SUBSET Visible : todo = op[c].todo \ {f}
      BY <1>2
    <3> QED  BY <1>1, <1>2, <1>5, <3>1, FolderStepTurns
  <2>3. tree' \in [Files -> Inode]
    <3>1. f \in Files /\ tree \in [Files -> Inode]
      BY <1>2, <1>3 DEF FilesInv, FilesTypes
    <3> QED  BY <1>5, <2>1, <3>1, UnlinkedIs, RenamedIs
  <2>4. FilesTypes'
    BY <1>1, <1>5, <2>2, <2>3 DEF FilesInv, FilesTypes
  <2> QED  BY <1>1, <1>2, <1>3, <1>5, <2>1, <2>2, <2>4, FileTurns
<1>6. ASSUME NEW f \in op[c].tmps, FolderStep(c, op[c].todo, op[c].tmps \ {f}), UNCHANGED tree,
             \/ tmp' = Unlinked(tmp, f) /\ UNCHANGED <<raced, left>>
             \/ /\ tmp[f] # None /\ tmp' = Renamed(tmp, f, <<op[c].to, f[2]>>)
                /\ raced' = raced \cup {tmp[f]} /\ left' = left \cup {<<op[c].to, f[2]>>}
      PROVE  FilesInv'
  <2>1. PICK g \in Files : g = <<op[c].to, f[2]>>
    BY <1>2, <1>3
  <2>2. /\ op' \in [Clients -> {Idle} \cup Upload \cup {j \in FolderJob : j.todo \cup j.tmps # {}}]
        /\ \A b \in Clients : op'[b] = op[b] \/ (~Writing(b) /\ ~Writing(b)')
        /\ \A b \in Clients, h \in Files : Uploading(b, h) => Uploading(b, h)'
    <3>1. PICK tmps \in SUBSET Visible : tmps = op[c].tmps \ {f}
      BY <1>2
    <3> QED  BY <1>1, <1>2, <1>6, <3>1, FolderStepTurns
  <2>3. tmp' \in [Files -> Inode]
    <3>1. f \in Files /\ tmp \in [Files -> Inode]
      BY <1>2, <1>3 DEF FilesInv, FilesTypes
    <3> QED  BY <1>6, <2>1, <3>1, UnlinkedIs, RenamedIs
  <2>4. raced' \subseteq Inodes /\ left' \subseteq Files
    BY <1>2, <1>3, <1>6, <2>1 DEF FilesInv, FilesTypes, Inode
  <2>5. FilesTypes'
    BY <1>1, <1>6, <2>2, <2>3, <2>4 DEF FilesInv, FilesTypes
  <2> QED  BY <1>1, <1>2, <1>3, <1>6, <2>1, <2>2, <2>5, TemporaryTurns
<1>7. CASE DeleteListed(c)
  BY <1>5, <1>6, <1>7 DEF DeleteListed
<1>8. CASE MoveListed(c)
  BY <1>5, <1>6, <1>8 DEF MoveListed
<1> QED  BY <1>4, <1>7, <1>8

-----------------------------------------------------------------------------
\* The steps of an upload.
LEMMA UploadIs ==
    ASSUME NEW job \in Upload, NEW pc \in {"write", "replace", "cleanup"}
    PROVE  /\ [job EXCEPT !.pc = pc] \in Upload /\ [job EXCEPT !.pc = pc].pc = pc
           /\ [job EXCEPT !.pc = pc].file = job.file /\ [job EXCEPT !.pc = pc].fd = job.fd
           /\ [job EXCEPT !.pc = pc].content = job.content
BY DEF Upload

\* The next step of an upload under way.
LEMMA UploadTurns ==
    ASSUME FilesTypes, NEW c \in Clients, NEW pc \in {"write", "replace", "cleanup"},
           op[c].pc \in {"write", "replace", "cleanup"}, op' = [op EXCEPT ![c].pc = pc]
    PROVE  /\ op' \in [Clients -> {Idle} \cup Upload \cup {j \in FolderJob : j.todo \cup j.tmps # {}}]
           /\ op'[c].pc = pc /\ op'[c].file = op[c].file /\ op'[c].fd = op[c].fd
           /\ op'[c].content = op[c].content
           /\ \A b \in Clients : b # c => op'[b] = op[b]
           /\ \A b \in Clients, f \in Files : Uploading(b, f)' = Uploading(b, f)
<1> DEFINE job == [op[c] EXCEPT !.pc = pc]
<1>1. op[c] \in Upload
  BY OpIs
<1>2. job \in Upload /\ job.pc = pc /\ job.file = op[c].file /\ job.fd = op[c].fd /\ job.content = op[c].content
  BY <1>1, UploadIs
<1>3. op' = [op EXCEPT ![c] = job] /\ op \in [Clients -> {Idle} \cup Upload \cup {j \in FolderJob : j.todo \cup j.tmps # {}}]
  BY DEF FilesTypes
<1> HIDE DEF job
<1>4. /\ op' \in [Clients -> {Idle} \cup Upload \cup {j \in FolderJob : j.todo \cup j.tmps # {}}]
      /\ op'[c] = job /\ \A b \in Clients : b # c => op'[b] = op[b]
  BY <1>2, <1>3
<1> QED  BY <1>2, <1>4 DEF Uploading

LEMMA UploadOpenKeeps ==
    ASSUME FilesInv, NEW c \in Clients, NEW f \in Files, NEW v \in Contents, UploadOpen(c, f, v)
    PROVE  FilesInv'
<1> DEFINE job(i) == [pc |-> "write", file |-> f, fd |-> i, content |-> v]
<1>1. PICK i \in Inodes :
        /\ IF tmp[f] = None THEN i \in Free ELSE i = tmp[f]
        /\ tmp' = [tmp EXCEPT ![f] = i] /\ data' = [data EXCEPT ![i] = Empty]
        /\ op' = [op EXCEPT ![c] = job(i)] /\ raced' = RacedBy(f, i)
  BY DEF UploadOpen
<1>2. op[c].pc = "idle" /\ Begin /\ UNCHANGED <<tree, faults, left>> /\ FilesTypes
  BY DEF UploadOpen, FilesInv
<1>3. job(i) \in Upload /\ job(i).pc = "write" /\ job(i).file = f /\ job(i).fd = i
  BY DEF Upload
<1> HIDE DEF job
<1>4. i # None /\ \A h \in Files : tree[h] # i /\ (h # f => tmp[h] # i)
  BY <1>1, Apart DEF Free, FilesInv, OneName
<1>5. op'[c] = job(i) /\ \A b \in Clients : b # c => op'[b] = op[b]
  BY <1>1, <1>2 DEF FilesTypes
<1>6. tmp'[f] = i /\ data'[i] = Empty
      /\ (\A h \in Files : h # f => tmp'[h] = tmp[h])
      /\ (\A x \in Inodes : x # i => data'[x] = data[x])
  BY <1>1, <1>2 DEF FilesTypes
<1>7. /\ raced' \subseteq Inodes
      /\ \A x \in Inodes : x # i /\ x \notin raced' => x \notin raced
      /\ \/ i \in raced'
         \/ \A b \in Clients : ~Uploading(b, f) /\ (Writing(b) => op[b].fd # i)
  <2> DEFINE others == {b \in Clients : Uploading(b, f) \/ (Writing(b) /\ op[b].fd = i)}
             fds == {op[b].fd : b \in {d \in others : Writing(d)}}
  <2>1. raced' = IF others = {} THEN raced \ {i} ELSE raced \cup {i} \cup fds
    BY <1>1 DEF RacedBy
  <2>2. fds \subseteq Inodes
    BY <1>2, OpIs
  <2>3. raced \subseteq Inodes
    BY <1>2 DEF FilesTypes
  <2> HIDE DEF fds
  <2> QED  BY <2>1, <2>2, <2>3
<1>8. FilesTypes'
  <2>1. op' \in [Clients -> {Idle} \cup Upload \cup {j \in FolderJob : j.todo \cup j.tmps # {}}]
    BY <1>1, <1>2, <1>3 DEF FilesTypes
  <2>2. tmp' \in [Files -> Inode] /\ data' \in [Inodes -> Data]
    BY <1>1, <1>2, Apart DEF FilesTypes, Inode
  <2> QED  BY <1>2, <1>7, <2>1, <2>2, SpentOps DEF FilesTypes
<1>9. ~Writing(c) /\ \A h \in Files : ~Uploading(c, h)
  BY <1>2 DEF Writing, Uploading
<1>10. \A b \in Clients : b # c => (Writing(b)' <=> Writing(b)) /\ \A h \in Files : Uploading(b, h)' <=> Uploading(b, h)
  BY <1>5 DEF Writing, Uploading
<1>11. OneName'
  BY <1>2, <1>4, <1>6 DEF FilesInv, OneName
<1>12. FreshWriters'
  <2> SUFFICES ASSUME NEW b \in Clients, Writing(b)', op'[b].fd \notin raced'
               PROVE  /\ IF op'[b].pc = "write"
                         THEN data'[op'[b].fd] = Empty /\ \A h \in Files : tree'[h] # op'[b].fd
                         ELSE data'[op'[b].fd] \in Contents
                      /\ \A d \in Clients : d # b /\ Writing(d)' => op'[d].fd # op'[b].fd
    BY DEF FreshWriters
  <2>1. CASE b = c
    <3>1. op'[b].fd = i /\ op'[b].pc = "write" /\ i \notin raced'
      BY <1>3, <1>5, <2>1
    <3>2. \A d \in Clients : d # c /\ Writing(d)' => op'[d].fd # i
      BY <1>5, <1>7, <1>10, <3>1
    <3> QED  BY <1>2, <1>4, <1>6, <2>1, <3>1, <3>2
  <2>2. CASE b # c
    <3>1. op'[b] = op[b] /\ Writing(b) /\ op[b].fd \in Inodes
      BY <1>2, <1>5, <1>10, <2>2, OpIs
    <3>2. op[b].fd # i
      BY <1>7, <3>1
    <3>3. op[b].fd \notin raced
      BY <1>7, <3>1, <3>2
    <3>4. /\ IF op[b].pc = "write"
             THEN data[op[b].fd] = Empty /\ \A h \in Files : tree[h] # op[b].fd
             ELSE data[op[b].fd] \in Contents
          /\ \A d \in Clients : d # b /\ Writing(d) => op[d].fd # op[b].fd
      BY <3>1, <3>3 DEF FilesInv, FreshWriters
    <3>5. \A d \in Clients : d # b /\ Writing(d)' => op'[d].fd # op[b].fd
      BY <1>3, <1>5, <1>10, <3>2, <3>4
    <3> QED  BY <1>2, <1>6, <3>1, <3>2, <3>4, <3>5
  <2> QED  BY <2>1, <2>2
<1>13. OwnTemporary'
  <2> SUFFICES ASSUME NEW h \in Files, NEW b \in Clients, tmp'[h] # None, tmp'[h] \notin raced',
                      Writing(b)', op'[b].file = h
               PROVE  op'[b].fd = tmp'[h]
    BY DEF OwnTemporary
  <2>1. CASE b = c
    BY <1>3, <1>5, <1>6, <2>1
  <2>2. CASE b # c
    <3>1. Writing(b) /\ op'[b] = op[b] /\ Uploading(b, h)
      BY <1>5, <1>10, <2>2 DEF Writing, Uploading
    <3>2. h # f
      BY <1>6, <1>7, <3>1
    <3>3. tmp[h] # None /\ tmp[h] \notin raced /\ tmp[h] \in Inodes
      <4>1. tmp[h] \in Inodes /\ tmp[h] # None
        BY <1>2, <1>6, <3>2 DEF FilesTypes, Inode
      <4> QED  BY <1>4, <1>6, <1>7, <3>2, <4>1
    <3> QED  BY <1>6, <3>1, <3>2, <3>3 DEF FilesInv, OwnTemporary
  <2> QED  BY <2>1, <2>2
<1>14. LoneUploadsAreWhole'
  <2> SUFFICES ASSUME NEW h \in Files, tree[h] # None, tree[h] \notin raced'
               PROVE  data'[tree[h]] \in Contents
    BY <1>2 DEF LoneUploadsAreWhole
  <2>1. tree[h] \in Inodes /\ tree[h] # i
    BY <1>2, <1>4 DEF FilesTypes, Inode
  <2> QED  BY <1>6, <1>7, <2>1 DEF FilesInv, LoneUploadsAreWhole
<1>15. TemporaryNamesAreUnlinked'
  <2> SUFFICES ASSUME NEW h \in Files, tmp'[h] # None
               PROVE  h \in left \/ \E b \in Clients : Uploading(b, h)'
    BY <1>2 DEF TemporaryNamesAreUnlinked
  <2>1. CASE h = f
    BY <1>3, <1>5, <2>1 DEF Uploading
  <2>2. CASE h # f
    BY <1>6, <1>9, <1>10, <2>2 DEF FilesInv, TemporaryNamesAreUnlinked
  <2> QED  BY <2>1, <2>2
<1> QED  BY <1>8, <1>11, <1>12, <1>13, <1>14, <1>15 DEF FilesInv

LEMMA UploadWriteKeeps ==
    ASSUME FilesInv, NEW c \in Clients, UploadWrite(c) \/ UploadWriteFails(c)
    PROVE  FilesInv'
<1> DEFINE i == op[c].fd
<1>1. /\ op[c].pc = "write" /\ UNCHANGED <<tree, tmp, ops, raced, left>>
      /\ \E pc \in {"replace", "cleanup"} : op' = [op EXCEPT ![c].pc = pc]
      /\ FilesTypes /\ op[c] \in Upload /\ Writing(c)
  BY OpIs DEF UploadWrite, UploadWriteFails, FilesInv, Writing
<1>2. /\ op' \in [Clients -> {Idle} \cup Upload \cup {j \in FolderJob : j.todo \cup j.tmps # {}}]
      /\ op'[c].file = op[c].file /\ op'[c].fd = i /\ op'[c].pc \in {"replace", "cleanup"}
      /\ \A b \in Clients : b # c => op'[b] = op[b]
      /\ \A b \in Clients, f \in Files : Uploading(b, f)' = Uploading(b, f)
      /\ UploadWrite(c) => op'[c].pc = "replace"
      /\ UploadWriteFails(c) => op'[c].pc = "cleanup"
  <2>1. ASSUME NEW pc \in {"replace", "cleanup"}, op' = [op EXCEPT ![c].pc = pc]
        PROVE  /\ op' \in [Clients -> {Idle} \cup Upload \cup {j \in FolderJob : j.todo \cup j.tmps # {}}]
               /\ op'[c].file = op[c].file /\ op'[c].fd = i /\ op'[c].pc = pc
               /\ \A b \in Clients : b # c => op'[b] = op[b]
               /\ \A b \in Clients, f \in Files : Uploading(b, f)' = Uploading(b, f)
    BY <1>1, <2>1, UploadTurns
  <2>2. /\ UploadWrite(c) => op' = [op EXCEPT ![c].pc = "replace"]
        /\ UploadWriteFails(c) => op' = [op EXCEPT ![c].pc = "cleanup"]
    BY DEF UploadWrite, UploadWriteFails
  <2> QED  BY <1>1, <2>1, <2>2
<1>3. i \in Inodes /\ op[c].content \in Contents
  BY <1>1 DEF Upload
<1>4. /\ data' \in [Inodes -> Data] /\ \A x \in Inodes : x # i => data'[x] = data[x]
      /\ UploadWrite(c) /\ i \notin raced => data'[i] \in Contents
      /\ UploadWriteFails(c) => data' = data
  <2>1. CASE UploadWriteFails(c)
    BY <1>1, <2>1, <1>2 DEF UploadWriteFails, FilesTypes, UploadWrite
  <2>2. CASE UploadWrite(c)
    <3>1. data' = [data EXCEPT ![i] = Over(data[i], op[c].content)]
      BY <1>1, <2>2 DEF UploadWrite, FilesTypes
    <3>2. Over(data[i], op[c].content) \in Data
      BY <1>1, <1>3, OverIs DEF FilesTypes
    <3>3. i \notin raced => data[i] = Empty
      BY <1>1 DEF FilesInv, FreshWriters
    <3>4. i \notin raced => Over(data[i], op[c].content) \in Contents
      BY <1>3, <3>3, Apart, OverIs
    <3> QED  BY <1>1, <1>2, <1>3, <2>2, <3>1, <3>2, <3>4 DEF FilesTypes
  <2> QED  BY <2>1, <2>2
<1>5. FilesTypes'
  <2>1. faults' \in 0..MaxFaults
    BY <1>1, SpentFaults DEF UploadWrite, UploadWriteFails, FilesTypes
  <2> QED  BY <1>1, <1>2, <1>4, <2>1 DEF FilesTypes
<1>6. OneName' /\ TemporaryNamesAreUnlinked'
  BY <1>1, <1>2 DEF FilesInv, OneName, TemporaryNamesAreUnlinked
<1>7. \A b \in Clients : Writing(b)' => Writing(b) /\ op'[b].fd = op[b].fd /\ op'[b].file = op[b].file
  BY <1>1, <1>2 DEF Writing
<1>8. OwnTemporary'
  BY <1>1, <1>7 DEF FilesInv, OwnTemporary
<1>9. LoneUploadsAreWhole'
  <2> SUFFICES ASSUME NEW h \in Files, tree[h] # None, tree[h] \notin raced
               PROVE  data'[tree[h]] \in Contents
    BY <1>1 DEF LoneUploadsAreWhole
  <2>1. data[tree[h]] \in Contents /\ tree[h] \in Inodes
    BY <1>1 DEF FilesInv, LoneUploadsAreWhole, FilesTypes, Inode
  <2>2. tree[h] # i
    BY <1>1 DEF FilesInv, FreshWriters
  <2> QED  BY <1>4, <2>1, <2>2
<1>10. FreshWriters'
  <2> SUFFICES ASSUME NEW b \in Clients, Writing(b)', op'[b].fd \notin raced
               PROVE  /\ IF op'[b].pc = "write"
                         THEN data'[op'[b].fd] = Empty /\ \A h \in Files : tree[h] # op'[b].fd
                         ELSE data'[op'[b].fd] \in Contents
                      /\ \A d \in Clients : d # b /\ Writing(d)' => op'[d].fd # op'[b].fd
    BY <1>1 DEF FreshWriters
  <2>1. Writing(b) /\ op'[b].fd = op[b].fd /\ op[b].fd \notin raced /\ op[b].fd \in Inodes
    BY <1>1, <1>7, OpIs
  <2>2. /\ IF op[b].pc = "write"
           THEN data[op[b].fd] = Empty /\ \A h \in Files : tree[h] # op[b].fd
           ELSE data[op[b].fd] \in Contents
        /\ \A d \in Clients : d # b /\ Writing(d) => op[d].fd # op[b].fd
    BY <2>1 DEF FilesInv, FreshWriters
  <2>3. \A d \in Clients : d # b /\ Writing(d)' => op'[d].fd # op'[b].fd
    BY <1>7, <2>1, <2>2
  <2>4. CASE b = c
    <3>1. op'[c].pc = "replace"
      BY <1>2, <2>4 DEF Writing
    <3>2. UploadWrite(c)
      BY <1>2, <3>1
    <3> QED  BY <1>4, <2>1, <2>3, <2>4, <3>1, <3>2
  <2>5. CASE b # c
    <3>1. op'[b] = op[b] /\ op[b].fd # i
      BY <1>1, <1>2, <2>2, <2>5
    <3> QED  BY <1>4, <2>1, <2>2, <2>3, <3>1
  <2> QED  BY <2>4, <2>5
<1> QED  BY <1>5, <1>6, <1>8, <1>9, <1>10 DEF FilesInv

LEMMA UploadReplaceKeeps ==
    ASSUME FilesInv, NEW c \in Clients, UploadReplace(c)  PROVE FilesInv'
<1> DEFINE f == op[c].file
           i == tmp[f]
<1>1. /\ op[c].pc = "replace" /\ tmp' = [tmp EXCEPT ![f] = None]
      /\ tree' = IF i = None THEN tree ELSE [tree EXCEPT ![f] = i]
      /\ op' = [op EXCEPT ![c].pc = "cleanup"] /\ UNCHANGED <<data, ops, faults, raced, left>>
      /\ FilesTypes
  BY DEF UploadReplace, FilesInv
<1>2. Writing(c) /\ f \in Files /\ i \in Inode /\ Uploading(c, f)
  BY <1>1, OpIs DEF Writing, Uploading, FilesTypes
<1>3. /\ op' \in [Clients -> {Idle} \cup Upload \cup {j \in FolderJob : j.todo \cup j.tmps # {}}]
      /\ op'[c].pc = "cleanup" /\ \A b \in Clients : b # c => op'[b] = op[b]
      /\ \A b \in Clients, h \in Files : Uploading(b, h)' = Uploading(b, h)
  BY <1>1, UploadTurns
<1> HIDE DEF f
<1>4. /\ tree' \in [Files -> Inode] /\ tmp' \in [Files -> Inode]
      /\ tmp'[f] = None /\ \A h \in Files : h # f => tmp'[h] = tmp[h] /\ tree'[h] = tree[h]
      /\ tree'[f] = IF i = None THEN tree[f] ELSE i
  BY <1>1, <1>2 DEF FilesTypes, Inode
<1>5. FilesTypes'
  BY <1>1, <1>3, <1>4 DEF FilesTypes
<1>6. OneName'
  BY <1>4 DEF FilesInv, OneName
<1>7. \A b \in Clients : Writing(b)' => b # c /\ op'[b] = op[b] /\ Writing(b)
  BY <1>3 DEF Writing
<1>8. i # None /\ i \notin raced => op[c].fd = i
  BY <1>2 DEF FilesInv, OwnTemporary, f
<1>9. FreshWriters'
  <2> SUFFICES ASSUME NEW b \in Clients, Writing(b)', op'[b].fd \notin raced
               PROVE  /\ IF op'[b].pc = "write"
                         THEN data[op'[b].fd] = Empty /\ \A h \in Files : tree'[h] # op'[b].fd
                         ELSE data[op'[b].fd] \in Contents
                      /\ \A d \in Clients : d # b /\ Writing(d)' => op'[d].fd # op'[b].fd
    BY <1>1 DEF FreshWriters
  <2>1. b # c /\ op'[b] = op[b] /\ Writing(b) /\ op[b].fd \notin raced
    BY <1>7
  <2>2. /\ IF op[b].pc = "write"
           THEN data[op[b].fd] = Empty /\ \A h \in Files : tree[h] # op[b].fd
           ELSE data[op[b].fd] \in Contents
        /\ \A d \in Clients : d # b /\ Writing(d) => op[d].fd # op[b].fd
    BY <2>1 DEF FilesInv, FreshWriters
  <2>3. i # None => op[b].fd # i
    BY <1>2, <1>8, <2>1, <2>2
  <2> QED  BY <1>4, <1>7, <2>1, <2>2, <2>3
<1>10. OwnTemporary'
  BY <1>1, <1>4, <1>7 DEF FilesInv, OwnTemporary
<1>11. LoneUploadsAreWhole'
  <2>1. i # None /\ i \notin raced => data[i] \in Contents
    BY <1>1, <1>2, <1>8 DEF FilesInv, FreshWriters
  <2> QED  BY <1>1, <1>4, <2>1 DEF FilesInv, LoneUploadsAreWhole
<1>12. TemporaryNamesAreUnlinked'
  BY <1>1, <1>3, <1>4 DEF FilesInv, TemporaryNamesAreUnlinked
<1> QED  BY <1>5, <1>6, <1>9, <1>10, <1>11, <1>12 DEF FilesInv

LEMMA UploadCleanupKeeps ==
    ASSUME FilesInv, NEW c \in Clients, UploadCleanup(c)  PROVE FilesInv'
<1> DEFINE f == op[c].file
<1>1. /\ op[c].pc = "cleanup" /\ tmp' = [tmp EXCEPT ![f] = None]
      /\ op' = [op EXCEPT ![c] = Idle] /\ left' = left \ {f}
      /\ UNCHANGED <<tree, data, ops, faults, raced>> /\ FilesTypes
  BY DEF UploadCleanup, FilesInv
<1>2. f \in Files
  BY <1>1, OpIs DEF Upload
<1>3. /\ op' \in [Clients -> {Idle} \cup Upload \cup {j \in FolderJob : j.todo \cup j.tmps # {}}]
      /\ op'[c] = Idle /\ \A b \in Clients : b # c => op'[b] = op[b]
  BY <1>1 DEF FilesTypes
<1>4. \A b \in Clients, h \in Files : h # f => (Uploading(b, h) => Uploading(b, h)')
  BY <1>3 DEF Uploading
<1> HIDE DEF f
<1>5. /\ tmp' \in [Files -> Inode] /\ tmp'[f] = None
      /\ \A h \in Files : h # f => tmp'[h] = tmp[h]
  BY <1>1, <1>2 DEF FilesTypes, Inode
<1>6. FilesTypes'
  BY <1>1, <1>3, <1>5 DEF FilesTypes
<1>7. \A b \in Clients : Writing(b)' => op'[b] = op[b] /\ Writing(b)
  BY <1>3 DEF Writing, Idle
<1>8. OneName'
  BY <1>1, <1>5 DEF FilesInv, OneName
<1>9. FreshWriters'
  BY <1>1, <1>7 DEF FilesInv, FreshWriters
<1>10. OwnTemporary'
  BY <1>1, <1>5, <1>7 DEF FilesInv, OwnTemporary
<1>11. LoneUploadsAreWhole'
  BY <1>1 DEF FilesInv, LoneUploadsAreWhole
<1>12. TemporaryNamesAreUnlinked'
  BY <1>1, <1>4, <1>5 DEF FilesInv, TemporaryNamesAreUnlinked
<1> QED  BY <1>6, <1>8, <1>9, <1>10, <1>11, <1>12 DEF FilesInv

LEMMA FilesNextKeeps == ASSUME FilesInv, FilesNext  PROVE FilesInv'
<1>1. ASSUME NEW c \in Clients, Proceed(c) \/ UploadWriteFails(c)  PROVE FilesInv'
  BY <1>1, UploadWriteKeeps, UploadReplaceKeeps, UploadCleanupKeeps, FolderTurnsKeep DEF Proceed
<1>2. ASSUME NEW c \in Clients, NEW f \in Files, NEW v \in Contents, UploadOpen(c, f, v)
      PROVE  FilesInv'
  BY <1>2, UploadOpenKeeps
<1>3. ASSUME NEW c \in Clients, NEW d \in Folders, NEW e \in Folders,
             ListFolder(c, "delete", d, e) \/ ListFolder(c, "move", d, e)
      PROVE  FilesInv'
  BY <1>3, ListFolderKeeps
<1>4. ASSUME NEW f \in Files, NEW g \in Files, DeleteFile(f) \/ MoveFile(f, g)
      PROVE  FilesInv'
  BY <1>4, FileStepKeeps
<1> QED  BY <1>1, <1>2, <1>3, <1>4 DEF FilesNext

\* The process goes down: temporary names stay, nobody writes any more.
LEMMA DropRequestsKeeps == ASSUME FilesInv, DropRequests  PROVE FilesInv'
<1>1. /\ Fault /\ op' = [c \in Clients |-> Idle] /\ left' = left \cup {f \in Files : tmp[f] # None}
      /\ UNCHANGED <<tree, tmp, data, ops, raced>> /\ FilesTypes
  BY DEF DropRequests, FilesInv
<1>2. FilesTypes'
  BY <1>1, SpentFaults DEF FilesTypes
<1>3. \A c \in Clients : ~Writing(c)'
  BY <1>1 DEF Writing, Idle
<1>4. FreshWriters' /\ OwnTemporary'
  BY <1>3 DEF FreshWriters, OwnTemporary
<1> QED  BY <1>1, <1>2, <1>4 DEF FilesInv, OneName, LoneUploadsAreWhole, TemporaryNamesAreUnlinked

\* A step that leaves the files alone, but may have failed.
LEMMA FilesRest ==
    ASSUME FilesInv, UNCHANGED <<tree, tmp, data, op, ops, raced, left>>, faults' = faults \/ Fault
    PROVE  FilesInv'
<1>1. FilesTypes'
  BY SpentFaults DEF FilesInv, FilesTypes
<1>2. /\ \A c \in Clients : Writing(c)' <=> Writing(c)
      /\ \A c \in Clients, f \in Files : Uploading(c, f)' <=> Uploading(c, f)
  BY DEF Writing, Uploading
<1>3. OneName' /\ FreshWriters' /\ OwnTemporary'
  BY <1>2 DEF FilesInv, OneName, FreshWriters, OwnTemporary
<1>4. LoneUploadsAreWhole' /\ TemporaryNamesAreUnlinked'
  BY <1>2 DEF FilesInv, LoneUploadsAreWhole, TemporaryNamesAreUnlinked
<1> QED  BY <1>1, <1>3, <1>4 DEF FilesInv

-----------------------------------------------------------------------------
\* The steps of the passes, for a tree of any size: rows and texts keep their
\* shape, and there are none of files that are not indexed.
LEMMA PassIs ==
    ASSUME IndexTypes, NEW i \in Passes
    PROVE  /\ pass[i].pc \in {"idle", "list", "visit", "extract"}
           /\ pass[i].pc = "list" => pass[i] \in ListRow
           /\ pass[i].pc = "visit" => pass[i] \in VisitRow
           /\ pass[i].pc = "extract" => pass[i] \in ExtractRow
           /\ NoPass.pc = "idle"
BY DEF IndexTypes, PassRow, NoPass, ListRow, VisitRow, ExtractRow

LEMMA PassTurns ==
    ASSUME IndexTypes, OnlyIndexed, NEW i \in Passes, NEW p \in PassRow, pass' = [pass EXCEPT ![i] = p],
           p.pc = "extract" => Indexed(p.file), p.pc = "idle" => i \notin alone',
           index' \in [Files -> Row], \A f \in Files : index'[f] # None => Indexed(f),
           alone' \subseteq alone \cup {i}, synced' \in BOOLEAN
    PROVE  /\ IndexTypes' /\ OnlyIndexed'
           /\ pass'[i] = p /\ \A j \in Passes : j # i => pass'[j] = pass[j]
<1>1. /\ pass' \in [Passes -> PassRow] /\ pass'[i] = p
      /\ \A j \in Passes : j # i => pass'[j] = pass[j]
  BY DEF IndexTypes
<1>2. OnlyIndexed'
  BY <1>1 DEF OnlyIndexed, Indexed
<1> QED  BY <1>1, <1>2 DEF IndexTypes

LEMMA DiskIs ==
    ASSUME FilesTypes
    PROVE  /\ Disk \in [Files -> Row]
           /\ \A f \in Files : /\ (Disk[f] = None) = (tree[f] = None)
                               /\ tree[f] # None => Disk[f] \in Data
BY Apart DEF FilesTypes, Disk, Row, Inode

\* What a pass finds in the folders is every file there is.
LEMMA FoundIs == UNION {Listing(d) : d \in Folders} = Found /\ Found \in SUBSET Visible
<1>1. \A f \in Visible : f[1] \in Folders
  BY DEF Visible
<1>2. \A f : f \in UNION {Listing(d) : d \in Folders} <=> f \in Found
  BY <1>1 DEF Listing, Found
<1>3. Found \in SUBSET Visible
  BY DEF Found
<1> QED  BY <1>2, <1>3

\* The pass's record after each of its steps.
LEMMA StartIs ==
    ASSUME ShapeInv, NEW i \in Passes, StartPass(i) \/ PreloadFails(i)
    PROVE  /\ IndexTypes' /\ OnlyIndexed' /\ index' = index /\ synced' = synced
           /\ pass'[i].pc = "list" /\ \A j \in Passes : j # i => pass'[j] = pass[j]
           /\ pass[i].pc = "idle"
<1>1. PICK existing \in [Files -> Row] : pass' = [pass EXCEPT ![i] = [pc |-> "list", existing |-> existing]]
  <2>1. CASE StartPass(i)
    <3>1. PICK S \in SUBSET Rows :
            pass' = [pass EXCEPT ![i] =
                       [pc |-> "list", existing |-> [f \in Files |-> IF f \in S THEN index[f] ELSE None]]]
      BY <2>1 DEF StartPass
    <3>2. [f \in Files |-> IF f \in S THEN index[f] ELSE None] \in [Files -> Row]
      BY DEF ShapeInv, IndexTypes, Row
    <3> QED  BY <3>1, <3>2
  <2>2. CASE PreloadFails(i)
    <3>1. [f \in Files |-> None] \in [Files -> Row]
      BY DEF Row
    <3> QED  BY <2>2, <3>1 DEF PreloadFails
  <2> QED  BY <2>1, <2>2
<1> DEFINE p == [pc |-> "list", existing |-> existing]
<1>2. p \in PassRow /\ p.pc = "list"
  BY <1>1 DEF PassRow, ListRow
<1> HIDE DEF p
<1>3. /\ pass' = [pass EXCEPT ![i] = p] /\ index' = index /\ synced' = synced
      /\ alone' \subseteq alone \cup {i} /\ pass[i].pc = "idle"
  BY <1>1 DEF StartPass, PreloadFails, p
<1>4. /\ IndexTypes /\ OnlyIndexed /\ index' \in [Files -> Row] /\ synced' \in BOOLEAN
      /\ \A f \in Files : index'[f] # None => Indexed(f)
  BY <1>3 DEF ShapeInv, IndexTypes, OnlyIndexed
<1>5. /\ IndexTypes' /\ OnlyIndexed' /\ pass'[i] = p
      /\ \A j \in Passes : j # i => pass'[j] = pass[j]
  BY <1>2, <1>3, <1>4, PassTurns
<1> QED  BY <1>2, <1>3, <1>5

LEMMA ListIs ==
    ASSUME ShapeInv, NEW i \in Passes, ListTree(i) \/ ListFails(i)
    PROVE  /\ IndexTypes' /\ OnlyIndexed' /\ index' = index /\ pass[i].pc = "list"
           /\ pass'[i].pc = "visit" /\ pass'[i].existing = pass[i].existing
           /\ ListTree(i) => pass'[i].todo = Found /\ pass'[i].seen = Found
           /\ \A j \in Passes : j # i => pass'[j] = pass[j]
<1>1. PICK found \in SUBSET Visible :
        /\ pass' = [pass EXCEPT ![i] = [pc |-> "visit", existing |-> pass[i].existing,
                                        todo |-> found, seen |-> found]]
        /\ ListTree(i) => found = Found
  <2>1. CASE ListTree(i)
    BY <2>1, FoundIs DEF ListTree, ShapeInv, IndexTypes
  <2>2. CASE ListFails(i) /\ ~ListTree(i)
    BY <2>2 DEF ListFails, ShapeInv, IndexTypes
  <2> QED  BY <2>1, <2>2
<1> DEFINE p == [pc |-> "visit", existing |-> pass[i].existing, todo |-> found, seen |-> found]
<1>2. /\ pass[i].pc = "list" /\ index' = index /\ synced' \in BOOLEAN /\ alone' \subseteq alone
      /\ IndexTypes /\ OnlyIndexed
  BY DEF ListTree, ListFails, ShapeInv, IndexTypes
<1>3. p \in PassRow /\ p.pc = "visit" /\ p.existing = pass[i].existing /\ p.todo = found /\ p.seen = found
  BY <1>1, <1>2, PassIs DEF PassRow, ListRow, VisitRow
<1>4. pass' = [pass EXCEPT ![i] = p]
  BY <1>1
<1> HIDE DEF p
<1>5. index' \in [Files -> Row] /\ \A f \in Files : index'[f] # None => Indexed(f)
  BY <1>2 DEF IndexTypes, OnlyIndexed
<1>6. /\ IndexTypes' /\ OnlyIndexed' /\ pass'[i] = p
      /\ \A j \in Passes : j # i => pass'[j] = pass[j]
  BY <1>2, <1>3, <1>4, <1>5, PassTurns
<1> QED  BY <1>1, <1>2, <1>3, <1>6

LEMMA VisitIs ==
    ASSUME ShapeInv, NEW i \in Passes, NEW f \in Files, PassOver(i, f) \/ ReadFile(i, f)
    PROVE  /\ IndexTypes' /\ OnlyIndexed' /\ index' = index
           /\ pass[i].pc = "visit" /\ f \in pass[i].todo /\ f \in Visible
           /\ pass'[i].pc = (IF ReadFile(i, f) THEN "extract" ELSE "visit")
           /\ pass'[i].existing = pass[i].existing /\ pass'[i].seen = pass[i].seen
           /\ pass'[i].todo = pass[i].todo \ {f}
           /\ ReadFile(i, f) => pass'[i].file = f /\ pass'[i].text = Disk[f]
           /\ \A j \in Passes : j # i => pass'[j] = pass[j]
<1>1. /\ pass[i].pc = "visit" /\ f \in pass[i].todo
      /\ index' = index /\ alone' = alone /\ synced' = synced
      /\ IndexTypes /\ OnlyIndexed /\ FilesTypes
  BY DEF PassOver, ReadFile, ShapeInv, FilesInv
<1>2. pass[i] \in VisitRow /\ f \in Visible
  BY <1>1, PassIs DEF VisitRow
<1>3. PICK p \in PassRow :
        /\ pass' = [pass EXCEPT ![i] = p]
        /\ p.pc = (IF ReadFile(i, f) THEN "extract" ELSE "visit")
        /\ p.existing = pass[i].existing /\ p.seen = pass[i].seen /\ p.todo = pass[i].todo \ {f}
        /\ ReadFile(i, f) => p.file = f /\ p.text = Disk[f]
  <2>1. CASE ReadFile(i, f)
    <3> DEFINE p == [pc |-> "extract", existing |-> pass[i].existing, todo |-> pass[i].todo \ {f},
                     seen |-> pass[i].seen, file |-> f, text |-> Disk[f]]
    <3>1. pass' = [pass EXCEPT ![i] = p]
      BY <1>1, <2>1 DEF ReadFile, IndexTypes
    <3>2. Disk[f] \in Data
      BY <1>1, <2>1, DiskIs DEF ReadFile
    <3>3. /\ p \in ExtractRow /\ p.pc = "extract" /\ p.existing = pass[i].existing
          /\ p.seen = pass[i].seen /\ p.todo = pass[i].todo \ {f} /\ p.file = f /\ p.text = Disk[f]
      BY <1>2, <3>2 DEF VisitRow, ExtractRow
    <3> HIDE DEF p
    <3> QED  BY <2>1, <3>1, <3>3 DEF PassRow
  <2>2. CASE PassOver(i, f) /\ ~ReadFile(i, f)
    <3> DEFINE p == [pass[i] EXCEPT !.todo = pass[i].todo \ {f}]
    <3>1. pass' = [pass EXCEPT ![i] = p]
      BY <1>1, <1>2, <2>2 DEF PassOver, IndexTypes, VisitRow
    <3>2. /\ p \in VisitRow /\ p.pc = "visit" /\ p.existing = pass[i].existing /\ p.seen = pass[i].seen
          /\ p.todo = pass[i].todo \ {f}
      BY <1>2 DEF VisitRow
    <3> HIDE DEF p
    <3> QED  BY <2>2, <3>1, <3>2 DEF PassRow
  <2> QED  BY <2>1, <2>2
<1>4. p.pc = "extract" => Indexed(p.file)
  BY <1>2, <1>3 DEF ReadFile, Indexed
<1>5. index' \in [Files -> Row] /\ synced' \in BOOLEAN /\ \A g \in Files : index'[g] # None => Indexed(g)
  BY <1>1 DEF IndexTypes, OnlyIndexed
<1>6. /\ IndexTypes' /\ OnlyIndexed' /\ pass'[i] = p
      /\ \A j \in Passes : j # i => pass'[j] = pass[j]
  BY <1>1, <1>3, <1>4, <1>5, PassTurns
<1> QED  BY <1>1, <1>2, <1>3, <1>6

LEMMA UpsertIs ==
    ASSUME ShapeInv, NEW i \in Passes, Upsert(i) \/ UpsertFails(i)
    PROVE  /\ IndexTypes' /\ OnlyIndexed'
           /\ pass[i].pc = "extract" /\ pass[i].file \in Visible /\ Indexed(pass[i].file)
           /\ pass[i].text \in Data
           /\ pass'[i].pc = "visit" /\ pass'[i].existing = pass[i].existing
           /\ pass'[i].seen = pass[i].seen /\ pass'[i].todo = pass[i].todo
           /\ \A f \in Files : f # pass[i].file => index'[f] = index[f]
           /\ Upsert(i) /\ pass[i].text \notin Unreadable => index'[pass[i].file] = pass[i].text
           /\ UpsertFails(i) \/ (Upsert(i) /\ pass[i].text \in Unreadable) => index' = index
           /\ \A j \in Passes : j # i => pass'[j] = pass[j]
<1> DEFINE p == [pc |-> "visit", existing |-> pass[i].existing, todo |-> pass[i].todo,
                 seen |-> pass[i].seen]
           f == pass[i].file
<1>1. /\ pass[i].pc = "extract" /\ pass' = [pass EXCEPT ![i] = p]
      /\ alone' \subseteq alone /\ synced' = synced
      /\ IndexTypes /\ OnlyIndexed
  BY DEF Upsert, UpsertFails, GoOn, ShapeInv, IndexTypes
<1>2. pass[i] \in ExtractRow /\ f \in Visible /\ f \in Files /\ pass[i].text \in Data /\ Indexed(f)
  BY <1>1, PassIs, Apart DEF ExtractRow, OnlyIndexed
<1>3. /\ p \in PassRow /\ p.pc = "visit" /\ p.existing = pass[i].existing
      /\ p.seen = pass[i].seen /\ p.todo = pass[i].todo
  BY <1>2 DEF ExtractRow, VisitRow, PassRow
<1> HIDE DEF p
<1>4. /\ index' = index \/ index' = [index EXCEPT ![f] = pass[i].text]
      /\ Upsert(i) => index' = IF pass[i].text \in Unreadable THEN index
                               ELSE [index EXCEPT ![f] = pass[i].text]
      /\ UpsertFails(i) => index' = index
  BY DEF Upsert, UpsertFails
<1>5. /\ index' \in [Files -> Row] /\ \A g \in Files : g # f => index'[g] = index[g]
      /\ Upsert(i) /\ pass[i].text \notin Unreadable => index'[f] = pass[i].text
      /\ UpsertFails(i) \/ (Upsert(i) /\ pass[i].text \in Unreadable) => index' = index
  BY <1>1, <1>2, <1>4 DEF IndexTypes, Row
<1>6. \A g \in Files : index'[g] # None => Indexed(g)
  BY <1>1, <1>2, <1>5 DEF OnlyIndexed
<1>7. synced' \in BOOLEAN
  BY <1>1 DEF IndexTypes
<1>8. /\ IndexTypes' /\ OnlyIndexed' /\ pass'[i] = p
      /\ \A j \in Passes : j # i => pass'[j] = pass[j]
  BY <1>1, <1>3, <1>6, <1>7, <1>5, PassTurns
<1> QED  BY <1>1, <1>2, <1>3, <1>5, <1>8

LEMMA PruneIs ==
    ASSUME ShapeInv, NEW i \in Passes, NEW f \in Files, Prune(i, f)
    PROVE  /\ IndexTypes' /\ OnlyIndexed' /\ UNCHANGED <<alone, synced, files>>
           /\ pass[i].pc = "visit" /\ pass[i].todo = {} /\ f \notin pass[i].seen
           /\ index'[f] = None /\ \A g \in Files : g # f => index'[g] = index[g]
           /\ pass'[i].pc = "visit" /\ pass'[i].seen = pass[i].seen /\ pass'[i].todo = {}
           /\ pass'[i].existing[f] = None
           /\ \A g \in Files : g # f => pass'[i].existing[g] = pass[i].existing[g]
           /\ \A j \in Passes : j # i => pass'[j] = pass[j]
<1> DEFINE e == [pass[i].existing EXCEPT ![f] = None]
           p == [pass[i] EXCEPT !.existing = e]
<1>1. /\ pass[i].pc = "visit" /\ pass[i].todo = {} /\ f \notin pass[i].seen
      /\ index' = [index EXCEPT ![f] = None] /\ UNCHANGED <<alone, synced, files>>
      /\ IndexTypes /\ OnlyIndexed
  BY DEF Prune, Stale, ShapeInv
<1>2. pass[i] \in VisitRow
  BY <1>1, PassIs
<1>3. pass' = [pass EXCEPT ![i] = p]
  BY <1>1, <1>2 DEF Prune, IndexTypes, VisitRow
<1>4. e \in [Files -> Row] /\ e[f] = None /\ \A g \in Files : g # f => e[g] = pass[i].existing[g]
  BY <1>2 DEF VisitRow, Row
<1> HIDE DEF e
<1>5. p \in VisitRow /\ p.pc = "visit" /\ p.existing = e /\ p.seen = pass[i].seen /\ p.todo = {}
  BY <1>1, <1>2, <1>4 DEF VisitRow
<1> HIDE DEF p
<1>6. /\ index' \in [Files -> Row] /\ index'[f] = None
      /\ \A g \in Files : g # f => index'[g] = index[g]
  BY <1>1 DEF IndexTypes, Row
<1>7. /\ \A g \in Files : index'[g] # None => Indexed(g)
      /\ synced' \in BOOLEAN /\ p \in PassRow /\ alone' \subseteq alone \cup {i}
  BY <1>1, <1>5, <1>6 DEF OnlyIndexed, IndexTypes, PassRow
<1>8. /\ IndexTypes' /\ OnlyIndexed' /\ pass'[i] = p
      /\ \A j \in Passes : j # i => pass'[j] = pass[j]
  BY <1>1, <1>3, <1>5, <1>6, <1>7, PassTurns
<1> QED  BY <1>1, <1>4, <1>5, <1>6, <1>8

LEMMA EndIs ==
    ASSUME ShapeInv, NEW i \in Passes, EndPass(i) \/ PruneFails(i)
    PROVE  /\ IndexTypes' /\ OnlyIndexed' /\ index' = index
           /\ pass'[i].pc = "idle" /\ \A j \in Passes : j # i => pass'[j] = pass[j]
<1>1. /\ pass' = [pass EXCEPT ![i] = NoPass] /\ index' = index
      /\ alone' \subseteq alone \ {i} /\ synced' \in BOOLEAN /\ IndexTypes /\ OnlyIndexed
  BY DEF EndPass, PruneFails, ShapeInv, IndexTypes
<1>2. NoPass \in PassRow /\ NoPass.pc = "idle"
  BY DEF PassRow, NoPass
<1>3. index' \in [Files -> Row] /\ \A f \in Files : index'[f] # None => Indexed(f)
  BY <1>1 DEF IndexTypes, OnlyIndexed
<1>4. /\ IndexTypes' /\ OnlyIndexed' /\ pass'[i] = NoPass
      /\ \A j \in Passes : j # i => pass'[j] = pass[j]
  BY <1>1, <1>2, <1>3, PassTurns
<1> QED  BY <1>1, <1>2, <1>4

LEMMA OthersAre ==
    ASSUME ShapeInv, ChangeFiles \/ Restart \/ UNCHANGED vars
    PROVE  ShapeInv'
<1>1. FilesInv'
  <2>1. UNCHANGED vars => FilesInv'
    BY FilesRest DEF ShapeInv, vars, files
  <2> QED  BY <2>1, FilesNextKeeps, DropRequestsKeeps DEF ShapeInv, ChangeFiles, Restart
<1>2. IndexTypes /\ OnlyIndexed
  BY DEF ShapeInv
<1>3. CASE ChangeFiles \/ UNCHANGED vars
  <2>1. UNCHANGED <<index, pass>> /\ alone' \subseteq alone /\ synced' \in BOOLEAN
    BY <1>2, <1>3 DEF ChangeFiles, vars, IndexTypes
  <2> QED  BY <1>1, <1>2, <2>1 DEF ShapeInv, IndexTypes, OnlyIndexed, Indexed
<1>4. CASE Restart
  <2>1. /\ UNCHANGED <<index, synced>> /\ alone' = {} /\ pass' = [i \in Passes |-> NoPass]
    BY <1>4 DEF Restart
  <2>2. NoPass \in PassRow /\ NoPass.pc = "idle"
    BY DEF PassRow, NoPass
  <2> QED  BY <1>1, <1>2, <2>1, <2>2 DEF ShapeInv, IndexTypes, OnlyIndexed, Indexed
<1> QED  BY <1>3, <1>4

LEMMA ShapeStarts == ASSUME IndexInit  PROVE ShapeInv
<1>1. FilesInv
  BY FilesStart DEF IndexInit
<1>2. IndexTypes /\ OnlyIndexed
  BY DEF IndexInit, IndexTypes, OnlyIndexed, Row, PassRow, NoPass
<1> QED  BY <1>1, <1>2 DEF ShapeInv

LEMMA ShapeKeeps == ASSUME ShapeInv, [Next]_vars  PROVE ShapeInv'
<1>1. ASSUME NEW i \in Passes,
             \/ StartPass(i) \/ PassStep(i)
             \/ PreloadFails(i) \/ ListFails(i) \/ UpsertFails(i) \/ PruneFails(i)
      PROVE  ShapeInv'
  <2>1. FilesInv'
    <3>1. UNCHANGED <<tree, tmp, data, op, ops, raced, left>> /\ (faults' = faults \/ Fault)
      BY <1>1 DEF StartPass, PassStep, ListTree, PassOver, ReadFile, Prune, Upsert, EndPass,
                  PreloadFails, ListFails, UpsertFails, PruneFails, files
    <3> QED  BY <3>1, FilesRest DEF ShapeInv
  <2>2. IndexTypes' /\ OnlyIndexed'
    BY <1>1, StartIs, ListIs, VisitIs, UpsertIs, PruneIs, EndIs DEF PassStep
  <2> QED  BY <2>1, <2>2 DEF ShapeInv
<1> QED  BY <1>1, OthersAre DEF Next

-----------------------------------------------------------------------------
\* The steps of the passes, as long as a pass preloads every row: the index
\* follows the tree.
LEMMA LoneIs ==
    ASSUME FollowInv, IndexTypes, NEW i \in Passes, pass[i].pc # "idle"
    PROVE  alone \subseteq {i}
BY DEF FollowInv, Undisturbed, IndexTypes

\* A step of one pass: another that is alone is not there.
LEMMA FollowTurns ==
    ASSUME ShapeInv, ShapeInv', FollowInv, NEW i \in Passes, UNCHANGED <<tree, data>>,
           \A j \in Passes : j # i => pass'[j] = pass[j],
           alone' \subseteq {i},
           synced' => InSync' /\ UpToDate(i)'
                      /\ (~synced => \A j \in Passes : j # i => pass[j].pc = "idle"),
           i \in alone' => UpToDate(i)' /\ Undisturbed(i)'
    PROVE  FollowInv'
<1>1. Disk' = Disk /\ Found' = Found
  BY DEF Disk, Found
<1>2. ASSUME synced', NEW j \in Passes, j # i  PROVE UpToDate(j)'
  <2>1. pass'[j] = pass[j] /\ (synced \/ pass[j].pc = "idle")
    BY <1>2
  <2> QED  BY <1>1, <1>2, <2>1 DEF FollowInv, UpToDate
<1> QED  BY <1>2 DEF FollowInv, IndexFollowsTree

LEMMA StartFollows ==
    ASSUME ShapeInv, ShapeInv', FollowInv, RowsAreLoaded, NEW i \in Passes,
           StartPass(i) \/ PreloadFails(i)
    PROVE  FollowInv'
<1>1. /\ index' = index /\ synced' = synced /\ pass'[i].pc = "list" /\ pass[i].pc = "idle"
      /\ \A j \in Passes : j # i => pass'[j] = pass[j]
      /\ UNCHANGED <<tree, data>> /\ alone' \subseteq {i}
  BY StartIs DEF StartPass, PreloadFails, files
<1>2. UpToDate(i)'
  BY <1>1 DEF UpToDate
<1>3. synced => InSync'
  BY <1>1 DEF FollowInv, IndexFollowsTree, InSync, Disk
<1>4. ASSUME i \in alone'  PROVE Undisturbed(i)'
  <2>1. StartPass(i) /\ \A j \in Passes : pass[j].pc = "idle"
    BY <1>4 DEF StartPass, PreloadFails
  <2>2. PICK S \in SUBSET Rows :
          /\ Cardinality(S) = IF Cardinality(Rows) <= Preload THEN Cardinality(Rows) ELSE Preload
          /\ pass' = [pass EXCEPT ![i] =
               [pc |-> "list", existing |-> [f \in Files |-> IF f \in S THEN index[f] ELSE None]]]
    BY <2>1 DEF StartPass
  <2>3. IsFiniteSet(Rows) /\ Cardinality(Rows) <= Preload
    <3>1. Rows \subseteq Files /\ IsFiniteSet(Files)
      BY DEF Rows, RowsAreLoaded
    <3>2. IsFiniteSet(Rows) /\ Cardinality(Rows) <= Cardinality(Files)
      BY <3>1, FS_Subset
    <3>3. Cardinality(Rows) \in Nat /\ Cardinality(Files) \in Nat
      BY <3>1, <3>2, FS_CardinalityType
    <3> QED  BY <3>2, <3>3, IndexAssumption DEF RowsAreLoaded
  <2>4. S = Rows
    BY <2>2, <2>3, FS_Subset
  <2>5. [f \in Files |-> IF f \in S THEN index[f] ELSE None] = index
    BY <2>4 DEF ShapeInv, IndexTypes, Rows
  <2>6. pass'[i].existing = index
    BY <2>2, <2>5 DEF ShapeInv, IndexTypes
  <2> QED  BY <1>1, <2>1, <2>6 DEF Undisturbed
<1> QED  BY <1>1, <1>2, <1>3, <1>4, FollowTurns

\* The others, seen from a pass that is alone.
LEMMA OthersIdle ==
    ASSUME FollowInv, NEW i \in alone
    PROVE  /\ \A j \in Passes : j # i => pass[j].pc = "idle"
           /\ UpToDate(i) /\ Undisturbed(i)
BY DEF FollowInv, Undisturbed

LEMMA ListFollows ==
    ASSUME ShapeInv, ShapeInv', FollowInv, NEW i \in Passes, ListTree(i) \/ ListFails(i)
    PROVE  FollowInv'
<1>1. /\ index' = index /\ pass[i].pc = "list" /\ pass'[i].pc = "visit"
      /\ pass'[i].existing = pass[i].existing
      /\ \A j \in Passes : j # i => pass'[j] = pass[j]
      /\ ListTree(i) => pass'[i].todo = Found /\ pass'[i].seen = Found
  BY ListIs
<1>2. UNCHANGED <<tree, data>> /\ alone' \subseteq {i} /\ Found' = Found
  BY <1>1, LoneIs DEF ListTree, ListFails, files, ShapeInv, Found
<1>3. CASE ListFails(i)
  BY <1>1, <1>2, <1>3, FollowTurns DEF ListFails
<1>4. CASE ListTree(i)
  <2>1. alone' = alone /\ synced' = synced
    BY <1>4 DEF ListTree
  <2>2. UpToDate(i)'
    BY <1>1, <1>2, <1>4 DEF UpToDate
  <2>3. synced => InSync'
    BY <1>1, <1>2 DEF FollowInv, IndexFollowsTree, InSync, Disk
  <2>4. ASSUME i \in alone  PROVE Undisturbed(i)'
    BY <1>1, <1>2, <1>4, <2>4, OthersIdle DEF Undisturbed
  <2> QED  BY <1>1, <1>2, <2>1, <2>2, <2>3, <2>4, FollowTurns
<1> QED  BY <1>3, <1>4

LEMMA VisitFollows ==
    ASSUME ShapeInv, ShapeInv', FollowInv, NEW i \in Passes, NEW f \in Files,
           PassOver(i, f) \/ ReadFile(i, f)
    PROVE  FollowInv'
<1>1. /\ index' = index /\ pass[i].pc = "visit" /\ f \in pass[i].todo /\ f \in Visible
      /\ pass'[i].pc = (IF ReadFile(i, f) THEN "extract" ELSE "visit")
      /\ pass'[i].existing = pass[i].existing /\ pass'[i].seen = pass[i].seen
      /\ pass'[i].todo = pass[i].todo \ {f}
      /\ ReadFile(i, f) => pass'[i].file = f /\ pass'[i].text = Disk[f]
      /\ \A j \in Passes : j # i => pass'[j] = pass[j]
  BY VisitIs
<1>2. /\ UNCHANGED <<tree, data, alone, synced>> /\ alone' \subseteq {i} /\ Found' = Found
      /\ Disk' = Disk
  BY <1>1, LoneIs DEF PassOver, ReadFile, files, ShapeInv, Found, Disk
<1>3. UpToDate(i) => UpToDate(i)'
  BY <1>1, <1>2 DEF UpToDate, ReadFile
<1>4. synced => InSync'
  BY <1>1, <1>2 DEF FollowInv, IndexFollowsTree, InSync
<1>5. ASSUME i \in alone  PROVE Undisturbed(i)'
  <2>1. Undisturbed(i)
    BY <1>5, OthersIdle
  <2>2. /\ \A j \in Passes : j # i => pass[j].pc = "idle"
        /\ pass[i].todo \subseteq Found
        /\ \A g \in Visible :
             IF g \notin Found \/ g \in pass[i].todo THEN pass[i].existing[g] = index[g]
             ELSE g[2] \in Indexable => RowDone(g)
    BY <1>1, <2>1 DEF Undisturbed
  <2>3. f \in Found /\ pass[i].existing[f] = index[f]
    BY <1>1, <2>2
  <2>4. ~ReadFile(i, f) => f[2] \notin Indexable \/ RowDone(f)
    BY <1>1, <2>3 DEF PassOver, Found, Known, RowDone
  <2>5. \A g : RowDone(g)' <=> RowDone(g)
    BY <1>1, <1>2 DEF RowDone
  <2> QED  BY <1>1, <1>2, <2>2, <2>3, <2>4, <2>5 DEF Undisturbed
<1>6. (synced => UpToDate(i)) /\ (i \in alone => UpToDate(i))
  BY DEF FollowInv
<1> QED  BY <1>1, <1>2, <1>3, <1>4, <1>5, <1>6, FollowTurns

LEMMA UpsertFollows ==
    ASSUME ShapeInv, ShapeInv', FollowInv, NEW i \in Passes, Upsert(i) \/ UpsertFails(i)
    PROVE  FollowInv'
<1>0. PICK f \in Visible : f = pass[i].file
  BY UpsertIs
<1>1. /\ pass[i].pc = "extract" /\ pass[i].file = f /\ Indexed(f)
      /\ pass'[i].pc = "visit" /\ pass'[i].existing = pass[i].existing
      /\ pass'[i].seen = pass[i].seen /\ pass'[i].todo = pass[i].todo
      /\ \A g \in Files : g # f => index'[g] = index[g]
      /\ Upsert(i) /\ pass[i].text \notin Unreadable => index'[f] = pass[i].text
      /\ UpsertFails(i) \/ (Upsert(i) /\ pass[i].text \in Unreadable) => index' = index
      /\ \A j \in Passes : j # i => pass'[j] = pass[j]
  BY <1>0, UpsertIs
<1>2. /\ UNCHANGED <<tree, data, synced>> /\ alone' \subseteq alone /\ alone \subseteq {i}
      /\ Found' = Found /\ Disk' = Disk
  BY <1>1, LoneIs DEF Upsert, UpsertFails, files, ShapeInv, Found, Disk
<1>3. UpToDate(i) => UpToDate(i)' /\ f \in Found /\ pass[i].text = Disk[f]
  BY <1>1, <1>2 DEF UpToDate, Found
<1>4. (synced => UpToDate(i)) /\ (i \in alone => UpToDate(i))
  BY DEF FollowInv
<1>5. ASSUME synced  PROVE InSync'
  <2> SUFFICES ASSUME NEW g \in Visible
               PROVE  IF tree[g] = None \/ g[2] \notin Indexable THEN index'[g] = None
                      ELSE Disk[g] \notin Unreadable => index'[g] = Disk[g]
    BY <1>2 DEF InSync
  <2>1. IF tree[g] = None \/ g[2] \notin Indexable THEN index[g] = None
        ELSE Disk[g] \notin Unreadable => index[g] = Disk[g]
    BY <1>5 DEF FollowInv, IndexFollowsTree, InSync
  <2>2. CASE g # f
    BY <1>1, <2>1, <2>2, Apart
  <2>3. CASE g = f
    BY <1>1, <1>3, <1>4, <1>5, <2>1, <2>3 DEF Found, Indexed
  <2> QED  BY <2>2, <2>3
<1>6. ASSUME i \in alone'  PROVE Undisturbed(i)'
  <2>1. Undisturbed(i) /\ Upsert(i)
    BY <1>2, <1>6, OthersIdle DEF UpsertFails
  <2>2. /\ \A j \in Passes : j # i => pass[j].pc = "idle"
        /\ pass[i].todo \subseteq Found /\ f \notin pass[i].todo
        /\ \A g \in Visible :
             IF g \notin Found \/ g \in pass[i].todo THEN pass[i].existing[g] = index[g]
             ELSE g[2] \in Indexable /\ g # f => RowDone(g)
    BY <1>1, <2>1 DEF Undisturbed
  <2>3. f \in Found /\ pass[i].text = Disk[f]
    BY <1>2, <1>3, <1>4, <1>6
  <2>4. \A g \in Visible : g # f => (RowDone(g)' <=> RowDone(g))
    BY <1>1, <1>2, Apart DEF RowDone
  <2>5. RowDone(f)'
    BY <1>1, <1>2, <2>1, <2>3 DEF RowDone
  <2> QED  BY <1>1, <1>2, <2>2, <2>3, <2>4, <2>5, Apart DEF Undisturbed
<1> QED  BY <1>1, <1>2, <1>3, <1>4, <1>5, <1>6, FollowTurns

LEMMA PruneFollows ==
    ASSUME ShapeInv, ShapeInv', FollowInv, NEW i \in Passes, NEW f \in Files, Prune(i, f)
    PROVE  FollowInv'
<1>1. /\ UNCHANGED <<alone, synced, files>> /\ pass[i].pc = "visit" /\ pass[i].todo = {}
      /\ f \notin pass[i].seen /\ index'[f] = None /\ \A g \in Files : g # f => index'[g] = index[g]
      /\ pass'[i].pc = "visit" /\ pass'[i].seen = pass[i].seen /\ pass'[i].todo = {}
      /\ pass'[i].existing[f] = None
      /\ \A g \in Files : g # f => pass'[i].existing[g] = pass[i].existing[g]
      /\ \A j \in Passes : j # i => pass'[j] = pass[j]
  BY PruneIs
<1>2. UNCHANGED <<tree, data>> /\ Found' = Found /\ Disk' = Disk /\ alone' \subseteq {i}
  BY <1>1, LoneIs DEF files, Found, Disk, ShapeInv
<1>3. UpToDate(i) => UpToDate(i)' /\ f \notin Found
  BY <1>1, <1>2 DEF UpToDate
<1>4. (synced => UpToDate(i)) /\ (i \in alone => UpToDate(i))
  BY DEF FollowInv
<1>5. synced => InSync'
  BY <1>1, <1>2, <1>3, <1>4, Apart DEF FollowInv, IndexFollowsTree, InSync, Found
<1>6. ASSUME i \in alone  PROVE Undisturbed(i)'
  <2>1. Undisturbed(i)
    BY <1>6, OthersIdle
  <2>2. /\ \A j \in Passes : j # i => pass[j].pc = "idle"
        /\ \A g \in Visible :
             IF g \notin Found THEN pass[i].existing[g] = index[g]
             ELSE g[2] \in Indexable => RowDone(g)
    BY <1>1, <2>1 DEF Undisturbed
  <2>3. f \notin Found
    BY <1>3, <1>4, <1>6
  <2>4. \A g \in Visible : g # f => (RowDone(g)' <=> RowDone(g))
    BY <1>1, <1>2, Apart DEF RowDone
  <2> QED  BY <1>1, <1>2, <2>2, <2>3, <2>4, Apart DEF Undisturbed
<1> QED  BY <1>1, <1>2, <1>3, <1>4, <1>5, <1>6, FollowTurns

LEMMA EndFollows ==
    ASSUME ShapeInv, ShapeInv', FollowInv, NEW i \in Passes, EndPass(i) \/ PruneFails(i)
    PROVE  FollowInv'
<1>1. /\ index' = index /\ pass'[i].pc = "idle" /\ \A j \in Passes : j # i => pass'[j] = pass[j]
      /\ UNCHANGED <<tree, data>> /\ Disk' = Disk /\ pass[i].pc = "visit" /\ pass[i].todo = {}
  BY EndIs DEF EndPass, PruneFails, files, Disk
<1>2. alone' = {} /\ (synced' => synced \/ (EndPass(i) /\ i \in alone))
  <2>1. alone \subseteq {i}
    BY <1>1, LoneIs DEF ShapeInv
  <2>2. (alone' = {} \/ alone' = alone \ {i}) /\ (synced' => synced \/ (EndPass(i) /\ i \in alone))
    <3>1. CASE EndPass(i)
      BY <3>1 DEF EndPass
    <3>2. CASE PruneFails(i)
      BY <3>2 DEF PruneFails
    <3> QED  BY <3>1, <3>2
  <2> QED  BY <2>1, <2>2
<1>3. UpToDate(i)'
  BY <1>1 DEF UpToDate
<1>4. synced => InSync'
  BY <1>1 DEF FollowInv, IndexFollowsTree, InSync
<1>5. ASSUME EndPass(i), i \in alone
      PROVE  InSync' /\ \A j \in Passes : j # i => pass[j].pc = "idle"
  <2>1. Undisturbed(i) /\ pass[i].seen = Found
    BY <1>1, <1>5, OthersIdle DEF UpToDate
  <2>2. /\ \A j \in Passes : j # i => pass[j].pc = "idle"
        /\ \A g \in Visible :
             IF g \notin Found THEN pass[i].existing[g] = index[g]
             ELSE g[2] \in Indexable => RowDone(g)
    BY <1>1, <2>1 DEF Undisturbed
  <2>3. \A g \in Files \ Found : pass[i].existing[g] = None
    BY <1>5, <2>1 DEF EndPass, Stale
  <2>4. \A g \in Visible : g[2] \notin Indexable => index[g] = None
    BY Apart DEF ShapeInv, OnlyIndexed, Indexed
  <2>5. InSync'
    BY <1>1, <2>2, <2>3, <2>4, Apart DEF InSync, Found, RowDone
  <2> QED  BY <2>2, <2>5
<1> QED  BY <1>1, <1>2, <1>3, <1>4, <1>5, FollowTurns

\* When the tree changes, nothing is claimed of the index; when a request only
\* touches temporary names, nothing that passes read has changed.
LEMMA OthersFollow ==
    ASSUME ShapeInv, ShapeInv', FollowInv, ChangeFiles \/ Restart \/ UNCHANGED vars
    PROVE  FollowInv'
<1>1. CASE (ChangeFiles /\ Disk' = Disk) \/ UNCHANGED vars
  <2>1. UNCHANGED <<index, pass>> /\ Disk' = Disk /\ alone' = alone /\ synced' = synced
    BY <1>1 DEF ChangeFiles, ShapeInv, IndexTypes, vars, files, Disk
  <2>2. \A f \in Files : (tree'[f] = None) = (tree[f] = None)
    <3>1. \A f \in Files : /\ (Disk[f] = None) = (tree[f] = None)
                            /\ (Disk'[f] = None) = (tree'[f] = None)
      BY Apart DEF ShapeInv, FilesInv, FilesTypes, Disk, Inode
    <3> QED  BY <2>1, <3>1
  <2>3. Found' = Found
    BY <2>2, Apart DEF Found
  <2>4. \A i \in Passes : UpToDate(i) => UpToDate(i)'
    BY <2>1, <2>2, <2>3, Apart DEF UpToDate, ShapeInv, OnlyIndexed, Indexed
  <2>5. \A f : RowDone(f)' <=> RowDone(f)
    BY <2>1 DEF RowDone
  <2>6. \A i \in Passes : Undisturbed(i) => Undisturbed(i)'
    BY <2>1, <2>3, <2>5 DEF Undisturbed
  <2>7. InSync => InSync'
    BY <2>1, <2>2, Apart DEF InSync
  <2> QED  BY <2>1, <2>4, <2>6, <2>7 DEF FollowInv, IndexFollowsTree, ShapeInv, IndexTypes
<1>2. CASE ChangeFiles /\ Disk' # Disk
  BY <1>2 DEF ChangeFiles, FollowInv, IndexFollowsTree
<1>3. CASE Restart
  <2>1. /\ UNCHANGED <<index, synced, tree, data>> /\ alone' = {}
        /\ pass' = [i \in Passes |-> NoPass]
    BY <1>3 DEF Restart, DropRequests
  <2>2. \A i \in Passes : UpToDate(i)'
    BY <2>1 DEF UpToDate, NoPass
  <2> QED  BY <2>1, <2>2 DEF FollowInv, IndexFollowsTree, InSync, Disk
<1> QED  BY <1>1, <1>2, <1>3

LEMMA FollowKeeps ==
    ASSUME ShapeInv, FollowInv, RowsAreLoaded, [Next]_vars  PROVE FollowInv'
<1>1. ShapeInv'
  BY ShapeKeeps
<1>2. ASSUME NEW i \in Passes,
             \/ StartPass(i) \/ PassStep(i)
             \/ PreloadFails(i) \/ ListFails(i) \/ UpsertFails(i) \/ PruneFails(i)
      PROVE  FollowInv'
  BY <1>1, <1>2, StartFollows, ListFollows, VisitFollows, UpsertFollows, PruneFollows, EndFollows
     DEF PassStep
<1> QED  BY <1>1, <1>2, OthersFollow DEF Next

-----------------------------------------------------------------------------
\* For any number of folders, names, requests and passes: what is written
\* where, whose temporary names are whose, and what rows there can be.
THEOREM FilesInvariant == Spec => []ShapeInv
<1>1. IndexInit => ShapeInv
  BY ShapeStarts
<1>2. ShapeInv /\ [Next]_vars => ShapeInv'
  BY ShapeKeeps
<1> QED  BY <1>1, <1>2, PTL DEF Spec

\* The tree, its requests, the rows and the passes keep their shape.
THEOREM TypesHold == Spec => []TypeOK
<1>1. ShapeInv => TypeOK
  <2> SUFFICES ASSUME ShapeInv  PROVE TypeOK
    OBVIOUS
  <2>1. FilesTypes /\ IndexTypes
    BY DEF ShapeInv, FilesInv
  <2>2. FilesTypeOK
    BY <2>1 DEF FilesTypes, FilesTypeOK, Inode, Upload, FolderJob
  <2>3. \A i \in Passes : pass[i] \in PassType
    BY <2>1 DEF IndexTypes, PassRow, PassType, ListRow, VisitRow, ExtractRow, Row
  <2> QED  BY <2>1, <2>2, <2>3 DEF TypeOK, IndexTypes, Row
<1> QED  BY <1>1, FilesInvariant, PTL

\* A file under its name holds one upload in full, unless uploads of it
\* overlapped or its folder was moved under one.
THEOREM UploadsAreWholeAlone == Spec => []LoneUploadsAreWhole
<1>1. ShapeInv => LoneUploadsAreWhole
  BY DEF ShapeInv, FilesInv
<1> QED  BY <1>1, FilesInvariant, PTL

\* Only a restart or a moved folder leaves a temporary name behind.
THEOREM UploadsTidyUp == Spec => []TemporaryNamesAreUnlinked
<1>1. ShapeInv => TemporaryNamesAreUnlinked
  BY DEF ShapeInv, FilesInv
<1> QED  BY <1>1, FilesInvariant, PTL

\* After a pass that nothing disturbed the index agrees with the tree, and
\* stays so until the tree changes or a listing fails, whatever else the
\* passes do and wherever they fail: for a tree whose rows a pass can preload.
THEOREM IndexAgrees == ASSUME RowsAreLoaded  PROVE Spec => []IndexFollowsTree
<1>1. IndexInit => ShapeInv /\ FollowInv
  BY ShapeStarts DEF IndexInit, FollowInv, IndexFollowsTree
<1>2. ShapeInv /\ FollowInv /\ [Next]_vars => ShapeInv' /\ FollowInv'
  BY ShapeKeeps, FollowKeeps
<1>3. FollowInv => IndexFollowsTree
  BY DEF FollowInv
<1> QED  BY <1>1, <1>2, <1>3, PTL DEF Spec
=============================================================================
