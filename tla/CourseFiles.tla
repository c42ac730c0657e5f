---------------------------- MODULE CourseFiles ----------------------------
(***************************************************************************)
(* One user's course tree (app/services/storage.py) as the file routes     *)
(* (app/routers/files.py) change it.  Blocking calls run on threads, so    *)
(* the system calls of requests interleave: an upload writes a temporary   *)
(* file that is named after its target and the process, a folder is        *)
(* deleted or moved file by file from a listing made before.               *)
(*                                                                         *)
(* A file is <<folder, name>>.  Names lead to inodes, as in the kernel: an *)
(* upload goes on writing to the inode it opened whatever became of the    *)
(* name.  Directories are taken to exist (every write makes its parents).  *)
(***************************************************************************)
EXTENDS Integers, FiniteSets

CONSTANTS
    Folders, Names,
    Hidden,    \* the names that start with a dot (".keep")
    Contents,  \* what may be uploaded
    Size,      \* its size
    Inodes,    \* bound: a set of numbers, more than are ever in use
    Clients,   \* requests that may be in flight
    MaxOps,    \* bound: requests that change the tree
    MaxFaults, \* bound: restarts and failing steps
    None

Files == Folders \X Names
Visible == Folders \X (Names \ Hidden)

\* A file just opened for writing, and one that two writers left in pieces.
Empty == "empty"
Mixed == "mixed"
Data == Contents \union {Empty, Mixed}

ASSUME FilesAssumption ==
    /\ Hidden \subseteq Names
    /\ Size \in [Contents -> Nat]
    /\ Inodes \subseteq Nat /\ MaxOps \in Nat /\ MaxFaults \in Nat
    /\ {Empty, Mixed} \intersect Contents = {}
    /\ None \notin Inodes /\ None \notin Data

VARIABLES
    tree,   \* the inode each file name leads to, or None
    tmp,    \* the same for the temporary name of each file
    data,   \* what each inode holds
    op,     \* the request each client has in flight
    ops,    \* requests begun
    faults, \* restarts and failing steps so far
    \* History, read by properties only.
    raced,  \* inodes of uploads that overlapped one of the same file, or whose
            \* temporary name a folder move took
    left    \* files whose temporary name a restart or a folder move left behind

files == <<tree, tmp, data, op, ops, faults, raced, left>>

Idle == [pc |-> "idle"]

Init ==
    /\ tree = [f \in Files |-> None]
    /\ tmp = [f \in Files |-> None]
    /\ data = [i \in Inodes |-> Empty]
    /\ op = [c \in Clients |-> Idle]
    /\ ops = 0 /\ faults = 0
    /\ raced = {} /\ left = {}

\* What reading a file gives, None where there is none.
Disk == [f \in Files |-> IF tree[f] = None THEN None ELSE data[tree[f]]]

Writing(c) == op[c].pc \in {"write", "replace"}

Free == {i \in Inodes :
           /\ \A f \in Files : tree[f] # i /\ tmp[f] # i
           /\ \A c \in Clients : Writing(c) => op[c].fd # i}

Uploading(c, f) == op[c].pc \in {"write", "replace", "cleanup"} /\ op[c].file = f

\* The raced inodes once an upload of f opens inode i.
RacedBy(f, i) ==
    LET others == {b \in Clients : Uploading(b, f) \/ (Writing(b) /\ op[b].fd = i)}
    IN IF others = {} THEN raced \ {i}
       ELSE raced \union {i} \union {op[b].fd : b \in {d \in others : Writing(d)}}

Begin == ops < MaxOps /\ ops' = ops + 1
Fault == faults < MaxFaults /\ faults' = faults + 1

\* Faulty: the target itself is opened for writing.
UploadOpenTarget(c, f, v) ==
    /\ op[c].pc = "idle" /\ Begin
    /\ \E i \in Inodes :
         /\ IF tree[f] = None
            THEN i \in Free /\ \A j \in Free : i <= j
            ELSE i = tree[f]
         /\ tree' = [tree EXCEPT ![f] = i]
         /\ data' = [data EXCEPT ![i] = Empty]
         /\ op' = [op EXCEPT ![c] = [pc |-> "write", file |-> f, fd |-> i, content |-> v]]
         /\ raced' = RacedBy(f, i)
    /\ UNCHANGED <<tmp, faults, left>>

\* write_bytes opens the temporary name: a new inode, or the one that name has
\* (of another upload of this file, or left by a crash), truncated.
UploadOpen(c, f, v) ==
    /\ op[c].pc = "idle" /\ Begin
    /\ \E i \in Inodes :
         /\ IF tmp[f] = None
            THEN i \in Free /\ \A j \in Free : i <= j
            ELSE i = tmp[f]
         /\ tmp' = [tmp EXCEPT ![f] = i]
         /\ data' = [data EXCEPT ![i] = Empty]
         /\ op' = [op EXCEPT ![c] = [pc |-> "write", file |-> f, fd |-> i, content |-> v]]
         /\ raced' = RacedBy(f, i)
    /\ UNCHANGED <<tree, faults, left>>

\* Both writers start at the beginning of the inode: the longer one's tail stays.
Over(old, new) ==
    IF old = Empty \/ (old \in Contents /\ Size[old] <= Size[new]) THEN new ELSE Mixed

UploadWrite(c) ==
    /\ op[c].pc = "write"
    /\ data' = [data EXCEPT ![op[c].fd] = Over(@, op[c].content)]
    /\ op' = [op EXCEPT ![c].pc = "replace"]
    /\ UNCHANGED <<tree, tmp, ops, faults, raced, left>>

\* The write raises: a full disk.
UploadWriteFails(c) ==
    /\ op[c].pc = "write" /\ Fault
    /\ op' = [op EXCEPT ![c].pc = "cleanup"]
    /\ UNCHANGED <<tree, tmp, data, ops, raced, left>>

\* os.replace takes whatever has the temporary name by now; when nothing has,
\* it raises and the upload answers 500.
UploadReplace(c) ==
    LET f == op[c].file
    IN /\ op[c].pc = "replace"
       /\ tree' = IF tmp[f] = None THEN tree ELSE [tree EXCEPT ![f] = tmp[f]]
       /\ tmp' = [tmp EXCEPT ![f] = None]
       /\ op' = [op EXCEPT ![c].pc = "cleanup"]
       /\ UNCHANGED <<data, ops, faults, raced, left>>

\* Faulty: only an upload that went well tidies up.
UploadCleanupNothing(c) ==
    /\ op[c].pc = "cleanup"
    /\ op' = [op EXCEPT ![c] = Idle]
    /\ UNCHANGED <<tree, tmp, data, ops, faults, raced, left>>

\* The finally clause unlinks the temporary name, also when it is another's.
UploadCleanup(c) ==
    /\ op[c].pc = "cleanup"
    /\ tmp' = [tmp EXCEPT ![op[c].file] = None]
    /\ op' = [op EXCEPT ![c] = Idle]
    /\ left' = left \ {op[c].file}
    /\ UNCHANGED <<tree, data, ops, faults, raced>>

\* unlink, and rename over whatever has the new name.
Unlinked(names, f) == [names EXCEPT ![f] = None]
Renamed(names, f, g) == [names EXCEPT ![f] = None, ![g] = names[f]]

DeleteFile(f) ==
    /\ tree[f] # None /\ Begin
    /\ tree' = Unlinked(tree, f)
    /\ UNCHANGED <<tmp, data, op, faults, raced, left>>

MoveFile(f, g) ==
    /\ tree[f] # None /\ f # g /\ Begin
    /\ tree' = Renamed(tree, f, g)
    /\ UNCHANGED <<tmp, data, op, faults, raced, left>>

\* list_recursive skips dotfiles; the temporary names of uploads are not hidden
\* unless their file is.
Listing(d) == {f \in Visible : f[1] = d /\ tree[f] # None}
TmpListing(d) == {f \in Visible : f[1] = d /\ tmp[f] # None}

ListFolder(c, pc, d, e) ==
    /\ op[c].pc = "idle" /\ Begin
    /\ Listing(d) \union TmpListing(d) # {}
    /\ op' = [op EXCEPT ![c] = [pc |-> pc, todo |-> Listing(d), tmps |-> TmpListing(d), to |-> e]]
    /\ UNCHANGED <<tree, tmp, data, faults, raced, left>>

\* Faulty: a request whose list is empty goes on with it.
FolderStepOn(c, todo, tmps) == op' = [op EXCEPT ![c].todo = todo, ![c].tmps = tmps]

\* The request goes on with what is left to do, or ends.
FolderStep(c, todo, tmps) ==
    op' = [op EXCEPT ![c] = IF todo \union tmps = {} THEN Idle
                            ELSE [@ EXCEPT !.todo = todo, !.tmps = tmps]]

\* A name that is gone by now is passed over.
DeleteListed(c) ==
    /\ op[c].pc = "delete"
    /\ \/ \E f \in op[c].todo :
            /\ tree' = Unlinked(tree, f) /\ UNCHANGED tmp
            /\ FolderStep(c, op[c].todo \ {f}, op[c].tmps)
       \/ \E f \in op[c].tmps :
            /\ tmp' = Unlinked(tmp, f) /\ UNCHANGED tree
            /\ FolderStep(c, op[c].todo, op[c].tmps \ {f})
    /\ UNCHANGED <<data, ops, faults, raced, left>>

\* A temporary name becomes that of the file of the same name over there.
MoveListed(c) ==
    /\ op[c].pc = "move"
    /\ \/ \E f \in op[c].todo :
            /\ tree[f] # None
            /\ tree' = Renamed(tree, f, <<op[c].to, f[2]>>)
            /\ FolderStep(c, op[c].todo \ {f}, op[c].tmps)
            /\ UNCHANGED <<tmp, raced, left>>
       \/ \E f \in op[c].tmps :
            /\ tmp[f] # None
            /\ tmp' = Renamed(tmp, f, <<op[c].to, f[2]>>)
            /\ FolderStep(c, op[c].todo, op[c].tmps \ {f})
            /\ raced' = raced \union {tmp[f]}
            /\ left' = left \union {<<op[c].to, f[2]>>}
            /\ UNCHANGED tree
    /\ UNCHANGED <<data, ops, faults>>

\* A name that is gone by now ends the move in the middle.
MoveFails(c) ==
    /\ op[c].pc = "move"
    /\ (\E f \in op[c].todo : tree[f] = None) \/ (\E f \in op[c].tmps : tmp[f] = None)
    /\ op' = [op EXCEPT ![c] = Idle]
    /\ UNCHANGED <<tree, tmp, data, ops, faults, raced, left>>

\* The steps of requests already begun.
Proceed(c) ==
    \/ UploadWrite(c) \/ UploadReplace(c) \/ UploadCleanup(c)
    \/ DeleteListed(c) \/ MoveListed(c) \/ MoveFails(c)

FilesNext ==
    \/ \E c \in Clients :
         \/ \E f \in Files, v \in Contents : UploadOpen(c, f, v)
         \/ \E d \in Folders : ListFolder(c, "delete", d, d)
         \/ \E d, e \in Folders : d # e /\ ListFolder(c, "move", d, e)
         \/ Proceed(c)
         \/ UploadWriteFails(c)
    \/ \E f \in Files : DeleteFile(f)
    \/ \E f, g \in Files : MoveFile(f, g)

\* The process restarts: no finally clause runs, temporary names stay.
DropRequests ==
    /\ Fault
    /\ op' = [c \in Clients |-> Idle]
    /\ left' = left \union {f \in Files : tmp[f] # None}
    /\ UNCHANGED <<tree, tmp, data, ops, raced>>

(***************************************************************************)
(* Properties.                                                             *)
(***************************************************************************)

FilesTypeOK ==
    /\ tree \in [Files -> Inodes \union {None}]
    /\ tmp \in [Files -> Inodes \union {None}]
    /\ data \in [Inodes -> Data]
    /\ ops \in 0..MaxOps /\ faults \in 0..MaxFaults
    /\ raced \subseteq Inodes /\ left \subseteq Files
    /\ \A c \in Clients :
         \/ op[c] = Idle
         \/ /\ op[c].pc \in {"write", "replace", "cleanup"}
            /\ op[c].file \in Files /\ op[c].fd \in Inodes /\ op[c].content \in Contents
         \/ /\ op[c].pc \in {"delete", "move"}
            /\ op[c].todo \subseteq Visible /\ op[c].tmps \subseteq Visible
            /\ op[c].todo \union op[c].tmps # {} /\ op[c].to \in Folders

\* "Atomic via tmp+rename" (storage.py:297): whatever happens between the system
\* calls, a file under its name holds one upload in full, unless two uploads of
\* one file overlapped or its folder was moved under the upload.
LoneUploadsAreWhole ==
    \A f \in Files : tree[f] # None /\ tree[f] \notin raced => data[tree[f]] \in Contents

\* A temporary name is there only while an upload of its file runs, also after
\* writes that failed and files lost to another upload; only a restart or a
\* folder moved under the upload leaves one.
TemporaryNamesAreUnlinked ==
    \A f \in Files : tmp[f] # None => f \in left \/ \E c \in Clients : Uploading(c, f)

\* The docstring to the letter, refuted by a run of its own.
UploadsAreWhole == \A f \in Files : tree[f] # None => data[tree[f]] \in Contents
=============================================================================
