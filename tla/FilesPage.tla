------------------------------ MODULE FilesPage ------------------------------
(***************************************************************************)
(* The file browser (components/files/file-browser.tsx) on top of the      *)
(* cached listing of one folder, "X"; the other folder is the root.  A     *)
(* version of the server is the set of files of each folder.  "e" is there *)
(* from the start, "r" is its new name, and the user picks a batch of two  *)
(* files to upload.                                                        *)
(***************************************************************************)
EXTENDS QueryCache

CONSTANT MaxFileCalls   \* bound: calls of the browser

VARIABLE browser
Folders == {"root", "X"}
Batch == <<"f", "g">>

\* queue: the files of the batch not tried yet, with the folder that was
\* open when they were picked.  ok and failed are what the toasts said.
FilesInit ==
    /\ CacheInit("files/list", [root |-> {}, X |-> {"e"}], MaxFileCalls)
    /\ browser = [prefix |-> "root", queue |-> <<>>, at |-> "root", picked |-> FALSE,
                  ok |-> {}, failed |-> {}]

Listing == IF mounted /\ entry.data # 0 /\ ~entry.error
           THEN server[entry.data]["X"] ELSE {}

FilesView ==
    /\ Answer \/ Fill \/ FetchFails
    /\ UNCHANGED browser

\* Folder by folder: the listing on screen is the one of the prefix.
GoTo ==
    \/ /\ browser.prefix = "root" /\ Mount
       /\ browser' = [browser EXCEPT !.prefix = "X"]
    \/ /\ browser.prefix = "X" /\ Unmount
       /\ browser' = [browser EXCEPT !.prefix = "root"]

Uploading == \E c \in Calls : calls[c].state # "none" /\ calls[c].job.kind = "put"

\* The paths are made from the prefix the handler closed over.
PickFiles ==
    /\ ~browser.picked /\ ~Uploading
    /\ browser' = [browser EXCEPT !.queue = Batch, !.at = browser.prefix, !.picked = TRUE]
    /\ UNCHANGED cacheVars

Ask(c, hook, job) ==
    /\ Send(c, hook, job)
    /\ UNCHANGED <<query, server, entry, fetch, mounted, own, raced>>

\* Faulty: the folder on screen when the file's turn comes.
CurrentFolder == browser.prefix

UploadFolder == browser.at

\* One file after the other.
UploadNext(c) ==
    /\ browser.queue # <<>> /\ ~Uploading
    /\ Ask(c, "uploadFile", [kind |-> "put", file |-> Head(browser.queue), folder |-> UploadFolder])
    /\ browser' = [browser EXCEPT !.queue = Tail(@)]

Busy(kind) == \E c \in Calls : calls[c].state # "none" /\ calls[c].job.kind = kind

\* Rows act on what the listing shows; New folder and Sync wait for their own
\* call, Rename and Delete do not.
RowAction(c) ==
    /\ \E f \in Listing :
         \/ f # "r" /\ Ask(c, "moveEntry", [kind |-> "move", file |-> f, folder |-> "X"])
         \/ Ask(c, "deleteEntry", [kind |-> "delete", file |-> f, folder |-> "X"])
    /\ UNCHANGED browser

FolderAction(c) ==
    /\ \/ /\ ~Busy("folder")
          /\ Ask(c, "createFolder", [kind |-> "folder", file |-> "d", folder |-> browser.prefix])
       \/ /\ ~Busy("sync")
          /\ Ask(c, "syncMoodle", [kind |-> "sync", file |-> "m", folder |-> "X"])
    /\ UNCHANGED browser

Moved(job, last) ==
    LET put == [last EXCEPT ![job.folder] = @ \cup {job.file}]
        out == [last EXCEPT ![job.folder] = @ \ {job.file}]
    IN CASE job.kind \in {"put", "folder", "sync"} -> put
         [] job.kind = "delete" -> out
         [] job.kind = "move" -> [out EXCEPT ![job.folder] = @ \cup {"r"}]

Perform(c) ==
    /\ calls[c].state = "sent"
    /\ calls[c].job.kind = "move" => calls[c].job.file \in server[Now][calls[c].job.folder]
    /\ Apply(c, Moved(calls[c].job, server[Now]))
    /\ UNCHANGED browser

\* An error: the file to rename is gone.
Missing(c) ==
    /\ calls[c].state = "sent" /\ calls[c].job.kind = "move"
    /\ calls[c].job.file \notin server[Now][calls[c].job.folder]
    /\ calls' = [calls EXCEPT ![c] = NoCall]
    /\ UNCHANGED <<query, server, entry, fetch, mounted, own, raced, budget, browser>>

Done(c) ==
    /\ Succeed(c)
    /\ browser' = IF calls[c].job.kind = "put"
                  THEN [browser EXCEPT !.ok = @ \cup {calls[c].job.file}] ELSE browser

\* A failed upload does not stop the loop.
AfterFailure(b, job) ==
    IF job.kind = "put" THEN [b EXCEPT !.failed = @ \cup {job.file}] ELSE b

Failed(c) ==
    /\ Fail(c)
    /\ browser' = AfterFailure(browser, calls[c].job)

FilesStep ==
    \/ FilesView \/ GoTo \/ PickFiles
    \/ \E c \in Calls : UploadNext(c) \/ RowAction(c) \/ FolderAction(c)
                        \/ Perform(c) \/ Missing(c) \/ Done(c) \/ Failed(c)
=============================================================================
