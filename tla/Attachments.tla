---------------------------- MODULE Attachments ----------------------------
(***************************************************************************)
(* The files of one room: rows of attachments at Postgres, objects at the  *)
(* storage (external), and the job that clears both away                   *)
(* (internal/chat/attachment.go, attachment_cleanup.go, room_archive.go).  *)
(*                                                                         *)
(* The storage is not part of any transaction: a client begins to put its  *)
(* object there while its upload URL is valid, complete looks at it before *)
(* a statement that moves the row on, and the cleanup deletes it while its *)
(* transaction holds the row.  Time is abstract: the URL of a file expires *)
(* (uploadURLTTL), and much later the file is stale (attachmentRetention). *)
(* The URL binds size and type, so an object never mismatches its row.     *)
(***************************************************************************)
EXTENDS Naturals, FiniteSets

CONSTANTS
    Files,
    Messages, NoMessage,
    Callers,        \* concurrent calls of CompleteAttachment and DeleteMessageAttachment
    Cleaners,       \* the instances, each with its cleanup job
    MaxFailed       \* bound: transactions that fail

ASSUME AttachmentsAssumption == NoMessage \notin Messages /\ MaxFailed \in Nat

VARIABLES
    row,        \* attachments.status; "cleaned" and "cascaded" once the row is gone
    of,         \* attachments.message_id
    age,        \* what has passed since the file was created
    object,     \* the files whose object is at the storage
    message,    \* the messages of the room: with text, or with files only
    room,       \* "locked" while a DeleteRoom is in its transaction
    copied,     \* the keys it has copied to storage_deletions
    queue,      \* storage_deletions
    call,       \* the calls under way
    batch,      \* the batch of each cleanup job: what it has locked, and deleted so far
    torn,       \* files whose object a batch deleted that did not commit (history)
    again,      \* files whose PUT ended after the cleanup deleted them (history)
    failures    \* failures left (for the bound)

fileVars == <<row, of, age, object, message, room, copied, queue, call, batch, torn, again, failures>>

NoCall  == [op |-> "none", file |-> {}, last |-> FALSE]
NoBatch == [kind |-> "none", files |-> {}, done |-> {}]

Calls   == [op : {"none", "head", "mark", "delete"}, file : SUBSET Files, last : BOOLEAN]
Batches == [kind : {"none", "rows", "keys"}, files : SUBSET Files, done : SUBSET Files]

FilesTyped ==
    /\ row \in [Files -> {"none", "pending", "uploaded", "attached", "deleted", "cleaned", "cascaded"}]
    /\ of \in [Files -> Messages \cup {NoMessage}]
    /\ age \in [Files -> {"fresh", "expired", "stale"}]
    /\ message \in [Messages -> {"none", "text", "plain", "deleted"}]
    /\ room \in {"open", "locked", "deleted"}
    /\ object \subseteq Files /\ copied \subseteq Files /\ queue \subseteq Files
    /\ torn \subseteq Files /\ again \subseteq Files
    /\ call \in [Callers -> Calls] /\ batch \in [Cleaners -> Batches]

FilesTypeOK == FilesTyped /\ failures \in 0..MaxFailed

FilesInit ==
    /\ row = [f \in Files |-> "none"] /\ of = [f \in Files |-> NoMessage]
    /\ age = [f \in Files |-> "fresh"] /\ object = {}
    /\ message = [m \in Messages |-> "none"]
    /\ room = "open" /\ copied = {} /\ queue = {}
    /\ call = [c \in Callers |-> NoCall] /\ batch = [g \in Cleaners |-> NoBatch]
    /\ torn = {} /\ again = {} /\ failures = MaxFailed

Attached(m) == {f \in Files : row[f] = "attached" /\ of[f] = m}
Rows == {f \in Files : row[f] \in {"pending", "uploaded", "attached", "deleted"}}
LockedBy(kind) == UNION {batch[g].files : g \in {h \in Cleaners : batch[h].kind = kind}}
DoneBy(kind) == UNION {batch[g].done : g \in {h \in Cleaners : batch[h].kind = kind}}
\* GetMessageForUpdate: the messages whose row a DeleteMessageAttachment holds.
Held == {of[f] : f \in UNION {call[c].file : c \in {d \in Callers : call[d].op = "delete"}}}
Fail == failures > 0 /\ failures' = failures - 1
Become(F, status) == row' = [f \in Files |-> IF f \in F THEN status ELSE row[f]]

-----------------------------------------------------------------------------
(* Uploading. *)

\* CreateAttachment: the insert waits for a DeleteRoom and then fails; the URL is issued.
Create(f) ==
    /\ row[f] = "none" /\ room = "open"
    /\ Become({f}, "pending")
    /\ UNCHANGED <<of, age, object, message, room, copied, queue, call, batch, torn, again, failures>>

\* The cleanup deletes the object no more; fresh files it leaves alone until then.
Forgotten(f) ==
    \/ row[f] = "cleaned" \/ f \in DoneBy("rows")
    \/ age[f] # "fresh" /\ row[f] = "cascaded" /\ (f \notin queue \/ f \in DoneBy("keys"))

\* The client's PUT, which may be repeated until the URL expires, and ends some time later.
Put(f) ==
    /\ row[f] # "none" /\ age[f] # "stale"
    /\ object' = object \cup {f}
    /\ again' = IF Forgotten(f) THEN again \cup {f} ELSE again
    /\ UNCHANGED <<row, of, age, message, room, copied, queue, call, batch, torn, failures>>

Age(f) ==
    /\ row[f] # "none" /\ age[f] # "stale"
    /\ age' = [age EXCEPT ![f] = IF @ = "fresh" THEN "expired" ELSE "stale"]
    /\ UNCHANGED <<row, of, object, message, room, copied, queue, call, batch, torn, again, failures>>

\* CompleteAttachment reads a pending row ...
Complete(c, f) ==
    /\ call[c] = NoCall /\ row[f] = "pending"
    /\ call' = [call EXCEPT ![c] = [op |-> "head", file |-> {f}, last |-> FALSE]]
    /\ UNCHANGED <<row, of, age, object, message, room, copied, queue, batch, torn, again, failures>>

\* ... asks the storage outside any transaction ...
Head(c) ==
    /\ call[c].op = "head"
    /\ call' = [call EXCEPT ![c] = IF call[c].file \subseteq object THEN [@ EXCEPT !.op = "mark"] ELSE NoCall]
    /\ UNCHANGED <<row, of, age, object, message, room, copied, queue, batch, torn, again, failures>>

\* Mutant of Mark: whatever became of the row meanwhile.
MarkBlindly(c) ==
    /\ call[c].op = "mark"
    /\ Become(call[c].file, "uploaded")
    /\ call' = [call EXCEPT ![c] = NoCall]
    /\ UNCHANGED <<of, age, object, message, room, copied, queue, batch, torn, again, failures>>

\* ... and moves the row on if it is still pending, once it is free.
Mark(c) ==
    /\ call[c].op = "mark" /\ call[c].file \cap LockedBy("rows") = {}
    /\ Become({f \in call[c].file : row[f] = "pending"}, "uploaded")
    /\ call' = [call EXCEPT ![c] = NoCall]
    /\ UNCHANGED <<of, age, object, message, room, copied, queue, batch, torn, again, failures>>

-----------------------------------------------------------------------------
(* Messages. *)

\* SendMessage with attachToMessage: the rows are waited for, and all of them must be
\* uploaded then.  A message without text needs one.
Send(m, F) ==
    /\ message[m] = "none" /\ room = "open"
    /\ F \cap LockedBy("rows") = {}
    /\ \A f \in F : row[f] = "uploaded"
    /\ \E kind \in {"text"} \cup (IF F = {} THEN {} ELSE {"plain"}) :
           message' = [message EXCEPT ![m] = kind]
    /\ Become(F, "attached")
    /\ of' = [f \in Files |-> IF f \in F THEN m ELSE of[f]]
    /\ UNCHANGED <<age, object, room, copied, queue, call, batch, torn, again, failures>>

\* DeleteMessage waits for the message's row.
DeleteMessage(m) ==
    /\ message[m] \in {"text", "plain"} /\ m \notin Held /\ room = "open"
    /\ message' = [message EXCEPT ![m] = "deleted"]
    /\ Become(Attached(m), "deleted")
    /\ UNCHANGED <<of, age, object, room, copied, queue, call, batch, torn, again, failures>>

\* Mutant of DeleteFile: the message's row is not locked.
DeleteFileUnlocked(c, f) ==
    /\ call[c] = NoCall /\ row[f] = "attached"
    /\ call' = [call EXCEPT ![c] = [op |-> "delete", file |-> {f}, last |-> Attached(of[f]) = {f}]]
    /\ UNCHANGED <<row, of, age, object, message, room, copied, queue, batch, torn, again, failures>>

\* DeleteMessageAttachment holds the message's row and counts what will be left.
DeleteFile(c, f) ==
    /\ call[c] = NoCall /\ row[f] = "attached"
    /\ of[f] \notin Held
    /\ call' = [call EXCEPT ![c] = [op |-> "delete", file |-> {f}, last |-> Attached(of[f]) = {f}]]
    /\ UNCHANGED <<row, of, age, object, message, room, copied, queue, batch, torn, again, failures>>

\* A message that is left with nothing goes too.  Its numbering waits for the room's row.
FileDeleted(c) ==
    /\ call[c].op = "delete" /\ room = "open"
    /\ Become(call[c].file, "deleted")
    /\ message' = [m \in Messages |->
           IF call[c].last /\ message[m] = "plain" /\ (\E f \in call[c].file : of[f] = m)
           THEN "deleted" ELSE message[m]]
    /\ call' = [call EXCEPT ![c] = NoCall]
    /\ UNCHANGED <<of, age, object, room, copied, queue, batch, torn, again, failures>>

\* The call fails; one that holds a message against a DeleteRoom that holds the room may
\* be the victim of the deadlock.
CallFails(c) ==
    /\ call[c] # NoCall
    /\ IF call[c].op = "delete" /\ room = "locked" THEN UNCHANGED failures ELSE Fail
    /\ call' = [call EXCEPT ![c] = NoCall]
    /\ UNCHANGED <<row, of, age, object, message, room, copied, queue, batch, torn, again>>

\* DeleteRoom locks the room's row and copies the keys.
LockRoom ==
    /\ room = "open"
    /\ room' = "locked"
    /\ copied' = Rows
    /\ UNCHANGED <<row, of, age, object, message, queue, call, batch, torn, again, failures>>

\* The room's rows go, once nobody holds one of them.
DeleteRoom ==
    /\ room = "locked" /\ Held = {} /\ LockedBy("rows") = {}
    /\ room' = "deleted" /\ copied' = {}
    /\ queue' = queue \cup copied
    /\ Become(Rows, "cascaded")
    /\ message' = [m \in Messages |-> IF message[m] = "none" THEN "none" ELSE "deleted"]
    /\ UNCHANGED <<of, age, object, call, batch, torn, again, failures>>

DeleteRoomFails ==
    /\ room = "locked"
    /\ IF Held # {} THEN UNCHANGED failures ELSE Fail
    /\ room' = "open" /\ copied' = {}
    /\ UNCHANGED <<row, of, age, object, message, queue, call, batch, torn, again>>

-----------------------------------------------------------------------------
(* CleanupAttachments. *)

\* LockAttachmentsForCleanup: FOR UPDATE SKIP LOCKED.
Due == {f \in Rows : row[f] = "deleted" \/ (row[f] # "attached" /\ age[f] = "stale")}

LockRows(g) ==
    /\ batch[g] = NoBatch
    /\ Due \ LockedBy("rows") # {}
    /\ batch' = [batch EXCEPT ![g] = [NoBatch EXCEPT !.kind = "rows", !.files = Due \ LockedBy("rows")]]
    /\ UNCHANGED <<row, of, age, object, message, room, copied, queue, call, torn, again, failures>>

\* Mutant of DueKeys: without the delay.
AllKeys == queue

\* LockDueStorageDeletions: storageDeletionDelay after the room went, the URLs of its files
\* have expired.
DueKeys == {f \in queue : age[f] # "fresh"}

LockKeys(g) ==
    /\ batch[g] = NoBatch
    /\ DueKeys \ LockedBy("keys") # {}
    /\ batch' = [batch EXCEPT ![g] = [NoBatch EXCEPT !.kind = "keys", !.files = DueKeys \ LockedBy("keys")]]
    /\ UNCHANGED <<row, of, age, object, message, room, copied, queue, call, torn, again, failures>>

DeleteObject(g) ==
    /\ \E f \in batch[g].files \ batch[g].done :
           /\ object' = object \ {f}
           /\ batch' = [batch EXCEPT ![g].done = @ \cup {f}]
    /\ UNCHANGED <<row, of, age, message, room, copied, queue, call, torn, again, failures>>

\* The rows, or the keys, go with the commit.
CleanupCommits(g) ==
    /\ batch[g] # NoBatch /\ batch[g].done = batch[g].files
    /\ IF batch[g].kind = "rows"
       THEN Become(batch[g].files, "cleaned") /\ UNCHANGED queue
       ELSE queue' = queue \ batch[g].files /\ UNCHANGED row
    /\ batch' = [batch EXCEPT ![g] = NoBatch]
    /\ UNCHANGED <<of, age, object, message, room, copied, call, torn, again, failures>>

\* A delete at the storage or the commit fails, or the instance dies.
CleanupFails(g) ==
    /\ batch[g] # NoBatch /\ Fail
    /\ torn' = IF batch[g].kind = "rows" THEN torn \cup batch[g].done ELSE torn
    /\ batch' = [batch EXCEPT ![g] = NoBatch]
    /\ UNCHANGED <<row, of, age, object, message, room, copied, queue, call, again>>

Cleanup(g) == LockRows(g) \/ LockKeys(g) \/ DeleteObject(g) \/ CleanupCommits(g)

FilesNext ==
    \/ \E f \in Files : Create(f) \/ Put(f) \/ Age(f)
    \/ \E c \in Callers :
        \/ Head(c) \/ Mark(c) \/ FileDeleted(c) \/ CallFails(c)
        \/ \E f \in Files : Complete(c, f) \/ DeleteFile(c, f)
    \/ \E m \in Messages : DeleteMessage(m) \/ \E F \in SUBSET Files : Send(m, F)
    \/ LockRoom \/ DeleteRoom \/ DeleteRoomFails
    \/ \E g \in Cleaners : Cleanup(g) \/ CleanupFails(g)

\* Time passes, a DeleteRoom ends, and the cleanup's ticker goes on.
FilesFairness ==
    /\ \A f \in Files : WF_fileVars(Age(f))
    /\ WF_fileVars(DeleteRoom \/ DeleteRoomFails)
    /\ \A g \in Cleaners : WF_fileVars(Cleanup(g))

FilesSpec == FilesInit /\ [][FilesNext]_fileVars /\ FilesFairness

-----------------------------------------------------------------------------

\* A file that complete has verified, or that a message shows, can be downloaded: neither
\* the look at the storage outside the transaction nor the cleanup of a stale file that is
\* being sent gets between row and object.  A batch that deleted the object and did not
\* commit is the exception (torn): the file may be sent before the next round.
Downloadable ==
    \A f \in Files :
        /\ row[f] = "uploaded" => f \in object \cup torn \cup LockedBy("rows")
        /\ row[f] = "attached" => f \in object \cup torn

\* No message is left with neither text nor files, though its files are deleted one by
\* one, and together (docs/adr/0045).
NoEmptyMessage ==
    \A m \in Messages : message[m] = "plain" => Attached(m) # {}

\* In the end the storage holds the files of messages and no other: those of deleted
\* messages and rooms, and what was uploaded and never sent, are cleared away.  A file is
\* the exception whose PUT ends after the cleanup deleted it with its row, or with the key
\* that was to wait for the end of its URL (again): nothing knows of it.
OnlyAttachedRemain == <>[](\A f \in object : row[f] = "attached" \/ f \in again)

\* Of every object at the storage somebody still knows: a row, or a key to be deleted.
\* That is the safety half of OnlyAttachedRemain: the cleanup cannot clear away what
\* neither attachments nor storage_deletions names.
ObjectsKnown == \A f \in object : f \in Rows \cup queue \cup again

-----------------------------------------------------------------------------
(* Why they hold: the inductive strengthening. *)

\* A file that was seen at the storage is there unless a batch deleted it.
Seen(f) == f \in object \cup torn \cup DoneBy("rows")

FilesInv ==
    \A f \in Files :
        /\ row[f] = "uploaded" => Seen(f)
        /\ row[f] = "attached" =>
            f \in object \cup torn /\ of[f] \in Messages /\ message[of[f]] \in {"text", "plain"}

\* A DeleteMessageAttachment alone holds its message, whose files stay what it counted.
CallsInv ==
    \A c \in Callers :
        /\ \A f \in call[c].file : row[f] # "none"
        /\ call[c].op = "mark" => \A f \in call[c].file : row[f] = "pending" => Seen(f)
        /\ call[c].op = "delete" =>
            \E f \in Files :
                /\ call[c].file = {f} /\ row[f] = "attached"
                /\ call[c].last <=> ~\E e \in Attached(of[f]) : e # f
                /\ \A d \in Callers \ {c} : call[d].op = "delete" =>
                       \A e \in call[d].file : of[e] # of[f]

\* No two batches lock one row; what a batch deleted comes back only by another PUT.
BatchesInv ==
    \A g \in Cleaners :
        /\ batch[g].done \subseteq batch[g].files
        /\ batch[g].kind = "none" => batch[g].files = {}
        /\ batch[g].kind = "rows" =>
            /\ \A f \in batch[g].files : row[f] \in {"pending", "uploaded", "deleted"}
            /\ batch[g].done \cap object \subseteq again
            /\ \A h \in Cleaners \ {g} : batch[h].kind = "rows" => batch[g].files \cap batch[h].files = {}
        /\ batch[g].kind = "keys" =>
            /\ \A f \in batch[g].files : row[f] \in {"cleaned", "cascaded"} /\ age[f] # "fresh"
            /\ batch[g].done \cap object \subseteq again

\* The keys of a deleted room's files are queued until their URLs have expired.
RoomInv ==
    /\ room = "locked" => Rows \subseteq copied
    /\ room # "locked" => copied = {}
    /\ \A f \in copied : row[f] # "none"
    /\ room = "deleted" => Rows = {}
    /\ \A f \in queue : row[f] \in {"cleaned", "cascaded"}
    /\ \A f \in Files : row[f] = "cascaded" /\ age[f] = "fresh" => f \in queue

\* Inductive: the locks of attachment.go and attachment_cleanup.go with the order of the
\* storage and the statements.
AttachmentsInv ==
    FilesInv /\ CallsInv /\ BatchesInv /\ RoomInv /\ NoEmptyMessage /\ ObjectsKnown
=============================================================================
