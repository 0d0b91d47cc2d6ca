--------------------------- MODULE MaterialCommit ---------------------------
(* Host transactions that change Markdown material files together with rows  *)
(* of the database (database/connection.py, material_transaction.py,         *)
(* creation_material_service.py). The files also belong to an external       *)
(* editor that takes no lock. A change of a file leaves an intent, keeps the *)
(* displaced file and publishes the new one before COMMIT; the receipt row,  *)
(* committed with the transaction, decides what recovery does of it.         *)
EXTENDS FiniteSets

CONSTANTS
    File,      \* material files of one vault
    Edited,    \* those the editor may open
    Text,      \* texts the application writes
    Foreign,   \* texts the editor writes
    Torn,      \* a file that is empty or half written
    NULL       \* no file, no text, no savepoint

\* Texts are told apart by who wrote them; the editor never saves by chance the
\* very text that a change in progress publishes.
ASSUME TextAssumption ==
    /\ Edited \subseteq File
    /\ Text \cap Foreign = {}
    /\ Torn \notin Text \cup Foreign
    /\ NULL \notin Text \cup Foreign \cup {Torn} \cup File
    /\ NULL \notin {"name", "before", "rolled"}

VARIABLES
    slot,      \* what lies under the file's name and its displaced names
    change,    \* the latest change of each file: texts, intent, mark, receipt
    pc,        \* what the backend does next
    back,      \* where a recovery of one file returns to
    cur,       \* the file in hand
    seen,      \* the text the recovery has read
    fresh,     \* the file a restore has created and not filled: whose it is
    enlisted,  \* participants of the open transaction
    prepared,  \* those whose prepare has begun and that are not yet handled
    rows,      \* receipt rows inserted and not yet committed
    savepoint, \* enlisted and rows when the nested block began
    told,      \* how the last transaction ended for its caller
    fd,        \* the name under which the file the editor has open now lies
    touched    \* files the editor touched since their latest change began

vars == <<slot, change, pc, back, cur, seen, fresh, enlisted, prepared, rows,
          savepoint, told, fd, touched>>
disk == <<slot, change, fd, touched>>
members == <<enlisted, prepared, rows, savepoint>>

MaybeText == Text \cup Foreign \cup {Torn, NULL}
Slot == [name : MaybeText, before : MaybeText, rolled : MaybeText]
Change == [before : MaybeText, after : Text \cup {NULL},
           intent : {"none", "torn", "whole"},
           mark : {"none", "committed", "aborted"}, receipt : BOOLEAN]
PrepareStep == {"check", "create_intent", "fill_intent", "copy", "displace",
                "verify", "publish"}
RecoverStep == {"read", "move", "restore", "fill", "settle"}
Pc == {"down", "startup", "idle", "open", "prepare", "commit", "undo",
       "rollback", "mark"} \cup PrepareStep \cup RecoverStep

TypeOK ==
    /\ slot \in [File -> Slot]
    /\ change \in [File -> Change]
    /\ pc \in Pc
    /\ back \in {"open", "rollback", "mark", "startup"}
    /\ cur \in File \cup {NULL}
    /\ pc \in PrepareStep \cup RecoverStep => cur \in File
    /\ seen \in MaybeText
    /\ fresh \in {"none", "empty", "shared"}
    /\ enlisted \subseteq File
    /\ prepared \subseteq enlisted
    /\ rows \subseteq enlisted
    /\ savepoint \in [enlisted : SUBSET File, rows : SUBSET File] \cup {NULL}
    /\ told \in {"none", "ok", "failed"}
    /\ fd \in [File -> {NULL, "name", "before", "rolled"}]
    /\ touched \subseteq File

Untouched == [before |-> NULL, after |-> NULL, intent |-> "none",
              mark |-> "none", receipt |-> FALSE]

Init ==
    /\ \E text \in [File -> Text \cup {NULL}] :
         slot = [f \in File |-> [name |-> text[f], before |-> NULL, rolled |-> NULL]]
    /\ change = [f \in File |-> Untouched]
    /\ pc = "idle" /\ back = "open" /\ cur = NULL /\ seen = NULL /\ fresh = "none"
    /\ enlisted = {} /\ prepared = {} /\ rows = {} /\ savepoint = NULL
    /\ told = "none"
    /\ fd = [f \in File |-> NULL]
    /\ touched = {}

\* An intent without a mark: what pending() yields.
Pending(f) == change[f].intent # "none" /\ change[f].mark = "none"

\* A rename takes the file the editor has open along.
Moved(f, from, to) == fd' = [fd EXCEPT ![f] = IF @ = from THEN to ELSE @]

-----------------------------------------------------------------------------
(* The transaction: its body stages changes, nested blocks are savepoints.   *)

Begin ==
    /\ pc = "idle"
    /\ pc' = "open"
    /\ enlisted' = {} /\ prepared' = {} /\ rows' = {} /\ savepoint' = NULL
    /\ told' = "none"
    /\ UNCHANGED <<disk, back, cur, seen, fresh>>

\* synchronize: what an earlier failure left pending is recovered. An update or
\* a deletion starts with it.
Synchronize(f) ==
    /\ pc = "open" /\ f \notin enlisted /\ Pending(f)
    /\ cur' = f /\ back' = "open" /\ pc' = "read"
    /\ UNCHANGED <<disk, members, seen, fresh, told>>

\* A material that is migrated, or restored after its deletion, gets a file anew.
GetsNewFile(f, after) ==
    /\ slot[f].name = NULL /\ after # NULL
    /\ \/ change[f] = Untouched
       \/ change[f].receipt /\ change[f].after = NULL

\* The base text is what the file holds; private files of older changes are
\* not named again and left out from here on. Only an update or a deletion has
\* synchronized before.
Stage(f, after) ==
    /\ pc = "open" /\ f \notin enlisted
    /\ (\A g \in File : ~Pending(g)) \/ GetsNewFile(f, after)
    /\ slot[f].name # Torn
    /\ after = NULL => slot[f].name # NULL
    /\ change' = [change EXCEPT ![f] =
                    [Untouched EXCEPT !.before = slot[f].name, !.after = after]]
    /\ slot' = [slot EXCEPT ![f].before = NULL, ![f].rolled = NULL]
    /\ fd' = [fd EXCEPT ![f] = IF @ = "name" THEN @ ELSE NULL]
    /\ touched' = IF fd[f] = "name" THEN touched \cup {f} ELSE touched \ {f}
    /\ enlisted' = enlisted \cup {f}
    /\ rows' = rows \cup {f}
    /\ UNCHANGED <<pc, back, cur, seen, fresh, prepared, savepoint, told>>

OpenSavepoint ==
    /\ pc = "open" /\ savepoint = NULL
    /\ savepoint' = [enlisted |-> enlisted, rows |-> rows]
    /\ UNCHANGED <<disk, pc, back, cur, seen, fresh, enlisted, prepared, rows, told>>

ReleaseSavepoint ==
    /\ pc = "open" /\ savepoint # NULL
    /\ savepoint' = NULL
    /\ UNCHANGED <<disk, pc, back, cur, seen, fresh, enlisted, prepared, rows, told>>

\* An exception leaves the nested block and is handled in the outer one.
RollbackToSavepoint ==
    /\ pc = "open" /\ savepoint # NULL
    /\ enlisted' = savepoint.enlisted
    /\ rows' = savepoint.rows
    /\ savepoint' = NULL
    /\ UNCHANGED <<disk, pc, back, cur, seen, fresh, prepared, told>>

EndBody ==
    /\ pc = "open" /\ savepoint = NULL
    /\ pc' = "prepare"
    /\ UNCHANGED <<disk, members, back, cur, seen, fresh, told>>

\* An exception, or the cancellation of the caller, leaves the body.
AbortBody ==
    /\ pc = "open"
    /\ pc' = "undo" /\ savepoint' = NULL
    /\ UNCHANGED <<disk, back, cur, seen, fresh, enlisted, prepared, rows, told>>

-----------------------------------------------------------------------------
(* prepare of one participant, system call by system call.                   *)

NextParticipant(f) ==
    /\ pc = "prepare" /\ f \in enlisted \ prepared
    /\ prepared' = prepared \cup {f}
    /\ cur' = f /\ pc' = "check"
    /\ UNCHANGED <<disk, enlisted, rows, savepoint, back, seen, fresh, told>>

Goto(step) == pc' = step /\ UNCHANGED <<members, back, cur, seen, fresh, told>>

Check ==
    /\ pc = "check"
    /\ Goto(IF slot[cur].name = change[cur].before THEN "create_intent" ELSE "undo")
    /\ UNCHANGED disk

CreateIntent ==
    /\ pc = "create_intent"
    /\ change' = [change EXCEPT ![cur].intent = "torn"]
    /\ Goto("fill_intent")
    /\ UNCHANGED <<slot, fd, touched>>

FillIntent ==
    /\ pc = "fill_intent"
    /\ change' = [change EXCEPT ![cur].intent = "whole"]
    /\ Goto("copy")
    /\ UNCHANGED <<slot, fd, touched>>

\* After the displacement, or without one: publish, unless it is a deletion.
AfterDisplacement == IF change[cur].after = NULL THEN "prepare" ELSE "publish"

\* Copies of both texts are written beside the file.
WriteCopies ==
    /\ pc = "copy"
    /\ Goto(IF change[cur].before = NULL THEN AfterDisplacement ELSE "displace")
    /\ UNCHANGED disk

Displace ==
    /\ pc = "displace"
    /\ IF slot[cur].name = NULL
       THEN Goto("undo") /\ UNCHANGED disk
       ELSE /\ slot' = [slot EXCEPT ![cur].before = slot[cur].name, ![cur].name = NULL]
            /\ Moved(cur, "name", "before")
            /\ Goto("verify")
            /\ UNCHANGED <<change, touched>>

Verify ==
    /\ pc = "verify"
    /\ Goto(IF slot[cur].before = change[cur].before THEN AfterDisplacement ELSE "undo")
    /\ UNCHANGED disk

\* Slip: rename instead of link: the name may exist again and is replaced.
PublishOver ==
    /\ pc = "publish"
    /\ slot' = [slot EXCEPT ![cur].name = change[cur].after]
    /\ Goto("prepare")
    /\ UNCHANGED <<change, fd, touched>>

\* link() fails when the name exists again.
Publish ==
    /\ pc = "publish"
    /\ IF slot[cur].name # NULL
       THEN Goto("undo") /\ UNCHANGED disk
       ELSE /\ slot' = [slot EXCEPT ![cur].name = change[cur].after]
            /\ Goto("prepare")
            /\ UNCHANGED <<change, fd, touched>>

AllPrepared ==
    /\ pc = "prepare" /\ enlisted = prepared
    /\ Goto("commit")
    /\ UNCHANGED disk

-----------------------------------------------------------------------------
(* COMMIT, and what becomes of the files.                                    *)

Receipts == [f \in File |->
                IF f \in rows THEN [change[f] EXCEPT !.receipt = TRUE] ELSE change[f]]

CommitLands ==
    /\ pc = "commit"
    /\ change' = Receipts
    /\ pc' = "mark" /\ rows' = {}
    /\ UNCHANGED <<slot, fd, touched, enlisted, prepared, savepoint, back, cur, seen, fresh, told>>

\* Slip: files or not, a canceled caller leaves while COMMIT is under way.
AlwaysInterruptible == TRUE

\* Without files to settle a caller may be canceled while it waits; COMMIT is
\* queued and takes place, and the ROLLBACK behind it finds nothing to undo.
MayInterruptCommit == prepared = {}

CancelCommit ==
    /\ pc = "commit" /\ MayInterruptCommit
    /\ change' = Receipts
    /\ pc' = "undo" /\ rows' = {}
    /\ UNCHANGED <<slot, fd, touched, enlisted, prepared, savepoint, back, cur, seen, fresh, told>>

Undo ==
    /\ pc = "undo"
    /\ rows' = {} /\ savepoint' = NULL
    /\ pc' = "rollback"
    /\ UNCHANGED <<disk, back, cur, seen, fresh, enlisted, prepared, told>>

\* rollback and committed of one participant: a recovery that knows the outcome.
Settle(f) ==
    /\ pc \in {"rollback", "mark"} /\ f \in prepared
    /\ prepared' = prepared \ {f}
    /\ cur' = f /\ back' = pc /\ pc' = "read"
    /\ UNCHANGED <<disk, enlisted, rows, savepoint, seen, fresh, told>>

Return ==
    /\ pc \in {"rollback", "mark"} /\ prepared = {}
    /\ told' = IF pc = "mark" THEN "ok" ELSE "failed"
    /\ pc' = "idle"
    /\ UNCHANGED <<disk, members, back, cur, seen, fresh>>

-----------------------------------------------------------------------------
(* recover of one change. Whether it committed is what the caller knows, or, *)
(* after a restart and in synchronize, what the receipt says.                *)

\* Slip: the published file is taken for the proof of the commit.
CommittedByFile ==
    IF back \in {"rollback", "mark"} THEN back = "mark"
    ELSE slot[cur].name = change[cur].after

Committed == IF back \in {"rollback", "mark"} THEN back = "mark" ELSE change[cur].receipt

\* An exception in a recovery: the transaction or the startup it is part of ends.
RecoverFails ==
    /\ pc' = CASE back = "open" -> "undo"
               [] back = "rollback" -> "idle"
               [] back = "mark" -> "mark"
               [] back = "startup" -> "down"
    /\ told' = IF back = "rollback" THEN "failed" ELSE told
    /\ prepared' = IF back = "rollback" THEN {} ELSE prepared
    /\ fresh' = "none"
    /\ UNCHANGED <<disk, back, cur, seen, enlisted, rows, savepoint>>

RecoverRead ==
    /\ pc = "read"
    /\ \/ /\ change[cur].intent = "none"
          /\ Goto(back)
          /\ UNCHANGED disk
       \/ /\ change[cur].intent = "torn"
          /\ RecoverFails
       \/ /\ change[cur].intent = "whole"
          /\ seen' = slot[cur].name
          /\ pc' = IF Committed THEN "settle" ELSE "move"
          /\ UNCHANGED <<disk, members, back, cur, fresh, told>>

\* The published text is withdrawn, with whatever lies under the name by now.
RecoverMove ==
    /\ pc = "move"
    /\ \/ /\ seen = NULL \/ seen # change[cur].after
          /\ Goto("restore")
          /\ UNCHANGED disk
       \/ /\ seen # NULL /\ seen = change[cur].after /\ slot[cur].name = NULL
          /\ RecoverFails
       \/ /\ seen # NULL /\ seen = change[cur].after /\ slot[cur].name # NULL
          /\ slot' = [slot EXCEPT ![cur].rolled = slot[cur].name, ![cur].name = NULL]
          /\ Moved(cur, "name", "rolled")
          /\ seen' = NULL /\ pc' = "restore"
          /\ UNCHANGED <<change, touched, members, back, cur, fresh, told>>

\* The displaced file is copied back under its name, unless the name is taken.
MustRestore ==
    /\ seen = NULL /\ change[cur].before # NULL
    /\ slot[cur].before # NULL /\ slot[cur].name = NULL

RecoverRestore ==
    /\ pc = "restore"
    /\ IF MustRestore
       THEN /\ seen' = slot[cur].before
            /\ slot' = [slot EXCEPT ![cur].name = Torn]
            /\ pc' = "fill" /\ fresh' = "empty"
            /\ UNCHANGED <<change, fd, touched, members, back, cur, told>>
       ELSE Goto("settle") /\ UNCHANGED disk

\* The created file is filled from its beginning: what an editor has saved in
\* place meanwhile is overwritten, or left a mixture where it was the longer; one
\* that still writes comes last, or leaves a mixture too. A file that was renamed
\* over the name is another one and stays.
RecoverFill ==
    /\ pc = "fill"
    /\ \/ fresh = "none" /\ UNCHANGED <<slot, fd>>
       \/ /\ fresh = "empty"
          /\ slot' = [slot EXCEPT ![cur].name = seen]
          /\ UNCHANGED fd
       \/ /\ fresh = "shared" /\ fd[cur] = NULL
          /\ \E text \in {seen, Torn} : slot' = [slot EXCEPT ![cur].name = text]
          /\ UNCHANGED fd
       \/ /\ fresh = "shared" /\ fd[cur] # NULL
          /\ fd' \in {fd, [fd EXCEPT ![cur] = NULL]}
          /\ UNCHANGED slot
    /\ pc' = "settle" /\ fresh' = "none"
    /\ UNCHANGED <<change, touched, members, back, cur, seen, told>>

RecoverSettles ==
    /\ pc = "settle"
    /\ change' = [change EXCEPT ![cur].mark = IF Committed THEN "committed" ELSE "aborted"]
    /\ Goto(back)
    /\ UNCHANGED <<slot, fd, touched>>

-----------------------------------------------------------------------------
(* Failures, restart, and the editor.                                        *)

\* A full disk, an unreadable directory, a failed COMMIT.
PrepareFails ==
    /\ pc \in PrepareStep \cup {"prepare", "commit"}
    /\ Goto("undo")
    /\ UNCHANGED disk

RecoveryStepFails == pc \in RecoverStep /\ RecoverFails

Crash ==
    /\ pc # "down"
    /\ pc' = "down" /\ told' = "none" /\ fresh' = "none"
    /\ enlisted' = {} /\ prepared' = {} /\ rows' = {} /\ savepoint' = NULL
    /\ UNCHANGED <<disk, back, cur, seen>>

\* init: recover_materials goes through what is pending before anything else.
StartBackend ==
    /\ pc = "down"
    /\ Goto("startup")
    /\ UNCHANGED disk

RecoverPending(f) ==
    /\ pc = "startup" /\ Pending(f)
    /\ cur' = f /\ back' = "startup" /\ pc' = "read"
    /\ UNCHANGED <<disk, members, seen, fresh, told>>

Started ==
    /\ pc = "startup" /\ \A f \in File : ~Pending(f)
    /\ Goto("idle")
    /\ UNCHANGED disk

EditorTouches(f) ==
    /\ touched' = touched \cup {f}
    /\ UNCHANGED <<change, pc, back, cur, seen, members, told>>

\* The editor writes a new file and renames it over the name, or deletes the name.
EditorReplaces(f, x) ==
    /\ fd[f] = NULL
    /\ slot' = [slot EXCEPT ![f].name = x]
    /\ fresh' = IF f = cur THEN "none" ELSE fresh
    /\ EditorTouches(f)
    /\ UNCHANGED fd

\* The editor writes in place: the file it opened may be displaced before it is done.
EditorOpens(f) ==
    /\ fd[f] = NULL /\ slot[f].name # NULL
    /\ fd' = [fd EXCEPT ![f] = "name"]
    /\ slot' = [slot EXCEPT ![f].name = Torn]
    /\ fresh' = IF f = cur /\ fresh = "empty" THEN "shared" ELSE fresh
    /\ EditorTouches(f)

EditorWrites(f, x) ==
    /\ fd[f] # NULL
    /\ slot' = [slot EXCEPT ![f] = [@ EXCEPT ![fd[f]] = x]]
    /\ fd' = [fd EXCEPT ![f] = NULL]
    /\ EditorTouches(f)
    /\ UNCHANGED fresh

Editor == \E f \in Edited :
    \/ \E x \in Foreign \cup {NULL} : EditorReplaces(f, x)
    \/ EditorOpens(f)
    \/ \E x \in Foreign : EditorWrites(f, x)

Body ==
    \/ Begin \/ OpenSavepoint \/ ReleaseSavepoint \/ RollbackToSavepoint
    \/ EndBody \/ AbortBody
    \/ \E f \in File : Synchronize(f)
    \/ \E f \in File : \E after \in Text \cup {NULL} : Stage(f, after)

Prepare ==
    \/ \E f \in File : NextParticipant(f)
    \/ Check \/ CreateIntent \/ FillIntent \/ WriteCopies \/ Displace \/ Verify
    \/ Publish \/ AllPrepared \/ PrepareFails

Outcome ==
    \/ CommitLands \/ CancelCommit \/ Undo \/ Return
    \/ \E f \in File : Settle(f)

Recover ==
    \/ RecoverRead \/ RecoverMove \/ RecoverRestore \/ RecoverFill \/ RecoverSettles
    \/ RecoveryStepFails

Restart == Crash \/ StartBackend \/ Started \/ \E f \in File : RecoverPending(f)

Next == Body \/ Prepare \/ Outcome \/ Recover \/ Restart \/ Editor

Spec == Init /\ [][Next]_vars

-----------------------------------------------------------------------------
(* Properties.                                                               *)

Held(f) == {slot[f].name, slot[f].before, slot[f].rolled} \ {NULL, Torn}

\* The text that an editor saved in place, into the file a restore has just
\* created, when the restore goes on and fills it.
WrittenOver(f) ==
    IF f = cur /\ fresh = "shared" /\ pc = "fill" /\ pc' = "settle" THEN {slot[f].name} ELSE {}

\* No step of the backend, in whatever race with the editor or after whatever
\* crash, removes the last copy of any other text from the disk. (Staging only
\* stops looking at the private files of older changes. A save that changes
\* nothing is left out: withdrawn twice, its second displaced file replaces the
\* first.)
NothingLost ==
    [][Prepare \/ Outcome \/ Recover \/ Restart =>
         \A f \in File : change[f].before # change[f].after =>
                            Held(f) \ WrittenOver(f) \subseteq Held(f)']_vars

\* Recovery follows the receipt: a committed change is never withdrawn and
\* never marked aborted, an aborted one never marked committed or left
\* published. (A file the editor touched meanwhile is the editor's.)
FileFollowsReceipt == \A f \in File :
    /\ change[f].receipt =>
         /\ change[f].mark # "aborted"
         /\ f \in touched \/ slot[f].name = change[f].after
    /\ change[f].mark = "committed" => change[f].receipt
    /\ change[f].mark = "aborted" =>
         f \in touched \/ change[f].after \in {NULL, change[f].before}
                       \/ slot[f].name # change[f].after

\* A caller that was told of success has all its files committed, one that got
\* an exception has none, canceled while COMMIT was under way or not.
CallerToldTruth ==
    /\ told = "ok" => \A f \in enlisted : change[f].receipt
    /\ told = "failed" => \A f \in enlisted : ~change[f].receipt

\* What the design document promises: when nothing is pending any more, the
\* receipt alone says which of the two texts lies under the name.
ReceiptDecides == \A f \in File \ touched :
    /\ change[f].mark = "committed" => slot[f].name = change[f].after
    /\ change[f].mark = "aborted" => slot[f].name = change[f].before
=============================================================================
