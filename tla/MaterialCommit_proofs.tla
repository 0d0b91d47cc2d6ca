----------------------- MODULE MaterialCommit_proofs -----------------------
(***************************************************************************)
(* Proofs about MaterialCommit, for any files and texts.                   *)
(***************************************************************************)
EXTENDS MaterialCommit, TLAPS

-----------------------------------------------------------------------------
\* Rows and files stay what they are.

\* What is written to the names of a file.
LEMMA SlotTypes ==
    ASSUME TypeOK, NEW f \in File, NEW x \in MaybeText
    PROVE  /\ [slot EXCEPT ![f].name = x] \in [File -> Slot]
           /\ [slot EXCEPT ![f].before = x, ![f].name = NULL] \in [File -> Slot]
           /\ [slot EXCEPT ![f].rolled = x, ![f].name = NULL] \in [File -> Slot]
           /\ [slot EXCEPT ![f].before = NULL, ![f].rolled = NULL] \in [File -> Slot]
           /\ \A k \in {"name", "before", "rolled"} :
                 [slot EXCEPT ![f] = [@ EXCEPT ![k] = x]] \in [File -> Slot]
  <1>1. slot \in [File -> Slot] /\ slot[f] \in Slot /\ NULL \in MaybeText
    BY DEF TypeOK, MaybeText
  <1>2. ASSUME NEW r \in Slot PROVE [slot EXCEPT ![f] = r] \in [File -> Slot]
    BY <1>1
  <1>3. /\ [slot[f] EXCEPT !.name = x] \in Slot
        /\ [slot[f] EXCEPT !.before = x, !.name = NULL] \in Slot
        /\ [slot[f] EXCEPT !.rolled = x, !.name = NULL] \in Slot
        /\ [slot[f] EXCEPT !.before = NULL, !.rolled = NULL] \in Slot
    BY <1>1 DEF Slot
  <1>4. \A k \in {"name", "before", "rolled"} : [slot[f] EXCEPT ![k] = x] \in Slot
    BY <1>1 DEF Slot
  <1> QED
    BY <1>1, <1>2, <1>3, <1>4

\* What is written to the change of a file.
LEMMA ChangeTypes ==
    ASSUME TypeOK, NEW f \in File
    PROVE  /\ \A i \in {"none", "torn", "whole"} : [change EXCEPT ![f].intent = i] \in [File -> Change]
           /\ \A m \in {"none", "committed", "aborted"} : [change EXCEPT ![f].mark = m] \in [File -> Change]
           /\ \A x \in MaybeText, y \in Text \cup {NULL} :
                 [change EXCEPT ![f] = [Untouched EXCEPT !.before = x, !.after = y]] \in [File -> Change]
           /\ Receipts \in [File -> Change]
  <1>1. change \in [File -> Change] /\ change[f] \in Change /\ NULL \in MaybeText
    BY DEF TypeOK, MaybeText
  <1>2. ASSUME NEW r \in Change PROVE [change EXCEPT ![f] = r] \in [File -> Change]
    BY <1>1
  <1>3. ASSUME NEW i \in {"none", "torn", "whole"} PROVE [change[f] EXCEPT !.intent = i] \in Change
    BY <1>1 DEF Change
  <1>4. ASSUME NEW m \in {"none", "committed", "aborted"} PROVE [change[f] EXCEPT !.mark = m] \in Change
    BY <1>1 DEF Change
  <1>5. ASSUME NEW x \in MaybeText, NEW y \in Text \cup {NULL}
        PROVE  [Untouched EXCEPT !.before = x, !.after = y] \in Change
    BY <1>1 DEF Change, Untouched
  <1>6. \A g \in File : change[g] \in Change /\ [change[g] EXCEPT !.receipt = TRUE] \in Change
    BY <1>1 DEF Change
  <1>7. Receipts \in [File -> Change]
    BY <1>1, <1>6 DEF Receipts
  <1> QED
    BY <1>1, <1>2, <1>3, <1>4, <1>5, <1>7

-----------------------------------------------------------------------------
\* The invariant

Recovering(from) == pc \in RecoverStep /\ back = from

\* No transaction has decided yet about the files it enlists.
Undecided == pc \in {"open", "prepare", "commit"} \cup PrepareStep \/ Recovering("open")

\* What a transaction carries through its phases.
Members ==
    /\ Undecided => rows = enlisted
    /\ savepoint # NULL =>
          /\ pc \in {"open", "undo"} \/ Recovering("open")
          /\ savepoint.rows = savepoint.enlisted /\ savepoint.enlisted \subseteq enlisted
    /\ pc \in {"open", "idle", "down", "startup"} => prepared = {}
    /\ pc \in {"down", "startup"} => enlisted = {}
    /\ Recovering("startup") => enlisted = {} /\ rows = {}
    /\ Recovering("open") => cur \notin enlisted /\ prepared = {}
    /\ pc = "commit" => prepared = enlisted
    /\ pc \in PrepareStep => cur \in prepared
    /\ Recovering("rollback") \/ Recovering("mark") => cur \in enlisted \ prepared
    /\ told # "none" => pc = "idle"

\* What the receipts and marks of its files say by then.
Receipted ==
    /\ Undecided => \A f \in enlisted :
          ~change[f].receipt /\ (change[f].before = NULL => change[f].after # NULL)
    /\ pc \in {"undo", "rollback"} \/ Recovering("rollback") => \A f \in enlisted : ~change[f].receipt
    /\ pc = "mark" \/ Recovering("mark") => \A f \in enlisted : change[f].receipt
    /\ \A f \in enlisted : Undecided \/ f \in prepared => change[f].mark = "none"
    /\ pc \in RecoverStep => change[cur].mark = "none"
    /\ pc \in {"move", "restore", "fill"} => ~Committed
    /\ told = "ok" => \A f \in enlisted : change[f].receipt
    /\ told = "failed" => \A f \in enlisted : ~change[f].receipt

\* The change of a file stands under its name.
Published(f) == f \in touched \/ slot[f].name = change[f].after

\* Steps at which the file in hand has been compared and not displaced yet.
Compared == {"create_intent", "fill_intent", "copy", "displace"}

\* Up to the COMMIT: what has been prepared is published.
PreparedPublished ==
    /\ pc \in {"prepare", "commit"} => \A f \in prepared : Published(f)
    /\ pc \in PrepareStep => \A f \in prepared \ {cur} : Published(f)
    /\ pc \in Compared => cur \in touched \/ slot[cur].name = change[cur].before
    /\ pc = "verify" => cur \in touched \/ slot[cur].name = NULL

\* The recovery of an aborted change, step by step.
Withdrawn(f) ==
    f \in touched \/ change[f].after \in {NULL, change[f].before} \/ slot[f].name # change[f].after

RecoveryWithdraws ==
    /\ pc = "move" => cur \in touched \/ slot[cur].name = seen
    /\ pc = "restore" => Withdrawn(cur)
    /\ pc = "fill" => cur \in touched \/ (fresh = "empty" /\ seen = change[cur].before)
    /\ pc = "fill" /\ fresh = "empty" => slot[cur].name = Torn /\ fd[cur] # "name"
    /\ pc = "settle" /\ ~Committed => Withdrawn(cur)

\* The displaced file is what the change began with, unless the editor has been at it.
Displaced == \A f \in File :
    f \in touched \/ slot[f].before = NULL \/ slot[f].before = change[f].before

\* What may lie under a name after the change of a file has begun, other than
\* the text it publishes.
Older(f) == {NULL, Torn, change[f].before} \cup Foreign

\* Private names of a file are never taken a second time, and once something
\* has been withdrawn the published text is not seen under the name again.
PrivateFile(f) ==
    /\ fd[f] # NULL => slot[f][fd[f]] # NULL
    /\ slot[f].before \in Older(f)
    /\ slot[f].rolled # NULL /\ change[f].before # change[f].after => slot[f].name \in Older(f)

\* They are free until the change puts a file there.
PrivateNames ==
    /\ \A f \in File : PrivateFile(f)
    /\ Undecided => \A f \in enlisted : slot[f].rolled = NULL
    /\ Undecided => \A f \in enlisted \ prepared : slot[f].before = NULL
    /\ pc \in {"check"} \cup Compared => slot[cur].before = NULL
    /\ pc \in Compared => slot[cur].name \in Older(cur)
    /\ pc = "move" /\ seen # NULL /\ seen = change[cur].after
                  /\ change[cur].before # change[cur].after => slot[cur].rolled = NULL
    /\ pc = "fill" => seen \in Older(cur) \ {NULL}

IInv == TypeOK /\ Members /\ Receipted /\ PreparedPublished /\ RecoveryWithdraws /\ Displaced
        /\ PrivateNames /\ FileFollowsReceipt

-----------------------------------------------------------------------------
\* Types

\* The body of a transaction.
LEMMA BodyType == ASSUME TypeOK, Members, Body PROVE TypeOK'
  <1> USE DEF Members
  <1>1. CASE Begin \/ OpenSavepoint \/ ReleaseSavepoint \/ EndBody \/ AbortBody
    BY <1>1 DEF TypeOK, Begin, OpenSavepoint, ReleaseSavepoint, EndBody, AbortBody, disk, members,
                Pc, PrepareStep, RecoverStep
  <1>2. CASE RollbackToSavepoint
    BY <1>2 DEF TypeOK, RollbackToSavepoint, disk
  <1>3. ASSUME NEW f \in File, Synchronize(f) PROVE TypeOK'
    BY <1>3 DEF TypeOK, Synchronize, disk, members, Pc, PrepareStep, RecoverStep
  <1>4. ASSUME NEW f \in File, NEW after \in Text \cup {NULL}, Stage(f, after) PROVE TypeOK'
    <2>1. slot[f].name \in MaybeText
      BY DEF TypeOK, Slot
    <2>2. slot' \in [File -> Slot] /\ change' \in [File -> Change]
      BY <1>4, <2>1, SlotTypes, ChangeTypes DEF Stage
    <2>3. fd' \in [File -> {NULL, "name", "before", "rolled"}] /\ touched' \subseteq File
      BY <1>4 DEF TypeOK, Stage
    <2> QED
      BY <1>4, <2>2, <2>3 DEF TypeOK, Stage
  <1> QED
    BY <1>1, <1>2, <1>3, <1>4 DEF Body

\* Preparing a file.
LEMMA PrepareType == ASSUME TypeOK, Members, Prepare PROVE TypeOK'
  <1> USE DEF Goto, disk, members, Pc, PrepareStep, RecoverStep
  <1>1. pc \in PrepareStep => cur \in File
    BY DEF TypeOK
  <1>2. ASSUME NEW f \in File, NextParticipant(f) PROVE TypeOK'
    BY <1>2 DEF TypeOK, NextParticipant
  <1>3. CASE Check \/ WriteCopies \/ Verify \/ AllPrepared \/ PrepareFails
    BY <1>3 DEF TypeOK, Check, WriteCopies, Verify, AllPrepared, PrepareFails, AfterDisplacement
  <1>4. CASE CreateIntent
    BY <1>1, <1>4, ChangeTypes DEF TypeOK, CreateIntent
  <1>5. CASE FillIntent
    BY <1>1, <1>5, ChangeTypes DEF TypeOK, FillIntent
  <1>6. CASE Displace
    <2>1. slot[cur].name \in MaybeText /\ cur \in File
      BY <1>1, <1>6 DEF TypeOK, Slot, Displace
    <2>2. slot' \in [File -> Slot]
      <3>1. [slot EXCEPT ![cur].before = slot[cur].name, ![cur].name = NULL] \in [File -> Slot]
        BY <2>1, SlotTypes
      <3> QED
        BY <1>6, <3>1 DEF Displace, TypeOK
    <2> QED
      BY <1>6, <2>1, <2>2 DEF TypeOK, Displace, Moved
  <1>7. CASE Publish
    <2>1. change[cur].after \in MaybeText /\ cur \in File
      BY <1>1, <1>7 DEF TypeOK, Change, MaybeText, Publish
    <2>2. slot' \in [File -> Slot]
      <3>1. [slot EXCEPT ![cur].name = change[cur].after] \in [File -> Slot]
        BY <2>1, SlotTypes
      <3> QED
        BY <1>7, <3>1 DEF Publish, TypeOK
    <2> QED
      BY <1>7, <2>1, <2>2 DEF TypeOK, Publish
  <1> QED
    BY <1>2, <1>3, <1>4, <1>5, <1>6, <1>7 DEF Prepare

\* The end of a transaction.
LEMMA OutcomeType == ASSUME TypeOK, Members, Outcome PROVE TypeOK'
  <1> USE DEF disk, members, Pc, PrepareStep, RecoverStep
  <1>1. CASE CommitLands \/ CancelCommit
    <2>1. change' \in [File -> Change]
      <3>1. CASE File = {}
        BY <1>1, <3>1 DEF TypeOK, Receipts, CommitLands, CancelCommit
      <3>2. CASE File # {}
        BY <1>1, <3>2, ChangeTypes DEF CommitLands, CancelCommit
      <3> QED
        BY <3>1, <3>2
    <2> QED
      BY <1>1, <2>1 DEF TypeOK, CommitLands, CancelCommit
  <1>2. CASE Undo \/ Return
    BY <1>2 DEF TypeOK, Undo, Return
  <1>3. ASSUME NEW f \in File, Settle(f) PROVE TypeOK'
    BY <1>3 DEF TypeOK, Settle
  <1> QED
    BY <1>1, <1>2, <1>3 DEF Outcome

\* A recovery that fails.
LEMMA FailsType == ASSUME TypeOK, RecoverFails PROVE TypeOK'
  BY DEF TypeOK, RecoverFails, disk, Pc, PrepareStep, RecoverStep

\* Filling a restored file writes its name, and may close what the editor has open.
LEMMA FillTypes ==
    ASSUME TypeOK, RecoverFill
    PROVE  /\ cur \in File
           /\ slot' \in [File -> Slot]
           /\ slot' = slot \/ \E x \in {seen, Torn} : slot' = [slot EXCEPT ![cur].name = x]
           /\ fd' \in [File -> {NULL, "name", "before", "rolled"}]
           /\ fd' = fd \/ (fd' = [fd EXCEPT ![cur] = NULL] /\ slot' = slot)
  <1>1. cur \in File /\ seen \in MaybeText /\ Torn \in MaybeText
    BY DEF RecoverFill, TypeOK, RecoverStep, MaybeText
  <1>2. slot' = slot \/ \E x \in {seen, Torn} : slot' = [slot EXCEPT ![cur].name = x]
    BY DEF RecoverFill
  <1>3. slot' \in [File -> Slot]
    <2>1. ASSUME NEW x \in {seen, Torn} PROVE [slot EXCEPT ![cur].name = x] \in [File -> Slot]
      BY <1>1, SlotTypes
    <2>2. slot \in [File -> Slot]
      BY DEF TypeOK
    <2> QED
      BY <1>2, <2>1, <2>2
  <1>4. fd' = fd \/ (fd' = [fd EXCEPT ![cur] = NULL] /\ slot' = slot)
    BY DEF RecoverFill
  <1> QED
    BY <1>1, <1>2, <1>3, <1>4 DEF TypeOK

\* The same, name by name.
LEMMA FillWrites ==
    ASSUME TypeOK, RecoverFill
    PROVE  /\ slot'[cur].name = slot[cur].name \/ slot'[cur].name \in {seen, Torn}
           /\ slot'[cur].before = slot[cur].before /\ slot'[cur].rolled = slot[cur].rolled
           /\ fd'[cur] = fd[cur] \/ fd'[cur] = NULL
           /\ \A f \in File : f # cur => slot'[f] = slot[f] /\ fd'[f] = fd[f]
           /\ fresh = "none" => slot'[cur].name = slot[cur].name
           /\ fresh = "empty" => slot'[cur].name = seen
           /\ fd'[cur] = fd[cur] /\ slot'[cur].name # slot[cur].name =>
                 fresh = "empty" \/ fd[cur] = NULL
  <1>1. cur \in File /\ slot \in [File -> Slot] /\ fd \in [File -> {NULL, "name", "before", "rolled"}]
    BY FillTypes DEF TypeOK
  <1>2. /\ slot' = slot \/ \E x \in {seen, Torn} : slot' = [slot EXCEPT ![cur].name = x]
        /\ fd' = fd \/ fd' = [fd EXCEPT ![cur] = NULL]
        /\ fresh = "none" => slot' = slot
        /\ fresh = "empty" => slot' = [slot EXCEPT ![cur].name = seen]
        /\ slot' = slot \/ fresh = "empty" \/ fd[cur] = NULL
    BY FillTypes DEF RecoverFill
  <1> QED
    BY <1>1, <1>2 DEF Slot

\* The recovery of one change.
LEMMA RecoverType == ASSUME TypeOK, Members, Recover PROVE TypeOK'
  <1> USE DEF Goto, disk, members, Pc, PrepareStep, RecoverStep
  <1>1. pc \in RecoverStep => cur \in File
    BY DEF TypeOK
  <1>2. CASE RecoverFails
    BY <1>2, FailsType
  <1>3. CASE RecoverRead
    <2>1. slot[cur].name \in MaybeText
      BY <1>1, <1>3 DEF RecoverRead, TypeOK, Slot
    <2>2. CASE Goto(back) /\ UNCHANGED disk
      BY <2>2 DEF TypeOK
    <2>3. CASE /\ seen' = slot[cur].name
               /\ pc' = IF Committed THEN "settle" ELSE "move"
               /\ UNCHANGED <<disk, members, back, cur, fresh, told>>
      BY <1>1, <1>3, <2>1, <2>3 DEF TypeOK, RecoverRead
    <2> QED
      BY <1>2, <1>3, <2>2, <2>3 DEF RecoverRead
  <1>4. CASE RecoverMove
    <2>1. slot[cur].name \in MaybeText /\ cur \in File /\ NULL \in MaybeText
      BY <1>1, <1>4 DEF RecoverMove, TypeOK, Slot, MaybeText
    <2>2. CASE Goto("restore") /\ UNCHANGED disk
      BY <2>1, <2>2 DEF TypeOK
    <2>3. CASE /\ slot' = [slot EXCEPT ![cur].rolled = slot[cur].name, ![cur].name = NULL]
               /\ Moved(cur, "name", "rolled")
               /\ seen' = NULL /\ pc' = "restore"
               /\ UNCHANGED <<change, touched, members, back, cur, fresh, told>>
      <3>1. slot' \in [File -> Slot]
        BY <2>1, <2>3, SlotTypes
      <3> QED
        BY <2>1, <2>3, <3>1 DEF TypeOK, Moved
    <2> QED
      BY <1>2, <1>4, <2>2, <2>3 DEF RecoverMove
  <1>5. CASE RecoverRestore
    <2>1. slot[cur].before \in MaybeText /\ cur \in File /\ Torn \in MaybeText
      BY <1>1, <1>5 DEF RecoverRestore, TypeOK, Slot, MaybeText
    <2>2. CASE MustRestore
      <3>1. slot' \in [File -> Slot]
        <4>1. [slot EXCEPT ![cur].name = Torn] \in [File -> Slot]
          BY <2>1, SlotTypes
        <4> QED
          BY <1>5, <2>2, <4>1 DEF RecoverRestore
      <3> QED
        BY <1>5, <2>1, <2>2, <3>1 DEF TypeOK, RecoverRestore
    <2>3. CASE ~MustRestore
      BY <1>5, <2>1, <2>3 DEF TypeOK, RecoverRestore
    <2> QED
      BY <2>2, <2>3
  <1>6. CASE RecoverFill
    <2>1. cur \in File /\ slot' \in [File -> Slot]
      BY <1>6, FillTypes
    <2>2. fd' \in [File -> {NULL, "name", "before", "rolled"}]
      BY <1>6, FillTypes
    <2> QED
      BY <1>6, <2>1, <2>2 DEF TypeOK, RecoverFill
  <1>7. CASE RecoverSettles
    <2>1. cur \in File
      BY <1>1, <1>7 DEF RecoverSettles
    <2>2. change' \in [File -> Change]
      BY <1>7, <2>1, ChangeTypes DEF RecoverSettles
    <2> QED
      BY <1>7, <2>1, <2>2 DEF TypeOK, RecoverSettles
  <1> QED
    BY <1>2, <1>3, <1>4, <1>5, <1>6, <1>7 DEF Recover, RecoveryStepFails

\* Crash and restart.
LEMMA RestartType == ASSUME TypeOK, Members, Restart PROVE TypeOK'
  <1>1. CASE Crash \/ StartBackend \/ Started
    BY <1>1 DEF TypeOK, Crash, StartBackend, Started, Goto, disk, members, Pc, PrepareStep, RecoverStep
  <1>2. ASSUME NEW f \in File, RecoverPending(f) PROVE TypeOK'
    BY <1>2 DEF TypeOK, RecoverPending, disk, members, Pc, PrepareStep, RecoverStep
  <1> QED
    BY <1>1, <1>2 DEF Restart

\* The editor.
LEMMA EditorType == ASSUME TypeOK, Editor PROVE TypeOK'
  <1>1. PICK f \in Edited : \/ \E x \in Foreign \cup {NULL} : EditorReplaces(f, x)
                            \/ EditorOpens(f)
                            \/ \E x \in Foreign : EditorWrites(f, x)
    BY DEF Editor
  <1>2. f \in File /\ Torn \in MaybeText /\ Foreign \cup {NULL} \subseteq MaybeText
    BY TextAssumption DEF MaybeText
  <1>3. EditorTouches(f) /\ slot' \in [File -> Slot] /\ fresh' \in {"none", "empty", "shared"}
        /\ fd' \in [File -> {NULL, "name", "before", "rolled"}]
    <2>1. ASSUME NEW x \in Foreign \cup {NULL}, EditorReplaces(f, x)
          PROVE  EditorTouches(f) /\ slot' \in [File -> Slot] /\ fresh' \in {"none", "empty", "shared"}
                 /\ fd' \in [File -> {NULL, "name", "before", "rolled"}]
      BY <1>2, <2>1, SlotTypes DEF EditorReplaces, TypeOK
    <2>2. CASE EditorOpens(f)
      BY <1>2, <2>2, SlotTypes DEF EditorOpens, TypeOK
    <2>3. ASSUME NEW x \in Foreign, EditorWrites(f, x)
          PROVE  EditorTouches(f) /\ slot' \in [File -> Slot] /\ fresh' \in {"none", "empty", "shared"}
                 /\ fd' \in [File -> {NULL, "name", "before", "rolled"}]
      <3>1. fd[f] \in {"name", "before", "rolled"}
        BY <1>2, <2>3 DEF EditorWrites, TypeOK
      <3>2. slot' \in [File -> Slot]
        BY <1>2, <2>3, <3>1, SlotTypes DEF EditorWrites
      <3> QED
        BY <1>2, <2>3, <3>2 DEF EditorWrites, TypeOK
    <2> QED
      BY <1>1, <2>1, <2>2, <2>3
  <1> QED
    BY <1>2, <1>3 DEF EditorTouches, TypeOK, members

\* Every step keeps the types.
LEMMA TypeStep == TypeOK /\ Members /\ [Next]_vars => TypeOK'
  <1> SUFFICES ASSUME TypeOK, Members, [Next]_vars PROVE TypeOK'
    OBVIOUS
  <1>1. CASE UNCHANGED vars
    BY <1>1 DEF vars, TypeOK
  <1> QED
    BY <1>1, BodyType, PrepareType, OutcomeType, RecoverType, RestartType, EditorType DEF Next

-----------------------------------------------------------------------------
\* Members

\* The body of a transaction.
LEMMA BodyMembers == ASSUME TypeOK, Members, Body PROVE Members'
  <1> USE DEF Members, Undecided, Recovering, PrepareStep, RecoverStep
  <1>1. CASE Begin \/ OpenSavepoint \/ ReleaseSavepoint \/ EndBody \/ AbortBody
    BY <1>1 DEF Begin, OpenSavepoint, ReleaseSavepoint, EndBody, AbortBody, disk, members
  <1>2. CASE RollbackToSavepoint
    BY <1>2 DEF RollbackToSavepoint, disk
  <1>3. ASSUME NEW f \in File, Synchronize(f) PROVE Members'
    BY <1>3 DEF Synchronize, disk, members
  <1>4. ASSUME NEW f \in File, NEW after, Stage(f, after) PROVE Members'
    BY <1>4 DEF Stage
  <1> QED
    BY <1>1, <1>2, <1>3, <1>4 DEF Body

\* Preparing a file.
LEMMA PrepareMembers == ASSUME TypeOK, Members, Prepare PROVE Members'
  <1> USE DEF Members, Undecided, Recovering, PrepareStep, RecoverStep, Goto, members
  <1>1. ASSUME NEW f \in File, NextParticipant(f) PROVE Members'
    BY <1>1 DEF NextParticipant
  <1>2. CASE Check \/ CreateIntent \/ FillIntent \/ WriteCopies \/ Displace \/ Verify \/ Publish
    BY <1>2 DEF Check, CreateIntent, FillIntent, WriteCopies, Displace, Verify, Publish,
                AfterDisplacement
  <1>3. CASE AllPrepared \/ PrepareFails
    BY <1>3 DEF AllPrepared, PrepareFails
  <1> QED
    BY <1>1, <1>2, <1>3 DEF Prepare

\* The end of a transaction.
LEMMA OutcomeMembers == ASSUME TypeOK, Members, Outcome PROVE Members'
  <1> USE DEF Members, Undecided, Recovering, PrepareStep, RecoverStep, members
  <1>1. CASE CommitLands \/ CancelCommit \/ Undo \/ Return
    BY <1>1 DEF CommitLands, CancelCommit, Undo, Return
  <1>2. ASSUME NEW f \in File, Settle(f) PROVE Members'
    BY <1>2 DEF Settle, TypeOK
  <1> QED
    BY <1>1, <1>2 DEF Outcome

\* A recovery returns, or fails.
LEMMA ReturnMembers ==
    ASSUME TypeOK, Members, pc \in RecoverStep, RecoverFails \/ Goto(back)
    PROVE  Members'
  BY DEF TypeOK, Members, Undecided, Recovering, PrepareStep, RecoverStep, RecoverFails, Goto, members

\* A step within a recovery.
LEMMA WithinMembers ==
    ASSUME Members, pc \in RecoverStep, pc' \in RecoverStep, UNCHANGED <<members, back, cur, told>>
    PROVE  Members'
  BY DEF Members, Undecided, Recovering, PrepareStep, RecoverStep, members

\* The recovery of one change either goes on or ends.
LEMMA RecoverMoves ==
    ASSUME Recover
    PROVE  /\ pc \in RecoverStep
           /\ \/ RecoverFails \/ Goto(back)
              \/ pc' \in RecoverStep /\ UNCHANGED <<members, back, cur, told>>
  <1> USE DEF RecoverStep, Goto
  <1>1. CASE RecoverRead
    BY <1>1 DEF RecoverRead
  <1>2. CASE RecoverMove
    BY <1>2 DEF RecoverMove
  <1>3. CASE RecoverRestore \/ RecoverFill \/ RecoverSettles \/ RecoveryStepFails
    BY <1>3 DEF RecoverRestore, RecoverFill, RecoverSettles, RecoveryStepFails
  <1> QED
    BY <1>1, <1>2, <1>3 DEF Recover

\* Crash and restart.
LEMMA RestartMembers == ASSUME TypeOK, Members, Restart PROVE Members'
  <1> USE DEF Members, Undecided, Recovering, PrepareStep, RecoverStep, Goto, members
  <1>1. CASE Crash \/ StartBackend \/ Started
    BY <1>1 DEF Crash, StartBackend, Started
  <1>2. ASSUME NEW f \in File, RecoverPending(f) PROVE Members'
    BY <1>2, TypeOK DEF RecoverPending, TypeOK
  <1> QED
    BY <1>1, <1>2 DEF Restart

\* Every step keeps what a transaction carries.
LEMMA MembersStep == TypeOK /\ Members /\ [Next]_vars => Members'
  <1> SUFFICES ASSUME TypeOK, Members, [Next]_vars PROVE Members'
    OBVIOUS
  <1>1. CASE UNCHANGED <<pc, back, cur, members, told>>
    BY <1>1 DEF Members, Undecided, Recovering, members
  <1>2. CASE Editor
    BY <1>1, <1>2 DEF Editor, EditorReplaces, EditorOpens, EditorWrites, EditorTouches
  <1>3. CASE UNCHANGED vars
    BY <1>1, <1>3 DEF vars, members
  <1> QED
    BY <1>2, <1>3, BodyMembers, PrepareMembers, OutcomeMembers, RecoverMoves, ReturnMembers,
       WithinMembers, RestartMembers DEF Next

-----------------------------------------------------------------------------
\* Receipts and marks

\* The body of a transaction.
LEMMA BodyReceipted == ASSUME TypeOK, Members, Receipted, Body PROVE Receipted'
  <1> USE DEF Receipted, Members, Undecided, Recovering, PrepareStep, RecoverStep, disk, members
  <1>1. CASE Begin
    BY <1>1 DEF Begin
  <1>2. CASE OpenSavepoint \/ ReleaseSavepoint \/ EndBody \/ AbortBody
    BY <1>2 DEF OpenSavepoint, ReleaseSavepoint, EndBody, AbortBody
  <1>3. CASE RollbackToSavepoint
    BY <1>3 DEF RollbackToSavepoint
  <1>4. ASSUME NEW f \in File, Synchronize(f) PROVE Receipted'
    BY <1>4 DEF Synchronize, Pending
  <1>5. ASSUME NEW f \in File, NEW after \in Text \cup {NULL}, Stage(f, after) PROVE Receipted'
    <2>1. /\ change'[f].receipt = FALSE /\ change'[f].mark = "none"
          /\ change'[f].before = slot[f].name /\ change'[f].after = after
          /\ \A g \in File \ {f} : change'[g] = change[g]
      BY <1>5 DEF Stage, TypeOK, Untouched
    <2>2. enlisted \subseteq File /\ pc' = "open" /\ enlisted' = enlisted \cup {f} /\ told' = told
      BY <1>5 DEF Stage, TypeOK
    <2> QED
      BY <1>5, <2>1, <2>2 DEF Stage
  <1> QED
    BY <1>1, <1>2, <1>3, <1>4, <1>5 DEF Body

\* Preparing a file writes its intent, and neither receipt nor mark.
LEMMA PrepareReceipted == ASSUME TypeOK, Members, Receipted, Prepare PROVE Receipted'
  <1> USE DEF Receipted, Members, Undecided, Recovering, PrepareStep, RecoverStep, disk, members, Goto
  <1>1. ASSUME NEW f \in File, NextParticipant(f) PROVE Receipted'
    BY <1>1 DEF NextParticipant
  <1>2. CASE Check \/ WriteCopies \/ Displace \/ Verify \/ Publish \/ AllPrepared
    BY <1>2 DEF Check, WriteCopies, Displace, Verify, Publish, AllPrepared, AfterDisplacement
  <1>3. CASE CreateIntent \/ FillIntent
    <2>1. \A g \in File : /\ change'[g].receipt = change[g].receipt /\ change'[g].mark = change[g].mark
                          /\ change'[g].before = change[g].before /\ change'[g].after = change[g].after
      BY <1>3 DEF TypeOK, Change, CreateIntent, FillIntent
    <2>2. enlisted \subseteq File /\ cur \in File
      BY <1>3 DEF TypeOK, CreateIntent, FillIntent
    <2> QED
      BY <1>3, <2>1, <2>2 DEF CreateIntent, FillIntent
  <1>4. CASE PrepareFails
    BY <1>4 DEF PrepareFails
  <1> QED
    BY <1>1, <1>2, <1>3, <1>4 DEF Prepare

\* COMMIT writes the receipts of the files that were enlisted.
LEMMA OutcomeReceipted == ASSUME TypeOK, Members, Receipted, Outcome PROVE Receipted'
  <1> USE DEF Receipted, Members, Undecided, Recovering, PrepareStep, RecoverStep, disk, members
  <1>1. CASE CommitLands \/ CancelCommit
    <2>1. \A g \in File : /\ change'[g].mark = change[g].mark
                          /\ g \in rows => change'[g].receipt
      BY <1>1 DEF TypeOK, Change, CommitLands, CancelCommit, Receipts
    <2>2. enlisted \subseteq File /\ rows = enlisted /\ prepared = enlisted
      BY <1>1 DEF TypeOK, CommitLands, CancelCommit
    <2>3. CASE CommitLands
      BY <2>1, <2>2, <2>3 DEF CommitLands
    <2>4. CASE CancelCommit
      BY <2>2, <2>4 DEF CancelCommit, MayInterruptCommit
    <2> QED
      BY <1>1, <2>3, <2>4
  <1>2. CASE Undo \/ Return
    BY <1>2 DEF Undo, Return
  <1>3. ASSUME NEW f \in File, Settle(f) PROVE Receipted'
    BY <1>3 DEF Settle, TypeOK
  <1> QED
    BY <1>1, <1>2, <1>3 DEF Outcome

\* A recovery that returns or fails and has changed nothing.
LEMMA ReturnReceipted ==
    ASSUME TypeOK, Members, Receipted, pc \in RecoverStep, RecoverFails \/ Goto(back),
           \A g \in File : /\ change'[g].receipt = change[g].receipt
                           /\ change'[g].before = change[g].before /\ change'[g].after = change[g].after,
           \A g \in File : change'[g].mark = change[g].mark \/ (g = cur /\ pc = "settle")
    PROVE  Receipted'
  <1> USE DEF Receipted, Members, Undecided, Recovering, PrepareStep, RecoverStep
  <1>1. enlisted \subseteq File /\ back \in {"open", "rollback", "mark", "startup"}
    BY DEF TypeOK
  <1>2. CASE back \in {"open", "startup"}
    BY <1>1, <1>2 DEF RecoverFails, Goto, members
  <1>3. CASE back \in {"rollback", "mark"}
    BY <1>1, <1>3 DEF RecoverFails, Goto, members, TypeOK
  <1> QED
    BY <1>1, <1>2, <1>3

\* The recovery of one change.
LEMMA RecoverReceipted == ASSUME TypeOK, Members, Receipted, Recover PROVE Receipted'
  <1> USE DEF RecoverStep, disk
  <1>1. CASE RecoverFails
    BY <1>1, RecoverMoves, ReturnReceipted DEF RecoverFails
  <1>2. ASSUME UNCHANGED <<change, members, back, cur, told>>, pc \in RecoverStep, pc' \in RecoverStep,
               pc' \in {"move", "restore", "fill"} => ~Committed
        PROVE  Receipted'
    BY <1>2 DEF Receipted, Committed, members, Undecided, Recovering, PrepareStep
  <1>3. CASE RecoverRead
    <2>1. CASE Goto(back) /\ UNCHANGED disk
      BY <1>3, <2>1, ReturnReceipted DEF RecoverRead
    <2> QED
      BY <1>1, <1>2, <1>3, <2>1 DEF RecoverRead
  <1>4. CASE RecoverMove
    <2>1. pc = "move" /\ ~Committed
      BY <1>4 DEF RecoverMove, Receipted
    <2> QED
      BY <1>1, <1>2, <1>4, <2>1 DEF RecoverMove, Goto
  <1>5. CASE RecoverRestore \/ RecoverFill
    <2>1. pc \in {"restore", "fill"} /\ ~Committed
      BY <1>5 DEF RecoverRestore, RecoverFill, Receipted
    <2> QED
      BY <1>2, <1>5, <2>1 DEF RecoverRestore, RecoverFill, Goto
  <1>6. CASE RecoverSettles
    <2>1. \A g \in File : /\ change'[g].receipt = change[g].receipt
                          /\ change'[g].before = change[g].before /\ change'[g].after = change[g].after
                          /\ change'[g].mark = change[g].mark \/ g = cur
      BY <1>6 DEF TypeOK, Change, RecoverSettles
    <2> QED
      BY <1>6, <2>1, ReturnReceipted DEF RecoverSettles
  <1> QED
    BY <1>1, <1>3, <1>4, <1>5, <1>6 DEF Recover, RecoveryStepFails

\* Crash and restart.
LEMMA RestartReceipted == ASSUME TypeOK, Members, Receipted, Restart PROVE Receipted'
  <1> USE DEF Receipted, Members, Undecided, Recovering, PrepareStep, RecoverStep, disk, members, Goto
  <1>1. CASE Crash \/ StartBackend \/ Started
    BY <1>1 DEF Crash, StartBackend, Started
  <1>2. ASSUME NEW f \in File, RecoverPending(f) PROVE Receipted'
    BY <1>2 DEF RecoverPending, Pending
  <1> QED
    BY <1>1, <1>2 DEF Restart

\* Every step keeps what receipts and marks say.
LEMMA ReceiptedStep == TypeOK /\ Members /\ Receipted /\ [Next]_vars => Receipted'
  <1> SUFFICES ASSUME TypeOK, Members, Receipted, [Next]_vars PROVE Receipted'
    OBVIOUS
  <1>1. CASE UNCHANGED <<change, pc, back, cur, members, told>>
    BY <1>1 DEF Receipted, Committed, Undecided, Recovering, members
  <1>2. CASE Editor
    BY <1>1, <1>2 DEF Editor, EditorReplaces, EditorOpens, EditorWrites, EditorTouches
  <1>3. CASE UNCHANGED vars
    BY <1>1, <1>3 DEF vars, members
  <1> QED
    BY <1>2, <1>3, BodyReceipted, PrepareReceipted, OutcomeReceipted, RecoverReceipted,
       RestartReceipted DEF Next

-----------------------------------------------------------------------------
\* Files

\* What a step leaves of a file that is not in hand.
FileKept(f) ==
    /\ slot'[f] = slot[f]
    /\ change'[f] = change[f]
    /\ f \in touched' <=> f \in touched

\* Preparing and recovering change the file in hand only, and no touch.
LEMMA OthersKept ==
    ASSUME TypeOK, Prepare \/ Recover
    PROVE  /\ touched' = touched
           /\ \A f \in File : f # cur => FileKept(f)
  <1> USE DEF FileKept, Goto, disk
  <1>1. CASE Prepare
    <2>1. CASE \E f \in File : NextParticipant(f)
      BY <2>1 DEF NextParticipant
    <2>2. CASE CreateIntent \/ FillIntent
      BY <2>2 DEF CreateIntent, FillIntent, TypeOK
    <2>3. CASE Displace \/ Publish
      BY <2>3 DEF Displace, Publish, TypeOK
    <2>4. CASE Check \/ WriteCopies \/ Verify \/ AllPrepared \/ PrepareFails
      BY <2>4 DEF Check, WriteCopies, Verify, AllPrepared, PrepareFails
    <2> QED
      BY <1>1, <2>1, <2>2, <2>3, <2>4 DEF Prepare
  <1>2. CASE Recover
    <2>1. CASE RecoverFails
      BY <2>1 DEF RecoverFails
    <2>2. CASE RecoverRead \/ RecoverSettles
      BY <2>1, <2>2 DEF RecoverRead, RecoverSettles, TypeOK
    <2>3. CASE RecoverMove
      BY <2>1, <2>3 DEF RecoverMove, TypeOK
    <2>4. CASE RecoverRestore \/ RecoverFill
      BY <2>4 DEF RecoverRestore, RecoverFill, TypeOK
    <2> QED
      BY <1>2, <2>1, <2>2, <2>3, <2>4 DEF Recover, RecoveryStepFails
  <1> QED
    BY <1>1, <1>2

\* The editor leaves its trace where it writes.
LEMMA EditorLeavesTrace ==
    ASSUME TypeOK, Editor
    PROVE  /\ UNCHANGED <<change, pc, back, cur, seen, members, told>>
           /\ touched \subseteq touched'
           /\ \A f \in File : f \in touched' \/ FileKept(f)
  <1> USE DEF FileKept, EditorTouches
  <1>1. PICK f \in Edited : \/ \E x \in Foreign \cup {NULL} : EditorReplaces(f, x)
                            \/ EditorOpens(f)
                            \/ \E x \in Foreign : EditorWrites(f, x)
    BY DEF Editor
  <1>2. EditorTouches(f)
    BY <1>1 DEF EditorReplaces, EditorOpens, EditorWrites
  <1>3. \A g \in File \ {f} : slot'[g] = slot[g]
    BY <1>1 DEF EditorReplaces, EditorOpens, EditorWrites, TypeOK
  <1> QED
    BY <1>2, <1>3

\* The editor takes over the file that a restore has created when it touches it.
LEMMA EditorAndFresh ==
    ASSUME TypeOK, Editor, cur \in File
    PROVE  /\ cur \in touched' \/ fresh' = fresh
           /\ fresh' = "empty" => fresh = "empty"
           /\ fresh' = "empty" /\ fd[cur] # "name" =>
                 slot'[cur].name = slot[cur].name /\ fd'[cur] # "name"
  <1>1. PICK f \in Edited : \/ \E x \in Foreign \cup {NULL} : EditorReplaces(f, x)
                            \/ EditorOpens(f)
                            \/ \E x \in Foreign : EditorWrites(f, x)
    BY DEF Editor
  <1>3. CASE \E x \in Foreign \cup {NULL} : EditorReplaces(f, x)
    BY <1>1, <1>3, TextAssumption DEF EditorReplaces, EditorTouches, TypeOK
  <1>4. CASE EditorOpens(f)
    BY <1>1, <1>4, TextAssumption DEF EditorOpens, EditorTouches, TypeOK
  <1>5. CASE \E x \in Foreign : EditorWrites(f, x)
    <2>1. fd'[cur] = fd[cur] \/ fd'[cur] = NULL
      BY <1>1, <1>5, TextAssumption DEF EditorWrites, TypeOK
    <2> QED
      BY <1>1, <1>5, <2>1, TextAssumption DEF EditorWrites, EditorTouches, TypeOK, Slot
  <1> QED
    BY <1>1, <1>3, <1>4, <1>5

\* What the text of a change is not: a half-written file.
LEMMA AfterNotTorn == ASSUME TypeOK, NEW f \in File PROVE change[f].after # Torn
  BY TextAssumption DEF TypeOK, Change

-----------------------------------------------------------------------------
\* Before the COMMIT

\* Preparing a file publishes its change.
LEMMA PreparePublishes ==
    ASSUME TypeOK, Members, Receipted, PreparedPublished, Prepare
    PROVE  PreparedPublished'
  <1> USE DEF PreparedPublished, Published, Compared, PrepareStep
  <1>1. /\ touched' = touched
        /\ \A f \in File : f # cur => slot'[f].name = slot[f].name /\ change'[f].after = change[f].after
    BY OthersKept DEF FileKept
  <1>2. prepared \subseteq File /\ (pc \in PrepareStep => cur \in File)
    BY DEF TypeOK
  <1>3. ASSUME NEW f \in File, NextParticipant(f) PROVE PreparedPublished'
    BY <1>3 DEF NextParticipant, disk
  <1>4. CASE Check \/ AllPrepared \/ PrepareFails
    BY <1>4 DEF Check, AllPrepared, PrepareFails, Goto, disk, members
  <1>5. CASE CreateIntent \/ FillIntent
    <2>1. change'[cur].before = change[cur].before /\ slot' = slot
      BY <1>2, <1>5 DEF CreateIntent, FillIntent, TypeOK, Change
    <2> QED
      BY <1>1, <1>2, <1>5, <2>1 DEF CreateIntent, FillIntent, Goto, members
  <1>6. CASE WriteCopies
    <2>1. change[cur].before = NULL => change[cur].after # NULL
      BY <1>2, <1>6 DEF WriteCopies, Receipted, Members, Undecided, TypeOK
    <2> QED
      BY <1>2, <1>6, <2>1 DEF WriteCopies, AfterDisplacement, Goto, disk, members
  <1>7. CASE Displace
    <2>1. pc' = "verify" => slot'[cur].name = NULL
      BY <1>2, <1>7 DEF Displace, TypeOK, Slot, Goto
    <2> QED
      BY <1>1, <1>2, <1>7, <2>1 DEF Displace, Goto, members
  <1>8. CASE Verify
    BY <1>2, <1>8 DEF Verify, AfterDisplacement, Goto, disk, members
  <1>9. CASE Publish
    <2>1. pc' = "prepare" => slot'[cur].name = change'[cur].after
      BY <1>2, <1>9 DEF Publish, TypeOK, Slot, Goto
    <2> QED
      BY <1>1, <1>2, <1>9, <2>1 DEF Publish, Goto, members
  <1> QED
    BY <1>3, <1>4, <1>5, <1>6, <1>7, <1>8, <1>9 DEF Prepare

\* Every step keeps what has been prepared published, up to the COMMIT.
LEMMA PublishedStep ==
    TypeOK /\ Members /\ Receipted /\ PreparedPublished /\ [Next]_vars => PreparedPublished'
  <1> SUFFICES ASSUME TypeOK, Members, Receipted, PreparedPublished, [Next]_vars
               PROVE  PreparedPublished'
    OBVIOUS
  <1> USE DEF PreparedPublished, Published, Compared, PrepareStep
  <1>1. CASE pc' = "prepare" /\ prepared' = {}
    BY <1>1
  <1>2. CASE pc' \notin {"prepare", "commit"} \cup PrepareStep
    BY <1>2
  <1>3. CASE Body
    BY <1>1, <1>2, <1>3 DEF Body, Begin, Synchronize, Stage, OpenSavepoint, ReleaseSavepoint,
       RollbackToSavepoint, EndBody, AbortBody, Members, members
  <1>4. CASE Outcome
    BY <1>2, <1>4 DEF Outcome, CommitLands, CancelCommit, Undo, Return, Settle
  <1>5. CASE Recover
    BY <1>2, <1>5, RecoverMoves DEF TypeOK, RecoverStep, RecoverFails, Goto
  <1>6. CASE Restart
    BY <1>2, <1>6 DEF Restart, Crash, StartBackend, Started, RecoverPending, Goto
  <1>7. CASE Editor
    <2>1. prepared \subseteq File /\ (pc \in PrepareStep => cur \in File)
      BY DEF TypeOK
    <2> QED
      BY <1>7, <2>1, EditorLeavesTrace DEF FileKept, members
  <1>8. CASE UNCHANGED vars
    BY <1>8 DEF vars
  <1> QED
    BY <1>3, <1>4, <1>5, <1>6, <1>7, <1>8, PreparePublishes DEF Next

-----------------------------------------------------------------------------
\* Displaced files

\* Every step displaces what the change began with, if the editor kept off.
LEMMA DisplacedStep ==
    TypeOK /\ Members /\ PreparedPublished /\ Displaced /\ [Next]_vars => Displaced'
  <1> SUFFICES ASSUME TypeOK, Members, PreparedPublished, Displaced, [Next]_vars
               PROVE  Displaced'
    OBVIOUS
  <1> USE DEF Displaced
  <1>1. CASE UNCHANGED <<slot, touched>> /\ \A f \in File : change'[f].before = change[f].before
    BY <1>1
  <1>2. ASSUME NEW f \in File, NEW after, Stage(f, after) PROVE Displaced'
    <2>1. slot'[f].before = NULL
      BY <1>2 DEF Stage, TypeOK, Slot
    <2>2. \A g \in File \ {f} : slot'[g] = slot[g] /\ change'[g] = change[g] /\ (g \in touched' <=> g \in touched)
      BY <1>2 DEF Stage, TypeOK
    <2> QED
      BY <2>1, <2>2
  <1>3. CASE Body
    BY <1>1, <1>2, <1>3 DEF Body, Begin, Synchronize, OpenSavepoint, ReleaseSavepoint,
       RollbackToSavepoint, EndBody, AbortBody, disk
  <1>4. CASE Displace
    <2>1. cur \in File
      BY <1>4 DEF Displace, TypeOK, PrepareStep
    <2>2. slot' = slot \/ slot'[cur].before = slot[cur].name
      BY <1>4, <2>1 DEF Displace, TypeOK, Slot, disk
    <2>3. cur \in touched \/ slot[cur].name = change[cur].before
      BY <1>4 DEF Displace, PreparedPublished, Compared
    <2>4. change' = change /\ touched' = touched
      BY <1>4 DEF Displace, disk
    <2>5. \A f \in File : f # cur => slot'[f] = slot[f]
      BY <1>4, OthersKept DEF FileKept, Prepare
    <2> QED
      BY <2>1, <2>2, <2>3, <2>4, <2>5
  <1>5. CASE Publish \/ RecoverMove \/ RecoverRestore \/ RecoverFill
    <2>1. cur \in File
      BY <1>5 DEF Publish, RecoverMove, RecoverRestore, RecoverFill, TypeOK, PrepareStep, RecoverStep
    <2>2. slot'[cur].before = slot[cur].before
      BY <1>5, <2>1 DEF Publish, RecoverMove, RecoverRestore, RecoverFill, RecoverFails, TypeOK, Slot, disk
    <2>3. change' = change
      BY <1>5 DEF Publish, RecoverMove, RecoverRestore, RecoverFill, RecoverFails, disk
    <2>4. touched' = touched /\ \A f \in File : f # cur => slot'[f] = slot[f]
      BY <1>5, OthersKept DEF FileKept, Prepare, Recover
    <2> QED
      BY <2>1, <2>2, <2>3, <2>4
  <1>6. CASE CreateIntent \/ FillIntent \/ RecoverSettles \/ CommitLands \/ CancelCommit
    <2>1. \A f \in File : change'[f].before = change[f].before
      BY <1>6 DEF CreateIntent, FillIntent, RecoverSettles, CommitLands, CancelCommit, Receipts, TypeOK, Change
    <2> QED
      BY <1>1, <1>6, <2>1 DEF CreateIntent, FillIntent, RecoverSettles, CommitLands, CancelCommit
  <1>7. CASE Prepare
    BY <1>1, <1>4, <1>5, <1>6, <1>7 DEF Prepare, NextParticipant, Check, WriteCopies, Verify, AllPrepared,
       PrepareFails, Goto, disk
  <1>8. CASE Outcome
    BY <1>1, <1>6, <1>8 DEF Outcome, Undo, Return, Settle, disk
  <1>9. CASE Recover
    BY <1>1, <1>5, <1>6, <1>9 DEF Recover, RecoverRead, RecoveryStepFails, RecoverFails, Goto, disk
  <1>10. CASE Restart
    BY <1>1, <1>10 DEF Restart, Crash, StartBackend, Started, RecoverPending, Goto, disk
  <1>11. CASE Editor
    BY <1>11, EditorLeavesTrace DEF FileKept
  <1>12. CASE UNCHANGED vars
    BY <1>1, <1>12 DEF vars
  <1> QED
    BY <1>3, <1>7, <1>8, <1>9, <1>10, <1>11, <1>12 DEF Next

-----------------------------------------------------------------------------
\* Private names

\* The text of a change is none of those found under the name without it.
LEMMA OlderNotAfter ==
    ASSUME TypeOK, NEW f \in File, NEW x \in Older(f),
           change[f].after # NULL, change[f].before # change[f].after
    PROVE  x # change[f].after
  BY TextAssumption DEF TypeOK, Change, Older

\* A file that is left as it is.
LEMMA PrivateKept ==
    ASSUME NEW f, PrivateFile(f), slot'[f] = slot[f], fd'[f] = fd[f],
           change'[f].before = change[f].before, change'[f].after = change[f].after
    PROVE  PrivateFile(f)'
  BY DEF PrivateFile, Older

\* The body of a transaction.
LEMMA BodyPrivate == ASSUME TypeOK, Members, PrivateNames, Body PROVE PrivateNames'
  <1> USE DEF PrivateNames, Undecided, Recovering, RecoverStep, PrepareStep, Compared
  <1>1. enlisted \subseteq File
    BY DEF TypeOK
  <1>2. CASE Begin \/ OpenSavepoint \/ ReleaseSavepoint \/ RollbackToSavepoint \/ EndBody \/ AbortBody
    <2>1. \A f \in File : PrivateFile(f)'
      BY <1>2, PrivateKept DEF Begin, OpenSavepoint, ReleaseSavepoint, RollbackToSavepoint, EndBody,
         AbortBody, disk
    <2>2. pc' \in {"open", "prepare", "undo"} /\ slot' = slot
      BY <1>2 DEF Begin, OpenSavepoint, ReleaseSavepoint, RollbackToSavepoint, EndBody, AbortBody, disk
    <2>3. enlisted' = {} \/ (pc = "open" /\ enlisted' \subseteq enlisted /\ prepared' = prepared)
      BY <1>2 DEF Begin, OpenSavepoint, ReleaseSavepoint, RollbackToSavepoint, EndBody, AbortBody,
         members, Members
    <2> QED
      BY <2>1, <2>2, <2>3
  <1>3. ASSUME NEW f \in File, Synchronize(f) PROVE PrivateNames'
    <2>1. \A g \in File : PrivateFile(g)'
      BY <1>3, PrivateKept DEF Synchronize, disk
    <2> QED
      BY <1>3, <2>1 DEF Synchronize, Members, Older, disk, members
  <1>4. ASSUME NEW f \in File, NEW after, Stage(f, after) PROVE PrivateNames'
    <2>1. slot'[f].before = NULL /\ slot'[f].rolled = NULL /\ slot'[f].name = slot[f].name
      BY <1>4 DEF Stage, TypeOK, Slot
    <2>2. fd'[f] = IF fd[f] = "name" THEN "name" ELSE NULL
      BY <1>4 DEF Stage, TypeOK
    <2>3. PrivateFile(f)'
      BY <2>1, <2>2 DEF PrivateFile, Older
    <2>4. \A g \in File \ {f} : slot'[g] = slot[g] /\ change'[g] = change[g] /\ fd'[g] = fd[g]
      BY <1>4 DEF Stage, TypeOK
    <2>5. \A g \in File : PrivateFile(g)'
      BY <2>3, <2>4, PrivateKept
    <2> QED
      BY <1>1, <1>4, <2>1, <2>4, <2>5 DEF Stage
  <1> QED
    BY <1>2, <1>3, <1>4 DEF Body

\* Preparing and recovering leave the other files and what the editor has open there.
LEMMA OthersPrivate ==
    ASSUME TypeOK, PrivateNames, Prepare \/ Recover
    PROVE  \A f \in File : f # cur => PrivateFile(f)' /\ slot'[f] = slot[f]
  <1>1. \A f \in File : f # cur => fd'[f] = fd[f]
    <2>1. CASE UNCHANGED fd \/ RecoverFill
      BY <2>1, FillWrites
    <2>2. CASE Displace \/ RecoverMove
      BY <2>1, <2>2 DEF Displace, RecoverMove, RecoverFails, Moved, TypeOK, disk
    <2> QED
      BY <2>1, <2>2 DEF Prepare, NextParticipant, Check, CreateIntent, FillIntent, WriteCopies, Verify,
         Publish, AllPrepared, PrepareFails, Recover, RecoverRead, RecoverRestore,
         RecoverSettles, RecoveryStepFails, RecoverFails, Goto, disk
  <1> QED
    BY <1>1, OthersKept, PrivateKept DEF FileKept, PrivateNames

\* Preparing a file.
LEMMA PreparePrivate ==
    ASSUME TypeOK, Members, PrivateNames, Prepare
    PROVE  PrivateNames'
  <1> USE DEF PrivateNames, Undecided, Recovering, RecoverStep, PrepareStep, Compared, Goto
  <1>1. /\ enlisted \subseteq File
        /\ pc \in PrepareStep => cur \in File /\ cur \in enlisted /\ cur \in prepared
    BY DEF TypeOK, Members
  <1>2. \A f \in File : f # cur => PrivateFile(f)' /\ slot'[f] = slot[f]
    BY OthersPrivate
  <1>3. CASE UNCHANGED disk
    <2>1. \A f \in File : PrivateFile(f)'
      BY <1>3, PrivateKept DEF disk
    <2>2. CASE \E f \in File : NextParticipant(f)
      BY <1>1, <1>3, <2>1, <2>2 DEF NextParticipant, disk
    <2>3. CASE Check
      BY <1>1, <1>3, <2>1, <2>3 DEF Check, disk, members, Older
    <2>4. CASE WriteCopies
      BY <1>1, <1>3, <2>1, <2>4 DEF WriteCopies, AfterDisplacement, disk, members, Older
    <2>5. CASE Displace \/ Verify \/ Publish \/ AllPrepared \/ PrepareFails
      BY <1>1, <1>3, <2>1, <2>5 DEF Displace, Verify, Publish, AllPrepared, PrepareFails,
         AfterDisplacement, disk, members
    <2>6. CASE CreateIntent \/ FillIntent
      BY <1>1, <1>3, <2>1, <2>6 DEF CreateIntent, FillIntent, disk, members, Older
    <2> QED
      BY <2>2, <2>3, <2>4, <2>5, <2>6 DEF Prepare
  <1>4. CASE CreateIntent \/ FillIntent
    <2>1. /\ slot' = slot /\ fd' = fd
          /\ \A f \in File : change'[f].before = change[f].before /\ change'[f].after = change[f].after
      BY <1>4 DEF CreateIntent, FillIntent, TypeOK, Change
    <2>2. \A f \in File : PrivateFile(f)'
      BY <2>1, PrivateKept
    <2> QED
      BY <1>1, <1>4, <2>1, <2>2 DEF CreateIntent, FillIntent, members, Older
  <1>5. CASE Displace /\ ~UNCHANGED disk
    <2>1. /\ slot'[cur].before = slot[cur].name /\ slot'[cur].name = NULL
          /\ slot'[cur].rolled = slot[cur].rolled /\ slot[cur].name # NULL
      BY <1>1, <1>5 DEF Displace, TypeOK, Slot
    <2>2. fd'[cur] = IF fd[cur] = "name" THEN "before" ELSE fd[cur]
      BY <1>1, <1>5 DEF Displace, Moved, TypeOK
    <2>3. slot[cur].before = NULL /\ slot[cur].name \in Older(cur) /\ slot[cur].rolled = NULL /\ PrivateFile(cur)
      BY <1>1, <1>5 DEF Displace
    <2>4. fd[cur] \in {NULL, "name"}
      BY <1>1, <1>5, <2>3 DEF PrivateFile, TypeOK, Displace
    <2>5. change' = change /\ pc' = "verify" /\ UNCHANGED <<members, cur>>
      BY <1>5 DEF Displace
    <2>6. PrivateFile(cur)'
      BY <2>1, <2>2, <2>3, <2>4, <2>5 DEF PrivateFile, Older
    <2> QED
      BY <1>1, <1>2, <1>5, <2>1, <2>3, <2>5, <2>6 DEF Displace, members
  <1>6. CASE Publish /\ ~UNCHANGED disk
    <2>1. slot'[cur].before = slot[cur].before /\ slot'[cur].rolled = slot[cur].rolled /\ slot[cur].name = NULL
      BY <1>1, <1>6 DEF Publish, TypeOK, Slot
    <2>2. slot[cur].rolled = NULL /\ PrivateFile(cur)
      BY <1>1, <1>6 DEF Publish
    <2>3. fd[cur] \in {NULL, "before"}
      BY <1>1, <1>6, <2>1, <2>2 DEF PrivateFile, TypeOK, Publish
    <2>4. change' = change /\ fd' = fd /\ pc' = "prepare" /\ UNCHANGED <<members, cur>>
      BY <1>6 DEF Publish
    <2>5. PrivateFile(cur)'
      BY <2>1, <2>2, <2>3, <2>4 DEF PrivateFile, Older
    <2> QED
      BY <1>1, <1>2, <1>6, <2>1, <2>2, <2>4, <2>5 DEF Publish, members
  <1> QED
    BY <1>3, <1>4, <1>5, <1>6 DEF Prepare, NextParticipant, Check, WriteCopies, Verify, AllPrepared,
       PrepareFails

\* The recovery of one change.
LEMMA RecoverPrivate ==
    ASSUME TypeOK, Members, PrivateNames, Recover
    PROVE  PrivateNames'
  <1> USE DEF PrivateNames, Undecided, Recovering, RecoverStep, PrepareStep, Compared
  <1>1. pc \in RecoverStep /\ cur \in File
    BY RecoverMoves DEF TypeOK
  <1>2. \A f \in File : f # cur => PrivateFile(f)' /\ slot'[f] = slot[f]
    BY OthersPrivate
  <1>3. ASSUME RecoverFails \/ Goto(back), \A f \in File : PrivateFile(f)'
        PROVE  PrivateNames'
    <2>1. back = "open" => cur \notin enlisted /\ enlisted \subseteq File /\ prepared = {}
      BY <1>1 DEF Members, Recovering, TypeOK
    <2>2. back = "open" => enlisted' = enlisted /\ prepared' = prepared
      BY <1>3 DEF RecoverFails, Goto, members
    <2> QED
      BY <1>1, <1>2, <1>3, <2>1, <2>2 DEF RecoverFails, Goto, TypeOK, Recovering, Older
  <1>4. RecoverFails \/ Goto(back) \/ UNCHANGED <<members, back, cur>>
    BY RecoverMoves
  <1>5. ASSUME UNCHANGED <<members, back, cur>>, pc' \in RecoverStep
        PROVE  Undecided' => \A f \in enlisted' : slot'[f].rolled = NULL /\ slot'[f].before = NULL
    BY <1>1, <1>2, <1>5 DEF Members, members, TypeOK
  <1>6. CASE UNCHANGED disk
    <2>1. \A f \in File : PrivateFile(f)'
      BY <1>6, PrivateKept DEF disk
    <2>2. CASE RecoverFails \/ Goto(back)
      BY <1>3, <2>1, <2>2
    <2>3. CASE pc' \in {"restore", "settle"}
      BY <1>4, <1>5, <2>1, <2>2, <2>3
    <2>4. CASE RecoverRead /\ seen' = slot[cur].name /\ pc' = "move" /\ UNCHANGED <<members, back, cur>>
      <3>1. ASSUME slot[cur].name = change[cur].after, slot[cur].name # NULL,
                   change[cur].before # change[cur].after
            PROVE  slot[cur].rolled = NULL
        BY <1>1, <3>1, OlderNotAfter DEF PrivateFile
      <3> QED
        BY <1>6, <1>5, <2>1, <2>4, <3>1 DEF disk
    <2>5. CASE RecoverRestore /\ seen' = slot[cur].before /\ pc' = "fill" /\ UNCHANGED <<members, back, cur>>
      BY <1>1, <1>6, <1>5, <2>1, <2>5 DEF PrivateFile, MustRestore, RecoverRestore, Goto, Older,
         disk
    <2> QED
      BY <1>6, <2>2, <2>3, <2>4, <2>5 DEF Recover, RecoverRead, RecoverMove, RecoverRestore, RecoverFill,
         RecoverSettles, RecoveryStepFails, Goto
  <1>7. CASE RecoverMove /\ ~UNCHANGED disk
    <2>1. /\ slot' = [slot EXCEPT ![cur].rolled = slot[cur].name, ![cur].name = NULL]
          /\ Moved(cur, "name", "rolled") /\ change' = change /\ pc' = "restore"
          /\ UNCHANGED <<members, back, cur>>
          /\ slot[cur].name # NULL
      BY <1>7 DEF RecoverMove, RecoverFails, Goto
    <2>2. /\ slot'[cur].before = slot[cur].before /\ slot'[cur].name = NULL
          /\ slot'[cur].rolled = slot[cur].name
          /\ fd'[cur] = IF fd[cur] = "name" THEN "rolled" ELSE fd[cur]
      BY <1>1, <2>1 DEF TypeOK, Slot, Moved
    <2>3. fd[cur] \in {NULL, "name", "before", "rolled"} /\ PrivateFile(cur)
      BY <1>1 DEF TypeOK
    <2>4. PrivateFile(cur)'
      BY <2>1, <2>2, <2>3 DEF PrivateFile, Older
    <2> QED
      BY <1>2, <1>5, <2>1, <2>4
  <1>8. CASE RecoverRestore /\ ~UNCHANGED disk
    <2>1. /\ slot'[cur].before = slot[cur].before /\ slot'[cur].name = Torn
          /\ slot'[cur].rolled = slot[cur].rolled /\ slot[cur].name = NULL
      BY <1>1, <1>8 DEF RecoverRestore, MustRestore, TypeOK, Slot
    <2>2. /\ fd' = fd /\ change' = change /\ pc' = "fill" /\ seen' = slot[cur].before
          /\ seen' # NULL /\ UNCHANGED <<members, back, cur>>
      BY <1>8 DEF RecoverRestore, MustRestore, Goto
    <2>3. PrivateFile(cur) /\ fd[cur] \in {NULL, "name", "before", "rolled"} /\ Torn # NULL
      BY <1>1, TextAssumption DEF TypeOK
    <2>4. PrivateFile(cur)' /\ slot[cur].before \in Older(cur)
      BY <2>1, <2>2, <2>3 DEF PrivateFile, Older
    <2> QED
      BY <1>2, <1>5, <2>2, <2>4 DEF Older
  <1>9. CASE RecoverFill /\ ~UNCHANGED disk
    <2>1. /\ slot'[cur].before = slot[cur].before /\ slot'[cur].rolled = slot[cur].rolled
          /\ slot'[cur].name = slot[cur].name \/ slot'[cur].name \in {seen, Torn}
          /\ fd'[cur] = fd[cur] \/ fd'[cur] = NULL
      BY <1>9, FillWrites
    <2>2. /\ change' = change /\ pc' = "settle" /\ UNCHANGED <<members, back, cur>> /\ seen \in Older(cur) \ {NULL}
          /\ Torn # NULL
      BY <1>9, TextAssumption DEF RecoverFill
    <2>3. PrivateFile(cur) /\ fd[cur] \in {NULL, "name", "before", "rolled"}
      BY <1>1 DEF TypeOK
    <2>4. PrivateFile(cur)'
      BY <2>1, <2>2, <2>3 DEF PrivateFile, Older
    <2> QED
      BY <1>2, <1>5, <2>2, <2>4
  <1>10. CASE RecoverSettles
    <2>1. \A f \in File : change'[f].before = change[f].before /\ change'[f].after = change[f].after
      BY <1>10 DEF RecoverSettles, TypeOK, Change
    <2>2. \A f \in File : PrivateFile(f)'
      BY <1>10, <2>1, PrivateKept DEF RecoverSettles
    <2> QED
      BY <1>3, <1>10, <2>2 DEF RecoverSettles
  <1> QED
    BY <1>6, <1>7, <1>8, <1>9, <1>10 DEF Recover, RecoverRead, RecoveryStepFails, RecoverFails, Goto

\* The editor writes where the file it has open lies.
LEMMA EditorPrivate == ASSUME TypeOK, PrivateNames, Editor PROVE PrivateNames'
  <1> USE DEF PrivateNames, EditorTouches
  <1>1. PICK f \in Edited : \/ \E x \in Foreign \cup {NULL} : EditorReplaces(f, x)
                            \/ EditorOpens(f)
                            \/ \E x \in Foreign : EditorWrites(f, x)
    BY DEF Editor
  <1>2. /\ f \in File /\ Torn # NULL /\ NULL \notin Foreign
        /\ fd[f] \in {NULL, "name", "before", "rolled"} /\ PrivateFile(f)
    BY <1>1, TextAssumption DEF TypeOK
  <1>3. EditorTouches(f) /\ UNCHANGED change
    BY <1>1 DEF EditorReplaces, EditorOpens, EditorWrites
  <1>4. \A g \in File \ {f} : slot'[g] = slot[g] /\ fd'[g] = fd[g]
    BY <1>1 DEF EditorReplaces, EditorOpens, EditorWrites, TypeOK
  <1>5. /\ PrivateFile(f)'
        /\ slot'[f].name = slot[f].name \/ slot'[f].name \in {NULL, Torn} \cup Foreign
        /\ slot[f].before = NULL => slot'[f].before = NULL
        /\ slot[f].rolled = NULL => slot'[f].rolled = NULL
    <2>1. ASSUME NEW x \in Foreign \cup {NULL}, EditorReplaces(f, x)
          PROVE  slot'[f] = [slot[f] EXCEPT !.name = x] /\ fd'[f] = NULL
      BY <1>2, <2>1 DEF EditorReplaces, TypeOK
    <2>2. CASE \E x \in Foreign \cup {NULL} : EditorReplaces(f, x)
      BY <1>2, <1>3, <2>1, <2>2 DEF PrivateFile, Older, TypeOK, Slot
    <2>3. CASE EditorOpens(f)
      <3>1. slot'[f] = [slot[f] EXCEPT !.name = Torn] /\ fd'[f] = "name"
        BY <1>2, <2>3 DEF EditorOpens, TypeOK
      <3> QED
        BY <1>2, <1>3, <3>1 DEF PrivateFile, Older, TypeOK, Slot
    <2>4. ASSUME NEW x \in Foreign, EditorWrites(f, x)
          PROVE  /\ slot'[f] = [slot[f] EXCEPT ![fd[f]] = x] /\ fd'[f] = NULL
                 /\ slot[f][fd[f]] # NULL /\ fd[f] \in {"name", "before", "rolled"}
      BY <1>2, <2>4 DEF EditorWrites, TypeOK, PrivateFile
    <2>5. CASE \E x \in Foreign : EditorWrites(f, x)
      BY <1>2, <1>3, <2>4, <2>5 DEF PrivateFile, Older, TypeOK, Slot
    <2> QED
      BY <1>1, <2>2, <2>3, <2>5
  <1>6. \A g \in File : PrivateFile(g)'
    BY <1>3, <1>4, <1>5, PrivateKept
  <1>7. \A g \in File : /\ slot[g].before = NULL => slot'[g].before = NULL
                        /\ slot[g].rolled = NULL => slot'[g].rolled = NULL
                        /\ slot[g].name \in Older(g) => slot'[g].name \in Older(g)
    BY <1>4, <1>5 DEF Older
  <1>8. enlisted \subseteq File /\ (pc \in PrepareStep \cup RecoverStep => cur \in File)
    BY DEF TypeOK
  <1>9. UNCHANGED <<change, pc, back, cur, seen, enlisted, prepared>>
    BY <1>3 DEF members
  <1> QED
    BY <1>6, <1>7, <1>8, <1>9 DEF Undecided, Recovering, Compared, PrepareStep, RecoverStep, Older

\* Every step keeps private names private.
LEMMA PrivateStep == TypeOK /\ Members /\ PrivateNames /\ [Next]_vars => PrivateNames'
  <1> SUFFICES ASSUME TypeOK, Members, PrivateNames, [Next]_vars PROVE PrivateNames'
    OBVIOUS
  <1> USE DEF PrivateNames, Undecided, Recovering, RecoverStep, Compared, PrepareStep
  <1>1. ASSUME slot' = slot, fd' = fd,
               \A f \in File : change'[f].before = change[f].before /\ change'[f].after = change[f].after
        PROVE  \A f \in File : PrivateFile(f)'
    BY <1>1, PrivateKept
  <1>2. CASE Outcome
    <2>1. /\ slot' = slot /\ fd' = fd /\ pc' \in {"mark", "undo", "rollback", "read", "idle"}
          /\ pc' = "read" => back' # "open"
          /\ \A f \in File : change'[f].before = change[f].before /\ change'[f].after = change[f].after
      BY <1>2 DEF Outcome, CommitLands, CancelCommit, Receipts, Undo, Return, Settle, disk, TypeOK, Change
    <2> QED
      BY <1>1, <2>1
  <1>3. CASE Restart
    <2>1. /\ UNCHANGED disk /\ pc' \in {"down", "startup", "read", "idle"}
          /\ pc' = "read" => back' # "open"
      BY <1>3 DEF Restart, Crash, StartBackend, Started, RecoverPending, Goto
    <2> QED
      BY <1>1, <2>1 DEF disk
  <1>4. CASE UNCHANGED vars
    BY <1>1, <1>4 DEF vars, Older
  <1> QED
    BY <1>2, <1>3, <1>4, BodyPrivate, PreparePrivate, RecoverPrivate, EditorPrivate DEF Next

-----------------------------------------------------------------------------
\* Withdrawing an aborted change

\* What a recovery takes for the outcome is what the receipt says.
LEMMA CommittedByReceipt ==
    ASSUME TypeOK, Members, Receipted, pc \in RecoverStep
    PROVE  Committed <=> change[cur].receipt
  <1>1. change[cur].receipt \in BOOLEAN /\ cur \in File
    BY DEF TypeOK, Change
  <1> QED
    BY <1>1 DEF Committed, Members, Receipted, Recovering

\* The steps of a recovery withdraw an aborted change.
LEMMA RecoverWithdraws ==
    ASSUME TypeOK, Receipted, RecoveryWithdraws, Displaced, PrivateNames, Recover
    PROVE  RecoveryWithdraws'
  <1> USE DEF RecoveryWithdraws, Withdrawn, RecoverStep
  <1>1. pc \in RecoverStep /\ cur \in File /\ touched' = touched
    BY RecoverMoves, OthersKept DEF TypeOK
  <1>2. change[cur].after # Torn /\ Torn # NULL
    BY <1>1, AfterNotTorn, TextAssumption
  <1>3. CASE pc' \notin {"move", "restore", "fill", "settle"}
    BY <1>3
  <1>4. CASE RecoverFails \/ Goto(back)
    BY <1>3, <1>4 DEF RecoverFails, Goto, TypeOK
  <1>5. CASE RecoverRead
    BY <1>1, <1>4, <1>5 DEF RecoverRead, Committed, disk
  <1>6. CASE RecoverMove
    <2>1. CASE Goto("restore") /\ UNCHANGED disk
      BY <1>1, <1>4, <1>6, <2>1 DEF RecoverMove, Goto, disk
    <2>2. CASE slot' = [slot EXCEPT ![cur].rolled = slot[cur].name, ![cur].name = NULL]
      <3>1. slot'[cur].name = NULL
        BY <1>1, <2>2 DEF TypeOK, Slot
      <3> QED
        BY <1>1, <1>6, <2>2, <3>1, <1>4 DEF RecoverMove, Goto
    <2> QED
      BY <1>4, <1>6, <2>1, <2>2 DEF RecoverMove
  <1>7. CASE RecoverRestore
    <2>1. CASE MustRestore
      <3>1. /\ slot'[cur].name = Torn /\ seen' = slot[cur].before /\ pc' = "fill"
            /\ fresh' = "empty" /\ UNCHANGED <<cur, change, fd>>
        BY <1>1, <1>7, <2>1 DEF RecoverRestore, TypeOK, Slot
      <3>2. fd[cur] # "name"
        BY <1>1, <2>1, TextAssumption DEF MustRestore, PrivateNames, PrivateFile, Slot, TypeOK
      <3> QED
        BY <1>1, <2>1, <3>1, <3>2 DEF MustRestore, Displaced
    <2>2. CASE ~MustRestore
      BY <1>1, <1>7, <2>2 DEF RecoverRestore, Goto, disk
    <2> QED
      BY <2>1, <2>2
  <1>8. CASE RecoverFill
    <2>1. fresh = "empty" => slot'[cur].name = seen
      BY <1>8, FillWrites
    <2> QED
      BY <1>1, <1>2, <1>8, <2>1 DEF RecoverFill, Goto
  <1>9. CASE RecoverSettles
    BY <1>4, <1>9 DEF RecoverSettles
  <1> QED
    BY <1>4, <1>5, <1>6, <1>7, <1>8, <1>9 DEF Recover, RecoveryStepFails

\* Every step keeps what the recovery has withdrawn.
LEMMA WithdrawnStep ==
    TypeOK /\ Receipted /\ RecoveryWithdraws /\ Displaced /\ PrivateNames /\ [Next]_vars
       => RecoveryWithdraws'
  <1> SUFFICES ASSUME TypeOK, Receipted, RecoveryWithdraws, Displaced, PrivateNames, [Next]_vars
               PROVE  RecoveryWithdraws'
    OBVIOUS
  <1> USE DEF RecoveryWithdraws, Withdrawn
  <1>1. CASE pc' \notin {"move", "restore", "fill", "settle"}
    BY <1>1
  <1>2. CASE Body
    BY <1>1, <1>2 DEF Body, Begin, Synchronize, Stage, OpenSavepoint, ReleaseSavepoint,
       RollbackToSavepoint, EndBody, AbortBody
  <1>3. CASE Prepare
    BY <1>1, <1>3 DEF Prepare, NextParticipant, Check, CreateIntent, FillIntent, WriteCopies, Displace,
       Verify, Publish, AllPrepared, PrepareFails, AfterDisplacement, Goto
  <1>4. CASE Outcome
    BY <1>1, <1>4 DEF Outcome, CommitLands, CancelCommit, Undo, Return, Settle
  <1>5. CASE Restart
    BY <1>1, <1>5 DEF Restart, Crash, StartBackend, Started, RecoverPending, Goto
  <1>6. CASE Editor
    <2>1. pc \in RecoverStep => cur \in File
      BY DEF TypeOK
    <2> QED
      BY <1>6, <2>1, EditorLeavesTrace, EditorAndFresh DEF FileKept, RecoverStep, Committed
  <1>7. CASE UNCHANGED vars
    BY <1>7 DEF vars, Committed
  <1> QED
    BY <1>2, <1>3, <1>4, <1>5, <1>6, <1>7, RecoverWithdraws DEF Next

-----------------------------------------------------------------------------
\* The file follows the receipt

\* What the property says of one file.
Follows(f) ==
    /\ change[f].receipt => change[f].mark # "aborted" /\ Published(f)
    /\ change[f].mark = "committed" => change[f].receipt
    /\ change[f].mark = "aborted" => Withdrawn(f)

\* The property file by file.
LEMMA FollowsEach == FileFollowsReceipt <=> \A f \in File : Follows(f)
  BY DEF FileFollowsReceipt, Follows, Published, Withdrawn

\* A step that leaves a file, or that gives it to the editor.
LEMMA FollowsKept ==
    ASSUME NEW f, Follows(f), slot'[f].name = slot[f].name, change'[f].before = change[f].before,
           change'[f].after = change[f].after, change'[f].receipt = change[f].receipt,
           change'[f].mark = change[f].mark, f \in touched => f \in touched'
    PROVE  Follows(f)'
  BY DEF Follows, Published, Withdrawn

\* A change without receipt and mark says nothing of its file.
LEMMA FollowsUndecided ==
    ASSUME NEW f, ~change'[f].receipt, change'[f].mark = "none"
    PROVE  Follows(f)'
  BY DEF Follows

\* The body of a transaction begins changes.
LEMMA BodyFollows == ASSUME TypeOK, FileFollowsReceipt, Body PROVE FileFollowsReceipt'
  <1>1. CASE UNCHANGED disk
    BY <1>1 DEF FileFollowsReceipt, disk
  <1>2. ASSUME NEW f \in File, NEW after, Stage(f, after) PROVE FileFollowsReceipt'
    <2>1. change'[f].receipt = FALSE /\ change'[f].mark = "none"
      BY <1>2 DEF Stage, TypeOK, Untouched
    <2>2. \A g \in File \ {f} : slot'[g] = slot[g] /\ change'[g] = change[g] /\ (g \in touched' <=> g \in touched)
      BY <1>2 DEF Stage, TypeOK
    <2>3. \A g \in File : Follows(g)'
      BY <2>1, <2>2, FollowsEach, FollowsKept, FollowsUndecided
    <2> QED
      BY <2>3 DEF FileFollowsReceipt, Follows, Published, Withdrawn
  <1> QED
    BY <1>1, <1>2 DEF Body, Begin, Synchronize, OpenSavepoint, ReleaseSavepoint, RollbackToSavepoint,
       EndBody, AbortBody

\* The file in hand of a transaction has neither receipt nor mark.
LEMMA PrepareFollows ==
    ASSUME TypeOK, Members, Receipted, FileFollowsReceipt, Prepare
    PROVE  FileFollowsReceipt'
  <1>1. touched' = touched /\ \A f \in File : f # cur => FileKept(f)
    BY OthersKept
  <1>2. CASE UNCHANGED disk
    BY <1>2 DEF FileFollowsReceipt, disk
  <1>3. CASE CreateIntent \/ FillIntent \/ Displace \/ Publish
    <2>1. pc \in PrepareStep /\ cur \in File /\ cur \in enlisted
      BY <1>3 DEF CreateIntent, FillIntent, Displace, Publish, PrepareStep, TypeOK, Members
    <2>2. ~change[cur].receipt /\ change[cur].mark = "none"
      BY <2>1 DEF Receipted, Undecided
    <2>3. change'[cur].receipt = change[cur].receipt /\ change'[cur].mark = change[cur].mark
      BY <1>3, <2>1 DEF CreateIntent, FillIntent, Displace, Publish, TypeOK, Change, disk
    <2>4. \A f \in File : Follows(f)'
      BY <1>1, <2>2, <2>3, FollowsEach, FollowsKept, FollowsUndecided DEF FileKept
    <2> QED
      BY <2>4 DEF FileFollowsReceipt, Follows, Published, Withdrawn
  <1> QED
    BY <1>2, <1>3 DEF Prepare, NextParticipant, Check, WriteCopies, Verify, AllPrepared, PrepareFails,
       Goto, disk

\* COMMIT gives receipts to files that are published.
LEMMA OutcomeFollows ==
    ASSUME TypeOK, Members, Receipted, PreparedPublished, FileFollowsReceipt, Outcome
    PROVE  FileFollowsReceipt'
  <1>1. CASE UNCHANGED disk
    BY <1>1 DEF FileFollowsReceipt, disk
  <1>2. CASE CommitLands \/ CancelCommit
    <2>1. change' = Receipts /\ slot' = slot /\ touched' = touched /\ pc = "commit"
      BY <1>2 DEF CommitLands, CancelCommit
    <2>2. rows = prepared /\ rows \subseteq enlisted
      BY <2>1 DEF Members, Undecided, TypeOK
    <2>3. ASSUME NEW f \in File, f \notin rows PROVE Follows(f)'
      <3>1. change'[f] = change[f]
        BY <2>1, <2>3 DEF Receipts
      <3> QED
        BY <2>1, <3>1, FollowsEach, FollowsKept
    <2>4. ASSUME NEW f \in File, f \in rows PROVE Follows(f)'
      <3>1. change'[f].receipt /\ change'[f].mark = change[f].mark /\ change'[f].after = change[f].after
        BY <2>1, <2>4 DEF Receipts, TypeOK, Change
      <3>2. change[f].mark = "none" /\ Published(f)
        BY <2>1, <2>2, <2>4 DEF Receipted, PreparedPublished
      <3> QED
        BY <2>1, <3>1, <3>2 DEF Follows, Published
    <2>5. \A f \in File : Follows(f)'
      BY <2>3, <2>4
    <2> QED
      BY <2>5 DEF FileFollowsReceipt, Follows, Published, Withdrawn
  <1> QED
    BY <1>1, <1>2 DEF Outcome, Undo, Return, Settle, disk

\* A recovery changes the file of an aborted change only, and marks it by its receipt.
LEMMA RecoverFollows ==
    ASSUME TypeOK, Members, Receipted, RecoveryWithdraws, FileFollowsReceipt, Recover
    PROVE  FileFollowsReceipt'
  <1>1. touched' = touched /\ \A f \in File : f # cur => FileKept(f)
    BY OthersKept
  <1>2. pc \in RecoverStep /\ cur \in File
    BY RecoverMoves DEF TypeOK
  <1>3. CASE UNCHANGED disk
    BY <1>3 DEF FileFollowsReceipt, disk
  <1>4. CASE RecoverFails
    BY <1>3, <1>4 DEF RecoverFails
  <1>5. CASE RecoverMove \/ RecoverRestore \/ RecoverFill
    <2>1. ~change[cur].receipt /\ change[cur].mark = "none"
      BY <1>2, <1>5, CommittedByReceipt DEF Receipted, RecoverMove, RecoverRestore, RecoverFill
    <2>2. change' = change
      BY <1>4, <1>5 DEF RecoverMove, RecoverRestore, RecoverFill, RecoverFails, disk
    <2>3. \A f \in File : Follows(f)'
      BY <1>1, <2>1, <2>2, FollowsEach, FollowsKept, FollowsUndecided DEF FileKept
    <2> QED
      BY <2>3 DEF FileFollowsReceipt, Follows, Published, Withdrawn
  <1>6. CASE RecoverSettles
    <2>1. /\ change'[cur].mark = IF Committed THEN "committed" ELSE "aborted"
          /\ change'[cur].receipt = change[cur].receipt
          /\ change'[cur].before = change[cur].before /\ change'[cur].after = change[cur].after
      BY <1>2, <1>6 DEF RecoverSettles, TypeOK, Change
    <2>2. slot' = slot /\ pc = "settle"
      BY <1>6 DEF RecoverSettles
    <2>3. change[cur].receipt <=> Committed
      BY <1>2, CommittedByReceipt
    <2>4. ASSUME NEW f \in File, f = cur PROVE Follows(f)'
      <3>1. CASE Committed
        BY <1>1, <2>1, <2>2, <2>3, <2>4, <3>1, FollowsEach DEF Follows, Published
      <3>2. CASE ~Committed
        BY <1>1, <2>1, <2>2, <2>3, <2>4, <3>2 DEF Follows, RecoveryWithdraws, Withdrawn
      <3> QED
        BY <3>1, <3>2
    <2>5. \A f \in File : Follows(f)'
      BY <1>1, <2>4, FollowsEach, FollowsKept DEF FileKept
    <2> QED
      BY <2>5 DEF FileFollowsReceipt, Follows, Published, Withdrawn
  <1> QED
    BY <1>3, <1>4, <1>5, <1>6 DEF Recover, RecoverRead, RecoveryStepFails, Goto, disk

\* The editor takes a file over.
LEMMA EditorFollows == ASSUME TypeOK, FileFollowsReceipt, Editor PROVE FileFollowsReceipt'
  <1>1. ASSUME NEW f \in File PROVE Follows(f)'
    <2>1. CASE FileKept(f)
      BY <2>1, EditorLeavesTrace, FollowsEach, FollowsKept DEF FileKept
    <2>2. CASE f \in touched'
      BY <2>2, EditorLeavesTrace, FollowsEach DEF Follows, Published, Withdrawn
    <2> QED
      BY <2>1, <2>2, EditorLeavesTrace
  <1> QED
    BY <1>1 DEF FileFollowsReceipt, Follows, Published, Withdrawn

\* Every step keeps files as their receipts say.
LEMMA FollowsStep == IInv /\ [Next]_vars => FileFollowsReceipt'
  <1> SUFFICES ASSUME IInv, [Next]_vars PROVE FileFollowsReceipt'
    OBVIOUS
  <1> USE DEF IInv
  <1>1. CASE UNCHANGED vars
    BY <1>1 DEF FileFollowsReceipt, vars
  <1>2. CASE Restart
    BY <1>2 DEF FileFollowsReceipt, Restart, Crash, StartBackend, Started, RecoverPending, Goto, disk
  <1> QED
    BY <1>1, <1>2, BodyFollows, PrepareFollows, OutcomeFollows, RecoverFollows, EditorFollows DEF Next

-----------------------------------------------------------------------------
\* Theorems

\* The inductive invariant.
LEMMA Inductive ==
    /\ Init => IInv
    /\ IInv /\ [Next]_vars => IInv'
  <1>1. Init => TypeOK
    <2> SUFFICES ASSUME Init PROVE TypeOK
      OBVIOUS
    <2>1. PICK text \in [File -> Text \cup {NULL}] :
             slot = [f \in File |-> [name |-> text[f], before |-> NULL, rolled |-> NULL]]
      BY DEF Init
    <2>2. slot \in [File -> Slot]
      BY <2>1 DEF Slot, MaybeText
    <2>3. change \in [File -> Change]
      BY DEF Init, Untouched, Change, MaybeText
    <2> QED
      BY <2>2, <2>3 DEF Init, TypeOK, Pc, PrepareStep, RecoverStep, MaybeText
  <1>2. Init => /\ Members /\ Receipted /\ PreparedPublished /\ RecoveryWithdraws
                /\ Displaced /\ FileFollowsReceipt
    BY DEF Init, Members, Receipted, PreparedPublished, RecoveryWithdraws, Displaced, FileFollowsReceipt,
           Untouched, Undecided, Recovering, PrepareStep, RecoverStep, Compared
  <1>3. Init => PrivateNames
    <2> SUFFICES ASSUME Init PROVE PrivateNames
      OBVIOUS
    <2>1. \A f \in File : slot[f].before = NULL /\ slot[f].rolled = NULL /\ fd[f] = NULL
      BY DEF Init
    <2> QED
      BY <2>1 DEF Init, PrivateNames, PrivateFile, Older, Undecided, Recovering, RecoverStep, Compared,
                  PrepareStep
  <1>4. IInv /\ [Next]_vars => IInv'
    BY TypeStep, MembersStep, ReceiptedStep, PublishedStep, WithdrawnStep, DisplacedStep, PrivateStep,
       FollowsStep DEF IInv
  <1> QED
    BY <1>1, <1>2, <1>3, <1>4 DEF IInv

\* The types of files, intents, receipts and of the backend's position.
THEOREM MaterialTypeCorrect == Spec => []TypeOK
  <1>1. IInv => TypeOK
    BY DEF IInv
  <1> QED
    BY Inductive, <1>1, PTL DEF Spec

\* Recovery follows the receipt, whatever crashed and whatever the editor did.
THEOREM FileAlwaysFollowsReceipt == Spec => []FileFollowsReceipt
  <1>1. IInv => FileFollowsReceipt
    BY DEF IInv
  <1> QED
    BY Inductive, <1>1, PTL DEF Spec

\* The caller of a transaction is told how it ended.
THEOREM CallerAlwaysToldTruth == Spec => []CallerToldTruth
  <1>1. IInv => CallerToldTruth
    BY DEF IInv, Receipted, CallerToldTruth
  <1> QED
    BY Inductive, <1>1, PTL DEF Spec

-----------------------------------------------------------------------------
\* Nothing is lost

\* A step that moves a text to a free private name, or puts one where none was.
LEMMA HeldKept ==
    ASSUME TypeOK, Members, PrivateNames, RecoveryWithdraws, Prepare \/ Recover,
           NEW f \in File, change[f].before # change[f].after
    PROVE  Held(f) \ WrittenOver(f) \subseteq Held(f)'
  <1>1. CASE slot'[f] = slot[f]
    BY <1>1 DEF Held
  <1>2. CASE Displace /\ f = cur
    <2>1. slot[f].before = NULL
      BY <1>2 DEF Displace, PrivateNames, Compared
    <2>2. \/ slot' = slot
          \/ slot'[f].before = slot[f].name /\ slot'[f].rolled = slot[f].rolled
      BY <1>2 DEF Displace, TypeOK, Slot, disk
    <2> QED
      BY <1>1, <2>1, <2>2 DEF Held
  <1>3. CASE Publish /\ f = cur
    <2>1. \/ slot' = slot
          \/ slot[f].name = NULL /\ slot'[f].before = slot[f].before /\ slot'[f].rolled = slot[f].rolled
      BY <1>3 DEF Publish, TypeOK, Slot, disk
    <2> QED
      BY <1>1, <2>1 DEF Held
  <1>4. CASE RecoverMove /\ f = cur
    <2>1. \/ slot' = slot
          \/ /\ slot'[f].rolled = slot[f].name /\ slot'[f].before = slot[f].before
             /\ pc = "move" /\ seen # NULL /\ seen = change[f].after
      BY <1>4 DEF RecoverMove, RecoverFails, Goto, TypeOK, Slot, disk
    <2> QED
      BY <1>1, <1>4, <2>1 DEF Held, PrivateNames
  <1>5. CASE RecoverRestore /\ f = cur
    <2>1. \/ slot'[f].name = slot[f].name
          \/ slot[f].name \in {NULL, Torn}
      BY <1>5 DEF RecoverRestore, MustRestore, disk, TypeOK, Slot
    <2>2. slot'[f].before = slot[f].before /\ slot'[f].rolled = slot[f].rolled
      BY <1>5 DEF RecoverRestore, disk, TypeOK, Slot
    <2> QED
      BY <2>1, <2>2 DEF Held
  <1>6. CASE RecoverFill /\ f = cur
    <2>1. slot'[f].before = slot[f].before /\ slot'[f].rolled = slot[f].rolled
      BY <1>6, FillWrites
    <2>2. \/ slot'[f].name = slot[f].name
          \/ slot[f].name = Torn
          \/ WrittenOver(f) = {slot[f].name}
      <3>1. pc = "fill" /\ pc' = "settle" /\ fresh \in {"none", "empty", "shared"}
        BY <1>6 DEF RecoverFill, TypeOK
      <3> QED
        BY <1>6, <3>1, FillWrites DEF WrittenOver, RecoveryWithdraws
    <2> QED
      BY <2>1, <2>2 DEF Held
  <1>7. CASE f # cur
    BY <1>1, <1>7, OthersKept DEF FileKept
  <1> QED
    BY <1>1, <1>2, <1>3, <1>4, <1>5, <1>7, <1>6 DEF Prepare, NextParticipant, Check, CreateIntent, FillIntent,
       WriteCopies, Verify, AllPrepared, PrepareFails, Recover, RecoverRead, RecoverSettles,
       RecoveryStepFails, RecoverFails, Goto, disk

\* No step of the backend removes the last copy of a text, of the editor's or its
\* own, other than what was saved in place into a file that a restore is filling.
THEOREM NoTextIsLost == Spec => NothingLost
  <1> DEFINE KeepsTexts == Prepare \/ Outcome \/ Recover \/ Restart =>
                 \A f \in File : change[f].before # change[f].after =>
                                    Held(f) \ WrittenOver(f) \subseteq Held(f)'
  <1>1. IInv /\ [Next]_vars => [KeepsTexts]_vars
    <2> SUFFICES ASSUME IInv, [Next]_vars,
                        Prepare \/ Outcome \/ Recover \/ Restart,
                        NEW f \in File, change[f].before # change[f].after
                 PROVE  Held(f) \ WrittenOver(f) \subseteq Held(f)'
      OBVIOUS
    <2>1. CASE Outcome \/ Restart
      <3>1. slot' = slot
        BY <2>1 DEF Outcome, CommitLands, CancelCommit, Undo, Return, Settle, Restart, Crash,
           StartBackend, Started, RecoverPending, Goto, disk
      <3> QED
        BY <3>1 DEF Held
    <2> QED
      BY <2>1, HeldKept DEF IInv
  <1>2. NothingLost <=> [][KeepsTexts]_vars
    BY DEF NothingLost
  <1> HIDE DEF KeepsTexts
  <1> QED
    BY Inductive, <1>1, <1>2, PTL DEF Spec
=============================================================================
