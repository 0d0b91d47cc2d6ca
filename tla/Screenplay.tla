----------------------------- MODULE Screenplay -----------------------------
(* One screenplay project: immutable revisions of its deliverables, the heads *)
(* the user has accepted, working copies, review decisions and finalization   *)
(* (sqlite_screenplay_v2_repository.py), and agent tasks that project one     *)
(* candidate from what they read (request_compiler.py, revision_projector.py).*)
(* Windows send commands with the revisions they have seen, lose answers and  *)
(* send again; tasks pause, resume, and their executors may outlive them.     *)
(* The roles above the scene list are settled and left out.                   *)
EXTENDS Naturals, Sequences

CONSTANTS
    Client,        \* windows whose commands are delayed or lose their answers
    Task,          \* agent tasks
    Episode,       \* episodes of the structure
    Issue,         \* issues a review may raise
    Delayed,       \* kinds of commands they send
    Edited,        \* roles the author keeps a working copy of
    MaxRevisions,  \* bound on the revisions ever created
    Author,        \* the author, as the source of an episode
    NULL

Role == {"sceneList", "screenplayDraft", "review"}
EpisodeRole == {"sceneList", "screenplayDraft"}

ASSUME ScreenplayAssumption ==
    /\ Edited \subseteq Role
    /\ MaxRevisions \in Nat \ {0}

VARIABLES
    project,    \* lifecycle and completion_source, NULL once deleted
    revisions,  \* every revision in order of creation, NULL when truncated
    head,       \* the accepted revision of each role
    accepted,   \* revisions with an acceptance event
    decision,   \* what the author decided on each issue of each review
    finalized,  \* finalization events: pairs of draft and review
    copy,       \* the working copy of each role
    request,    \* the command each window waits on, or how the last one ended
    receipt,    \* windows whose command has its receipt
    fresh,      \* windows whose expected revisions are the present ones
    task,       \* the row of each task, NULL when there is none
    executing   \* tasks with an executor at work

vars == <<project, revisions, head, accepted, decision, finalized, copy,
          request, receipt, fresh, task, executing>>
aggregate == <<project, revisions, head, accepted, decision, finalized, copy>>
windows == <<request, receipt, fresh>>
tasks == <<task, executing>>

Rev == 1..MaxRevisions
\* What an episode was written from: a scene list, or whatever the author had.
Source == Rev \cup {Author}
Content == [episodes : UNION {[S -> Source] : S \in SUBSET Episode},
            complete : BOOLEAN, reviews : Rev \cup {NULL}, issues : SUBSET Issue]
Revision == [role : Role, task : Task \cup {NULL},
             input : UNION {[S -> Rev] : S \in SUBSET Role}, content : Content]
Status == {"pending", "planned", "settled"}
Request == [kind : {"rename", "archive", "restore", "delete"}]
    \cup [kind : {"accept"}, revision : Rev]
    \cup [kind : {"copy"}, revision : Rev, role : Edited]
    \cup [kind : {"edit"}, role : Edited, content : Content]
    \cup [kind : {"publish"}, role : Edited]
    \cup [kind : {"adjudicate"}, review : Rev, issue : Issue, status : Status]
    \cup [kind : {"finalize"}, draft : Rev, review : Rev]
Ended == [kind : {"ok", "refused"}]
TaskRow == [status : {"running", "paused", "refused", "ended"}, target : Role,
            scope : UNION {[S -> Rev] : S \in SUBSET Role},
            selected : SUBSET Episode]

\* No row, role, text or number is the absence of one.
ASSUME NullAssumption == NULL \notin Revision \cup Role \cup Content \cup Rev

TypeOK ==
    /\ project \in [lifecycle : {"active", "archived"}, completed : BOOLEAN] \cup {NULL}
    /\ revisions \in Seq(Revision \cup {NULL}) /\ Len(revisions) <= MaxRevisions
    /\ head \in [Role -> Rev \cup {NULL}]
    /\ accepted \subseteq Rev
    /\ decision \in [Rev \X Issue -> Status]
    /\ finalized \subseteq Rev \X Rev
    /\ copy \in [Role -> Content \cup {NULL}]
    /\ request \in [Client -> Request \cup Ended]
    /\ receipt \subseteq Client
    /\ fresh \subseteq Client
    /\ task \in [Task -> TaskRow \cup {NULL}]
    /\ executing \subseteq Task

Downstream == [sceneList |-> {"screenplayDraft", "review"},
               screenplayDraft |-> {"review"}, review |-> {}]
Prerequisite == [sceneList |-> NULL, screenplayDraft |-> "sceneList",
                 review |-> "screenplayDraft"]
InputRoles == [sceneList |-> {}, screenplayDraft |-> {"sceneList"},
               review |-> {"sceneList", "screenplayDraft"}]

Existing == {r \in DOMAIN revisions : revisions[r] # NULL}
IsHead(r) == r \in Existing /\ head[revisions[r].role] = r
Written(by, S, complete) ==
    [episodes |-> [e \in S |-> by], complete |-> complete,
     reviews |-> NULL, issues |-> {}]

\* A project whose first scene list has been accepted.
Init ==
    /\ project = [lifecycle |-> "active", completed |-> FALSE]
    /\ revisions = <<[role |-> "sceneList", task |-> NULL, input |-> <<>>,
                      content |-> Written(Author, Episode, FALSE)]>>
    /\ head = [r \in Role |-> IF r = "sceneList" THEN 1 ELSE NULL]
    /\ accepted = {1}
    /\ decision = [p \in Rev \X Issue |-> "pending"]
    /\ finalized = {}
    /\ copy = [r \in Role |-> NULL]
    /\ request = [c \in Client |-> [kind |-> "ok"]]
    /\ receipt = {} /\ fresh = {}
    /\ task = [t \in Task |-> NULL]
    /\ executing = {}

-----------------------------------------------------------------------------
(* Commands. A window builds one from the workspace it has just read; it is   *)
(* processed at once, or late: after others, and again until an answer comes. *)

Waiting(c) == request[c].kind \notin {"ok", "refused"}

\* What the author may turn a working copy into.
Edits(role) ==
    CASE role = "sceneList" ->
           {Written(Author, S, FALSE) : S \in SUBSET Episode \ {{}}}
      [] role = "screenplayDraft" ->
           {Written(Author, Episode, b) : b \in BOOLEAN}
      [] OTHER -> {[copy[role] EXCEPT !.issues = S] : S \in SUBSET Issue}

\* The commands the present workspace offers.
Offered ==
    IF project = NULL THEN {} ELSE
    [kind : {"rename", "archive", "restore", "delete"}]
    \cup [kind : {"accept"}, revision : {r \in Existing : ~IsHead(r)}]
    \cup (UNION {[kind : {"copy"}, revision : {r}, role : {revisions[r].role}] :
                   r \in {s \in Existing : revisions[s].role \in Edited}})
    \cup (UNION {[kind : {"edit"}, role : {role}, content : Edits(role)] :
                   role \in {s \in Edited : copy[s] # NULL}})
    \cup [kind : {"publish"}, role : {s \in Edited : copy[s] # NULL}]
    \cup (UNION {[kind : {"adjudicate"}, review : {r},
                  issue : revisions[r].content.issues, status : Status] :
                   r \in {s \in Existing : s = head["review"]}})
    \cup [kind : {"finalize"}, draft : {head["screenplayDraft"]} \ {NULL},
          review : {head["review"]} \ {NULL}]

CopyKind == {"copy", "edit", "publish"}

\* prepare_session_owner_deletion refuses while a turn or a task is not over.
Over(t) == task[t] # NULL /\ task[t].status \in {"refused", "ended"}
MayDelete == \A t \in Task : task[t] # NULL => Over(t)

Active == project # NULL /\ project.lifecycle = "active"

\* The prerequisite is accepted, in the revision the candidate was made from.
InputsStand(r) ==
    LET role == revisions[r].role IN
    Prerequisite[role] # NULL =>
        /\ head[Prerequisite[role]] # NULL
        /\ Prerequisite[role] \in DOMAIN revisions[r].input
        /\ revisions[r].input[Prerequisite[role]] = head[Prerequisite[role]]

ReviewsHead(r) == revisions[r].content.reviews = head["screenplayDraft"]

\* Slip: finalizes while issues are still planned.
FinalizesPlanned(d, r) ==
    /\ head["screenplayDraft"] = d /\ head["review"] = r
    /\ revisions[d].content.complete
    /\ ReviewsHead(r)
    /\ \A i \in revisions[r].content.issues : decision[r, i] # "pending"
    /\ ~project.completed

\* derive_review_state with the hard checks its caller passes: none.
CanFinalize(d, r) ==
    /\ head["screenplayDraft"] = d /\ head["review"] = r
    /\ revisions[d].content.complete
    /\ ReviewsHead(r)
    /\ \A i \in revisions[r].content.issues : decision[r, i] = "settled"
    /\ ~project.completed

\* The checks of command q, sent by a window that expects the present revisions
\* (current): of the project, of the working copy, or of both.
Admissible(q, current) ==
    /\ project # NULL
    /\ current
    /\ q.kind \notin {"archive", "restore", "delete"} => Active
    /\ CASE q.kind = "delete" -> MayDelete
         [] q.kind = "accept" -> q.revision \in Existing /\ InputsStand(q.revision)
         [] q.kind = "copy" -> q.revision \in Existing
         [] q.kind = "adjudicate" ->
              /\ ~project.completed
              /\ head["review"] = q.review
              /\ head["screenplayDraft"] # NULL
              /\ ReviewsHead(q.review)
              /\ q.issue \in revisions[q.review].content.issues
         [] q.kind = "finalize" -> CanFinalize(q.draft, q.review)
         [] OTHER -> TRUE

\* Revisions of project and working copies are only ever compared, so a window
\* either expects the present ones or one that is gone for good. An edit expects
\* the working copy's alone, the other commands the project's.
Current == {c \in fresh : request[c].kind = "edit"}
CopyCurrent(role) ==
    {c \in fresh : request[c].kind \in CopyKind => request[c].role # role}

Bumps == fresh' = Current
BumpsCopy(role) == fresh' = CopyCurrent(role)

Rename(q) ==
    /\ q.kind = "rename"
    /\ Bumps
    /\ UNCHANGED <<aggregate, task>>

\* The lifecycle each command sets.
Lifecycle == [archive |-> "archived", restore |-> "active"]

SetLifecycle(q) ==
    /\ q.kind \in {"archive", "restore"}
    /\ IF project.lifecycle = Lifecycle[q.kind]
       THEN UNCHANGED <<project, fresh>>
       ELSE project' = [project EXCEPT !.lifecycle = Lifecycle[q.kind]] /\ Bumps
    /\ UNCHANGED <<revisions, head, accepted, decision, finalized, copy, task>>

\* The cascade takes every row of the project.
Delete(q) ==
    /\ q.kind = "delete"
    /\ project' = NULL
    /\ revisions' = <<>>
    /\ head' = [r \in Role |-> NULL]
    /\ accepted' = {} /\ finalized' = {}
    /\ decision' = [p \in Rev \X Issue |-> "pending"]
    /\ copy' = [r \in Role |-> NULL]
    /\ fresh' = {}
    /\ task' = [t \in Task |-> NULL]

\* Slip: keeps the downstream heads.
KeepsDownstream(r) == [head EXCEPT ![revisions[r].role] = r]

\* The heads downstream of an accepted revision go.
NewHeads(r) ==
    [role \in Role |->
        IF role = revisions[r].role THEN r
        ELSE IF role \in Downstream[revisions[r].role] THEN NULL ELSE head[role]]

Accept(q) ==
    /\ q.kind = "accept"
    /\ head' = NewHeads(q.revision)
    /\ accepted' = accepted \cup {q.revision}
    /\ project' = [project EXCEPT !.completed = FALSE]
    /\ Bumps
    /\ UNCHANGED <<revisions, decision, finalized, copy, task>>

CopyFrom(q) ==
    /\ q.kind = "copy"
    /\ copy' = [copy EXCEPT ![q.role] = revisions[q.revision].content]
    /\ BumpsCopy(q.role)
    /\ UNCHANGED <<project, revisions, head, accepted, decision, finalized, task>>

EditCopy(q) ==
    /\ q.kind = "edit"
    /\ copy' = [copy EXCEPT ![q.role] = q.content]
    /\ BumpsCopy(q.role)
    /\ UNCHANGED <<project, revisions, head, accepted, decision, finalized, task>>

\* The author answers for every episode of what he publishes.
Authored(content) ==
    [content EXCEPT !.episodes = [e \in DOMAIN content.episodes |-> Author]]

CurrentInputs(role) ==
    [s \in {r \in Role : r = Prerequisite[role] /\ head[r] # NULL} |-> head[s]]

Publish(q) ==
    /\ q.kind = "publish"
    /\ Len(revisions) < MaxRevisions
    /\ revisions' = Append(revisions,
         [role |-> q.role, task |-> NULL, input |-> CurrentInputs(q.role),
          content |-> Authored(copy[q.role])])
    /\ fresh' = Current \cap CopyCurrent(q.role)
    /\ UNCHANGED <<project, head, accepted, decision, finalized, copy, task>>

Adjudicate(q) ==
    /\ q.kind = "adjudicate"
    /\ decision' = [decision EXCEPT ![<<q.review, q.issue>>] = q.status]
    /\ project' = [project EXCEPT !.completed = FALSE]
    /\ Bumps
    /\ UNCHANGED <<revisions, head, accepted, finalized, copy, task>>

Finalize(q) ==
    /\ q.kind = "finalize"
    /\ finalized' = finalized \cup {<<q.draft, q.review>>}
    /\ project' = [project EXCEPT !.completed = TRUE]
    /\ Bumps
    /\ UNCHANGED <<revisions, head, accepted, decision, copy, task>>

Take(q) ==
    \/ Rename(q) \/ SetLifecycle(q) \/ Delete(q) \/ Accept(q) \/ CopyFrom(q)
    \/ EditCopy(q) \/ Publish(q) \/ Adjudicate(q) \/ Finalize(q)

\* Deletion takes the receipts of all commands before it.
Kept(q) == IF q.kind = "delete" THEN {} ELSE receipt

TakeAtOnce(q) ==
    /\ Admissible(q, TRUE)
    /\ Take(q)
    /\ receipt' = Kept(q)
    /\ UNCHANGED <<request, executing>>

Send(c, q) ==
    /\ ~Waiting(c)
    /\ request' = [request EXCEPT ![c] = q]
    /\ fresh' = fresh \cup {c}
    /\ UNCHANGED <<aggregate, receipt, tasks>>

\* Slip: checks before it looks for the receipt.
ChecksFirst(c) == Waiting(c)

\* find_command_receipt comes first: a command with a receipt only replays it.
Unreplayed(c) == Waiting(c) /\ c \notin receipt

\* update_working_copy keeps no receipt: when its answer is lost, the next
\* attempt meets a working copy revision it does not expect.
TakeLate(c) ==
    LET q == request[c] IN
    /\ Unreplayed(c)
    /\ Admissible(q, c \in fresh)
    /\ Take(q)
    /\ receipt' = Kept(q) \cup (IF q.kind = "edit" THEN {} ELSE {c})
    /\ UNCHANGED <<request, executing>>

Answered(c, how) ==
    /\ request' = [request EXCEPT ![c] = [kind |-> how]]
    /\ receipt' = receipt \ {c} /\ fresh' = fresh \ {c}
    /\ UNCHANGED <<aggregate, tasks>>

\* The answer arrives, be it the first or that of a replay.
Answer(c) == Waiting(c) /\ c \in receipt /\ Answered(c, "ok")

\* An AppError: nothing changes, the window shows it and reads again.
Refuse(c) ==
    /\ Unreplayed(c)
    /\ ~Admissible(request[c], c \in fresh)
    /\ Answered(c, "refused")

-----------------------------------------------------------------------------
(* An agent task: its scope is frozen when it is compiled, its projection    *)
(* commits one candidate of all it read, if that still stands.               *)

MayStart(t) == \A u \in Task : task[u] # NULL => task[u].status # "running"

Available(target) ==
    IF target = "sceneList" THEN Episode
    ELSE DOMAIN revisions[head["sceneList"]].content.episodes

Compile(t, target, revise, selected) ==
    /\ Active
    /\ task[t] = NULL /\ t \notin executing /\ MayStart(t)
    /\ \A s \in InputRoles[target] : head[s] # NULL
    /\ revise => head[target] # NULL
    /\ IF target \in EpisodeRole
       THEN selected # {} /\ selected \subseteq Available(target)
       ELSE selected = {}
    /\ LET baseline == (revise \/ target \in EpisodeRole) /\ head[target] # NULL
           read == InputRoles[target] \cup (IF baseline THEN {target} ELSE {}) IN
       task' = [task EXCEPT ![t] =
         [status |-> "running", target |-> target,
          scope |-> [s \in read |-> head[s]], selected |-> selected]]
    /\ executing' = executing \cup {t}
    /\ UNCHANGED <<aggregate, windows>>

\* The projection receipt, written with the revision.
Projected(t) == \E r \in Existing : revisions[r].task = t

\* The replay comes before every check.
Unprojected(t) == ~Projected(t)

\* Every revision read, and the baseline of the episodes, is still a head.
ScopeStands(t) == \A s \in DOMAIN task[t].scope : head[s] = task[t].scope[s]

\* Slip: projects without asking for the project's lifecycle.
ProjectsAnyway(t) == task[t] # NULL /\ project # NULL /\ ScopeStands(t)

MayProject(t) == task[t] # NULL /\ Active /\ ScopeStands(t)

\* The episodes of one map over those of another.
Merged(own, older) ==
    [e \in DOMAIN own \cup DOMAIN older |-> IF e \in DOMAIN own THEN own[e] ELSE older[e]]

\* Slip: merges over the newest draft, be it accepted or not.
MergesNewest(t) ==
    LET row == task[t]
        source == IF row.target = "sceneList" THEN Author ELSE row.scope["sceneList"]
        earlier == {r \in Existing : revisions[r].role = row.target}
        own == [e \in row.selected |-> source] IN
    IF earlier # {}
    THEN Merged(own, revisions[CHOOSE r \in earlier : \A s \in earlier : s <= r].content.episodes)
    ELSE own

\* The episodes of this task over those of its baseline.
Episodes(t) ==
    LET row == task[t]
        source == IF row.target = "sceneList" THEN Author ELSE row.scope["sceneList"]
        own == [e \in row.selected |-> source] IN
    IF row.target \in DOMAIN row.scope
    THEN Merged(own, revisions[row.scope[row.target]].content.episodes)
    ELSE own

\* isComplete is TRUE for every draft.
Candidate(t, issues) ==
    LET row == task[t] IN
    [role |-> row.target, task |-> t, input |-> row.scope,
     content |->
        [episodes |-> IF row.target = "review" THEN <<>> ELSE Episodes(t),
         complete |-> row.target = "screenplayDraft",
         reviews |-> IF row.target = "review" THEN row.scope["screenplayDraft"] ELSE NULL,
         issues |-> issues]]

Project(t, issues) ==
    /\ t \in executing /\ Unprojected(t) /\ MayProject(t)
    /\ Len(revisions) < MaxRevisions
    /\ task[t].target # "review" => issues = {}
    /\ revisions' = Append(revisions, Candidate(t, issues))
    /\ UNCHANGED <<project, head, accepted, decision, finalized, copy, windows, tasks>>

\* The unit fails with a business invariant, and the task with it.
ProjectionRefused(t) ==
    /\ t \in executing /\ Unprojected(t) /\ ~MayProject(t)
    /\ executing' = executing \ {t}
    /\ task' = IF task[t] # NULL /\ task[t].status = "running"
               THEN [task EXCEPT ![t].status = "refused"] ELSE task
    /\ UNCHANGED <<aggregate, windows>>

\* Validation and final response after the projection, or a cancellation that
\* has drained the executor.
EndTask(t) ==
    /\ task[t] # NULL /\ task[t].status = "running"
    /\ task' = [task EXCEPT ![t].status = "ended"]
    /\ executing' = executing \ {t}
    /\ UNCHANGED <<aggregate, windows>>

\* The author, a systemic failure or the death of the process; or the recovery
\* of a lost lease, which does not stop the executor that lost it.
Pause(t) ==
    /\ task[t] # NULL /\ task[t].status = "running"
    /\ task' = [task EXCEPT ![t].status = "paused"]
    /\ executing' \in {executing, executing \ {t}}
    /\ UNCHANGED <<aggregate, windows>>

\* A paused task is canceled at once.
CancelPaused(t) ==
    /\ task[t] # NULL /\ task[t].status = "paused"
    /\ task' = [task EXCEPT ![t].status = "ended"]
    /\ UNCHANGED <<aggregate, windows, executing>>

Resume(t) ==
    /\ task[t] # NULL /\ task[t].status = "paused" /\ MayStart(t)
    /\ task' = [task EXCEPT ![t].status = "running"]
    /\ executing' = executing \cup {t}
    /\ UNCHANGED <<aggregate, windows>>

\* An executor that was left behind returns.
ExecutorEnds(t) ==
    /\ t \in executing /\ (task[t] # NULL => task[t].status # "running")
    /\ executing' = executing \ {t}
    /\ UNCHANGED <<aggregate, windows, task>>

\* Slip: truncates whatever is not a head.
DiscardsHistory(t) == {r \in Existing : revisions[r].task = t /\ ~IsHead(r)}

\* Candidates nobody has accepted go with the turn, the others are kept.
Discarded(t) ==
    {r \in Existing : revisions[r].task = t /\ ~IsHead(r) /\ r \notin accepted}

Truncate(t) ==
    /\ Over(t)
    /\ revisions' = [r \in DOMAIN revisions |->
         IF r \notin Existing \/ revisions[r].task # t THEN revisions[r]
         ELSE IF r \in Discarded(t) THEN NULL ELSE [revisions[r] EXCEPT !.task = NULL]]
    /\ task' = [task EXCEPT ![t] = NULL]
    /\ UNCHANGED <<project, head, accepted, decision, finalized, copy, windows, executing>>

-----------------------------------------------------------------------------
Window(c) ==
    \/ ~Waiting(c) /\ \E q \in {o \in Offered : o.kind \in Delayed} : Send(c, q)
    \/ TakeLate(c) \/ Answer(c) \/ Refuse(c)

Agent(t) ==
    \/ \E target \in Role, revise \in BOOLEAN, selected \in SUBSET Episode :
         Compile(t, target, revise, selected)
    \/ \E issues \in SUBSET Issue : Project(t, issues)
    \/ ProjectionRefused(t) \/ EndTask(t) \/ Pause(t) \/ Resume(t)
    \/ CancelPaused(t) \/ ExecutorEnds(t) \/ Truncate(t)

Next ==
    \/ \E q \in Offered : TakeAtOnce(q)
    \/ \E c \in Client : Window(c)
    \/ \E t \in Task : Agent(t)

Spec == Init /\ [][Next]_vars

-----------------------------------------------------------------------------
(* What must hold.                                                           *)

\* Every head stands on heads: its prerequisite is accepted, and whatever it
\* was made from besides its own predecessor is the head of its role
\* (accept_revision drops the heads downstream and checks the candidate's input).
HeadsBuildOnHeads ==
    \A role \in Role : head[role] # NULL =>
        /\ head[role] \in Existing /\ revisions[head[role]].role = role
        /\ Prerequisite[role] # NULL => head[Prerequisite[role]] # NULL
        /\ \A s \in DOMAIN revisions[head[role]].input \ {role} :
             revisions[head[role]].input[s] = head[s]

\* Each episode of the accepted draft that an agent wrote, in whatever task, was
\* written from the accepted scene list (the projector checks that all a task
\* read is still a head before it merges the baseline's episodes).
EpisodesFollowSceneList ==
    head["screenplayDraft"] # NULL =>
        LET episodes == revisions[head["screenplayDraft"]].content.episodes IN
        \A e \in DOMAIN episodes : episodes[e] \in {Author, head["sceneList"]}

\* A finished project stays what the author finished: its draft and review are
\* a finalized pair, the review is of that draft, the draft is marked complete
\* and every issue is settled (finalize_project, adjudicate_review, accept_revision).
FinalizedStands ==
    project # NULL /\ project.completed =>
        LET d == head["screenplayDraft"]
            r == head["review"] IN
        /\ <<d, r>> \in finalized
        /\ revisions[d].content.complete
        /\ revisions[r].content.reviews = d
        /\ \A i \in revisions[r].content.issues : decision[r, i] = "settled"

\* The history survives truncation: accepted revisions and what they were made
\* from exist (_delete_task_outputs takes neither heads nor accepted revisions).
HistoryStays ==
    \A r \in accepted : r \in Existing /\
        \A s \in DOMAIN revisions[r].input : revisions[r].input[s] \in Existing

\* Work that has been committed is never reported as refused: not to a window
\* that sends its command again, however the project moved on since, nor to a
\* task whose projection runs again (the receipt is looked up before any check).
CommittedIsNotRefused ==
    [][project' # NULL =>
        /\ \A c \in Client : Waiting(c) /\ c \in receipt => request'[c].kind # "refused"
        /\ \A t \in Task : task[t] # NULL /\ task[t].status = "running" /\ Projected(t)
             => task'[t].status # "refused"]_vars

\* An archived project stays put, whatever tasks and commands are under way: no
\* revision is added, no head, decision or working copy moves.
ArchivedStaysPut ==
    [][project # NULL /\ project.lifecycle = "archived" /\ project' # NULL =>
        /\ Len(revisions') = Len(revisions)
        /\ UNCHANGED <<head, accepted, decision, finalized, copy>>
        /\ project'.completed = project.completed]_vars
=============================================================================
