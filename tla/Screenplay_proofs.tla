-------------------------- MODULE Screenplay_proofs --------------------------
(***************************************************************************)
(* Proofs about Screenplay, for any windows, tasks, episodes and issues.    *)
(***************************************************************************)
EXTENDS Screenplay, TLAPS

-----------------------------------------------------------------------------
\* The invariant

\* What was read of several roles at once was written from one another.
Aligned(m, rows) ==
    {"sceneList", "screenplayDraft"} \subseteq DOMAIN m =>
        LET draft == rows[m["screenplayDraft"]] IN
        /\ "sceneList" \in DOMAIN draft.input
        /\ draft.input["sceneList"] = m["sceneList"]

\* What a revision of a role, or a task for it, may have been made from.
ReadFor(role, m, rows, done) ==
    /\ DOMAIN m \subseteq InputRoles[role] \cup {role}
    /\ \A s \in DOMAIN m : m[s] \in done
    /\ Aligned(m, rows)

\* The episodes of a draft an agent wrote are from the scene list it was made from.
EpisodesFollowInput(x) ==
    \A e \in DOMAIN x.content.episodes :
        \/ x.content.episodes[e] = Author
        \/ /\ "sceneList" \in DOMAIN x.input
           /\ x.content.episodes[e] = x.input["sceneList"]

\* Accepted revisions exist.
AcceptedExists == accepted \subseteq Existing

\* Revisions come from what was accepted.
RevisionsRead == \A r \in Existing :
    /\ ReadFor(revisions[r].role, revisions[r].input, revisions, accepted)
    /\ revisions[r].role = "screenplayDraft" => EpisodesFollowInput(revisions[r])

\* So do the tasks, from all that their role requires.
TasksRead == \A t \in Task : task[t] # NULL =>
    /\ ReadFor(task[t].target, task[t].scope, revisions, accepted)
    /\ InputRoles[task[t].target] \subseteq DOMAIN task[t].scope

\* Heads are accepted, for the role they have, on the prerequisite they name.
HeadsAccepted == \A role \in Role : head[role] # NULL =>
    /\ head[role] \in accepted
    /\ Prerequisite[role] # NULL => Prerequisite[role] \in DOMAIN revisions[head[role]].input

History == AcceptedExists /\ RevisionsRead /\ TasksRead /\ HeadsAccepted /\ HeadsBuildOnHeads

\* What a window wants to publish it has seen, and working copies do not vanish.
PublishesCopy == \A c \in Client :
    request[c].kind = "publish" /\ project # NULL => copy[request[c].role] # NULL

IInv == TypeOK /\ History /\ PublishesCopy

-----------------------------------------------------------------------------
\* Types

Inputs == UNION {[S -> Rev] : S \in SUBSET Role}
EpisodesOf == UNION {[S -> Source] : S \in SUBSET Episode}

\* Maps from some roles, or from some episodes.
LEMMA PartialMaps ==
    /\ \A S \in SUBSET Role : \A f \in [S -> Rev] : f \in Inputs
    /\ \A S \in SUBSET Episode : \A f \in [S -> Source] : f \in EpisodesOf
    /\ \A f \in Inputs : /\ f \in [DOMAIN f -> Rev] /\ DOMAIN f \subseteq Role
    /\ \A f \in EpisodesOf : /\ f \in [DOMAIN f -> Source] /\ DOMAIN f \subseteq Episode
  BY DEF Inputs, EpisodesOf

\* The fields of a content, of a revision and of a task.
LEMMA Fields ==
    /\ \A x \in Content : /\ x.episodes \in EpisodesOf /\ x.complete \in BOOLEAN
                          /\ x.reviews \in Rev \cup {NULL} /\ x.issues \subseteq Issue
    /\ \A e \in EpisodesOf, b \in BOOLEAN, v \in Rev \cup {NULL}, i \in SUBSET Issue :
          [episodes |-> e, complete |-> b, reviews |-> v, issues |-> i] \in Content
    /\ \A x \in Content : \A i \in SUBSET Issue : [x EXCEPT !.issues = i] \in Content
    /\ \A x \in Content : \A e \in EpisodesOf : [x EXCEPT !.episodes = e] \in Content
    /\ \A x \in Revision : /\ x.role \in Role /\ x.task \in Task \cup {NULL}
                           /\ x.input \in Inputs /\ x.content \in Content
    /\ \A o \in Role, t \in Task \cup {NULL}, i \in Inputs, x \in Content :
          [role |-> o, task |-> t, input |-> i, content |-> x] \in Revision
    /\ \A x \in Revision : [x EXCEPT !.task = NULL] \in Revision
    /\ \A x \in TaskRow : /\ x.target \in Role /\ x.scope \in Inputs /\ x.selected \subseteq Episode
                          /\ x.status \in {"running", "paused", "refused", "ended"}
  <1>1. \A x \in Content : \A i \in SUBSET Issue : [x EXCEPT !.issues = i] \in Content
    BY DEF Content
  <1>2. \A x \in Content : \A e \in EpisodesOf : [x EXCEPT !.episodes = e] \in Content
    BY DEF Content, EpisodesOf
  <1>3. \A x \in Revision : [x EXCEPT !.task = NULL] \in Revision
    BY DEF Revision
  <1>4. \A x \in Content : /\ x.episodes \in EpisodesOf /\ x.complete \in BOOLEAN
                           /\ x.reviews \in Rev \cup {NULL} /\ x.issues \subseteq Issue
    BY DEF Content, EpisodesOf
  <1>5. \A e \in EpisodesOf, b \in BOOLEAN, v \in Rev \cup {NULL}, i \in SUBSET Issue :
          [episodes |-> e, complete |-> b, reviews |-> v, issues |-> i] \in Content
    BY DEF Content, EpisodesOf
  <1>6. \A x \in Revision : /\ x.role \in Role /\ x.task \in Task \cup {NULL}
                            /\ x.input \in Inputs /\ x.content \in Content
    BY DEF Revision, Inputs
  <1>7. \A o \in Role, t \in Task \cup {NULL}, i \in Inputs, x \in Content :
          [role |-> o, task |-> t, input |-> i, content |-> x] \in Revision
    BY DEF Revision, Inputs
  <1>8. \A x \in TaskRow : /\ x.target \in Role /\ x.scope \in Inputs /\ x.selected \subseteq Episode
                           /\ x.status \in {"running", "paused", "refused", "ended"}
    BY DEF TaskRow, Inputs
  <1> QED
    BY <1>1, <1>2, <1>3, <1>4, <1>5, <1>6, <1>7, <1>8

\* The fields of a command.
LEMMA RequestFields ==
    ASSUME NEW q \in Request
    PROVE  /\ q.kind \in {"accept", "copy"} => q.revision \in Rev
           /\ q.kind \in CopyKind => q.role \in Edited
           /\ q.kind = "edit" => q.content \in Content
           /\ q.kind = "adjudicate" => q.review \in Rev /\ q.issue \in Issue /\ q.status \in Status
           /\ q.kind = "finalize" => q.draft \in Rev /\ q.review \in Rev
  BY DEF Request, CopyKind

\* Revisions that exist, and the numbers they have.
LEMMA ExistingTyped ==
    ASSUME TypeOK
    PROVE  /\ Existing \subseteq Rev /\ DOMAIN revisions = 1..Len(revisions) /\ Len(revisions) \in Nat
           /\ \A r \in Existing : revisions[r] \in Revision
           /\ \A r \in DOMAIN revisions : r \in Rev /\ revisions[r] \in Revision \cup {NULL}
           /\ \A role \in Role : head[role] \in Rev \cup {NULL}
           /\ NULL \notin Revision
  BY ScreenplayAssumption, NullAssumption DEF TypeOK, Existing, Rev

\* What an author may write.
LEMMA WrittenTyped ==
    ASSUME NEW S \in SUBSET Episode, NEW b \in BOOLEAN
    PROVE  Written(Author, S, b) \in Content
  <1>1. [e \in S |-> Author] \in EpisodesOf
    <2>1. [e \in S |-> Author] \in [S -> Source]
      BY DEF Source
    <2> QED
      BY <2>1, PartialMaps
  <1> QED
    BY <1>1, Fields DEF Written

\* What the workspace offers is a command.
LEMMA OfferedTyped == ASSUME TypeOK, NEW q \in Offered PROVE q \in Request
  <1> DEFINE Plain == [kind : {"rename", "archive", "restore", "delete"}]
  <1> DEFINE Accepts == [kind : {"accept"}, revision : {r \in Existing : ~IsHead(r)}]
  <1> DEFINE Copies == UNION {[kind : {"copy"}, revision : {r}, role : {revisions[r].role}] :
                  r \in {s \in Existing : revisions[s].role \in Edited}}
  <1> DEFINE EditsOf == UNION {[kind : {"edit"}, role : {role}, content : Edits(role)] :
                  role \in {s \in Edited : copy[s] # NULL}}
  <1> DEFINE Publishes == [kind : {"publish"}, role : {s \in Edited : copy[s] # NULL}]
  <1> DEFINE Decisions == UNION {[kind : {"adjudicate"}, review : {r},
                 issue : revisions[r].content.issues, status : Status] :
                  r \in {s \in Existing : s = head["review"]}}
  <1> DEFINE Ends == [kind : {"finalize"}, draft : {head["screenplayDraft"]} \ {NULL},
          review : {head["review"]} \ {NULL}]
  <1>1. CASE q \in Plain
    BY <1>1 DEF Request
  <1>2. CASE q \in Accepts
    BY <1>2, ExistingTyped DEF Request
  <1>3. CASE q \in Copies
    <2>1. PICK r \in Existing : /\ revisions[r].role \in Edited
                                /\ q \in [kind : {"copy"}, revision : {r}, role : {revisions[r].role}]
      BY <1>3
    <2>2. q \in [kind : {"copy"}, revision : Rev, role : Edited]
      BY <2>1, ExistingTyped
    <2> QED
      BY <2>2 DEF Request
  <1>4. CASE q \in EditsOf
    <2>1. PICK role \in Edited : /\ copy[role] # NULL
                                 /\ q \in [kind : {"edit"}, role : {role}, content : Edits(role)]
      BY <1>4
    <2>2. copy[role] \in Content
      BY <2>1, ScreenplayAssumption DEF TypeOK
    <2>3. Edits(role) \subseteq Content
      BY <2>2, WrittenTyped, Fields DEF Edits
    <2>4. q \in [kind : {"edit"}, role : Edited, content : Content]
      BY <2>1, <2>3
    <2> QED
      BY <2>4 DEF Request
  <1>5. CASE q \in Publishes
    BY <1>5 DEF Request
  <1>6. CASE q \in Decisions
    <2>1. PICK r \in Existing : q \in [kind : {"adjudicate"}, review : {r},
                                       issue : revisions[r].content.issues, status : Status]
      BY <1>6
    <2>2. revisions[r].content.issues \subseteq Issue /\ r \in Rev
      BY ExistingTyped, Fields
    <2>3. q \in [kind : {"adjudicate"}, review : Rev, issue : Issue, status : Status]
      BY <2>1, <2>2
    <2> QED
      BY <2>3 DEF Request
  <1>7. CASE q \in Ends
    <2>1. {head["screenplayDraft"]} \ {NULL} \subseteq Rev /\ {head["review"]} \ {NULL} \subseteq Rev
      BY ExistingTyped DEF Role
    <2>2. q \in [kind : {"finalize"}, draft : Rev, review : Rev]
      BY <1>7, <2>1
    <2> QED
      BY <2>2 DEF Request
  <1>8. q \in Plain \cup Accepts \cup Copies \cup EditsOf \cup Publishes \cup Decisions \cup Ends
    BY Zenon DEF Offered
  <1> HIDE DEF Plain, Accepts, Copies, EditsOf, Publishes, Decisions, Ends
  <1> QED
    BY <1>1, <1>2, <1>3, <1>4, <1>5, <1>6, <1>7, <1>8

\* What the checks of a command ensure.
LEMMA AdmissibleFacts ==
    ASSUME NEW q, NEW current, Admissible(q, current)
    PROVE  /\ project # NULL /\ current
           /\ q.kind \notin {"archive", "restore", "delete"} => project.lifecycle = "active"
           /\ q.kind = "delete" => MayDelete
           /\ q.kind = "accept" => q.revision \in Existing /\ InputsStand(q.revision)
           /\ q.kind = "copy" => q.revision \in Existing
           /\ q.kind = "finalize" => CanFinalize(q.draft, q.review)
  <1>1. project # NULL /\ current /\ (q.kind \notin {"archive", "restore", "delete"} => project.lifecycle = "active")
    BY DEF Admissible, Active
  <1>2. CASE q.kind = "delete"
    BY <1>1, <1>2 DEF Admissible
  <1>3. CASE q.kind = "accept"
    BY <1>1, <1>3 DEF Admissible
  <1>4. CASE q.kind = "copy"
    BY <1>1, <1>4 DEF Admissible
  <1>5. CASE q.kind = "finalize"
    BY <1>1, <1>5 DEF Admissible
  <1> QED
    BY <1>1, <1>2, <1>3, <1>4, <1>5

\* The three groups of rows.
AggregateTyped ==
    /\ project \in [lifecycle : {"active", "archived"}, completed : BOOLEAN] \cup {NULL}
    /\ revisions \in Seq(Revision \cup {NULL}) /\ Len(revisions) <= MaxRevisions
    /\ head \in [Role -> Rev \cup {NULL}]
    /\ accepted \subseteq Rev
    /\ decision \in [Rev \X Issue -> Status]
    /\ finalized \subseteq Rev \X Rev
    /\ copy \in [Role -> Content \cup {NULL}]
WindowsTyped ==
    /\ request \in [Client -> Request \cup Ended]
    /\ receipt \subseteq Client
    /\ fresh \subseteq Client
TasksTyped ==
    /\ task \in [Task -> TaskRow \cup {NULL}]
    /\ executing \subseteq Task

\* Together they are TypeOK, before and after a step.
LEMMA TypeGroups ==
    /\ TypeOK <=> AggregateTyped /\ WindowsTyped /\ TasksTyped
    /\ TypeOK' <=> AggregateTyped' /\ WindowsTyped' /\ TasksTyped'
  BY DEF TypeOK, AggregateTyped, WindowsTyped, TasksTyped

\* Rows that a step leaves alone.
LEMMA TypesKept ==
    /\ AggregateTyped /\ UNCHANGED aggregate => AggregateTyped'
    /\ WindowsTyped /\ UNCHANGED windows => WindowsTyped'
    /\ TasksTyped /\ UNCHANGED tasks => TasksTyped'
  BY DEF AggregateTyped, WindowsTyped, TasksTyped, aggregate, windows, tasks

\* A revision more.
LEMMA AppendTyped ==
    ASSUME AggregateTyped, NEW x \in Revision, Len(revisions) < MaxRevisions,
           revisions' = Append(revisions, x)
    PROVE  revisions' \in Seq(Revision \cup {NULL}) /\ Len(revisions') <= MaxRevisions
  BY ScreenplayAssumption DEF AggregateTyped

\* What the author publishes.
LEMMA PublishedTyped ==
    ASSUME TypeOK, NEW role \in Role, copy[role] \in Content
    PROVE  [role |-> role, task |-> NULL, input |-> CurrentInputs(role),
            content |-> Authored(copy[role])] \in Revision
  <1>1. CurrentInputs(role) \in Inputs
    <2>1. CurrentInputs(role) \in [{r \in Role : r = Prerequisite[role] /\ head[r] # NULL} -> Rev]
      BY ExistingTyped DEF CurrentInputs
    <2> QED
      BY <2>1, PartialMaps
  <1>2. Authored(copy[role]) \in Content
    <2>1. copy[role].episodes \in EpisodesOf
      BY Fields
    <2>2. [e \in DOMAIN copy[role].episodes |-> Author] \in [DOMAIN copy[role].episodes -> Source]
      BY DEF Source
    <2>3. [e \in DOMAIN copy[role].episodes |-> Author] \in EpisodesOf
      BY <2>1, <2>2, PartialMaps
    <2> QED
      BY <2>3, Fields DEF Authored
  <1> QED
    BY <1>1, <1>2, Fields

\* A command of the author.
LEMMA TakeType ==
    ASSUME TypeOK, NEW q \in Request, NEW current, Admissible(q, current), Take(q),
           q.kind = "publish" => copy[q.role] # NULL
    PROVE  AggregateTyped' /\ fresh' \subseteq Client /\ task' \in [Task -> TaskRow \cup {NULL}]
  <1> USE TypeGroups, AdmissibleFacts, RequestFields DEF Bumps, BumpsCopy, Current, CopyCurrent, CopyKind
  <1>1. /\ AggregateTyped /\ fresh \subseteq Client /\ task \in [Task -> TaskRow \cup {NULL}]
        /\ project \in [lifecycle : {"active", "archived"}, completed : BOOLEAN]
    BY DEF WindowsTyped, TasksTyped, AggregateTyped
  <1>2. CASE Rename(q)
    BY <1>1, <1>2, TypesKept DEF Rename
  <1>3. CASE SetLifecycle(q)
    <2>1. Lifecycle[q.kind] \in {"active", "archived"}
      BY <1>3 DEF SetLifecycle, Lifecycle
    <2> QED
      BY <1>1, <1>3, <2>1 DEF SetLifecycle, AggregateTyped
  <1>4. CASE Delete(q)
    <2>1. <<>> \in Seq(Revision \cup {NULL}) /\ Len(<<>>) <= MaxRevisions
      BY ScreenplayAssumption
    <2>2. [p \in Rev \X Issue |-> "pending"] \in [Rev \X Issue -> Status]
      BY DEF Status
    <2> QED
      BY <1>1, <1>4, <2>1, <2>2 DEF Delete, AggregateTyped
  <1>5. CASE Accept(q)
    <2>1. NewHeads(q.revision) \in [Role -> Rev \cup {NULL}]
      BY <1>5, ExistingTyped DEF Accept, NewHeads
    <2>2. accepted \cup {q.revision} \subseteq Rev
      BY <1>1, <1>5 DEF Accept, AggregateTyped
    <2>3. [project EXCEPT !.completed = FALSE] \in [lifecycle : {"active", "archived"}, completed : BOOLEAN]
      BY <1>1
    <2> QED
      BY <1>1, <1>5, <2>1, <2>2, <2>3 DEF Accept, AggregateTyped
  <1>6. CASE CopyFrom(q)
    <2>1. revisions[q.revision].content \in Content /\ q.role \in Role
      BY <1>6, ExistingTyped, Fields, ScreenplayAssumption DEF CopyFrom
    <2> QED
      BY <1>1, <1>6, <2>1 DEF CopyFrom, AggregateTyped
  <1>7. CASE EditCopy(q)
    <2>1. q.content \in Content /\ q.role \in Role
      BY <1>7, ScreenplayAssumption DEF EditCopy
    <2> QED
      BY <1>1, <1>7, <2>1 DEF EditCopy, AggregateTyped
  <1>8. CASE Publish(q)
    <2>1. q.role \in Role /\ copy[q.role] \in Content
      BY <1>1, <1>8, ScreenplayAssumption DEF Publish, AggregateTyped
    <2>2. revisions' \in Seq(Revision \cup {NULL}) /\ Len(revisions') <= MaxRevisions
      BY <1>1, <1>8, <2>1, PublishedTyped, AppendTyped DEF Publish
    <2> QED
      BY <1>1, <1>8, <2>2 DEF Publish, AggregateTyped
  <1>9. CASE Adjudicate(q)
    <2>1. [decision EXCEPT ![<<q.review, q.issue>>] = q.status] \in [Rev \X Issue -> Status]
      BY <1>1, <1>9 DEF Adjudicate, AggregateTyped
    <2>2. [project EXCEPT !.completed = FALSE] \in [lifecycle : {"active", "archived"}, completed : BOOLEAN]
      BY <1>1
    <2> QED
      BY <1>1, <1>9, <2>1, <2>2 DEF Adjudicate, AggregateTyped
  <1>10. CASE Finalize(q)
    <2>1. [project EXCEPT !.completed = TRUE] \in [lifecycle : {"active", "archived"}, completed : BOOLEAN]
      BY <1>1
    <2>2. finalized \cup {<<q.draft, q.review>>} \subseteq Rev \X Rev
      BY <1>1, <1>10 DEF Finalize, AggregateTyped
    <2> QED
      BY <1>1, <1>10, <2>1, <2>2 DEF Finalize, AggregateTyped
  <1> QED
    BY <1>2, <1>3, <1>4, <1>5, <1>6, <1>7, <1>8, <1>9, <1>10 DEF Take

\* A window waits on a command.
LEMMA WaitingTyped == ASSUME TypeOK, NEW c \in Client, Waiting(c) PROVE request[c] \in Request
  BY DEF TypeOK, Waiting, Ended

\* The steps of a window, and of commands that take effect at once.
LEMMA WindowType ==
    ASSUME IInv, (\E q \in Offered : TakeAtOnce(q)) \/ (\E c \in Client : Window(c))
    PROVE  TypeOK'
  <1> USE TypeGroups DEF IInv
  <1>1. AggregateTyped /\ WindowsTyped /\ TasksTyped
    OBVIOUS
  <1>2. ASSUME NEW q \in Offered, TakeAtOnce(q) PROVE TypeOK'
    <2>1. q \in Request
      BY OfferedTyped
    <2>2. q.kind = "publish" => copy[q.role] # NULL
      BY <1>2 DEF Offered
    <2>3. AggregateTyped' /\ fresh' \subseteq Client /\ task' \in [Task -> TaskRow \cup {NULL}]
      BY <1>2, <2>1, <2>2, TakeType DEF TakeAtOnce
    <2> QED
      BY <1>1, <1>2, <2>3 DEF TakeAtOnce, Kept, WindowsTyped, TasksTyped
  <1>3. ASSUME NEW c \in Client, TakeLate(c) PROVE TypeOK'
    <2>1. request[c] \in Request /\ Admissible(request[c], c \in fresh)
      BY <1>3, WaitingTyped DEF TakeLate, Unreplayed
    <2>2. request[c].kind = "publish" => copy[request[c].role] # NULL
      BY <2>1, AdmissibleFacts DEF PublishesCopy
    <2>3. AggregateTyped' /\ fresh' \subseteq Client /\ task' \in [Task -> TaskRow \cup {NULL}]
      BY <1>3, <2>1, <2>2, TakeType DEF TakeLate
    <2> QED
      BY <1>1, <1>3, <2>3 DEF TakeLate, Kept, WindowsTyped, TasksTyped
  <1>4. ASSUME NEW c \in Client, NEW q \in Offered, Send(c, q) PROVE TypeOK'
    BY <1>1, <1>4, TypesKept, OfferedTyped DEF Send, WindowsTyped
  <1>5. ASSUME NEW c \in Client, NEW how \in {"ok", "refused"}, Answered(c, how) PROVE TypeOK'
    <2>1. [kind |-> how] \in Ended
      BY DEF Ended
    <2> QED
      BY <1>1, <1>5, <2>1, TypesKept DEF Answered, WindowsTyped
  <1> QED
    BY <1>2, <1>3, <1>4, <1>5 DEF Window, Answer, Refuse

\* What a task reads and where from.
LEMMA TaskFields ==
    ASSUME IInv, NEW t \in Task, task[t] # NULL
    PROVE  /\ task[t] \in TaskRow /\ task[t].scope \in Inputs /\ task[t].target \in Role
           /\ task[t].selected \subseteq Episode
           /\ ReadFor(task[t].target, task[t].scope, revisions, accepted)
           /\ InputRoles[task[t].target] \subseteq DOMAIN task[t].scope
           /\ DOMAIN task[t].scope \subseteq Role
           /\ \A s \in DOMAIN task[t].scope : /\ task[t].scope[s] \in Rev
                                              /\ task[t].scope[s] \in Existing
                                              /\ revisions[task[t].scope[s]] \in Revision
  <1>1. task[t] \in TaskRow
    BY DEF IInv, TypeOK
  <1>2. task[t].scope \in Inputs /\ task[t].target \in Role /\ task[t].selected \subseteq Episode
    BY <1>1, Fields
  <1>3. ReadFor(task[t].target, task[t].scope, revisions, accepted) /\ InputRoles[task[t].target] \subseteq DOMAIN task[t].scope
    BY DEF IInv, History, TasksRead
  <1> QED
    BY <1>1, <1>2, <1>3, PartialMaps, ExistingTyped DEF IInv, History, AcceptedExists, ReadFor

\* The candidate a task projects is a revision.
LEMMA CandidateTyped ==
    ASSUME IInv, NEW t \in Task, task[t] # NULL, NEW issues \in SUBSET Issue
    PROVE  Candidate(t, issues) \in Revision
  <1> DEFINE source == IF task[t].target = "sceneList" THEN Author ELSE task[t].scope["sceneList"]
             own == [e \in task[t].selected |-> source]
  <1>1. ASSUME task[t].target # "review" PROVE Episodes(t) \in EpisodesOf
    <2>1. source \in Source
      BY <1>1, TaskFields DEF Role, InputRoles, Source
    <2>2. own \in EpisodesOf /\ DOMAIN own = task[t].selected
      <3>1. own \in [task[t].selected -> Source]
        BY <2>1
      <3> QED
        BY <3>1, TaskFields, PartialMaps
    <2>3. CASE task[t].target \in DOMAIN task[t].scope
      <3> DEFINE older == revisions[task[t].scope[task[t].target]].content.episodes
      <3>1. older \in EpisodesOf
        BY <2>3, TaskFields, Fields
      <3>2. Merged(own, older) \in [DOMAIN own \cup DOMAIN older -> Source]
        BY <2>2, <3>1, PartialMaps DEF Merged
      <3>3. DOMAIN own \cup DOMAIN older \subseteq Episode
        BY <2>2, <3>1, PartialMaps
      <3>4. Merged(own, older) \in EpisodesOf
        BY <3>2, <3>3, PartialMaps
      <3> QED
        BY <2>3, <3>4 DEF Episodes
    <2>4. CASE task[t].target \notin DOMAIN task[t].scope
      BY <2>2, <2>4 DEF Episodes
    <2> QED
      BY <2>3, <2>4
  <1>2. (IF task[t].target = "review" THEN <<>> ELSE Episodes(t)) \in EpisodesOf
    <2>1. <<>> \in [{} -> Source]
      OBVIOUS
    <2>2. <<>> \in EpisodesOf
      BY <2>1, PartialMaps
    <2> QED
      BY <1>1, <2>2
  <1>3. (IF task[t].target = "review" THEN task[t].scope["screenplayDraft"] ELSE NULL) \in Rev \cup {NULL}
    BY TaskFields DEF InputRoles
  <1> HIDE DEF own, source
  <1>4. [episodes |-> IF task[t].target = "review" THEN <<>> ELSE Episodes(t),
         complete |-> task[t].target = "screenplayDraft",
         reviews |-> IF task[t].target = "review" THEN task[t].scope["screenplayDraft"] ELSE NULL,
         issues |-> issues] \in Content
    BY <1>2, <1>3, Fields
  <1> QED
    BY <1>4, TaskFields, Fields DEF Candidate

\* A task is compiled from heads.
LEMMA CompiledTyped ==
    ASSUME TypeOK, NEW t \in Task, NEW target \in Role, NEW revise \in BOOLEAN,
           NEW selected \in SUBSET Episode, Compile(t, target, revise, selected)
    PROVE  /\ task' \in [Task -> TaskRow \cup {NULL}]
           /\ \A u \in Task \ {t} : task'[u] = task[u]
           /\ task'[t].target = target
           /\ DOMAIN task'[t].scope \subseteq InputRoles[target] \cup {target}
           /\ InputRoles[target] \subseteq DOMAIN task'[t].scope
           /\ \A s \in DOMAIN task'[t].scope : head[s] # NULL /\ task'[t].scope[s] = head[s]
  <1> DEFINE baseline == (revise \/ target \in EpisodeRole) /\ head[target] # NULL
             read == InputRoles[target] \cup (IF baseline THEN {target} ELSE {})
             row == [status |-> "running", target |-> target,
                     scope |-> [s \in read |-> head[s]], selected |-> selected]
  <1>1. task' = [task EXCEPT ![t] = row]
    BY DEF Compile
  <1>2. \A s \in read : s \in Role /\ head[s] # NULL
    BY DEF Compile, InputRoles, Role
  <1>3. [s \in read |-> head[s]] \in Inputs
    <2>1. [s \in read |-> head[s]] \in [read -> Rev]
      BY <1>2, ExistingTyped
    <2> QED
      BY <1>2, <2>1, PartialMaps
  <1>4. row \in TaskRow
    BY <1>3 DEF TaskRow, Inputs
  <1>5. row.target = target /\ row.scope = [s \in read |-> head[s]]
    OBVIOUS
  <1>6. InputRoles[target] \subseteq read /\ read \subseteq InputRoles[target] \cup {target}
    OBVIOUS
  <1> HIDE DEF read, row, baseline
  <1>7. task'[t] = row /\ \A u \in Task \ {t} : task'[u] = task[u]
    BY <1>1 DEF TypeOK
  <1>8. task' \in [Task -> TaskRow \cup {NULL}]
    BY <1>1, <1>4 DEF TypeOK
  <1> QED
    BY <1>2, <1>5, <1>6, <1>7, <1>8

\* What truncation leaves of the revisions.
LEMMA TruncatedTyped ==
    ASSUME TypeOK, NEW t \in Task, Truncate(t)
    PROVE  /\ revisions' \in Seq(Revision \cup {NULL}) /\ Len(revisions') = Len(revisions)
           /\ DOMAIN revisions' = DOMAIN revisions
           /\ \A r \in DOMAIN revisions :
                 /\ r \in Existing /\ r \notin Discarded(t) =>
                       /\ revisions'[r] \in Revision
                       /\ revisions'[r].role = revisions[r].role
                       /\ revisions'[r].input = revisions[r].input
                       /\ revisions'[r].content = revisions[r].content
                 /\ r \notin Existing \/ r \in Discarded(t) => revisions'[r] = NULL
  <1> DEFINE left(r) == IF r \notin Existing \/ revisions[r].task # t THEN revisions[r]
                        ELSE IF r \in Discarded(t) THEN NULL ELSE [revisions[r] EXCEPT !.task = NULL]
  <1>1. revisions' = [r \in DOMAIN revisions |-> left(r)]
    BY DEF Truncate
  <1>2. ASSUME NEW r \in DOMAIN revisions
        PROVE  /\ left(r) \in Revision \cup {NULL}
               /\ r \in Existing /\ r \notin Discarded(t) =>
                       /\ left(r) \in Revision
                       /\ left(r).role = revisions[r].role
                       /\ left(r).input = revisions[r].input
                       /\ left(r).content = revisions[r].content
               /\ r \notin Existing \/ r \in Discarded(t) => left(r) = NULL
    <2>1. CASE r \notin Existing
      BY <2>1 DEF Existing, Discarded
    <2>2. CASE r \in Existing
      <3>1. revisions[r] \in Revision
        BY <2>2, ExistingTyped
      <3> DEFINE cut == [revisions[r] EXCEPT !.task = NULL]
      <3>2. /\ cut \in Revision
            /\ cut.role = revisions[r].role
            /\ cut.input = revisions[r].input
            /\ cut.content = revisions[r].content
        BY <3>1 DEF Revision
      <3>3. r \in Discarded(t) => revisions[r].task = t
        BY DEF Discarded
      <3> QED
        BY <2>2, <3>1, <3>2, <3>3
    <2> QED
      BY <2>1, <2>2
  <1> HIDE DEF left
  <1>3. DOMAIN revisions = 1..Len(revisions) /\ Len(revisions) \in Nat
    BY ExistingTyped
  <1>4. \A r \in 1..Len(revisions) : left(r) \in Revision \cup {NULL}
    BY <1>2, <1>3
  <1>5. [r \in 1..Len(revisions) |-> left(r)] \in Seq(Revision \cup {NULL})
        /\ Len([r \in 1..Len(revisions) |-> left(r)]) = Len(revisions)
    BY <1>3, <1>4
  <1>6. revisions' = [r \in 1..Len(revisions) |-> left(r)]
    BY <1>1, <1>3
  <1> QED
    BY <1>1, <1>2, <1>3, <1>5, <1>6

\* The steps of the agent.
LEMMA AgentType == ASSUME IInv, NEW t \in Task, Agent(t) PROVE TypeOK'
  <1> USE TypeGroups DEF IInv
  <1>1. AggregateTyped /\ WindowsTyped /\ TasksTyped
    OBVIOUS
  <1>2. ASSUME NEW target \in Role, NEW revise \in BOOLEAN, NEW selected \in SUBSET Episode,
               Compile(t, target, revise, selected)
        PROVE  TypeOK'
    <2>1. task' \in [Task -> TaskRow \cup {NULL}]
      BY <1>2, CompiledTyped
    <2> QED
      BY <1>1, <1>2, <2>1, TypesKept DEF Compile, TasksTyped
  <1>3. ASSUME NEW issues \in SUBSET Issue, Project(t, issues) PROVE TypeOK'
    <2>1. Candidate(t, issues) \in Revision
      BY <1>3, CandidateTyped DEF Project, MayProject
    <2>2. revisions' \in Seq(Revision \cup {NULL}) /\ Len(revisions') <= MaxRevisions
      BY <1>1, <1>3, <2>1, AppendTyped DEF Project
    <2> QED
      BY <1>1, <1>3, <2>2, TypesKept DEF Project, AggregateTyped
  <1>4. ASSUME NEW s \in {"running", "paused", "refused", "ended"}, task[t] # NULL
        PROVE  [task EXCEPT ![t].status = s] \in [Task -> TaskRow \cup {NULL}]
    <2>1. task[t] \in TaskRow
      BY <1>1, <1>4 DEF TasksTyped
    <2>2. [task[t] EXCEPT !.status = s] \in TaskRow
      BY <2>1 DEF TaskRow
    <2> QED
      BY <1>1, <2>2 DEF TasksTyped
  <1>5. CASE ProjectionRefused(t)
    BY <1>1, <1>4, <1>5, TypesKept DEF ProjectionRefused, TasksTyped
  <1>6. CASE EndTask(t) \/ Pause(t) \/ CancelPaused(t) \/ Resume(t)
    BY <1>1, <1>4, <1>6, TypesKept DEF EndTask, Pause, CancelPaused, Resume, TasksTyped
  <1>7. CASE ExecutorEnds(t)
    BY <1>1, <1>7, TypesKept DEF ExecutorEnds, TasksTyped
  <1>8. CASE Truncate(t)
    BY <1>1, <1>8, TruncatedTyped, TypesKept DEF Truncate, AggregateTyped, TasksTyped
  <1> QED
    BY <1>2, <1>3, <1>5, <1>6, <1>7, <1>8 DEF Agent

\* Every step keeps the types.
LEMMA TypeStep == IInv /\ [Next]_vars => TypeOK'
  <1> SUFFICES ASSUME IInv, [Next]_vars PROVE TypeOK'
    OBVIOUS
  <1>1. CASE UNCHANGED vars
    BY <1>1 DEF vars, TypeOK, IInv
  <1> QED
    BY <1>1, WindowType, AgentType DEF Next

\* Working copies stay, and windows publish what they have seen.
LEMMA PublishesStep == IInv /\ [Next]_vars => PublishesCopy'
  <1> SUFFICES ASSUME IInv, [Next]_vars PROVE PublishesCopy'
    OBVIOUS
  <1> USE DEF PublishesCopy
  <1>1. PublishesCopy /\ TypeOK
    BY DEF IInv
  <1>2. CASE UNCHANGED vars
    BY <1>1, <1>2 DEF vars
  <1>3. CASE \E t \in Task : Agent(t)
    <2>1. UNCHANGED <<request, copy, project>>
      BY <1>3 DEF Agent, Compile, Project, ProjectionRefused, EndTask, Pause, Resume, CancelPaused,
         ExecutorEnds, Truncate, aggregate, windows
    <2> QED
      BY <1>1, <2>1
  <1>4. ASSUME NEW q \in Request, NEW current, Admissible(q, current), Take(q), request' = request
        PROVE  PublishesCopy'
    <2>1. project' = NULL \/ \A role \in Role : copy[role] # NULL => copy'[role] # NULL
      <3>1. CASE Rename(q) \/ SetLifecycle(q) \/ Accept(q) \/ Publish(q) \/ Adjudicate(q) \/ Finalize(q)
        BY <3>1 DEF Rename, SetLifecycle, Accept, Publish, Adjudicate, Finalize, aggregate
      <3>2. CASE Delete(q)
        BY <3>2 DEF Delete
      <3>3. CASE CopyFrom(q)
        <4>1. revisions[q.revision].content \in Content
          BY <1>4, <3>3, AdmissibleFacts, ExistingTyped, Fields, <1>1 DEF CopyFrom
        <4> QED
          BY <1>1, <3>3, <4>1, NullAssumption DEF CopyFrom, TypeOK
      <3>4. CASE EditCopy(q)
        <4>1. q.content \in Content
          BY <3>4, RequestFields DEF EditCopy
        <4> QED
          BY <1>1, <3>4, <4>1, NullAssumption DEF EditCopy, TypeOK
      <3> QED
        BY <1>4, <3>1, <3>2, <3>3, <3>4 DEF Take
    <2>2. \A c \in Client : request[c].kind = "publish" => request[c].role \in Role
      BY <1>1, RequestFields, ScreenplayAssumption DEF TypeOK, Ended, CopyKind
    <2>3. project # NULL
      BY <1>4, AdmissibleFacts
    <2> QED
      BY <1>1, <1>4, <2>1, <2>2, <2>3
  <1>5. ASSUME NEW c \in Client, NEW q \in Offered, Send(c, q) PROVE PublishesCopy'
    <2>1. q.kind = "publish" => copy[q.role] # NULL
      BY DEF Offered
    <2> QED
      BY <1>1, <1>5, <2>1 DEF Send, aggregate, TypeOK
  <1>6. ASSUME NEW c \in Client, NEW how \in {"ok", "refused"}, Answered(c, how) PROVE PublishesCopy'
    BY <1>1, <1>6 DEF Answered, aggregate, TypeOK
  <1>7. ASSUME NEW c \in Client, TakeLate(c) PROVE PublishesCopy'
    BY <1>1, <1>4, <1>7, WaitingTyped DEF TakeLate, Unreplayed
  <1>8. ASSUME NEW q \in Offered, TakeAtOnce(q) PROVE PublishesCopy'
    BY <1>1, <1>4, <1>8, OfferedTyped DEF TakeAtOnce
  <1> QED
    BY <1>2, <1>3, <1>5, <1>6, <1>7, <1>8 DEF Next, Window, Answer, Refuse

-----------------------------------------------------------------------------
\* History

\* Rows that only grow, or lose what nobody accepted, keep what was read of them.
LEMMA ReadKept ==
    ASSUME NEW rows, NEW later, NEW done, NEW more, NEW role, NEW m,
           ReadFor(role, m, rows, done), done \subseteq more,
           \A r \in done : later[r].input = rows[r].input
    PROVE  ReadFor(role, m, later, more)
  BY DEF ReadFor, Aligned

\* A step that touches neither heads nor accepted revisions.
LEMMA HistoryKept ==
    ASSUME IInv, head' = head, accepted' = accepted,
           \A r \in accepted : /\ r \in Existing'
                               /\ revisions'[r].role = revisions[r].role
                               /\ revisions'[r].input = revisions[r].input,
           \A r \in Existing' :
              \/ /\ r \in Existing
                 /\ revisions'[r].role = revisions[r].role
                 /\ revisions'[r].input = revisions[r].input
                 /\ revisions'[r].content = revisions[r].content
              \/ /\ ReadFor(revisions'[r].role, revisions'[r].input, revisions, accepted)
                 /\ revisions'[r].role = "screenplayDraft" => EpisodesFollowInput(revisions'[r]),
           \A t \in Task : task'[t] # NULL =>
              \/ task[t] # NULL /\ task'[t].target = task[t].target /\ task'[t].scope = task[t].scope
              \/ /\ ReadFor(task'[t].target, task'[t].scope, revisions, accepted)
                 /\ InputRoles[task'[t].target] \subseteq DOMAIN task'[t].scope
    PROVE  History'
  <1>1. AcceptedExists /\ RevisionsRead /\ TasksRead /\ HeadsAccepted /\ HeadsBuildOnHeads
    BY DEF IInv, History
  <1>2. \A role, m : ReadFor(role, m, revisions, accepted) => ReadFor(role, m, revisions', accepted')
    BY ReadKept
  <1>3. AcceptedExists'
    BY DEF AcceptedExists
  <1>4. RevisionsRead'
    <2> SUFFICES ASSUME NEW r \in Existing'
                 PROVE  /\ ReadFor(revisions'[r].role, revisions'[r].input, revisions', accepted')
                        /\ revisions'[r].role = "screenplayDraft" => EpisodesFollowInput(revisions'[r])
      BY DEF RevisionsRead
    <2>1. CASE /\ r \in Existing
               /\ revisions'[r].role = revisions[r].role
               /\ revisions'[r].input = revisions[r].input
               /\ revisions'[r].content = revisions[r].content
      BY <1>1, <1>2, <2>1 DEF RevisionsRead, EpisodesFollowInput
    <2>2. CASE /\ ReadFor(revisions'[r].role, revisions'[r].input, revisions, accepted)
               /\ revisions'[r].role = "screenplayDraft" => EpisodesFollowInput(revisions'[r])
      BY <1>2, <2>2
    <2> QED
      BY <2>1, <2>2
  <1>5. TasksRead'
    BY <1>1, <1>2 DEF TasksRead
  <1>6. HeadsAccepted' /\ HeadsBuildOnHeads'
    BY <1>1, <1>3 DEF HeadsAccepted, HeadsBuildOnHeads, AcceptedExists
  <1> QED
    BY <1>3, <1>4, <1>5, <1>6 DEF History

\* A step that touches no revision either.
LEMMA HistoryUntouched ==
    ASSUME IInv, UNCHANGED <<revisions, head, accepted>>,
           \A t \in Task : task'[t] # NULL =>
              task[t] # NULL /\ task'[t].target = task[t].target /\ task'[t].scope = task[t].scope
    PROVE  History'
  BY HistoryKept DEF IInv, History, AcceptedExists, Existing

\* A step that adds a revision.
LEMMA HistoryAppended ==
    ASSUME IInv, UNCHANGED <<head, accepted, task>>, NEW x \in Revision,
           revisions' = Append(revisions, x),
           ReadFor(x.role, x.input, revisions, accepted),
           x.role = "screenplayDraft" => EpisodesFollowInput(x)
    PROVE  History'
  <1>1. TypeOK /\ accepted \subseteq Existing
    BY DEF IInv, History, AcceptedExists
  <1>2. /\ revisions \in Seq(Revision \cup {NULL}) /\ Len(revisions) \in Nat
        /\ DOMAIN revisions = 1..Len(revisions)
    BY <1>1, ExistingTyped DEF TypeOK
  <1>3. /\ \A r \in DOMAIN revisions : revisions'[r] = revisions[r]
        /\ DOMAIN revisions' = DOMAIN revisions \cup {Len(revisions) + 1}
        /\ revisions'[Len(revisions) + 1] = x
    BY <1>2
  <1>4. \A r \in Existing' : r \in Existing \/ revisions'[r] = x
    BY <1>3 DEF Existing
  <1>5. \A r \in Existing : r \in Existing' /\ revisions'[r] = revisions[r]
    BY <1>3 DEF Existing
  <1> QED
    BY <1>1, <1>4, <1>5, HistoryKept

\* What is read of heads is accepted and written from one another.
LEMMA HeadsRead ==
    ASSUME IInv, NEW role \in Role, NEW m, DOMAIN m \subseteq InputRoles[role] \cup {role},
           \A s \in DOMAIN m : head[s] # NULL /\ m[s] = head[s]
    PROVE  ReadFor(role, m, revisions, accepted)
  <1>1. DOMAIN m \subseteq Role
    BY DEF InputRoles, Role
  <1>2. \A s \in DOMAIN m : m[s] \in accepted
    BY <1>1 DEF IInv, History, HeadsAccepted
  <1>3. Aligned(m, revisions)
    <2> SUFFICES ASSUME {"sceneList", "screenplayDraft"} \subseteq DOMAIN m
                 PROVE  /\ "sceneList" \in DOMAIN revisions[head["screenplayDraft"]].input
                        /\ revisions[head["screenplayDraft"]].input["sceneList"] = head["sceneList"]
      BY DEF Aligned
    <2>1. "screenplayDraft" \in Role /\ Prerequisite["screenplayDraft"] = "sceneList"
          /\ head["screenplayDraft"] # NULL /\ "sceneList" \in Role
      BY DEF Role, Prerequisite
    <2>2. "sceneList" \in DOMAIN revisions[head["screenplayDraft"]].input
      BY <2>1, NullAssumption DEF IInv, History, HeadsAccepted
    <2>3. revisions[head["screenplayDraft"]].input["sceneList"] = head["sceneList"]
      BY <2>1, <2>2 DEF IInv, History, HeadsBuildOnHeads
    <2> QED
      BY <2>2, <2>3
  <1> QED
    BY <1>2, <1>3 DEF ReadFor

\* Acceptance puts a revision on the heads it was made from.
LEMMA AcceptHistory ==
    ASSUME IInv, NEW q \in Request, NEW current, Admissible(q, current), Accept(q)
    PROVE  History'
  <1> DEFINE r == q.revision
             role == revisions[r].role
  <1>1. /\ r \in Existing /\ InputsStand(r) /\ revisions[r] \in Revision /\ role \in Role
        /\ head' = NewHeads(r) /\ accepted' = accepted \cup {r} /\ UNCHANGED <<revisions, task>>
    BY AdmissibleFacts, ExistingTyped, Fields DEF Accept, IInv
  <1>2. AcceptedExists /\ RevisionsRead /\ TasksRead /\ HeadsAccepted /\ HeadsBuildOnHeads
    BY DEF IInv, History
  <1> HIDE DEF r
  <1>3. \A o, m : ReadFor(o, m, revisions, accepted) => ReadFor(o, m, revisions', accepted')
    BY <1>1, ReadKept
  <1>4. AcceptedExists' /\ RevisionsRead' /\ TasksRead'
    BY <1>1, <1>2, <1>3 DEF AcceptedExists, RevisionsRead, TasksRead, Existing
  <1>5. \A o \in Role : head'[o] = IF o = role THEN r ELSE IF o \in Downstream[role] THEN NULL ELSE head[o]
    BY <1>1 DEF NewHeads
  <1>6. Prerequisite[role] # NULL => /\ Prerequisite[role] \in DOMAIN revisions[r].input
                                     /\ head[Prerequisite[role]] # NULL
                                     /\ revisions[r].input[Prerequisite[role]] = head[Prerequisite[role]]
    BY <1>1 DEF InputsStand
  <1>7. HeadsAccepted'
    BY <1>1, <1>2, <1>5, <1>6 DEF HeadsAccepted
  <1>8. ReadFor(role, revisions[r].input, revisions, accepted)
    BY <1>1, <1>2 DEF RevisionsRead
  <1>9. \A s \in DOMAIN revisions[r].input \ {role} : revisions[r].input[s] = head[s] /\ s \notin Downstream[role]
    <2>1. CASE role = "sceneList"
      BY <1>8, <2>1 DEF ReadFor, InputRoles
    <2>2. CASE role = "screenplayDraft"
      BY <1>6, <1>8, <2>2, NullAssumption DEF ReadFor, InputRoles, Prerequisite, Role, Downstream
    <2>3. CASE role = "review"
      <3>1. /\ "screenplayDraft" \in DOMAIN revisions[r].input /\ head["screenplayDraft"] # NULL
            /\ revisions[r].input["screenplayDraft"] = head["screenplayDraft"]
        BY <1>6, <2>3, NullAssumption DEF Prerequisite, Role
      <3>2. ASSUME "sceneList" \in DOMAIN revisions[r].input
            PROVE  revisions[r].input["sceneList"] = head["sceneList"]
        <4>1. /\ "sceneList" \in DOMAIN revisions[head["screenplayDraft"]].input
              /\ revisions[head["screenplayDraft"]].input["sceneList"] = revisions[r].input["sceneList"]
          BY <1>8, <3>1, <3>2 DEF ReadFor, Aligned
        <4>2. "screenplayDraft" \in Role /\ "sceneList" # "screenplayDraft"
          BY DEF Role
        <4> QED
          BY <1>2, <3>1, <4>1, <4>2 DEF HeadsBuildOnHeads
      <3> QED
        BY <1>8, <2>3, <3>1, <3>2 DEF ReadFor, InputRoles, Downstream
    <2> QED
      BY <1>1, <2>1, <2>2, <2>3 DEF Role
  <1>10. HeadsBuildOnHeads'
    <2> SUFFICES ASSUME NEW o \in Role, head'[o] # NULL
                 PROVE  /\ head'[o] \in Existing /\ revisions[head'[o]].role = o
                        /\ Prerequisite[o] # NULL => head'[Prerequisite[o]] # NULL
                        /\ \A s \in DOMAIN revisions[head'[o]].input \ {o} :
                             revisions[head'[o]].input[s] = head'[s]
      BY <1>1 DEF HeadsBuildOnHeads, Existing
    <2>1. CASE o = role
      <3>1. head'[o] = r
        BY <1>5, <2>1
      <3>2. Prerequisite[o] # NULL => Prerequisite[o] \in Role /\ Prerequisite[o] # role
                                      /\ Prerequisite[o] \notin Downstream[role]
        BY <2>1 DEF Prerequisite, Role, Downstream
      <3>3. DOMAIN revisions[r].input \subseteq Role
        BY <1>1, Fields, PartialMaps
      <3> QED
        BY <1>1, <1>5, <1>6, <1>9, <2>1, <3>1, <3>2, <3>3
    <2>2. CASE o # role
      <3>1. head'[o] = head[o] /\ o \notin Downstream[role]
        BY <1>5, <2>2
      <3>2. /\ head[o] \in Existing /\ revisions[head[o]].role = o
            /\ Prerequisite[o] # NULL => head[Prerequisite[o]] # NULL
            /\ \A s \in DOMAIN revisions[head[o]].input \ {o} :
                 revisions[head[o]].input[s] = head[s]
        BY <1>2, <3>1 DEF HeadsBuildOnHeads
      <3>3. ReadFor(o, revisions[head[o]].input, revisions, accepted)
        BY <1>2, <3>2 DEF RevisionsRead
      <3>4. \A s \in InputRoles[o] \cup {o} : s # role /\ s \notin Downstream[role] /\ s \in Role
        BY <1>1, <2>2, <3>1 DEF Role, Downstream, InputRoles
      <3>5. Prerequisite[o] # NULL => Prerequisite[o] \in InputRoles[o]
        BY DEF Prerequisite, InputRoles, Role
      <3> QED
        BY <1>5, <3>1, <3>2, <3>3, <3>4, <3>5 DEF ReadFor
    <2> QED
      BY <2>1, <2>2
  <1> QED
    BY <1>4, <1>7, <1>10 DEF History

\* What an author publishes is made from the head before it.
LEMMA PublishHistory ==
    ASSUME IInv, NEW q \in Request, copy[q.role] # NULL, Publish(q)
    PROVE  History'
  <1> DEFINE x == [role |-> q.role, task |-> NULL, input |-> CurrentInputs(q.role),
                   content |-> Authored(copy[q.role])]
  <1>1. q.role \in Role /\ copy[q.role] \in Content
    BY RequestFields, ScreenplayAssumption DEF Publish, CopyKind, IInv, TypeOK
  <1>2. x \in Revision
    BY <1>1, PublishedTyped DEF IInv
  <1>3. ReadFor(x.role, x.input, revisions, accepted)
    <2>1. \A s \in DOMAIN x.input : s = Prerequisite[q.role] /\ head[s] # NULL /\ x.input[s] = head[s] /\ s \in Role
      BY DEF CurrentInputs
    <2>2. DOMAIN x.input \subseteq InputRoles[q.role]
      BY <1>1, <2>1, NullAssumption DEF Prerequisite, InputRoles, Role
    <2> QED
      BY <1>1, <2>1, <2>2, HeadsRead
  <1>4. EpisodesFollowInput(x)
    <2>1. x.content.episodes = [e \in DOMAIN copy[q.role].episodes |-> Author]
      BY <1>1 DEF Authored, Content
    <2> QED
      BY <2>1 DEF EpisodesFollowInput
  <1>5. revisions' = Append(revisions, x) /\ UNCHANGED <<head, accepted, task>>
    BY DEF Publish
  <1> HIDE DEF x
  <1> QED
    BY <1>2, <1>3, <1>4, <1>5, HistoryAppended

\* What a task projects is made from what it has read, its baseline included.
LEMMA ProjectHistory ==
    ASSUME IInv, NEW t \in Task, NEW issues \in SUBSET Issue, Project(t, issues)
    PROVE  History'
  <1> DEFINE x == Candidate(t, issues)
  <1>1. task[t] # NULL /\ ScopeStands(t)
    BY DEF Project, MayProject
  <1>2. x \in Revision
    BY <1>1, CandidateTyped
  <1>3. x.role = task[t].target /\ x.input = task[t].scope
    BY DEF Candidate
  <1>4. ReadFor(x.role, x.input, revisions, accepted)
    BY <1>1, <1>3, TaskFields
  <1>5. ASSUME x.role = "screenplayDraft" PROVE EpisodesFollowInput(x)
    <2> DEFINE own == [e \in task[t].selected |-> task[t].scope["sceneList"]]
               older == revisions[task[t].scope["screenplayDraft"]]
    <2>1. task[t].target = "screenplayDraft" /\ "sceneList" \in DOMAIN x.input
      <3>1. task[t].target = "screenplayDraft"
        BY <1>3, <1>5
      <3>2. InputRoles[task[t].target] = {"sceneList"}
        BY <3>1 DEF InputRoles
      <3>3. InputRoles[task[t].target] \subseteq DOMAIN task[t].scope
        BY <1>1, TaskFields
      <3> QED
        BY <1>3, <3>1, <3>2, <3>3
    <2>2. x.content.episodes = Episodes(t)
      BY <2>1 DEF Candidate
    <2>3. CASE "screenplayDraft" \notin DOMAIN task[t].scope
      <3>1. Episodes(t) = own
        BY <2>1, <2>3 DEF Episodes
      <3> QED
        BY <1>3, <2>1, <2>2, <3>1 DEF EpisodesFollowInput
    <2>4. CASE "screenplayDraft" \in DOMAIN task[t].scope
      <3>1. Episodes(t) = Merged(own, older.content.episodes)
        BY <2>1, <2>4 DEF Episodes
      <3>2. older.role = "screenplayDraft" /\ task[t].scope["screenplayDraft"] \in Existing
        <4>1. head["screenplayDraft"] = task[t].scope["screenplayDraft"]
          BY <1>1, <2>4 DEF ScopeStands
        <4>2. task[t].scope["screenplayDraft"] \in Existing /\ task[t].scope["screenplayDraft"] \in Rev
          BY <1>1, <2>4, TaskFields
        <4>3. head["screenplayDraft"] # NULL /\ "screenplayDraft" \in Role
          <5>1. task[t].scope["screenplayDraft"] \in accepted
            BY <1>1, <2>4, TaskFields DEF ReadFor
          <5> QED
            BY <4>1, <4>2, NullAssumption DEF Role
        <4> QED
          BY <4>1, <4>2, <4>3 DEF IInv, History, HeadsBuildOnHeads
      <3>3. EpisodesFollowInput(older)
        BY <3>2 DEF IInv, History, RevisionsRead
      <3>4. "sceneList" \in DOMAIN older.input /\ older.input["sceneList"] = task[t].scope["sceneList"]
        BY <1>3, <1>4, <2>1, <2>4 DEF ReadFor, Aligned
      <3>5. \A e \in DOMAIN Merged(own, older.content.episodes) :
               \/ Merged(own, older.content.episodes)[e] = Author
               \/ Merged(own, older.content.episodes)[e] = task[t].scope["sceneList"]
        BY <3>3, <3>4 DEF EpisodesFollowInput, Merged
      <3> QED
        BY <1>3, <2>1, <2>2, <3>1, <3>5 DEF EpisodesFollowInput
    <2> QED
      BY <2>3, <2>4
  <1>6. revisions' = Append(revisions, x) /\ UNCHANGED <<head, accepted, task>>
    BY DEF Project, tasks
  <1> HIDE DEF x
  <1> QED
    BY <1>2, <1>4, <1>5, <1>6, HistoryAppended

\* A command of the author.
LEMMA TakeHistory ==
    ASSUME IInv, NEW q \in Request, NEW current, Admissible(q, current), Take(q),
           q.kind = "publish" => copy[q.role] # NULL
    PROVE  History'
  <1>1. CASE Rename(q) \/ SetLifecycle(q) \/ CopyFrom(q) \/ EditCopy(q) \/ Adjudicate(q) \/ Finalize(q)
    BY <1>1, HistoryUntouched DEF Rename, SetLifecycle, CopyFrom, EditCopy, Adjudicate, Finalize, aggregate
  <1>2. CASE Delete(q)
    <2>1. Existing' = {} /\ accepted' = {} /\ \A role \in Role : head'[role] = NULL
      BY <1>2 DEF Delete, Existing
    <2>2. \A t \in Task : task'[t] = NULL
      BY <1>2 DEF Delete
    <2> QED
      BY <2>1, <2>2 DEF History, AcceptedExists, RevisionsRead, TasksRead, HeadsAccepted, HeadsBuildOnHeads
  <1>3. CASE Publish(q)
    BY <1>3, PublishHistory DEF Publish
  <1> QED
    BY <1>1, <1>2, <1>3, AcceptHistory DEF Take

\* The agent.
LEMMA AgentHistory == ASSUME IInv, NEW t \in Task, Agent(t) PROVE History'
  <1>1. TypeOK
    BY DEF IInv
  <1>2. ASSUME NEW target \in Role, NEW revise \in BOOLEAN, NEW selected \in SUBSET Episode,
               Compile(t, target, revise, selected)
        PROVE  History'
    <2>1. /\ \A u \in Task \ {t} : task'[u] = task[u]
          /\ task'[t].target = target
          /\ DOMAIN task'[t].scope \subseteq InputRoles[target] \cup {target}
          /\ InputRoles[target] \subseteq DOMAIN task'[t].scope
          /\ \A s \in DOMAIN task'[t].scope : head[s] # NULL /\ task'[t].scope[s] = head[s]
      BY <1>1, <1>2, CompiledTyped
    <2> DEFINE m == task'[t].scope
    <2>2. ReadFor(target, m, revisions, accepted)
      <3> HIDE DEF m
      <3>1. /\ DOMAIN m \subseteq InputRoles[target] \cup {target}
            /\ \A s \in DOMAIN m : head[s] # NULL /\ m[s] = head[s]
        BY <2>1 DEF m
      <3> QED
        BY <3>1, HeadsRead
    <2>3. UNCHANGED <<revisions, head, accepted>>
      BY <1>2 DEF Compile, aggregate
    <2>4. accepted \subseteq Existing /\ Existing' = Existing
      BY <2>3 DEF IInv, History, AcceptedExists, Existing
    <2> QED
      BY <2>1, <2>2, <2>3, <2>4, HistoryKept
  <1>3. ASSUME NEW s, task[t] # NULL, task' = [task EXCEPT ![t].status = s], UNCHANGED aggregate
        PROVE  History'
    <2>1. /\ \A u \in Task \ {t} : task'[u] = task[u]
          /\ task'[t].target = task[t].target /\ task'[t].scope = task[t].scope
      BY <1>1, <1>3 DEF TypeOK, TaskRow
    <2> QED
      BY <1>3, <2>1, HistoryUntouched DEF aggregate
  <1>4. CASE UNCHANGED <<aggregate, task>>
    BY <1>4, HistoryUntouched DEF aggregate
  <1>5. CASE ProjectionRefused(t)
    BY <1>3, <1>4, <1>5 DEF ProjectionRefused
  <1>6. CASE EndTask(t) \/ Pause(t) \/ CancelPaused(t) \/ Resume(t) \/ ExecutorEnds(t)
    BY <1>3, <1>4, <1>6 DEF EndTask, Pause, CancelPaused, Resume, ExecutorEnds
  <1>7. CASE Truncate(t)
    <2>1. \A r \in accepted : r \in Existing /\ r \notin Discarded(t)
      BY DEF IInv, History, AcceptedExists, Discarded
    <2>2. /\ DOMAIN revisions' = DOMAIN revisions
          /\ \A r \in DOMAIN revisions :
                 /\ r \in Existing /\ r \notin Discarded(t) =>
                       /\ revisions'[r] \in Revision
                       /\ revisions'[r].role = revisions[r].role
                       /\ revisions'[r].input = revisions[r].input
                       /\ revisions'[r].content = revisions[r].content
                 /\ r \notin Existing \/ r \in Discarded(t) => revisions'[r] = NULL
      BY <1>1, <1>7, TruncatedTyped
    <2>3. \A r \in Existing' : r \in Existing /\ r \notin Discarded(t) /\ r \in DOMAIN revisions
      BY <2>2 DEF Existing
    <2>4. \A r \in Existing \ Discarded(t) : r \in Existing'
      BY <2>2, NullAssumption DEF Existing
    <2>5. \A u \in Task : task'[u] = NULL \/ task'[u] = task[u]
      BY <1>1, <1>7 DEF Truncate, TypeOK
    <2>6. head' = head /\ accepted' = accepted
      BY <1>7 DEF Truncate
    <2>7. \A r \in Existing \ Discarded(t) : r \in DOMAIN revisions
      BY DEF Existing
    <2> QED
      BY <2>1, <2>2, <2>3, <2>4, <2>5, <2>6, <2>7, HistoryKept
  <1> QED
    BY <1>2, <1>5, <1>6, <1>7, ProjectHistory DEF Agent

\* What steps there are, as the lemmas about commands take them.
LEMMA NextCases ==
    ASSUME IInv, [Next]_vars
    PROVE  \/ \E q \in Request, current \in BOOLEAN :
                 /\ Admissible(q, current) /\ Take(q) /\ request' = request
                 /\ q.kind = "publish" => copy[q.role] # NULL
           \/ \E c \in Client, q \in Offered : ~Waiting(c) /\ Send(c, q)
           \/ \E c \in Client : Answer(c) \/ Refuse(c)
           \/ \E t \in Task : Agent(t)
           \/ UNCHANGED vars
  <1> DEFINE Taken == \E q \in Request, current \in BOOLEAN :
                 /\ Admissible(q, current) /\ Take(q) /\ request' = request
                 /\ q.kind = "publish" => copy[q.role] # NULL
  <1>1. ASSUME NEW q \in Offered, TakeAtOnce(q) PROVE Taken
    <2>1. q \in Request
      BY OfferedTyped DEF IInv
    <2>2. q.kind = "publish" => copy[q.role] # NULL
      BY DEF Offered
    <2> QED
      BY <1>1, <2>1, <2>2 DEF TakeAtOnce
  <1>2. ASSUME NEW c \in Client, TakeLate(c) PROVE Taken
    <2>1. request[c] \in Request /\ Admissible(request[c], c \in fresh)
      BY <1>2, WaitingTyped DEF TakeLate, Unreplayed, IInv
    <2>2. request[c].kind = "publish" => copy[request[c].role] # NULL
      BY <2>1, AdmissibleFacts DEF PublishesCopy, IInv
    <2>3. (c \in fresh) \in BOOLEAN
      OBVIOUS
    <2>4. Take(request[c]) /\ request' = request
      BY <1>2 DEF TakeLate
    <2> QED
      BY <2>1, <2>2, <2>3, <2>4
  <1> HIDE DEF Taken
  <1>3. \/ Taken
        \/ \E c \in Client, q \in Offered : ~Waiting(c) /\ Send(c, q)
        \/ \E c \in Client : Answer(c) \/ Refuse(c)
        \/ \E t \in Task : Agent(t)
        \/ UNCHANGED vars
    BY <1>1, <1>2 DEF Next, Window
  <1> QED
    BY <1>3 DEF Taken

\* Every step keeps the history.
LEMMA HistoryStep == IInv /\ [Next]_vars => History'
  <1> SUFFICES ASSUME IInv, [Next]_vars PROVE History'
    OBVIOUS
  <1>1. ASSUME UNCHANGED aggregate, UNCHANGED tasks PROVE History'
    BY <1>1, HistoryUntouched DEF aggregate, tasks
  <1>2. CASE \E c \in Client, q \in Offered : ~Waiting(c) /\ Send(c, q)
    BY <1>1, <1>2 DEF Send
  <1>3. CASE \E c \in Client : Answer(c) \/ Refuse(c)
    BY <1>1, <1>3 DEF Answer, Refuse, Answered
  <1>4. CASE UNCHANGED vars
    BY <1>1, <1>4 DEF vars, aggregate, tasks
  <1> QED
    BY <1>2, <1>3, <1>4, NextCases, TakeHistory, AgentHistory

\* The inductive invariant.
LEMMA Inductive ==
    /\ Init => IInv
    /\ IInv /\ [Next]_vars => IInv'
  <1>1. ASSUME Init PROVE IInv
    <2> DEFINE first == [role |-> "sceneList", task |-> NULL, input |-> <<>>,
                         content |-> Written(Author, Episode, FALSE)]
    <2>1. first \in Revision
      <3>1. <<>> \in [{} -> Rev]
        OBVIOUS
      <3>2. <<>> \in Inputs /\ "sceneList" \in Role
        BY <3>1, PartialMaps DEF Role
      <3>3. Written(Author, Episode, FALSE) \in Content
        BY WrittenTyped
      <3> QED
        BY <3>2, <3>3, Fields
    <2>2. first.role = "sceneList" /\ first.input = <<>> /\ revisions = <<first>>
      BY <1>1 DEF Init
    <2> HIDE DEF first
    <2>3. /\ revisions \in Seq(Revision \cup {NULL}) /\ Len(revisions) = 1
          /\ DOMAIN revisions = {1} /\ revisions[1] = first
      BY <2>1, <2>2
    <2>4. 1 \in Rev /\ Existing = {1} /\ accepted = {1}
      <3>1. 1 \in Rev
        BY ScreenplayAssumption DEF Rev
      <3>2. first # NULL
        BY <2>1, NullAssumption
      <3>3. Existing = {1}
        BY <2>3, <3>2 DEF Existing
      <3> QED
        BY <1>1, <3>1, <3>3 DEF Init
    <2>5. \A role \in Role : /\ head[role] = IF role = "sceneList" THEN 1 ELSE NULL
                             /\ copy[role] = NULL
      BY <1>1 DEF Init
    <2>6. TypeOK
      <3>1. head \in [Role -> Rev \cup {NULL}] /\ copy \in [Role -> Content \cup {NULL}]
        BY <1>1, <2>4 DEF Init
      <3>2. decision \in [Rev \X Issue -> Status]
        BY <1>1 DEF Init, Status
      <3>3. request \in [Client -> Request \cup Ended]
        BY <1>1 DEF Init, Ended
      <3>4. Len(revisions) <= MaxRevisions
        BY <2>3, ScreenplayAssumption
      <3>5. task \in [Task -> TaskRow \cup {NULL}]
        BY <1>1 DEF Init
      <3>6. project \in [lifecycle : {"active", "archived"}, completed : BOOLEAN]
        BY <1>1 DEF Init
      <3>7. receipt = {} /\ fresh = {} /\ executing = {} /\ finalized = {}
        BY <1>1 DEF Init
      <3> QED
        BY <2>3, <2>4, <3>1, <3>2, <3>3, <3>4, <3>5, <3>6, <3>7 DEF TypeOK
    <2>7. ReadFor("sceneList", <<>>, revisions, accepted)
      BY DEF ReadFor, Aligned
    <2>8. AcceptedExists /\ RevisionsRead
      BY <2>2, <2>3, <2>4, <2>7 DEF AcceptedExists, RevisionsRead
    <2>9. TasksRead
      BY <1>1 DEF Init, TasksRead
    <2>10. HeadsAccepted /\ HeadsBuildOnHeads
      BY <2>2, <2>3, <2>4, <2>5 DEF HeadsAccepted, HeadsBuildOnHeads, Prerequisite, Role
    <2>11. PublishesCopy
      BY <1>1 DEF Init, PublishesCopy
    <2> QED
      BY <2>6, <2>8, <2>9, <2>10, <2>11 DEF IInv, History
  <1>2. IInv /\ [Next]_vars => IInv'
    BY TypeStep, HistoryStep, PublishesStep DEF IInv
  <1> QED
    BY <1>1, <1>2

-----------------------------------------------------------------------------
\* A finished project

\* A step that leaves the finalized pair, its texts and its decisions.
LEMMA FinalizedKept ==
    ASSUME FinalizedStands, UNCHANGED <<head, decision>>, finalized \subseteq finalized',
           project' # NULL /\ project'.completed => project # NULL /\ project.completed,
           \A r \in {head["screenplayDraft"], head["review"]} :
              project # NULL /\ project.completed => revisions'[r].content = revisions[r].content
    PROVE  FinalizedStands'
  BY DEF FinalizedStands

\* Accepted revisions keep their texts.
LEMMA TextsKept ==
    ASSUME IInv, FinalizedStands, project # NULL, project.completed,
           NEW r \in {head["screenplayDraft"], head["review"]}
    PROVE  r \in Existing /\ r \in accepted /\ r \in DOMAIN revisions
  <1>1. <<head["screenplayDraft"], head["review"]>> \in finalized /\ finalized \subseteq Rev \X Rev
    BY DEF FinalizedStands, IInv, TypeOK
  <1>2. head["screenplayDraft"] # NULL /\ head["review"] # NULL
    BY <1>1, NullAssumption
  <1>3. "screenplayDraft" \in Role /\ "review" \in Role
    BY DEF Role
  <1> QED
    BY <1>2, <1>3 DEF IInv, History, HeadsAccepted, AcceptedExists, Existing

\* A command of the author.
LEMMA TakeFinalized ==
    ASSUME IInv, FinalizedStands, NEW q \in Request, NEW current, Admissible(q, current), Take(q)
    PROVE  FinalizedStands'
  <1>1. project \in [lifecycle : {"active", "archived"}, completed : BOOLEAN]
    BY AdmissibleFacts DEF IInv, TypeOK
  <1>2. CASE Rename(q) \/ CopyFrom(q) \/ EditCopy(q)
    BY <1>2, FinalizedKept DEF Rename, CopyFrom, EditCopy, aggregate
  <1>3. CASE SetLifecycle(q)
    <2>1. project'.completed = project.completed
      BY <1>1, <1>3 DEF SetLifecycle
    <2> QED
      BY <1>1, <1>3, <2>1, AdmissibleFacts, FinalizedKept DEF SetLifecycle
  <1>4. CASE Delete(q)
    BY <1>4 DEF Delete, FinalizedStands
  <1>5. CASE Accept(q) \/ Adjudicate(q)
    <2>1. project'.completed = FALSE
      BY <1>1, <1>5 DEF Accept, Adjudicate
    <2> QED
      BY <2>1 DEF FinalizedStands
  <1>6. CASE Publish(q)
    <2>1. \A r \in DOMAIN revisions : revisions'[r] = revisions[r]
      BY <1>6, ExistingTyped DEF Publish, IInv, TypeOK
    <2> QED
      BY <1>6, <2>1, TextsKept, FinalizedKept DEF Publish
  <1>7. CASE Finalize(q)
    <2>1. CanFinalize(q.draft, q.review)
      BY <1>7, AdmissibleFacts DEF Finalize
    <2> QED
      BY <1>7, <2>1 DEF Finalize, CanFinalize, ReviewsHead, FinalizedStands
  <1> QED
    BY <1>2, <1>3, <1>4, <1>5, <1>6, <1>7 DEF Take

\* Every step keeps a finished project.
LEMMA FinalizedStep == IInv /\ FinalizedStands /\ [Next]_vars => FinalizedStands'
  <1> SUFFICES ASSUME IInv, FinalizedStands, [Next]_vars PROVE FinalizedStands'
    OBVIOUS
  <1>1. CASE UNCHANGED aggregate
    BY <1>1, FinalizedKept DEF aggregate
  <1>2. ASSUME NEW t \in Task, Agent(t) PROVE FinalizedStands'
    <2>1. CASE Truncate(t)
      <3>1. \A r \in accepted : revisions'[r].content = revisions[r].content
        <4> SUFFICES ASSUME NEW r \in accepted PROVE revisions'[r].content = revisions[r].content
          OBVIOUS
        <4>1. r \in Existing /\ r \in DOMAIN revisions /\ r \notin Discarded(t)
          BY DEF IInv, History, AcceptedExists, Existing, Discarded
        <4> QED
          BY <2>1, <4>1, TruncatedTyped DEF IInv
      <3> QED
        BY <2>1, <3>1, TextsKept, FinalizedKept DEF Truncate
    <2>2. ASSUME NEW issues \in SUBSET Issue, Project(t, issues) PROVE FinalizedStands'
      <3>1. \A r \in DOMAIN revisions : revisions'[r] = revisions[r]
        BY <2>2, ExistingTyped DEF Project, IInv, TypeOK
      <3> QED
        BY <2>2, <3>1, TextsKept, FinalizedKept DEF Project
    <2> QED
      BY <1>1, <1>2, <2>1, <2>2 DEF Agent, Compile, ProjectionRefused, EndTask, Pause, Resume, CancelPaused, ExecutorEnds
  <1>3. CASE \E c \in Client, q \in Offered : ~Waiting(c) /\ Send(c, q)
    BY <1>1, <1>3 DEF Send
  <1>4. CASE \E c \in Client : Answer(c) \/ Refuse(c)
    BY <1>1, <1>4 DEF Answer, Refuse, Answered
  <1>5. CASE UNCHANGED vars
    BY <1>1, <1>5 DEF vars, aggregate
  <1> QED
    BY <1>2, <1>3, <1>4, <1>5, NextCases, TakeFinalized

-----------------------------------------------------------------------------
\* Theorems

\* Revisions, heads, commands and tasks are well typed.
THEOREM ScreenplayTypeCorrect == Spec => []TypeOK
  <1>1. IInv => TypeOK
    BY DEF IInv
  <1> QED
    BY Inductive, <1>1, PTL DEF Spec

\* Every head stands on heads, whatever was accepted, restored or truncated since.
THEOREM HeadsAlwaysBuildOnHeads == Spec => []HeadsBuildOnHeads
  <1>1. IInv => HeadsBuildOnHeads
    BY DEF IInv, History
  <1> QED
    BY Inductive, <1>1, PTL DEF Spec

\* What agents wrote in the accepted draft is from the accepted scene list.
THEOREM EpisodesAlwaysFollowSceneList == Spec => []EpisodesFollowSceneList
  <1>1. IInv => EpisodesFollowSceneList
    <2> SUFFICES ASSUME IInv, head["screenplayDraft"] # NULL
                 PROVE  \A e \in DOMAIN revisions[head["screenplayDraft"]].content.episodes :
                           revisions[head["screenplayDraft"]].content.episodes[e] \in {Author, head["sceneList"]}
      BY DEF EpisodesFollowSceneList
    <2>1. "screenplayDraft" \in Role /\ "sceneList" # "screenplayDraft"
      BY DEF Role
    <2>2. /\ head["screenplayDraft"] \in Existing
          /\ revisions[head["screenplayDraft"]].role = "screenplayDraft"
          /\ \A s \in DOMAIN revisions[head["screenplayDraft"]].input \ {"screenplayDraft"} :
               revisions[head["screenplayDraft"]].input[s] = head[s]
      BY <2>1 DEF IInv, History, HeadsBuildOnHeads
    <2>3. EpisodesFollowInput(revisions[head["screenplayDraft"]])
      BY <2>2 DEF IInv, History, RevisionsRead
    <2> QED
      BY <2>1, <2>2, <2>3 DEF EpisodesFollowInput
  <1> QED
    BY Inductive, <1>1, PTL DEF Spec

\* Accepted revisions and what they were made from are never truncated.
THEOREM HistoryAlwaysStays == Spec => []HistoryStays
  <1>1. IInv => HistoryStays
    BY DEF IInv, History, AcceptedExists, RevisionsRead, ReadFor, HistoryStays
  <1> QED
    BY Inductive, <1>1, PTL DEF Spec

\* A finished project is what the author finished.
THEOREM FinalizedAlwaysStands == Spec => []FinalizedStands
  <1>1. Init => FinalizedStands
    BY DEF Init, FinalizedStands
  <1> QED
    BY Inductive, FinalizedStep, <1>1, PTL DEF Spec

\* Nothing that was committed is reported as refused, to a window or to a task.
THEOREM CommittedNeverRefused == Spec => CommittedIsNotRefused
  <1> DEFINE NotRefused == project' # NULL =>
        /\ \A c \in Client : Waiting(c) /\ c \in receipt => request'[c].kind # "refused"
        /\ \A t \in Task : task[t] # NULL /\ task[t].status = "running" /\ Projected(t)
             => task'[t].status # "refused"
  <1>1. IInv /\ [Next]_vars => NotRefused
    <2> SUFFICES ASSUME IInv, [Next]_vars, project' # NULL PROVE NotRefused
      OBVIOUS
    <2>1. TypeOK
      BY DEF IInv
    <2>2. CASE UNCHANGED <<request, task>>
      BY <2>2 DEF Waiting
    <2>3. ASSUME NEW q \in Request, NEW current, Admissible(q, current), Take(q), request' = request
          PROVE  NotRefused
      <3>1. task' = task
        BY <2>3 DEF Take, Rename, SetLifecycle, Delete, Accept, CopyFrom, EditCopy, Publish, Adjudicate, Finalize
      <3> QED
        BY <2>2, <2>3, <3>1
    <2>4. ASSUME NEW c \in Client, NEW q \in Offered, ~Waiting(c), Send(c, q) PROVE NotRefused
      <3>1. task' = task /\ \A d \in Client \ {c} : request'[d] = request[d]
        BY <2>1, <2>4 DEF Send, tasks, TypeOK
      <3> QED
        BY <2>4, <3>1 DEF Waiting
    <2>5. ASSUME NEW c \in Client, Answer(c) \/ Refuse(c) PROVE NotRefused
      <3>1. task' = task /\ \A d \in Client \ {c} : request'[d] = request[d]
        BY <2>1, <2>5 DEF Answer, Refuse, Answered, tasks, TypeOK
      <3>2. c \in receipt => request'[c].kind = "ok"
        BY <2>1, <2>5 DEF Answer, Refuse, Unreplayed, Answered, TypeOK
      <3> QED
        BY <3>1, <3>2 DEF Waiting
    <2>6. ASSUME NEW t \in Task, Agent(t) PROVE NotRefused
      <3>1. request' = request
        BY <2>6 DEF Agent, Compile, Project, ProjectionRefused, EndTask, Pause, Resume, CancelPaused,
           ExecutorEnds, Truncate, windows
      <3>2. \A u \in Task \ {t} : task'[u] = task[u]
        BY <2>1, <2>6, CompiledTyped DEF Agent, Project, ProjectionRefused, EndTask, Pause, Resume, CancelPaused,
           ExecutorEnds, Truncate, tasks, TypeOK
      <3>3. ASSUME task[t] # NULL, task[t].status = "running", Projected(t)
            PROVE  task'[t].status # "refused"
        <4>1. ~ProjectionRefused(t) /\ ~Truncate(t) /\ ~CancelPaused(t) /\ ~Resume(t)
              /\ ~\E target \in Role, revise \in BOOLEAN, selected \in SUBSET Episode :
                     Compile(t, target, revise, selected)
          BY <3>3 DEF ProjectionRefused, Unprojected, Truncate, Over, CancelPaused, Resume, Compile
        <4>2. CASE \E issues \in SUBSET Issue : Project(t, issues)
          BY <3>3, <4>2 DEF Project, tasks
        <4>3. CASE EndTask(t) \/ Pause(t)
          BY <2>1, <3>3, <4>3 DEF EndTask, Pause, TypeOK, TaskRow
        <4>4. CASE ExecutorEnds(t)
          BY <3>3, <4>4 DEF ExecutorEnds
        <4> QED
          BY <2>6, <4>1, <4>2, <4>3, <4>4 DEF Agent
      <3> QED
        BY <3>1, <3>2, <3>3 DEF Waiting
    <2>7. CASE UNCHANGED vars
      BY <2>2, <2>7 DEF vars
    <2> HIDE DEF NotRefused
    <2> QED
      BY <2>3, <2>4, <2>5, <2>6, <2>7, NextCases
  <1>2. CommittedIsNotRefused <=> [][NotRefused]_vars
    BY DEF CommittedIsNotRefused
  <1> HIDE DEF NotRefused
  <1> QED
    BY Inductive, <1>1, <1>2, PTL DEF Spec

\* An archived project does not move under the tasks and commands still on the way.
THEOREM ArchivedAlwaysStaysPut == Spec => ArchivedStaysPut
  <1> DEFINE Put == project # NULL /\ project.lifecycle = "archived" /\ project' # NULL =>
        /\ Len(revisions') = Len(revisions)
        /\ UNCHANGED <<head, accepted, decision, finalized, copy>>
        /\ project'.completed = project.completed
  <1>1. IInv /\ [Next]_vars => Put
    <2> SUFFICES ASSUME IInv, [Next]_vars, project # NULL, project.lifecycle = "archived", project' # NULL
                 PROVE  Put
      OBVIOUS
    <2>1. project \in [lifecycle : {"active", "archived"}, completed : BOOLEAN]
      BY DEF IInv, TypeOK
    <2>2. CASE UNCHANGED aggregate
      BY <2>2 DEF aggregate
    <2>3. ASSUME NEW q \in Request, NEW current, Admissible(q, current), Take(q) PROVE Put
      <3>1. q.kind \in {"archive", "restore", "delete"}
        BY <2>3 DEF Admissible, Active
      <3>3. q.kind # "delete"
        BY <2>3 DEF Take, Rename, SetLifecycle, Delete, Accept, CopyFrom, EditCopy, Publish, Adjudicate, Finalize
      <3>2. SetLifecycle(q)
        BY <2>3, <3>1, <3>3 DEF Take, Rename, Delete, Accept, CopyFrom, EditCopy, Publish, Adjudicate, Finalize
      <3> QED
        BY <2>1, <3>2 DEF SetLifecycle
    <2>4. ASSUME NEW t \in Task, Agent(t) PROVE Put
      <3>1. ~\E issues \in SUBSET Issue : Project(t, issues)
        BY DEF Project, MayProject, Active
      <3>2. CASE Truncate(t)
        BY <3>2, TruncatedTyped DEF Truncate, IInv
      <3> QED
        BY <2>2, <2>4, <3>1, <3>2 DEF Agent, Compile, ProjectionRefused, EndTask, Pause, Resume, CancelPaused, ExecutorEnds
    <2>5. CASE \E c \in Client, q \in Offered : ~Waiting(c) /\ Send(c, q)
      BY <2>2, <2>5 DEF Send
    <2>6. CASE \E c \in Client : Answer(c) \/ Refuse(c)
      BY <2>2, <2>6 DEF Answer, Refuse, Answered
    <2>7. CASE UNCHANGED vars
      BY <2>2, <2>7 DEF vars, aggregate
    <2> HIDE DEF Put
    <2> QED
      BY <2>3, <2>4, <2>5, <2>6, <2>7, NextCases
  <1>2. ArchivedStaysPut <=> [][Put]_vars
    BY DEF ArchivedStaysPut
  <1> HIDE DEF Put
  <1> QED
    BY Inductive, <1>1, <1>2, PTL DEF Spec
=============================================================================
