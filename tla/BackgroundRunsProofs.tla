------------------------- MODULE BackgroundRunsProofs -------------------------
(***************************************************************************)
(* Proofs about BackgroundRuns, for every number of calls, conversations   *)
(* and deletions, every cap and any number of mishaps and restarts.        *)
(***************************************************************************)
EXTENDS BackgroundRuns, FiniteSetTheorems, TLAPS

-----------------------------------------------------------------------------
(* Type correctness *)

\* What the types rest on: a call that was made has a conversation, a driver that has
\* returned has an outcome, a result that is sent was some call's, and a row that is not
\* there belongs to nobody.
TasksOK ==
    /\ task \in [Runs -> Task]
    /\ \A q \in Runs : /\ task[q].pc # "idle" => task[q].conv \in Conversations
                       /\ task[q].pc = "mark" => task[q].outcome \in Terminal
                       /\ resumes[q] = "wait" => task[q].pc # "idle"

RowsOK ==
    /\ rows \in [Runs -> Row]
    /\ \A q \in Runs : rows[q].status = "none" => rows[q].conv = NoConv

RegistryOK ==
    /\ handles \in [Runs -> {"none", "live", "cancelled"}]
    /\ resumes \in [Runs -> {"none", "wait", "over"}]
    /\ cancels \in [Runs -> {"idle", "signal"}]

HandlersOK ==
    /\ deletes \in [Conversations -> Deletion]
    /\ busy \subseteq Conversations /\ gone \subseteq Conversations

FaultsOK == sweep \in BOOLEAN /\ mishaps \in 0..MaxMishaps

TypeInv == TasksOK /\ RowsOK /\ RegistryOK /\ HandlersOK /\ FaultsOK

LEMMA TypeInvIsStronger == TypeInv => TypeOK
BY DEF TypeInv, TypeOK, TasksOK, RowsOK, RegistryOK, HandlersOK, FaultsOK

\* The statements of repository.rs keep the type of a row.
LEMMA RowTypes ==
    ASSUME NEW row \in Row, NEW status \in Terminal
    PROVE  /\ Settled(row, status) \in Row
           /\ MarkStatus(row, status) \in Row
           /\ Marked(row) \in Row
BY DEF Settled, MarkStatus, Marked, Row, NoRow, Active, Terminal

\* What they do to the status and the conversation.
LEMMA StatusAfter ==
    ASSUME NEW row \in Row, NEW status \in Terminal
    PROVE  /\ Settled(row, status).status = status
           /\ Settled(row, status).conv = row.conv
           /\ MarkStatus(row, status).status
                 = IF row.status \in Active THEN status ELSE row.status
           /\ MarkStatus(row, status).conv = row.conv
           /\ Marked(row).conv = row.conv
           /\ Marked(row).status = IF row.status = "pending" THEN "running" ELSE row.status
BY DEF Settled, MarkStatus, Marked, Row, NoRow, Active, Terminal

\* The flags of a row are Boolean.
LEMMA FlagTypes ==
    ASSUME NEW row \in Row, NEW b \in BOOLEAN
    PROVE  /\ [row EXCEPT !.missed = b] \in Row /\ [row EXCEPT !.lost = b] \in Row
           /\ [row EXCEPT !.recent = b] \in Row
BY DEF Row

LEMMA ConvType ==
    ASSUME NEW row \in Row
    PROVE  [row EXCEPT !.conv = NoConv] \in Row
BY DEF Row

\* A task's step keeps the types when what it leaves is a task.
LEMMA SetType ==
    ASSUME TasksOK, NEW r \in Runs, NEW t \in Task, Set(r, t), UNCHANGED resumes,
           t.pc # "idle", t.conv \in Conversations, t.pc = "mark" => t.outcome \in Terminal
    PROVE  TasksOK'
BY DEF TasksOK, Set

\* A statement on one row keeps the types when it does not remove the row.
LEMMA WriteType ==
    ASSUME RowsOK, NEW r \in Runs, NEW row \in Row, Write(r, row),
           row.status = "none" => row.conv = NoConv
    PROVE  RowsOK'
BY DEF RowsOK, Write

\* What a step leaves alone keeps its type.
LEMMA KeepTypes ==
    /\ TasksOK /\ UNCHANGED <<task, resumes>> => TasksOK'
    /\ RowsOK /\ UNCHANGED rows => RowsOK'
    /\ RegistryOK /\ UNCHANGED <<handles, resumes, cancels>> => RegistryOK'
    /\ HandlersOK /\ UNCHANGED <<deletes, busy, gone>> => HandlersOK'
    /\ FaultsOK /\ UNCHANGED <<sweep, mishaps>> => FaultsOK'
BY DEF TasksOK, RowsOK, RegistryOK, HandlersOK, FaultsOK

LEMMA MishapType == FaultsOK /\ Mishap /\ UNCHANGED sweep => FaultsOK'
BY SizesAssumption DEF FaultsOK, Mishap

\* The initial states have their types.
LEMMA InitType == Init => TypeInv
<1> SUFFICES ASSUME Init PROVE TypeInv
  OBVIOUS
<1> USE NamesAssumption, SizesAssumption DEF Init
<1>1. \A spec \in Specs : NoTask(spec) \in Task /\ NoTask(spec).pc = "idle"
  BY DEF NoTask, Task
<1>2. TasksOK
  BY <1>1 DEF TasksOK
<1>3. RowsOK
  BY DEF RowsOK, NoRow, Row
<1>4. HandlersOK
  BY DEF HandlersOK, NoDelete, Deletion
<1>5. RegistryOK
  BY DEF RegistryOK
<1>6. sweep \in BOOLEAN
  BY Zenon
<1>7. mishaps \in 0..MaxMishaps
  OBVIOUS
<1> QED BY <1>2, <1>3, <1>4, <1>5, <1>6, <1>7 DEF TypeInv, FaultsOK

\* A handler's steps.
LEMMA HandlerType ==
    ASSUME TypeInv, NEW r \in Runs, Handler(r) \/ HandlerFails(r) \/ \E c \in Conversations : Call(r, c)
    PROVE  TypeInv'
<1> USE DEF TypeInv, Elsewhere
<1>1. task[r] \in Task /\ rows[r] \in Row
  BY DEF TasksOK, RowsOK
<1>2. ASSUME NEW c \in Conversations, Call(r, c) PROVE TypeInv'
  <2>1. PICK cap \in Caps : Set(r, [task[r] EXCEPT !.pc = "called", !.conv = c, !.cap = cap])
    BY <1>2 DEF Call
  <2> DEFINE t == [task[r] EXCEPT !.pc = "called", !.conv = c, !.cap = cap]
  <2>2. t \in Task /\ t.pc = "called" /\ t.conv = c
    BY <1>1 DEF Task, Handling
  <2>3. TasksOK'
    BY <1>2, <2>1, <2>2, SetType DEF Call
  <2> QED BY <1>2, <2>3, KeepTypes DEF Call
<1>3. CASE Lock(r)
  <2>1. [task[r] EXCEPT !.pc = "locked"] \in Task
    BY <1>1 DEF Task, Handling, Guarding
  <2>2. task[r].conv \in Conversations
    BY <1>3 DEF Lock, At, TasksOK
  <2>3. TasksOK'
    BY <1>1, <1>3, <2>1, <2>2, SetType DEF Lock, Go, Set, Task
  <2> QED BY <1>3, <2>3, KeepTypes DEF Lock
<1>4. ASSUME NEW pc \in {"room", "inserted", "registered", "done"}
      PROVE  /\ [task[r] EXCEPT !.pc = pc] \in Task
             /\ [task[r] EXCEPT !.pc = pc, !.cap = 0] \in Task
  BY <1>1 DEF Task, Handling, Guarding
<1>5. task[r].pc # "idle" => task[r].conv \in Conversations
  BY DEF TasksOK
<1>6. ASSUME Over(r), task[r].pc # "idle", UNCHANGED resumes PROVE TasksOK'
  <2> DEFINE t == [task[r] EXCEPT !.pc = "done", !.cap = 0]
  <2>1. t \in Task /\ t.pc = "done" /\ t.conv \in Conversations
    BY <1>1, <1>4, <1>5, <1>6 DEF Task
  <2> QED BY <1>6, <2>1, SetType DEF Over
<1>7. CASE Guard(r)
  <2>1. CASE Go(r, "room")
    <3>1. task[r].conv \in Conversations
      BY <1>5, <1>7 DEF Guard, At
    <3>2. TasksOK'
      BY <1>1, <1>4, <1>7, <2>1, <3>1, SetType DEF Guard, Go, Set, Task
    <3> QED BY <1>7, <3>2, KeepTypes DEF Guard
  <2>2. CASE Over(r)
    BY <1>6, <1>7, <2>2, KeepTypes DEF Guard, At
  <2> QED BY <1>7, <2>1, <2>2 DEF Guard
<1>8. CASE Insert(r)
  <2> DEFINE c == task[r].conv
             row == [NoRow EXCEPT !.status = "pending", !.conv = c, !.missed = Deleting(c)]
  <2>1. c \in Conversations
    BY <1>5, <1>8 DEF Insert, At
  <2>2. Deleting(c) \in BOOLEAN
    BY DEF Deleting
  <2>3. row \in Row /\ row.status = "pending"
    BY <2>1, <2>2 DEF Row, NoRow, Active
  <2>4. CASE Over(r) /\ UNCHANGED rows
    BY <1>6, <1>8, <2>4, KeepTypes DEF Insert, At
  <2>5. CASE Set(r, [task[r] EXCEPT !.pc = "inserted", !.cap = 0]) /\ Write(r, row)
    <3> DEFINE t == [task[r] EXCEPT !.pc = "inserted", !.cap = 0]
    <3>3. t \in Task /\ t.pc = "inserted" /\ t.conv \in Conversations
      BY <1>1, <1>4, <2>1 DEF Task
    <3>1. TasksOK'
      BY <1>8, <2>5, <3>3, SetType DEF Insert
    <3>2. RowsOK'
      BY <2>3, <2>5, WriteType
    <3> QED BY <1>8, <3>1, <3>2, KeepTypes DEF Insert
  <2> QED BY <1>8, <2>4, <2>5 DEF Insert
<1>9. CASE Register(r)
  <2>1. task[r].conv \in Conversations
    BY <1>5, <1>9 DEF Register, At
  <2>2. TasksOK'
    BY <1>1, <1>4, <1>9, <2>1, SetType DEF Register, Go, Set, Task
  <2>3. RegistryOK'
    BY <1>9 DEF Register, RegistryOK
  <2> QED BY <1>9, <2>2, <2>3, KeepTypes DEF Register
<1>10. RowsOK => (rows[r].status = "none" => rows[r].conv = NoConv)
  BY DEF RowsOK
<1>11. CASE MarkRunning(r)
  <2> DEFINE t == [task[r] EXCEPT !.pc = IF IsSubAgent(r) THEN "boundary" ELSE "exec",
                                  !.watch = "new"]
  <2>1. t \in Task /\ t.pc \in {"boundary", "exec"} /\ t.conv \in Conversations
    BY <1>1, <1>5, <1>11 DEF Task, Driving, MarkRunning, At
  <2>2. TasksOK'
    BY <1>11, <2>1, SetType DEF MarkRunning
  <2>3. RowsOK'
    BY <1>1, <1>10, <1>11, RowTypes, StatusAfter, WriteType DEF MarkRunning, Terminal
  <2> QED BY <1>11, <2>2, <2>3, KeepTypes DEF MarkRunning
<1>12. CASE HandlerFails(r)
  <2>1. PICK row \in {rows[r], Marked(rows[r])} : Write(r, [row EXCEPT !.lost = row.status \in Active])
    BY <1>12 DEF HandlerFails
  <2>2. row \in Row /\ (row.status = "none" => row.conv = NoConv)
    <3>1. "failed" \in Terminal /\ (rows[r].status = "none" => rows[r].conv = NoConv)
      BY <1>10 DEF Terminal
    <3>2. Marked(rows[r]) \in Row /\ Marked(rows[r]).conv = rows[r].conv
      BY <1>1, <3>1, RowTypes, StatusAfter
    <3>3. Marked(rows[r]).status = "none" => rows[r].status = "none"
      BY <1>1, <3>1, StatusAfter
    <3> QED BY <1>1, <3>1, <3>2, <3>3
  <2>3. (row.status \in Active) \in BOOLEAN
    OBVIOUS
  <2>4. [row EXCEPT !.lost = row.status \in Active] \in Row
    BY <2>2, <2>3, FlagTypes
  <2>5. RowsOK'
    BY <2>1, <2>2, <2>4, WriteType DEF Row
  <2> QED BY <1>6, <1>12, <2>5, KeepTypes, MishapType DEF HandlerFails, Handling, Guarding
<1> QED BY <1>2, <1>3, <1>7, <1>8, <1>9, <1>11, <1>12 DEF Handler

\* The end of a driver.
LEMMA EndType ==
    ASSUME TypeInv, NEW r \in Runs, task[r].pc # "idle", NEW outcome \in Terminal,
           NEW text, End(r, outcome, text), UNCHANGED <<rows, handles, Elsewhere, mishaps>>
    PROVE  TypeInv'
<1> USE DEF TypeInv
<1> DEFINE t == [task[r] EXCEPT !.pc = "mark", !.outcome = outcome, !.step = 1,
                                !.watch = "off"]
<1>1. task[r] \in Task /\ task[r].conv \in Conversations
  BY DEF TasksOK
<1>2. 1 \in 1..MaxSteps
  BY SizesAssumption
<1>3. t \in Task
  BY <1>1, <1>2 DEF Task
<1>4. t.pc = "mark" /\ t.outcome = outcome /\ t.conv \in Conversations
  BY <1>1 DEF Task
<1>5. task' = [task EXCEPT ![r] = t]
  BY DEF End, Set
<1>6. resumes' = resumes \/ resumes' = [resumes EXCEPT ![r] = "wait"]
  BY Zenon DEF End
<1>7. RegistryOK'
  BY <1>6 DEF RegistryOK, Elsewhere
<1>8. TasksOK'
  BY <1>3, <1>4, <1>5, <1>6 DEF TasksOK, RegistryOK
<1> QED BY <1>7, <1>8, KeepTypes DEF Elsewhere

\* A driver's steps, and those of its waiter.
LEMMA DriverType ==
    ASSUME TypeInv, NEW r \in Runs, Driver(r) \/ TaskPanics(r) \/ Test(r) \/ Listen(r) \/ Age(r)
    PROVE  TypeInv'
<1> USE DEF TypeInv, Elsewhere
<1>1. task[r] \in Task /\ rows[r] \in Row
  BY DEF TasksOK, RowsOK
<1>2. \A o \in {"completed", "failed", "cancelled"} : o \in Terminal
  BY DEF Terminal
<1>3. (rows[r].status = "none" => rows[r].conv = NoConv)
  BY DEF RowsOK
<1>4. CASE Boundary(r)
  <2>1. CASE Go(r, "model") /\ UNCHANGED resumes
    <3>1. [task[r] EXCEPT !.pc = "model"] \in Task
      BY <1>1 DEF Task, Driving
    <3>2. TasksOK'
      BY <1>1, <1>4, <2>1, <3>1, SetType DEF Boundary, At, TasksOK, Go, Set, Task
    <3> QED BY <1>4, <2>1, <3>2, KeepTypes DEF Boundary
  <2> QED BY <1>2, <1>4, <2>1, EndType DEF Boundary, At
<1>5. CASE Round(r)
  <2> DEFINE t == [task[r] EXCEPT !.pc = "boundary", !.step = @ + 1]
  <2>1. CASE task[r].step < MaxSteps /\ Set(r, t) /\ UNCHANGED resumes
    <3>1. task[r].step + 1 \in 1..MaxSteps
      BY <1>1, <2>1, SizesAssumption DEF Task
    <3>2. t \in Task /\ t.pc = "boundary" /\ t.conv \in Conversations
      BY <1>1, <1>5, <3>1 DEF Round, At, TasksOK, Task, Driving
    <3>3. TasksOK'
      BY <2>1, <3>2, SetType
    <3> QED BY <1>5, <2>1, <3>3, KeepTypes DEF Round
  <2> QED BY <1>2, <1>5, <2>1, EndType DEF Round, At
<1>6. CASE Exec(r)
  BY <1>2, <1>6, EndType DEF Exec, At
<1>7. CASE Mark(r)
  <2> DEFINE t == [task[r] EXCEPT !.pc = "done", !.outcome = "none"]
  <2>1. t \in Task /\ t.pc = "done" /\ t.conv \in Conversations
    BY <1>1, <1>7 DEF Mark, At, TasksOK, Task
  <2>2. TasksOK'
    BY <1>7, <2>1, SetType DEF Mark
  <2>3. RegistryOK'
    BY <1>7 DEF Mark, RegistryOK
  <2>4. task[r].outcome \in Terminal
    BY <1>7 DEF Mark, At, TasksOK
  <2>5. CASE Write(r, MarkStatus(rows[r], task[r].outcome)) /\ UNCHANGED mishaps
    <3> DEFINE row == MarkStatus(rows[r], task[r].outcome)
    <3>1. row \in Row /\ row.conv = rows[r].conv
      BY <1>1, <2>4, RowTypes, StatusAfter
    <3>2. row.status = "none" => rows[r].status = "none"
      BY <1>1, <2>4, StatusAfter DEF Terminal
    <3>3. RowsOK'
      BY <1>3, <2>5, <3>1, <3>2, WriteType
    <3> QED BY <1>7, <2>2, <2>3, <2>5, <3>3, KeepTypes DEF Mark
  <2>6. CASE Mishap /\ Write(r, [rows[r] EXCEPT !.lost = IsActive(r)])
    <3>1. IsActive(r) \in BOOLEAN
      BY DEF IsActive
    <3> DEFINE row == [rows[r] EXCEPT !.lost = IsActive(r)]
    <3>2. row \in Row
      BY <1>1, <3>1, FlagTypes
    <3>3. row.status = rows[r].status /\ row.conv = rows[r].conv
      BY <1>1 DEF Row
    <3>4. RowsOK'
      BY <1>3, <2>6, <3>2, <3>3, WriteType
    <3> QED BY <1>7, <2>2, <2>3, <2>6, <3>4, KeepTypes, MishapType DEF Mark
  <2> QED BY <1>7, <2>5, <2>6 DEF Mark
<1>8. CASE Test(r)
  <2>1. \A w \in {"fired", "tested"} : [task EXCEPT ![r].watch = w][r] \in Task
    BY <1>1 DEF TasksOK, Task
  <2>2. TasksOK'
    BY <1>8, <2>1 DEF Test, TasksOK, Task
  <2> QED BY <1>8, <2>2, KeepTypes DEF Test
<1>9. CASE Listen(r)
  <2>1. TasksOK'
    BY <1>9 DEF Listen, TasksOK, Task
  <2> QED BY <1>9, <2>1, KeepTypes DEF Listen
<1>10. CASE Age(r)
  <2> DEFINE row == [rows[r] EXCEPT !.recent = FALSE]
  <2>1. row \in Row
    BY <1>1, FlagTypes
  <2>2. row.status = rows[r].status /\ row.conv = rows[r].conv
    BY <1>1 DEF Row
  <2>3. RowsOK'
    BY <1>3, <1>10, <2>1, <2>2, WriteType DEF Age
  <2> QED BY <1>10, <2>3, KeepTypes DEF Age
<1>11. CASE TaskPanics(r)
  <2> DEFINE t == [task[r] EXCEPT !.pc = "done", !.step = 1, !.outcome = "none", !.watch = "off"]
             row == [rows[r] EXCEPT !.lost = IsActive(r)]
  <2>1. 1 \in 1..MaxSteps
    BY SizesAssumption
  <2>2. t \in Task /\ t.pc = "done" /\ t.conv \in Conversations
    BY <1>1, <1>11, <2>1 DEF TaskPanics, TasksOK, Task, Driving
  <2>3. TasksOK'
    BY <1>11, <2>2, SetType DEF TaskPanics
  <2>4. IsActive(r) \in BOOLEAN
    BY DEF IsActive
  <2>5. row \in Row
    BY <1>1, <2>4, FlagTypes
  <2>6. row.status = rows[r].status /\ row.conv = rows[r].conv
    BY <1>1 DEF Row
  <2>7. RowsOK'
    BY <1>3, <1>11, <2>5, <2>6, WriteType DEF TaskPanics
  <2> QED BY <1>11, <2>3, <2>7, KeepTypes, MishapType DEF TaskPanics
<1> QED BY <1>4, <1>5, <1>6, <1>7, <1>8, <1>9, <1>10, <1>11 DEF Driver

\* A signal keeps the types.
LEMMA SignalType ==
    ASSUME TypeInv, NEW r \in Runs, Signal(r), UNCHANGED resumes
    PROVE  /\ TasksOK' /\ handles' \in [Runs -> {"none", "live", "cancelled"}]
BY DEF TypeInv, TasksOK, RegistryOK, Signal, Task

\* Cancels, resumes and turns.
LEMMA CancelType ==
    ASSUME TypeInv, NEW r \in Runs, Cancel(r) \/ Resume(r)
    PROVE  TypeInv'
<1> USE DEF TypeInv
<1>1. rows[r] \in Row /\ (rows[r].status = "none" => rows[r].conv = NoConv)
  BY DEF RowsOK
<1>2. CASE CancelCas(r)
  <2>1. RegistryOK'
    BY <1>2 DEF CancelCas, RegistryOK
  <2> DEFINE row == MarkStatus(rows[r], "cancelled")
  <2>2. "cancelled" \in Terminal
    BY DEF Terminal
  <2>3. row \in Row /\ row.status = "cancelled"
    BY <1>1, <1>2, <2>2, RowTypes, StatusAfter DEF CancelCas, IsActive
  <2>4. RowsOK'
    BY <1>2, <2>3, WriteType DEF CancelCas
  <2> QED BY <1>2, <2>1, <2>4, KeepTypes DEF CancelCas
<1>3. CASE CancelSignal(r)
  <2>1. TasksOK' /\ RegistryOK'
    BY <1>3, SignalType DEF CancelSignal, RegistryOK
  <2> QED BY <1>3, <2>1, KeepTypes DEF CancelSignal
<1>4. CASE CancelFails(r)
  <2>1. RegistryOK'
    BY <1>4 DEF CancelFails, RegistryOK
  <2> QED BY <1>4, <2>1, KeepTypes, MishapType DEF CancelFails
<1>5. CASE Resume(r)
  <2>1. RegistryOK'
    BY <1>5 DEF Resume, RegistryOK
  <2>2. task[r].conv \in Conversations
    BY <1>5 DEF Resume, TasksOK
  <2>3. HandlersOK'
    BY <1>5, <2>2 DEF Resume, HandlersOK
  <2>4. TasksOK'
    BY <1>5 DEF Resume, TasksOK, RegistryOK
  <2> QED BY <1>5, <2>1, <2>3, <2>4, KeepTypes DEF Resume
<1> QED BY <1>2, <1>3, <1>4, <1>5 DEF Cancel

\* The deletion of a conversation, and its turns.
LEMMA DeletesType ==
    ASSUME TypeInv, NEW c \in Conversations, Deletes(c) \/ TurnBegins(c) \/ TurnEnds(c)
    PROVE  TypeInv'
<1> USE DEF TypeInv
<1>1. deletes \in [Conversations -> Deletion] /\ rows \in [Runs -> Row]
  BY DEF HandlersOK, RowsOK
<1>2. CASE TurnBegins(c) \/ TurnEnds(c)
  <2>1. HandlersOK'
    BY <1>2 DEF TurnBegins, TurnEnds, HandlersOK
  <2> QED BY <1>2, <2>1, KeepTypes DEF TurnBegins, TurnEnds
<1>3. NoDelete \in Deletion
  BY DEF NoDelete, Deletion
<1>4. CASE DeleteList(c)
  <2>1. PICK fails \in BOOLEAN :
          /\ IF fails THEN Mishap ELSE UNCHANGED mishaps
          /\ Delete(c, [pc |-> "cancel", todo |-> IF fails THEN {} ELSE Listed(c), hit |-> {}])
          /\ rows' = [r \in Runs |-> IF r \in ActiveIn(c)
                                     THEN [rows[r] EXCEPT !.missed = fails] ELSE rows[r]]
    BY <1>4 DEF DeleteList
  <2>2. \A r \in Runs : [rows[r] EXCEPT !.missed = fails] \in Row
    BY <1>1, FlagTypes
  <2>3. \A r \in Runs : /\ [rows[r] EXCEPT !.missed = fails].status = rows[r].status
                        /\ [rows[r] EXCEPT !.missed = fails].conv = rows[r].conv
    BY <1>1 DEF Row
  <2>4. RowsOK'
    BY <2>1, <2>2, <2>3 DEF RowsOK
  <2>5. Listed(c) \subseteq Runs
    BY DEF Listed, ActiveIn
  <2>6. HandlersOK'
    BY <1>4, <2>1, <2>5 DEF DeleteList, Delete, HandlersOK, Deletion
  <2>7. FaultsOK'
    BY <1>4, <2>1, KeepTypes, MishapType DEF DeleteList
  <2> QED BY <1>4, <2>4, <2>6, <2>7, KeepTypes DEF DeleteList
<1>5. CASE DeleteCas(c)
  <2>1. PICK r \in deletes[c].todo :
          \/ /\ Write(r, MarkStatus(rows[r], "cancelled"))
             /\ Delete(c, [deletes[c] EXCEPT !.todo = @ \ {r},
                                             !.hit = IF IsActive(r) THEN {r} ELSE {}])
             /\ UNCHANGED mishaps
          \/ /\ Mishap
             /\ Write(r, [rows[r] EXCEPT !.missed = IsActive(r)])
             /\ Delete(c, [deletes[c] EXCEPT !.todo = @ \ {r}])
    BY <1>5 DEF DeleteCas
  <2>2. r \in Runs
    BY <1>1 DEF Deletion
  <2>3. rows[r] \in Row /\ (rows[r].status = "none" => rows[r].conv = NoConv)
    BY <2>2 DEF RowsOK
  <2> DEFINE more == [deletes[c] EXCEPT !.todo = @ \ {r}]
             hits == [deletes[c] EXCEPT !.todo = @ \ {r},
                                        !.hit = IF IsActive(r) THEN {r} ELSE {}]
  <2>9. more \in Deletion /\ hits \in Deletion
    BY <1>1, <2>2 DEF Deletion
  <2>10. Delete(c, more) \/ Delete(c, hits)
    BY <2>1
  <2>4. HandlersOK'
    BY <1>5, <2>9, <2>10 DEF DeleteCas, Delete, HandlersOK
  <2>5. FaultsOK'
    BY <1>5, <2>1, KeepTypes, MishapType DEF DeleteCas
  <2>6. ASSUME Write(r, MarkStatus(rows[r], "cancelled")) PROVE RowsOK'
    <3> DEFINE row == MarkStatus(rows[r], "cancelled")
    <3>1. "cancelled" \in Terminal
      BY DEF Terminal
    <3>2. row \in Row /\ row.conv = rows[r].conv
      BY <2>3, <3>1, RowTypes, StatusAfter
    <3>3. row.status = "none" => rows[r].status = "none"
      BY <2>3, <3>1, StatusAfter
    <3> QED BY <2>2, <2>3, <2>6, <3>2, <3>3, WriteType
  <2>7. ASSUME Write(r, [rows[r] EXCEPT !.missed = IsActive(r)]) PROVE RowsOK'
    <3> DEFINE row == [rows[r] EXCEPT !.missed = IsActive(r)]
    <3>1. IsActive(r) \in BOOLEAN
      BY DEF IsActive
    <3>2. row \in Row
      BY <2>3, <3>1, FlagTypes
    <3>3. row.status = rows[r].status /\ row.conv = rows[r].conv
      BY <2>3 DEF Row
    <3> QED BY <2>2, <2>3, <2>7, <3>2, <3>3, WriteType
  <2>8. RowsOK'
    BY <2>1, <2>6, <2>7
  <2> QED BY <1>5, <2>4, <2>5, <2>8, KeepTypes DEF DeleteCas
<1>6. CASE DeleteSignal(c)
  <2>1. PICK r \in deletes[c].hit : Signal(r)
    BY <1>6 DEF DeleteSignal
  <2>2. r \in Runs
    BY <1>1 DEF Deletion
  <2>3. TasksOK' /\ RegistryOK'
    BY <1>6, <2>1, <2>2, SignalType DEF DeleteSignal, RegistryOK
  <2>4. [deletes[c] EXCEPT !.hit = {}] \in Deletion
    BY <1>1 DEF Deletion
  <2>5. HandlersOK'
    BY <1>6, <2>4 DEF DeleteSignal, Delete, HandlersOK
  <2> QED BY <1>6, <2>3, <2>5, KeepTypes DEF DeleteSignal
<1>7. CASE DeleteRow(c)
  <2>1. \A r \in Runs : [rows[r] EXCEPT !.conv = NoConv] \in Row
    BY <1>1, ConvType
  <2>2. RowsOK'
    BY <1>1, <1>7, <2>1 DEF DeleteRow, RowsOK, Row
  <2>3. HandlersOK'
    BY <1>3, <1>7 DEF DeleteRow, Delete, HandlersOK
  <2>4. UNCHANGED <<task, handles, resumes, cancels, sweep, mishaps>>
    BY <1>7 DEF DeleteRow
  <2> QED BY <2>2, <2>3, <2>4, KeepTypes
<1>8. CASE DeleteFails(c)
  <2>1. HandlersOK'
    BY <1>3, <1>8 DEF DeleteFails, Delete, HandlersOK
  <2>2. UNCHANGED <<task, rows, handles, resumes, cancels, sweep>> /\ Mishap
    BY <1>8 DEF DeleteFails
  <2> QED BY <2>1, <2>2, KeepTypes, MishapType
<1> QED BY <1>2, <1>4, <1>5, <1>6, <1>7, <1>8 DEF Deletes

\* A restart and the sweep after it.
LEMMA BootType ==
    ASSUME TypeInv, Crash \/ Sweep
    PROVE  TypeInv'
<1> USE DEF TypeInv
<1>1. \A r \in Runs : task[r] \in Task /\ rows[r] \in Row
  BY DEF TasksOK, RowsOK
<1>2. CASE Crash
  <2>1. \A r \in Runs : task[r].pc # "idle" =>
          /\ [NoTask(task[r].spec) EXCEPT !.pc = "done", !.conv = task[r].conv] \in Task
          /\ [NoTask(task[r].spec) EXCEPT !.pc = "done", !.conv = task[r].conv].pc = "done"
          /\ [NoTask(task[r].spec) EXCEPT !.pc = "done", !.conv = task[r].conv].conv = task[r].conv
    <3>1. 1 \in 1..MaxSteps
      BY SizesAssumption
    <3> QED BY <1>1, <3>1 DEF NoTask, Task
  <2>2. \A r \in Runs : resumes'[r] # "wait"
    BY <1>2 DEF Crash
  <2>3. TasksOK'
    BY <1>1, <1>2, <2>1, <2>2 DEF Crash, TasksOK, At
  <2>4. \A r \in Runs : /\ [rows[r] EXCEPT !.old = TRUE, !.lost = FALSE] \in Row
                        /\ [rows[r] EXCEPT !.old = TRUE, !.lost = FALSE].status = rows[r].status
                        /\ [rows[r] EXCEPT !.old = TRUE, !.lost = FALSE].conv = rows[r].conv
    <3>1. ASSUME NEW row \in Row
          PROVE  /\ [row EXCEPT !.old = TRUE, !.lost = FALSE] \in Row
                 /\ [row EXCEPT !.old = TRUE, !.lost = FALSE].status = row.status
                 /\ [row EXCEPT !.old = TRUE, !.lost = FALSE].conv = row.conv
      BY DEF Row
    <3> QED BY <1>1, <3>1
  <2>5. RowsOK'
    BY <1>2, <2>4 DEF Crash, RowsOK
  <2>6. RegistryOK'
    BY <1>2 DEF Crash, RegistryOK
  <2>7. HandlersOK'
    BY <1>2 DEF Crash, HandlersOK, NoDelete, Deletion
  <2>8. sweep' \in BOOLEAN
    BY <1>2, Zenon DEF Crash
  <2>9. mishaps' \in 0..MaxMishaps
    <3>1. mishaps \in 0..MaxMishaps /\ mishaps < MaxMishaps /\ mishaps' = mishaps + 1
      BY <1>2 DEF Crash, Mishap, FaultsOK
    <3> QED BY <3>1, SizesAssumption
  <2> QED BY <2>3, <2>5, <2>6, <2>7, <2>8, <2>9 DEF FaultsOK
<1>3. CASE Sweep
  <2>1. PICK fails \in BOOLEAN :
          rows' = [r \in Runs |-> IF ~Swept(r) THEN rows[r]
                                  ELSE IF fails THEN [rows[r] EXCEPT !.lost = TRUE]
                                  ELSE Settled(rows[r], "failed")]
    BY <1>3 DEF Sweep
  <2>2. \A r \in Runs : Swept(r) => rows[r].status # "none"
    BY DEF Swept, IsActive, Active
  <2>3. \A r \in Runs : Settled(rows[r], "failed") \in Row /\ Settled(rows[r], "failed").status # "none"
    BY <1>1, RowTypes, StatusAfter DEF Terminal
  <2>4. \A r \in Runs : /\ [rows[r] EXCEPT !.lost = TRUE] \in Row
                        /\ [rows[r] EXCEPT !.lost = TRUE].status = rows[r].status
    BY <1>1 DEF Row
  <2>5. RowsOK'
    BY <2>1, <2>2, <2>3, <2>4 DEF RowsOK
  <2>6. FaultsOK'
    BY <1>3 DEF Sweep, FaultsOK
  <2> QED BY <1>3, <2>5, <2>6, KeepTypes DEF Sweep
<1> QED BY <1>2, <1>3

\* Every step keeps the types.
LEMMA NextType == TypeInv /\ [Next]_vars => TypeInv'
<1> SUFFICES ASSUME TypeInv, [Next]_vars PROVE TypeInv'
  OBVIOUS
<1>1. CASE UNCHANGED vars
  BY <1>1, KeepTypes DEF TypeInv, vars
<1>2. CASE Next
  <2>1. ASSUME NEW r \in Runs,
               \/ \E c \in Conversations : Call(r, c)
               \/ Handler(r) \/ HandlerFails(r)
               \/ Driver(r) \/ TaskPanics(r) \/ Test(r) \/ Listen(r) \/ Age(r)
               \/ Resume(r) \/ Cancel(r)
        PROVE  TypeInv'
    BY <2>1, HandlerType, DriverType, CancelType
  <2> QED BY <1>2, <2>1, DeletesType, BootType DEF Next
<1> QED BY <1>1, <1>2

\* The type invariant: in every reachable state each variable has its type, so a driver
\* that has returned has an outcome, and a call under way belongs to a conversation.
THEOREM BackgroundType == Spec => []TypeOK
<1>1. Spec => []TypeInv
  BY InitType, NextType, PTL DEF Spec
<1> QED BY <1>1, TypeInvIsStronger, PTL

-----------------------------------------------------------------------------
(* A driver agrees with its row *)

\* Whoever has heard of a cancel: a handle, a handler that still has to signal, the
\* waiter of a driver, a driver that has stopped for it.
Heard(r) ==
    \/ handles[r] = "cancelled"
    \/ cancels[r] = "signal"
    \/ \E c \in Conversations : r \in deletes[c].hit
    \/ Fired(r)
    \/ task[r].outcome = "cancelled"

\* The row follows the call and its task, except that it may be cancelled under them;
\* it is the sweep's only when both are gone; and who has heard of a cancel is right.
Agrees(r) ==
    /\ task[r].pc \in {"idle", "called"} \cup Guarding => rows[r].status = "none"
    /\ task[r].pc \in {"inserted", "registered"} => rows[r].status \in {"pending", "cancelled"}
    /\ task[r].pc \in Driving \cup {"mark"} => rows[r].status \in {"running", "cancelled"}
    /\ task[r].pc # "done" => ~rows[r].old
    /\ Heard(r) => rows[r].status = "cancelled"

AgreeInv == \A r \in Runs : Agrees(r)

LEMMA InitAgrees == Init => AgreeInv
<1> SUFFICES ASSUME Init, NEW r \in Runs PROVE Agrees(r)
  BY DEF AgreeInv
<1>1. PICK spec \in Specs : task[r] = NoTask(spec)
  BY DEF Init
<1>2. \A c \in Conversations : deletes[c].hit = {}
  BY DEF Init, NoDelete
<1> QED BY <1>1, <1>2 DEF Init, NoTask, NoRow, Agrees, Heard, Fired, Handling, Guarding, Driving

\* A run whose task, handle and cancels are left alone agrees as long as its row keeps
\* its status, or is cancelled, and its age.
LEMMA AgreesKept ==
    ASSUME NEW q \in Runs, Agrees(q), task'[q] = task[q], handles'[q] = handles[q],
           cancels'[q] = "signal" => cancels[q] = "signal" \/ rows'[q].status = "cancelled",
           \A c \in Conversations :
              q \in deletes'[c].hit => q \in deletes[c].hit \/ rows'[q].status = "cancelled",
           \/ rows'[q].status = rows[q].status
           \/ rows[q].status # "none" /\ rows'[q].status = "cancelled",
           rows'[q].old => rows[q].old \/ task[q].pc = "done"
    PROVE  Agrees(q)'
BY DEF Agrees, Heard, Fired, Guarding, Driving

\* A step of one run's call or task is its own affair.
LEMMA OneAgrees ==
    ASSUME AgreeInv, TypeInv, NEW r \in Runs, UNCHANGED <<cancels, deletes>>,
           UNCHANGED task \/ \E t : Set(r, t),
           UNCHANGED rows \/ \E row : Write(r, row),
           UNCHANGED handles \/ \E h : handles' = [handles EXCEPT ![r] = h],
           Agrees(r)'
    PROVE  AgreeInv'
<1> SUFFICES ASSUME NEW q \in Runs, q # r PROVE Agrees(q)'
  BY DEF AgreeInv
<1>1. task'[q] = task[q] /\ rows'[q] = rows[q] /\ handles'[q] = handles[q]
  BY DEF Set, Write, TypeInv, TasksOK, RowsOK, RegistryOK
<1> QED BY <1>1, AgreesKept DEF AgreeInv

LEMMA HandlerAgrees ==
    ASSUME AgreeInv, TypeInv, NEW r \in Runs,
           Handler(r) \/ HandlerFails(r) \/ \E c \in Conversations : Call(r, c)
    PROVE  AgreeInv'
<1>1. Agrees(r)
  BY DEF AgreeInv
<1>2. task[r] \in Task /\ rows[r] \in Row /\ task \in [Runs -> Task] /\ rows \in [Runs -> Row]
  BY DEF TypeInv, TasksOK, RowsOK
<1>3. handles \in [Runs -> {"none", "live", "cancelled"}]
  BY DEF TypeInv, RegistryOK
<1>4. ASSUME NEW c \in Conversations, Call(r, c) PROVE AgreeInv'
  <2>1. task'[r].pc = "called" /\ task'[r].watch = task[r].watch /\ task'[r].outcome = task[r].outcome
    <3>1. PICK cap \in Caps : Set(r, [task[r] EXCEPT !.pc = "called", !.conv = c, !.cap = cap])
      BY <1>4 DEF Call
    <3>2. task'[r] = [task[r] EXCEPT !.pc = "called", !.conv = c, !.cap = cap]
      BY <1>2, <3>1 DEF Set
    <3> QED BY <1>2, <3>2 DEF Task
  <2>2. Agrees(r)'
    BY <1>1, <1>4, <2>1 DEF Call, At, Elsewhere, Agrees, Heard, Fired, Handling, Guarding, Driving
  <2> QED BY <1>4, <2>2, OneAgrees DEF Call, Elsewhere
<1>5. CASE Lock(r)
  <2>1. task'[r].pc = "locked" /\ task'[r].watch = task[r].watch /\ task'[r].outcome = task[r].outcome
    BY <1>2, <1>5 DEF Lock, Go, Task
  <2>2. Agrees(r)'
    BY <1>1, <1>5, <2>1 DEF Lock, At, Elsewhere, Agrees, Heard, Fired, Handling, Guarding, Driving
  <2> QED BY <1>5, <2>2, OneAgrees DEF Lock, Go, Set, Elsewhere
<1>6. ASSUME Over(r)
      PROVE /\ task'[r].pc = "done" /\ task'[r].watch = task[r].watch
            /\ task'[r].outcome = task[r].outcome
  BY <1>2, <1>6 DEF Over, Set, Task
<1>7. CASE Guard(r)
  <2>1. /\ task'[r].pc \in {"room", "done"} /\ task'[r].watch = task[r].watch
        /\ task'[r].outcome = task[r].outcome
    BY <1>2, <1>6, <1>7 DEF Guard, Go, Task
  <2>2. Agrees(r)'
    BY <1>1, <1>7, <2>1 DEF Guard, At, Elsewhere, Agrees, Heard, Fired, Handling, Guarding, Driving
  <2> QED BY <1>7, <2>2, OneAgrees DEF Guard, Go, Set, Over, Elsewhere
<1>8. CASE Insert(r)
  <2>1. rows[r].status = "none" /\ ~Heard(r) /\ ~rows[r].old
    BY <1>1, <1>8 DEF Insert, At, Agrees, Guarding
  <2>2. CASE Over(r) /\ UNCHANGED rows
    <3>1. Agrees(r)'
      BY <1>6, <1>8, <2>1, <2>2 DEF Insert, Elsewhere, Agrees, Heard, Fired, Handling, Guarding, Driving
    <3> QED BY <1>8, <2>2, <3>1, OneAgrees DEF Insert, Over, Elsewhere
  <2>3. CASE /\ Set(r, [task[r] EXCEPT !.pc = "inserted", !.cap = 0])
             /\ Write(r, [NoRow EXCEPT !.status = "pending", !.conv = task[r].conv,
                                       !.missed = Deleting(task[r].conv)])
    <3>1. /\ task'[r].pc = "inserted" /\ task'[r].watch = task[r].watch
          /\ task'[r].outcome = task[r].outcome
      BY <1>2, <2>3 DEF Set, Task
    <3>2. rows'[r].status = "pending" /\ ~rows'[r].old
      BY <1>2, <2>3 DEF Write, NoRow
    <3>3. Agrees(r)'
      BY <1>8, <2>1, <3>1, <3>2 DEF Insert, Elsewhere, Agrees, Heard, Fired, Handling, Guarding, Driving
    <3> QED BY <1>8, <2>3, <3>3, OneAgrees DEF Insert, Elsewhere
  <2> QED BY <1>8, <2>2, <2>3 DEF Insert
<1>9. CASE Register(r)
  <2>1. /\ task'[r].pc = "registered" /\ task'[r].watch = task[r].watch
        /\ task'[r].outcome = task[r].outcome
    BY <1>2, <1>9 DEF Register, Go, Task
  <2>2. handles'[r] = "live"
    BY <1>3, <1>9 DEF Register
  <2>3. Agrees(r)'
    BY <1>1, <1>9, <2>1, <2>2 DEF Register, At, Elsewhere, Agrees, Heard, Fired, Handling, Guarding, Driving
  <2> QED BY <1>9, <2>3, OneAgrees DEF Register, Go, Set, Elsewhere
<1>10. "failed" \in Terminal
  BY DEF Terminal
<1>11. /\ Marked(rows[r]).status = IF rows[r].status = "pending" THEN "running" ELSE rows[r].status
       /\ Marked(rows[r]).old = rows[r].old /\ Marked(rows[r]) \in Row
  BY <1>2, <1>10, StatusAfter, RowTypes DEF Marked, Row
<1>12. CASE MarkRunning(r)
  <2>1. /\ task'[r].pc \in {"boundary", "exec"} /\ task'[r].watch = "new"
        /\ task'[r].outcome = task[r].outcome
    BY <1>2, <1>12 DEF MarkRunning, Set, Task
  <2>2. rows'[r] = Marked(rows[r])
    BY <1>2, <1>12 DEF MarkRunning, Write
  <2>3. Agrees(r)'
    BY <1>1, <1>11, <1>12, <2>1, <2>2 DEF MarkRunning, At, Elsewhere, Agrees, Heard, Fired, Handling, Guarding, Driving
  <2> QED BY <1>12, <2>3, OneAgrees DEF MarkRunning, Elsewhere
<1>13. CASE HandlerFails(r)
  <2>1. PICK row \in {rows[r], Marked(rows[r])} : Write(r, [row EXCEPT !.lost = row.status \in Active])
    BY <1>13 DEF HandlerFails
  <2>2. rows'[r].status = row.status
    BY <1>2, <1>11, <2>1 DEF Write, Row
  <2>3. Heard(r) => rows'[r].status = "cancelled"
    BY <1>1, <1>11, <2>2 DEF Agrees
  <2>4. Agrees(r)'
    BY <1>6, <1>13, <2>3 DEF HandlerFails, Elsewhere, Agrees, Heard, Fired, Handling, Guarding, Driving
  <2> QED BY <1>13, <2>1, <2>4, OneAgrees DEF HandlerFails, Over, Elsewhere
<1> QED BY <1>4, <1>5, <1>7, <1>8, <1>9, <1>12, <1>13 DEF Handler

\* The end of a driver, which is a cancelled one only when its waiter has heard so.
LEMMA EndAgrees ==
    ASSUME AgreeInv, TypeInv, NEW r \in Runs, task[r].pc \in Driving,
           NEW outcome \in Terminal, outcome = "cancelled" => Fired(r),
           NEW text, End(r, outcome, text), UNCHANGED <<rows, handles, Elsewhere>>
    PROVE  AgreeInv'
<1>1. Agrees(r) /\ task[r] \in Task
  BY DEF AgreeInv, TypeInv, TasksOK
<1>2. task'[r].pc = "mark" /\ task'[r].watch = "off" /\ task'[r].outcome = outcome
  BY <1>1 DEF End, Set, TypeInv, TasksOK, Task
<1>3. Agrees(r)'
  BY <1>1, <1>2 DEF Elsewhere, Agrees, Heard, Fired, Handling, Guarding, Driving
<1> QED BY <1>3, OneAgrees DEF End, Elsewhere

LEMMA DriverAgrees ==
    ASSUME AgreeInv, TypeInv, NEW r \in Runs, Driver(r) \/ TaskPanics(r) \/ Test(r) \/ Listen(r) \/ Age(r)
    PROVE  AgreeInv'
<1>1. Agrees(r)
  BY DEF AgreeInv
<1>2. task[r] \in Task /\ rows[r] \in Row /\ task \in [Runs -> Task] /\ rows \in [Runs -> Row]
  BY DEF TypeInv, TasksOK, RowsOK
<1>3. \A o \in {"completed", "failed", "cancelled"} : o \in Terminal
  BY DEF Terminal
<1>4. \A pc \in {"boundary", "model", "exec"} : pc \in Driving
  BY DEF Driving
<1>5. CASE Boundary(r)
  <2>1. CASE Go(r, "model") /\ UNCHANGED resumes
    <3>1. /\ task'[r].pc = "model" /\ task'[r].watch = task[r].watch
          /\ task'[r].outcome = task[r].outcome
      BY <1>2, <2>1 DEF Go, Task
    <3>2. Agrees(r)'
      BY <1>1, <1>5, <3>1 DEF Boundary, At, Elsewhere, Agrees, Heard, Fired, Handling, Guarding, Driving
    <3> QED BY <1>5, <2>1, <3>2, OneAgrees DEF Boundary, Go, Set, Elsewhere
  <2> QED BY <1>3, <1>4, <1>5, <2>1, EndAgrees DEF Boundary, At
<1>6. CASE Round(r)
  <2>1. CASE Set(r, [task[r] EXCEPT !.pc = "boundary", !.step = @ + 1]) /\ UNCHANGED resumes
    <3>1. /\ task'[r].pc = "boundary" /\ task'[r].watch = task[r].watch
          /\ task'[r].outcome = task[r].outcome
      BY <1>2, <2>1 DEF Set, Task
    <3>2. Agrees(r)'
      BY <1>1, <1>6, <3>1 DEF Round, At, Elsewhere, Agrees, Heard, Fired, Handling, Guarding, Driving
    <3> QED BY <1>6, <2>1, <3>2, OneAgrees DEF Round, Elsewhere
  <2> QED BY <1>3, <1>4, <1>6, <2>1, EndAgrees DEF Round, At
<1>7. CASE Exec(r)
  BY <1>3, <1>4, <1>7, EndAgrees DEF Exec, At
<1>8. CASE Mark(r)
  <2>1. /\ task'[r].pc = "done" /\ task'[r].watch = task[r].watch
        /\ task'[r].outcome = "none"
    BY <1>2, <1>8 DEF Mark, Set, Task
  <2>2. task[r].outcome \in Terminal
    BY <1>8 DEF Mark, At, TypeInv, TasksOK
  <2>3. rows[r].status = "cancelled" => rows'[r].status = "cancelled"
    BY <1>2, <1>8, <2>2, StatusAfter DEF Mark, Write, Row, Active
  <2>4. handles'[r] = "none"
    BY <1>8 DEF Mark, TypeInv, RegistryOK
  <2>5. Agrees(r)'
    BY <1>1, <1>8, <2>1, <2>3, <2>4 DEF Mark, Elsewhere, Agrees, Heard, Fired, Handling, Guarding, Driving
  <2> QED BY <1>8, <2>5, OneAgrees DEF Mark, Elsewhere
<1>9. CASE Test(r)
  <2> DEFINE w == IF handles[r] = "cancelled" THEN "fired" ELSE "tested"
  <2>1. Set(r, [task[r] EXCEPT !.watch = w])
    BY <1>2, <1>9 DEF Test, Set
  <2>2. task'[r].pc = task[r].pc /\ task'[r].watch = w /\ task'[r].outcome = task[r].outcome
    BY <1>2, <2>1 DEF Set, Task
  <2>3. Agrees(r)'
    BY <1>1, <1>9, <2>2 DEF Test, Elsewhere, Agrees, Heard, Fired
  <2> QED BY <1>9, <2>1, <2>3, OneAgrees DEF Test, Elsewhere
<1>10. CASE Listen(r)
  <2>1. Set(r, [task[r] EXCEPT !.watch = "listening"])
    BY <1>2, <1>10 DEF Listen, Set
  <2>2. /\ task'[r].pc = task[r].pc /\ task'[r].watch = "listening"
        /\ task'[r].outcome = task[r].outcome
    BY <1>2, <2>1 DEF Set, Task
  <2>3. Agrees(r)'
    BY <1>1, <1>10, <2>2 DEF Listen, Elsewhere, Agrees, Heard, Fired
  <2> QED BY <1>10, <2>1, <2>3, OneAgrees DEF Listen, Elsewhere
<1>11. CASE Age(r)
  <2>1. rows'[r].status = rows[r].status /\ rows'[r].old = rows[r].old
    BY <1>2, <1>11 DEF Age, Write, Row
  <2>2. Agrees(r)'
    BY <1>1, <1>11, <2>1 DEF Age, Elsewhere, Agrees, Heard, Fired
  <2> QED BY <1>11, <2>2, OneAgrees DEF Age, Elsewhere
<1>12. CASE TaskPanics(r)
  <2>1. /\ task'[r].pc = "done" /\ task'[r].watch = "off"
        /\ task'[r].outcome = "none"
    BY <1>2, <1>12 DEF TaskPanics, Set, Task
  <2>2. rows'[r].status = rows[r].status
    BY <1>2, <1>12 DEF TaskPanics, Write, Row
  <2>3. Agrees(r)'
    BY <1>1, <1>12, <2>1, <2>2
       DEF TaskPanics, Elsewhere, Agrees, Heard, Fired, Handling, Guarding, Driving
  <2> QED BY <1>12, <2>3, OneAgrees DEF TaskPanics, Elsewhere
<1> QED BY <1>5, <1>6, <1>7, <1>8, <1>9, <1>10, <1>11, <1>12 DEF Driver

\* A run is signalled only when its row is cancelled.
LEMMA SignalAgrees ==
    ASSUME AgreeInv, TypeInv, NEW r \in Runs, Signal(r), rows[r].status = "cancelled",
           UNCHANGED rows,
           \A q \in Runs : cancels'[q] = "signal" => cancels[q] = "signal",
           \A q \in Runs, c \in Conversations : q \in deletes'[c].hit => q \in deletes[c].hit
    PROVE  AgreeInv'
<1> SUFFICES ASSUME NEW q \in Runs PROVE Agrees(q)'
  BY DEF AgreeInv
<1>1. Agrees(q) /\ task[q] \in Task
  BY DEF AgreeInv, TypeInv, TasksOK
<1>2. CASE q = r
  <2>1. task'[r].pc = task[r].pc
    BY <1>1, <1>2 DEF Signal, TypeInv, TasksOK, Task
  <2> QED BY <1>1, <1>2, <2>1 DEF Agrees
<1>3. CASE q # r
  <2>1. task'[q] = task[q] /\ handles'[q] = handles[q]
    BY <1>3 DEF Signal, TypeInv, TasksOK, RegistryOK
  <2> QED BY <1>1, <2>1, AgreesKept
<1> QED BY <1>2, <1>3

LEMMA CancelAgrees ==
    ASSUME AgreeInv, TypeInv, NEW r \in Runs, Cancel(r) \/ Resume(r)
    PROVE  AgreeInv'
<1>1. rows \in [Runs -> Row] /\ cancels \in [Runs -> {"idle", "signal"}]
  BY DEF TypeInv, RowsOK, RegistryOK
<1>2. CASE CancelCas(r)
  <2> SUFFICES ASSUME NEW q \in Runs PROVE Agrees(q)'
    BY DEF AgreeInv
  <2>1. "cancelled" \in Terminal
    BY DEF Terminal
  <2>2. rows'[r].status = "cancelled" /\ ~rows'[r].old /\ rows[r].status # "none"
    BY <1>1, <1>2, <2>1, StatusAfter DEF CancelCas, IsActive, Write, MarkStatus, Settled, NoRow, Active
  <2>3. q # r => rows'[q] = rows[q] /\ cancels'[q] = cancels[q]
    BY <1>1, <1>2 DEF CancelCas, Write
  <2>4. Agrees(q)
    BY DEF AgreeInv
  <2> QED BY <1>2, <2>2, <2>3, <2>4, AgreesKept DEF CancelCas
<1>3. CASE CancelSignal(r)
  <2>1. rows[r].status = "cancelled"
    BY <1>3 DEF CancelSignal, AgreeInv, Agrees, Heard
  <2>2. \A q \in Runs : cancels'[q] = "signal" => cancels[q] = "signal"
    BY <1>1, <1>3 DEF CancelSignal
  <2> QED BY <1>3, <2>1, <2>2, SignalAgrees DEF CancelSignal
<1>4. CASE CancelFails(r) \/ Resume(r)
  <2> SUFFICES ASSUME NEW q \in Runs PROVE Agrees(q)'
    BY DEF AgreeInv
  <2>1. cancels'[q] = "signal" => cancels[q] = "signal"
    BY <1>1, <1>4 DEF CancelFails, Resume
  <2>2. Agrees(q)
    BY DEF AgreeInv
  <2> QED BY <1>4, <2>1, <2>2, AgreesKept DEF CancelFails, Resume
<1> QED BY <1>2, <1>3, <1>4 DEF Cancel

LEMMA DeletesAgrees ==
    ASSUME AgreeInv, TypeInv, NEW c \in Conversations, Deletes(c) \/ TurnBegins(c) \/ TurnEnds(c)
    PROVE  AgreeInv'
<1>1. deletes \in [Conversations -> Deletion] /\ rows \in [Runs -> Row]
  BY DEF TypeInv, HandlersOK, RowsOK
<1>2. ASSUME NEW d, Delete(c, d), NEW q \in Runs, q \notin d.hit
      PROVE  \A k \in Conversations : q \in deletes'[k].hit => q \in deletes[k].hit
  BY <1>1, <1>2 DEF Delete
<1>3. CASE TurnBegins(c) \/ TurnEnds(c)
  <2> SUFFICES ASSUME NEW q \in Runs PROVE Agrees(q)'
    BY DEF AgreeInv
  <2> QED BY <1>3, AgreesKept DEF TurnBegins, TurnEnds, AgreeInv
<1>4. CASE DeleteList(c)
  <2> SUFFICES ASSUME NEW q \in Runs PROVE Agrees(q)'
    BY DEF AgreeInv
  <2>1. PICK fails \in BOOLEAN :
          /\ Delete(c, [pc |-> "cancel", todo |-> IF fails THEN {} ELSE Listed(c), hit |-> {}])
          /\ rows' = [r \in Runs |-> IF r \in ActiveIn(c)
                                     THEN [rows[r] EXCEPT !.missed = fails] ELSE rows[r]]
    BY <1>4 DEF DeleteList
  <2>2. rows'[q].status = rows[q].status /\ rows'[q].old = rows[q].old
    BY <1>1, <2>1 DEF Row
  <2>3. \A k \in Conversations : q \in deletes'[k].hit => q \in deletes[k].hit
    BY <1>2, <2>1
  <2> QED BY <1>4, <2>2, <2>3, AgreesKept DEF DeleteList, AgreeInv
<1>5. CASE DeleteCas(c)
  <2> SUFFICES ASSUME NEW q \in Runs PROVE Agrees(q)'
    BY DEF AgreeInv
  <2>1. PICK r \in deletes[c].todo :
          \/ /\ Write(r, MarkStatus(rows[r], "cancelled"))
             /\ Delete(c, [deletes[c] EXCEPT !.todo = @ \ {r},
                                             !.hit = IF IsActive(r) THEN {r} ELSE {}])
          \/ /\ Write(r, [rows[r] EXCEPT !.missed = IsActive(r)])
             /\ Delete(c, [deletes[c] EXCEPT !.todo = @ \ {r}])
    BY <1>5 DEF DeleteCas
  <2>2. r \in Runs
    BY <1>1 DEF Deletion
  <2>3. "cancelled" \in Terminal
    BY DEF Terminal
  <2>4. /\ MarkStatus(rows[r], "cancelled").status
             = IF IsActive(r) THEN "cancelled" ELSE rows[r].status
        /\ MarkStatus(rows[r], "cancelled").old => rows[r].old
    BY <1>1, <2>2, <2>3, StatusAfter DEF MarkStatus, Settled, NoRow, Row, IsActive
  <2>5. IsActive(r) => rows[r].status # "none"
    BY DEF IsActive, Active
  <2>6. CASE /\ Write(r, MarkStatus(rows[r], "cancelled"))
             /\ Delete(c, [deletes[c] EXCEPT !.todo = @ \ {r},
                                             !.hit = IF IsActive(r) THEN {r} ELSE {}])
    <3>1. /\ \/ rows'[q].status = rows[q].status
             \/ rows[q].status # "none" /\ rows'[q].status = "cancelled"
          /\ rows'[q].old => rows[q].old
      BY <1>1, <2>2, <2>4, <2>5, <2>6 DEF Write
    <3>2. [deletes[c] EXCEPT !.todo = @ \ {r}, !.hit = IF IsActive(r) THEN {r} ELSE {}].hit
             = IF IsActive(r) THEN {r} ELSE {}
      BY <1>1 DEF Deletion
    <3>3. IsActive(r) => rows'[r].status = "cancelled"
      BY <1>1, <2>2, <2>4, <2>6 DEF Write
    <3>4. \A k \in Conversations :
             q \in deletes'[k].hit => q \in deletes[k].hit \/ rows'[q].status = "cancelled"
      <4> SUFFICES ASSUME NEW k \in Conversations, q \in deletes'[k].hit, q \notin deletes[k].hit
                   PROVE  rows'[q].status = "cancelled"
        OBVIOUS
      <4>1. k = c
        BY <1>1, <2>6 DEF Delete
      <4>2. q \in IF IsActive(r) THEN {r} ELSE {}
        BY <1>1, <2>6, <3>2, <4>1 DEF Delete
      <4> QED BY <3>3, <4>2
    <3> QED BY <1>5, <3>1, <3>4, AgreesKept DEF DeleteCas, AgreeInv
  <2>7. CASE /\ Write(r, [rows[r] EXCEPT !.missed = IsActive(r)])
             /\ Delete(c, [deletes[c] EXCEPT !.todo = @ \ {r}])
    <3>1. rows'[q].status = rows[q].status /\ rows'[q].old = rows[q].old
      BY <1>1, <2>2, <2>7 DEF Write, Row
    <3>2. [deletes[c] EXCEPT !.todo = @ \ {r}].hit = deletes[c].hit
      BY <1>1 DEF Deletion
    <3>3. \A k \in Conversations : q \in deletes'[k].hit => q \in deletes[k].hit
      BY <1>1, <2>7, <3>2 DEF Delete
    <3> QED BY <1>5, <3>1, <3>3, AgreesKept DEF DeleteCas, AgreeInv
  <2> QED BY <2>1, <2>6, <2>7
<1>6. CASE DeleteSignal(c)
  <2>1. PICK r \in deletes[c].hit : Signal(r)
    BY <1>6 DEF DeleteSignal
  <2>2. r \in Runs
    BY <1>1 DEF Deletion
  <2>3. rows[r].status = "cancelled"
    BY <2>2 DEF AgreeInv, Agrees, Heard
  <2>4. [deletes[c] EXCEPT !.hit = {}].hit = {}
    BY <1>1 DEF Deletion
  <2>5. \A q \in Runs, k \in Conversations : q \in deletes'[k].hit => q \in deletes[k].hit
    BY <1>2, <1>6, <2>4 DEF DeleteSignal
  <2> QED BY <1>6, <2>1, <2>2, <2>3, <2>5, SignalAgrees DEF DeleteSignal
<1>7. CASE DeleteRow(c) \/ DeleteFails(c)
  <2> SUFFICES ASSUME NEW q \in Runs PROVE Agrees(q)'
    BY DEF AgreeInv
  <2>1. rows'[q].status = rows[q].status /\ rows'[q].old = rows[q].old
    BY <1>1, <1>7 DEF DeleteRow, DeleteFails, Row
  <2>2. Delete(c, NoDelete) /\ q \notin NoDelete.hit
    BY <1>7 DEF DeleteRow, DeleteFails, NoDelete
  <2>3. \A k \in Conversations : q \in deletes'[k].hit => q \in deletes[k].hit
    BY <1>2, <2>2
  <2> QED BY <1>7, <2>1, <2>3, AgreesKept DEF DeleteRow, DeleteFails, AgreeInv
<1> QED BY <1>3, <1>4, <1>5, <1>6, <1>7 DEF Deletes

\* After a restart no driver is left, and the sweep spares the rows of those that came since.
LEMMA BootAgrees ==
    ASSUME AgreeInv, TypeInv, Crash \/ Sweep
    PROVE  AgreeInv'
<1> SUFFICES ASSUME NEW q \in Runs PROVE Agrees(q)'
  BY DEF AgreeInv
<1>1. task[q] \in Task /\ rows[q] \in Row /\ Agrees(q)
  BY DEF AgreeInv, TypeInv, TasksOK, RowsOK
<1>2. CASE Crash
  <2>1. \A c \in Conversations : q \notin deletes'[c].hit
    BY <1>2 DEF Crash, NoDelete
  <2>2. handles'[q] # "cancelled" /\ cancels'[q] # "signal"
    BY <1>2 DEF Crash
  <2>3. CASE At(q, "idle")
    <3>1. task'[q] = task[q] /\ rows'[q] = rows[q]
      BY <1>1, <1>2, <2>3 DEF Crash, At, Agrees, IsActive, Active
    <3> QED BY <1>1, <2>1, <2>2, <2>3, <3>1 DEF Agrees, Heard, Fired, At, Handling, Guarding, Driving
  <2>4. CASE ~At(q, "idle")
    <3>1. task'[q] = [NoTask(task[q].spec) EXCEPT !.pc = "done", !.conv = task[q].conv]
      BY <1>2, <2>4 DEF Crash
    <3>2. task'[q].pc = "done" /\ task'[q].watch = "off" /\ task'[q].outcome = "none"
      BY <3>1 DEF NoTask
    <3> QED BY <2>1, <2>2, <3>2 DEF Agrees, Heard, Fired, Handling, Guarding, Driving
  <2> QED BY <2>3, <2>4
<1>3. CASE Sweep
  <2>1. PICK fails \in BOOLEAN :
          rows' = [r \in Runs |-> IF ~Swept(r) THEN rows[r]
                                  ELSE IF fails THEN [rows[r] EXCEPT !.lost = TRUE]
                                  ELSE Settled(rows[r], "failed")]
    BY <1>3 DEF Sweep
  <2>2. ~Swept(q) => rows'[q] = rows[q]
    BY <2>1
  <2>3. Swept(q) => task[q].pc = "done" /\ ~Heard(q)
    BY <1>1 DEF Swept, Agrees, IsActive, Active
  <2>4. UNCHANGED <<task, handles, cancels, deletes>>
    BY <1>3 DEF Sweep
  <2>5. CASE Swept(q)
    BY <2>3, <2>4, <2>5 DEF Agrees, Heard, Fired, Handling, Guarding, Driving
  <2>6. CASE ~Swept(q)
    BY <1>1, <2>2, <2>4, <2>6, AgreesKept
  <2> QED BY <2>5, <2>6
<1> QED BY <1>2, <1>3

LEMMA NextAgrees == TypeInv /\ AgreeInv /\ [Next]_vars => AgreeInv'
<1> SUFFICES ASSUME TypeInv, AgreeInv, [Next]_vars PROVE AgreeInv'
  OBVIOUS
<1>1. CASE UNCHANGED vars
  <2> SUFFICES ASSUME NEW q \in Runs PROVE Agrees(q)'
    BY DEF AgreeInv
  <2> QED BY <1>1, AgreesKept DEF AgreeInv, vars
<1>2. CASE Next
  <2>1. ASSUME NEW r \in Runs,
               \/ \E c \in Conversations : Call(r, c)
               \/ Handler(r) \/ HandlerFails(r)
               \/ Driver(r) \/ TaskPanics(r) \/ Test(r) \/ Listen(r) \/ Age(r)
               \/ Resume(r) \/ Cancel(r)
        PROVE  AgreeInv'
    BY <2>1, HandlerAgrees, DriverAgrees, CancelAgrees
  <2> QED BY <1>2, <2>1, DeletesAgrees, BootAgrees DEF Next
<1> QED BY <1>1, <1>2

\* A run with a driver is running or cancelled, whatever sweeps, cancels and deletions
\* write, and its driver stops for a cancel only when the row is cancelled.
THEOREM BackgroundDriverAgreesWithRow == Spec => []DriverAgreesWithRow
<1>1. TypeInv /\ AgreeInv => DriverAgreesWithRow
  BY DEF AgreeInv, Agrees, Heard, DriverAgreesWithRow
<1>2. Spec => [](TypeInv /\ AgreeInv)
  BY InitType, NextType, InitAgrees, NextAgrees, PTL DEF Spec
<1> QED BY <1>1, <1>2, PTL

-----------------------------------------------------------------------------
(* The guard of insert_background_run_guarded *)

\* A run that counts for somebody's guard: in flight, or just finished.
Counts(r) ==
    \/ IsActive(r)
    \/ rows[r].status \in {"completed", "failed"} /\ rows[r].recent

\* The advisory lock is exclusive in a conversation.
LockInv ==
    \A r, q \in Runs :
        /\ task[r].pc \in Guarding /\ task[q].pc \in Guarding
        /\ task[r].conv = task[q].conv
        => r = q

\* What the holder of the lock has found is still so when it inserts.
RoomInv == \A r \in Runs : At(r, "room") => Twins(r) = {} /\ Room(r)

\* There are finitely many rows.
There == {r \in Runs : rows[r].status # "none"}

FewInv == IsFiniteSet(There)

GuardInv == LockInv /\ RoomInv /\ FewInv

\* A row that a step does not insert: it comes to count for no guard it did not count for.
Calm(q) ==
    /\ rows'[q].status = "none" <=> rows[q].status = "none"
    /\ IsActive(q)' => IsActive(q)
    /\ Counts(q)' => Counts(q)
    /\ rows'[q].conv \in {rows[q].conv, NoConv}

\* The task of a run that its handler leaves alone: it does not come to hold the lock.
Same(q) ==
    /\ task'[q].spec = task[q].spec
    /\ task'[q].pc \in Guarding =>
          task'[q].pc = task[q].pc /\ task'[q].conv = task[q].conv /\ task'[q].cap = task[q].cap

LEMMA StatementsAreCalm ==
    ASSUME NEW row \in Row, NEW status \in Terminal
    PROVE  /\ MarkStatus(row, status).status = "none" <=> row.status = "none"
           /\ MarkStatus(row, status).status \in Active => row.status \in Active
           /\ MarkStatus(row, status) = row \/ row.status \in Active
           /\ Marked(row).status = "none" <=> row.status = "none"
           /\ Marked(row).status \in Active <=> row.status \in Active
           /\ Marked(row) = row \/ row.status \in Active
           /\ Marked(row).conv = row.conv /\ MarkStatus(row, status).conv = row.conv
BY DEF Settled, MarkStatus, Marked, Row, NoRow, Active, Terminal

\* Writing one row calmly.
LEMMA WriteCalm ==
    ASSUME RowsOK, NEW r \in Runs, NEW row \in Row, Write(r, row),
           row.status = "none" <=> rows[r].status = "none",
           row.status \in Active => rows[r].status \in Active,
           \/ rows[r].status \in Active
           \/ row.status = rows[r].status /\ (row.recent => rows[r].recent),
           row.conv = rows[r].conv
    PROVE  \A q \in Runs : Calm(q)
BY DEF RowsOK, Write, Calm, IsActive, Counts

LEMMA UnchangedCalm == UNCHANGED rows => \A q \in Runs : Calm(q)
BY DEF Calm, IsActive, Counts

LEMMA UnchangedSame == UNCHANGED task => \A q \in Runs : Same(q)
BY DEF Same

LEMMA SetSame ==
    ASSUME TasksOK, NEW r \in Runs, NEW t, Set(r, t), t.spec = task[r].spec, t.pc \notin Guarding
    PROVE  \A q \in Runs : Same(q)
BY DEF TasksOK, Set, Same

AllCalm == \A q \in Runs : Calm(q) /\ Same(q)

\* Whatever is done to a run outside its guard is calm.
LEMMA RunIsCalm ==
    ASSUME TypeInv, NEW r \in Runs,
           \/ \E c \in Conversations : Call(r, c)
           \/ Register(r) \/ MarkRunning(r) \/ HandlerFails(r)
           \/ Driver(r) \/ TaskPanics(r) \/ Test(r) \/ Listen(r) \/ Age(r)
           \/ Resume(r) \/ Cancel(r)
    PROVE  AllCalm
<1> USE DEF AllCalm
<1>1. task[r] \in Task /\ rows[r] \in Row /\ TasksOK /\ RowsOK /\ task \in [Runs -> Task]
  BY DEF TypeInv, TasksOK, RowsOK
<1>2. "failed" \in Terminal /\ "cancelled" \in Terminal
  BY DEF Terminal
<1>3. ASSUME NEW c \in Conversations, Call(r, c) PROVE AllCalm
  <2>1. PICK cap \in Caps : Set(r, [task[r] EXCEPT !.pc = "called", !.conv = c, !.cap = cap])
    BY <1>3 DEF Call
  <2>2. \A q \in Runs : Same(q)
    BY <1>1, <2>1, SetSame DEF Task, Guarding
  <2> QED BY <1>3, <2>2, UnchangedCalm DEF Call
<1>4. CASE Register(r)
  <2>1. \A q \in Runs : Same(q)
    BY <1>1, <1>4, SetSame DEF Register, Go, Set, Task, Guarding
  <2> QED BY <1>4, <2>1, UnchangedCalm DEF Register
<1>5. CASE MarkRunning(r)
  <2>1. \A q \in Runs : Same(q)
    BY <1>1, <1>5, SetSame DEF MarkRunning, Task, Guarding
  <2>2. \A q \in Runs : Calm(q)
    BY <1>1, <1>2, <1>5, RowTypes, StatementsAreCalm, WriteCalm DEF MarkRunning
  <2> QED BY <2>1, <2>2
<1>6. CASE HandlerFails(r)
  <2>1. \A q \in Runs : Same(q)
    BY <1>1, <1>6, SetSame DEF HandlerFails, Over, Task, Guarding
  <2>2. PICK row \in {rows[r], Marked(rows[r])} : Write(r, [row EXCEPT !.lost = row.status \in Active])
    BY <1>6 DEF HandlerFails
  <2>3. /\ row \in Row /\ row.conv = rows[r].conv
        /\ row.status = "none" <=> rows[r].status = "none"
        /\ row.status \in Active <=> rows[r].status \in Active
        /\ row = rows[r] \/ rows[r].status \in Active
    BY <1>1, <1>2, RowTypes, StatementsAreCalm
  <2> DEFINE lost == [row EXCEPT !.lost = row.status \in Active]
  <2>4. (row.status \in Active) \in BOOLEAN
    OBVIOUS
  <2>5. lost \in Row
    BY <2>3, <2>4, FlagTypes
  <2>6. lost.status = row.status /\ lost.recent = row.recent /\ lost.conv = row.conv
    BY <2>3 DEF Row
  <2>7. \A q \in Runs : Calm(q)
    BY <1>1, <2>2, <2>3, <2>5, <2>6, WriteCalm
  <2> QED BY <2>1, <2>7
<1>7. ASSUME NEW outcome, NEW text, End(r, outcome, text), UNCHANGED rows PROVE AllCalm
  <2>1. \A q \in Runs : Same(q)
    BY <1>1, <1>7, SetSame DEF End, Task, Guarding
  <2> QED BY <1>7, <2>1, UnchangedCalm
<1>8. CASE Boundary(r)
  <2>1. CASE Go(r, "model")
    <3>1. \A q \in Runs : Same(q)
      BY <1>1, <2>1, SetSame DEF Go, Set, Task, Guarding
    <3> QED BY <1>8, <3>1, UnchangedCalm DEF Boundary
  <2> QED BY <1>7, <1>8, <2>1 DEF Boundary
<1>9. CASE Round(r)
  <2>1. CASE Set(r, [task[r] EXCEPT !.pc = "boundary", !.step = @ + 1])
    <3>1. \A q \in Runs : Same(q)
      BY <1>1, <2>1, SetSame DEF Task, Guarding
    <3> QED BY <1>9, <3>1, UnchangedCalm DEF Round
  <2> QED BY <1>7, <1>9, <2>1 DEF Round
<1>10. CASE Exec(r)
  BY <1>7, <1>10 DEF Exec
<1>11. CASE Mark(r)
  <2>1. \A q \in Runs : Same(q)
    BY <1>1, <1>11, SetSame DEF Mark, Task, Guarding
  <2>2. task[r].outcome \in Terminal
    BY <1>1, <1>11 DEF Mark, At, TasksOK
  <2>3. CASE Write(r, MarkStatus(rows[r], task[r].outcome))
    <3>1. \A q \in Runs : Calm(q)
      BY <1>1, <2>2, <2>3, RowTypes, StatementsAreCalm, WriteCalm
    <3> QED BY <2>1, <3>1
  <2>4. CASE Write(r, [rows[r] EXCEPT !.lost = IsActive(r)])
    <3> DEFINE row == [rows[r] EXCEPT !.lost = IsActive(r)]
    <3>1. IsActive(r) \in BOOLEAN
      BY DEF IsActive
    <3>2. /\ row \in Row /\ row.status = rows[r].status
          /\ row.recent = rows[r].recent /\ row.conv = rows[r].conv
      BY <1>1, <3>1 DEF Row
    <3>3. \A q \in Runs : Calm(q)
      BY <1>1, <2>4, <3>2, WriteCalm
    <3> QED BY <2>1, <3>3
  <2> QED BY <1>11, <2>3, <2>4 DEF Mark
<1>12. CASE Test(r)
  BY <1>1, <1>12, UnchangedCalm DEF Test, Same, Task
<1>13. CASE Listen(r)
  BY <1>1, <1>13, UnchangedCalm DEF Listen, Same, Task
<1>14. CASE Age(r)
  <2> DEFINE row == [rows[r] EXCEPT !.recent = FALSE]
  <2>1. /\ row \in Row /\ row.status = rows[r].status /\ ~row.recent
        /\ row.conv = rows[r].conv
    BY <1>1 DEF Row
  <2>2. \A q \in Runs : Calm(q)
    BY <1>1, <1>14, <2>1, WriteCalm DEF Age
  <2> QED BY <1>14, <2>2, UnchangedSame DEF Age
<1>15. CASE Resume(r) \/ CancelFails(r)
  BY <1>15, UnchangedSame, UnchangedCalm DEF Resume, CancelFails
<1>16. CASE CancelCas(r)
  <2>1. \A q \in Runs : Calm(q)
    BY <1>1, <1>2, <1>16, RowTypes, StatementsAreCalm, WriteCalm DEF CancelCas
  <2> QED BY <1>16, <2>1, UnchangedSame DEF CancelCas
<1>17. CASE CancelSignal(r)
  BY <1>1, <1>17, UnchangedCalm DEF CancelSignal, Signal, Same, Task
<1>18. CASE TaskPanics(r)
  <2> DEFINE row == [rows[r] EXCEPT !.lost = IsActive(r)]
  <2>1. \A q \in Runs : Same(q)
    BY <1>1, <1>18, SetSame DEF TaskPanics, Task, Guarding, Driving
  <2>2. IsActive(r) \in BOOLEAN
    BY DEF IsActive
  <2>3. /\ row \in Row /\ row.status = rows[r].status
        /\ row.recent = rows[r].recent /\ row.conv = rows[r].conv
    BY <1>1, <2>2 DEF Row
  <2>4. \A q \in Runs : Calm(q)
    BY <1>1, <1>18, <2>3, WriteCalm DEF TaskPanics
  <2> QED BY <2>1, <2>4
<1> QED BY <1>3, <1>4, <1>5, <1>6, <1>8, <1>9, <1>10, <1>11, <1>12, <1>13, <1>14, <1>15, <1>16,
           <1>17, <1>18
    DEF Driver, Cancel

\* So are deletions, turns, restarts and the sweep.
LEMMA RestIsCalm ==
    ASSUME TypeInv,
           \/ \E c \in Conversations : Deletes(c) \/ TurnBegins(c) \/ TurnEnds(c)
           \/ Crash \/ Sweep
    PROVE  AllCalm
<1> USE DEF AllCalm
<1>1. TasksOK /\ RowsOK /\ task \in [Runs -> Task] /\ rows \in [Runs -> Row]
  BY DEF TypeInv, TasksOK, RowsOK
<1>2. "failed" \in Terminal /\ "cancelled" \in Terminal
  BY DEF Terminal
<1>3. ASSUME NEW c \in Conversations, Deletes(c) \/ TurnBegins(c) \/ TurnEnds(c) PROVE AllCalm
  <2>1. deletes[c].todo \subseteq Runs /\ deletes[c].hit \subseteq Runs
    BY DEF TypeInv, HandlersOK, Deletion
  <2>2. CASE TurnBegins(c) \/ TurnEnds(c) \/ DeleteFails(c)
    BY <2>2, UnchangedSame, UnchangedCalm DEF TurnBegins, TurnEnds, DeleteFails
  <2>3. CASE DeleteList(c)
    <3>1. \A q \in Runs : Calm(q)
      BY <1>1, <2>3 DEF DeleteList, Row, Calm, IsActive, Counts
    <3> QED BY <2>3, <3>1, UnchangedSame DEF DeleteList
  <2>4. CASE DeleteCas(c)
    <3>1. PICK r \in deletes[c].todo :
             \/ Write(r, MarkStatus(rows[r], "cancelled"))
             \/ Write(r, [rows[r] EXCEPT !.missed = IsActive(r)])
      BY <2>4 DEF DeleteCas
    <3>2. r \in Runs /\ rows[r] \in Row
      BY <1>1, <2>1
    <3>3. CASE Write(r, MarkStatus(rows[r], "cancelled"))
      <4>1. \A q \in Runs : Calm(q)
        BY <1>1, <1>2, <3>2, <3>3, RowTypes, StatementsAreCalm, WriteCalm
      <4> QED BY <2>4, <4>1, UnchangedSame DEF DeleteCas
    <3>4. CASE Write(r, [rows[r] EXCEPT !.missed = IsActive(r)])
      <4> DEFINE row == [rows[r] EXCEPT !.missed = IsActive(r)]
      <4>1. IsActive(r) \in BOOLEAN
        BY DEF IsActive
      <4>2. /\ row \in Row /\ row.status = rows[r].status
            /\ row.recent = rows[r].recent /\ row.conv = rows[r].conv
        BY <3>2, <4>1 DEF Row
      <4>3. \A q \in Runs : Calm(q)
        BY <1>1, <3>2, <3>4, <4>2, WriteCalm
      <4> QED BY <2>4, <4>3, UnchangedSame DEF DeleteCas
    <3> QED BY <3>1, <3>3, <3>4
  <2>5. CASE DeleteSignal(c)
    BY <1>1, <2>1, <2>5, UnchangedCalm DEF DeleteSignal, Signal, Same, Task
  <2>6. CASE DeleteRow(c)
    <3>1. \A q \in Runs : Calm(q)
      BY <1>1, <2>6 DEF DeleteRow, Row, Calm, IsActive, Counts
    <3> QED BY <2>6, <3>1, UnchangedSame DEF DeleteRow
  <2> QED BY <1>3, <2>2, <2>3, <2>4, <2>5, <2>6 DEF Deletes
<1>4. CASE Crash
  <2>1. \A q \in Runs : Calm(q)
    BY <1>1, <1>4 DEF Crash, Row, Calm, IsActive, Counts
  <2>2. \A q \in Runs : Same(q)
    BY <1>1, <1>4 DEF Crash, At, NoTask, Same, Guarding
  <2> QED BY <2>1, <2>2
<1>5. CASE Sweep
  <2>1. PICK fails \in BOOLEAN :
          rows' = [r \in Runs |-> IF ~Swept(r) THEN rows[r]
                                  ELSE IF fails THEN [rows[r] EXCEPT !.lost = TRUE]
                                  ELSE Settled(rows[r], "failed")]
    BY <1>5 DEF Sweep
  <2>2. ASSUME NEW q \in Runs PROVE Calm(q)
    <3>1. rows[q] \in Row /\ rows'[q] \in {rows[q], [rows[q] EXCEPT !.lost = TRUE],
                                           Settled(rows[q], "failed")}
      BY <1>1, <2>1
    <3>2. rows'[q] = Settled(rows[q], "failed") =>
             IsActive(q) \/ rows'[q] = rows[q] \/ rows'[q] = [rows[q] EXCEPT !.lost = TRUE]
      BY <2>1 DEF Swept
    <3>3. /\ [rows[q] EXCEPT !.lost = TRUE].status = rows[q].status
          /\ [rows[q] EXCEPT !.lost = TRUE].recent = rows[q].recent
          /\ [rows[q] EXCEPT !.lost = TRUE].conv = rows[q].conv
      BY <3>1 DEF Row
    <3>4. Settled(rows[q], "failed").status = "failed" /\ Settled(rows[q], "failed").conv = rows[q].conv
      BY <1>2, <3>1, StatusAfter
    <3> QED BY <3>1, <3>2, <3>3, <3>4 DEF Calm, IsActive, Counts, Active
  <2> QED BY <1>5, <2>2, UnchangedSame DEF Sweep
<1> QED BY <1>3, <1>4, <1>5

\* Every step is calm, or takes the lock, checks, or inserts.
LEMMA GuardStep ==
    ASSUME TypeInv, [Next]_vars
    PROVE  AllCalm \/ \E r \in Runs : Lock(r) \/ Guard(r) \/ Insert(r)
<1>1. UNCHANGED vars => AllCalm
  BY UnchangedCalm, UnchangedSame DEF vars, AllCalm
<1> QED BY <1>1, RunIsCalm, RestIsCalm DEF Next, Handler

LEMMA CapIsNat ==
    ASSUME TypeInv, NEW r \in Runs
    PROVE  task[r].cap \in Nat
<1>1. \A n \in Caps : n \in Nat
  <2>1. Caps \subseteq Nat \ {0}
    BY SizesAssumption
  <2> QED BY <2>1
<1>4. 0 \in Nat
  OBVIOUS
<1>2. task[r] \in Task
  BY DEF TypeInv, TasksOK
<1>3. task[r].cap \in Caps \cup {0}
  BY <1>2 DEF Task
<1> QED BY <1>1, <1>3, <1>4, Zenon

\* A calm step leaves the rows there that were there.
LEMMA CalmKeepsGuard ==
    ASSUME TypeInv, GuardInv, AllCalm
    PROVE  GuardInv'
<1>1. LockInv'
  BY DEF GuardInv, LockInv, AllCalm, Same
<1>2. There' = There
  BY DEF There, AllCalm, Calm
<1>3. FewInv'
  BY <1>2 DEF GuardInv, FewInv
<1>4. ASSUME NEW r \in Runs, At(r, "room")'
      PROVE  Twins(r)' = {} /\ Room(r)'
  <2>1. /\ At(r, "room") /\ task'[r].conv = task[r].conv /\ task'[r].cap = task[r].cap
        /\ task'[r].spec = task[r].spec /\ task[r].conv \in Conversations
    BY <1>4 DEF At, AllCalm, Same, Guarding, TypeInv, TasksOK
  <2>2. Twins(r) = {} /\ Room(r)
    BY <2>1 DEF GuardInv, RoomInv
  <2>3. ASSUME NEW q \in Runs
        PROVE  /\ Calm(q) /\ Same(q)
               /\ rows'[q].conv = task[r].conv => rows[q].conv = task[r].conv
    BY <2>1, NamesAssumption DEF AllCalm, Calm
  <2>4. Twins(r)' \subseteq Twins(r)
    BY <2>1, <2>3 DEF Twins, Calm, Same, Counts
  <2>5. ActiveIn(task[r].conv)' \subseteq ActiveIn(task[r].conv)
    BY <2>1, <2>3 DEF ActiveIn, Calm
  <2>6. ActiveIn(task[r].conv) \subseteq There
    BY DEF ActiveIn, There, IsActive, Active
  <2>7. IsFiniteSet(ActiveIn(task[r].conv))
    BY <2>6, FS_Subset DEF GuardInv, FewInv
  <2>8. /\ Cardinality(ActiveIn(task[r].conv)') <= Cardinality(ActiveIn(task[r].conv))
        /\ Cardinality(ActiveIn(task[r].conv)') \in Nat
        /\ Cardinality(ActiveIn(task[r].conv)) \in Nat
    BY <2>5, <2>7, FS_Subset, FS_CardinalityType
  <2>9. task[r].cap \in Nat
    BY CapIsNat
  <2> QED BY <2>1, <2>2, <2>4, <2>8, <2>9 DEF Room
<1> QED BY <1>1, <1>3, <1>4 DEF GuardInv, RoomInv

\* Taking the lock, and checking under it.
LEMMA LockKeepsGuard ==
    ASSUME TypeInv, GuardInv, NEW r \in Runs, Lock(r) \/ Guard(r)
    PROVE  GuardInv'
<1>1. task \in [Runs -> Task] /\ UNCHANGED rows
  BY DEF TypeInv, TasksOK, Lock, Guard
<1>2. \A q \in Runs : q # r => task'[q] = task[q]
  BY <1>1 DEF Lock, Guard, Go, Over, Set
<1>3. /\ task'[r].conv = task[r].conv /\ task'[r].spec = task[r].spec
      /\ task'[r].pc = "room" => task'[r].cap = task[r].cap
  BY <1>1 DEF Lock, Guard, Go, Over, Set, Task
<1>4. \/ task'[r].pc = "locked" /\ Lock(r)
      \/ task'[r].pc = "done"
      \/ task'[r].pc = "room" /\ Twins(r) = {} /\ Room(r) /\ At(r, "locked")
  <2>1. CASE Lock(r)
    BY <1>1, <2>1 DEF Lock, Go
  <2>2. ASSUME Go(r, "room") PROVE task'[r].pc = "room"
    BY <1>1, <2>2 DEF Go
  <2>3. ASSUME Over(r) PROVE task'[r].pc = "done"
    BY <1>1, <2>3 DEF Over, Set, Task
  <2> QED BY <2>1, <2>2, <2>3 DEF Guard
<1>5. LockInv'
  <2> SUFFICES ASSUME NEW p \in Runs, NEW q \in Runs, p # q,
                      task'[p].pc \in Guarding, task'[q].pc \in Guarding,
                      task'[p].conv = task'[q].conv
               PROVE  FALSE
    BY DEF LockInv
  <2>1. CASE Lock(r)
    BY <1>2, <1>3, <2>1 DEF GuardInv, LockInv, Lock
  <2>2. CASE ~Lock(r)
    BY <1>2, <1>3, <1>4, <2>2 DEF GuardInv, LockInv, At, Guarding
  <2> QED BY <2>1, <2>2
<1>6. FewInv'
  BY <1>1 DEF GuardInv, FewInv, There
<1>7. ASSUME NEW q \in Runs, At(q, "room")'
      PROVE  Twins(q)' = {} /\ Room(q)'
  <2>1. /\ task'[q].conv = task[q].conv /\ task'[q].cap = task[q].cap
        /\ Twins(q) = {} /\ Room(q)
    BY <1>2, <1>3, <1>4, <1>7 DEF GuardInv, RoomInv, At
  <2>2. \A p \in Runs : task'[p].spec = task[p].spec
    BY <1>2, <1>3
  <2>3. Twins(q)' = Twins(q)
    BY <1>1, <2>1, <2>2 DEF Twins, IsActive
  <2>4. Room(q)' = Room(q)
    BY <1>1, <2>1 DEF Room, ActiveIn, IsActive
  <2> QED BY <2>1, <2>3, <2>4
<1> QED BY <1>5, <1>6, <1>7 DEF GuardInv, RoomInv

\* An insert touches no other conversation, and in its own nobody else has the lock.
LEMMA InsertKeepsGuard ==
    ASSUME TypeInv, GuardInv, NEW r \in Runs, Insert(r)
    PROVE  GuardInv'
<1>1. /\ task \in [Runs -> Task] /\ rows \in [Runs -> Row] /\ At(r, "room")
      /\ task[r].conv \in Conversations
  BY DEF TypeInv, TasksOK, RowsOK, Insert, At
<1>2. \A q \in Runs : q # r => task'[q] = task[q] /\ rows'[q] = rows[q]
  BY <1>1 DEF Insert, Over, Set, Write
<1>3. task'[r].pc \in {"inserted", "done"} /\ task'[r].spec = task[r].spec
  <2>1. \E pc \in {"inserted", "done"} : task'[r] = [task[r] EXCEPT !.pc = pc, !.cap = 0]
    BY <1>1 DEF Insert, Over, Set
  <2>2. task[r] \in Task
    BY DEF TypeInv, TasksOK
  <2> QED BY <2>1, <2>2 DEF Task
<1>4. rows' = rows \/ rows'[r].conv = task[r].conv
  BY <1>1 DEF Insert, Write, NoRow
<1>5. LockInv'
  BY <1>2, <1>3 DEF GuardInv, LockInv, Guarding
<1>6. FewInv'
  <2>1. There' \subseteq There \cup {r}
    BY <1>2 DEF There
  <2>2. IsFiniteSet(There \cup {r})
    BY FS_AddElement DEF GuardInv, FewInv
  <2> QED BY <2>1, <2>2, FS_Subset DEF FewInv
<1>7. ASSUME NEW q \in Runs, At(q, "room")'
      PROVE  Twins(q)' = {} /\ Room(q)'
  <2>1. q # r /\ task'[q] = task[q] /\ At(q, "room") /\ Twins(q) = {} /\ Room(q)
    BY <1>2, <1>3, <1>7 DEF GuardInv, RoomInv, At
  <2>2. task[q].conv # task[r].conv
    BY <1>1, <2>1 DEF GuardInv, LockInv, At, Guarding
  <2>3. Twins(q)' \subseteq Twins(q)
    BY <1>2, <1>3, <1>4, <2>1, <2>2 DEF Twins, IsActive
  <2>4. ActiveIn(task[q].conv)' \subseteq ActiveIn(task[q].conv)
    BY <1>2, <1>4, <2>1, <2>2 DEF ActiveIn, IsActive
  <2>5. ActiveIn(task[q].conv) \subseteq There
    BY DEF ActiveIn, There, IsActive, Active
  <2>6. IsFiniteSet(ActiveIn(task[q].conv))
    BY <2>5, FS_Subset DEF GuardInv, FewInv
  <2>7. /\ Cardinality(ActiveIn(task[q].conv)') <= Cardinality(ActiveIn(task[q].conv))
        /\ Cardinality(ActiveIn(task[q].conv)') \in Nat
        /\ Cardinality(ActiveIn(task[q].conv)) \in Nat
    BY <2>4, <2>6, FS_Subset, FS_CardinalityType
  <2>8. task[q].cap \in Nat
    BY CapIsNat
  <2> QED BY <2>1, <2>3, <2>7, <2>8 DEF Room
<1> QED BY <1>5, <1>6, <1>7 DEF GuardInv, RoomInv

LEMMA InitGuard == Init => GuardInv
<1> SUFFICES ASSUME Init PROVE GuardInv
  OBVIOUS
<1>1. \A r \in Runs : task[r].pc = "idle"
  BY DEF Init, NoTask
<1>2. There = {}
  BY DEF Init, There, NoRow
<1> QED BY <1>1, <1>2, FS_EmptySet DEF GuardInv, LockInv, RoomInv, FewInv, At, Guarding

LEMMA NextGuard == TypeInv /\ GuardInv /\ [Next]_vars => GuardInv'
BY GuardStep, CalmKeepsGuard, LockKeepsGuard, InsertKeepsGuard

LEMMA SpecGuard == Spec => [](TypeInv /\ GuardInv)
BY InitType, NextType, InitGuard, NextGuard, PTL DEF Spec

\* Only Insert makes a row.
LEMMA InsertedByInsert ==
    ASSUME TypeInv, [Next]_vars, NEW r \in Runs, Inserted(r)
    PROVE  Insert(r)
<1>1. ~AllCalm
  BY DEF AllCalm, Calm, Inserted
<1>2. PICK q \in Runs : Lock(q) \/ Guard(q) \/ Insert(q)
  BY <1>1, GuardStep
<1> QED BY <1>2 DEF Lock, Guard, Insert, Write, Inserted, TypeInv, RowsOK

\* No run is inserted while one with the same spec is in flight or has just finished in
\* its conversation, however many calls are in the guard at once.
THEOREM BackgroundNoRespawn == Spec => NoRespawn
<1>1. TypeInv /\ GuardInv /\ [Next]_vars => [\A r \in Runs : Inserted(r) => Twins(r) = {}]_vars
  BY InsertedByInsert DEF GuardInv, RoomInv, Insert
<1> QED BY <1>1, SpecGuard, PTL DEF Spec, NoRespawn

\* A run is inserted only below the cap its call has read, however many calls are in the
\* guard at once.
THEOREM BackgroundCapHolds == Spec => CapHolds
<1>1. TypeInv /\ GuardInv /\ [Next]_vars =>
         [\A r \in Runs : Inserted(r) =>
             Cardinality(ActiveIn(task[r].conv)) < task[r].cap]_vars
  BY InsertedByInsert DEF GuardInv, RoomInv, Room, Insert
<1> QED BY <1>1, SpecGuard, PTL DEF Spec, CapHolds

-----------------------------------------------------------------------------
(* The deletion of a conversation *)

\* A deletion still has to cancel whatever is in flight in its conversation, save what it
\* has not seen or could not cancel.
SeenInv ==
    \A r \in Runs, c \in Conversations :
        Deleting(c) /\ rows[r].conv = c /\ IsActive(r) /\ ~rows[r].missed
        => r \in deletes[c].todo

\* The deletion's view of a run that it does not touch.
Tracked(q) == IsActive(q)' => rows'[q].missed = rows[q].missed

LEMMA WriteTracked ==
    ASSUME RowsOK, NEW r \in Runs, NEW row, Write(r, row),
           row.status \notin Active \/ row.missed = rows[r].missed
    PROVE  \A q \in Runs : Tracked(q)
BY DEF RowsOK, Write, Tracked, IsActive

LEMMA StatementsTrack ==
    ASSUME NEW row \in Row, NEW status \in Terminal
    PROVE  /\ MarkStatus(row, status).status \notin Active
           /\ Marked(row).missed = row.missed
BY DEF Settled, MarkStatus, Marked, Row, NoRow, Active, Terminal

\* Steps other than inserts, deletions and restarts.
LEMMA RunIsTracked ==
    ASSUME TypeInv, NEW r \in Runs,
           \/ \E c \in Conversations : Call(r, c)
           \/ Lock(r) \/ Guard(r) \/ Register(r) \/ MarkRunning(r) \/ HandlerFails(r)
           \/ Driver(r) \/ TaskPanics(r) \/ Test(r) \/ Listen(r) \/ Age(r)
           \/ Resume(r) \/ Cancel(r)
    PROVE  UNCHANGED deletes /\ \A q \in Runs : Tracked(q)
<1>1. rows[r] \in Row /\ RowsOK
  BY DEF TypeInv, RowsOK
<1>2. "failed" \in Terminal /\ "cancelled" \in Terminal
  BY DEF Terminal
<1>3. UNCHANGED rows => \A q \in Runs : Tracked(q)
  BY DEF Tracked
<1>4. CASE \/ \E c \in Conversations : Call(r, c)
           \/ Lock(r) \/ Guard(r) \/ Register(r) \/ Boundary(r) \/ Round(r) \/ Exec(r)
           \/ Test(r) \/ Listen(r) \/ Resume(r) \/ CancelSignal(r) \/ CancelFails(r)
  BY <1>3, <1>4 DEF Call, Lock, Guard, Register, Boundary, Round, Exec, Test, Listen, Resume,
                    CancelSignal, CancelFails, Elsewhere
<1>5. CASE MarkRunning(r)
  BY <1>1, <1>2, <1>5, StatementsTrack, WriteTracked DEF MarkRunning, Elsewhere
<1>6. CASE HandlerFails(r)
  <2>1. PICK row \in {rows[r], Marked(rows[r])} : Write(r, [row EXCEPT !.lost = row.status \in Active])
    BY <1>6 DEF HandlerFails
  <2>2. row \in Row /\ row.missed = rows[r].missed
    BY <1>1, <1>2, RowTypes, StatementsTrack
  <2>3. [row EXCEPT !.lost = row.status \in Active].missed = row.missed
    BY <2>2 DEF Row
  <2> QED BY <1>1, <1>6, <2>1, <2>2, <2>3, WriteTracked DEF HandlerFails, Elsewhere
<1>7. CASE Mark(r)
  <2>1. task[r].outcome \in Terminal
    BY <1>7 DEF Mark, At, TypeInv, TasksOK
  <2>2. [rows[r] EXCEPT !.lost = IsActive(r)].missed = rows[r].missed
    BY <1>1 DEF Row
  <2> QED BY <1>1, <1>7, <2>1, <2>2, StatementsTrack, WriteTracked DEF Mark, Elsewhere
<1>8. CASE Age(r)
  <2>1. [rows[r] EXCEPT !.recent = FALSE].missed = rows[r].missed
    BY <1>1 DEF Row
  <2> QED BY <1>1, <1>8, <2>1, WriteTracked DEF Age, Elsewhere
<1>9. CASE CancelCas(r)
  BY <1>1, <1>2, <1>9, StatementsTrack, WriteTracked DEF CancelCas
<1>10. CASE TaskPanics(r)
  <2>1. [rows[r] EXCEPT !.lost = IsActive(r)].missed = rows[r].missed
    BY <1>1 DEF Row
  <2> QED BY <1>1, <1>10, <2>1, WriteTracked DEF TaskPanics, Elsewhere
<1> QED BY <1>4, <1>5, <1>6, <1>7, <1>8, <1>9, <1>10 DEF Driver, Cancel

LEMMA TrackedKeepsSeen ==
    ASSUME TypeInv, SeenInv, AllCalm, UNCHANGED deletes, \A q \in Runs : Tracked(q)
    PROVE  SeenInv'
<1> SUFFICES ASSUME NEW r \in Runs, NEW c \in Conversations, Deleting(c)',
                    rows'[r].conv = c, IsActive(r)', ~rows'[r].missed
             PROVE  r \in deletes'[c].todo
  BY DEF SeenInv
<1>1. IsActive(r) /\ rows[r].conv = c
  BY NamesAssumption DEF AllCalm, Calm
<1>2. ~rows[r].missed
  BY DEF Tracked
<1>3. Deleting(c)
  BY DEF Deleting
<1> QED BY <1>1, <1>2, <1>3 DEF SeenInv

\* A run that is inserted while its conversation is being deleted has been missed.
LEMMA InsertKeepsSeen ==
    ASSUME TypeInv, SeenInv, NEW r \in Runs, Insert(r)
    PROVE  SeenInv'
<1>1. UNCHANGED deletes /\ rows \in [Runs -> Row]
  BY DEF Insert, Elsewhere, TypeInv, RowsOK
<1>2. CASE UNCHANGED rows
  BY <1>1, <1>2 DEF SeenInv, Deleting, IsActive
<1>3. CASE Write(r, [NoRow EXCEPT !.status = "pending", !.conv = task[r].conv,
                                  !.missed = Deleting(task[r].conv)])
  <2>1. rows'[r].conv = task[r].conv /\ rows'[r].missed = Deleting(task[r].conv)
    BY <1>1, <1>3 DEF Write, NoRow
  <2>2. \A q \in Runs : q # r => rows'[q] = rows[q]
    BY <1>1, <1>3 DEF Write
  <2> SUFFICES ASSUME NEW q \in Runs, NEW c \in Conversations, Deleting(c)',
                      rows'[q].conv = c, IsActive(q)', ~rows'[q].missed
               PROVE  q \in deletes'[c].todo
    BY DEF SeenInv
  <2>3. Deleting(c)
    BY <1>1 DEF Deleting
  <2>4. q # r
    BY <2>1, <2>3
  <2> QED BY <1>1, <2>2, <2>3, <2>4 DEF SeenInv, IsActive
<1> QED BY <1>2, <1>3 DEF Insert

\* The steps of a deletion.
LEMMA DeletesKeepSeen ==
    ASSUME TypeInv, SeenInv, NEW d \in Conversations, Deletes(d)
    PROVE  SeenInv'
<1> SUFFICES ASSUME NEW r \in Runs, NEW c \in Conversations, Deleting(c)',
                    rows'[r].conv = c, IsActive(r)', ~rows'[r].missed
             PROVE  r \in deletes'[c].todo
  BY DEF SeenInv
<1>1. deletes \in [Conversations -> Deletion] /\ rows \in [Runs -> Row]
  BY DEF TypeInv, HandlersOK, RowsOK
<1>2. c # d => deletes'[c] = deletes[c]
  BY <1>1 DEF Deletes, DeleteList, DeleteCas, DeleteSignal, DeleteRow, DeleteFails, Delete
<1>3. ASSUME rows'[r] = rows[r], deletes'[c] = deletes[c]
      PROVE  r \in deletes'[c].todo
  BY <1>3 DEF SeenInv, Deleting, IsActive
<1>4. CASE DeleteList(d)
  <2>1. PICK fails \in BOOLEAN :
          /\ Delete(d, [pc |-> "cancel", todo |-> IF fails THEN {} ELSE Listed(d), hit |-> {}])
          /\ rows' = [q \in Runs |-> IF q \in ActiveIn(d)
                                     THEN [rows[q] EXCEPT !.missed = fails] ELSE rows[q]]
    BY <1>4 DEF DeleteList
  <2>2. rows'[r].conv = rows[r].conv /\ rows'[r].status = rows[r].status
    BY <1>1, <2>1 DEF Row
  <2>3. CASE c = d
    <3>1. r \in ActiveIn(d)
      BY <2>2, <2>3 DEF ActiveIn, IsActive
    <3>2. ~fails
      BY <1>1, <2>1, <3>1 DEF Row
    <3> QED BY <1>1, <2>1, <2>3, <3>1, <3>2 DEF Delete, Listed
  <2>4. CASE c # d
    <3>1. r \notin ActiveIn(d)
      BY <2>2, <2>4 DEF ActiveIn
    <3>2. rows'[r] = rows[r]
      BY <2>1, <3>1
    <3> QED BY <1>2, <1>3, <2>4, <3>2
  <2> QED BY <2>3, <2>4
<1>5. CASE DeleteCas(d)
  <2>1. PICK q \in deletes[d].todo :
          \/ /\ Write(q, MarkStatus(rows[q], "cancelled"))
             /\ Delete(d, [deletes[d] EXCEPT !.todo = @ \ {q},
                                             !.hit = IF IsActive(q) THEN {q} ELSE {}])
          \/ /\ Write(q, [rows[q] EXCEPT !.missed = IsActive(q)])
             /\ Delete(d, [deletes[d] EXCEPT !.todo = @ \ {q}])
    BY <1>5 DEF DeleteCas
  <2>2. q \in Runs /\ rows[q] \in Row /\ "cancelled" \in Terminal
    BY <1>1 DEF Deletion, Terminal
  <2>3. CASE r = q
    <3>1. MarkStatus(rows[q], "cancelled").status \notin Active
      BY <2>2, StatementsTrack
    <3>2. rows'[r] = [rows[q] EXCEPT !.missed = IsActive(q)]
      BY <1>1, <2>1, <2>2, <2>3, <3>1 DEF Write, IsActive
    <3>3. rows'[r].missed = IsActive(q) /\ rows'[r].status = rows[q].status
      BY <2>2, <3>2 DEF Row
    <3> QED BY <2>3, <3>3 DEF IsActive
  <2>4. CASE r # q
    <3>1. rows'[r] = rows[r]
      BY <1>1, <2>1, <2>4 DEF Write
    <3>2. r \in deletes[c].todo
      <4>1. Deleting(c)
        BY <1>1, <1>2, <1>5 DEF Deleting, DeleteCas
      <4> QED BY <3>1, <4>1 DEF SeenInv, IsActive
    <3>3. deletes'[d].todo = deletes[d].todo \ {q}
      <4>1. deletes[d] \in Deletion
        BY <1>1
      <4>2. \A hit : [deletes[d] EXCEPT !.todo = @ \ {q}, !.hit = hit].todo = deletes[d].todo \ {q}
        BY <4>1 DEF Deletion
      <4>3. [deletes[d] EXCEPT !.todo = @ \ {q}].todo = deletes[d].todo \ {q}
        BY <4>1 DEF Deletion
      <4>4. \/ deletes'[d] = [deletes[d] EXCEPT !.todo = @ \ {q},
                                              !.hit = IF IsActive(q) THEN {q} ELSE {}]
            \/ deletes'[d] = [deletes[d] EXCEPT !.todo = @ \ {q}]
        BY <1>1, <2>1 DEF Delete
      <4> QED BY <4>2, <4>3, <4>4
    <3> QED BY <1>2, <2>4, <3>2, <3>3
  <2> QED BY <2>3, <2>4
<1>6. CASE DeleteSignal(d)
  <2>1. deletes'[d].todo = deletes[d].todo /\ deletes'[d].pc = deletes[d].pc
    BY <1>1, <1>6 DEF DeleteSignal, Delete, Deletion
  <2>2. UNCHANGED rows
    BY <1>6 DEF DeleteSignal
  <2> QED BY <1>2, <2>1, <2>2 DEF SeenInv, Deleting, IsActive
<1>7. CASE DeleteRow(d)
  <2>1. ~Deleting(d)'
    BY <1>1, <1>7 DEF DeleteRow, Delete, Deleting, NoDelete
  <2>2. c # d
    BY <2>1
  <2>3. rows'[r] = rows[r]
    <3>1. rows'[r] = IF rows[r].conv = d THEN [rows[r] EXCEPT !.conv = NoConv] ELSE rows[r]
      BY <1>1, <1>7 DEF DeleteRow
    <3>2. rows[r].conv # d
      BY <1>1, <3>1, NamesAssumption DEF Row
    <3> QED BY <3>1, <3>2
  <2> QED BY <1>2, <1>3, <2>2, <2>3
<1>8. CASE DeleteFails(d)
  <2>1. ~Deleting(d)'
    BY <1>1, <1>8 DEF DeleteFails, Delete, Deleting, NoDelete
  <2> QED BY <1>2, <1>3, <1>8, <2>1 DEF DeleteFails
<1> QED BY <1>4, <1>5, <1>6, <1>7, <1>8 DEF Deletes

LEMMA NextSeen == TypeInv /\ SeenInv /\ [Next]_vars => SeenInv'
<1> SUFFICES ASSUME TypeInv, SeenInv, [Next]_vars PROVE SeenInv'
  OBVIOUS
<1>1. CASE UNCHANGED vars
  BY <1>1 DEF vars, SeenInv, Deleting, IsActive
<1>2. ASSUME NEW r \in Runs, Lock(r) \/ Guard(r) PROVE SeenInv'
  <2>1. UNCHANGED rows /\ UNCHANGED deletes
    BY <1>2 DEF Lock, Guard, Elsewhere
  <2> QED BY <2>1 DEF SeenInv, Deleting, IsActive
<1>3. ASSUME NEW r \in Runs,
             \/ \E c \in Conversations : Call(r, c)
             \/ Register(r) \/ MarkRunning(r) \/ HandlerFails(r)
             \/ Driver(r) \/ TaskPanics(r) \/ Test(r) \/ Listen(r) \/ Age(r)
             \/ Resume(r) \/ Cancel(r)
      PROVE  SeenInv'
  BY <1>3, RunIsCalm, RunIsTracked, TrackedKeepsSeen
<1>4. ASSUME NEW c \in Conversations, TurnBegins(c) \/ TurnEnds(c) PROVE SeenInv'
  <2>1. UNCHANGED rows /\ UNCHANGED deletes
    BY <1>4 DEF TurnBegins, TurnEnds
  <2> QED BY <2>1 DEF SeenInv, Deleting, IsActive
<1>5. CASE Crash
  <2>1. \A c \in Conversations : ~Deleting(c)'
    BY <1>5 DEF Crash, Deleting, NoDelete
  <2> QED BY <2>1 DEF SeenInv
<1>6. CASE Sweep
  <2>1. UNCHANGED deletes /\ AllCalm
    BY <1>6, RestIsCalm DEF Sweep
  <2>2. PICK fails \in BOOLEAN :
          rows' = [r \in Runs |-> IF ~Swept(r) THEN rows[r]
                                  ELSE IF fails THEN [rows[r] EXCEPT !.lost = TRUE]
                                  ELSE Settled(rows[r], "failed")]
    BY <1>6 DEF Sweep
  <2>3. ASSUME NEW q \in Runs PROVE Tracked(q)
    <3>1. rows[q] \in Row /\ "failed" \in Terminal
      BY DEF TypeInv, RowsOK, Terminal
    <3>2. Settled(rows[q], "failed").status \notin Active
      BY <3>1, StatusAfter DEF Active
    <3>3. [rows[q] EXCEPT !.lost = TRUE].missed = rows[q].missed
      BY <3>1 DEF Row
    <3> QED BY <2>2, <3>2, <3>3 DEF Tracked, IsActive
  <2> QED BY <2>1, <2>3, TrackedKeepsSeen
<1> QED BY <1>1, <1>2, <1>3, <1>4, <1>5, <1>6, InsertKeepsSeen, DeletesKeepSeen DEF Next, Handler

LEMMA InitSeen == Init => SeenInv
BY DEF Init, SeenInv, Deleting, NoDelete

\* When a conversation goes, its runs have ended, save those that its deletion could not
\* see or cancel: for any number of deletions, cancels and ends of runs in any order.
THEOREM BackgroundDeletedIsStopped == Spec => DeletedIsStopped
<1>1. TypeInv /\ SeenInv /\ [Next]_vars =>
         [\A r \in Runs : rows[r].conv \in gone' \ gone =>
             rows[r].status \in Terminal \/ rows[r].missed]_vars
  <2> SUFFICES ASSUME TypeInv, SeenInv, Next, NEW r \in Runs, rows[r].conv \in gone' \ gone
               PROVE  rows[r].status \in Terminal \/ rows[r].missed
    OBVIOUS
  <2>1. PICK c \in Conversations : DeleteRow(c)
    BY DEF Next, Handler, Driver, Cancel, Deletes, Call, Lock, Guard, Insert, Register,
           MarkRunning, HandlerFails, Boundary, Round, Exec, Mark, TaskPanics, Test, Listen, Age, Resume,
           CancelCas, CancelSignal, CancelFails, TurnBegins, TurnEnds, DeleteList, DeleteCas,
           DeleteSignal, DeleteFails, Crash, Sweep, Elsewhere
  <2>2. rows[r].conv = c /\ Deleting(c) /\ deletes[c].todo = {}
    BY <2>1 DEF DeleteRow
  <2>3. rows[r].status # "none"
    BY <2>2, NamesAssumption DEF TypeInv, RowsOK
  <2>4. rows[r].status \in {"none"} \cup Active \cup Terminal
    BY DEF TypeInv, RowsOK, Row
  <2>5. ~IsActive(r) \/ rows[r].missed
    BY <2>2 DEF SeenInv
  <2> QED BY <2>3, <2>4, <2>5 DEF IsActive
<1>2. Spec => [](TypeInv /\ SeenInv)
  BY InitType, NextType, InitSeen, NextSeen, PTL DEF Spec
<1> QED BY <1>1, <1>2, PTL DEF Spec, DeletedIsStopped
=============================================================================
