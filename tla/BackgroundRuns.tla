--------------------------- MODULE BackgroundRuns ---------------------------
(***************************************************************************)
(* Background runs of a conversation (server/src/modules/background_mcp):  *)
(* a turn's tool call inserts a row of workflow_runs under a guard and     *)
(* leaves a task behind, which drives a sub-agent (agent-core) or a        *)
(* sandbox command, records how it ended and, for a sub-agent's result,    *)
(* starts a turn of the conversation with it.  Users cancel runs and       *)
(* delete conversations meanwhile; the server restarts.                    *)
(*                                                                         *)
(* A run is one call of spawn_background.  The handler of the call goes on,*)
(* in the model, as the task it spawns.  One deletion of a conversation and*)
(* one cancel of a run are handled at a time.  A background run is never   *)
(* waiting or resumable: its gate denies, and its kinds are swept to failed*)
(***************************************************************************)
EXTENDS Integers, FiniteSets

CONSTANTS
    Runs,               \* bound: the calls of spawn_background
    Conversations, NoConv,
    Specs,              \* what can be asked for: kind and inputs_json
    SubAgents,          \* the specs of kind subagent; the others are sandbox_exec
    Caps,               \* what fan_out_max_threads can be set to
    ResumeEnabled,      \* background_mcp.resume_enabled
    MaxSteps,           \* default_max_steps
    MaxMishaps          \* bound: handlers dropped, writes failing, restarts

ASSUME NamesAssumption == NoConv \notin Conversations /\ SubAgents \subseteq Specs

ASSUME SizesAssumption ==
    /\ Caps \subseteq Nat \ {0} /\ ResumeEnabled \in BOOLEAN
    /\ MaxSteps \in Nat \ {0} /\ MaxMishaps \in Nat

VARIABLES
    task,       \* the call of each run, then its task
    rows,       \* workflow_runs
    handles,    \* RUN_HANDLES, with their cancelled flags
    resumes,    \* push-to-resume of each run's result
    cancels,    \* how far the cancel handler of each run is
    deletes,    \* how far the deletion of each conversation is
    busy,       \* the conversations with a turn in flight
    gone,       \* the conversations that were deleted
    sweep,      \* whether the startup sweep is still to come
    mishaps

vars == <<task, rows, handles, resumes, cancels, deletes, busy, gone, sweep, mishaps>>

Active   == {"pending", "running"}
Terminal == {"completed", "failed", "cancelled"}

\* recent: updated_at is within the dedup window; old: created before the sweep's
\* cutoff; missed: a deletion of its conversation has not seen or not cancelled it;
\* lost: nobody will write its terminal status.  The result is left out.
Row == [status : {"none"} \cup Active \cup Terminal, conv : Conversations \cup {NoConv},
        recent : BOOLEAN, old : BOOLEAN, missed : BOOLEAN, lost : BOOLEAN]

NoRow == [status |-> "none", conv |-> NoConv, recent |-> FALSE, old |-> FALSE,
          missed |-> FALSE, lost |-> FALSE]

\* The transaction of insert_background_run_guarded: it has the advisory lock.
Guarding == {"locked", "room"}

\* spawn_background, and a task, between two awaits.
Handling == Guarding \cup {"called", "inserted", "registered"}

Driving == {"boundary", "model", "exec"}

\* spec: kind and inputs_json; cap: what the call has read, 0 when it is over.
\* watch: the waiter on the handle's cancellation, which for a sub-agent is the
\* bridge to the loop's CancelToken: it has tested the flag, listens, or has fired.
Task == [pc : {"idle", "mark", "done"} \cup Handling \cup Driving,
         conv : Conversations \cup {NoConv}, spec : Specs, cap : Caps \cup {0},
         step : 1..MaxSteps, outcome : {"none"} \cup Terminal,
         watch : {"off", "new", "tested", "listening", "fired"}]

\* todo: the runs it still has to cancel; hit: the one it cancelled and has to signal.
Deletion == [pc : {"idle", "cancel"}, todo : SUBSET Runs, hit : SUBSET Runs]

NoDelete == [pc |-> "idle", todo |-> {}, hit |-> {}]

NoTask(spec) == [pc |-> "idle", conv |-> NoConv, spec |-> spec, cap |-> 0, step |-> 1,
                 outcome |-> "none", watch |-> "off"]

Init ==
    /\ task \in [Runs -> {NoTask(spec) : spec \in Specs}]
    /\ rows = [r \in Runs |-> NoRow]
    /\ handles = [r \in Runs |-> "none"]
    /\ resumes = [r \in Runs |-> "none"]
    /\ cancels = [r \in Runs |-> "idle"]
    /\ deletes = [c \in Conversations |-> NoDelete]
    /\ busy = {} /\ gone = {}
    /\ sweep = FALSE /\ mishaps = 0
-----------------------------------------------------------------------------
IsActive(r) == rows[r].status \in Active

ActiveIn(c) == {r \in Runs : rows[r].conv = c /\ IsActive(r)}

At(r, pc) == task[r].pc = pc

Go(r, pc) == task' = [task EXCEPT ![r].pc = pc]

Set(r, t) == task' = [task EXCEPT ![r] = t]

Write(r, row) == rows' = [rows EXCEPT ![r] = row]

Deleting(c) == deletes[c].pc = "cancel"

Mishap == mishaps < MaxMishaps /\ mishaps' = mishaps + 1

\* UPDATE ... SET status: it stamps updated_at, which counts for a run that was not
\* cancelled.
Settled(row, status) ==
    [NoRow EXCEPT !.status = status, !.conv = row.conv, !.recent = status # "cancelled"]

\* repository::mark_status and cancel_cas: the first terminal status stays.
MarkStatus(row, status) == IF row.status \in Active THEN Settled(row, status) ELSE row

Elsewhere == <<cancels, deletes, busy, gone, sweep>>
-----------------------------------------------------------------------------
\* spawn_background: a turn's tool call in an existing conversation; the cap is
\* read before the transaction.
Call(r, c) ==
    /\ At(r, "idle") /\ c \in busy \ gone
    /\ \E cap \in Caps : Set(r, [task[r] EXCEPT !.pc = "called", !.conv = c, !.cap = cap])
    /\ UNCHANGED <<rows, handles, resumes, Elsewhere, mishaps>>

\* Mutant: the check and the insert without pg_advisory_xact_lock.
LockNothing(r) ==
    /\ At(r, "called")
    /\ Go(r, "locked")
    /\ UNCHANGED <<rows, handles, resumes, Elsewhere, mishaps>>

\* pg_advisory_xact_lock on the conversation, until the transaction ends.
Lock(r) ==
    /\ At(r, "called")
    /\ \A q \in Runs : task[q].conv = task[r].conv => task[q].pc \notin Guarding
    /\ Go(r, "locked")
    /\ UNCHANGED <<rows, handles, resumes, Elsewhere, mishaps>>

\* What a run duplicates: the same spec, in flight or just finished, not cancelled.
Twins(r) == {q \in Runs : /\ rows[q].conv = task[r].conv
                          /\ task[q].spec = task[r].spec
                          /\ \/ IsActive(q)
                             \/ rows[q].status \in {"completed", "failed"} /\ rows[q].recent}

\* Mutant: only runs that are running count.
RoomForRunning(r) ==
    Cardinality({q \in ActiveIn(task[r].conv) : rows[q].status = "running"}) < task[r].cap

Room(r) == Cardinality(ActiveIn(task[r].conv)) < task[r].cap

Over(r) == Set(r, [task[r] EXCEPT !.pc = "done", !.cap = 0])

\* The dedup and the cap.  They are two statements, but under the lock the runs found
\* by either only end in between.
Guard(r) ==
    /\ At(r, "locked")
    /\ \/ Twins(r) = {} /\ Room(r) /\ Go(r, "room")
       \/ Twins(r) # {} /\ Over(r)
       \/ ~Room(r) /\ Over(r)
    /\ UNCHANGED <<rows, handles, resumes, Elsewhere, mishaps>>

\* The INSERT, whose foreign key fails for a deleted conversation, and the commit.
Insert(r) ==
    /\ At(r, "room")
    /\ LET c == task[r].conv IN
       \/ c \in gone /\ Over(r) /\ UNCHANGED rows
       \/ /\ c \notin gone
          /\ Set(r, [task[r] EXCEPT !.pc = "inserted", !.cap = 0])
          /\ Write(r, [NoRow EXCEPT !.status = "pending", !.conv = c, !.missed = Deleting(c)])
    /\ UNCHANGED <<handles, resumes, Elsewhere, mishaps>>

Register(r) ==
    /\ At(r, "inserted")
    /\ Go(r, "registered")
    /\ handles' = [handles EXCEPT ![r] = "live"]
    /\ UNCHANGED <<rows, resumes, Elsewhere, mishaps>>

IsSubAgent(r) == task[r].spec \in SubAgents

Marked(row) == IF row.status = "pending" THEN [row EXCEPT !.status = "running"] ELSE row

\* mark_running, a no-op for a run cancelled by now; then the task is spawned, and in
\* it the bridge or the sandbox command.
MarkRunning(r) ==
    /\ At(r, "registered")
    /\ Set(r, [task[r] EXCEPT !.pc = IF IsSubAgent(r) THEN "boundary" ELSE "exec",
                              !.watch = "new"])
    /\ Write(r, Marked(rows[r]))
    /\ UNCHANGED <<handles, resumes, Elsewhere, mishaps>>

\* The call's connection goes, its request times out, or a statement fails: the
\* transaction rolls back, but what is committed and registered stays.
HandlerFails(r) ==
    /\ task[r].pc \in Handling /\ Mishap
    /\ Over(r)
    /\ \E row \in {rows[r], Marked(rows[r])} :
        /\ At(r, "registered") \/ row = rows[r]
        /\ Write(r, [row EXCEPT !.lost = row.status \in Active])
    /\ UNCHANGED <<handles, resumes, Elsewhere>>
-----------------------------------------------------------------------------
\* The drivers.

\* The driver returns.  A sub-agent's non-empty result is sent to its conversation by
\* a task of its own, before the run's row is written.
End(r, outcome, text) ==
    /\ Set(r, [task[r] EXCEPT !.pc = "mark", !.outcome = outcome, !.step = 1, !.watch = "off"])
    /\ resumes' = IF outcome = "completed" /\ IsSubAgent(r) /\ text /\ ResumeEnabled
                  THEN [resumes EXCEPT ![r] = "wait"] ELSE resumes

\* RunHandle::await_cancel tests the flag ...
Test(r) ==
    /\ task[r].watch = "new"
    /\ task' = [task EXCEPT ![r].watch = IF handles[r] = "cancelled" THEN "fired" ELSE "tested"]
    /\ UNCHANGED <<rows, handles, resumes, Elsewhere, mishaps>>

\* ... and then listens: a cancellation in between wakes nobody.
Listen(r) ==
    /\ task[r].watch = "tested"
    /\ task' = [task EXCEPT ![r].watch = "listening"]
    /\ UNCHANGED <<rows, handles, resumes, Elsewhere, mishaps>>

Fired(r) == task[r].watch = "fired"

\* Mutant: the loop has no iteration cap.
BoundaryUnbounded(r) ==
    /\ At(r, "boundary")
    /\ \/ Fired(r) /\ End(r, "cancelled", FALSE)
       \/ ~Fired(r) /\ Set(r, [task[r] EXCEPT !.pc = "model", !.step = 1]) /\ UNCHANGED resumes
       \/ ~Fired(r) /\ End(r, "failed", FALSE)
    /\ UNCHANGED <<rows, handles, Elsewhere, mishaps>>

\* The head of AgentCore::run's loop: the token, the notes, the context.  What comes
\* before the loop, the model's provider and the task's message, may fail like it.
Boundary(r) ==
    /\ At(r, "boundary")
    /\ \/ Fired(r) /\ End(r, "cancelled", FALSE)
       \/ ~Fired(r) /\ Go(r, "model") /\ UNCHANGED resumes
       \/ ~Fired(r) /\ End(r, "failed", FALSE)
    /\ UNCHANGED <<rows, handles, Elsewhere, mishaps>>

\* The model call, raced against the token, and the round of tools it asks for:
\* the loop ends with an answer, at a cap, by an error, or at the token.
Round(r) ==
    /\ At(r, "model")
    /\ \/ \E text \in BOOLEAN : End(r, "completed", text)
       \/ End(r, "failed", FALSE)
       \/ Fired(r) /\ End(r, "cancelled", FALSE)
       \/ /\ ~Fired(r) /\ task[r].step < MaxSteps
          /\ Set(r, [task[r] EXCEPT !.pc = "boundary", !.step = @ + 1])
          /\ UNCHANGED resumes
    /\ UNCHANGED <<rows, handles, Elsewhere, mishaps>>

\* The command ends, the sandbox fails, or await_cancel wins the select!.
Exec(r) ==
    /\ At(r, "exec")
    /\ \/ \E outcome \in {"completed", "failed"} : End(r, outcome, FALSE)
       \/ Fired(r) /\ End(r, "cancelled", FALSE)
    /\ UNCHANGED <<rows, handles, Elsewhere, mishaps>>

\* set_final_output and the terminal mark_status, whose failures are ignored, and
\* unregister: with the driver gone nobody reads the handle in between.
Mark(r) ==
    /\ At(r, "mark")
    /\ Set(r, [task[r] EXCEPT !.pc = "done", !.outcome = "none"])
    /\ \/ Write(r, MarkStatus(rows[r], task[r].outcome)) /\ UNCHANGED mishaps
       \/ Mishap /\ Write(r, [rows[r] EXCEPT !.lost = IsActive(r)])
    /\ handles' = [handles EXCEPT ![r] = "none"]
    /\ UNCHANGED <<resumes, Elsewhere>>

\* The spawned task panics: nobody writes its row or releases its handle.
TaskPanics(r) ==
    /\ task[r].pc \in Driving \cup {"mark"} /\ Mishap
    /\ Set(r, [task[r] EXCEPT !.pc = "done", !.step = 1, !.outcome = "none", !.watch = "off"])
    /\ Write(r, [rows[r] EXCEPT !.lost = IsActive(r)])
    /\ UNCHANGED <<handles, resumes, Elsewhere>>

\* The dedup window passes.
Age(r) ==
    /\ rows[r].recent
    /\ Write(r, [rows[r] EXCEPT !.recent = FALSE])
    /\ UNCHANGED <<task, handles, resumes, Elsewhere, mishaps>>
-----------------------------------------------------------------------------
\* resume_conversation_with_result: it waits for the conversation to be idle and starts
\* a turn.  It gives up when the wait has been long, when a turn comes first (409), and
\* when the model, the conversation or its branch is not there.
Resume(r) ==
    /\ resumes[r] = "wait"
    /\ resumes' = [resumes EXCEPT ![r] = "over"]
    /\ \/ task[r].conv \notin busy \cup gone /\ busy' = busy \cup {task[r].conv}
       \/ UNCHANGED busy
    /\ UNCHANGED <<task, rows, handles, cancels, deletes, gone, sweep, mishaps>>

\* Turns of the conversation begin and end.
TurnBegins(c) ==
    /\ c \notin busy \cup gone
    /\ busy' = busy \cup {c}
    /\ UNCHANGED <<task, rows, handles, resumes, cancels, deletes, gone, sweep, mishaps>>

TurnEnds(c) ==
    /\ c \in busy
    /\ busy' = busy \ {c}
    /\ UNCHANGED <<task, rows, handles, resumes, cancels, deletes, gone, sweep, mishaps>>
-----------------------------------------------------------------------------
\* registry::cancel: sets the flag of a handle, if there is one, and notifies.
Signal(r) ==
    /\ handles' = [handles EXCEPT ![r] = IF @ = "none" THEN "none" ELSE "cancelled"]
    /\ task' = [task EXCEPT ![r].watch = IF @ = "listening" THEN "fired" ELSE @]

\* cancel_background_run writes the row of a run that it has found not to be terminal:
\* when the run ends between the two, it writes nothing, and nobody listens ...
CancelCas(r) ==
    /\ cancels[r] = "idle" /\ IsActive(r)
    /\ cancels' = [cancels EXCEPT ![r] = "signal"]
    /\ Write(r, MarkStatus(rows[r], "cancelled"))
    /\ UNCHANGED <<task, handles, resumes, deletes, busy, gone, sweep, mishaps>>

\* ... and signals the task.
CancelSignal(r) ==
    /\ cancels[r] = "signal"
    /\ cancels' = [cancels EXCEPT ![r] = "idle"]
    /\ Signal(r)
    /\ UNCHANGED <<rows, resumes, deletes, busy, gone, sweep, mishaps>>

\* The client hangs up in between.
CancelFails(r) ==
    /\ cancels[r] = "signal" /\ Mishap
    /\ cancels' = [cancels EXCEPT ![r] = "idle"]
    /\ UNCHANGED <<task, rows, handles, resumes, deletes, busy, gone, sweep>>

Delete(c, d) == deletes' = [deletes EXCEPT ![c] = d]

\* Mutant: only runs that are running are listed.
ListRunning(c) == {r \in ActiveIn(c) : rows[r].status = "running"}

\* list_cancellable_background_runs_for_conversation
Listed(c) == ActiveIn(c)

\* cancel_conversation_background_runs lists the runs; when it cannot, it goes on.
DeleteList(c) ==
    /\ ~Deleting(c) /\ c \notin gone
    /\ \E fails \in BOOLEAN :
        /\ IF fails THEN Mishap ELSE UNCHANGED mishaps
        /\ Delete(c, [pc |-> "cancel", todo |-> IF fails THEN {} ELSE Listed(c), hit |-> {}])
        /\ rows' = [r \in Runs |-> IF r \in ActiveIn(c)
                                   THEN [rows[r] EXCEPT !.missed = fails] ELSE rows[r]]
    /\ UNCHANGED <<task, handles, resumes, cancels, busy, gone, sweep>>

\* One run's cancel_cas: it skips a run that has ended, and one whose write fails.
DeleteCas(c) ==
    /\ Deleting(c) /\ deletes[c].hit = {}
    /\ \E r \in deletes[c].todo :
        /\ \/ /\ Write(r, MarkStatus(rows[r], "cancelled"))
              /\ Delete(c, [deletes[c] EXCEPT !.todo = @ \ {r},
                                              !.hit = IF IsActive(r) THEN {r} ELSE {}])
              /\ UNCHANGED mishaps
           \/ /\ Mishap
              /\ Write(r, [rows[r] EXCEPT !.missed = IsActive(r)])
              /\ Delete(c, [deletes[c] EXCEPT !.todo = @ \ {r}])
    /\ UNCHANGED <<task, handles, resumes, cancels, busy, gone, sweep>>

DeleteSignal(c) ==
    /\ \E r \in deletes[c].hit : Signal(r)
    /\ Delete(c, [deletes[c] EXCEPT !.hit = {}])
    /\ UNCHANGED <<rows, resumes, cancels, busy, gone, sweep, mishaps>>

\* The conversation's row goes; its runs stay, conversation_id set to NULL.
DeleteRow(c) ==
    /\ Deleting(c) /\ deletes[c].todo = {} /\ deletes[c].hit = {}
    /\ gone' = gone \cup {c}
    /\ rows' = [r \in Runs |-> IF rows[r].conv = c THEN [rows[r] EXCEPT !.conv = NoConv]
                               ELSE rows[r]]
    /\ Delete(c, NoDelete)
    /\ UNCHANGED <<task, handles, resumes, cancels, busy, sweep, mishaps>>

\* The client hangs up, or the DELETE fails.
DeleteFails(c) ==
    /\ Deleting(c) /\ Mishap
    /\ Delete(c, NoDelete)
    /\ UNCHANGED <<task, rows, handles, resumes, cancels, busy, gone, sweep>>
-----------------------------------------------------------------------------
\* The server restarts: handlers, tasks, handles and turns go, the rows stay, and
\* the startup sweep, which is spawned with its cutoff, has them before it.
Crash ==
    /\ Mishap
    /\ task' = [r \in Runs |-> IF At(r, "idle") THEN task[r]
                               ELSE [NoTask(task[r].spec) EXCEPT !.pc = "done",
                                                                 !.conv = task[r].conv]]
    /\ rows' = [r \in Runs |-> IF IsActive(r)
                               THEN [rows[r] EXCEPT !.old = TRUE, !.lost = FALSE]
                               ELSE rows[r]]
    /\ handles' = [r \in Runs |-> "none"]
    /\ resumes' = [r \in Runs |-> IF resumes[r] = "none" THEN "none" ELSE "over"]
    /\ cancels' = [r \in Runs |-> "idle"]
    /\ deletes' = [c \in Conversations |-> NoDelete]
    /\ busy' = {} /\ sweep' = TRUE
    /\ UNCHANGED gone

\* Mutant: the sweep has no cutoff.
SweptAll(r) == IsActive(r)

\* What fail_orphaned_runs takes for an orphan.
Swept(r) == IsActive(r) /\ rows[r].old

\* The startup sweep fails the orphans, or fails.
Sweep ==
    /\ sweep /\ sweep' = FALSE
    /\ \E fails \in BOOLEAN :
        /\ rows' = [r \in Runs |->
                        IF ~Swept(r) THEN rows[r]
                        ELSE IF fails THEN [rows[r] EXCEPT !.lost = TRUE]
                        ELSE Settled(rows[r], "failed")]
    /\ UNCHANGED <<task, handles, resumes, cancels, deletes, busy, gone, mishaps>>
-----------------------------------------------------------------------------
Handler(r) ==
    Lock(r) \/ Guard(r) \/ Insert(r) \/ Register(r) \/ MarkRunning(r)

Driver(r) == Boundary(r) \/ Round(r) \/ Exec(r) \/ Mark(r)

Cancel(r) == CancelCas(r) \/ CancelSignal(r) \/ CancelFails(r)

Deletes(c) ==
    DeleteList(c) \/ DeleteCas(c) \/ DeleteSignal(c) \/ DeleteRow(c) \/ DeleteFails(c)

Next ==
    \/ \E r \in Runs : \/ \E c \in Conversations : Call(r, c)
                       \/ Handler(r) \/ HandlerFails(r)
                       \/ Driver(r) \/ TaskPanics(r) \/ Test(r) \/ Listen(r) \/ Age(r)
                       \/ Resume(r) \/ Cancel(r)
    \/ \E c \in Conversations : TurnBegins(c) \/ TurnEnds(c) \/ Deletes(c)
    \/ Crash \/ Sweep

Spec == Init /\ [][Next]_vars

\* The tasks run; users, turns, the clock and failures owe nothing.
Fairness ==
    /\ \A r \in Runs : WF_vars(Handler(r) \/ Driver(r)) /\ WF_vars(Resume(r))
    /\ WF_vars(Sweep)

FairSpec == Spec /\ Fairness
-----------------------------------------------------------------------------
TypeOK ==
    /\ task \in [Runs -> Task] /\ rows \in [Runs -> Row]
    /\ handles \in [Runs -> {"none", "live", "cancelled"}]
    /\ resumes \in [Runs -> {"none", "wait", "over"}]
    /\ cancels \in [Runs -> {"idle", "signal"}]
    /\ deletes \in [Conversations -> Deletion]
    /\ busy \subseteq Conversations /\ gone \subseteq Conversations
    /\ sweep \in BOOLEAN /\ mishaps \in 0..MaxMishaps

Inserted(r) == rows[r].status = "none" /\ rows'[r].status # "none"

\* The guard's dedup: no run is inserted while one with the same spec is in flight in
\* its conversation, or has just completed or failed there.  Two calls of one turn may
\* be anywhere in the guard, and runs end under them.
NoRespawn == [][\A r \in Runs : Inserted(r) => Twins(r) = {}]_vars

\* The guard's cap: a run is inserted only below the cap its call has read, whatever
\* other calls insert meanwhile.
CapHolds == [][\A r \in Runs : Inserted(r) =>
                   Cardinality(ActiveIn(task[r].conv)) < task[r].cap]_vars

\* delete_conversation: when the conversation goes, its runs have ended, save one that
\* was inserted after the deletion had listed them and one whose cancel failed.
DeletedIsStopped ==
    [][\A r \in Runs : rows[r].conv \in gone' \ gone =>
           rows[r].status \in Terminal \/ rows[r].missed]_vars

\* A run with a driver is running or cancelled: no sweep and no second writer ends it.
\* And its driver stops for a cancel only when the row says so, whichever handler wrote
\* the row and signalled, and whatever became of that handler.
DriverAgreesWithRow ==
    \A r \in Runs : task[r].pc \in Driving \cup {"mark"} =>
        /\ rows[r].status \in {"running", "cancelled"}
        /\ Fired(r) \/ task[r].outcome = "cancelled" => rows[r].status = "cancelled"

\* Every run ends, also over a restart, unless what would end it has failed, and every
\* result sent to its conversation starts a turn there or is given up: again and again
\* there is nothing left to end.
RunSettles ==
    []<>(\A r \in Runs : (IsActive(r) => rows[r].lost) /\ resumes[r] # "wait")
=============================================================================
