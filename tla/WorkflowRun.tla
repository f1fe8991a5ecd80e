---------------------------- MODULE WorkflowRun ----------------------------
(***************************************************************************)
(* The workflow engine (server/src/modules/workflow), for one run: its row *)
(* of workflow_runs, its entry of the registry of live handles, the runner *)
(* task, the handlers that start, answer, cancel, watch and delete it, and *)
(* the sweep of the next boot.  A step that asks suspends the runner or    *)
(* parks it; the answer reaches the parked one through the handle and the  *)
(* suspended one through the row, by a new runner that resumes the run.    *)
(*                                                                         *)
(* A handler that starts a runner goes on, in the model, as that runner.   *)
(* Steps run in order: `plan' is the sorted list of their kinds.           *)
(***************************************************************************)
EXTENDS Integers, Sequences, FiniteSets

CONSTANTS
    Threads,        \* bound: handlers and runners at a time
    Handles,        \* bound: RunHandles that anything refers to
    Plans,          \* the workflows
    MaxElicits,     \* bound: elicitation ids
    MaxMishaps      \* bound: failing writes and starts, restarts, handles reaped

\* work: an llm, llm_map, tool or sandbox step; ask: an elicit step with a
\* timeout; gate: one without; agent: an agent step, which may ask as well.
Kinds == {"work", "ask", "gate", "agent"}

ASSUME PlansAssumption == Plans \subseteq Seq(Kinds)

ASSUME BoundsAssumption ==
    /\ Handles \subseteq Nat \ {0}
    /\ MaxElicits \in Nat /\ MaxMishaps \in Nat

VARIABLES
    plan,       \* the workflow of the run
    row,        \* its row of workflow_runs
    handle,     \* the RunHandles
    current,    \* RUN_HANDLES: the run's handle, 0 for none
    thread,     \* the handlers and the runners
    cancel,     \* how far the cancel handler is
    boot,       \* how far the startup sweep is
    asked,      \* whether the agent has asked for a review
    raced,      \* two resumes overlapped, or the handle of a live runner was reaped
    spent       \* what is used of the bounds

vars == <<plan, row, handle, current, thread, cancel, boot, asked, raced, spent>>

Elicits == 0..MaxElicits

Terminal == {"completed", "failed", "cancelled"}

Statuses == {"none", "pending", "running", "waiting", "resumable", "deleted"} \cup Terminal

Steps == 1..Len(plan)

\* outputs: step_outputs_json; pending and step: pending_elicitation_json;
\* response: the step that elicit_response_json answers; agent: resumable_agent;
\* old: created before the startup sweep's cutoff.  0 is NULL.
Row == [status : Statuses, outputs : SUBSET Steps, pending : Elicits, step : Nat,
        response : Nat, agent : BOOLEAN, old : BOOLEAN]

\* kept: older than its runner, because a client made it or a runner suspended.
Handle == [runner : BOOLEAN, cancelled : BOOLEAN, slot : Elicits, kept : BOOLEAN]

\* What run_inner does inside the select! that await_cancel can preempt.
Dispatching == {"work", "consult", "consume", "clearing", "answered", "gate",
                "suspend", "ask", "parked", "agentin", "agent", "agentgate",
                "agentout", "park"}

\* run_inner, which the deadline can drop.
Running == Dispatching \cup {"top", "arming", "save", "check"}

Ending == {"end", "leave"}

\* resume_run from its check of the registry to registry::register.
Resuming == {"recheck", "reread", "promote", "load"}

Pcs == Running \cup Ending \cup Resuming \cup {"idle", "inserted", "prepare", "branch", "store"}

\* done: ctx.step_outputs; h: the handle the runner holds; woken: its waiter on
\* cancel was notified; got: the oneshot channel it awaits holds an answer; late:
\* it began a step of a run already cancelled; note: what it has read or decided.
Thread == [pc : Pcs, step : Nat, done : SUBSET Steps, h : Handles \cup {0},
           eid : Elicits, woken : BOOLEAN, got : BOOLEAN, late : BOOLEAN,
           note : {"none", "waiting"} \cup Terminal]

NoRow == [status |-> "none", outputs |-> {}, pending |-> 0, step |-> 0,
          response |-> 0, agent |-> FALSE, old |-> FALSE]

NewHandle == [runner |-> FALSE, cancelled |-> FALSE, slot |-> 0, kept |-> FALSE]

Idle == [pc |-> "idle", step |-> 0, done |-> {}, h |-> 0, eid |-> 0,
         woken |-> FALSE, got |-> FALSE, late |-> FALSE, note |-> "none"]

Init ==
    /\ plan \in Plans
    /\ row = NoRow
    /\ handle = [h \in Handles |-> NewHandle]
    /\ current = 0
    /\ thread = [t \in Threads |-> Idle]
    /\ cancel = "idle" /\ boot = "idle"
    /\ asked = FALSE /\ raced = FALSE
    /\ spent = [elicits |-> 0, faults |-> 0, mishaps |-> 0]
-----------------------------------------------------------------------------
Set(t, r) == thread' = [thread EXCEPT ![t] = r]

Go(t, pc) == Set(t, [thread[t] EXCEPT !.pc = pc])

\* RunInnerOutcome: run_inner returns, or the deadline drops it.
End(t, outcome) ==
    Set(t, [Idle EXCEPT !.pc = "end", !.note = outcome, !.h = thread[t].h])

At(t, pc) == thread[t].pc = pc

\* An UPDATE of the run's row: none when it is deleted.
Write(r) == row' = IF row.status = "deleted" THEN row ELSE r

\* Mutant: mark_status without its status guard.
MarkAlways(status) == Write([row EXCEPT !.status = status])

\* repository::mark_status: a terminal row keeps its status.
MarkStatus(status) ==
    Write(IF row.status \in Terminal THEN row ELSE [row EXCEPT !.status = status])

Mishap(fault) ==
    /\ spent.mishaps < MaxMishaps
    /\ spent' = [spent EXCEPT !.mishaps = @ + 1, !.faults = @ + fault]

Fault == Mishap(1)

\* `let _ =' a write: it is done, or it fails and the failure is ignored.
Lossy(write) ==
    \/ write /\ UNCHANGED spent
    \/ Fault /\ UNCHANGED row

NextElicit ==
    /\ spent.elicits < MaxElicits
    /\ spent' = [spent EXCEPT !.elicits = @ + 1]

Resident == current # 0 /\ handle[current].runner

\* The handles that nothing refers to, and the one a new handle is made of.
Free == {h \in Handles : h # current /\ \A t \in Threads : thread[t].h # h}

\* A handle is dropped with the last reference to it.
Kept(held) == [h \in Handles |-> IF h \in held THEN handle[h] ELSE NewHandle]

HeldBy(threads) == {thread[t].h : t \in threads}

\* The entry of the map, or a new one.
GetOrCreate(h) ==
    /\ IF current = 0 THEN h \in Free /\ (\A k \in Free : h <= k) ELSE h = current
    /\ current' = h

\* registry::register: get or create, and mark a runner resident.
Registered(h) ==
    /\ GetOrCreate(h)
    /\ handle' = [handle EXCEPT ![h].runner = TRUE]

Others == <<plan, cancel, boot, asked, raced>>

Registry == <<handle, current>>
-----------------------------------------------------------------------------
\* spawn_run: the row is inserted; the handle follows, then preflight and provider.
Spawn(t) ==
    /\ At(t, "idle")
    /\ row.status = "none"
    /\ row' = [row EXCEPT !.status = "pending"]
    /\ Go(t, "inserted")
    /\ UNCHANGED <<Others, Registry, spent>>

Register(t) ==
    /\ thread[t].pc \in {"inserted", "load"}
    /\ \E h \in Handles : Registered(h)
    /\ Go(t, "prepare")
    /\ UNCHANGED <<Others, row, spent>>

\* The handler returns an error (of the bundle, the model, its provider, a write)
\* or its client hangs up: what it has inserted, stored or registered stays.
HandlerFails(t) ==
    /\ thread[t].pc \in Resuming \cup {"inserted", "prepare", "store"}
    /\ Fault
    /\ Set(t, Idle)
    /\ UNCHANGED <<Others, row, Registry>>

\* run_workflow: takes the handle (or registers one) and marks the run running; a
\* mark_running that fails is ignored, and the runner works on a pending row.
Enter(t) ==
    /\ At(t, "prepare")
    /\ \E h \in Handles :
        /\ IF current = 0 THEN Registered(h) ELSE h = current /\ UNCHANGED Registry
        /\ Set(t, [thread[t] EXCEPT !.pc = "top", !.step = 1, !.h = h, !.note = "none", !.eid = 0])
    /\ Lossy(Write(IF row.status = "pending" THEN [row EXCEPT !.status = "running"] ELSE row))
    /\ UNCHANGED Others
-----------------------------------------------------------------------------
\* The loop of run_inner.

Cancelled(t) == handle[thread[t].h].cancelled

\* Mutant: a resumed run starts over.
SkipNothing(t) == FALSE

\* A step whose output the resume has rehydrated.
Skipped(t) == thread[t].step \in thread[t].done

SkipStep(t) ==
    /\ At(t, "top") /\ thread[t].step \in Steps
    /\ ~Cancelled(t)
    /\ Skipped(t)
    /\ Set(t, [thread[t] EXCEPT !.step = @ + 1])
    /\ UNCHANGED <<Others, row, Registry, spent>>

BeginStep(t) ==
    /\ At(t, "top") /\ thread[t].step \in Steps
    /\ ~Cancelled(t)
    /\ ~Skipped(t)
    /\ Set(t, [thread[t] EXCEPT !.pc = "arming", !.woken = FALSE,
                                !.late = row.status = "cancelled"])
    /\ UNCHANGED <<Others, row, Registry, spent>>

\* is_cancelled at the loop's head, or await_cancel's own test of the flag.
SeeCancel(t) ==
    /\ thread[t].pc \in {"top", "arming"} /\ thread[t].step \in Steps
    /\ Cancelled(t)
    /\ End(t, "cancelled")
    /\ UNCHANGED <<Others, row, Registry, spent>>

\* await_cancel has tested the flag and listens: a cancel in between is lost.
Arm(t) ==
    /\ At(t, "arming")
    /\ Go(t, CASE plan[thread[t].step] = "work" -> "work"
               [] plan[thread[t].step] = "agent" -> "agentin"
               [] OTHER -> "consult")
    /\ UNCHANGED <<Others, row, Registry, spent>>

\* await_cancel wins: the dispatcher's future is dropped where it is.
Preempt(t) ==
    /\ thread[t].pc \in Dispatching
    /\ thread[t].woken
    /\ End(t, "cancelled")
    /\ UNCHANGED <<Others, row, Registry, spent>>

\* deadline_watcher wins.
Deadline(t) ==
    /\ thread[t].pc \in Running
    /\ End(t, "failed")
    /\ UNCHANGED <<Others, row, Registry, spent>>

Completes(t) ==
    Set(t, [thread[t] EXCEPT !.pc = "save", !.eid = 0, !.got = FALSE, !.done = @ \cup {thread[t].step}])

Work(t) ==
    /\ At(t, "work")
    /\ Completes(t) \/ End(t, "failed") \/ (Cancelled(t) /\ End(t, "cancelled"))
    /\ UNCHANGED <<Others, row, Registry, spent>>

\* persist_step_meta, then the caps.
Save(t) ==
    /\ At(t, "save")
    /\ Lossy(Write([row EXCEPT !.outputs = @ \cup {thread[t].step}]))
    /\ Go(t, "check") \/ End(t, "failed")
    /\ UNCHANGED <<Others, Registry>>

\* Mutant: no look at the row between steps.
CheckNothing(t) ==
    /\ At(t, "check")
    /\ Set(t, [thread[t] EXCEPT !.pc = "top", !.step = @ + 1])
    /\ UNCHANGED <<Others, row, Registry, spent>>

\* Mutant: the loop does not advance.
CheckAgain(t) ==
    /\ At(t, "check")
    /\ Set(t, [thread[t] EXCEPT !.pc = "top", !.done = {}])
    /\ UNCHANGED <<Others, row, Registry, spent>>

\* "Check DB-side cancel flip between steps"; when the read fails the run goes on.
Check(t) ==
    /\ At(t, "check")
    /\ \/ row.status = "cancelled" /\ End(t, "cancelled") /\ UNCHANGED spent
       \/ /\ IF row.status = "cancelled" THEN Fault ELSE UNCHANGED spent
          /\ Set(t, [thread[t] EXCEPT !.pc = "top", !.step = @ + 1])
    /\ UNCHANGED <<Others, row, Registry>>

\* The outputs of the workflow are resolved, or that fails.
Finish(t) ==
    /\ At(t, "top") /\ thread[t].step \notin Steps
    /\ \E outcome \in {"completed", "failed"} : End(t, outcome)
    /\ UNCHANGED <<Others, row, Registry, spent>>

\* run_workflow after run_inner: the terminal status, then registry::unregister of
\* whatever handle the run has.
MarkEnd(t) ==
    /\ At(t, "end")
    /\ Lossy(MarkStatus(thread[t].note))
    /\ Go(t, "leave")
    /\ UNCHANGED <<Others, Registry>>

Leave(t) ==
    /\ At(t, "leave")
    /\ current' = 0
    /\ handle' = Kept(HeldBy(Threads \ {t}))
    /\ Set(t, Idle)
    /\ UNCHANGED <<Others, row, spent>>

\* The Suspended arm: the handle stays, without a runner.
Park(t) ==
    /\ At(t, "park")
    /\ LET rest == Kept(HeldBy(Threads \ {t}) \cup {current}) IN
       handle' = IF current = 0 THEN rest
                 ELSE [rest EXCEPT ![current].runner = FALSE, ![current].kept = TRUE]
    /\ Set(t, Idle)
    /\ UNCHANGED <<Others, row, current, spent>>
-----------------------------------------------------------------------------
\* The elicit steps (ElicitDispatcher).

\* Mutant: the record comes before the slot that an answer is delivered through.
OpenLater(t) ==
    /\ At(t, "consult")
    /\ NextElicit
    /\ Write([row EXCEPT !.pending = spent.elicits + 1, !.step = thread[t].step])
    /\ Set(t, [thread[t] EXCEPT !.pc = "ask", !.eid = spent.elicits + 1])
    /\ UNCHANGED <<Others, Registry>>

\* No answer for this step is stored, or the read of it fails; n: the ids it takes.
NoAnswer(t, n) ==
    LET failed == row.response = thread[t].step IN
    /\ spent.elicits + n <= MaxElicits
    /\ failed => spent.mishaps < MaxMishaps
    /\ spent' = IF failed
                THEN [spent EXCEPT !.elicits = @ + n, !.mishaps = @ + 1, !.faults = @ + 1]
                ELSE [spent EXCEPT !.elicits = @ + n]

\* A stored answer for this step is consumed; otherwise the step asks: a gate
\* through the row alone, a bounded step through a slot of the handle first.
Consult(t) ==
    /\ At(t, "consult")
    /\ \/ /\ row.response = thread[t].step
          /\ Go(t, "consume")
          /\ UNCHANGED <<handle, spent>>
       \/ /\ plan[thread[t].step] = "gate"
          /\ NoAnswer(t, 1)
          /\ Set(t, [thread[t] EXCEPT !.pc = "gate", !.eid = spent.elicits + 1])
          /\ UNCHANGED handle
       \/ /\ plan[thread[t].step] = "ask" /\ current # 0
          /\ NoAnswer(t, 1)
          /\ handle' = [handle EXCEPT ![current].slot = spent.elicits + 1]
          /\ Set(t, [thread[t] EXCEPT !.pc = "ask", !.eid = spent.elicits + 1])
       \/ /\ plan[thread[t].step] = "ask" /\ current = 0
          /\ NoAnswer(t, 0)
          /\ End(t, "failed")
          /\ UNCHANGED handle
    /\ UNCHANGED <<Others, row, current>>

ConsumeStatus(t) ==
    /\ At(t, "consume")
    /\ Lossy(MarkStatus("running"))
    /\ Go(t, "clearing")
    /\ UNCHANGED <<Others, Registry>>

ConsumeResponse(t) ==
    /\ At(t, "clearing")
    /\ Lossy(Write([row EXCEPT !.response = 0]))
    /\ Go(t, "answered")
    /\ UNCHANGED <<Others, Registry>>

NoQuestion == [row EXCEPT !.pending = 0, !.step = 0]

\* finish_elicit: the answer is the step's output; the record is cleared.
Answer(t) ==
    /\ At(t, "answered")
    /\ Lossy(Write(NoQuestion))
    /\ Completes(t) \/ End(t, "failed")
    /\ UNCHANGED <<Others, Registry>>

PersistPending(t) ==
    Write([row EXCEPT !.pending = thread[t].eid, !.step = thread[t].step])

\* Mutant: a gate that forgets its question.
AskNothing(t) ==
    /\ At(t, "gate")
    /\ Go(t, "suspend")
    /\ UNCHANGED <<Others, row, Registry, spent>>

PersistGate(t) ==
    /\ At(t, "gate")
    /\ \/ PersistPending(t) /\ Go(t, "suspend") /\ UNCHANGED spent
       \/ Fault /\ End(t, "failed") /\ UNCHANGED row
    /\ UNCHANGED <<Others, Registry>>

Suspend(t) ==
    /\ At(t, "suspend")
    /\ Lossy(MarkStatus("waiting"))
    /\ Go(t, "park")
    /\ UNCHANGED <<Others, Registry>>

PersistAsk(t) ==
    /\ At(t, "ask")
    /\ \/ PersistPending(t) /\ Go(t, "parked") /\ UNCHANGED <<handle, spent>>
       \/ /\ Fault
          /\ End(t, "failed")
          /\ IF current = 0 THEN UNCHANGED handle
             ELSE handle' = [handle EXCEPT ![current].slot = 0]
          /\ UNCHANGED row
    /\ UNCHANGED <<Others, current>>

\* The select! on the answer, cancel and the timeout: any that is ready may win.
AskAnswered(t) ==
    /\ At(t, "parked")
    /\ thread[t].got
    /\ Go(t, "answered")
    /\ UNCHANGED <<Others, row, Registry, spent>>

\* The sender was dropped: another question took the slot.
Replaced(t) ==
    /\ ~thread[t].got
    /\ \A h \in Handles \ Free : handle[h].slot # thread[t].eid

AskGivenUp(t) ==
    /\ At(t, "parked")
    /\ \E outcome \in {"cancelled", "failed"} :
        /\ outcome = "cancelled" => Cancelled(t) \/ Replaced(t)
        /\ End(t, outcome)
    /\ Lossy(Write(NoQuestion))
    /\ UNCHANGED <<Others, Registry>>
-----------------------------------------------------------------------------
\* The agent steps (AgentDispatcher and its WorkflowHumanGate).  The answer to a
\* review is read by the resumed loop and stays in the row, as does the question.

AgentEnter(t) ==
    /\ At(t, "agentin")
    /\ Lossy(Write([row EXCEPT !.agent = TRUE]))
    /\ Go(t, "agent")
    /\ UNCHANGED <<Others, Registry>>

AgentAsks(t) ==
    /\ At(t, "agent")
    /\ NextElicit
    /\ Write([row EXCEPT !.pending = spent.elicits + 1, !.step = thread[t].step])
    /\ Go(t, "agentgate")
    /\ asked' = TRUE
    /\ UNCHANGED <<plan, cancel, boot, raced, Registry>>

AgentSuspends(t) ==
    /\ At(t, "agentgate")
    /\ \/ /\ MarkStatus("waiting") /\ UNCHANGED spent
          /\ Set(t, [thread[t] EXCEPT !.pc = "agentout", !.note = "waiting"])
       \/ /\ Fault /\ UNCHANGED row
          /\ Set(t, [thread[t] EXCEPT !.pc = "agentout", !.note = "failed"])
    /\ UNCHANGED <<Others, Registry>>

AgentStops(t) ==
    /\ At(t, "agent")
    /\ \E outcome \in Terminal :
        /\ outcome = "cancelled" => Cancelled(t)
        /\ Set(t, [thread[t] EXCEPT !.pc = "agentout", !.note = outcome])
    /\ UNCHANGED <<Others, row, Registry, spent>>

AgentLeave(t) ==
    /\ At(t, "agentout")
    /\ Lossy(Write([row EXCEPT !.agent = FALSE]))
    /\ CASE thread[t].note = "waiting" -> Go(t, "park")
         [] thread[t].note = "completed" -> Completes(t)
         [] OTHER -> End(t, thread[t].note)
    /\ UNCHANGED <<Others, Registry>>
-----------------------------------------------------------------------------
\* submit_elicit and resume_run.

\* The handler has read the row; an id that is not pending is refused.
Submit(t) ==
    /\ At(t, "idle")
    /\ row.pending # 0
    /\ Set(t, [thread[t] EXCEPT !.pc = "branch", !.eid = row.pending, !.step = row.step,
                                !.note = IF row.status = "waiting" THEN "waiting" ELSE "none"])
    /\ UNCHANGED <<Others, row, Registry, spent>>

\* HOT: through the slot of the handle, or 410.
SubmitHot(t) ==
    /\ At(t, "branch")
    /\ Resident
    /\ LET e == thread[t].eid
           taken == handle[current].slot = e
       IN /\ handle' = IF taken THEN [handle EXCEPT ![current].slot = 0] ELSE handle
          /\ thread' = [u \in Threads |->
                IF u = t THEN Idle
                ELSE [thread[u] EXCEPT !.got = @ \/ (taken /\ thread[u].pc \in {"ask", "parked"}
                                                           /\ thread[u].eid = e)]]
    /\ UNCHANGED <<Others, row, current, spent>>

\* COLD: only a run read as waiting.
SubmitCold(t) ==
    /\ At(t, "branch")
    /\ ~Resident
    /\ IF thread[t].note = "waiting" THEN Go(t, "store") ELSE Set(t, Idle)
    /\ UNCHANGED <<Others, row, Registry, spent>>

StoreResponse(t) ==
    /\ At(t, "store")
    /\ Write([row EXCEPT !.response = thread[t].step])
    /\ Go(t, "recheck")
    /\ UNCHANGED <<Others, Registry, spent>>

\* Mutant: no test of runner_resident.
ResumeAnyway(t) ==
    /\ At(t, "recheck")
    /\ Go(t, "reread")
    /\ UNCHANGED <<Others, row, Registry, spent>>

\* "a resident runner already owns this run".
ResumeCheck(t) ==
    /\ At(t, "recheck")
    /\ IF Resident
         THEN Set(t, Idle) /\ UNCHANGED raced
         ELSE /\ Go(t, "reread")
              /\ raced' = (raced \/ \E u \in Threads \ {t} :
                              thread[u].pc \in Resuming \ {"recheck"})
    /\ UNCHANGED <<plan, row, Registry, cancel, boot, asked, spent>>

\* find_run: what it has read is what rehydrate_ctx restores.
ResumeRead(t) ==
    /\ At(t, "reread")
    /\ CASE row.status = "waiting" ->
                Set(t, [thread[t] EXCEPT !.pc = "load", !.done = row.outputs])
         [] row.status = "resumable" ->
                Set(t, [thread[t] EXCEPT !.pc = "promote", !.done = row.outputs])
         [] OTHER -> Set(t, Idle)
    /\ UNCHANGED <<Others, row, Registry, spent>>

ResumePromote(t) ==
    /\ At(t, "promote")
    /\ MarkStatus("running")
    /\ Go(t, "load")
    /\ UNCHANGED <<Others, Registry, spent>>
-----------------------------------------------------------------------------
\* cancel_run, the tool call's RunCancelOnDrop, delete_run and the subscription.

CancelCas ==
    Write(IF row.status \in {"pending", "running", "waiting", "resumable"}
            THEN [row EXCEPT !.status = "cancelled"] ELSE row)

\* registry::cancel: the flag, and those that already wait are notified.
Signal ==
    IF current = 0 THEN UNCHANGED <<handle, thread>>
    ELSE /\ handle' = [handle EXCEPT ![current].cancelled = TRUE]
         /\ thread' = [t \in Threads |->
                [thread[t] EXCEPT !.woken =
                    @ \/ (thread[t].h = current /\ thread[t].pc \in Dispatching)]]

Rest == <<plan, current, boot, asked, raced, spent>>

CancelRow ==
    /\ cancel = "idle" /\ row.status \notin {"none", "deleted"}
    /\ CancelCas
    /\ cancel' = "signal"
    /\ UNCHANGED <<Rest, handle, thread>>

CancelSignal ==
    /\ cancel = "signal"
    /\ Signal
    /\ cancel' = "idle"
    /\ UNCHANGED <<Rest, row>>

\* The tool call's future is dropped while it awaits the run.
DropSignal ==
    /\ cancel = "idle" /\ row.status \notin {"none", "deleted"}
    /\ Signal
    /\ cancel' = "cas"
    /\ UNCHANGED <<Rest, row>>

DropRow ==
    /\ cancel = "cas"
    /\ CancelCas
    /\ cancel' = "idle"
    /\ UNCHANGED <<Rest, handle, thread>>

Deleted ==
    /\ row' = [NoRow EXCEPT !.status = "deleted"]
    /\ UNCHANGED <<Rest, handle, thread, cancel>>

DeleteRun == row.status \in Terminal /\ Deleted

\* delete_user_workflow: the runs go with the workflow, whatever they are doing.
DeleteWorkflow == row.status \notin {"none", "deleted"} /\ Deleted

Delete == DeleteRun \/ DeleteWorkflow

\* register_client: makes a handle when there is none; the row was read before.
Subscribe ==
    /\ current = 0 /\ row.status # "none"
    /\ \E h \in Handles :
        /\ GetOrCreate(h)
        /\ handle' = [handle EXCEPT ![h].kept = TRUE]
    /\ UNCHANGED <<Others, row, thread, spent>>

HasRunner(h) == \E t \in Threads : thread[t].h = h

\* reap_stale, on any subscription: the handle is older than the run's timeout.
Reap ==
    /\ current # 0
    /\ handle[current].kept \/ (~HasRunner(current) /\ \A t \in Threads : ~At(t, "prepare"))
    /\ Mishap(0)
    /\ current' = 0
    /\ handle' = Kept(HeldBy(Threads))
    /\ raced' = (raced \/ handle[current].runner)
    /\ UNCHANGED <<plan, row, thread, cancel, boot, asked>>
-----------------------------------------------------------------------------
\* The server is killed and started again; the sweep runs beside the handlers.

Crash ==
    /\ row.status # "none"
    /\ Mishap(0)
    /\ thread' = [t \in Threads |-> Idle]
    /\ handle' = [h \in Handles |-> NewHandle]
    /\ current' = 0 /\ cancel' = "idle"
    /\ row' = [row EXCEPT !.old = TRUE]
    /\ boot' = "spare"
    /\ UNCHANGED <<plan, asked, raced>>

Sweep == <<plan, handle, current, cancel, asked, raced>>

\* fail_orphaned_runs: a run inside an agent step is spared, ...
SweepSpare ==
    /\ boot = "spare"
    /\ row' = IF row.status = "running" /\ row.agent /\ row.old
                THEN [row EXCEPT !.status = "resumable"] ELSE row
    /\ boot' = "fail"
    /\ UNCHANGED <<Sweep, thread, spent>>

\* Mutant: a sweep that leaves running rows alone.
SweepPending ==
    /\ boot = "fail"
    /\ row' = IF row.status = "pending" /\ row.old THEN [row EXCEPT !.status = "failed"] ELSE row
    /\ boot' = "redrive"
    /\ UNCHANGED <<Sweep, thread, spent>>

\* ... any other has failed.
SweepFail ==
    /\ boot = "fail"
    /\ row' = IF row.status \in {"pending", "running"} /\ row.old
                THEN [row EXCEPT !.status = "failed"] ELSE row
    /\ boot' = "redrive"
    /\ UNCHANGED <<Sweep, thread, spent>>

SweepRedrive ==
    /\ boot = "redrive"
    /\ IF row.status = "resumable"
         THEN \E t \in Threads : At(t, "idle") /\ Go(t, "recheck")
         ELSE UNCHANGED thread
    /\ boot' = "idle"
    /\ UNCHANGED <<Sweep, row, spent>>

SweepDies ==
    /\ boot # "idle"
    /\ Fault
    /\ boot' = "idle"
    /\ UNCHANGED <<Sweep, row, thread>>
-----------------------------------------------------------------------------
Elicit(t) ==
    \/ Consult(t) \/ ConsumeStatus(t) \/ ConsumeResponse(t) \/ Answer(t)
    \/ PersistGate(t) \/ Suspend(t) \/ PersistAsk(t) \/ AskAnswered(t) \/ AskGivenUp(t)

Agent(t) ==
    \/ AgentEnter(t) \/ AgentAsks(t) \/ AgentSuspends(t) \/ AgentStops(t) \/ AgentLeave(t)

Loop(t) ==
    \/ SkipStep(t) \/ BeginStep(t) \/ SeeCancel(t) \/ Arm(t) \/ Preempt(t) \/ Deadline(t)
    \/ Work(t) \/ Save(t) \/ Check(t) \/ Finish(t) \/ MarkEnd(t) \/ Leave(t) \/ Park(t)

Handler(t) ==
    \/ SubmitHot(t) \/ SubmitCold(t) \/ StoreResponse(t)
    \/ ResumeCheck(t) \/ ResumeRead(t) \/ ResumePromote(t)
    \/ Register(t) \/ HandlerFails(t) \/ Enter(t)

\* What a handler or a runner does once it is there.
Step(t) == Loop(t) \/ Elicit(t) \/ Agent(t) \/ Handler(t)

Cancelling == CancelRow \/ CancelSignal \/ DropSignal \/ DropRow

Sweeping == SweepSpare \/ SweepFail \/ SweepRedrive \/ SweepDies

Next ==
    \/ \E t \in Threads : Spawn(t) \/ Submit(t) \/ Step(t)
    \/ Cancelling \/ Delete \/ Subscribe \/ Reap \/ Crash \/ Sweeping

Spec == Init /\ [][Next]_vars

Live ==
    /\ Spec
    /\ \A t \in Threads : WF_vars(Step(t))
    /\ WF_vars(Sweeping)
-----------------------------------------------------------------------------
TypeOK ==
    /\ plan \in Plans
    /\ row \in Row
    /\ handle \in [Handles -> Handle]
    /\ current \in Handles \cup {0}
    /\ thread \in [Threads -> Thread]
    /\ cancel \in {"idle", "signal", "cas"}
    /\ boot \in {"idle", "spare", "fail", "redrive"}
    /\ asked \in BOOLEAN /\ raced \in BOOLEAN
    /\ spent \in [elicits : Elicits, faults : Nat, mishaps : 0..MaxMishaps]

\* The threads that execute the run, from the moment they take the handle.
Runners == {t \in Threads : thread[t].pc \in Running \cup Ending}

\* repository.rs: a terminal status is never overwritten, whatever the order in
\* which runner, cancel, resume and sweep write it; only delete_run ends it.
TerminalIsFinal ==
    [][row.status \in Terminal \cup {"deleted"} =>
        row'.status = row.status \/ row'.status = "deleted"]_vars

\* run_inner: a runner that began a step after the run had been cancelled does not
\* begin another, unless its look at the row between the steps failed or the row
\* was deleted before it.
CancelIsSeen ==
    \A t \in Threads :
        At(t, "top") /\ thread[t].late /\ row.status = "cancelled" => spent.faults > 0

\* resume_run's idempotency: one runner executes a run, except where resume_run
\* lets two in: between its check and register, and after the handle of a live
\* runner was reaped.
OneRunner == ~raced => \A t, u \in Runners : t = u

\* run_inner's skip and rehydrate_ctx: no step begins whose output is persisted, so
\* a resumed run neither spends tokens nor causes effects twice.
SavedStepIsNotRedone ==
    \A t \in Threads :
        ~raced /\ thread[t].pc \in Dispatching \cup {"arming"} =>
            thread[t].step \notin row.outputs

\* ElicitDispatcher (M3): while a bounded question is in the row and its runner
\* waits, an answer finds the slot, as long as the runner's handle is the run's.
SlotBeforeRecord ==
    \A t \in Threads :
        /\ ~raced /\ thread[t].pc \in {"ask", "parked"}
        /\ row.pending = thread[t].eid /\ current = thread[t].h
        => handle[current].slot = thread[t].eid \/ thread[t].got

\* A waiting run has a question to answer: only a run whose agent was answered
\* goes on as waiting while later steps ask and clear.
WaitingHasQuestion ==
    row.status = "waiting" /\ ~asked /\ ~raced /\ spent.faults = 0 => row.pending # 0

\* Somebody answers for a run that is pending or running: a handler that starts
\* it, a runner, or the sweep; unless a write or a start failed half-way.
Owned ==
    \/ boot # "idle"
    \/ \E t \in Threads :
        thread[t].pc \in Running \cup Ending \cup {"inserted", "prepare", "load", "promote"}

NotAbandoned == row.status \in {"pending", "running"} /\ spent.faults = 0 => Owned

\* Every runner comes to an end, by its steps, a cancel or its deadline.
RunnerEnds == \A t \in Threads : t \in Runners ~> t \notin Runners

\* A run does not stay pending or running, across a restart neither.
RunSettles ==
    row.status \in {"pending", "running"} ~>
        row.status \notin {"pending", "running"} \/ spent.faults > 0

\* runner.rs: "Idempotent: a no-op if a runner is already resident."
OneRunnerAlways == \A t, u \in Runners : t = u
====
