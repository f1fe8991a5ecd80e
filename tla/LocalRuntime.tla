---------------------------- MODULE LocalRuntime ----------------------------
(***************************************************************************)
(* The runtime of local models (server/src/modules/llm_local_runtime),     *)
(* for one model: proxied requests that start the engine on demand under   *)
(* a single-flight cell, the crash-loop breaker, the admin's start, stop,  *)
(* restart and clear-failed, the validation worker, and the idle reaper,   *)
(* all working on the same row, the same entry of the process map and the  *)
(* same in-memory maps.  Nothing but the quota on engines couples two      *)
(* models; a start that meets it fails, like any other failing start.      *)
(*                                                                         *)
(* Every await of a task between two uses of shared state is a place where *)
(* the other tasks run.                                                    *)
(***************************************************************************)
EXTENDS Integers, FiniteSets

CONSTANTS
    Tasks,          \* bound: tasks at a time (handlers, worker, reaper)
    Engines,        \* bound: engine processes that anything refers to
    NoEngine, NoCell,
    Kinds,          \* what tasks do in this instance
    FlapMax,        \* SlidingWindow::max_events
    Failures,       \* whether spawns, checks and INSERTs may fail
    Hangups,        \* the kinds of handler whose clients hang up
    Restarts        \* whether the server is killed and started again

AllKinds == {"proxy", "validate", "start", "stop", "restart", "clear", "reap"}

ASSUME KindsAssumption == Kinds \subseteq AllKinds

ASSUME NamesAssumption == NoEngine \notin Engines /\ NoCell \notin Tasks

ASSUME BoundsAssumption ==
    FlapMax \in Nat /\ Failures \in BOOLEAN /\ Hangups \subseteq AllKinds \ {"validate", "reap"} /\ Restarts \in BOOLEAN

VARIABLES
    row,        \* the model's row of llm_runtime_instances
    engines,    \* the engine processes
    proc,       \* LocalDeployment::processes: the engine of the model
    cell,       \* IN_FLIGHT: the OnceCell of the model, named by its creator
    cells,      \* the OnceCells themselves
    health,     \* HEALTH: the machine of the model
    draining,   \* INSTANCE_FLAGS: whether the reaper drains the model
    task        \* the tasks

vars == <<row, engines, proc, cell, cells, health, draining, task>>

\* state: only failed and stopped are told apart, by the machine that the row
\* restores; live stands for all the others.
Row == [status : {"none", "starting", "running", "stopped"},
        state : {"live", "failed", "stopped"},
        engine : Engines \cup {NoEngine}]

\* known: the map has a machine; crashes: the events in its sliding window.
Machine == [known : BOOLEAN, crashes : 0..(FlapMax + 1),
            state : {"starting", "healthy", "unhealthy", "restarting", "failed", "stopped"}]

Pcs == {"idle", "guarded", "probe", "health", "stale", "crashed", "check", "claim",
        "wait", "start", "spawn", "insert", "poll", "persist", "started", "failed",
        "giveup", "drop", "url", "post", "stream", "read", "ahealth", "delete", "create",
        "readback", "setrun", "undo", "unrow", "clearing", "clearrow", "monitor", "watch",
        "note", "candidates", "drain", "draining", "kill", "mark", "clear",
        "forget"}

\* eng: the engine a task has read or spawned; cell: the OnceCell it is attached
\* to; holds: it runs the cell's closure; ret: where it goes after stop().
Task == [pc : Pcs, kind : AllKinds, eng : Engines \cup {NoEngine},
         cell : Tasks \cup {NoCell}, holds : BOOLEAN,
         ret : {"idle", "failed", "mark", "delete", "undo", "clear"}]

NoRow == [status |-> "none", state |-> "live", engine |-> NoEngine]

NoMachine == [known |-> FALSE, state |-> "starting", crashes |-> 0]

Idle == [pc |-> "idle", kind |-> "proxy", eng |-> NoEngine, cell |-> NoCell,
         holds |-> FALSE, ret |-> "idle"]

Init ==
    /\ row = NoRow
    /\ engines = [e \in Engines |-> "dead"]
    /\ proc = NoEngine /\ cell = NoCell
    /\ cells = [t \in Tasks |-> "new"]
    /\ health = NoMachine
    /\ draining = FALSE
    /\ task = [t \in Tasks |-> Idle]

-----------------------------------------------------------------------------
\* The health state machine (engine/health.rs).  RestartAttempt and AdminStop are
\* sent by tests only, so restart_attempts stays 0 and its cap is never reached.

\* ensure_restored: the machine in memory, or the one the row restores; only
\* Failed and Stopped are restored as they were.
Known ==
    IF health.known THEN health
    ELSE [known |-> TRUE, crashes |-> 0,
          state |-> IF row.state = "live" THEN "starting" ELSE row.state]

\* HealthEvent::Crashed: counted, unless the machine has given up or is stopped.
Crashed(h) ==
    IF h.state \in {"failed", "stopped"} THEN h
    ELSE LET n == h.crashes + 1 IN
         [h EXCEPT !.crashes = n, !.state = IF n > FlapMax THEN "failed" ELSE "restarting"]

\* Transition::GiveUp: this crash is the one that trips the breaker.
GivesUp(h) == h.state # "failed" /\ Crashed(h).state = "failed"

\* HealthEvent::StartedOk.
StartedOk(h) ==
    IF h.state \in {"starting", "restarting"} THEN [h EXCEPT !.state = "healthy"] ELSE h

\* HealthEvent::Ok and HealthEvent::Unhealthy, from the reaper's probe.
Probed(h, ok) ==
    IF ok
      THEN IF h.state \in {"starting", "unhealthy"} THEN [h EXCEPT !.state = "healthy"] ELSE h
      ELSE IF h.state \in {"starting", "healthy"} THEN [h EXCEPT !.state = "unhealthy"] ELSE h

-----------------------------------------------------------------------------
Set(t, r) == task' = [task EXCEPT ![t] = r]

Go(t, pc) == Set(t, [task[t] EXCEPT !.pc = pc])

\* dep.stop(model_id), and where the caller goes on.
Stop(t, ret) == Set(t, [task[t] EXCEPT !.pc = "kill", !.ret = ret])

Alive(e) == engines[e] \in {"sick", "up"}

Up(e) == e # NoEngine /\ engines[e] = "up"

Dead(es) == [e \in Engines |-> IF e \in es THEN "dead" ELSE engines[e]]

\* The requests that inflight_count counts: the guard lives until the handler
\* returns its response, not until the body has been streamed.
InFlight == {t \in Tasks : task[t].kind = "proxy" /\ task[t].pc \notin {"idle", "stream"}}

\* Nothing refers to the engine, so its name may be used for a new process.
Unused(e) == ~Alive(e) /\ row.engine # e /\ \A t \in Tasks : task[t].eng # e

\* Nobody is attached to the cell that the task created last.
CellUnused(t) == cell # t /\ \A u \in Tasks : task[u].cell # t

First(k) ==
    CASE k = "proxy" -> "guarded"
      [] k = "validate" -> "probe"
      [] k \in {"start", "restart"} -> "read"
      [] k = "stop" -> "unrow"
      [] k = "clear" -> "clearing"
      [] k = "reap" -> "monitor"

\* A request arrives, the worker takes a model, or the reaper ticks: there is one
\* validation worker and one reaper.  A request has its guard from here on.
Begin(t, k) ==
    /\ task[t].pc = "idle" /\ CellUnused(t)
    /\ k \in {"validate", "reap"} => \A u \in Tasks : task[u].pc # "idle" => task[u].kind # k
    /\ Set(t, [Idle EXCEPT !.kind = k, !.pc = First(k)])
    /\ UNCHANGED <<row, engines, proc, cell, cells, health, draining>>

\* Mutant: the drain flag is not looked at.
CheckFlagNever(t) ==
    /\ task[t].pc = "guarded"
    /\ Go(t, "probe")
    /\ UNCHANGED <<row, engines, proc, cell, cells, health, draining>>

\* forward_post_with_body: the drain flag is read after the guard was acquired.
CheckFlag(t) ==
    /\ task[t].pc = "guarded"
    /\ IF draining THEN Set(t, Idle) ELSE Go(t, "probe")
    /\ UNCHANGED <<row, engines, proc, cell, cells, health, draining>>

\* probe_liveness: the row, then /health, then the UPDATE of a stale row.
ReadRow(t) ==
    /\ task[t].pc = "probe"
    /\ IF row.status = "running"
         THEN Set(t, [task[t] EXCEPT !.pc = "health", !.eng = row.engine])
         ELSE Go(t, IF task[t].holds THEN "failed" ELSE "check")
    /\ UNCHANGED <<row, engines, proc, cell, cells, health, draining>>

\* ensure_running returned Ok: the proxy forwards, the validator tears down.
Serve(t) ==
    IF task[t].kind = "proxy" THEN [Idle EXCEPT !.pc = "url"]
    ELSE [Idle EXCEPT !.kind = "validate", !.pc = "kill", !.ret = "mark"]

\* The closure of the cell is over.
Settled(t) == [task[t] EXCEPT !.pc = "drop", !.eng = NoEngine, !.holds = FALSE,
                              !.ret = "idle"]

CheckHealth(t) ==
    /\ task[t].pc = "health"
    /\ \/ /\ ~Up(task[t].eng) /\ Go(t, "stale") /\ UNCHANGED health
       \/ /\ Up(task[t].eng) /\ task[t].holds
          /\ Go(t, "started") /\ UNCHANGED health
       \/ /\ Up(task[t].eng) /\ ~task[t].holds
          /\ health' = StartedOk(Known)
          /\ Set(t, Serve(t))
    /\ UNCHANGED <<row, engines, proc, cell, cells, draining>>

MarkCrashed(t) ==
    /\ task[t].pc = "stale"
    /\ row' = IF row.status = "none" THEN row
              ELSE [row EXCEPT !.status = "stopped", !.state = "live"]
    /\ Set(t, [task[t] EXCEPT !.pc = IF task[t].holds THEN "failed" ELSE "crashed",
                              !.eng = NoEngine])
    /\ UNCHANGED <<engines, proc, cell, cells, health, draining>>

\* ensure_running, Liveness::Crashed: give up, report the backoff, or go on (the
\* machine did not react, or the delay of a second and more went by meanwhile).
NoteCrash(t) ==
    /\ task[t].pc = "crashed"
    /\ health' = Crashed(Known)
    /\ \/ GivesUp(Known) /\ Set(t, [task[t] EXCEPT !.pc = "giveup"])
       \/ ~GivesUp(Known) /\ Crashed(Known) # Known /\ Set(t, Idle)
       \/ ~GivesUp(Known) /\ Go(t, "claim")
    /\ UNCHANGED <<row, engines, proc, cell, cells, draining>>

\* ensure_running, Liveness::NotRunning.
CheckFailed(t) ==
    /\ task[t].pc = "check"
    /\ health' = Known
    /\ IF Known.state = "failed" THEN Set(t, Idle) ELSE Go(t, "claim")
    /\ UNCHANGED <<row, engines, proc, cell, cells, draining>>

\* persist_failed; the caller that found the crash then forgets the machine.
PersistFailed(t) ==
    /\ task[t].pc = "giveup"
    /\ row' = IF row.status = "none" THEN row
              ELSE [row EXCEPT !.status = "stopped", !.state = "failed"]
    /\ IF task[t].holds
         THEN /\ cells' = [cells EXCEPT ![task[t].cell] = "err"]
              /\ Set(t, Settled(t))
         ELSE Go(t, "forget") /\ UNCHANGED cells
    /\ UNCHANGED <<engines, proc, cell, health, draining>>

\* The cell of the model is joined, or created.
Claim(t) ==
    /\ task[t].pc = "claim"
    /\ LET c == IF cell = NoCell THEN t ELSE cell IN
       /\ cell' = c
       /\ cells' = IF cell = NoCell THEN [cells EXCEPT ![t] = "new"] ELSE cells
       /\ Set(t, [task[t] EXCEPT !.pc = "wait", !.cell = c])
    /\ UNCHANGED <<row, engines, proc, health, draining>>

\* Mutant: a caller that finds the closure running runs it too.
GetOrInitAgain(t) ==
    /\ task[t].pc = "wait"
    /\ cells[task[t].cell] \in {"new", "busy"}
    /\ cells' = [cells EXCEPT ![task[t].cell] = "busy"]
    /\ Set(t, [task[t] EXCEPT !.pc = "start", !.holds = TRUE])
    /\ UNCHANGED <<row, engines, proc, cell, health, draining>>

\* get_or_init: run the closure if nobody does, or take the outcome.
GetOrInit(t) ==
    /\ task[t].pc = "wait"
    /\ \/ /\ cells[task[t].cell] = "new"
          /\ cells' = [cells EXCEPT ![task[t].cell] = "busy"]
          /\ Set(t, [task[t] EXCEPT !.pc = "start", !.holds = TRUE])
       \/ /\ cells[task[t].cell] \in {"ok", "err"}
          /\ Go(t, "drop") /\ UNCHANGED cells
    /\ UNCHANGED <<row, engines, proc, cell, health, draining>>

\* Every caller removes whatever cell the model has by then; the last one to leave
\* a cell frees its name.
DropCell(t) ==
    /\ task[t].pc = "drop"
    /\ cell' = NoCell
    /\ cells' = IF \E u \in Tasks \ {t} : task[u].cell = task[t].cell THEN cells
                ELSE [cells EXCEPT ![task[t].cell] = "new"]
    /\ IF cells[task[t].cell] = "ok" THEN Set(t, Serve(t)) ELSE Set(t, Idle)
    /\ UNCHANGED <<row, engines, proc, health, draining>>

-----------------------------------------------------------------------------
\* LocalDeployment::start: an entry in the process map is a conflict.  do_start asks
\* the row again whether the engine runs, whatever start() failed with.
StartEngine(t) ==
    /\ task[t].pc = "start"
    /\ IF proc = NoEngine THEN Go(t, "spawn")
       ELSE IF task[t].holds THEN Go(t, "probe") ELSE Set(t, Idle)
    /\ UNCHANGED <<row, engines, proc, cell, cells, health, draining>>

\* The quota, the version lookup, the argv or the spawn itself fails.
StartRefused(t) ==
    /\ Failures /\ task[t].pc = "spawn"
    /\ IF task[t].holds THEN Go(t, "probe") ELSE Set(t, Idle)
    /\ UNCHANGED <<row, engines, proc, cell, cells, health, draining>>

SpawnEngine(t, e) ==
    /\ task[t].pc = "spawn" /\ Unused(e)
    /\ engines' = [engines EXCEPT ![e] = "sick"]
    /\ Set(t, [task[t] EXCEPT !.pc = "insert", !.eng = e])
    /\ UNCHANGED <<row, proc, cell, cells, health, draining>>

\* Mutant: children are spawned without kill_on_drop.
InsertEngineOver(t) ==
    /\ task[t].pc = "insert"
    /\ proc' = task[t].eng
    /\ Go(t, IF task[t].holds THEN "poll" ELSE "create")
    /\ UNCHANGED <<row, engines, cell, cells, health, draining>>

\* An entry that is overwritten is dropped, and its process killed (kill_on_drop).
InsertEngine(t) ==
    /\ task[t].pc = "insert"
    /\ proc' = task[t].eng
    /\ engines' = Dead({proc})
    /\ Go(t, IF task[t].holds THEN "poll" ELSE "create")
    /\ UNCHANGED <<row, cell, cells, health, draining>>

\* do_start: /health until it answers, and the loopback check.
PollHealth(t) ==
    /\ task[t].pc = "poll" /\ Up(task[t].eng)
    /\ Go(t, "persist")
    /\ UNCHANGED <<row, engines, proc, cell, cells, health, draining>>

\* The deadline, or a socket that is not bound to loopback.
PollFails(t) ==
    /\ task[t].pc = "poll"
    /\ Stop(t, "failed")
    /\ UNCHANGED <<row, engines, proc, cell, cells, health, draining>>

\* persist_instance, an upsert.
PersistInstance(t) ==
    /\ task[t].pc = "persist"
    /\ \/ /\ row' = [status |-> "running", state |-> "live", engine |-> task[t].eng]
          /\ Go(t, "started")
       \/ Failures /\ Go(t, "failed") /\ UNCHANGED row
    /\ UNCHANGED <<engines, proc, cell, cells, health, draining>>

\* The closure returned Ok.
StartSucceeds(t) ==
    /\ task[t].pc = "started"
    /\ health' = StartedOk(Known)
    /\ cells' = [cells EXCEPT ![task[t].cell] = "ok"]
    /\ Set(t, Settled(t))
    /\ UNCHANGED <<row, engines, proc, cell, draining>>

\* The closure returned Err: a failed start counts as a crash.
StartFails(t) ==
    /\ task[t].pc = "failed"
    /\ health' = Crashed(Known)
    /\ IF GivesUp(Known)
         THEN Go(t, "giveup") /\ UNCHANGED cells
         ELSE /\ cells' = [cells EXCEPT ![task[t].cell] = "err"]
              /\ Set(t, Settled(t))
    /\ UNCHANGED <<row, engines, proc, cell, draining>>

\* get_running_instance_base_url.
Resolve(t) ==
    /\ task[t].pc = "url"
    /\ IF row.status = "running"
         THEN Set(t, [task[t] EXCEPT !.pc = "post", !.eng = row.engine])
         ELSE Set(t, Idle)
    /\ UNCHANGED <<row, engines, proc, cell, cells, health, draining>>

\* The engine answers, and the handler returns a response whose body is still to
\* come; or the request fails (no engine, no bearer or another one, an error status).
Forward(t) ==
    /\ task[t].pc = "post"
    /\ \/ Up(task[t].eng) /\ Go(t, "stream")
       \/ Set(t, Idle)
    /\ UNCHANGED <<row, engines, proc, cell, cells, health, draining>>

StreamEnds(t) ==
    /\ task[t].pc = "stream"
    /\ Set(t, Idle)
    /\ UNCHANGED <<row, engines, proc, cell, cells, health, draining>>

-----------------------------------------------------------------------------
\* LocalDeployment::stop: the entry and its process.
\* "Process not found" ends the handlers of stop and restart; the others ignore it.
KillEngine(t) ==
    /\ task[t].pc = "kill"
    /\ proc' = NoEngine
    /\ engines' = Dead({proc})
    /\ IF \/ task[t].ret = "idle"
          \/ proc = NoEngine /\ task[t].kind \in {"stop", "restart"} /\ task[t].ret # "undo"
         THEN Set(t, Idle)
         ELSE Set(t, [task[t] EXCEPT !.pc = task[t].ret, !.eng = NoEngine])
    /\ UNCHANGED <<row, cell, cells, health, draining>>

\* start_model_instance and restart_model_instance look at the row first.
ReadForAdmin(t) ==
    /\ task[t].pc = "read"
    /\ CASE task[t].kind = "restart" ->
              IF row.status = "none" THEN Set(t, Idle) ELSE Stop(t, "delete")
         [] task[t].kind = "start" ->
              IF row.status = "running"
                THEN Set(t, [task[t] EXCEPT !.pc = "ahealth", !.eng = row.engine])
                ELSE Go(t, IF row.status = "none" THEN "start" ELSE "delete")
    /\ UNCHANGED <<row, engines, proc, cell, cells, health, draining>>

\* Only an instance that answers /health refuses a manual start.
CheckForAdmin(t) ==
    /\ task[t].pc = "ahealth"
    /\ IF Up(task[t].eng) THEN Set(t, Idle) ELSE Go(t, "delete")
    /\ UNCHANGED <<row, engines, proc, cell, cells, health, draining>>

\* delete_instance; no row to delete is an error.
DeleteRow(t) ==
    /\ task[t].pc = "delete"
    /\ row' = NoRow
    /\ IF row.status = "none" THEN Set(t, Idle) ELSE Go(t, "start")
    /\ UNCHANGED <<engines, proc, cell, cells, health, draining>>

\* create_instance_running, or create_instance for a restart; a row that is there
\* already, or a failing INSERT, stops the engine again.
CreateRow(t) ==
    /\ task[t].pc = "create"
    /\ \/ /\ row.status = "none"
          /\ row' = [NoRow EXCEPT !.engine = task[t].eng,
                                  !.status = IF task[t].kind = "start" THEN "running"
                                             ELSE "starting"]
          /\ Go(t, IF task[t].kind = "start" THEN "readback" ELSE "setrun")
       \/ /\ row.status # "none" \/ Failures
          /\ Stop(t, "idle") /\ UNCHANGED row
    /\ UNCHANGED <<engines, proc, cell, cells, health, draining>>

\* start: the row that was created is read back, and so may be missed.
ReadBack(t) ==
    /\ task[t].pc = "readback"
    /\ \/ row.status # "none" /\ Set(t, Idle)
       \/ (row.status = "none" \/ Failures) /\ Stop(t, "idle")
    /\ UNCHANGED <<row, engines, proc, cell, cells, health, draining>>

\* restart: update_instance_status(running), or the engine and the row go again.
SetRunning(t) ==
    /\ task[t].pc = "setrun"
    /\ \/ /\ row.status # "none"
          /\ row' = [row EXCEPT !.status = "running"]
          /\ Set(t, Idle)
       \/ /\ row.status = "none" \/ Failures
          /\ Stop(t, "undo") /\ UNCHANGED row
    /\ UNCHANGED <<engines, proc, cell, cells, health, draining>>

UndoRow(t) ==
    /\ task[t].pc = "undo"
    /\ row' = NoRow
    /\ Set(t, Idle)
    /\ UNCHANGED <<engines, proc, cell, cells, health, draining>>

\* stop_model_instance: the row first, then the process.
StopRow(t) ==
    /\ task[t].pc = "unrow"
    /\ IF row.status = "none"
         THEN Set(t, Idle) /\ UNCHANGED row
         ELSE row' = [row EXCEPT !.status = "stopped"] /\ Stop(t, "clear")
    /\ UNCHANGED <<engines, proc, cell, cells, health, draining>>

\* clear_failed, then the UPDATE of a row that says failed.
ClearFailed(t) ==
    /\ task[t].pc = "clearing"
    /\ IF Known.state = "failed"
         THEN health' = [Known EXCEPT !.state = "stopped", !.crashes = 0] /\ Go(t, "clearrow")
         ELSE health' = Known /\ Set(t, Idle)
    /\ UNCHANGED <<row, engines, proc, cell, cells, draining>>

ClearRow(t) ==
    /\ task[t].pc = "clearrow"
    /\ row' = IF row.state = "failed" THEN [row EXCEPT !.state = "stopped"] ELSE row
    /\ Set(t, Idle)
    /\ UNCHANGED <<engines, proc, cell, cells, health, draining>>

-----------------------------------------------------------------------------
\* monitor_health: rows that say running are probed.
Monitor(t) ==
    /\ task[t].pc = "monitor"
    /\ IF row.status = "running"
         THEN Set(t, [task[t] EXCEPT !.pc = "watch", !.eng = row.engine])
         ELSE Go(t, "candidates")
    /\ UNCHANGED <<row, engines, proc, cell, cells, health, draining>>

Watch(t) ==
    /\ task[t].pc = "watch"
    /\ LET h == Probed(Known, Up(task[t].eng)) IN
       /\ health' = h
       /\ IF h # Known THEN Set(t, [task[t] EXCEPT !.pc = "note", !.eng = NoEngine])
          ELSE Set(t, [task[t] EXCEPT !.pc = "candidates", !.eng = NoEngine])
    /\ UNCHANGED <<row, engines, proc, cell, cells, draining>>

NoteState(t) ==
    /\ task[t].pc = "note"
    /\ row' = [row EXCEPT !.state = "live"]
    /\ Set(t, [task[t] EXCEPT !.pc = "candidates"])
    /\ UNCHANGED <<engines, proc, cell, cells, health, draining>>

\* A row that says running has been used lately, or not (last_used_at, to which the
\* tick has just flushed the touches of the proxy), or eviction is off.
Candidates(t) ==
    /\ task[t].pc = "candidates"
    /\ \/ row.status = "running" /\ Go(t, "drain")
       \/ Set(t, Idle)
    /\ UNCHANGED <<row, engines, proc, cell, cells, health, draining>>

\* drain_and_stop: the flag, then the wait for the requests in flight.
Drain(t) ==
    /\ task[t].pc = "drain"
    /\ draining' = TRUE
    /\ Go(t, "draining")
    /\ UNCHANGED <<row, engines, proc, cell, cells, health>>

\* holds records how the wait ended: TRUE when no request was in flight.
Drained(t) ==
    /\ task[t].pc = "draining" /\ InFlight = {}
    /\ Set(t, [task[t] EXCEPT !.pc = "kill", !.ret = "mark", !.holds = TRUE])
    /\ UNCHANGED <<row, engines, proc, cell, cells, health, draining>>

DrainTimeout(t) ==
    /\ task[t].pc = "draining" /\ InFlight # {}
    /\ Stop(t, "mark")
    /\ UNCHANGED <<row, engines, proc, cell, cells, health, draining>>

\* The reaper and the validator: the row, then the flag and auto_start::forget.
MarkStopped(t) ==
    /\ task[t].pc = "mark"
    /\ row' = IF row.status = "none" THEN row
              ELSE [row EXCEPT !.status = "stopped", !.state = "stopped"]
    /\ Go(t, "clear")
    /\ UNCHANGED <<engines, proc, cell, cells, health, draining>>

ClearTracking(t) ==
    /\ task[t].pc = "clear"
    /\ draining' = FALSE /\ cell' = NoCell /\ health' = NoMachine
    /\ Set(t, Idle)
    /\ UNCHANGED <<row, engines, proc, cells>>

\* The caller that gave up on a crashed engine: auto_start::forget alone.
Forget(t) ==
    /\ task[t].pc = "forget"
    /\ cell' = NoCell
    /\ health' = NoMachine
    /\ Set(t, Idle)
    /\ UNCHANGED <<row, engines, proc, cells, draining>>

-----------------------------------------------------------------------------
\* Mutant: the cell of a dropped closure stays taken.
AbandonBusy(t) ==
    /\ UNCHANGED cells
    /\ engines' = IF task[t].pc = "insert" THEN Dead({task[t].eng}) ELSE engines

\* What a dropped future takes with it: the closure it ran is over without an
\* outcome, and a child it had not stored yet is killed.
Abandon(t) ==
    /\ cells' = IF task[t].holds THEN [cells EXCEPT ![task[t].cell] = "new"] ELSE cells
    /\ engines' = IF task[t].pc = "insert" THEN Dead({task[t].eng}) ELSE engines

\* The client of a handler hangs up: the handler's future is dropped.
Hangup(t) ==
    /\ task[t].pc # "idle" /\ task[t].kind \in Hangups
    /\ Abandon(t)
    /\ Set(t, Idle)
    /\ UNCHANGED <<row, proc, cell, health, draining>>

\* TIER2_HEALTH_DEADLINE_SECS: the validator drops ensure_running and tears down.
ValidationTimeout(t) ==
    /\ task[t].kind = "validate" /\ task[t].ret # "mark"
    /\ task[t].pc # "idle"
    /\ Abandon(t)
    /\ Set(t, [Idle EXCEPT !.kind = "validate", !.pc = "kill", !.ret = "mark"])
    /\ UNCHANGED <<row, proc, cell, health, draining>>

\* The server dies with its engines (PR_SET_PDEATHSIG) and starts again; nothing
\* reconciles the row.
Crash ==
    /\ Restarts
    /\ engines' = [e \in Engines |-> "dead"]
    /\ proc' = NoEngine /\ cell' = NoCell
    /\ cells' = [t \in Tasks |-> "new"]
    /\ health' = NoMachine
    /\ draining' = FALSE
    /\ task' = [t \in Tasks |-> Idle]
    /\ UNCHANGED row

\* Engines load, hang, recover and die.
EngineChanges(e, s) ==
    /\ Alive(e) /\ engines[e] # s
    /\ engines' = [engines EXCEPT ![e] = s]
    /\ UNCHANGED <<row, proc, cell, cells, health, draining, task>>

\* The oldest crash leaves the sliding window.
CrashExpires ==
    /\ health.crashes > 0
    /\ health' = [health EXCEPT !.crashes = health.crashes - 1]
    /\ UNCHANGED <<row, engines, proc, cell, cells, draining, task>>

Step(t) ==
    \/ CheckFlag(t) \/ ReadRow(t) \/ CheckHealth(t) \/ MarkCrashed(t) \/ NoteCrash(t)
    \/ CheckFailed(t) \/ PersistFailed(t) \/ Claim(t) \/ GetOrInit(t) \/ DropCell(t)
    \/ StartEngine(t) \/ StartRefused(t) \/ InsertEngine(t) \/ PollHealth(t)
    \/ (\E e \in Engines : SpawnEngine(t, e))
    \/ PollFails(t) \/ PersistInstance(t) \/ StartSucceeds(t) \/ StartFails(t)
    \/ Resolve(t) \/ Forward(t) \/ StreamEnds(t) \/ KillEngine(t)
    \/ ReadForAdmin(t) \/ CheckForAdmin(t) \/ DeleteRow(t) \/ CreateRow(t)
    \/ ReadBack(t) \/ SetRunning(t) \/ UndoRow(t) \/ StopRow(t) \/ ClearFailed(t) \/ ClearRow(t)
    \/ Monitor(t) \/ Watch(t) \/ NoteState(t) \/ Candidates(t) \/ Drain(t)
    \/ Drained(t) \/ DrainTimeout(t) \/ MarkStopped(t) \/ ClearTracking(t) \/ Forget(t)

Environment ==
    \/ \E t \in Tasks : \/ Hangup(t) \/ ValidationTimeout(t)
                        \/ \E k \in Kinds : Begin(t, k)
    \/ \E e \in Engines, s \in {"sick", "up", "dead"} : EngineChanges(e, s)
    \/ CrashExpires \/ Crash

Next == (\E t \in Tasks : Step(t)) \/ Environment

\* Handlers, the worker and the reaper are polled until they return.  The wait for a
\* cell is served in turn (OnceCell's semaphore is a queue), so that a task is not
\* passed over for ever by others that take the closure over and are dropped.
Fairness == \A t \in Tasks : WF_vars(Step(t)) /\ SF_vars(GetOrInit(t))

Spec == Init /\ [][Next]_vars /\ Fairness

-----------------------------------------------------------------------------
\* Type correctness.
TypeOK ==
    /\ row \in Row
    /\ engines \in [Engines -> {"sick", "up", "dead"}]
    /\ proc \in Engines \cup {NoEngine}
    /\ cell \in Tasks \cup {NoCell}
    /\ cells \in [Tasks -> {"new", "busy", "ok", "err"}]
    /\ health \in Machine
    /\ draining \in BOOLEAN
    /\ task \in [Tasks -> Task]

\* No engine process is lost: one that lives is the one in the process map, which
\* stop() can kill, or is in the hands of the task that is about to store it
\* (deployment/local.rs: two starts that both passed the check overwrite each
\* other's entry; start(), stop() and dropped handlers race).
EnginesAreTracked ==
    \A e \in Engines : Alive(e) =>
        \/ proc = e
        \/ \E t \in Tasks : task[t].pc = "insert" /\ task[t].eng = e

\* When the drain ended because nothing was in flight, and nobody cleared the flag
\* since, the engine is stopped under no request that got past the flag
\* (proxy_handlers.rs:293: the guard is acquired before the flag is read).
DrainSparesRequests ==
    \A t \in Tasks :
        (/\ task[t].kind = "reap" /\ task[t].pc = "kill" /\ task[t].holds
         /\ draining)
        => \A u \in InFlight : task[u].pc = "guarded"

\* One closure per cell: the start that a cell stands for is driven by one task at
\* a time, also when the task that drove it was dropped half-way.
OneHolderPerCell ==
    \A t, u \in Tasks : task[t].holds /\ task[u].holds /\ task[t].kind # "reap"
                        /\ task[u].kind # "reap" /\ task[t].cell = task[u].cell => t = u

\* Every task comes to an end: no waiter is left behind on a cell whose holder was
\* dropped, and no drain waits for a request that does not return.
TaskEnds == \A t \in Tasks : task[t].pc # "idle" ~> task[t].pc = "idle"
=============================================================================
