------------------------------ MODULE Scheduler ------------------------------
(***************************************************************************)
(* The task scheduler (server/src/modules/scheduler): the rows of          *)
(* scheduled_tasks, the tick loop that claims due rows and advances them   *)
(* before it spawns a firing, the firings themselves, and the REST         *)
(* handlers that race with both.                                           *)
(*                                                                         *)
(* Every database statement is one atomic step, every await between two    *)
(* statements is a place where other processes run.  A firing works on the *)
(* row it was claimed with (its snapshot), never on the current row.       *)
(***************************************************************************)
EXTENDS Integers, FiniteSets, Sequences

CONSTANTS
    Tasks,          \* ids of scheduled_tasks rows, each used once (UUIDs)
    Firings,        \* bound: firings in flight at a time
    Requests,       \* bound: REST requests in flight at a time
    Conversations,  \* bound: conversations that exist at a time
    Templates,      \* the [kind, goal, target] combinations users create
    EditKinds,      \* schedule kinds a PUT may switch a task to
    NoConv,         \* SQL NULL in bound_conversation_id
    NoTask,         \* an unused slot
    NextCron(_),    \* next match of the recurring tasks' cron expression
    Batch,          \* BATCH: rows claimed by one sweep
    MinInterval,    \* min_interval_seconds, in clock units
    Horizon,        \* max_horizon_days, in clock units
    MaxFailures,    \* max_consecutive_failures
    MaxTurns,       \* goal_seek_max_turns
    MaxActive,      \* max_active_tasks_per_user (all tasks have one owner)
    Retention,      \* notification_retention_days, in clock units; 0 = keep
    UserOps,        \* bound: the operations users call besides create
    MaxTime,        \* bound: the clock stops here
    MaxOps,         \* bound: user operations
    MaxFaults       \* bound: failed statements and crashes

Never == -1         \* SQL NULL in next_run_at and run_at

\* The settings table checks that min_interval_seconds is between 60 and 86400.
ASSUME NumbersAssumption ==
    /\ Batch \in Nat \ {0} /\ MinInterval \in Nat \ {0} /\ Horizon \in Nat \ {0}
    /\ MaxFailures \in Nat \ {0} /\ MaxTurns \in Nat /\ MaxActive \in Nat
    /\ Retention \in Nat /\ MaxTime \in Nat
    /\ MaxOps \in Nat /\ MaxFaults \in Nat

\* find_next_occurrence is strictly after its argument, or has no answer.
ASSUME CronAssumption ==
    \A i \in 0..MaxTime :
        NextCron(i) \in Int /\ (NextCron(i) = Never \/ NextCron(i) > i)

Kinds    == {"once", "recurring", "self_paced"}
Targets  == {"workflow", "prompt"}
Triggers == {"schedule", "run_now"}
Classes  == {"transient", "conflict", "terminal"}     \* of a failed dispatch
Reasons  == {"none", "completed", "incomplete", "max_failures",
             "conversation_deleted", "terminal"}      \* paused_reason

ASSUME DomainAssumption ==
    /\ Templates \subseteq {k \in [kind : Kinds, goal : BOOLEAN, target : Targets] :
                             k.goal => k.kind = "self_paced" /\ k.target = "prompt"}
    /\ EditKinds \subseteq Kinds
    /\ NoConv \notin Conversations /\ NoTask \notin Tasks

VARIABLES
    now,        \* wall clock
    used,       \* task ids ever inserted
    live,       \* task ids that have a row
    rows,       \* scheduled_tasks
    runs,       \* scheduled_task_runs a goal-seeking task counts its turns by
    convs,      \* conversations that exist
    generating, \* chat stream registry: conversations with a turn in flight
    tick,       \* the tick loop: its sweep, and what is left of the batch
    firing,     \* the spawned fire_task calls
    req,        \* REST requests between their checks and their statement
    ops, faults,\* how much of MaxOps and MaxFaults is used
    hist        \* history: numbers the firings, decides nothing

vars == <<now, used, live, rows, runs, convs, generating, tick, firing, req,
          ops, faults, hist>>

Row == [enabled : BOOLEAN, reason : Reasons, kind : Kinds, goal : BOOLEAN,
        target : Targets, bound : Conversations \cup {NoConv}, runAt : Int,
        next : Int, lastStatus : {"none", "success", "failed"},
        fails : Nat, created : Nat]

\* What fire_task reads of the row it was given.
Snapshot == [kind : Kinds, goal : BOOLEAN, target : Targets,
             bound : Conversations \cup {NoConv}, fails : Nat, created : Nat]

Firing == [pc : {"free", "start", "running", "record", "log", "decide", "arm"},
           task : Tasks \cup {NoTask}, trigger : Triggers, snap : Snapshot,
           at : Int, no : Nat, conv : Conversations \cup {NoConv},
           result : Classes \cup {"none", "success"},
           proposal : [stop : BOOLEAN, delay : Int],
           next : Int, reason : Reasons]

\* An INSERT has an id, a kind, and enables; an UPDATE leaves what it does not name.
Request == {q \in [op : {"none", "create", "update"}, task : Tasks \cup {NoTask},
                   enabled : {"keep", "on", "off"}, kind : Kinds \cup {"keep"},
                   goal : BOOLEAN, target : Targets,
                   bound : Conversations \cup {NoConv}, runAt : Int,
                   touched : BOOLEAN, next : Int] :
               q.op = "create" =>
                   q.task \in Tasks /\ q.kind \in Kinds /\ q.enabled = "on"}

History == [arms : Nat, shots : Nat, overlap : BOOLEAN, manual : Nat,
            pruned : Nat, switched : BOOLEAN]

BlankRow == [enabled |-> FALSE, reason |-> "none", kind |-> "once",
             goal |-> FALSE, target |-> "workflow", bound |-> NoConv,
             runAt |-> Never, next |-> Never, lastStatus |-> "none",
             fails |-> 0, created |-> 0]

Snap(row) == [kind |-> row.kind, goal |-> row.goal, target |-> row.target,
              bound |-> row.bound, fails |-> row.fails,
              created |-> row.created]

FreeFiring == [pc |-> "free", task |-> NoTask, trigger |-> "schedule",
               snap |-> Snap(BlankRow), at |-> 0, no |-> 0, conv |-> NoConv,
               result |-> "none", proposal |-> [stop |-> TRUE, delay |-> 0],
               next |-> Never, reason |-> "none"]

FreeRequest == [op |-> "none", task |-> NoTask, enabled |-> "keep",
                kind |-> "keep", goal |-> FALSE, target |-> "workflow",
                bound |-> NoConv, runAt |-> Never, touched |-> FALSE,
                next |-> Never]

IdleTick == [now |-> 0, due |-> <<>>]

Init ==
    /\ now = 0 /\ ops = 0 /\ faults = 0
    /\ used = {} /\ live = {}
    /\ rows = [t \in Tasks |-> BlankRow]
    /\ runs = [t \in Tasks |-> {}]
    /\ convs = {} /\ generating = {}
    /\ tick = IdleTick
    /\ firing = [f \in Firings |-> FreeFiring]
    /\ req = [r \in Requests |-> FreeRequest]
    /\ hist = [t \in Tasks |-> [arms |-> 0, shots |-> 0, overlap |-> FALSE,
                                manual |-> 0, pruned |-> 0, switched |-> FALSE]]

-----------------------------------------------------------------------------
(* Schedules *)

NextOccurrence(kind, runAt, after) ==
    CASE kind = "once"       -> IF runAt > after THEN runAt ELSE Never
      [] kind = "recurring"  -> NextCron(after)
      [] kind = "self_paced" -> after

\* validate_schedule: a missing or past run_at is refused, and so is a cron
\* expression that never matches.
ValidSchedule(kind, runAt, at) ==
    CASE kind = "once"       -> runAt > at
      [] kind = "recurring"  -> NextCron(at) # Never
      [] kind = "self_paced" -> TRUE

AtLeast(a, b) == IF a >= b THEN a ELSE b
AtMost(a, b)  == IF a <= b THEN a ELSE b

\* Mutant: the candidate is not capped at the expiry.
NextFirePastExpiry(proposal, created, at) ==
    LET clamped == AtMost(AtLeast(proposal.delay, AtMost(MinInterval, Horizon)), Horizon)
    IN  IF proposal.stop \/ at >= created + Horizon THEN Never ELSE at + clamped

\* Never stands for SelfPacedOutcome::Disable.
NextSelfPacedFire(proposal, created, at) ==
    LET expiry  == created + Horizon
        clamped == AtMost(AtLeast(proposal.delay, AtMost(MinInterval, Horizon)), Horizon)
    IN  IF proposal.stop \/ at >= expiry THEN Never
        ELSE AtMost(at + clamped, expiry)

-----------------------------------------------------------------------------
(* Statements: each replaces the row of a task, when it still has one. *)

\* Mutant: the next instant is only set when the task is spent.
MarkFiredInPlace(row, next, reason) ==
    [row EXCEPT !.next = IF next = Never THEN Never ELSE @,
                !.enabled = @ /\ reason = "none" /\ next # Never,
                !.reason = IF reason # "none" THEN reason
                           ELSE IF next = Never THEN "completed" ELSE @]

\* Mutant: a spent task is disabled but keeps its instant.
MarkFiredKeepingNext(row, next, reason) ==
    [row EXCEPT !.reason = IF reason # "none" THEN reason ELSE @,
                !.enabled = @ /\ reason = "none"]

\* mark_fired: advance the row, and disable it when it is spent or paused.
MarkFired(row, next, reason) ==
    [row EXCEPT !.next = next,
                !.enabled = @ /\ reason = "none" /\ next # Never,
                !.reason = IF reason # "none" THEN reason
                           ELSE IF next = Never THEN "completed" ELSE @]

\* Mutant: the row stays armed while its turn runs.
StayArmed(row) == row

DisarmSelfPaced(row) == [row EXCEPT !.next = Never]

\* Mutant: re-arming also enables.
ArmAndEnable(row, next, reason) ==
    [row EXCEPT !.next = next, !.enabled = next # Never,
                !.reason = IF next = Never THEN reason ELSE @]

ArmSelfPaced(row, next, reason) ==
    [row EXCEPT !.next = next,
                !.enabled = @ /\ next # Never,
                !.reason = IF next = Never THEN reason ELSE @]

RecordOutcome(row, success, reason) ==
    [row EXCEPT !.lastStatus = IF success THEN "success" ELSE "failed",
                !.fails = IF success THEN 0 ELSE @ + 1,
                !.enabled = @ /\ reason = "none",
                !.reason = IF reason # "none" THEN reason ELSE @]

\* update: COALESCE of the given fields; enabling clears the pause reason.
UpdateRow(row, r) ==
    [row EXCEPT !.enabled = IF r.enabled = "keep" THEN @ ELSE r.enabled = "on",
                !.reason  = IF r.enabled = "on" THEN "none" ELSE @,
                !.kind    = IF r.kind = "keep" THEN @ ELSE r.kind,
                !.runAt   = IF r.runAt = Never THEN @ ELSE r.runAt,
                !.next    = IF r.touched THEN r.next ELSE @]

\* An UPDATE ... WHERE id = t that the database executes.
Write(t, row) == rows' = IF t \in live THEN [rows EXCEPT ![t] = row] ELSE rows

\* The same statement when the database refuses it: the caller logs and goes on.
WriteFails == faults < MaxFaults /\ faults' = faults + 1 /\ rows' = rows

Armed(h, next) == IF next = Never THEN h ELSE [h EXCEPT !.arms = @ + 1]

-----------------------------------------------------------------------------
(* The tick loop *)

IsDue(t, at) ==
    /\ t \in live /\ rows[t].enabled /\ rows[t].reason = "none"
    /\ rows[t].next # Never /\ rows[t].next <= at

InFlight(t) == {f \in Firings : firing[f].pc # "free" /\ firing[f].task = t}
Scheduled(t) == {f \in InFlight(t) : firing[f].trigger = "schedule"}

Image(s) == {s[i] : i \in DOMAIN s}

\* Mutant: no ORDER BY, so that the limit takes any of the due tasks.
IsAnyBatch(s, due) ==
    /\ \A i \in DOMAIN s : s[i] \in due
    /\ \A i, j \in DOMAIN s : i < j => s[i] # s[j]
    /\ Len(s) = AtMost(Batch, Cardinality(due))

\* A batch: distinct due tasks, earliest first, as many as the limit allows.
IsBatch(s, due) ==
    /\ \A i \in DOMAIN s : s[i] \in due
    /\ \A i, j \in DOMAIN s :
          i < j => s[i] # s[j] /\ rows[s[i]].next <= rows[s[j]].next
    /\ Len(s) = AtMost(Batch, Cardinality(due))
    /\ \A i \in DOMAIN s, t \in due :
          (\A j \in DOMAIN s : s[j] # t) => rows[s[i]].next <= rows[t].next

\* preemptive_pause_reason: the prompt branch (a CHECK constraint of the table
\* makes the other one, a workflow task without workflow_id, unreachable).
ConversationGone(row) ==
    row.target = "prompt" /\ row.bound = NoConv /\ row.lastStatus = "success"

\* Mutant: an instant the loop slept through is not caught up with.
ClaimOnTime ==
    /\ tick.due = <<>>
    /\ \E t \in Tasks :
          /\ IsDue(t, now) /\ rows[t].next = now
          /\ tick' = [now |-> now, due |-> <<[task |-> t, snap |-> Snap(rows[t]),
                                              gone |-> ConversationGone(rows[t])]>>]
    /\ UNCHANGED <<now, used, live, rows, runs, convs, generating, firing, req,
                   ops, faults, hist>>

\* claim_due_tasks: the rows as they are now; their locks are gone at once.  A
\* sweep that finds nothing due changes nothing.
Claim ==
    /\ tick.due = <<>>
    /\ LET due == {t \in Tasks : IsDue(t, now)} IN
       \E n \in 1..Batch : \E s \in [1..n -> due] :
          /\ IsBatch(s, due)
          /\ tick' = [now |-> now, due |-> [i \in DOMAIN s |->
                [task |-> s[i], snap |-> Snap(rows[s[i]]),
                 gone |-> ConversationGone(rows[s[i]])]]]
          /\ hist' = [t \in Tasks |->
                [hist[t] EXCEPT !.overlap = @ \/ (Scheduled(t) # {} /\ t \in Image(s))]]
    /\ UNCHANGED <<now, used, live, rows, runs, convs, generating, firing, req,
                   ops, faults>>

NextInBatch ==
    tick' = IF Tail(tick.due) = <<>> THEN IdleTick ELSE [tick EXCEPT !.due = Tail(@)]

\* mark_fired with a reason, then insert_run, whether or not the first worked.
PauseInsteadOfFiring ==
    /\ tick.due # <<>> /\ Head(tick.due).gone
    /\ LET t == Head(tick.due).task IN
       /\ \/ Write(t, MarkFired(rows[t], Never, "conversation_deleted"))
             /\ UNCHANGED faults
          \/ WriteFails
       /\ runs' = IF t \in live /\ rows[t].goal
                  THEN [runs EXCEPT ![t] = @ \cup {<<tick.now, -1 - Cardinality(@)>>}]
                  ELSE runs
    /\ NextInBatch
    /\ UNCHANGED <<now, used, live, convs, generating, firing, req, ops, hist>>

Becomes(f, x) == firing' = [firing EXCEPT ![f] = x]

Spawn(f, t, trigger, snap, at, no) ==
    /\ firing[f].pc = "free"
    /\ Becomes(f, [FreeFiring EXCEPT !.pc = "start", !.task = t,
                        !.trigger = trigger, !.snap = snap, !.at = at, !.no = no])

\* The history of a scheduled firing whose row is advanced to next.
Shot(t, next) ==
    hist' = [hist EXCEPT ![t] = [Armed(hist[t], next) EXCEPT !.shots = @ + 1]]

\* disarm_self_paced or mark_fired, and only when it worked: spawn fire_task.
AdvanceAndFire ==
    /\ tick.due # <<>> /\ ~Head(tick.due).gone
    /\ LET t    == Head(tick.due).task
           snap == Head(tick.due).snap
           next == IF snap.kind = "recurring" THEN NextCron(tick.now) ELSE Never
       IN
       /\ Write(t, IF snap.kind = "self_paced" THEN DisarmSelfPaced(rows[t])
                   ELSE MarkFired(rows[t], next, "none"))
       /\ \E f \in Firings :
             Spawn(f, t, "schedule", snap, tick.now, hist[t].shots + 1)
       /\ Shot(t, next)
    /\ NextInBatch
    /\ UNCHANGED <<now, used, live, runs, convs, generating, req, ops, faults>>

\* The statement failed: the row stays due and this sweep skips it.
SkipTask ==
    /\ tick.due # <<>> /\ ~Head(tick.due).gone
    /\ WriteFails /\ NextInBatch
    /\ UNCHANGED <<now, used, live, runs, convs, generating, firing, req, ops, hist>>

-----------------------------------------------------------------------------
(* fire_task *)

Goto(f, pc) == Becomes(f, [firing[f] EXCEPT !.pc = pc])

\* run_now records no outcome on the row.
AfterDispatch(f) == IF firing[f].trigger = "run_now" THEN "log" ELSE "record"

\* dispatch fails before the target runs: a missing model or conversation (404),
\* a forbidden model (403), an error of the database or of a service (5xx).
DispatchFails(f) ==
    /\ firing[f].pc = "start"
    /\ \E class \in {"transient", "terminal"} :
          Becomes(f, [firing[f] EXCEPT !.pc = AfterDispatch(f), !.result = class])
    /\ UNCHANGED <<now, used, live, rows, runs, convs, generating, tick, req, ops,
                   faults, hist>>

\* The bound conversation has a turn in flight: begin_generation refuses (409).
DispatchConflicts(f) ==
    /\ firing[f].pc = "start" /\ firing[f].snap.target = "prompt"
    /\ firing[f].snap.bound \in convs \cap generating
    /\ Becomes(f, [firing[f] EXCEPT !.pc = AfterDispatch(f), !.result = "conflict"])
    /\ UNCHANGED <<now, used, live, rows, runs, convs, generating, tick, req, ops,
                   faults, hist>>

\* spawn_run of the workflow.
StartWorkflow(f) ==
    /\ firing[f].pc = "start" /\ firing[f].snap.target = "workflow"
    /\ Goto(f, "running")
    /\ UNCHANGED <<now, used, live, rows, runs, convs, generating, tick, req, ops,
                   faults, hist>>

\* A turn in the conversation the snapshot names.
StartTurn(f) ==
    /\ firing[f].pc = "start" /\ firing[f].snap.target = "prompt"
    /\ firing[f].snap.bound \in convs \ generating
    /\ generating' = generating \cup {firing[f].snap.bound}
    /\ Becomes(f, [firing[f] EXCEPT !.pc = "running", !.conv = firing[f].snap.bound])
    /\ UNCHANGED <<now, used, live, rows, runs, convs, tick, req, ops, faults, hist>>

\* Ids that nothing names any more stand for fresh ones.
Named(c) ==
    \/ c \in convs \/ c \in generating
    \/ \E t \in Tasks : rows[t].bound = c
    \/ \E f \in Firings : firing[f].snap.bound = c \/ firing[f].conv = c
    \/ \E r \in Requests : req[r].bound = c
    \/ \E i \in DOMAIN tick.due : tick.due[i].snap.bound = c

\* The snapshot has no conversation: create one, bind it, start a turn in it.
StartInNewConversation(f) ==
    /\ firing[f].pc = "start" /\ firing[f].snap.target = "prompt"
    /\ firing[f].snap.bound = NoConv
    /\ \E c \in Conversations :
          /\ ~Named(c)
          /\ convs' = convs \cup {c}
          /\ generating' = generating \cup {c}
          /\ Write(firing[f].task, [rows[firing[f].task] EXCEPT !.bound = c])
          /\ Becomes(f, [firing[f] EXCEPT !.pc = "running", !.conv = c])
    /\ UNCHANGED <<now, used, live, runs, tick, req, ops, faults, hist>>

\* What the turn left in the proposal registry; only a plain self-paced task's
\* firing looks at it, and takes no proposal for a stop.
Proposals(snap) ==
    IF snap.kind = "self_paced" /\ ~snap.goal
    THEN {[stop |-> FALSE, delay |-> d] : d \in {0, Horizon + 1}}
         \cup {FreeFiring.proposal}
    ELSE {FreeFiring.proposal}

\* Mutant: no deadline on the wait for the turn.
TargetEndsItself(f) ==
    /\ firing[f].pc = "running" /\ firing[f].conv \notin generating
    /\ Becomes(f, [firing[f] EXCEPT !.pc = AfterDispatch(f), !.result = "success"])
    /\ UNCHANGED <<now, used, live, rows, runs, convs, generating, tick, req, ops,
                   faults, hist>>

\* The run ended, or TERMINAL_WAIT did: a prompt turn is then read as it stands,
\* a workflow run counts as failed.  The agent may have proposed its next fire.
TargetEnds(f) ==
    /\ firing[f].pc = "running"
    /\ \E p \in Proposals(firing[f].snap) :
       \E result \in {"success", "transient"} :
          Becomes(f, [firing[f] EXCEPT !.pc = AfterDispatch(f),
                                       !.result = result, !.proposal = p])
    /\ UNCHANGED <<now, used, live, rows, runs, convs, generating, tick, req, ops,
                   faults, hist>>

\* classify: a conflict is one of the transient failures.
Transient(f) == firing[f].result \in {"transient", "conflict"}

\* Mutant: the counter without this failure is compared with the cap.
PauseReasonTooLate(f) ==
    IF firing[f].result = "success" THEN "none"
    ELSE IF ~Transient(f) THEN "terminal"
    ELSE IF firing[f].snap.fails >= MaxFailures THEN "max_failures"
    ELSE "none"

\* should_autopause, on the snapshot's counter plus this failure.
PauseReason(f) ==
    IF firing[f].result = "success" THEN "none"
    ELSE IF ~Transient(f) THEN "terminal"
    ELSE IF firing[f].snap.fails + 1 >= MaxFailures THEN "max_failures"
    ELSE "none"

Record(f) ==
    /\ firing[f].pc = "record"
    /\ LET t == firing[f].task
           success == firing[f].result = "success"
       IN  \/ /\ Write(t, RecordOutcome(rows[t], success, PauseReason(f)))
              /\ UNCHANGED faults
           \/ WriteFails
    /\ Goto(f, "log")
    /\ UNCHANGED <<now, used, live, runs, convs, generating, tick, req, ops, hist>>

\* Mutant: only goal-seeking tasks are written back.
WritesBackGoals(f) ==
    /\ firing[f].result = "success" /\ firing[f].snap.kind = "self_paced"
    /\ firing[f].snap.goal

\* Only a successful self-paced firing writes back, and a manual one only when
\* its task seeks a goal.
WritesBack(f) ==
    /\ firing[f].result = "success" /\ firing[f].snap.kind = "self_paced"
    /\ firing[f].snap.goal \/ firing[f].trigger = "schedule"

InsertRun(f) ==
    /\ firing[f].pc = "log"
    /\ \/ /\ runs' = IF /\ firing[f].trigger = "schedule" /\ firing[f].snap.goal
                        /\ firing[f].task \in live
                     THEN [runs EXCEPT ![firing[f].task] =
                              @ \cup {<<firing[f].at, firing[f].no>>}]
                     ELSE runs
          /\ UNCHANGED faults
       \/ faults < MaxFaults /\ faults' = faults + 1 /\ runs' = runs
    /\ IF WritesBack(f) THEN Goto(f, "decide") ELSE Becomes(f, FreeFiring)
    /\ UNCHANGED <<now, used, live, rows, convs, generating, tick, req, ops, hist>>

\* Mutant: no turn cap.
VerdictUncapped(f, done) ==
    [firing[f] EXCEPT !.pc = "arm", !.reason = "completed",
        !.next = IF done THEN Never
                 ELSE NextSelfPacedFire([stop |-> FALSE, delay |-> MinInterval],
                                        firing[f].snap.created, firing[f].at)]

\* The evaluator's verdict, then goal_eval::decide on the runs counted so far.
Verdict(f, done) ==
    LET next == IF Cardinality(runs[firing[f].task]) >= AtLeast(MaxTurns, 1)
                THEN Never
                ELSE NextSelfPacedFire([stop |-> FALSE, delay |-> MinInterval],
                                       firing[f].snap.created, firing[f].at)
    IN  [firing[f] EXCEPT !.pc = "arm", !.next = IF done THEN Never ELSE next,
                          !.reason = IF ~done /\ next = Never
                                     THEN "incomplete" ELSE "completed"]

DecideGoal(f) ==
    /\ firing[f].pc = "decide" /\ firing[f].snap.goal
    /\ \E done \in BOOLEAN : Becomes(f, Verdict(f, done))
    /\ UNCHANGED <<now, used, live, rows, runs, convs, generating, tick, req, ops,
                   faults, hist>>

\* self_paced_writeback; a turn without a proposal stops like one that said stop.
DecideSelfPaced(f) ==
    /\ firing[f].pc = "decide" /\ ~firing[f].snap.goal
    /\ Becomes(f, [firing[f] EXCEPT !.pc = "arm",
          !.next = NextSelfPacedFire(firing[f].proposal, firing[f].snap.created,
                                     firing[f].at),
          !.reason = "completed"])
    /\ UNCHANGED <<now, used, live, rows, runs, convs, generating, tick, req, ops,
                   faults, hist>>

WriteBack(f) ==
    /\ firing[f].pc = "arm"
    /\ LET t == firing[f].task IN
       \/ /\ Write(t, ArmSelfPaced(rows[t], firing[f].next, firing[f].reason))
          /\ hist' = [hist EXCEPT ![t] = Armed(@, firing[f].next)]
          /\ UNCHANGED faults
       \/ WriteFails /\ UNCHANGED hist
    /\ Becomes(f, FreeFiring)
    /\ UNCHANGED <<now, used, live, runs, convs, generating, tick, req, ops>>

FireStep(f) ==
    \/ DispatchFails(f) \/ DispatchConflicts(f) \/ StartWorkflow(f)
    \/ StartTurn(f) \/ StartInNewConversation(f) \/ TargetEnds(f)
    \/ Record(f) \/ InsertRun(f) \/ DecideGoal(f) \/ DecideSelfPaced(f)
    \/ WriteBack(f)

-----------------------------------------------------------------------------
(* REST handlers: the checks, then the statement *)

UserOp(op) == op \in UserOps \cup {"create"} /\ ops < MaxOps /\ ops' = ops + 1

UnderQuota == Cardinality({t \in live : rows[t].enabled}) < MaxActive

Future == (now + 1)..MaxTime

\* create_task up to its INSERT.
CreateCheck(r) ==
    /\ req[r].op = "none" /\ UserOp("create") /\ UnderQuota
    /\ \E t \in Tasks \ used, k \in Templates :
       \E runAt \in IF k.kind = "once" THEN Future ELSE {Never} :
       \E c \in IF k.target = "prompt" THEN convs \cup {NoConv} ELSE {NoConv} :
          /\ \A q \in Requests : req[q].task # t
          /\ ValidSchedule(k.kind, runAt, now)
          /\ req' = [req EXCEPT ![r] =
                [op |-> "create", task |-> t, enabled |-> "on", kind |-> k.kind,
                 goal |-> k.goal, target |-> k.target, bound |-> c,
                 runAt |-> runAt, touched |-> TRUE,
                 next |-> NextOccurrence(k.kind, runAt, now)]]
    /\ UNCHANGED <<now, used, live, rows, runs, convs, generating, tick, firing,
                   faults, hist>>

\* The INSERT; the foreign key refuses a conversation deleted since the check.
Create(r) ==
    /\ req[r].op = "create"
    /\ LET q == req[r] IN
       /\ used' = used \cup {q.task}
       /\ IF q.bound \in convs \cup {NoConv}
          THEN /\ live' = live \cup {q.task}
               /\ rows' = [rows EXCEPT ![q.task] =
                     [BlankRow EXCEPT !.enabled = TRUE, !.kind = q.kind,
                                      !.goal = q.goal, !.target = q.target,
                                      !.bound = q.bound, !.runAt = q.runAt,
                                      !.next = q.next, !.created = now]]
               /\ hist' = [hist EXCEPT ![q.task] = Armed(@, q.next)]
          ELSE UNCHANGED <<live, rows, hist>>
    /\ req' = [req EXCEPT ![r] = FreeRequest]
    /\ UNCHANGED <<now, runs, convs, generating, tick, firing, ops, faults>>

KindAfter(t, kind)  == IF kind = "keep" THEN rows[t].kind ELSE kind
RunAtAfter(t, runAt) == IF runAt = Never THEN rows[t].runAt ELSE runAt

\* A given schedule field, or enabled = true, has next_run_at computed anew.
Touches(enabled, kind, runAt) == kind # "keep" \/ runAt # Never \/ enabled = "on"

\* What update_task sets, read off the row as it is now.
Edit(t, enabled, kind, runAt) ==
    [FreeRequest EXCEPT !.op = "update", !.task = t, !.enabled = enabled,
        !.kind = kind, !.runAt = runAt, !.touched = Touches(enabled, kind, runAt),
        !.next = IF Touches(enabled, kind, runAt)
                 THEN NextOccurrence(KindAfter(t, kind), RunAtAfter(t, runAt), now)
                 ELSE Never]

\* update_task up to its UPDATE.
UpdateCheck(r) ==
    /\ req[r].op = "none" /\ UserOp("update")
    /\ \E t \in live, enabled \in {"keep", "on", "off"}, kind \in EditKinds \cup {"keep"} :
       \E runAt \in IF KindAfter(t, kind) = "once" THEN Future \cup {Never} ELSE {Never} :
          /\ Touches(enabled, kind, runAt) \/ enabled = "off"
          /\ enabled = "on" /\ ~rows[t].enabled => UnderQuota
          /\ Touches(enabled, kind, runAt) =>
                ValidSchedule(KindAfter(t, kind), RunAtAfter(t, runAt), now)
          /\ req' = [req EXCEPT ![r] = Edit(t, enabled, kind, runAt)]
    /\ UNCHANGED <<now, used, live, rows, runs, convs, generating, tick, firing,
                   faults, hist>>

Update(r) ==
    /\ req[r].op = "update"
    /\ LET t == req[r].task IN
       /\ Write(t, UpdateRow(rows[t], req[r]))
       /\ hist' = IF req[r].touched /\ t \in live
                  THEN [hist EXCEPT ![t] =
                          [Armed(hist[t], req[r].next) EXCEPT !.manual = @ + 1,
                             !.switched = @ \/ req[r].kind \notin {"keep", rows[t].kind}]]
                  ELSE hist
    /\ req' = [req EXCEPT ![r] = FreeRequest]
    /\ UNCHANGED <<now, used, live, runs, convs, generating, tick, firing, ops, faults>>

\* delete_task; the run rows go with the task.
Delete(t) ==
    /\ t \in live /\ UserOp("delete")
    /\ live' = live \ {t}
    /\ rows' = [rows EXCEPT ![t] = BlankRow]
    /\ runs' = [runs EXCEPT ![t] = {}]
    /\ UNCHANGED <<now, used, convs, generating, tick, firing, req, faults, hist>>

\* run_now: enabled or not, with the row as it is now.
RunNow(t) ==
    /\ t \in live /\ UserOp("run_now")
    /\ \E f \in Firings : Spawn(f, t, "run_now", Snap(rows[t]), now, 0)
    /\ hist' = [hist EXCEPT ![t].manual = @ + 1]
    /\ UNCHANGED <<now, used, live, rows, runs, convs, generating, tick, req, faults>>

-----------------------------------------------------------------------------
(* The rest of the server, and time *)

\* The user sends a message in a conversation of theirs, or in a new one.
UserTurn(c) ==
    /\ UserOp("chat") /\ c \notin generating
    /\ c \in convs \/ ~Named(c)
    /\ convs' = convs \cup {c}
    /\ generating' = generating \cup {c}
    /\ UNCHANGED <<now, used, live, rows, runs, tick, firing, req, faults, hist>>

\* The terminal frame of a turn frees the conversation.
TurnEnds(c) ==
    /\ c \in generating
    /\ generating' = generating \ {c}
    /\ UNCHANGED <<now, used, live, rows, runs, convs, tick, firing, req, ops,
                   faults, hist>>

\* bound_conversation_id is ON DELETE SET NULL.
DeleteConversation(c) ==
    /\ c \in convs /\ UserOp("delete_conversation")
    /\ convs' = convs \ {c}
    /\ rows' = [t \in Tasks |-> IF rows[t].bound = c
                                THEN [rows[t] EXCEPT !.bound = NoConv] ELSE rows[t]]
    /\ UNCHANGED <<now, used, live, runs, generating, tick, firing, req, faults, hist>>

\* prune_once
Prune ==
    /\ Retention > 0
    /\ runs' = [t \in Tasks |-> {r \in runs[t] : r[1] >= now - Retention}]
    /\ runs' # runs
    /\ hist' = [t \in Tasks |->
          [hist[t] EXCEPT !.pruned = @ + Cardinality(runs[t] \ runs'[t])]]
    /\ UNCHANGED <<now, used, live, rows, convs, generating, tick, firing, req, ops,
                   faults>>

\* The process dies and restarts: what is not in the database is gone.
Crash ==
    /\ faults < MaxFaults /\ faults' = faults + 1
    /\ tick' = IdleTick
    /\ firing' = [f \in Firings |-> FreeFiring]
    /\ req' = [r \in Requests |-> FreeRequest]
    /\ generating' = {}
    /\ UNCHANGED <<now, used, live, rows, runs, convs, ops, hist>>

TimePasses ==
    /\ now < MaxTime /\ now' = now + 1
    /\ UNCHANGED <<used, live, rows, runs, convs, generating, tick, firing, req, ops,
                   faults, hist>>

TickStep == Claim \/ PauseInsteadOfFiring \/ AdvanceAndFire \/ SkipTask

RequestStep(r) == Create(r) \/ Update(r)

Next ==
    \/ TickStep
    \/ \E f \in Firings : FireStep(f)
    \/ \E r \in Requests : CreateCheck(r) \/ UpdateCheck(r) \/ RequestStep(r)
    \/ \E t \in Tasks : Delete(t) \/ RunNow(t)
    \/ \E c \in Conversations : UserTurn(c) \/ TurnEnds(c) \/ DeleteConversation(c)
    \/ Prune \/ Crash \/ TimePasses

Spec == Init /\ [][Next]_vars

\* The tick loop never ends, a spawned task runs, a handler answers.
FairSpec ==
    /\ Spec
    /\ WF_vars(TickStep)
    /\ \A f \in Firings : WF_vars(FireStep(f))
    /\ \A r \in Requests : WF_vars(RequestStep(r))

-----------------------------------------------------------------------------
(* Type correctness *)

TickType == [now : 0..MaxTime,
             due : Seq([task : Tasks, snap : Snapshot, gone : BOOLEAN])]

\* Every variable keeps its shape; in particular a row only ever holds a status,
\* a reason and a conversation the columns admit (repository.rs, every UPDATE).
TypeOK ==
    /\ now \in 0..MaxTime /\ ops \in Nat /\ faults \in Nat
    /\ used \subseteq Tasks /\ live \subseteq used
    /\ rows \in [Tasks -> Row]
    /\ runs \in [Tasks -> SUBSET (Int \X Int)]
    /\ \A t \in Tasks : IsFiniteSet(runs[t])
    /\ convs \subseteq Conversations /\ generating \subseteq Conversations
    /\ tick \in TickType
    /\ firing \in [Firings -> Firing]
    /\ req \in [Requests -> Request]
    /\ hist \in [Tasks -> History]

-----------------------------------------------------------------------------
(* Safety *)

\* A row with a pause reason is disabled, whatever order a firing, the tick and
\* a PUT write it in: enabling and pausing each set both columns in one UPDATE.
PausedIsDisabled ==
    \A t \in live : rows[t].reason # "none" => ~rows[t].enabled

\* No arming of next_run_at is fired twice, across sweeps, edits that re-arm a
\* claimed row, failed statements and crashes: mark_fired and disarm_self_paced
\* run before the firing is spawned (tick.rs, advance-before-dispatch).
EveryShotWasArmed == \A t \in Tasks : hist[t].shots <= hist[t].arms

\* A recurring task fires at most once for each match of its cron expression,
\* however late or slow the sweeps are (coalesced catch-up), unless a user
\* re-arms it.
OncePerOccurrence ==
    \A t \in live : rows[t].kind = "recurring" /\ hist[t].manual = 0 =>
        hist[t].shots <=
            Cardinality({NextCron(i) : i \in 0..now} \cap 0..now)

\* A self-paced loop that is on is either armed, or in a firing that will decide
\* its future, or its last firing failed (disarm_self_paced leaves the row enabled
\* with no next).  Only a lost statement or a crash can leave it otherwise, or a PUT
\* that switched its kind: a firing of before then succeeds after a failed one.
LoopIsHeld ==
    \A t \in live :
        /\ rows[t].kind = "self_paced" /\ rows[t].enabled
        /\ faults = 0 /\ ~hist[t].switched
        =>
            \/ rows[t].next # Never
            \/ InFlight(t) # {}
            \/ rows[t].lastStatus = "failed"

\* The counter a firing pauses by is its snapshot's.  When the firings of a task
\* never overlap and nobody re-enables it, that is the row's: the task is on
\* exactly while it is below the cap, and paused by the cap exactly at it.
CapIsExact ==
    \A t \in live : ~hist[t].overlap /\ hist[t].manual = 0 =>
        /\ rows[t].enabled => rows[t].fails < MaxFailures
        /\ rows[t].reason = "max_failures" => rows[t].fails >= MaxFailures

\* A goal-seeking loop stops at its turn cap: beyond it a task only fires as
\* often as users re-armed it, or as audit rows, by which the turns are counted,
\* were lost or pruned.  A PUT may make it a recurring task, which has no cap.
GoalTurnsBounded ==
    \A t \in live : rows[t].goal /\ ~hist[t].switched =>
        hist[t].shots <=
            AtLeast(MaxTurns, 1) + hist[t].manual + faults + hist[t].pruned

\* A self-paced loop nobody re-arms never fires after created_at + the horizon:
\* the clamp caps each proposal at the expiry, and a firing at it disables.
LoopEndsAtHorizon ==
    \A t \in live : rows[t].kind = "self_paced" /\ hist[t].manual = 0 =>
        rows[t].next <= rows[t].created + Horizon

\* A turn of a self-paced loop is not re-claimed while it runs (the disarmed row
\* is not due): two of its scheduled firings overlap only when a user re-armed it.
TurnIsNotReclaimed ==
    \A t \in live : rows[t].kind = "self_paced" /\ hist[t].manual = 0 =>
        Cardinality(Scheduled(t)) <= 1

-----------------------------------------------------------------------------
(* Action properties *)

\* Only a user's request turns a task on: no firing, write-back or sweep, however
\* late, undoes a PUT that disabled it or a pause.
OnlyUsersEnable ==
    [][\A t \in live : ~rows[t].enabled /\ rows'[t].enabled =>
          \E r \in Requests : req[r].task = t /\ req[r].enabled = "on"
                              /\ req'[r].op = "none"]_vars

-----------------------------------------------------------------------------
(* Liveness, under FairSpec *)

\* A due task does not stay due: the sweep catches up with an instant it slept
\* through (next_run_at <= NOW() in claim_due_tasks), and the loop goes on while
\* firings run.  In which order due tasks are served is SchedulerOrder's matter.
DueIsServed == \A t \in Tasks : IsDue(t, now) ~> ~IsDue(t, now)

\* Every firing comes to its end, the 15 minute wait included.
FiringEnds == \A f \in Firings : firing[f].pc # "free" ~> firing[f].pc = "free"
=============================================================================
