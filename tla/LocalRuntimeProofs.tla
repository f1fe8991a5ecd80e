------------------------- MODULE LocalRuntimeProofs -------------------------
(***************************************************************************)
(* Theorems about LocalRuntime, for every number of tasks and of engines,  *)
(* every kind of task and every crash window.                              *)
(***************************************************************************)
EXTENDS LocalRuntime, TLAPS

-----------------------------------------------------------------------------
(* Type correctness *)

\* A full window means that the machine has given up: it counts no further.
WindowIsBounded == health.crashes > FlapMax => health.state = "failed"

\* The admin's reads belong to a start or a restart.
ReadsAreAdmins == \A t \in Tasks : task[t].pc = "read" => task[t].kind \in {"start", "restart"}

TypeInv == TypeOK /\ WindowIsBounded /\ ReadsAreAdmins

\* What a task may become keeps the types and the admin's reads.
GoodTask(r) == r \in Task /\ (r.pc = "read" => r.kind \in {"start", "restart"})

LEMMA IdleType == GoodTask(Idle)
BY DEF GoodTask, Idle, Task, Pcs, AllKinds

LEMMA SetType ==
    ASSUME TypeInv, NEW t \in Tasks, NEW r, GoodTask(r), Set(t, r)
    PROVE  task' \in [Tasks -> Task] /\ ReadsAreAdmins'
<1>1. task' = [task EXCEPT ![t] = r]
  BY DEF Set
<1>2. task \in [Tasks -> Task]
  BY DEF TypeInv, TypeOK
<1>3. \A u \in Tasks : task'[u] = IF u = t THEN r ELSE task[u]
  BY <1>1, <1>2
<1>4. QED
  BY <1>1, <1>2, <1>3 DEF GoodTask, TypeInv, ReadsAreAdmins

LEMMA PcType ==
    ASSUME NEW x \in Task, NEW pc \in Pcs \ {"read"}
    PROVE  GoodTask([x EXCEPT !.pc = pc])
BY DEF GoodTask, Task

LEMMA PcEngType ==
    ASSUME NEW x \in Task, NEW pc \in Pcs \ {"read"}, NEW e \in Engines \cup {NoEngine}
    PROVE  GoodTask([x EXCEPT !.pc = pc, !.eng = e])
BY DEF GoodTask, Task

Rets == {"idle", "failed", "mark", "delete", "undo", "clear"}

LEMMA PcRetType ==
    ASSUME NEW x \in Task, NEW pc \in Pcs \ {"read"}, NEW r \in Rets
    PROVE  GoodTask([x EXCEPT !.pc = pc, !.ret = r])
BY DEF GoodTask, Task, Rets

LEMMA GoType ==
    ASSUME TypeInv, NEW t \in Tasks, NEW pc \in Pcs \ {"read"}, Go(t, pc)
    PROVE  task' \in [Tasks -> Task] /\ ReadsAreAdmins'
<1>1. task[t] \in Task
  BY DEF TypeInv, TypeOK
<1>2. GoodTask([task[t] EXCEPT !.pc = pc])
  BY <1>1, PcType
<1>3. Set(t, [task[t] EXCEPT !.pc = pc])
  BY DEF Go
<1>4. QED
  BY <1>2, <1>3, SetType

LEMMA StopType ==
    ASSUME TypeInv, NEW t \in Tasks, NEW ret \in Rets, Stop(t, ret)
    PROVE  task' \in [Tasks -> Task] /\ ReadsAreAdmins'
<1>1. task[t] \in Task
  BY DEF TypeInv, TypeOK
<1>2. GoodTask([task[t] EXCEPT !.pc = "kill", !.ret = ret])
  <2>1. "kill" \in Pcs \ {"read"}
    BY DEF Pcs
  <2>2. QED
    BY <1>1, <2>1, PcRetType
<1>3. Set(t, [task[t] EXCEPT !.pc = "kill", !.ret = ret])
  BY DEF Stop
<1>4. QED
  BY <1>2, <1>3, SetType

LEMMA GoIdleType ==
    ASSUME TypeInv, NEW t \in Tasks, Set(t, Idle)
    PROVE  task' \in [Tasks -> Task] /\ ReadsAreAdmins'
BY IdleType, SetType

\* Steps that leave everything but the tasks as it is.
Others == <<row, engines, proc, cell, cells, health, draining>>

LEMMA OthersType ==
    ASSUME TypeInv, UNCHANGED Others, task' \in [Tasks -> Task], ReadsAreAdmins'
    PROVE  TypeInv'
BY DEF TypeInv, TypeOK, Others, WindowIsBounded

\* The machine: every event yields a machine whose window is bounded.
GoodMachine(h) == h \in Machine /\ (h.crashes > FlapMax => h.state = "failed")

LEMMA MachineTypes ==
    ASSUME TypeInv
    PROVE  /\ GoodMachine(Known) /\ GoodMachine(Crashed(Known)) /\ GoodMachine(StartedOk(Known))
           /\ GoodMachine(Probed(Known, TRUE)) /\ GoodMachine(Probed(Known, FALSE))
           /\ GoodMachine([Known EXCEPT !.state = "stopped", !.crashes = 0])
           /\ GoodMachine(NoMachine)
<1>1. FlapMax \in Nat
  BY BoundsAssumption
<1>2. health \in Machine /\ row \in Row /\ WindowIsBounded
  BY DEF TypeInv, TypeOK
<1>3. GoodMachine(Known)
  BY <1>1, <1>2 DEF GoodMachine, Known, Machine, Row, WindowIsBounded
<1>4. GoodMachine(NoMachine)
  BY <1>1 DEF GoodMachine, NoMachine, Machine
<1>5. ASSUME NEW h, GoodMachine(h)
      PROVE  /\ GoodMachine(Crashed(h)) /\ GoodMachine(StartedOk(h))
             /\ GoodMachine(Probed(h, TRUE)) /\ GoodMachine(Probed(h, FALSE))
             /\ GoodMachine([h EXCEPT !.state = "stopped", !.crashes = 0])
  <2>1. h \in Machine /\ h.crashes \in 0..(FlapMax + 1)
    BY <1>5 DEF GoodMachine, Machine
  <2>2. GoodMachine(Crashed(h))
    <3> DEFINE n == h.crashes + 1
               s == IF n > FlapMax THEN "failed" ELSE "restarting"
               r == [h EXCEPT !.crashes = n, !.state = s]
    <3>1. CASE h.state \in {"failed", "stopped"}
      BY <1>5, <3>1 DEF Crashed
    <3>2. CASE h.state \notin {"failed", "stopped"}
      <4>1. n \in 0..(FlapMax + 1) /\ (n > FlapMax => s = "failed") /\ s \in {"failed", "restarting"}
        BY <1>1, <1>5, <2>1, <3>2 DEF GoodMachine
      <4>2. Crashed(h) = r
        BY <3>2 DEF Crashed
      <4> HIDE DEF n, s
      <4>3. r \in Machine /\ r.crashes = n /\ r.state = s
        BY <2>1, <4>1 DEF Machine
      <4>4. QED
        BY <4>1, <4>2, <4>3 DEF GoodMachine
    <3>3. QED
      BY <3>1, <3>2
  <2>3. GoodMachine(StartedOk(h))
    BY <1>1, <1>5, <2>1 DEF GoodMachine, StartedOk, Machine
  <2>4. GoodMachine(Probed(h, TRUE)) /\ GoodMachine(Probed(h, FALSE))
    BY <1>1, <1>5, <2>1 DEF GoodMachine, Probed, Machine
  <2>5. GoodMachine([h EXCEPT !.state = "stopped", !.crashes = 0])
    <3> DEFINE r == [h EXCEPT !.state = "stopped", !.crashes = 0]
    <3>1. 0 \in 0..(FlapMax + 1) /\ ~(0 > FlapMax)
      BY <1>1
    <3>2. r \in Machine /\ r.crashes = 0
      BY <2>1, <3>1 DEF Machine
    <3>3. QED
      BY <3>1, <3>2 DEF GoodMachine
  <2>6. QED
    BY <2>2, <2>3, <2>4, <2>5
<1>6. QED
  BY <1>3, <1>4, <1>5

LEMMA TypeInit == Init => TypeInv
<1> SUFFICES ASSUME Init PROVE TypeInv
  OBVIOUS
<1>1. FlapMax \in Nat
  BY BoundsAssumption
<1>2. row \in Row /\ health \in Machine /\ health.crashes = 0
  BY <1>1 DEF Init, NoRow, Row, NoMachine, Machine
<1>3. task \in [Tasks -> Task] /\ \A t \in Tasks : task[t].pc = "idle"
  BY IdleType DEF Init, GoodTask, Idle
<1>4. ~(0 > FlapMax)
  BY <1>1
<1>5. WindowIsBounded /\ ReadsAreAdmins
  BY <1>2, <1>3, <1>4 DEF WindowIsBounded, ReadsAreAdmins
<1>6. TypeOK
  BY <1>2, <1>3 DEF Init, TypeOK
<1>7. QED
  BY <1>5, <1>6 DEF TypeInv

LEMMA PcsNamed ==
    {"guarded", "probe", "health", "stale", "crashed", "check", "claim", "wait", "start",
     "spawn", "insert", "poll", "persist", "started", "failed", "giveup", "drop", "url",
     "post", "stream", "ahealth", "delete", "create", "readback", "setrun", "undo", "unrow",
     "clearing", "clearrow", "monitor", "watch", "note", "candidates", "drain", "draining",
     "kill", "mark", "clear", "forget", "idle"} \subseteq Pcs \ {"read"}
BY DEF Pcs

LEMMA ServeType == ASSUME NEW t PROVE GoodTask(Serve(t))
<1>1. /\ GoodTask([Idle EXCEPT !.pc = "url"])
      /\ GoodTask([Idle EXCEPT !.kind = "validate", !.pc = "kill", !.ret = "mark"])
  BY DEF GoodTask, Idle, Task, Pcs, AllKinds
<1>2. QED
  BY <1>1 DEF Serve

LEMMA SettledType == ASSUME TypeInv, NEW t \in Tasks PROVE GoodTask(Settled(t))
<1>1. task[t] \in Task
  BY DEF TypeInv, TypeOK
<1>2. QED
  BY <1>1, PcsNamed DEF Settled, GoodTask, Task

\* One lemma per action that keeps the types only through more than its new pc.
LEMMA BeginType == ASSUME TypeInv, NEW t \in Tasks, NEW k \in Kinds, Begin(t, k) PROVE TypeInv'
<1>1. k \in AllKinds
  BY KindsAssumption
<1>2. First(k) \in Pcs /\ (First(k) = "read" => k \in {"start", "restart"})
  BY <1>1 DEF First, AllKinds, Pcs
<1>3. GoodTask([Idle EXCEPT !.kind = k, !.pc = First(k)])
  <2>1. ASSUME NEW pc \in Pcs, pc = "read" => k \in {"start", "restart"}
        PROVE  GoodTask([Idle EXCEPT !.kind = k, !.pc = pc])
    BY <1>1, <2>1, IdleType DEF GoodTask, Task
  <2>2. QED
    BY <1>2, <2>1
<1>4. Set(t, [Idle EXCEPT !.kind = k, !.pc = First(k)]) /\ UNCHANGED Others
  BY DEF Begin, Others
<1>5. QED
  BY <1>3, <1>4, SetType, OthersType

\* A step of one task that sets only the task: to idle, to another place, or to a
\* place with the engine of the row.
Moves(t) ==
    \/ Set(t, Idle)
    \/ \E pc \in Pcs \ {"read"} : Go(t, pc)
    \/ \E ret \in Rets : Stop(t, ret)
    \/ \E pc \in Pcs \ {"read"}, e \in Engines \cup {NoEngine} :
           Set(t, [task[t] EXCEPT !.pc = pc, !.eng = e])

LEMMA MovesType ==
    ASSUME TypeInv, NEW t \in Tasks, Moves(t)
    PROVE  task' \in [Tasks -> Task] /\ ReadsAreAdmins'
<1>1. task[t] \in Task
  BY DEF TypeInv, TypeOK
<1>2. ASSUME NEW pc \in Pcs \ {"read"}, NEW e \in Engines \cup {NoEngine},
             Set(t, [task[t] EXCEPT !.pc = pc, !.eng = e])
      PROVE  task' \in [Tasks -> Task] /\ ReadsAreAdmins'
  <2>1. GoodTask([task[t] EXCEPT !.pc = pc, !.eng = e])
    BY <1>1, PcEngType
  <2>2. QED
    BY <1>2, <2>1, SetType
<1>3. QED
  BY <1>2, GoIdleType, GoType, StopType DEF Moves

\* The steps that move a task and leave what it holds.
Moving(t) ==
    \/ CheckFlag(t) \/ ReadRow(t) \/ MarkCrashed(t) \/ NoteCrash(t) \/ CheckFailed(t)
    \/ StartEngine(t) \/ StartRefused(t) \/ (\E e \in Engines : SpawnEngine(t, e))
    \/ InsertEngine(t) \/ PollHealth(t) \/ PollFails(t) \/ PersistInstance(t)
    \/ Resolve(t) \/ Forward(t) \/ StreamEnds(t) \/ KillEngine(t)
    \/ ReadForAdmin(t) \/ CheckForAdmin(t) \/ DeleteRow(t) \/ CreateRow(t) \/ ReadBack(t)
    \/ SetRunning(t) \/ UndoRow(t) \/ StopRow(t) \/ ClearFailed(t) \/ ClearRow(t)
    \/ Monitor(t) \/ Watch(t) \/ NoteState(t) \/ Candidates(t) \/ Drain(t)
    \/ DrainTimeout(t) \/ MarkStopped(t) \/ ClearTracking(t) \/ Forget(t)

LEMMA MovingSteps == ASSUME TypeInv, NEW t \in Tasks, Moving(t) PROVE Moves(t)
<1>1. /\ row.engine \in Engines \cup {NoEngine}
      /\ task[t].eng \in Engines \cup {NoEngine} /\ task[t].ret \in Rets
  BY DEF TypeInv, TypeOK, Row, Task, Rets
<1>2. CASE CheckFlag(t) \/ ReadRow(t) \/ MarkCrashed(t) \/ NoteCrash(t) \/ CheckFailed(t)
  BY <1>1, <1>2, PcsNamed DEF CheckFlag, ReadRow, MarkCrashed, NoteCrash, CheckFailed, Moves, Go
<1>3. CASE \/ StartEngine(t) \/ StartRefused(t) \/ InsertEngine(t) \/ PollHealth(t)
           \/ PollFails(t) \/ PersistInstance(t)
  BY <1>3, PcsNamed DEF StartEngine, StartRefused, InsertEngine, PollHealth, PollFails,
                        PersistInstance, Moves, Rets
<1>4. CASE \E e \in Engines : SpawnEngine(t, e)
  BY <1>4, PcsNamed DEF SpawnEngine, Moves
<1>5. CASE Resolve(t) \/ Forward(t) \/ StreamEnds(t) \/ Monitor(t) \/ Watch(t)
  BY <1>5, <1>1, PcsNamed DEF Resolve, Forward, StreamEnds, Monitor, Watch, Moves
<1>6. CASE KillEngine(t)
  BY <1>6, <1>1, PcsNamed, NamesAssumption DEF KillEngine, Moves, Rets
<1>7. CASE ReadForAdmin(t)
  <2>1. task[t].kind \in {"start", "restart"}
    BY <1>7 DEF ReadForAdmin, TypeInv, ReadsAreAdmins
  <2>2. CASE task[t].kind = "restart"
    BY <1>7, <2>2, PcsNamed DEF ReadForAdmin, Moves, Rets
  <2>3. CASE task[t].kind = "start"
    BY <1>7, <2>3, <1>1, PcsNamed DEF ReadForAdmin, Moves
  <2>4. QED
    BY <2>1, <2>2, <2>3
<1>8. CASE CheckForAdmin(t) \/ DeleteRow(t) \/ CreateRow(t) \/ ReadBack(t) \/ SetRunning(t)
  BY <1>8, PcsNamed DEF CheckForAdmin, DeleteRow, CreateRow, ReadBack, SetRunning, Moves, Rets
<1>9. CASE UndoRow(t) \/ StopRow(t) \/ ClearFailed(t) \/ ClearRow(t) \/ NoteState(t)
  BY <1>9, PcsNamed DEF UndoRow, StopRow, ClearFailed, ClearRow, NoteState, Moves, Rets, Go
<1>10. CASE \/ Candidates(t) \/ Drain(t) \/ DrainTimeout(t) \/ MarkStopped(t)
            \/ ClearTracking(t) \/ Forget(t)
  BY <1>10, PcsNamed DEF Candidates, Drain, DrainTimeout, MarkStopped, ClearTracking, Forget,
                         Moves, Rets
<1>11. QED
  BY <1>2, <1>3, <1>4, <1>5, <1>6, <1>7, <1>8, <1>9, <1>10 DEF Moving

\* The moves that change nothing else.
LEMMA StillSteps ==
    ASSUME TypeInv, NEW t \in Tasks,
           \/ CheckFlag(t) \/ ReadRow(t) \/ StartEngine(t) \/ StartRefused(t) \/ PollHealth(t)
           \/ PollFails(t) \/ Resolve(t) \/ Forward(t) \/ StreamEnds(t) \/ ReadForAdmin(t)
           \/ CheckForAdmin(t) \/ ReadBack(t) \/ Monitor(t) \/ Candidates(t) \/ DrainTimeout(t)
    PROVE  TypeInv'
<1>1. UNCHANGED Others
  BY DEF Others, CheckFlag, ReadRow, StartEngine, StartRefused, PollHealth, PollFails,
         Resolve, Forward, StreamEnds, ReadForAdmin, CheckForAdmin, ReadBack, Monitor,
         Candidates, DrainTimeout
<1>2. Moves(t)
  BY MovingSteps DEF Moving
<1>3. QED
  BY <1>1, <1>2, MovesType, OthersType

\* What a step changes besides its task keeps its type.
Typed ==
    /\ row' \in Row
    /\ engines' \in [Engines -> {"sick", "up", "dead"}]
    /\ proc' \in Engines \cup {NoEngine}
    /\ cell' \in Tasks \cup {NoCell}
    /\ cells' \in [Tasks -> {"new", "busy", "ok", "err"}]
    /\ GoodMachine(health')
    /\ draining' \in BOOLEAN

LEMMA TypedType ==
    ASSUME Typed, task' \in [Tasks -> Task], ReadsAreAdmins'
    PROVE  TypeInv'
BY DEF Typed, GoodMachine, TypeInv, TypeOK, WindowIsBounded

LEMMA StateTypes ==
    ASSUME TypeInv
    PROVE  /\ row \in Row /\ engines \in [Engines -> {"sick", "up", "dead"}]
           /\ proc \in Engines \cup {NoEngine} /\ cell \in Tasks \cup {NoCell}
           /\ cells \in [Tasks -> {"new", "busy", "ok", "err"}] /\ GoodMachine(health)
           /\ draining \in BOOLEAN /\ task \in [Tasks -> Task]
BY DEF TypeInv, TypeOK, WindowIsBounded, GoodMachine

LEMMA RowTypes ==
    ASSUME TypeInv
    PROVE  /\ NoRow \in Row
           /\ \A s \in {"starting", "running", "stopped"}, e \in Engines \cup {NoEngine} :
                  [NoRow EXCEPT !.engine = e, !.status = s] \in Row
           /\ \A e \in Engines \cup {NoEngine} :
                  [status |-> "running", state |-> "live", engine |-> e] \in Row
           /\ \A s \in {"starting", "running", "stopped"} : [row EXCEPT !.status = s] \in Row
           /\ \A s \in {"live", "failed", "stopped"} : [row EXCEPT !.state = s] \in Row
           /\ \A s \in {"live", "failed", "stopped"} :
                  [row EXCEPT !.status = "stopped", !.state = s] \in Row
BY StateTypes DEF Row, NoRow

LEMMA DeadType ==
    ASSUME TypeInv, NEW es
    PROVE  Dead(es) \in [Engines -> {"sick", "up", "dead"}]
BY StateTypes DEF Dead

\* ensure_running up to the cell.
LEMMA HealthSteps ==
    ASSUME TypeInv, NEW t \in Tasks,
           CheckHealth(t) \/ MarkCrashed(t) \/ NoteCrash(t) \/ CheckFailed(t) \/ PersistFailed(t)
    PROVE  TypeInv'
<1>1. CASE CheckHealth(t)
  <2>1. Typed
    BY <1>1, StateTypes, MachineTypes DEF CheckHealth, Typed
  <2>2. task' \in [Tasks -> Task] /\ ReadsAreAdmins'
    <3>1. Set(t, Serve(t)) \/ Moves(t)
      BY <1>1, PcsNamed DEF CheckHealth, Moves
    <3>2. QED
      BY <3>1, ServeType, SetType, MovesType
  <2>3. QED
    BY <2>1, <2>2, TypedType
<1>2. CASE MarkCrashed(t)
  <2>1. row' \in Row
    BY <1>2, RowTypes, StateTypes DEF MarkCrashed
  <2>2. Typed
    BY <1>2, <2>1, StateTypes DEF MarkCrashed, Typed
  <2>3. Moves(t)
    BY <1>2, MovingSteps DEF Moving
  <2>4. QED
    BY <2>2, <2>3, MovesType, TypedType
<1>3. CASE NoteCrash(t) \/ CheckFailed(t)
  <2>1. Typed
    BY <1>3, StateTypes, MachineTypes DEF NoteCrash, CheckFailed, Typed
  <2>2. Moves(t)
    BY <1>3, MovingSteps DEF Moving
  <2>3. QED
    BY <2>1, <2>2, MovesType, TypedType
<1>4. CASE PersistFailed(t)
  <2>1. row' \in Row
    BY <1>4, RowTypes, StateTypes DEF PersistFailed
  <2>2. cells' \in [Tasks -> {"new", "busy", "ok", "err"}]
    BY <1>4, StateTypes DEF PersistFailed
  <2>3. Typed
    BY <1>4, <2>1, <2>2, StateTypes DEF PersistFailed, Typed
  <2>4. Set(t, Settled(t)) \/ Moves(t)
    BY <1>4, PcsNamed DEF PersistFailed, Moves
  <2>5. QED
    BY <2>3, <2>4, SettledType, SetType, MovesType, TypedType
<1>5. QED
  BY <1>1, <1>2, <1>3, <1>4

\* The cell and its closure.
LEMMA CellSteps ==
    ASSUME TypeInv, NEW t \in Tasks,
           \/ Claim(t) \/ GetOrInit(t) \/ DropCell(t) \/ StartSucceeds(t) \/ StartFails(t)
    PROVE  TypeInv'
<1> DEFINE States == {"new", "busy", "ok", "err"}
<1>1. task[t] \in Task
  BY StateTypes
<1>2. CASE Claim(t)
  <2> DEFINE c == IF cell = NoCell THEN t ELSE cell
             r == [task[t] EXCEPT !.pc = "wait", !.cell = c]
  <2>1. c \in Tasks
    BY StateTypes
  <2>2. GoodTask(r)
    BY <1>1, <2>1, PcsNamed DEF GoodTask, Task
  <2>3. Typed
    BY <1>2, <2>1, StateTypes DEF Claim, Typed
  <2>4. Set(t, r)
    BY <1>2 DEF Claim
  <2> HIDE DEF c, r
  <2>5. QED
    BY <2>2, <2>3, <2>4, SetType, TypedType
<1>3. CASE GetOrInit(t)
  <2> DEFINE r == [task[t] EXCEPT !.pc = "start", !.holds = TRUE]
  <2>1. GoodTask(r)
    BY <1>1, PcsNamed DEF GoodTask, Task
  <2>2. Typed
    BY <1>3, StateTypes DEF GetOrInit, Typed
  <2>3. Set(t, r) \/ Moves(t)
    BY <1>3, PcsNamed DEF GetOrInit, Moves
  <2> HIDE DEF r
  <2>4. QED
    BY <2>1, <2>2, <2>3, SetType, MovesType, TypedType
<1>4. CASE DropCell(t)
  <2>1. Typed
    BY <1>4, StateTypes DEF DropCell, Typed
  <2>2. Set(t, Serve(t)) \/ Set(t, Idle)
    BY <1>4 DEF DropCell
  <2>3. QED
    BY <2>1, <2>2, ServeType, IdleType, SetType, TypedType
<1>5. CASE StartSucceeds(t) \/ StartFails(t)
  <2>1. Typed
    BY <1>5, StateTypes, MachineTypes DEF StartSucceeds, StartFails, Typed
  <2>2. Set(t, Settled(t)) \/ Moves(t)
    BY <1>5, PcsNamed DEF StartSucceeds, StartFails, Moves
  <2>3. QED
    BY <2>1, <2>2, SettledType, SetType, MovesType, TypedType
<1>6. QED
  BY <1>2, <1>3, <1>4, <1>5

\* The engine, the row and the map of processes.
LEMMA EngineSteps ==
    ASSUME TypeInv, NEW t \in Tasks,
           \/ \E e \in Engines : SpawnEngine(t, e)
           \/ InsertEngine(t) \/ PersistInstance(t) \/ KillEngine(t)
    PROVE  TypeInv'
<1>1. task[t] \in Task /\ task[t].eng \in Engines \cup {NoEngine} /\ task[t].ret \in Rets
  BY StateTypes DEF Task, Rets
<1>2. CASE \E e \in Engines : SpawnEngine(t, e)
  <2>1. PICK e \in Engines : SpawnEngine(t, e)
    BY <1>2
  <2>2. Typed
    BY <2>1, StateTypes DEF SpawnEngine, Typed
  <2>3. Moves(t)
    BY <2>1, PcsNamed DEF SpawnEngine, Moves
  <2>4. QED
    BY <2>2, <2>3, MovesType, TypedType
<1>3. CASE InsertEngine(t)
  <2>1. Typed
    BY <1>3, <1>1, StateTypes, DeadType DEF InsertEngine, Typed
  <2>2. Moves(t)
    BY <1>3, MovingSteps DEF Moving
  <2>3. QED
    BY <2>1, <2>2, MovesType, TypedType
<1>4. CASE PersistInstance(t)
  <2>1. row' \in Row
    BY <1>4, <1>1, RowTypes, StateTypes DEF PersistInstance
  <2>2. Typed
    BY <1>4, <2>1, StateTypes DEF PersistInstance, Typed
  <2>3. Moves(t)
    BY <1>4, MovingSteps DEF Moving
  <2>4. QED
    BY <2>2, <2>3, MovesType, TypedType
<1>5. CASE KillEngine(t)
  <2>1. Typed
    BY <1>5, StateTypes, DeadType DEF KillEngine, Typed
  <2>2. Moves(t)
    BY <1>5, MovingSteps DEF Moving
  <2>3. QED
    BY <2>1, <2>2, MovesType, TypedType
<1>6. QED
  BY <1>2, <1>3, <1>4, <1>5

\* The row, by the admin's handlers, the validator and the reaper.
LEMMA RowSteps ==
    ASSUME TypeInv, NEW t \in Tasks,
           \/ DeleteRow(t) \/ CreateRow(t) \/ SetRunning(t) \/ UndoRow(t) \/ StopRow(t)
           \/ ClearRow(t) \/ NoteState(t) \/ MarkStopped(t)
    PROVE  TypeInv'
<1>1. task[t] \in Task /\ task[t].eng \in Engines \cup {NoEngine}
  BY StateTypes DEF Task
<1>2. row' \in Row
  BY <1>1, RowTypes, StateTypes DEF DeleteRow, CreateRow, SetRunning, UndoRow, StopRow,
                                    ClearRow, NoteState, MarkStopped
<1>3. Typed
  BY <1>2, StateTypes DEF Typed, DeleteRow, CreateRow, SetRunning, UndoRow, StopRow,
                          ClearRow, NoteState, MarkStopped
<1>4. Moves(t)
  BY MovingSteps DEF Moving
<1>5. QED
  BY <1>3, <1>4, MovesType, TypedType

\* The in-memory maps, by clear-failed, the reaper and forget.
LEMMA TrackingSteps ==
    ASSUME TypeInv, NEW t \in Tasks,
           \/ ClearFailed(t) \/ Watch(t) \/ Drain(t) \/ Drained(t) \/ ClearTracking(t) \/ Forget(t)
    PROVE  TypeInv'
<1>1. task[t] \in Task
  BY StateTypes
<1>2. CASE ClearFailed(t) \/ Drain(t) \/ ClearTracking(t) \/ Forget(t)
  <2>1. Typed
    BY <1>2, StateTypes, MachineTypes DEF ClearFailed, Drain, ClearTracking, Forget, Typed
  <2>2. Moves(t)
    BY <1>2, MovingSteps DEF Moving
  <2>3. QED
    BY <2>1, <2>2, MovesType, TypedType
<1>3. CASE Watch(t)
  <2>1. Up(task[t].eng) \in BOOLEAN
    BY DEF Up
  <2>2. GoodMachine(Probed(Known, Up(task[t].eng)))
    BY <2>1, MachineTypes
  <2>3. Typed
    BY <1>3, <2>2, StateTypes DEF Watch, Typed
  <2>4. Moves(t)
    BY <1>3, MovingSteps DEF Moving
  <2>5. QED
    BY <2>3, <2>4, MovesType, TypedType
<1>4. CASE Drained(t)
  <2> DEFINE r == [task[t] EXCEPT !.pc = "kill", !.ret = "mark", !.holds = TRUE]
  <2>1. GoodTask(r)
    BY <1>1, PcsNamed DEF GoodTask, Task
  <2>2. Set(t, r) /\ UNCHANGED Others
    BY <1>4 DEF Drained, Others
  <2> HIDE DEF r
  <2>3. QED
    BY <2>1, <2>2, SetType, OthersType
<1>5. QED
  BY <1>2, <1>3, <1>4

LEMMA EnvironmentSteps == ASSUME TypeInv, Environment PROVE TypeInv'
<1>1. ASSUME NEW t \in Tasks, Hangup(t) PROVE TypeInv'
  <2>1. Typed
    BY <1>1, StateTypes, DeadType DEF Hangup, Abandon, Typed
  <2>2. QED
    BY <1>1, <2>1, GoIdleType, TypedType DEF Hangup
<1>2. ASSUME NEW t \in Tasks, ValidationTimeout(t) PROVE TypeInv'
  <2>1. Typed
    BY <1>2, StateTypes, DeadType DEF ValidationTimeout, Abandon, Typed
  <2>2. GoodTask([Idle EXCEPT !.kind = "validate", !.pc = "kill", !.ret = "mark"])
    BY DEF GoodTask, Idle, Task, Pcs, AllKinds
  <2>3. Set(t, [Idle EXCEPT !.kind = "validate", !.pc = "kill", !.ret = "mark"])
    BY <1>2 DEF ValidationTimeout
  <2>4. QED
    BY <2>1, <2>2, <2>3, SetType, TypedType
<1>3. CASE Crash
  <2>1. Typed
    BY <1>3, StateTypes, MachineTypes DEF Crash, Typed
  <2>2. task' \in [Tasks -> Task] /\ ReadsAreAdmins'
    BY <1>3, IdleType DEF Crash, GoodTask, ReadsAreAdmins, Idle
  <2>3. QED
    BY <2>1, <2>2, TypedType
<1>4. ASSUME NEW e \in Engines, NEW s \in {"sick", "up", "dead"}, EngineChanges(e, s)
      PROVE  TypeInv'
  <2>1. Typed
    BY <1>4, StateTypes DEF EngineChanges, Typed
  <2>2. QED
    BY <1>4, <2>1, StateTypes, TypedType DEF EngineChanges, TypeInv, ReadsAreAdmins
<1>5. CASE CrashExpires
  <2>1. GoodMachine(health')
    <3> DEFINE n == health.crashes - 1
               r == [health EXCEPT !.crashes = n]
    <3>1. health \in Machine /\ health.crashes \in 0..(FlapMax + 1) /\ FlapMax \in Nat
      BY StateTypes, BoundsAssumption DEF GoodMachine, Machine
    <3>2. n \in 0..(FlapMax + 1) /\ ~(n > FlapMax)
      BY <1>5, <3>1 DEF CrashExpires
    <3> HIDE DEF n
    <3>3. r \in Machine /\ r.crashes = n
      BY <3>1, <3>2 DEF Machine
    <3>4. health' = r
      BY <1>5 DEF CrashExpires, n
    <3> HIDE DEF r
    <3>5. QED
      BY <3>2, <3>3, <3>4 DEF GoodMachine
  <2>2. Typed
    BY <1>5, <2>1, StateTypes DEF CrashExpires, Typed
  <2>3. QED
    BY <1>5, <2>2, StateTypes, TypedType DEF CrashExpires, TypeInv, ReadsAreAdmins
<1>6. QED
  BY <1>1, <1>2, <1>3, <1>4, <1>5, BeginType DEF Environment

LEMMA TypeNext == TypeInv /\ [Next]_vars => TypeInv'
<1> SUFFICES ASSUME TypeInv, [Next]_vars PROVE TypeInv'
  OBVIOUS
<1>1. ASSUME NEW t \in Tasks, Step(t) PROVE TypeInv'
  BY <1>1, StillSteps, HealthSteps, CellSteps, EngineSteps, RowSteps,
     TrackingSteps DEF Step
<1>2. CASE UNCHANGED vars
  BY <1>2 DEF vars, TypeInv, TypeOK, WindowIsBounded, ReadsAreAdmins
<1>3. QED
  BY <1>1, <1>2, EnvironmentSteps DEF Next

LEMMA TypeInvariant == Spec => []TypeInv
BY TypeInit, TypeNext, PTL DEF Spec

\* Every variable keeps its type: the window of crashes never outgrows its bound, the
\* process map names an engine.
THEOREM RuntimeType == Spec => []TypeOK
BY TypeInvariant, PTL DEF TypeInv

-----------------------------------------------------------------------------
(* No engine process is lost *)

\* A step changes the record of one task.
OnlyOwn(t) == \A u \in Tasks \ {t} : task'[u] = task[u]

LEMMA SetIsOwn ==
    ASSUME TypeInv, NEW t \in Tasks, NEW r, Set(t, r)
    PROVE  OnlyOwn(t) /\ task'[t] = r
BY StateTypes DEF Set, OnlyOwn

LEMMA MovesOwn ==
    ASSUME TypeInv, NEW t \in Tasks, Moves(t)
    PROVE  OnlyOwn(t)
BY SetIsOwn DEF Moves, Go, Stop

LEMMA StepIsOwn == ASSUME TypeInv, NEW t \in Tasks, Step(t) PROVE OnlyOwn(t)
<1>1. CASE Moving(t)
  BY <1>1, MovingSteps, MovesOwn
<1>2. CASE CheckHealth(t) \/ PersistFailed(t) \/ Claim(t) \/ GetOrInit(t) \/ DropCell(t)
  BY <1>2, SetIsOwn DEF CheckHealth, PersistFailed, Claim, GetOrInit, DropCell, Go
<1>3. CASE StartSucceeds(t) \/ StartFails(t) \/ Drained(t)
  BY <1>3, SetIsOwn DEF StartSucceeds, StartFails, Drained, Go
<1>4. QED
  BY <1>1, <1>2, <1>3 DEF Step, Moving

\* Only four steps touch the processes, the map, or a task about to store one.
Spares(t) == UNCHANGED <<engines, proc>> /\ task[t].pc # "insert"

LEMMA StepSpares ==
    ASSUME NEW t \in Tasks, Step(t)
    PROVE  \/ Spares(t) \/ InsertEngine(t) \/ KillEngine(t)
           \/ \E e \in Engines : SpawnEngine(t, e)
<1>1. CASE \/ CheckFlag(t) \/ ReadRow(t) \/ CheckHealth(t) \/ MarkCrashed(t) \/ NoteCrash(t)
           \/ CheckFailed(t) \/ PersistFailed(t) \/ Claim(t) \/ GetOrInit(t) \/ DropCell(t)
  BY <1>1 DEF Spares, CheckFlag, ReadRow, CheckHealth, MarkCrashed, NoteCrash,
              CheckFailed, PersistFailed, Claim, GetOrInit, DropCell
<1>2. CASE \/ StartEngine(t) \/ StartRefused(t) \/ PollHealth(t)
           \/ PollFails(t) \/ PersistInstance(t) \/ StartSucceeds(t) \/ StartFails(t)
           \/ Resolve(t) \/ Forward(t) \/ StreamEnds(t)
  BY <1>2 DEF Spares, StartEngine, StartRefused, PollHealth, PollFails, PersistInstance,
              StartSucceeds, StartFails, Resolve, Forward, StreamEnds
<1>3. CASE \/ ReadForAdmin(t) \/ CheckForAdmin(t) \/ DeleteRow(t) \/ CreateRow(t)
           \/ ReadBack(t) \/ SetRunning(t) \/ UndoRow(t) \/ StopRow(t) \/ ClearFailed(t)
           \/ ClearRow(t)
  BY <1>3 DEF Spares, ReadForAdmin, CheckForAdmin, DeleteRow, CreateRow, ReadBack,
              SetRunning, UndoRow, StopRow, ClearFailed, ClearRow
<1>4. CASE \/ Monitor(t) \/ Watch(t) \/ NoteState(t) \/ Candidates(t) \/ Drain(t)
           \/ Drained(t) \/ DrainTimeout(t) \/ MarkStopped(t) \/ ClearTracking(t) \/ Forget(t)
  BY <1>4 DEF Spares, Monitor, Watch, NoteState, Candidates, Drain, Drained,
              DrainTimeout, MarkStopped, ClearTracking, Forget
<1>5. QED
  BY <1>1, <1>2, <1>3, <1>4 DEF Step

Tracked(e) == Alive(e) => \/ proc = e
                          \/ \E t \in Tasks : task[t].pc = "insert" /\ task[t].eng = e

LEMMA SpareTracks ==
    ASSUME TypeInv, NEW t \in Tasks, OnlyOwn(t), Spares(t), NEW e \in Engines, Tracked(e)
    PROVE  Tracked(e)'
BY DEF OnlyOwn, Spares, Tracked, Alive

\* A dropped future kills the child it has not stored yet.
LEMMA AbandonTracks ==
    ASSUME TypeInv, NEW t \in Tasks, NEW r, Set(t, r), Abandon(t), UNCHANGED proc,
           NEW e \in Engines, Tracked(e)
    PROVE  Tracked(e)'
<1> SUFFICES ASSUME Alive(e)' PROVE Tracked(e)'
  BY DEF Tracked
<1>1. OnlyOwn(t)
  BY SetIsOwn
<1>2. engines' = engines \/ (task[t].pc = "insert" /\ engines' = Dead({task[t].eng}))
  BY DEF Abandon
<1>3. Alive(e) /\ ~(task[t].pc = "insert" /\ task[t].eng = e)
  <2>1. CASE task[t].pc = "insert"
    <3>1. engines' = Dead({task[t].eng})
      BY <2>1 DEF Abandon
    <3>2. engines'[e] = IF e = task[t].eng THEN "dead" ELSE engines[e]
      BY <3>1 DEF Dead
    <3>3. QED
      BY <3>2 DEF Alive
  <2>2. CASE task[t].pc # "insert"
    BY <1>2, <2>2 DEF Alive
  <2>3. QED
    BY <2>1, <2>2
<1>4. QED
  BY <1>1, <1>3 DEF Tracked, OnlyOwn

LEMMA StepTracks ==
    ASSUME TypeInv, NEW t \in Tasks, Step(t), NEW e \in Engines, Tracked(e)
    PROVE  Tracked(e)'
<1>1. OnlyOwn(t)
  BY StepIsOwn
<1>2. CASE Spares(t)
  BY <1>1, <1>2, SpareTracks
<1>3. CASE InsertEngine(t)
  <2>1. proc' = task[t].eng /\ engines'[e] = IF e = proc THEN "dead" ELSE engines[e]
    BY <1>3 DEF InsertEngine, Dead
  <2>2. QED
    BY <1>1, <2>1 DEF Tracked, Alive, OnlyOwn
<1>4. CASE KillEngine(t)
  <2>1. task[t].pc = "kill" /\ engines'[e] = IF e = proc THEN "dead" ELSE engines[e]
    BY <1>4 DEF KillEngine, Dead
  <2>2. QED
    BY <1>1, <2>1 DEF Tracked, Alive, OnlyOwn
<1>5. ASSUME NEW f \in Engines, SpawnEngine(t, f) PROVE Tracked(e)'
  <2>1. task[t].pc = "spawn" /\ proc' = proc /\ engines' = [engines EXCEPT ![f] = "sick"]
        /\ Set(t, [task[t] EXCEPT !.pc = "insert", !.eng = f])
    BY <1>5 DEF SpawnEngine
  <2>2. task'[t].pc = "insert" /\ task'[t].eng = f
    <3>1. task'[t] = [task[t] EXCEPT !.pc = "insert", !.eng = f]
      BY <2>1, SetIsOwn
    <3>2. task[t] \in Task
      BY StateTypes
    <3>3. QED
      BY <3>1, <3>2 DEF Task
  <2>3. e # f => engines'[e] = engines[e]
    BY <2>1, StateTypes
  <2>4. CASE e = f
    BY <2>2, <2>4 DEF Tracked
  <2>5. CASE e # f
    BY <1>1, <2>1, <2>3, <2>5 DEF Tracked, Alive, OnlyOwn
  <2>6. QED
    BY <2>4, <2>5
<1>6. QED
  BY <1>2, <1>3, <1>4, <1>5, StepSpares

LEMMA EnvironmentTracks ==
    ASSUME TypeInv, Environment, NEW e \in Engines, Tracked(e)
    PROVE  Tracked(e)'
<1>1. ASSUME NEW t \in Tasks, Hangup(t) \/ ValidationTimeout(t) PROVE Tracked(e)'
  BY <1>1, AbandonTracks DEF Hangup, ValidationTimeout
<1>2. ASSUME NEW t \in Tasks, NEW k \in Kinds, Begin(t, k) PROVE Tracked(e)'
  <2>1. Spares(t) /\ OnlyOwn(t)
    BY <1>2, SetIsOwn DEF Begin, Spares
  <2>2. QED
    BY <2>1, SpareTracks
<1>3. ASSUME NEW f \in Engines, NEW s \in {"sick", "up", "dead"}, EngineChanges(f, s)
      PROVE  Tracked(e)'
  <2>1. Alive(e)' => Alive(e)
    BY <1>3, StateTypes DEF EngineChanges, Alive
  <2>2. QED
    BY <1>3, <2>1 DEF EngineChanges, Tracked
<1>4. CASE CrashExpires
  BY <1>4 DEF CrashExpires, Tracked, Alive
<1>5. CASE Crash
  BY <1>5 DEF Crash, Tracked, Alive
<1>6. QED
  BY <1>1, <1>2, <1>3, <1>4, <1>5 DEF Environment

\* An engine that lives is the one stop() can kill, or its task is about to store it.
THEOREM RuntimeEnginesAreTracked == Spec => []EnginesAreTracked
<1>1. Init => EnginesAreTracked
  BY DEF Init, EnginesAreTracked, Alive
<1>2. TypeInv /\ EnginesAreTracked /\ [Next]_vars => EnginesAreTracked'
  <2> SUFFICES ASSUME TypeInv, EnginesAreTracked, [Next]_vars, NEW e \in Engines
               PROVE  Tracked(e)'
    BY DEF EnginesAreTracked, Tracked, Alive
  <2>1. Tracked(e)
    BY DEF EnginesAreTracked, Tracked
  <2>2. CASE UNCHANGED vars
    BY <2>1, <2>2 DEF vars, Tracked, Alive
  <2>3. QED
    BY <2>1, <2>2, StepTracks, EnvironmentTracks DEF Next
<1>3. QED
  BY <1>1, <1>2, TypeInvariant, PTL DEF Spec

-----------------------------------------------------------------------------
(* Where a task may be, by what it is and holds *)

Monitoring == {"monitor", "watch", "note", "candidates", "drain", "draining"}
PreClaim   == {"guarded", "probe", "health", "stale", "crashed", "check", "claim"}
Driving    == {"poll", "persist", "started", "failed"}

\* The reaper's places are the reaper's only, and holds means there that its drain has
\* ended; elsewhere it means that the task runs the closure of its cell.
Shape(r) ==
    /\ r.kind = "reap" =>
           \/ r.pc \in Monitoring /\ ~r.holds
           \/ r.pc = "kill" /\ r.ret = "mark"
           \/ r.pc \in {"mark", "clear"}
    /\ r.pc \in Monitoring => r.kind = "reap"
    /\ (r.pc \in Driving \/ (r.pc = "kill" /\ r.ret = "failed")) => r.holds
    /\ r.pc \in {"guarded", "crashed", "check", "claim", "wait", "drop"} => ~r.holds
    /\ r.pc \in {"wait", "drop"} => r.cell \in Tasks
    /\ r.holds /\ r.kind # "reap" => r.cell \in Tasks
    /\ r.pc \in PreClaim /\ ~r.holds => r.cell = NoCell

Shapes == \A t \in Tasks : Shape(task[t])

LEMMA IdleShape == Shape(Idle) /\ ~Idle.holds /\ Idle.pc = "idle" /\ Idle.kind = "proxy" /\ Idle.cell = NoCell
BY DEF Shape, Idle, Monitoring, PreClaim, Driving

LEMMA ServeShape ==
    ASSUME NEW t
    PROVE  /\ Shape(Serve(t)) /\ ~Serve(t).holds /\ Serve(t).cell = NoCell
           /\ Serve(t).pc \in {"url", "kill"} /\ Serve(t).kind # "reap"
           /\ (Serve(t).kind = "proxy" => task[t].kind = "proxy")
<1>1. CASE task[t].kind = "proxy"
  BY <1>1 DEF Shape, Serve, Idle, Monitoring, PreClaim, Driving
<1>2. CASE task[t].kind # "proxy"
  BY <1>2 DEF Shape, Serve, Idle, Monitoring, PreClaim, Driving
<1>3. QED
  BY <1>1, <1>2

LEMMA SettledShape ==
    ASSUME TypeInv, NEW t \in Tasks, Shape(task[t]), task[t].holds, task[t].kind # "reap"
    PROVE  /\ Shape(Settled(t)) /\ ~Settled(t).holds /\ Settled(t).kind = task[t].kind
           /\ Settled(t).pc = "drop" /\ Settled(t).cell = task[t].cell
<1>1. task[t] \in Task
  BY StateTypes
<1>2. task[t].cell \in Tasks
  BY DEF Shape
<1> DEFINE r == Settled(t)
<1>3. /\ r.pc = "drop" /\ r.holds = FALSE /\ r.ret = "idle" /\ r.kind = task[t].kind
      /\ r.cell = task[t].cell
  BY <1>1 DEF Settled, Task
<1> HIDE DEF r
<1>4. Shape(r)
  BY <1>2, <1>3 DEF Shape, Monitoring, PreClaim, Driving
<1>5. QED
  BY <1>3, <1>4 DEF r

\* The parts of the record a move writes.
LEMMA GoFields ==
    ASSUME TypeInv, NEW t \in Tasks, NEW pc, Go(t, pc)
    PROVE  /\ task'[t].pc = pc /\ task'[t].kind = task[t].kind /\ task'[t].holds = task[t].holds
           /\ task'[t].cell = task[t].cell /\ task'[t].ret = task[t].ret
<1>1. task[t] \in Task
  BY StateTypes
<1>2. task'[t] = [task[t] EXCEPT !.pc = pc]
  BY SetIsOwn DEF Go
<1>3. QED
  BY <1>1, <1>2 DEF Task

LEMMA StopFields ==
    ASSUME TypeInv, NEW t \in Tasks, NEW ret, Stop(t, ret)
    PROVE  /\ task'[t].pc = "kill" /\ task'[t].kind = task[t].kind /\ task'[t].holds = task[t].holds
           /\ task'[t].cell = task[t].cell /\ task'[t].ret = ret
<1>1. task[t] \in Task
  BY StateTypes
<1>2. task'[t] = [task[t] EXCEPT !.pc = "kill", !.ret = ret]
  BY SetIsOwn DEF Stop
<1>3. QED
  BY <1>1, <1>2 DEF Task

LEMMA PcEngFields ==
    ASSUME TypeInv, NEW t \in Tasks, NEW pc, NEW e, Set(t, [task[t] EXCEPT !.pc = pc, !.eng = e])
    PROVE  /\ task'[t].pc = pc /\ task'[t].kind = task[t].kind /\ task'[t].holds = task[t].holds
           /\ task'[t].cell = task[t].cell /\ task'[t].ret = task[t].ret
<1>1. task[t] \in Task
  BY StateTypes
<1>2. task'[t] = [task[t] EXCEPT !.pc = pc, !.eng = e]
  BY SetIsOwn
<1>3. QED
  BY <1>1, <1>2 DEF Task

\* A move from one place to the next, in the terms that Shape is stated in.
MovesTo(t, pc) ==
    /\ task'[t].pc = pc /\ task'[t].kind = task[t].kind /\ task'[t].holds = task[t].holds
    /\ task'[t].cell = task[t].cell /\ task'[t].ret = task[t].ret

StopsFor(t, ret) ==
    /\ task'[t].pc = "kill" /\ task'[t].kind = task[t].kind /\ task'[t].holds = task[t].holds
    /\ task'[t].cell = task[t].cell /\ task'[t].ret = ret

LEMMA Fields ==
    ASSUME TypeInv, NEW t \in Tasks
    PROVE  /\ Set(t, Idle) => task'[t] = Idle
           /\ \A pc : Go(t, pc) => MovesTo(t, pc)
           /\ \A ret : Stop(t, ret) => StopsFor(t, ret)
           /\ \A pc, e : Set(t, [task[t] EXCEPT !.pc = pc, !.eng = e]) => MovesTo(t, pc)
           /\ \A pc : Set(t, [task[t] EXCEPT !.pc = pc]) => MovesTo(t, pc)
BY SetIsOwn, GoFields, StopFields, PcEngFields DEF MovesTo, StopsFor, Go

\* A request in flight that the drain waits for and that is past the drain flag.
Flies(r) == r.kind = "proxy" /\ r.pc \notin {"idle", "stream", "guarded"}

\* Nobody becomes a reaper, gets past the flag, or returns to before its claim.
Onward(t) ==
    /\ task[t].pc # "idle"
    /\ task'[t].kind = "reap" => task[t].kind = "reap"
    /\ Flies(task'[t]) => Flies(task[t]) \/ task[t].pc = "guarded"
    /\ task'[t].pc \in PreClaim /\ ~task'[t].holds => task[t].pc \in PreClaim /\ ~task[t].holds

LEMMA ShapeStays ==
    ASSUME TypeInv, NEW t \in Tasks, Shape(task[t]), Moving(t)
    PROVE  Shape(task'[t]) /\ Onward(t)
<1> USE DEF Shape, Onward, Flies, MovesTo, StopsFor, Monitoring, PreClaim, Driving
<1>1. CASE CheckFlag(t)
  <2>1. task[t].pc = "guarded"
    BY <1>1 DEF CheckFlag
  <2>2. task'[t] = Idle \/ MovesTo(t, "probe")
    BY <1>1, Fields DEF CheckFlag
  <2>3. QED
    BY <2>1, <2>2, IdleShape
<1>2. CASE ReadRow(t)
  <2>1. task[t].pc = "probe"
    BY <1>2 DEF ReadRow
  <2>2. \/ MovesTo(t, "health") \/ (task[t].holds /\ MovesTo(t, "failed"))
        \/ (~task[t].holds /\ MovesTo(t, "check"))
    BY <1>2, Fields DEF ReadRow
  <2>3. QED
    BY <2>1, <2>2, IdleShape
<1>3. CASE MarkCrashed(t)
  <2>1. task[t].pc = "stale"
    BY <1>3 DEF MarkCrashed
  <2>2. \/ task[t].holds /\ MovesTo(t, "failed")
        \/ ~task[t].holds /\ MovesTo(t, "crashed")
    BY <1>3, Fields DEF MarkCrashed
  <2>3. QED
    BY <2>1, <2>2, IdleShape
<1>4. CASE NoteCrash(t) \/ CheckFailed(t)
  <2>1. task[t].pc \in {"crashed", "check"}
    BY <1>4 DEF NoteCrash, CheckFailed
  <2>2. task'[t] = Idle \/ MovesTo(t, "giveup") \/ MovesTo(t, "claim")
    BY <1>4, Fields DEF NoteCrash, CheckFailed
  <2>3. QED
    BY <2>1, <2>2, IdleShape
<1>5. CASE StartEngine(t) \/ StartRefused(t)
  <2>1. task[t].pc \in {"start", "spawn"}
    BY <1>5 DEF StartEngine, StartRefused
  <2>2. \/ task'[t] = Idle \/ MovesTo(t, "spawn")
        \/ (task[t].holds /\ MovesTo(t, "probe"))
    BY <1>5, Fields DEF StartEngine, StartRefused
  <2>3. QED
    BY <2>1, <2>2, IdleShape
<1>6. CASE \E e \in Engines : SpawnEngine(t, e)
  <2>1. task[t].pc = "spawn"
    BY <1>6 DEF SpawnEngine
  <2>2. MovesTo(t, "insert")
    BY <1>6, Fields DEF SpawnEngine
  <2>3. QED
    BY <2>1, <2>2, IdleShape
<1>7. CASE InsertEngine(t)
  <2>1. task[t].pc = "insert"
    BY <1>7 DEF InsertEngine
  <2>2. \/ (task[t].holds /\ MovesTo(t, "poll"))
        \/ (~task[t].holds /\ MovesTo(t, "create"))
    BY <1>7, Fields DEF InsertEngine
  <2>3. QED
    BY <2>1, <2>2, IdleShape
<1>8. CASE PollHealth(t) \/ PollFails(t)
  <2>1. task[t].pc = "poll"
    BY <1>8 DEF PollHealth, PollFails
  <2>2. MovesTo(t, "persist") \/ StopsFor(t, "failed")
    BY <1>8, Fields DEF PollHealth, PollFails
  <2>3. QED
    BY <2>1, <2>2, IdleShape
<1>9. CASE PersistInstance(t)
  <2>1. task[t].pc = "persist"
    BY <1>9 DEF PersistInstance
  <2>2. MovesTo(t, "started") \/ MovesTo(t, "failed")
    BY <1>9, Fields DEF PersistInstance
  <2>3. QED
    BY <2>1, <2>2, IdleShape
<1>10. CASE Resolve(t) \/ Forward(t)
  <2>1. task[t].pc \in {"url", "post"}
    BY <1>10 DEF Resolve, Forward
  <2>2. task'[t] = Idle \/ MovesTo(t, "post") \/ MovesTo(t, "stream")
    BY <1>10, Fields DEF Resolve, Forward
  <2>3. QED
    BY <2>1, <2>2, IdleShape
<1>11. CASE KillEngine(t)
  <2>1. task[t].ret \in Rets
    BY StateTypes DEF Task, Rets
  <2>2. task'[t] = Idle \/ (MovesTo(t, task[t].ret) /\ task[t].ret # "idle")
    BY <1>11, Fields DEF KillEngine
  <2>3. QED
    BY <1>11, <2>1, <2>2, IdleShape DEF KillEngine, Rets
<1>12. CASE CheckForAdmin(t) \/ DeleteRow(t)
  <2>1. task[t].pc \in {"ahealth", "delete"}
    BY <1>12 DEF CheckForAdmin, DeleteRow
  <2>2. task'[t] = Idle \/ MovesTo(t, "delete") \/ MovesTo(t, "start")
    BY <1>12, Fields DEF CheckForAdmin, DeleteRow
  <2>3. QED
    BY <2>1, <2>2, IdleShape
<1>13. CASE ReadForAdmin(t)
  <2>1. task[t].kind \in {"start", "restart"} /\ task[t].pc = "read"
    BY <1>13 DEF ReadForAdmin, TypeInv, ReadsAreAdmins
  <2>2. \/ task'[t] = Idle \/ StopsFor(t, "delete") \/ MovesTo(t, "ahealth")
        \/ MovesTo(t, "start") \/ MovesTo(t, "delete")
    <3>1. CASE task[t].kind = "restart"
      BY <1>13, <3>1, Fields, Zenon DEF ReadForAdmin
    <3>2. CASE task[t].kind = "start"
      BY <1>13, <3>2, Fields DEF ReadForAdmin
    <3>3. QED
      BY <2>1, <3>1, <3>2
  <2>3. QED
    BY <2>1, <2>2, IdleShape
<1>14. CASE CreateRow(t) \/ ReadBack(t)
  <2>1. task[t].pc \in {"create", "readback"}
    BY <1>14 DEF CreateRow, ReadBack
  <2>2. \/ task'[t] = Idle \/ MovesTo(t, "readback") \/ MovesTo(t, "setrun")
        \/ StopsFor(t, "idle")
    BY <1>14, Fields DEF CreateRow, ReadBack
  <2>3. QED
    BY <2>1, <2>2, IdleShape
<1>15. CASE SetRunning(t) \/ UndoRow(t)
  <2>1. task[t].pc \in {"setrun", "undo"}
    BY <1>15 DEF SetRunning, UndoRow
  <2>2. task'[t] = Idle \/ StopsFor(t, "undo")
    BY <1>15, Fields DEF SetRunning, UndoRow
  <2>3. QED
    BY <2>1, <2>2, IdleShape
<1>16. CASE StopRow(t)
  <2>1. task[t].pc = "unrow"
    BY <1>16 DEF StopRow
  <2>2. task'[t] = Idle \/ StopsFor(t, "clear")
    BY <1>16, Fields DEF StopRow
  <2>3. QED
    BY <2>1, <2>2, IdleShape
<1>17. CASE ClearFailed(t) \/ ClearRow(t)
  <2>1. task[t].pc \in {"clearing", "clearrow"}
    BY <1>17 DEF ClearFailed, ClearRow
  <2>2. task'[t] = Idle \/ MovesTo(t, "clearrow")
    BY <1>17, Fields DEF ClearFailed, ClearRow
  <2>3. QED
    BY <2>1, <2>2, IdleShape
<1>18. CASE Monitor(t)
  <2>1. task[t].pc = "monitor"
    BY <1>18 DEF Monitor
  <2>2. MovesTo(t, "watch") \/ MovesTo(t, "candidates")
    BY <1>18, Fields DEF Monitor
  <2>3. QED
    BY <2>1, <2>2, IdleShape
<1>19. CASE Watch(t) \/ NoteState(t)
  <2>1. task[t].pc \in {"watch", "note"}
    BY <1>19 DEF Watch, NoteState
  <2>2. MovesTo(t, "note") \/ MovesTo(t, "candidates")
    BY <1>19, Fields DEF Watch, NoteState
  <2>3. QED
    BY <2>1, <2>2, IdleShape
<1>20. CASE Candidates(t) \/ Drain(t)
  <2>1. task[t].pc \in {"candidates", "drain"}
    BY <1>20 DEF Candidates, Drain
  <2>2. task'[t] = Idle \/ MovesTo(t, "drain") \/ MovesTo(t, "draining")
    BY <1>20, Fields DEF Candidates, Drain
  <2>3. QED
    BY <2>1, <2>2, IdleShape
<1>21. CASE DrainTimeout(t)
  <2>1. task[t].pc = "draining"
    BY <1>21 DEF DrainTimeout
  <2>2. StopsFor(t, "mark")
    BY <1>21, Fields DEF DrainTimeout
  <2>3. QED
    BY <2>1, <2>2, IdleShape
<1>22. CASE MarkStopped(t)
  <2>1. task[t].pc = "mark"
    BY <1>22 DEF MarkStopped
  <2>2. MovesTo(t, "clear")
    BY <1>22, Fields DEF MarkStopped
  <2>3. QED
    BY <2>1, <2>2, IdleShape
<1>23. CASE ClearTracking(t) \/ Forget(t) \/ StreamEnds(t)
  <2>1. task[t].pc \in {"clear", "forget", "stream"}
    BY <1>23 DEF ClearTracking, Forget, StreamEnds
  <2>2. task'[t] = Idle
    BY <1>23, Fields DEF ClearTracking, Forget, StreamEnds
  <2>3. QED
    BY <2>1, <2>2, IdleShape
<1>24. QED
  BY <1>1, <1>2, <1>3, <1>4, <1>5, <1>6, <1>7, <1>8, <1>9, <1>10, <1>11, <1>12, <1>13, <1>14, <1>15, <1>16, <1>17, <1>18, <1>19, <1>20, <1>21, <1>22, <1>23 DEF Moving

\* The steps that change what a task holds or is attached to.
LEMMA HoldingSteps ==
    ASSUME TypeInv, NEW t \in Tasks, Shape(task[t])
    PROVE  /\ CheckHealth(t) =>
                  \/ task'[t] = Serve(t) \/ MovesTo(t, "stale")
                  \/ (task[t].holds /\ MovesTo(t, "started"))
           /\ PersistFailed(t) =>
                  \/ task[t].holds /\ task'[t] = Settled(t)
                  \/ ~task[t].holds /\ MovesTo(t, "forget")
           /\ StartSucceeds(t) => task'[t] = Settled(t)
           /\ StartFails(t) => task'[t] = Settled(t) \/ MovesTo(t, "giveup")
           /\ DropCell(t) => task'[t] = Idle \/ task'[t] = Serve(t)
<1>1. /\ Set(t, Serve(t)) => task'[t] = Serve(t)
      /\ Set(t, Settled(t)) => task'[t] = Settled(t)
  BY SetIsOwn
<1>2. QED
  BY <1>1, Fields DEF CheckHealth, PersistFailed, StartSucceeds, StartFails, DropCell

Joins(t, c) == /\ task'[t].pc = "wait" /\ task'[t].cell = c /\ task'[t].kind = task[t].kind
               /\ task'[t].holds = task[t].holds

TakesOver(t) == /\ task'[t].pc = "start" /\ task'[t].holds /\ task'[t].kind = task[t].kind
                /\ task'[t].cell = task[t].cell

LEMMA ClaimFields ==
    ASSUME TypeInv, NEW t \in Tasks, Claim(t)
    PROVE  \E c \in Tasks :
               /\ c = (IF cell = NoCell THEN t ELSE cell)
               /\ Joins(t, c) /\ cell' = c
               /\ cells' = IF cell = NoCell THEN [cells EXCEPT ![t] = "new"] ELSE cells
<1> DEFINE c == IF cell = NoCell THEN t ELSE cell
<1>1. c \in Tasks
  BY StateTypes
<1>2. /\ Set(t, [task[t] EXCEPT !.pc = "wait", !.cell = c]) /\ cell' = c
      /\ cells' = IF cell = NoCell THEN [cells EXCEPT ![t] = "new"] ELSE cells
  BY DEF Claim
<1> HIDE DEF c
<1>3. task'[t] = [task[t] EXCEPT !.pc = "wait", !.cell = c] /\ task[t] \in Task
  BY <1>2, SetIsOwn, StateTypes
<1>4. Joins(t, c)
  BY <1>3 DEF Joins, Task
<1>5. QED
  BY <1>1, <1>2, <1>4 DEF c

LEMMA GetFields ==
    ASSUME TypeInv, NEW t \in Tasks, GetOrInit(t)
    PROVE  \/ /\ TakesOver(t) /\ cells[task[t].cell] = "new"
              /\ cells' = [cells EXCEPT ![task[t].cell] = "busy"]
           \/ MovesTo(t, "drop") /\ UNCHANGED cells
<1>1. task[t] \in Task
  BY StateTypes
<1>2. Set(t, [task[t] EXCEPT !.pc = "start", !.holds = TRUE]) => TakesOver(t)
  <2>1. Set(t, [task[t] EXCEPT !.pc = "start", !.holds = TRUE])
        => task'[t] = [task[t] EXCEPT !.pc = "start", !.holds = TRUE]
    BY SetIsOwn
  <2>2. QED
    BY <1>1, <2>1 DEF TakesOver, Task
<1>3. QED
  BY <1>2, Fields DEF GetOrInit

LEMMA DrainedFields ==
    ASSUME TypeInv, NEW t \in Tasks, Drained(t)
    PROVE  /\ task'[t].pc = "kill" /\ task'[t].ret = "mark" /\ task'[t].holds
           /\ task'[t].kind = task[t].kind /\ task'[t].cell = task[t].cell
<1>1. /\ task[t] \in Task
      /\ task'[t] = [task[t] EXCEPT !.pc = "kill", !.ret = "mark", !.holds = TRUE]
  BY StateTypes, SetIsOwn DEF Drained
<1>2. QED
  BY <1>1 DEF Task

LEMMA ShapeStep ==
    ASSUME TypeInv, NEW t \in Tasks, Shape(task[t]), Step(t)
    PROVE  Shape(task'[t]) /\ Onward(t)
<1>1. CASE Moving(t)
  BY <1>1, ShapeStays
<1>2. CASE CheckHealth(t)
  <2>1. task[t].pc = "health"
    BY <1>2 DEF CheckHealth
  <2>2. QED
    BY <1>2, <2>1, HoldingSteps, ServeShape DEF Shape, Onward, Flies, MovesTo, Monitoring, PreClaim, Driving
<1>3. CASE PersistFailed(t) \/ StartFails(t)
  <2>1. task[t].pc \in {"giveup", "failed"} /\ task[t].kind # "reap"
        /\ (StartFails(t) => task[t].holds)
    BY <1>3 DEF PersistFailed, StartFails, Shape, Driving, Monitoring
  <2>2. QED
    BY <1>3, <2>1, HoldingSteps, SettledShape DEF Shape, Onward, Flies, MovesTo, Monitoring, PreClaim, Driving
<1>4. CASE StartSucceeds(t)
  <2>1. task[t].pc = "started" /\ task[t].holds /\ task[t].kind # "reap"
    BY <1>4 DEF StartSucceeds, Shape, Driving, Monitoring
  <2>2. QED
    BY <1>4, <2>1, HoldingSteps, SettledShape DEF Onward, Flies, PreClaim
<1>5. CASE DropCell(t)
  <2>1. task[t].pc = "drop"
    BY <1>5 DEF DropCell
  <2>2. QED
    BY <1>5, <2>1, HoldingSteps, IdleShape, ServeShape DEF Onward, Flies, PreClaim
<1>6. CASE Claim(t)
  <2>1. task[t].pc = "claim"
    BY <1>6 DEF Claim
  <2>2. QED
    BY <1>6, <2>1, ClaimFields DEF Joins, Shape, Onward, Flies, Monitoring, PreClaim, Driving
<1>7. CASE GetOrInit(t)
  <2>1. task[t].pc = "wait"
    BY <1>7 DEF GetOrInit
  <2>2. QED
    BY <1>7, <2>1, GetFields DEF TakesOver, MovesTo, Shape, Onward, Flies, Monitoring, PreClaim, Driving
<1>8. CASE Drained(t)
  <2>1. task[t].pc = "draining"
    BY <1>8 DEF Drained
  <2>2. QED
    BY <1>8, <2>1, DrainedFields DEF Shape, Onward, Flies, Monitoring, PreClaim, Driving
<1>9. QED
  BY <1>1, <1>2, <1>3, <1>4, <1>5, <1>6, <1>7, <1>8 DEF Step, Moving

\* What a task becomes when it begins, and when its future is dropped.
Timed == [Idle EXCEPT !.kind = "validate", !.pc = "kill", !.ret = "mark"]

LEMMA TimedShape == Shape(Timed) /\ ~Timed.holds /\ Timed.kind = "validate" /\ Timed.cell = NoCell
                    /\ Timed.pc = "kill"
BY DEF Timed, Idle, Shape, Monitoring, PreClaim, Driving

LEMMA BeginFields ==
    ASSUME TypeInv, NEW t \in Tasks, NEW k \in Kinds, Begin(t, k)
    PROVE  /\ OnlyOwn(t) /\ task'[t].kind = k /\ task'[t].pc = First(k)
           /\ ~task'[t].holds /\ task'[t].cell = NoCell
           /\ task[t].pc = "idle" /\ Shape(task'[t])
           /\ (k = "reap" => \A u \in Tasks : task[u].pc # "idle" => task[u].kind # "reap")
           /\ cell # t /\ \A u \in Tasks : task[u].cell # t
           /\ UNCHANGED Others
<1>1. OnlyOwn(t) /\ task'[t] = [Idle EXCEPT !.kind = k, !.pc = First(k)]
  BY SetIsOwn DEF Begin
<1> DEFINE f == First(k)
<1>2. k \in AllKinds /\ f \in {"guarded", "probe", "read", "unrow", "clearing", "monitor"}
      /\ (f = "monitor" <=> k = "reap")
  BY KindsAssumption DEF First, AllKinds
<1> HIDE DEF f
<1>3. task'[t] = [pc |-> f, kind |-> k, eng |-> NoEngine, cell |-> NoCell, holds |-> FALSE,
                  ret |-> "idle"]
  BY <1>1 DEF Idle, f
<1>4. Shape(task'[t])
  BY <1>2, <1>3 DEF Shape, Monitoring, PreClaim, Driving
<1>5. UNCHANGED Others
  BY DEF Begin, Others
<1>6. task[t].pc = "idle" /\ cell # t /\ \A u \in Tasks : task[u].cell # t
  BY DEF Begin, CellUnused
<1>7. k = "reap" => \A u \in Tasks : task[u].pc # "idle" => task[u].kind # "reap"
  BY DEF Begin
<1>8. /\ task'[t].kind = k /\ task'[t].pc = f /\ task'[t].holds = FALSE
      /\ task'[t].cell = NoCell
  BY <1>3
<1>9. QED
  BY <1>1, <1>4, <1>5, <1>6, <1>7, <1>8 DEF f

-----------------------------------------------------------------------------
(* One closure per cell *)

Drives(t) == task[t].holds /\ task[t].kind # "reap"

Busy == \A t \in Tasks : Drives(t) => cells[task[t].cell] = "busy"

OneDriver == \A t, u \in Tasks : Drives(t) /\ Drives(u) /\ task[t].cell = task[u].cell => t = u

\* A cell is named by its creator: until a task has claimed, nobody uses its name.
Fresh == \A t \in Tasks :
    task[t].pc \in PreClaim /\ ~task[t].holds => cell # t /\ \A u \in Tasks : task[u].cell # t

HoldInv == Shapes /\ Busy /\ OneDriver /\ Fresh

\* What a step of t may do to the cells: nothing, take a new one, settle its own, or
\* renew one that nobody else is attached to.
KeepsCells(t) == cells' = cells /\ (Drives(t)' => Drives(t) /\ task'[t].cell = task[t].cell)

TakesCell(t) == /\ cells[task[t].cell] = "new" /\ task'[t].cell = task[t].cell
                /\ cells' = [cells EXCEPT ![task[t].cell] = "busy"]

SettlesCell(t) == /\ Drives(t) /\ ~Drives(t)'
                  /\ \E x : cells' = [cells EXCEPT ![task[t].cell] = x]

RenewsCell(t) == /\ ~Drives(t)'
                 /\ \E c \in Tasks : /\ cells' = [cells EXCEPT ![c] = "new"]
                                     /\ \A u \in Tasks \ {t} : task[u].cell # c

CellChange(t) == KeepsCells(t) \/ TakesCell(t) \/ SettlesCell(t) \/ RenewsCell(t)

LEMMA DriversStay ==
    ASSUME TypeInv, HoldInv, NEW t \in Tasks, OnlyOwn(t), CellChange(t), Shape(task'[t])
    PROVE  Busy' /\ OneDriver'
<1>1. \A u \in Tasks : Drives(u) => task[u].cell \in Tasks /\ cells[task[u].cell] = "busy"
  BY DEF HoldInv, Shapes, Shape, Busy, Drives
<1>2. Drives(t)' => task'[t].cell \in Tasks
  BY DEF Shape, Drives
<1>3. \A u \in Tasks \ {t} : (Drives(u)' <=> Drives(u)) /\ task'[u] = task[u]
  BY DEF OnlyOwn, Drives
<1>4. cells \in [Tasks -> {"new", "busy", "ok", "err"}]
  BY StateTypes
<1>5. OneDriver
  BY DEF HoldInv
<1>6. CASE KeepsCells(t)
  BY <1>1, <1>3, <1>5, <1>6 DEF KeepsCells, Busy, OneDriver
<1>7. CASE TakesCell(t)
  <2>1. \A u \in Tasks \ {t} : Drives(u) => task[u].cell # task[t].cell
    BY <1>1, <1>7 DEF TakesCell
  <2>2. Busy'
    <3> SUFFICES ASSUME NEW u \in Tasks, Drives(u)' PROVE cells'[task'[u].cell] = "busy"
      BY DEF Busy
    <3>1. CASE u = t
      BY <1>2, <1>4, <1>7, <3>1 DEF TakesCell
    <3>2. CASE u # t
      BY <1>1, <1>3, <1>4, <1>7, <2>1, <3>2 DEF TakesCell
    <3>3. QED
      BY <3>1, <3>2
  <2>3. OneDriver'
    BY <1>3, <1>5, <1>7, <2>1 DEF OneDriver, TakesCell
  <2>4. QED
    BY <2>2, <2>3
<1>8. CASE SettlesCell(t)
  <2>1. \A u \in Tasks \ {t} : Drives(u) => task[u].cell # task[t].cell
    BY <1>5, <1>8 DEF SettlesCell, OneDriver
  <2>2. PICK x : cells' = [cells EXCEPT ![task[t].cell] = x]
    BY <1>8 DEF SettlesCell
  <2>3. Busy'
    BY <1>1, <1>3, <1>4, <1>8, <2>1, <2>2 DEF Busy, SettlesCell
  <2>4. OneDriver'
    BY <1>3, <1>5, <1>8 DEF OneDriver, SettlesCell
  <2>5. QED
    BY <2>3, <2>4
<1>9. CASE RenewsCell(t)
  <2>1. PICK c \in Tasks : /\ cells' = [cells EXCEPT ![c] = "new"]
                           /\ \A u \in Tasks \ {t} : task[u].cell # c
    BY <1>9 DEF RenewsCell
  <2>2. Busy'
    BY <1>1, <1>3, <1>4, <1>9, <2>1 DEF Busy, RenewsCell
  <2>3. OneDriver'
    BY <1>3, <1>5, <1>9 DEF OneDriver, RenewsCell
  <2>4. QED
    BY <2>2, <2>3
<1>10. QED
  BY <1>6, <1>7, <1>8, <1>9 DEF CellChange

\* Attachment: a cell is named only by its creator's claim.
Attaches(t) == /\ task'[t].cell \in {task[t].cell, NoCell, cell, t}
               /\ cell' \in {cell, NoCell, t}
               /\ (cell' = t \/ task'[t].cell = t) /\ cell # t /\ task[t].cell # t
                  => task[t].pc = "claim" /\ task'[t].pc = "wait"

LEMMA FreshStays ==
    ASSUME TypeInv, HoldInv, NEW t \in Tasks, OnlyOwn(t), Attaches(t), Onward(t)
    PROVE  Fresh'
<1> SUFFICES ASSUME NEW u \in Tasks, task'[u].pc \in PreClaim, ~task'[u].holds,
                    NEW v \in Tasks
             PROVE  cell' # u /\ task'[v].cell # u
  BY DEF Fresh
<1>1. task[u].pc \in PreClaim /\ ~task[u].holds
  BY DEF OnlyOwn, Onward
<1>2. cell # u /\ \A w \in Tasks : task[w].cell # u
  BY <1>1 DEF HoldInv, Fresh
<1>3. u # NoCell
  BY NamesAssumption
<1>4. CASE u = t
  <2>1. task'[t].pc # "wait"
    BY <1>4 DEF PreClaim
  <2>2. cell' # t /\ task'[t].cell # t
    BY <1>2, <1>4, <2>1 DEF Attaches
  <2>3. QED
    BY <1>2, <1>4, <2>2 DEF OnlyOwn
<1>5. CASE u # t
  BY <1>2, <1>3, <1>5 DEF Attaches, OnlyOwn
<1>6. QED
  BY <1>4, <1>5

LEMMA MovingKeepsCells ==
    ASSUME TypeInv, HoldInv, NEW t \in Tasks, Moving(t)
    PROVE  KeepsCells(t) /\ Attaches(t)
<1>1. Moves(t)
  BY MovingSteps
<1>2. \/ task'[t] = Idle
      \/ /\ task'[t].kind = task[t].kind /\ task'[t].holds = task[t].holds
         /\ task'[t].cell = task[t].cell
  BY <1>1, Fields DEF Moves, MovesTo, StopsFor
<1>3. cells' = cells /\ cell' \in {cell, NoCell}
  <2>1. CASE \/ CheckFlag(t) \/ ReadRow(t) \/ MarkCrashed(t) \/ NoteCrash(t) \/ CheckFailed(t)
             \/ StartEngine(t) \/ StartRefused(t) \/ (\E e \in Engines : SpawnEngine(t, e))
             \/ InsertEngine(t) \/ PollHealth(t) \/ PollFails(t) \/ PersistInstance(t)
    BY <2>1 DEF CheckFlag, ReadRow, MarkCrashed, NoteCrash, CheckFailed, StartEngine,
                StartRefused, SpawnEngine, InsertEngine, PollHealth, PollFails, PersistInstance
  <2>2. CASE \/ Resolve(t) \/ Forward(t) \/ StreamEnds(t) \/ KillEngine(t) \/ ReadForAdmin(t)
             \/ CheckForAdmin(t) \/ DeleteRow(t) \/ CreateRow(t) \/ ReadBack(t) \/ SetRunning(t)
    BY <2>2 DEF Resolve, Forward, StreamEnds, KillEngine, ReadForAdmin, CheckForAdmin,
                DeleteRow, CreateRow, ReadBack, SetRunning
  <2>3. CASE \/ UndoRow(t) \/ StopRow(t) \/ ClearFailed(t) \/ ClearRow(t) \/ Monitor(t)
             \/ Watch(t) \/ NoteState(t) \/ Candidates(t) \/ Drain(t)
    BY <2>3 DEF UndoRow, StopRow, ClearFailed, ClearRow, Monitor, Watch, NoteState,
                Candidates, Drain
  <2>4. CASE DrainTimeout(t) \/ MarkStopped(t) \/ ClearTracking(t) \/ Forget(t)
    BY <2>4 DEF DrainTimeout, MarkStopped, ClearTracking, Forget
  <2>5. QED
    BY <2>1, <2>2, <2>3, <2>4 DEF Moving
<1>4. QED
  BY <1>2, <1>3, IdleShape, NamesAssumption DEF KeepsCells, Attaches, Drives

\* A step of a task, in those terms.
LEMMA StepOnCells ==
    ASSUME TypeInv, HoldInv, NEW t \in Tasks, Step(t)
    PROVE  CellChange(t) /\ Attaches(t)
<1>0. Shape(task[t]) /\ cell \in Tasks \cup {NoCell}
  BY StateTypes DEF HoldInv, Shapes
<1> USE DEF Attaches, Drives
<1>1. CASE Moving(t)
  BY <1>1, MovingKeepsCells DEF CellChange
<1>2. CASE CheckHealth(t)
  <2>1. cells' = cells /\ cell' = cell /\ task[t].pc = "health" /\ task[t].kind # "reap"
    BY <1>0, <1>2 DEF CheckHealth, Shape, Monitoring
  <2>2. \/ task'[t].cell = NoCell /\ ~task'[t].holds
        \/ task'[t].cell = task[t].cell /\ task'[t].kind = task[t].kind /\ task'[t].holds = task[t].holds
    BY <1>0, <1>2, HoldingSteps, ServeShape DEF MovesTo
  <2>3. QED
    BY <2>1, <2>2, NamesAssumption DEF CellChange, KeepsCells
<1>3. CASE PersistFailed(t) \/ StartFails(t) \/ StartSucceeds(t)
  <2>1. cell' = cell /\ task[t].pc \in {"giveup", "failed", "started"} /\ task[t].kind # "reap"
    BY <1>0, <1>3 DEF PersistFailed, StartFails, StartSucceeds, Shape, Monitoring
  <2>2. StartFails(t) \/ StartSucceeds(t) => task[t].holds
    BY <1>0 DEF StartFails, StartSucceeds, Shape, Driving
  <2>3. CASE task[t].holds /\ task'[t] = Settled(t)
    <3>1. ~task'[t].holds /\ task'[t].cell = task[t].cell
      BY <1>0, <2>1, <2>3, SettledShape
    <3>2. cells' = cells \/ \E x : cells' = [cells EXCEPT ![task[t].cell] = x]
      BY <1>3 DEF PersistFailed, StartFails, StartSucceeds
    <3>3. QED
      BY <2>1, <2>3, <3>1, <3>2 DEF CellChange, SettlesCell, KeepsCells
  <2>4. CASE MovesTo(t, "forget") \/ MovesTo(t, "giveup")
    <3>1. task'[t].pc # "drop" /\ task'[t].cell = task[t].cell /\ task'[t].holds = task[t].holds
          /\ task'[t].kind = task[t].kind
      BY <2>4 DEF MovesTo
    <3>2. ~Set(t, Settled(t))
      <4>1. SUFFICES ASSUME Set(t, Settled(t)) PROVE FALSE
        OBVIOUS
      <4>2. task'[t] = Settled(t) /\ task[t] \in Task
        BY <4>1, SetIsOwn, StateTypes
      <4>3. Settled(t).pc = "drop"
        BY <4>2 DEF Settled, Task
      <4>4. QED
        BY <3>1, <4>2, <4>3
    <3>3. cells' = cells
      BY <1>3, <3>2 DEF PersistFailed, StartFails, StartSucceeds
    <3>4. QED
      BY <2>1, <3>1, <3>3 DEF CellChange, KeepsCells
  <2>5. QED
    BY <1>0, <1>3, <2>2, <2>3, <2>4, HoldingSteps
<1>4. CASE DropCell(t)
  <2>1. /\ task[t].pc = "drop" /\ cell' = NoCell /\ task[t].cell \in Tasks
        /\ \/ cells' = cells
           \/ /\ cells' = [cells EXCEPT ![task[t].cell] = "new"]
              /\ \A u \in Tasks \ {t} : task[u].cell # task[t].cell
    BY <1>0, <1>4 DEF DropCell, Shape
  <2>2. ~task'[t].holds /\ task'[t].cell = NoCell
    BY <1>0, <1>4, HoldingSteps, IdleShape, ServeShape
  <2>3. QED
    BY <2>1, <2>2, NamesAssumption DEF CellChange, KeepsCells, RenewsCell
<1>5. CASE Claim(t)
  <2>1. task[t].pc = "claim" /\ ~task[t].holds
    BY <1>0, <1>5 DEF Claim, Shape
  <2>2. cell # t /\ \A u \in Tasks : task[u].cell # t
    BY <2>1 DEF HoldInv, Fresh, PreClaim
  <2>3. PICK c \in Tasks : /\ c = (IF cell = NoCell THEN t ELSE cell)
                           /\ Joins(t, c) /\ cell' = c
                           /\ cells' = IF cell = NoCell THEN [cells EXCEPT ![t] = "new"] ELSE cells
    BY <1>5, ClaimFields
  <2>4. /\ task'[t].pc = "wait" /\ task'[t].cell = c /\ ~task'[t].holds
    BY <2>1, <2>3 DEF Joins
  <2>5. Attaches(t)
    BY <2>1, <2>3, <2>4
  <2>6. CellChange(t)
    BY <2>2, <2>3, <2>4 DEF CellChange, KeepsCells, RenewsCell
  <2>7. QED
    BY <2>5, <2>6
<1>6. CASE GetOrInit(t)
  <2>1. cell' = cell
    BY <1>6 DEF GetOrInit
  <2>2. QED
    BY <1>6, <2>1, GetFields DEF CellChange, TakesCell, KeepsCells, TakesOver, MovesTo
<1>7. CASE Drained(t)
  <2>1. cells' = cells /\ cell' = cell /\ task[t].kind = "reap"
    BY <1>0, <1>7 DEF Drained, Shape, Monitoring
  <2>2. QED
    BY <1>7, <2>1, DrainedFields DEF CellChange, KeepsCells
<1>8. QED
  BY <1>1, <1>2, <1>3, <1>4, <1>5, <1>6, <1>7 DEF Step, Moving

LEMMA StepHolds ==
    ASSUME TypeInv, HoldInv, NEW t \in Tasks, Step(t)
    PROVE  HoldInv'
<1>1. OnlyOwn(t) /\ Shape(task'[t]) /\ Onward(t) /\ CellChange(t) /\ Attaches(t)
  BY StepIsOwn, ShapeStep, StepOnCells DEF HoldInv, Shapes
<1>2. Shapes'
  BY <1>1 DEF HoldInv, Shapes, OnlyOwn
<1>3. QED
  BY <1>1, <1>2, DriversStay, FreshStays DEF HoldInv

\* A dropped future settles the cell whose closure it ran.
LEMMA AbandonOnCells ==
    ASSUME TypeInv, HoldInv, NEW t \in Tasks, Abandon(t), task[t].kind # "reap",
           cell' = cell, ~task'[t].holds, task'[t].cell = NoCell
    PROVE  CellChange(t) /\ Attaches(t)
<1>1. CASE task[t].holds
  BY <1>1, NamesAssumption DEF Abandon, CellChange, SettlesCell, Drives, Attaches
<1>2. CASE ~task[t].holds
  BY <1>2, NamesAssumption DEF Abandon, CellChange, KeepsCells, Drives, Attaches
<1>3. QED
  BY <1>1, <1>2

LEMMA EnvironmentHolds == ASSUME TypeInv, HoldInv, Environment PROVE HoldInv'
<1>1. ASSUME NEW t \in Tasks, Hangup(t) PROVE HoldInv'
  <2>1. /\ task[t].pc # "idle" /\ task[t].kind # "reap" /\ Abandon(t) /\ cell' = cell
        /\ OnlyOwn(t) /\ task'[t] = Idle
    BY <1>1, SetIsOwn, BoundsAssumption DEF Hangup
  <2>2. CellChange(t) /\ Attaches(t) /\ Shape(task'[t]) /\ Onward(t)
    BY <2>1, AbandonOnCells, IdleShape DEF Onward, Flies, PreClaim
  <2>3. Shapes'
    BY <2>1, <2>2 DEF HoldInv, Shapes, OnlyOwn
  <2>4. QED
    BY <2>1, <2>2, <2>3, DriversStay, FreshStays DEF HoldInv
<1>2. ASSUME NEW t \in Tasks, ValidationTimeout(t) PROVE HoldInv'
  <2>1. /\ task[t].pc # "idle" /\ task[t].kind # "reap" /\ Abandon(t) /\ cell' = cell
        /\ OnlyOwn(t) /\ task'[t] = Timed
    BY <1>2, SetIsOwn DEF ValidationTimeout, Timed
  <2>2. CellChange(t) /\ Attaches(t) /\ Shape(task'[t]) /\ Onward(t)
    BY <2>1, AbandonOnCells, TimedShape DEF Onward, Flies, PreClaim
  <2>3. Shapes'
    BY <2>1, <2>2 DEF HoldInv, Shapes, OnlyOwn
  <2>4. QED
    BY <2>1, <2>2, <2>3, DriversStay, FreshStays DEF HoldInv
<1>3. ASSUME NEW t \in Tasks, NEW k \in Kinds, Begin(t, k) PROVE HoldInv'
  <2>1. /\ OnlyOwn(t) /\ ~task'[t].holds /\ task'[t].cell = NoCell /\ Shape(task'[t])
        /\ cell # t /\ (\A u \in Tasks : task[u].cell # t)
        /\ cells' = cells /\ cell' = cell
    BY <1>3, BeginFields DEF Others
  <2>2. Shapes'
    BY <2>1 DEF HoldInv, Shapes, OnlyOwn
  <2>3. CellChange(t)
    BY <2>1 DEF CellChange, KeepsCells, Drives
  <2>4. Fresh'
    <3> SUFFICES ASSUME NEW u \in Tasks, task'[u].pc \in PreClaim, ~task'[u].holds,
                        NEW v \in Tasks
                 PROVE  cell' # u /\ task'[v].cell # u
      BY DEF Fresh
    <3>1. cell # u /\ \A w \in Tasks : task[w].cell # u
      <4>1. CASE u = t
        BY <2>1, <4>1
      <4>2. CASE u # t
        BY <2>1, <4>2 DEF OnlyOwn, HoldInv, Fresh
      <4>3. QED
        BY <4>1, <4>2
    <3>2. QED
      BY <2>1, <3>1, NamesAssumption DEF OnlyOwn
  <2>5. QED
    BY <2>1, <2>2, <2>3, <2>4, DriversStay DEF HoldInv
<1>4. ASSUME NEW e \in Engines, NEW s, EngineChanges(e, s) PROVE HoldInv'
  BY <1>4 DEF EngineChanges, HoldInv, Shapes, Busy, OneDriver, Fresh, Drives
<1>5. CASE CrashExpires
  BY <1>5 DEF CrashExpires, HoldInv, Shapes, Busy, OneDriver, Fresh, Drives
<1>6. CASE Crash
  <2>1. cell' = NoCell /\ \A t \in Tasks : task'[t] = Idle
    BY <1>6 DEF Crash
  <2>2. QED
    BY <2>1, IdleShape, NamesAssumption DEF HoldInv, Shapes, Busy, OneDriver, Fresh, Drives, PreClaim
<1>7. QED
  BY <1>1, <1>2, <1>3, <1>4, <1>5, <1>6 DEF Environment

LEMMA HoldInit == Init => HoldInv
<1> SUFFICES ASSUME Init PROVE HoldInv
  OBVIOUS
<1>1. cell = NoCell /\ \A t \in Tasks : task[t] = Idle
  BY DEF Init
<1>2. QED
  BY <1>1, IdleShape, NamesAssumption DEF HoldInv, Shapes, Busy, OneDriver, Fresh, Drives, PreClaim

LEMMA HoldNext == TypeInv /\ HoldInv /\ [Next]_vars => HoldInv'
<1> SUFFICES ASSUME TypeInv, HoldInv, [Next]_vars PROVE HoldInv'
  OBVIOUS
<1>1. CASE UNCHANGED vars
  BY <1>1 DEF vars, HoldInv, Shapes, Busy, OneDriver, Fresh, Drives
<1>2. CASE Next
  BY <1>2, StepHolds, EnvironmentHolds DEF Next
<1>3. QED
  BY <1>1, <1>2

LEMMA HoldInvariant == Spec => []HoldInv
BY HoldInit, HoldNext, TypeInvariant, PTL DEF Spec

\* One closure per cell: the start that a cell stands for is driven by one task at a
\* time (auto_start.rs, IN_FLIGHT and get_or_init), also when a handler that drove it was
\* dropped or the validation timed out, and whatever cell a waiter removed.
THEOREM RuntimeOneHolderPerCell == Spec => []OneHolderPerCell
<1>1. HoldInv => OneHolderPerCell
  BY DEF HoldInv, OneDriver, Drives, OneHolderPerCell
<1>2. QED
  BY <1>1, HoldInvariant, PTL

-----------------------------------------------------------------------------
(* The drain *)

Reaps(r) == r.kind = "reap" /\ r.pc # "idle"

OneReaper == \A t, u \in Tasks : Reaps(task[t]) /\ Reaps(task[u]) => t = u

\* A reaper that stops the engine because its drain found nothing in flight.
Stopping(r) == r.kind = "reap" /\ r.pc = "kill" /\ r.holds

NobodyFlies == \A t, u \in Tasks : Stopping(task[t]) /\ draining => ~Flies(task[u])

DrainInv == OneReaper /\ NobodyFlies

\* The reaper comes to its stop() by the drain; the flag is raised by a reaper.
LEMMA StoppingByDrain ==
    ASSUME TypeInv, NEW t \in Tasks, Shape(task[t]), Step(t), Stopping(task'[t])
    PROVE  Drained(t)
<1>1. task[t].kind = "reap" /\ task[t].pc # "idle"
  BY ShapeStep DEF Onward, Stopping
<1>2. CASE Moving(t)
  <2>1. \/ task'[t] = Idle
        \/ \E pc : MovesTo(t, pc)
        \/ \E ret : StopsFor(t, ret)
    BY <1>2, MovingSteps, Fields DEF Moves
  <2>2. task[t].holds
    BY <2>1, IdleShape DEF Stopping, MovesTo, StopsFor
  <2>3. task[t].pc \in {"kill", "mark", "clear"} /\ (task[t].pc = "kill" => task[t].ret = "mark")
    BY <1>1, <2>2 DEF Shape
  <2>4. CASE task[t].pc = "kill"
    <3>1. KillEngine(t)
      BY <1>2, <2>4, PcsNamed DEF Moving, CheckFlag, ReadRow, MarkCrashed, NoteCrash, CheckFailed,
         StartEngine, StartRefused, SpawnEngine, InsertEngine, PollHealth, PollFails,
         PersistInstance, Resolve, Forward, StreamEnds, ReadForAdmin, CheckForAdmin, DeleteRow,
         CreateRow, ReadBack, SetRunning, UndoRow, StopRow, ClearFailed, ClearRow, Monitor, Watch,
         NoteState, Candidates, Drain, DrainTimeout, MarkStopped, ClearTracking, Forget
    <3>2. task'[t] = Idle \/ MovesTo(t, "mark")
      BY <2>3, <2>4, <3>1, Fields DEF KillEngine
    <3>3. QED
      BY <3>2, IdleShape DEF Stopping, MovesTo
  <2>5. CASE task[t].pc # "kill"
    <3>1. MarkStopped(t) \/ ClearTracking(t)
      BY <1>2, <2>3, <2>5 DEF Moving, CheckFlag, ReadRow, MarkCrashed, NoteCrash, CheckFailed,
         StartEngine, StartRefused, SpawnEngine, InsertEngine, PollHealth, PollFails, KillEngine,
         PersistInstance, Resolve, Forward, StreamEnds, ReadForAdmin, CheckForAdmin, DeleteRow,
         CreateRow, ReadBack, SetRunning, UndoRow, StopRow, ClearFailed, ClearRow, Monitor, Watch,
         NoteState, Candidates, Drain, DrainTimeout, Forget
    <3>2. task'[t] = Idle \/ MovesTo(t, "clear")
      BY <3>1, Fields DEF MarkStopped, ClearTracking
    <3>3. QED
      BY <3>2, IdleShape DEF Stopping, MovesTo
  <2>6. QED
    BY <2>4, <2>5
<1>3. CASE CheckHealth(t) \/ PersistFailed(t) \/ StartFails(t) \/ StartSucceeds(t)
           \/ DropCell(t) \/ Claim(t) \/ GetOrInit(t)
  <2>1. task[t].pc \in {"health", "giveup", "failed", "started", "drop", "claim", "wait"}
    BY <1>3 DEF CheckHealth, PersistFailed, StartFails, StartSucceeds, DropCell, Claim, GetOrInit
  <2>2. QED
    BY <1>1, <2>1 DEF Shape, Monitoring
<1>4. QED
  BY <1>2, <1>3 DEF Step, Moving

LEMMA FlagRaised ==
    ASSUME NEW t \in Tasks, Step(t), draining', ~draining
    PROVE  task[t].pc = "drain"
<1>1. CASE Drain(t)
  BY <1>1 DEF Drain
<1>2. CASE ~Drain(t)
  BY <1>2 DEF Step, CheckFlag, ReadRow, CheckHealth, MarkCrashed, NoteCrash, CheckFailed,
     PersistFailed, Claim, GetOrInit, DropCell, StartEngine, StartRefused, SpawnEngine,
     InsertEngine, PollHealth, PollFails, PersistInstance, StartSucceeds, StartFails, Resolve,
     Forward, StreamEnds, KillEngine, ReadForAdmin, CheckForAdmin, DeleteRow, CreateRow, ReadBack,
     SetRunning, UndoRow, StopRow, ClearFailed, ClearRow, Monitor, Watch, NoteState, Candidates,
     Drained, DrainTimeout, MarkStopped, ClearTracking, Forget
<1>3. QED
  BY <1>1, <1>2

LEMMA GuardedSteps ==
    ASSUME NEW t \in Tasks, Step(t), task[t].pc = "guarded"
    PROVE  CheckFlag(t)
BY DEF Step, ReadRow, CheckHealth, MarkCrashed, NoteCrash, CheckFailed,
     PersistFailed, Claim, GetOrInit, DropCell, StartEngine, StartRefused, SpawnEngine,
     InsertEngine, PollHealth, PollFails, PersistInstance, StartSucceeds, StartFails, Resolve,
     Forward, StreamEnds, KillEngine, ReadForAdmin, CheckForAdmin, DeleteRow, CreateRow, ReadBack,
     SetRunning, UndoRow, StopRow, ClearFailed, ClearRow, Monitor, Watch, NoteState, Candidates,
     Drain, Drained, DrainTimeout, MarkStopped, ClearTracking, Forget

LEMMA StepDrains ==
    ASSUME TypeInv, HoldInv, DrainInv, NEW t \in Tasks, Step(t)
    PROVE  DrainInv'
<1>1. OnlyOwn(t) /\ Shape(task[t]) /\ Onward(t)
  BY StepIsOwn, ShapeStep DEF HoldInv, Shapes
<1>2. OneReaper'
  BY <1>1 DEF DrainInv, OneReaper, Reaps, OnlyOwn, Onward
<1>3. ASSUME NEW v \in Tasks, Stopping(task'[v]), draining', NEW u \in Tasks
      PROVE  ~Flies(task'[u])
  <2>1. CASE v = t
    <3>1. Drained(t) /\ task[t].kind = "reap"
      BY <1>1, <1>3, <2>1, StoppingByDrain DEF Onward, Stopping
    <3>2. ~Flies(task[u])
      BY <3>1 DEF Drained, InFlight, Flies
    <3>3. CASE u = t
      BY <1>3, <2>1, <3>3 DEF Stopping, Flies
    <3>4. CASE u # t
      BY <1>1, <3>2, <3>4 DEF OnlyOwn
    <3>5. QED
      BY <3>3, <3>4
  <2>2. CASE v # t
    <3>1. Stopping(task[v])
      BY <1>1, <1>3, <2>2 DEF OnlyOwn
    <3>2. draining
      <4>1. SUFFICES ASSUME ~draining PROVE FALSE
        OBVIOUS
      <4>2. task[t].pc = "drain" /\ task[t].kind = "reap"
        BY <1>1, <1>3, <4>1, FlagRaised DEF Shape, Monitoring
      <4>3. QED
        BY <2>2, <3>1, <4>2 DEF DrainInv, OneReaper, Reaps, Stopping
    <3>3. \A w \in Tasks : ~Flies(task[w])
      BY <3>1, <3>2 DEF DrainInv, NobodyFlies
    <3>4. CASE u = t
      <4>1. CASE task[t].pc = "guarded"
        <5>1. task'[t] = Idle
          BY <3>2, <4>1, GuardedSteps, SetIsOwn DEF CheckFlag
        <5>2. QED
          BY <3>4, <5>1, IdleShape DEF Flies
      <4>2. CASE task[t].pc # "guarded"
        BY <1>1, <3>3, <3>4, <4>2 DEF Onward
      <4>3. QED
        BY <4>1, <4>2
    <3>5. CASE u # t
      BY <1>1, <3>3, <3>5 DEF OnlyOwn
    <3>6. QED
      BY <3>4, <3>5
  <2>3. QED
    BY <2>1, <2>2
<1>4. QED
  BY <1>2, <1>3 DEF DrainInv, NobodyFlies

LEMMA EnvironmentDrains == ASSUME TypeInv, DrainInv, Environment PROVE DrainInv'
<1>1. ASSUME NEW t \in Tasks, OnlyOwn(t), draining' = draining, ~Flies(task'[t]),
             ~Stopping(task'[t]),
             Reaps(task'[t]) => \A u \in Tasks \ {t} : ~Reaps(task[u])
      PROVE  DrainInv'
  BY <1>1 DEF DrainInv, OneReaper, NobodyFlies, OnlyOwn
<1>2. ASSUME NEW t \in Tasks, Hangup(t) PROVE DrainInv'
  <2>1. OnlyOwn(t) /\ task'[t] = Idle /\ draining' = draining
    BY <1>2, SetIsOwn DEF Hangup
  <2>2. QED
    BY <1>1, <2>1, IdleShape DEF Flies, Stopping, Reaps
<1>3. ASSUME NEW t \in Tasks, ValidationTimeout(t) PROVE DrainInv'
  <2>1. OnlyOwn(t) /\ task'[t] = Timed /\ draining' = draining
    BY <1>3, SetIsOwn DEF ValidationTimeout, Timed
  <2>2. QED
    BY <1>1, <2>1, TimedShape DEF Flies, Stopping, Reaps
<1>4. ASSUME NEW t \in Tasks, NEW k \in Kinds, Begin(t, k) PROVE DrainInv'
  <2>1. /\ OnlyOwn(t) /\ task'[t].kind = k /\ task'[t].pc = First(k) /\ ~task'[t].holds
        /\ draining' = draining
        /\ (k = "reap" => \A u \in Tasks : task[u].pc # "idle" => task[u].kind # "reap")
    BY <1>4, BeginFields DEF Others
  <2>2. k = "proxy" => First(k) = "guarded"
    BY DEF First
  <2>3. QED
    BY <1>1, <2>1, <2>2 DEF Flies, Stopping, Reaps
<1>5. ASSUME NEW e \in Engines, NEW s, EngineChanges(e, s) PROVE DrainInv'
  BY <1>5 DEF EngineChanges, DrainInv, OneReaper, NobodyFlies
<1>6. CASE CrashExpires
  BY <1>6 DEF CrashExpires, DrainInv, OneReaper, NobodyFlies
<1>7. CASE Crash
  <2>1. \A t \in Tasks : task'[t] = Idle
    BY <1>7 DEF Crash
  <2>2. QED
    BY <2>1, IdleShape DEF DrainInv, OneReaper, NobodyFlies, Reaps, Stopping
<1>8. QED
  BY <1>2, <1>3, <1>4, <1>5, <1>6, <1>7 DEF Environment

LEMMA DrainInvariant == Spec => []DrainInv
<1>1. Init => DrainInv
  <2> SUFFICES ASSUME Init PROVE DrainInv
    OBVIOUS
  <2>1. \A t \in Tasks : task[t] = Idle
    BY DEF Init
  <2>2. QED
    BY <2>1, IdleShape DEF DrainInv, OneReaper, NobodyFlies, Reaps, Stopping
<1>2. TypeInv /\ HoldInv /\ DrainInv /\ [Next]_vars => DrainInv'
  <2> SUFFICES ASSUME TypeInv, HoldInv, DrainInv, [Next]_vars PROVE DrainInv'
    OBVIOUS
  <2>1. CASE UNCHANGED vars
    BY <2>1 DEF vars, DrainInv, OneReaper, NobodyFlies
  <2>2. CASE Next
    BY <2>2, StepDrains, EnvironmentDrains DEF Next
  <2>3. QED
    BY <2>1, <2>2
<1>3. QED
  BY <1>1, <1>2, TypeInvariant, HoldInvariant, PTL DEF Spec

\* When the drain ended because nothing was in flight, and nobody cleared the flag since,
\* the reaper stops the engine under no request that got past the flag
\* (reaper.rs, drain_and_stop; proxy_handlers.rs: the guard is acquired before the flag
\* is read).
THEOREM RuntimeDrainSparesRequests == Spec => []DrainSparesRequests
<1>1. DrainInv => DrainSparesRequests
  BY DEF DrainInv, NobodyFlies, Stopping, Flies, DrainSparesRequests, InFlight
<1>2. QED
  BY <1>1, DrainInvariant, PTL
=============================================================================
