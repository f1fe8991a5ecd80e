-------------------------- MODULE SchedulerLoopProofs --------------------------
(***************************************************************************)
(* What a task's firings may do to it, for every size of the system: the   *)
(* loops that stay held and end, the caps that count exactly, and the      *)
(* occurrences that fire once.  Each invariant speaks of one task, and is  *)
(* kept by every way a step can look from it (TaskStep).                   *)
(***************************************************************************)
EXTENDS SchedulerTaskProofs

-----------------------------------------------------------------------------
(* What the statements leave of a row *)

LEMMA MarkFiredFields ==
    ASSUME NEW row \in Row, NEW next, NEW reason, NEW m, m = MarkFired(row, next, reason)
    PROVE  /\ m.kind = row.kind /\ m.goal = row.goal /\ m.created = row.created
           /\ m.fails = row.fails /\ m.lastStatus = row.lastStatus /\ m.next = next
           /\ m.enabled <=> (row.enabled /\ reason = "none" /\ next # Never)
           /\ m.reason = IF reason # "none" THEN reason
                         ELSE IF next = Never THEN "completed" ELSE row.reason
<1> DEFINE on == row.enabled /\ reason = "none" /\ next # Never
           why == IF reason # "none" THEN reason
                  ELSE IF next = Never THEN "completed" ELSE row.reason
<1>1. m = [row EXCEPT !.next = next, !.enabled = on, !.reason = why]
  BY DEF MarkFired
<1> HIDE DEF on, why
<1>2. /\ m.kind = row.kind /\ m.goal = row.goal /\ m.created = row.created
      /\ m.fails = row.fails /\ m.lastStatus = row.lastStatus /\ m.next = next
      /\ m.enabled = on /\ m.reason = why
  BY <1>1 DEF Row
<1>3. QED
  BY <1>2 DEF on, why

LEMMA DisarmFields ==
    ASSUME NEW row \in Row, NEW m, m = DisarmSelfPaced(row)
    PROVE  /\ m.kind = row.kind /\ m.goal = row.goal /\ m.created = row.created
           /\ m.fails = row.fails /\ m.lastStatus = row.lastStatus /\ m.next = Never
           /\ m.enabled = row.enabled /\ m.reason = row.reason
BY DEF DisarmSelfPaced, Row

LEMMA ArmFields ==
    ASSUME NEW row \in Row, NEW next, NEW reason, NEW m, m = ArmSelfPaced(row, next, reason)
    PROVE  /\ m.kind = row.kind /\ m.goal = row.goal /\ m.created = row.created
           /\ m.fails = row.fails /\ m.lastStatus = row.lastStatus /\ m.next = next
           /\ m.enabled <=> (row.enabled /\ next # Never)
           /\ m.reason = IF next = Never THEN reason ELSE row.reason
<1> DEFINE on == row.enabled /\ next # Never
           why == IF next = Never THEN reason ELSE row.reason
<1>1. m = [row EXCEPT !.next = next, !.enabled = on, !.reason = why]
  BY DEF ArmSelfPaced
<1> HIDE DEF on, why
<1>2. /\ m.kind = row.kind /\ m.goal = row.goal /\ m.created = row.created
      /\ m.fails = row.fails /\ m.lastStatus = row.lastStatus /\ m.next = next
      /\ m.enabled = on /\ m.reason = why
  BY <1>1 DEF Row
<1>3. QED
  BY <1>2 DEF on, why

LEMMA RecordFields ==
    ASSUME NEW row \in Row, NEW success, NEW reason, NEW m,
           m = RecordOutcome(row, success, reason)
    PROVE  /\ m.kind = row.kind /\ m.goal = row.goal /\ m.created = row.created
           /\ m.next = row.next
           /\ m.lastStatus = IF success THEN "success" ELSE "failed"
           /\ m.fails = IF success THEN 0 ELSE row.fails + 1
           /\ m.enabled <=> (row.enabled /\ reason = "none")
           /\ m.reason = IF reason # "none" THEN reason ELSE row.reason
<1> DEFINE on == row.enabled /\ reason = "none"
           why == IF reason # "none" THEN reason ELSE row.reason
           status == IF success THEN "success" ELSE "failed"
           n == IF success THEN 0 ELSE row.fails + 1
<1>1. m = [row EXCEPT !.lastStatus = status, !.fails = n, !.enabled = on, !.reason = why]
  BY DEF RecordOutcome
<1> HIDE DEF on, why, status, n
<1>2. /\ m.kind = row.kind /\ m.goal = row.goal /\ m.created = row.created
      /\ m.next = row.next /\ m.lastStatus = status /\ m.fails = n
      /\ m.enabled = on /\ m.reason = why
  BY <1>1 DEF Row
<1>3. QED
  BY <1>2 DEF on, why, status, n

LEMMA EditFields ==
    ASSUME NEW row \in Row, NEW q \in Request, NEW m, m = UpdateRow(row, q)
    PROVE  /\ m.goal = row.goal /\ m.created = row.created
           /\ m.fails = row.fails /\ m.lastStatus = row.lastStatus
           /\ m.kind = IF q.kind = "keep" THEN row.kind ELSE q.kind
           /\ m.next = IF q.touched THEN q.next ELSE row.next
           /\ m.enabled <=> IF q.enabled = "keep" THEN row.enabled ELSE q.enabled = "on"
           /\ m.reason = IF q.enabled = "on" THEN "none" ELSE row.reason
<1> DEFINE on == IF q.enabled = "keep" THEN row.enabled ELSE q.enabled = "on"
           why == IF q.enabled = "on" THEN "none" ELSE row.reason
           kind == IF q.kind = "keep" THEN row.kind ELSE q.kind
           at == IF q.runAt = Never THEN row.runAt ELSE q.runAt
           next == IF q.touched THEN q.next ELSE row.next
<1>1. m = [row EXCEPT !.enabled = on, !.reason = why, !.kind = kind, !.runAt = at,
                      !.next = next]
  BY DEF UpdateRow
<1> HIDE DEF on, why, kind, at, next
<1>2. /\ m.goal = row.goal /\ m.created = row.created
      /\ m.fails = row.fails /\ m.lastStatus = row.lastStatus
      /\ m.kind = kind /\ m.next = next /\ m.enabled = on /\ m.reason = why
  BY <1>1 DEF Row
<1>3. QED
  BY <1>2 DEF on, why, kind, next

LEMMA SnapFields ==
    ASSUME NEW row
    PROVE  /\ Snap(row).kind = row.kind /\ Snap(row).goal = row.goal
           /\ Snap(row).fails = row.fails /\ Snap(row).created = row.created
BY DEF Snap

-----------------------------------------------------------------------------
(* What every move of a task has in common *)

LEMMA TaskTypes ==
    ASSUME TypeOK, NEW t \in live
    PROVE  /\ t \in Tasks /\ rows[t] \in Row /\ hist[t] \in History
           /\ rows[t].next \in Int /\ rows[t].created \in Nat /\ rows[t].fails \in Nat
           /\ hist[t].shots \in Nat /\ hist[t].manual \in Nat /\ hist[t].pruned \in Nat
           /\ faults \in Nat /\ now \in Nat
BY DEF TypeOK, Row, History

\* Every move leaves the columns goal_prompt and created_at, and only a PUT, which
\* the history tells, the kind.
LEMMA IdentityStays ==
    ASSUME Base, Base', NEW t \in live, TaskStep(t)
    PROVE  /\ rows'[t].goal = rows[t].goal /\ rows'[t].created = rows[t].created
           /\ rows'[t].kind = rows[t].kind \/ IsEdited(t)
           /\ rows'[t].kind = rows[t].kind \/ (hist'[t].switched /\ hist'[t].manual # 0)
           /\ hist[t].switched => hist'[t].switched
           /\ hist'[t].switched => hist[t].switched \/ hist'[t].manual # 0
           /\ hist[t].manual <= hist'[t].manual
           /\ now <= now' /\ faults <= faults'
<1>0. TypeOK /\ TypeOK'
  BY DEF Base, ShotsInv
<1>1. rows[t] \in Row /\ hist[t].manual \in Nat /\ faults \in Nat /\ now \in Nat
  BY <1>0, TaskTypes
<1>2. CASE Rests(t) \/ IsClaimed(t) \/ IsRunNow(t) \/ IsPruned(t) \/ IsCrashed(t)
  <2>1. RowStays(t) /\ now <= now' /\ faults <= faults'
    <3>1. /\ RowStays(t)
          /\ \/ now <= now' /\ faults <= faults'
             \/ now' = now /\ faults' = faults
             \/ now' = now /\ faults' = faults + 1
      BY <1>2, Zenon DEF Rests, IsClaimed, IsRunNow, IsPruned, IsCrashed, FaultsGrow
    <3>2. QED
      BY <1>1, <3>1
  <2>2. /\ hist'[t].switched = hist[t].switched
        /\ hist'[t].manual = hist[t].manual \/ hist'[t].manual = hist[t].manual + 1
    BY <1>2 DEF Rests, IsClaimed, IsRunNow, IsPruned, IsCrashed, HistoryStays, HistoryKeeps
  <2>3. QED
    BY <1>1, <2>1, <2>2 DEF RowStays
<1>3. CASE IsPaused(t)
  <2>1. /\ rows'[t] = MarkFired(rows[t], Never, "conversation_deleted") \/ RowStays(t)
        /\ faults' = faults \/ faults' = faults + 1
        /\ HistoryStays(t) /\ now' = now
    BY <1>3 DEF IsPaused, Tried
  <2>2. QED
    BY <1>1, <2>1, MarkFiredFields DEF RowStays, HistoryStays, HistoryKeeps
<1>4. CASE IsShot(t)
  <2>1. PICK e \in Entries(t) :
           /\ rows'[t] = IF e.snap.kind = "self_paced" THEN DisarmSelfPaced(rows[t])
                         ELSE MarkFired(rows[t], NextAfter(e.snap), "none")
           /\ HistoryKeeps(t) /\ faults' = faults /\ now' = now
    BY <1>4 DEF IsShot
  <2>2. QED
    BY <1>1, <2>1, MarkFiredFields, DisarmFields DEF HistoryKeeps
<1>5. CASE IsMoved(t)
  <2>1. PICK f \in InFlight(t) :
           /\ \/ Dispatched(t, f) \/ Recorded(t, f) \/ Logged(t, f)
              \/ Decided(t, f) \/ WrittenBack(t, f)
           /\ now' = now
    BY <1>5 DEF IsMoved
  <2>2. HistoryStays(t) /\ (faults' = faults \/ faults' = faults + 1)
    BY <2>1 DEF Dispatched, Recorded, Logged, Decided, WrittenBack, Tried
  <2>3. \/ RowStays(t)
        \/ rows'[t] = RecordOutcome(rows[t], firing[f].result = "success", PauseReason(f))
        \/ rows'[t] = ArmSelfPaced(rows[t], firing[f].next, firing[f].reason)
    BY <2>1 DEF Dispatched, Recorded, Logged, Decided, WrittenBack, Tried
  <2>4. rows'[t].kind = rows[t].kind /\ rows'[t].goal = rows[t].goal
        /\ rows'[t].created = rows[t].created
    BY <1>1, <2>3, RecordFields, ArmFields DEF RowStays
  <2>5. QED
    BY <1>1, <2>1, <2>2, <2>4 DEF HistoryStays, HistoryKeeps
<1>6. CASE IsEdited(t)
  <2>1. PICK r \in Requests :
           /\ req[r].op = "update"
           /\ rows'[t] = UpdateRow(rows[t], req[r])
           /\ IF req[r].touched
              THEN /\ hist'[t].manual = hist[t].manual + 1
                   /\ hist'[t].switched
                        <=> (hist[t].switched \/ req[r].kind \notin {"keep", rows[t].kind})
              ELSE hist'[t].manual = hist[t].manual /\ hist'[t].switched = hist[t].switched
           /\ faults' = faults /\ now' = now
    BY <1>6 DEF IsEdited
  <2>2. req[r] \in Request /\ Valid(req[r])
    BY <1>0 DEF TypeOK, Base, RequestsInv
  <2>3. /\ rows'[t].goal = rows[t].goal /\ rows'[t].created = rows[t].created
        /\ rows'[t].kind = IF req[r].kind = "keep" THEN rows[t].kind ELSE req[r].kind
    BY <1>1, <2>1, <2>2, EditFields
  <2>4. ~req[r].touched => req[r].kind = "keep"
    BY <2>1, <2>2 DEF Valid
  <2>5. QED
    BY <1>1, <1>6, <2>1, <2>3, <2>4
<1>7. QED
  BY <1>2, <1>3, <1>4, <1>5, <1>6 DEF TaskStep

\* What the sweep holds of a task it held before, or claims from the row.
LEMMA EntriesFrom ==
    ASSUME NEW t \in live, TaskStep(t)
    PROVE  \A e \in Entries(t)' : \/ e \in Entries(t)
                                  \/ IsClaimed(t) /\ e.snap = Snap(rows[t])
BY DEF TaskStep, Rests, IsClaimed, IsPaused, IsShot, IsRunNow, IsMoved, IsEdited, IsPruned,
       IsCrashed, EntriesStay

\* A firing with what it was spawned with.
SameFiring(f) ==
    /\ firing[f].pc # "free" /\ firing'[f].task = firing[f].task
    /\ firing'[f].trigger = firing[f].trigger /\ firing'[f].snap = firing[f].snap
    /\ firing'[f].no = firing[f].no /\ firing'[f].at = firing[f].at

LEMMA MovedSlot ==
    ASSUME TypeOK, NEW t \in live, NEW f \in InFlight(t),
           \/ Dispatched(t, f) \/ Recorded(t, f) \/ Logged(t, f)
           \/ Decided(t, f) \/ WrittenBack(t, f)
    PROVE  SameFiring(f) \/ firing'[f].pc = "free"
<1>0. /\ firing[f] \in Firing /\ firing[f].pc # "free" /\ firing[f].task = t
      /\ f \in Firings
  BY DEF TypeOK, InFlight
<1>1. CASE Dispatched(t, f)
  BY <1>0, <1>1 DEF Dispatched, SameFiring
<1>2. CASE Recorded(t, f)
  BY <1>0, <1>2 DEF Recorded, SameFiring, Firing
<1>3. CASE Logged(t, f)
  BY <1>0, <1>3 DEF Logged, SameFiring, Firing, FreeFiring
<1>4. CASE Decided(t, f)
  BY <1>0, <1>4, VerdictFields, OwnVerdictFields DEF Decided, SameFiring
<1>5. CASE WrittenBack(t, f)
  BY <1>5 DEF WrittenBack, FreeFiring
<1>6. QED
  BY <1>1, <1>2, <1>3, <1>4, <1>5

\* Where the firings of a task come from.
LEMMA FliesFrom ==
    ASSUME TypeOK, NEW t \in live, TaskStep(t), NEW f \in InFlight(t)'
    PROVE  \/ f \in InFlight(t) /\ SameFiring(f)
           \/ /\ IsShot(t) /\ firing'[f].trigger = "schedule"
              /\ firing'[f].at = tick.now
              /\ \E e \in Entries(t) : firing'[f].snap = e.snap
           \/ /\ IsRunNow(t) /\ firing'[f].trigger = "run_now"
              /\ firing'[f].snap = Snap(rows[t])
<1>0. f \in Firings /\ firing'[f].pc # "free" /\ firing'[f].task = t
  BY DEF InFlight
<1>1. firing'[f] = firing[f] => f \in InFlight(t) /\ SameFiring(f)
  BY <1>0 DEF InFlight, SameFiring
<1>2. CASE Rests(t) \/ IsClaimed(t) \/ IsPaused(t) \/ IsEdited(t) \/ IsPruned(t)
  <2>1. FliesStay(t, {})
    BY <1>2 DEF Rests, IsClaimed, IsPaused, IsEdited, IsPruned
  <2>2. QED
    BY <1>1, <2>1 DEF FliesStay
<1>3. CASE IsShot(t)
  <2>1. PICK e \in Entries(t), g \in Firings :
           /\ FliesStay(t, {g})
           /\ firing'[g] = Begun(t, "schedule", e.snap, tick.now, hist[t].shots + 1)
    BY <1>3 DEF IsShot
  <2>2. CASE f = g
    BY <1>3, <2>1, <2>2, BegunFields
  <2>3. CASE f # g
    BY <1>1, <2>1, <2>3 DEF FliesStay
  <2>4. QED
    BY <2>2, <2>3
<1>4. CASE IsRunNow(t)
  <2>1. PICK g \in Firings :
           FliesStay(t, {g}) /\ firing'[g] = Begun(t, "run_now", Snap(rows[t]), now, 0)
    BY <1>4 DEF IsRunNow
  <2>2. CASE f = g
    BY <1>4, <2>1, <2>2, BegunFields
  <2>3. CASE f # g
    BY <1>1, <2>1, <2>3 DEF FliesStay
  <2>4. QED
    BY <2>2, <2>3
<1>5. CASE IsMoved(t)
  <2>1. PICK g \in InFlight(t) :
           /\ FliesStay(t, {g})
           /\ \/ Dispatched(t, g) \/ Recorded(t, g) \/ Logged(t, g)
              \/ Decided(t, g) \/ WrittenBack(t, g)
    BY <1>5 DEF IsMoved
  <2>2. CASE f = g
    BY <1>0, <2>1, <2>2, MovedSlot
  <2>3. CASE f # g
    BY <1>1, <2>1, <2>3 DEF FliesStay
  <2>4. QED
    BY <2>2, <2>3
<1>6. CASE IsCrashed(t)
  BY <1>6 DEF IsCrashed
<1>7. QED
  BY <1>2, <1>3, <1>4, <1>5, <1>6 DEF TaskStep

\* A task as it is inserted.
LEMMA CreatedFields ==
    ASSUME Base, Base', NEW t \in live', IsCreated(t)
    PROVE  /\ rows'[t].created = now /\ rows'[t].next # Never
           /\ rows'[t].kind = "self_paced" => rows'[t].next <= now
           /\ rows'[t].kind = "recurring" =>
                 \E i \in 0..now : rows'[t].next = NextCron(i)
           /\ rows'[t].goal => rows'[t].kind = "self_paced"
           /\ rows'[t].fails = 0 /\ rows'[t].reason = "none"
           /\ rows'[t].lastStatus = "none"
           /\ hist'[t].shots = 0 /\ hist'[t].manual = 0 /\ ~hist'[t].switched
           /\ ~hist'[t].overlap /\ hist'[t].pruned = 0 /\ runs'[t] = {}
           /\ InFlight(t)' = {} /\ Entries(t)' = {}
           /\ now' = now /\ now \in Nat /\ t \in Tasks
<1>1. PICK r \in Requests :
         /\ req[r].op = "create" /\ t \notin used
         /\ rows'[t] = [BlankRow EXCEPT !.enabled = TRUE, !.kind = req[r].kind,
                            !.goal = req[r].goal, !.target = req[r].target,
                            !.bound = req[r].bound, !.runAt = req[r].runAt,
                            !.next = req[r].next, !.created = now]
  BY DEF IsCreated
<1>2. t \in Tasks /\ now \in Nat
  BY DEF Base, ShotsInv, TypeOK
<1>3. Valid(req[r])
  BY DEF Base, RequestsInv
<1>4. /\ rows'[t].created = now /\ rows'[t].next = req[r].next
      /\ rows'[t].kind = req[r].kind /\ rows'[t].goal = req[r].goal
      /\ rows'[t].fails = 0 /\ rows'[t].reason = "none" /\ rows'[t].lastStatus = "none"
  BY <1>1 DEF BlankRow
<1>5. hist[t] = NoHistory /\ runs[t] = {}
  BY <1>1, <1>2 DEF Base, NamesInv
<1>6. /\ hist'[t].shots = 0 /\ hist'[t].manual = 0 /\ ~hist'[t].switched
      /\ ~hist'[t].overlap /\ hist'[t].pruned = 0 /\ runs'[t] = {}
  BY <1>5 DEF IsCreated, HistoryStays, HistoryKeeps, NoHistory, RunsStay
<1>7. /\ rows'[t].next # Never
      /\ rows'[t].kind = "self_paced" => rows'[t].next <= now
      /\ rows'[t].kind = "recurring" => \E i \in 0..now : rows'[t].next = NextCron(i)
      /\ rows'[t].goal => rows'[t].kind = "self_paced"
  BY <1>1, <1>3, <1>4 DEF Valid
<1>8. InFlight(t)' = {} /\ Entries(t)' = {} /\ now' = now
  BY DEF IsCreated
<1>9. QED
  BY <1>2, <1>4, <1>6, <1>7, <1>8

-----------------------------------------------------------------------------
(* A snapshot is true to the row it was taken from *)

\* goal_prompt and created_at never change, the schedule kind by a PUT only.
Faithful(s, t) ==
    /\ s.created = rows[t].created
    /\ s.goal = rows[t].goal
    /\ hist[t].switched \/ s.kind = rows[t].kind

SnapsOf(t) ==
    /\ \A e \in Entries(t) : Faithful(e.snap, t)
    /\ \A f \in InFlight(t) : Faithful(firing[f].snap, t)
    /\ rows[t].created <= now
    /\ hist[t].switched \/ (rows[t].goal => rows[t].kind = "self_paced")
    /\ hist[t].manual = 0 => /\ ~hist[t].switched
                             /\ \A f \in InFlight(t) : firing[f].trigger = "schedule"

SnapsInv == \A t \in live : SnapsOf(t)

LEMMA FaithfulStays ==
    ASSUME Base, Base', NEW t \in live, TaskStep(t), NEW s, Faithful(s, t)
    PROVE  Faithful(s, t)'
<1>1. /\ rows'[t].goal = rows[t].goal /\ rows'[t].created = rows[t].created
      /\ rows'[t].kind = rows[t].kind \/ hist'[t].switched
      /\ hist[t].switched => hist'[t].switched
  BY IdentityStays
<1>2. QED
  BY <1>1 DEF Faithful

LEMMA SnapsMove ==
    ASSUME Base, Base', NEW t \in live', TaskStep(t), t \in live => SnapsOf(t)
    PROVE  SnapsOf(t)'
<1>0. TypeOK /\ TypeOK'
  BY DEF Base, ShotsInv
<1>1. CASE t \notin live
  <2>1. IsCreated(t)
    BY <1>1 DEF TaskStep
  <2>2. QED
    BY <2>1, CreatedFields DEF SnapsOf
<1>2. CASE t \in live
  <2>1. SnapsOf(t) /\ rows[t].created \in Nat /\ now \in Nat /\ now' \in Nat
        /\ hist[t].manual \in Nat
    BY <1>0, <1>2, TaskTypes DEF TypeOK
  <2>2. Faithful(Snap(rows[t]), t)
    BY SnapFields DEF Faithful
  <2>3. \A e \in Entries(t)' : Faithful(e.snap, t)'
    <3> SUFFICES ASSUME NEW e \in Entries(t)' PROVE Faithful(e.snap, t)'
      OBVIOUS
    <3>1. PICK s : s = e.snap /\ Faithful(s, t)
      BY <1>2, <2>1, <2>2, EntriesFrom DEF SnapsOf
    <3>2. Faithful(s, t)'
      BY <1>2, <3>1, FaithfulStays
    <3>3. QED
      BY <3>1, <3>2 DEF Faithful
  <2>4. \A f \in InFlight(t)' : Faithful(firing[f].snap, t)'
    <3> SUFFICES ASSUME NEW f \in InFlight(t)' PROVE Faithful(firing[f].snap, t)'
      OBVIOUS
    <3>1. PICK s : s = firing'[f].snap /\ Faithful(s, t)
      BY <1>0, <1>2, <2>1, <2>2, FliesFrom DEF SnapsOf, SameFiring
    <3>2. Faithful(s, t)'
      BY <1>2, <3>1, FaithfulStays
    <3>3. QED
      BY <3>1, <3>2 DEF Faithful
  <2>5. /\ rows'[t].goal = rows[t].goal /\ rows'[t].created = rows[t].created
        /\ rows'[t].kind = rows[t].kind \/ (hist'[t].switched /\ hist'[t].manual # 0)
        /\ hist[t].switched => hist'[t].switched
        /\ hist'[t].switched => hist[t].switched \/ hist'[t].manual # 0
        /\ hist[t].manual <= hist'[t].manual
        /\ now <= now'
    BY <1>2, IdentityStays
  <2>6. /\ rows'[t].created <= now'
        /\ hist'[t].switched \/ (rows'[t].goal => rows'[t].kind = "self_paced")
    BY <2>1, <2>5 DEF SnapsOf
  <2>7. ASSUME hist'[t].manual = 0
        PROVE  /\ ~hist'[t].switched
               /\ \A f \in InFlight(t)' : firing'[f].trigger = "schedule"
    <3>1. hist[t].manual = 0
      BY <2>1, <2>5, <2>7
    <3>2. ~IsRunNow(t)
      BY <2>7, <3>1 DEF IsRunNow
    <3>3. QED
      BY <1>0, <1>2, <2>1, <2>5, <2>7, <3>1, <3>2, FliesFrom DEF SnapsOf, SameFiring
  <2>8. QED
    BY <2>3, <2>4, <2>6, <2>7 DEF SnapsOf
<1>3. QED
  BY <1>1, <1>2

\* What every invariant below rests on.
Ground == Base /\ SnapsInv

LEMMA GroundInit == Init => Ground
BY BaseInit DEF Ground, SnapsInv, Init

LEMMA GroundStep == Ground /\ [Next]_vars => Ground' /\ \A t \in live' : TaskStep(t)
<1> SUFFICES ASSUME Ground, [Next]_vars PROVE Ground' /\ \A t \in live' : TaskStep(t)
  OBVIOUS
<1>1. Base /\ Base'
  BY BaseStep DEF Ground
<1>2. \A t \in live' : TaskStep(t)
  BY <1>1, EveryStepSeen DEF Base, ShotsInv
<1>3. \A t \in live' : SnapsOf(t)'
  BY <1>1, <1>2, SnapsMove DEF Ground, SnapsInv
<1>4. QED
  BY <1>1, <1>2, <1>3 DEF Ground, SnapsInv

-----------------------------------------------------------------------------
(* How the moves change the columns and the firings the invariants name *)

LEMMA ScheduledFrom ==
    ASSUME TypeOK, NEW t \in live, TaskStep(t)
    PROVE  /\ IsShot(t) \/ Scheduled(t)' \subseteq Scheduled(t)
           /\ IsShot(t) =>
                /\ Entries(t) # {} /\ Entries(t)' = {}
                /\ \E f \in Firings : Scheduled(t)' \subseteq Scheduled(t) \cup {f}
<1>1. IsShot(t) \/ Scheduled(t)' \subseteq Scheduled(t)
  <2> SUFFICES ASSUME ~IsShot(t), NEW f \in Scheduled(t)' PROVE f \in Scheduled(t)
    OBVIOUS
  <2>1. f \in InFlight(t)' /\ firing'[f].trigger = "schedule"
    BY DEF Scheduled
  <2>2. f \in InFlight(t) /\ firing'[f].trigger = firing[f].trigger
    BY <2>1, FliesFrom DEF SameFiring
  <2>3. QED
    BY <2>1, <2>2 DEF Scheduled
<1>2. ASSUME IsShot(t)
      PROVE  /\ Entries(t) # {} /\ Entries(t)' = {}
             /\ \E f \in Firings : Scheduled(t)' \subseteq Scheduled(t) \cup {f}
  <2>1. PICK f \in Firings : FliesStay(t, {f})
    BY <1>2 DEF IsShot
  <2>2. Scheduled(t)' \subseteq Scheduled(t) \cup {f}
    BY <2>1 DEF Scheduled, InFlight, FliesStay
  <2>3. QED
    BY <1>2, <2>2 DEF IsShot
<1>3. QED
  BY <1>1, <1>2

LEMMA OverlapFrom ==
    ASSUME NEW t \in live, TaskStep(t)
    PROVE  /\ ~hist'[t].overlap => ~hist[t].overlap
           /\ IsClaimed(t) /\ ~hist'[t].overlap => Scheduled(t) = {}
           /\ ~hist[t].overlap /\ hist'[t].overlap => IsClaimed(t) /\ Scheduled(t) # {}
<1>1. IsClaimed(t) \/ hist'[t].overlap = hist[t].overlap
  BY DEF TaskStep, Rests, IsPaused, IsShot, IsRunNow, IsMoved, Dispatched, Recorded, Logged,
         Decided, WrittenBack, IsEdited, IsPruned, IsCrashed, HistoryStays, HistoryKeeps
<1>2. IsClaimed(t) => (hist'[t].overlap <=> (hist[t].overlap \/ Scheduled(t) # {}))
  BY DEF IsClaimed
<1>3. QED
  BY <1>1, <1>2

\* Where a row's next instant comes from.
LEMMA NextFrom ==
    ASSUME Base, NEW t \in live, TaskStep(t)
    PROVE  \/ rows'[t].next = rows[t].next /\ ~IsShot(t)
           \/ rows'[t].next = Never
           \/ /\ IsShot(t)
              /\ \E e \in Entries(t) : /\ e.snap.kind # "self_paced"
                                       /\ rows'[t].next = NextAfter(e.snap)
           \/ \E f \in InFlight(t) : /\ firing[f].pc = "arm"
                                     /\ rows'[t].next = firing[f].next
                                     /\ firing'[f].pc = "free"
           \/ IsEdited(t) /\ hist'[t].manual # 0
<1>0. TypeOK
  BY DEF Base, ShotsInv
<1>1. rows[t] \in Row /\ hist[t].manual \in Nat
  BY <1>0, TaskTypes
<1>2. ASSUME RowStays(t) PROVE rows'[t].next = rows[t].next
  BY <1>2 DEF RowStays
<1>3. CASE IsShot(t)
  <2>1. PICK e \in Entries(t) :
           rows'[t] = IF e.snap.kind = "self_paced" THEN DisarmSelfPaced(rows[t])
                      ELSE MarkFired(rows[t], NextAfter(e.snap), "none")
    BY <1>3 DEF IsShot
  <2>2. CASE e.snap.kind = "self_paced"
    BY <1>1, <2>1, <2>2, DisarmFields
  <2>3. CASE e.snap.kind # "self_paced"
    <3>1. rows'[t].next = NextAfter(e.snap)
      BY <1>1, <2>1, <2>3, MarkFiredFields
    <3>2. QED
      BY <1>3, <2>3, <3>1
  <2>4. QED
    BY <2>2, <2>3
<1>4. CASE ~IsShot(t) /\ IsMoved(t)
  <2>1. PICK f \in InFlight(t) :
           \/ Dispatched(t, f) \/ Recorded(t, f) \/ Logged(t, f)
           \/ Decided(t, f) \/ WrittenBack(t, f)
    BY <1>4 DEF IsMoved
  <2>2. \/ RowStays(t)
        \/ rows'[t] = RecordOutcome(rows[t], firing[f].result = "success", PauseReason(f))
        \/ WrittenBack(t, f) /\ rows'[t] = ArmSelfPaced(rows[t], firing[f].next, firing[f].reason)
    BY <2>1 DEF Dispatched, Recorded, Logged, Decided, WrittenBack, Tried
  <2>3. CASE rows'[t] = RecordOutcome(rows[t], firing[f].result = "success", PauseReason(f))
    BY <1>1, <1>4, <2>3, RecordFields
  <2>4. CASE WrittenBack(t, f) /\ rows'[t] = ArmSelfPaced(rows[t], firing[f].next, firing[f].reason)
    <3>1. rows'[t].next = firing[f].next
      BY <1>1, <2>4, ArmFields
    <3>2. firing[f].pc = "arm" /\ firing'[f].pc = "free"
      BY <2>4 DEF WrittenBack, FreeFiring
    <3>3. QED
      BY <3>1, <3>2
  <2>5. QED
    BY <1>2, <1>4, <2>2, <2>3, <2>4
<1>5. CASE ~IsShot(t) /\ IsEdited(t)
  <2>1. PICK r \in Requests :
           /\ rows'[t] = UpdateRow(rows[t], req[r])
           /\ req[r].touched => hist'[t].manual = hist[t].manual + 1
    BY <1>5 DEF IsEdited
  <2>2. rows'[t].next = IF req[r].touched THEN req[r].next ELSE rows[t].next
    BY <1>0, <1>1, <2>1, EditFields DEF TypeOK
  <2>3. QED
    BY <1>1, <1>5, <2>1, <2>2
<1>6. CASE ~IsShot(t) /\ IsPaused(t)
  <2>1. rows'[t] = MarkFired(rows[t], Never, "conversation_deleted") \/ RowStays(t)
    BY <1>6 DEF IsPaused, Tried
  <2>2. QED
    BY <1>1, <1>2, <1>6, <2>1, MarkFiredFields
<1>7. CASE /\ ~IsShot(t)
           /\ Rests(t) \/ IsClaimed(t) \/ IsRunNow(t) \/ IsPruned(t) \/ IsCrashed(t)
  BY <1>2, <1>7 DEF Rests, IsClaimed, IsRunNow, IsPruned, IsCrashed
<1>8. QED
  BY <1>3, <1>4, <1>5, <1>6, <1>7 DEF TaskStep

-----------------------------------------------------------------------------
(* A turn of a loop is not re-claimed while it runs *)

\* As long as no claim has met a firing in flight, there is one firing or none, and
\* no claim next to it.
SoloOf(t) ==
    ~hist[t].overlap =>
        /\ \A f, g \in Scheduled(t) : f = g
        /\ Entries(t) # {} => Scheduled(t) = {}

\* A loop is disarmed while its turn runs.
LoopOf(t) ==
    rows[t].kind = "self_paced" /\ hist[t].manual = 0 =>
        /\ ~hist[t].overlap
        /\ rows[t].next # Never => Scheduled(t) = {}

LEMMA SoloMove ==
    ASSUME Base, Base', NEW t \in live', TaskStep(t), t \in live => SoloOf(t)
    PROVE  SoloOf(t)'
<1>0. TypeOK
  BY DEF Base, ShotsInv
<1>1. CASE t \notin live
  BY <1>1, CreatedFields DEF TaskStep, SoloOf, Scheduled
<1>2. CASE t \in live
  <2> SUFFICES ASSUME ~hist'[t].overlap
               PROVE  /\ \A f, g \in Scheduled(t)' : f = g
                      /\ Entries(t)' # {} => Scheduled(t)' = {}
    BY DEF SoloOf
  <2>1. /\ \A f, g \in Scheduled(t) : f = g
        /\ Entries(t) # {} => Scheduled(t) = {}
        /\ IsClaimed(t) => Scheduled(t) = {}
    BY <1>2, OverlapFrom DEF SoloOf
  <2>2. CASE IsShot(t)
    BY <1>0, <1>2, <2>1, <2>2, ScheduledFrom
  <2>3. CASE ~IsShot(t)
    <3>1. Scheduled(t)' \subseteq Scheduled(t)
      BY <1>0, <1>2, <2>3, ScheduledFrom
    <3>2. Entries(t)' # {} => Entries(t) # {} \/ IsClaimed(t)
      BY <1>2, EntriesFrom
    <3>3. QED
      BY <2>1, <3>1, <3>2
  <2>4. QED
    BY <2>2, <2>3
<1>3. QED
  BY <1>1, <1>2

LEMMA LoopMove ==
    ASSUME Ground, Ground', NEW t \in live', TaskStep(t),
           t \in live => SoloOf(t) /\ LoopOf(t)
    PROVE  LoopOf(t)'
<1>0. TypeOK /\ Base /\ Base'
  BY DEF Ground, Base, ShotsInv
<1>1. CASE t \notin live
  BY <1>0, <1>1, CreatedFields DEF TaskStep, LoopOf, Scheduled
<1>2. CASE t \in live
  <2> SUFFICES ASSUME rows'[t].kind = "self_paced", hist'[t].manual = 0
               PROVE  /\ ~hist'[t].overlap
                      /\ rows'[t].next # Never => Scheduled(t)' = {}
    BY DEF LoopOf
  <2>1. rows[t].kind = "self_paced" /\ hist[t].manual = 0 /\ ~hist[t].switched
    BY <1>0, <1>2, IdentityStays, TaskTypes DEF Ground, SnapsInv, SnapsOf
  <2>2. /\ ~hist[t].overlap /\ (rows[t].next # Never => Scheduled(t) = {})
        /\ \A f, g \in Scheduled(t) : f = g
    BY <1>2, <2>1 DEF LoopOf, SoloOf
  <2>3. SnapsOf(t)
    BY <1>2 DEF Ground, SnapsInv
  <2>4. ~hist'[t].overlap
    <3>1. IsClaimed(t) => rows[t].next # Never
      BY DEF IsClaimed, IsDue
    <3>2. QED
      BY <1>2, <2>2, <3>1, OverlapFrom
  <2>5. ASSUME rows'[t].next # Never PROVE Scheduled(t)' = {}
    <3>1. CASE rows'[t].next = rows[t].next /\ ~IsShot(t)
      BY <1>0, <1>2, <2>2, <2>5, <3>1, ScheduledFrom
    <3>2. ~\E e \in Entries(t) : e.snap.kind # "self_paced"
      BY <2>1, <2>3 DEF SnapsOf, Faithful
    <3>3. ASSUME NEW f \in InFlight(t), firing[f].pc = "arm", firing'[f].pc = "free"
          PROVE  Scheduled(t)' = {}
      <4>1. f \in Scheduled(t)
        BY <2>1, <2>3 DEF SnapsOf, Scheduled
      <4>2. f \notin Scheduled(t)'
        BY <3>3 DEF Scheduled, InFlight
      <4>3. ~IsShot(t)
        BY <3>3 DEF IsShot, FliesStay, InFlight, FreeFiring, Begun
      <4>4. QED
        BY <1>0, <1>2, <2>2, <4>1, <4>2, <4>3, ScheduledFrom
    <3>4. QED
      BY <1>0, <1>2, <2>5, <3>1, <3>2, <3>3, NextFrom
  <2>6. QED
    BY <2>4, <2>5
<1>3. QED
  BY <1>1, <1>2

LoopsInv == Ground /\ \A t \in live : SoloOf(t) /\ LoopOf(t)

LEMMA LoopsInit == Init => LoopsInv
BY GroundInit DEF LoopsInv, Init

LEMMA LoopsStep == LoopsInv /\ [Next]_vars => LoopsInv'
<1> SUFFICES ASSUME LoopsInv, [Next]_vars PROVE LoopsInv'
  OBVIOUS
<1>1. Ground /\ Ground' /\ Base /\ Base' /\ \A t \in live' : TaskStep(t)
  BY GroundStep DEF LoopsInv, Ground
<1>2. \A t \in live' : SoloOf(t)' /\ LoopOf(t)'
  BY <1>1, SoloMove, LoopMove DEF LoopsInv
<1>3. QED
  BY <1>1, <1>2 DEF LoopsInv

\* tick.rs disarms a self-paced row before its turn is spawned, and only the turn's
\* own write-back arms it again: the sweep never claims a loop whose turn still runs.
THEOREM SchedulerTurnIsNotReclaimed == Spec => []TurnIsNotReclaimed
<1>1. LoopsInv => TurnIsNotReclaimed
  <2> SUFFICES ASSUME LoopsInv, NEW t \in live,
                      rows[t].kind = "self_paced", hist[t].manual = 0
               PROVE  Cardinality(Scheduled(t)) <= 1
    BY DEF TurnIsNotReclaimed
  <2>1. \A f, g \in Scheduled(t) : f = g
    BY DEF LoopsInv, SoloOf, LoopOf
  <2>2. CASE Scheduled(t) = {}
    BY <2>2, FS_EmptySet
  <2>3. CASE Scheduled(t) # {}
    <3>1. PICK f : Scheduled(t) = {f}
      BY <2>1, <2>3
    <3>2. Cardinality({f}) = 1
      BY FS_Singleton
    <3>3. QED
      BY <3>1, <3>2
  <2>4. QED
    BY <2>2, <2>3
<1>2. QED
  BY <1>1, LoopsInit, LoopsStep, PTL DEF Spec

-----------------------------------------------------------------------------
(* A loop ends at its horizon *)

HorizonOf(t) ==
    rows[t].kind = "self_paced" /\ hist[t].manual = 0 =>
        rows[t].next <= rows[t].created + Horizon

LEMMA HorizonMove ==
    ASSUME Ground, Ground', NEW t \in live', TaskStep(t), t \in live => HorizonOf(t)
    PROVE  HorizonOf(t)'
<1>0. TypeOK /\ TypeOK' /\ Base /\ Base'
  BY DEF Ground, Base, ShotsInv
<1>1. CASE t \notin live
  <2>1. rows'[t].next \in Int
    BY <1>0 DEF TypeOK, Row
  <2>2. QED
    BY <1>0, <1>1, <2>1, CreatedFields, NumbersAssumption DEF TaskStep, HorizonOf
<1>2. CASE t \in live
  <2> SUFFICES ASSUME rows'[t].kind = "self_paced", hist'[t].manual = 0
               PROVE  rows'[t].next <= rows'[t].created + Horizon
    BY DEF HorizonOf
  <2>1. /\ rows[t].kind = "self_paced" /\ hist[t].manual = 0 /\ ~hist[t].switched
        /\ rows'[t].created = rows[t].created /\ rows[t].created \in Nat
        /\ SnapsOf(t) /\ rows[t].next <= rows[t].created + Horizon
    BY <1>0, <1>2, IdentityStays, TaskTypes DEF Ground, SnapsInv, SnapsOf, HorizonOf
  <2>2. CASE rows'[t].next = Never
    BY <2>1, <2>2, NumbersAssumption DEF Never
  <2>3. ~\E e \in Entries(t) : e.snap.kind # "self_paced"
    BY <2>1 DEF SnapsOf, Faithful
  <2>4. ASSUME NEW f \in InFlight(t), firing[f].pc = "arm"
        PROVE  firing[f].next <= rows[t].created + Horizon
    <3>1. firing[f].next <= firing[f].snap.created + Horizon
      BY <1>0, <2>4 DEF Base, FiringsInv, Sound, InFlight
    <3>2. QED
      BY <2>1, <3>1 DEF SnapsOf, Faithful
  <2>5. QED
    BY <1>0, <1>2, <2>1, <2>2, <2>3, <2>4, NextFrom
<1>3. QED
  BY <1>1, <1>2

HorizonInv == Ground /\ \A t \in live : HorizonOf(t)

\* schedule.rs clamps every proposal at created_at + max_horizon_days, of the snapshot
\* the turn ran with: created_at never changes, so the loop's own expiry.
THEOREM SchedulerLoopEndsAtHorizon == Spec => []LoopEndsAtHorizon
<1>1. Init => HorizonInv
  BY GroundInit DEF HorizonInv, Init
<1>2. HorizonInv /\ [Next]_vars => HorizonInv'
  <2> SUFFICES ASSUME HorizonInv, [Next]_vars PROVE HorizonInv'
    OBVIOUS
  <2>1. Ground /\ Ground' /\ \A t \in live' : TaskStep(t)
    BY GroundStep DEF HorizonInv
  <2>2. QED
    BY <2>1, HorizonMove DEF HorizonInv
<1>3. HorizonInv => LoopEndsAtHorizon
  BY DEF HorizonInv, HorizonOf, LoopEndsAtHorizon
<1>4. QED
  BY <1>1, <1>2, <1>3, PTL DEF Spec

-----------------------------------------------------------------------------
(* A loop that is on is held *)

\* A firing that will still record a failure or decide the loop's future.
Deciding(f) ==
    /\ firing[f].trigger = "schedule"
    /\ firing[f].pc \in {"start", "running", "record"} \/ firing[f].result = "success"

HeldOf(t) ==
    /\ rows[t].kind = "self_paced" /\ rows[t].enabled
    /\ faults = 0 /\ ~hist[t].switched
    => \/ rows[t].next # Never
       \/ rows[t].lastStatus = "failed"
       \/ \E f \in InFlight(t) : Deciding(f)

LEMMA HeldStays ==
    ASSUME NEW t, HeldOf(t), RowStays(t), faults = 0, ~hist[t].switched,
           rows'[t].kind = "self_paced", rows'[t].enabled,
           \A f \in InFlight(t) : Deciding(f) => f \in InFlight(t)' /\ Deciding(f)'
    PROVE  \/ rows'[t].next # Never
           \/ rows'[t].lastStatus = "failed"
           \/ \E f \in InFlight(t)' : Deciding(f)'
BY DEF HeldOf, RowStays

\* A firing that does not move is still there.
LEMMA StillFlies ==
    ASSUME NEW t, NEW F, FliesStay(t, F), NEW f \in InFlight(t), f \notin F
    PROVE  /\ f \in InFlight(t)' /\ (f \in Scheduled(t) => f \in Scheduled(t)')
           /\ firing'[f] = firing[f] /\ (Deciding(f) => Deciding(f)')
BY DEF FliesStay, InFlight, Scheduled, Deciding

\* What a move of a firing does to the loop it belongs to.
LEMMA HeldByMove ==
    ASSUME Ground, Ground', NEW t \in live, TaskStep(t), HeldOf(t), IsMoved(t),
           rows'[t].kind = "self_paced", rows'[t].enabled, faults' = 0, ~hist'[t].switched,
           rows[t].kind = "self_paced", faults = 0, ~hist[t].switched
    PROVE  \/ rows'[t].next # Never
           \/ rows'[t].lastStatus = "failed"
           \/ \E f \in InFlight(t)' : Deciding(f)'
<1>0. TypeOK /\ Base /\ rows[t] \in Row /\ SnapsOf(t)
  BY TaskTypes DEF Ground, Base, ShotsInv, SnapsInv
<1>1. PICK f \in InFlight(t) :
         /\ FliesStay(t, {f})
         /\ \/ Dispatched(t, f) \/ Recorded(t, f) \/ Logged(t, f)
            \/ Decided(t, f) \/ WrittenBack(t, f)
  BY DEF IsMoved
<1>2. /\ f \in Firings /\ firing[f] \in Firing /\ firing[f].task = t /\ firing[f].pc # "free"
      /\ Sound(firing[f])
  BY <1>0 DEF InFlight, TypeOK, Base, FiringsInv
<1>3. ASSUME Deciding(f) => f \in InFlight(t)' /\ Deciding(f)'
      PROVE  \A g \in InFlight(t) : Deciding(g) => g \in InFlight(t)' /\ Deciding(g)'
  BY <1>1, <1>3, StillFlies
<1>4. CASE Dispatched(t, f)
  <2>1. Deciding(f) => f \in InFlight(t)' /\ Deciding(f)'
    BY <1>2, <1>4 DEF Dispatched, Deciding, AfterDispatch, InFlight
  <2>2. RowStays(t)
    BY <1>4 DEF Dispatched
  <2>3. QED
    BY <1>3, <2>1, <2>2, HeldStays
<1>5. CASE Recorded(t, f)
  <2>1. rows'[t] = RecordOutcome(rows[t], firing[f].result = "success", PauseReason(f))
    BY <1>5 DEF Recorded, Tried
  <2>2. rows'[t].lastStatus = IF firing[f].result = "success" THEN "success" ELSE "failed"
    <3>1. PICK success \in BOOLEAN : success = (firing[f].result = "success")
      OBVIOUS
    <3>2. rows'[t] = RecordOutcome(rows[t], success, PauseReason(f))
      BY <2>1, <3>1
    <3>3. rows'[t].lastStatus = IF success THEN "success" ELSE "failed"
      BY <1>0, <3>2, RecordFields
    <3>4. QED
      BY <3>1, <3>3
  <2>3. firing[f].result = "success" => f \in InFlight(t)' /\ Deciding(f)'
    BY <1>2, <1>5 DEF Recorded, Sound, Deciding, InFlight, Firing
  <2>4. QED
    BY <2>2, <2>3
<1>6. CASE Logged(t, f)
  <2>1. Deciding(f) => f \in InFlight(t)' /\ Deciding(f)'
    <3> SUFFICES ASSUME Deciding(f) PROVE f \in InFlight(t)' /\ Deciding(f)'
      OBVIOUS
    <3>1. firing[f].trigger = "schedule" /\ firing[f].result = "success"
      BY <1>6 DEF Deciding, Logged
    <3>2. firing[f].snap.kind = "self_paced"
      BY <1>0 DEF SnapsOf, Faithful
    <3>3. WritesBack(f)
      BY <3>1, <3>2 DEF WritesBack
    <3>4. firing'[f] = [firing[f] EXCEPT !.pc = "decide"]
      BY <1>6, <3>3 DEF Logged
    <3>5. QED
      BY <1>2, <3>1, <3>4 DEF Deciding, InFlight, Firing
  <2>2. RowStays(t)
    BY <1>6 DEF Logged
  <2>3. QED
    BY <1>3, <2>1, <2>2, HeldStays
<1>7. CASE Decided(t, f)
  <2>1. /\ firing'[f].pc = "arm" /\ firing'[f].task = t
        /\ firing'[f].trigger = firing[f].trigger /\ firing'[f].result = firing[f].result
    BY <1>0, <1>2, <1>7, VerdictFields, OwnVerdictFields DEF Decided
  <2>2. Deciding(f) => f \in InFlight(t)' /\ Deciding(f)'
    BY <1>2, <1>7, <2>1 DEF Decided, Deciding, InFlight
  <2>3. RowStays(t)
    BY <1>7 DEF Decided
  <2>4. QED
    BY <1>3, <2>2, <2>3, HeldStays
<1>8. CASE WrittenBack(t, f)
  <2>1. rows'[t] = ArmSelfPaced(rows[t], firing[f].next, firing[f].reason)
    BY <1>8 DEF WrittenBack, Tried
  <2>2. QED
    BY <1>0, <2>1, ArmFields
<1>9. QED
  BY <1>1, <1>4, <1>5, <1>6, <1>7, <1>8

LEMMA HeldMove ==
    ASSUME Ground, Ground', NEW t \in live', TaskStep(t), t \in live => HeldOf(t)
    PROVE  HeldOf(t)'
<1>0. TypeOK /\ TypeOK' /\ Base /\ Base'
  BY DEF Ground, Base, ShotsInv
<1>1. CASE t \notin live
  BY <1>0, <1>1, CreatedFields DEF TaskStep, HeldOf
<1>2. CASE t \in live
  <2> SUFFICES ASSUME rows'[t].kind = "self_paced", rows'[t].enabled,
                      faults' = 0, ~hist'[t].switched
               PROVE  \/ rows'[t].next # Never
                      \/ rows'[t].lastStatus = "failed"
                      \/ \E f \in InFlight(t)' : Deciding(f)'
    BY DEF HeldOf
  <2>1. /\ rows[t].kind = "self_paced" /\ faults = 0 /\ ~hist[t].switched
        /\ rows[t] \in Row /\ HeldOf(t)
    BY <1>0, <1>2, IdentityStays, TaskTypes
  <2>2. CASE IsMoved(t)
    BY <1>2, <2>1, <2>2, HeldByMove
  <2>3. CASE Rests(t) \/ IsClaimed(t) \/ IsPruned(t) \/ IsRunNow(t)
    <3>1. RowStays(t)
      BY <2>3 DEF Rests, IsClaimed, IsPruned, IsRunNow
    <3>2. \E F : FliesStay(t, F) /\ F \cap InFlight(t) = {}
      <4>1. CASE IsRunNow(t)
        <5>1. PICK f \in Firings : firing[f].pc = "free" /\ FliesStay(t, {f})
          BY <4>1 DEF IsRunNow
        <5>2. {f} \cap InFlight(t) = {}
          BY <5>1 DEF InFlight
        <5>3. QED
          BY <5>1, <5>2
      <4>2. CASE FliesStay(t, {})
        BY <4>2
      <4>3. QED
        BY <2>3, <4>1, <4>2 DEF Rests, IsClaimed, IsPruned
    <3>3. PICK F : FliesStay(t, F) /\ F \cap InFlight(t) = {}
      BY <3>2
    <3>4. \A f \in InFlight(t) : Deciding(f) => f \in InFlight(t)' /\ Deciding(f)'
      BY <3>3, StillFlies
    <3>5. QED
      BY <2>1, <3>1, <3>4, HeldStays
  <2>4. CASE IsPaused(t)
    <3>1. rows'[t] = MarkFired(rows[t], Never, "conversation_deleted")
      BY <2>1, <2>4 DEF IsPaused, Tried
    <3>2. QED
      BY <2>1, <3>1, MarkFiredFields
  <2>5. CASE IsShot(t)
    <3>1. PICK f \in Firings :
            \E snap, at, no : firing'[f] = Begun(t, "schedule", snap, at, no)
      BY <2>5 DEF IsShot
    <3>2. f \in InFlight(t)' /\ Deciding(f)'
      BY <3>1, BegunFields DEF InFlight, Deciding
    <3>3. QED
      BY <3>2
  <2>6. CASE IsEdited(t)
    <3>1. PICK r \in Requests :
             req[r].op = "update" /\ rows'[t] = UpdateRow(rows[t], req[r]) /\ FliesStay(t, {})
      BY <2>6 DEF IsEdited
    <3>2. PICK q : q = req[r] /\ q \in Request /\ Valid(q) /\ q.op = "update"
      BY <1>0, <3>1 DEF TypeOK, Base, RequestsInv
    <3>3. /\ rows'[t].lastStatus = rows[t].lastStatus
          /\ rows'[t].next = IF q.touched THEN q.next ELSE rows[t].next
          /\ rows'[t].enabled <=> IF q.enabled = "keep" THEN rows[t].enabled ELSE q.enabled = "on"
      BY <2>1, <3>1, <3>2, EditFields
    <3>4. CASE q.touched
      BY <3>2, <3>3, <3>4 DEF Valid
    <3>5. CASE ~q.touched
      <4>1. rows[t].enabled /\ rows'[t].next = rows[t].next
        BY <3>2, <3>3, <3>5 DEF Valid
      <4>2. \A f \in InFlight(t) : Deciding(f) => f \in InFlight(t)' /\ Deciding(f)'
        BY <3>1, StillFlies
      <4>3. QED
        BY <2>1, <3>3, <4>1, <4>2 DEF HeldOf
    <3>6. QED
      BY <3>4, <3>5
  <2>7. CASE IsCrashed(t)
    BY <2>1, <2>7 DEF IsCrashed
  <2>8. QED
    BY <1>2, <2>2, <2>3, <2>4, <2>5, <2>6, <2>7 DEF TaskStep
<1>3. QED
  BY <1>1, <1>2

HeldInv == Ground /\ \A t \in live : HeldOf(t)

\* Without lost statements and crashes, and for a loop no PUT turned into one while a
\* firing of its earlier kind ran: a row that is on and armed no more has a firing
\* that will arm it, disable it or record a failure; the loop is never silently lost.
THEOREM SchedulerLoopIsHeld == Spec => []LoopIsHeld
<1>1. Init => HeldInv
  BY GroundInit DEF HeldInv, Init
<1>2. HeldInv /\ [Next]_vars => HeldInv'
  <2> SUFFICES ASSUME HeldInv, [Next]_vars PROVE HeldInv'
    OBVIOUS
  <2>1. Ground /\ Ground' /\ \A t \in live' : TaskStep(t)
    BY GroundStep DEF HeldInv
  <2>2. QED
    BY <2>1, HeldMove DEF HeldInv
<1>3. HeldInv => LoopIsHeld
  BY DEF HeldInv, HeldOf, LoopIsHeld
<1>4. QED
  BY <1>1, <1>2, <1>3, PTL DEF Spec

-----------------------------------------------------------------------------
(* The failure cap is exact when firings do not overlap *)

\* A scheduled firing that has not yet recorded its outcome.
Unrecorded(f) == firing[f].pc \in {"start", "running", "record"}

\* The counter of the row, and of what was claimed or spawned with it.
RowCap(row) ==
    /\ row.enabled => row.fails < MaxFailures
    /\ row.reason = "max_failures" => row.fails >= MaxFailures

EntryCounts(t) ==
    \A e \in Entries(t) : e.snap.fails = rows[t].fails /\ rows[t].reason # "max_failures"

FiringCounts(t) ==
    \A f \in Scheduled(t) : Unrecorded(f) =>
        firing[f].snap.fails = rows[t].fails /\ rows[t].reason # "max_failures"

CapOf(t) ==
    ~hist[t].overlap /\ hist[t].manual = 0 =>
        RowCap(rows[t]) /\ EntryCounts(t) /\ FiringCounts(t)

LEMMA CapByMove ==
    ASSUME Ground, Ground', NEW t \in live, TaskStep(t), IsMoved(t), SoloOf(t), CapOf(t),
           ~hist[t].overlap, hist[t].manual = 0
    PROVE  /\ RowCap(rows'[t])
           /\ EntryCounts(t)' /\ FiringCounts(t)'
<1>0. /\ TypeOK /\ Base /\ rows[t] \in Row /\ SnapsOf(t) /\ rows[t].fails \in Nat
      /\ MaxFailures \in Nat \ {0}
  BY TaskTypes, NumbersAssumption DEF Ground, Base, ShotsInv, SnapsInv
<1>1. PICK f \in InFlight(t) :
         /\ FliesStay(t, {f}) /\ EntriesStay(t)
         /\ \/ Dispatched(t, f) \/ Recorded(t, f) \/ Logged(t, f)
            \/ Decided(t, f) \/ WrittenBack(t, f)
  BY DEF IsMoved
<1>2. /\ f \in Firings /\ firing[f] \in Firing /\ firing[f].task = t /\ firing[f].pc # "free"
      /\ Sound(firing[f]) /\ f \in Scheduled(t)
  BY <1>0 DEF InFlight, TypeOK, Base, FiringsInv, SnapsOf, Scheduled
<1>3. Scheduled(t) = {f} /\ Entries(t) = {}
  BY <1>2 DEF SoloOf
<1>4. Entries(t)' = {} /\ Scheduled(t)' \subseteq {f}
  <2>1. ~IsShot(t)
    BY <1>3 DEF IsShot
  <2>2. QED
    BY <1>0, <1>1, <1>3, <2>1, ScheduledFrom DEF EntriesStay
<1>5. RowCap(rows[t])
  BY DEF CapOf, RowCap
<1>6. ASSUME RowStays(t) PROVE RowCap(rows'[t])
  BY <1>5, <1>6 DEF RowStays, RowCap
<1>7. CASE Dispatched(t, f)
  <2>1. Unrecorded(f) /\ firing'[f].snap = firing[f].snap /\ RowStays(t)
    BY <1>7 DEF Dispatched, Unrecorded
  <2>2. firing[f].snap.fails = rows[t].fails /\ rows[t].reason # "max_failures"
    BY <1>2, <2>1 DEF CapOf, FiringCounts
  <2>3. QED
    BY <1>4, <1>6, <2>1, <2>2 DEF EntryCounts, FiringCounts, RowStays
<1>8. CASE Recorded(t, f)
  <2>1. ~Unrecorded(f)'
    BY <1>2, <1>8 DEF Recorded, Unrecorded, Firing
  <2>2. firing[f].snap.fails = rows[t].fails /\ rows[t].reason # "max_failures"
    BY <1>2, <1>8 DEF CapOf, FiringCounts, Recorded, Unrecorded
  <2>3. CASE RowStays(t)
    BY <1>4, <1>6, <2>1, <2>3 DEF EntryCounts, FiringCounts
  <2>4. CASE rows'[t] = RecordOutcome(rows[t], firing[f].result = "success", PauseReason(f))
    <3>1. PICK success \in BOOLEAN : success = (firing[f].result = "success")
      OBVIOUS
    <3>2. rows'[t] = RecordOutcome(rows[t], success, PauseReason(f))
      BY <2>4, <3>1
    <3>3. /\ rows'[t].fails = IF success THEN 0 ELSE rows[t].fails + 1
          /\ rows'[t].enabled <=> (rows[t].enabled /\ PauseReason(f) = "none")
          /\ rows'[t].reason = IF PauseReason(f) # "none" THEN PauseReason(f) ELSE rows[t].reason
      BY <1>0, <3>2, RecordFields
    <3>4. /\ success => PauseReason(f) = "none"
          /\ ~success /\ PauseReason(f) = "none" => rows[t].fails + 1 < MaxFailures
          /\ PauseReason(f) = "max_failures" =>
                ~success /\ rows[t].fails + 1 >= MaxFailures
      <4>1. CASE firing[f].result = "success"
        BY <3>1, <4>1 DEF PauseReason
      <4>2. CASE firing[f].result # "success"
        <5>1. PICK why : why = PauseReason(f)
          OBVIOUS
        <5>2. why = IF ~Transient(f) THEN "terminal"
                    ELSE IF rows[t].fails + 1 >= MaxFailures THEN "max_failures" ELSE "none"
          BY <2>2, <4>2, <5>1 DEF PauseReason
        <5>3. PICK n : n = rows[t].fails + 1 /\ n \in Nat
          BY <1>0
        <5>4. /\ why = "none" => ~(n >= MaxFailures)
              /\ why = "max_failures" => n >= MaxFailures
          BY <5>2, <5>3, Zenon
        <5>5. QED
          <6>1. ~success
            BY <3>1, <4>2
          <6>2. /\ why = "none" => n < MaxFailures
                /\ why = "max_failures" => n >= MaxFailures
            BY <1>0, <5>3, <5>4
          <6>3. QED
            BY <5>1, <5>3, <6>1, <6>2
      <4>3. QED
        BY <4>1, <4>2
    <3>5. RowCap(rows'[t])
      BY <1>0, <2>2, <3>3, <3>4 DEF RowCap
    <3>6. QED
      BY <1>4, <2>1, <3>5 DEF EntryCounts, FiringCounts
  <2>5. QED
    BY <1>8, <2>3, <2>4 DEF Recorded, Tried
<1>9. CASE Logged(t, f) \/ Decided(t, f)
  <2>1. ~Unrecorded(f)'
    BY <1>0, <1>2, <1>9, VerdictFields, OwnVerdictFields
       DEF Logged, Decided, Unrecorded, Firing, FreeFiring
  <2>2. RowStays(t)
    BY <1>9 DEF Logged, Decided
  <2>3. QED
    BY <1>4, <1>6, <2>1, <2>2 DEF EntryCounts, FiringCounts
<1>10. CASE WrittenBack(t, f)
  <2>1. ~Unrecorded(f)'
    BY <1>10 DEF WrittenBack, Unrecorded, FreeFiring
  <2>2. CASE RowStays(t)
    BY <1>4, <1>6, <2>1, <2>2 DEF EntryCounts, FiringCounts
  <2>3. CASE rows'[t] = ArmSelfPaced(rows[t], firing[f].next, firing[f].reason)
    <3>1. firing[f].reason # "max_failures"
      BY <1>2, <1>10 DEF WrittenBack, Sound
    <3>2. /\ rows'[t].fails = rows[t].fails
          /\ rows'[t].enabled => rows[t].enabled
          /\ rows'[t].reason \in {firing[f].reason, rows[t].reason}
      BY <1>0, <2>3, ArmFields
    <3>3. RowCap(rows'[t])
      BY <1>5, <3>1, <3>2 DEF RowCap
    <3>4. QED
      BY <1>4, <2>1, <3>3 DEF EntryCounts, FiringCounts
  <2>4. QED
    BY <1>10, <2>2, <2>3 DEF WrittenBack, Tried
<1>11. QED
  BY <1>1, <1>7, <1>8, <1>9, <1>10

LEMMA CapMove ==
    ASSUME Ground, Ground', NEW t \in live', TaskStep(t),
           t \in live => SoloOf(t) /\ CapOf(t)
    PROVE  CapOf(t)'
<1>0. TypeOK /\ TypeOK' /\ Base /\ Base' /\ MaxFailures \in Nat \ {0}
  BY NumbersAssumption DEF Ground, Base, ShotsInv
<1>1. CASE t \notin live
  BY <1>0, <1>1, CreatedFields DEF TaskStep, CapOf, RowCap, EntryCounts, FiringCounts, Scheduled
<1>2. CASE t \in live
  <2> SUFFICES ASSUME ~hist'[t].overlap, hist'[t].manual = 0
               PROVE  RowCap(rows'[t]) /\ EntryCounts(t)' /\ FiringCounts(t)'
    BY DEF CapOf
  <2>1. /\ ~hist[t].overlap /\ hist[t].manual = 0 /\ rows[t] \in Row /\ hist[t].manual \in Nat
    BY <1>0, <1>2, IdentityStays, OverlapFrom, TaskTypes
  <2>2. RowCap(rows[t]) /\ EntryCounts(t) /\ FiringCounts(t)
    BY <1>2, <2>1 DEF CapOf
  <2>3. ASSUME FliesStay(t, {}),
               rows'[t].fails = rows[t].fails,
               rows'[t].reason \in {"completed", "conversation_deleted", rows[t].reason}
        PROVE  FiringCounts(t)'
    <3> SUFFICES ASSUME NEW f \in Scheduled(t)', Unrecorded(f)'
                 PROVE  firing'[f].snap.fails = rows'[t].fails /\ rows'[t].reason # "max_failures"
      BY DEF FiringCounts
    <3>1. firing'[f] = firing[f] /\ f \in Scheduled(t) /\ Unrecorded(f)
      BY <2>3 DEF FliesStay, Scheduled, InFlight, Unrecorded
    <3>2. QED
      BY <2>2, <2>3, <3>1 DEF FiringCounts
  <2>4. CASE IsMoved(t)
    BY <1>2, <2>1, <2>4, CapByMove
  <2>5. CASE IsRunNow(t)
    BY <2>1, <2>5 DEF IsRunNow
  <2>6. CASE Rests(t) \/ IsPruned(t) \/ IsClaimed(t) \/ IsCrashed(t)
    <3>1. RowStays(t) /\ RowCap(rows'[t])
      BY <2>2, <2>6 DEF Rests, IsPruned, IsClaimed, IsCrashed, RowStays, RowCap
    <3>2. EntryCounts(t)'
      <4>1. IsClaimed(t) => rows[t].reason = "none"
        BY DEF IsClaimed, IsDue
      <4>2. QED
        BY <1>2, <2>2, <3>1, <4>1, EntriesFrom, SnapFields DEF EntryCounts, RowStays
    <3>3. FliesStay(t, {}) \/ InFlight(t)' = {}
      BY <2>6 DEF Rests, IsPruned, IsClaimed, IsCrashed
    <3>4. InFlight(t)' = {} => FiringCounts(t)'
      BY DEF FiringCounts, Scheduled
    <3>5. QED
      BY <2>3, <3>1, <3>2, <3>3, <3>4 DEF RowStays
  <2>7. CASE IsPaused(t)
    <3>1. CASE RowStays(t)
      <4>1. Entries(t)' = {} /\ FliesStay(t, {})
        BY <2>7 DEF IsPaused
      <4>2. RowCap(rows'[t])
        BY <2>2, <3>1 DEF RowStays, RowCap
      <4>3. FiringCounts(t)'
        BY <2>3, <3>1, <4>1 DEF RowStays
      <4>4. QED
        BY <4>1, <4>2, <4>3 DEF EntryCounts
    <3>2. CASE rows'[t] = MarkFired(rows[t], Never, "conversation_deleted")
      <4>1. /\ rows'[t].fails = rows[t].fails /\ ~rows'[t].enabled
            /\ rows'[t].reason = "conversation_deleted"
        BY <2>1, <3>2, MarkFiredFields
      <4>2. Entries(t)' = {} /\ FliesStay(t, {})
        BY <2>7 DEF IsPaused
      <4>3. RowCap(rows'[t])
        BY <4>1 DEF RowCap
      <4>4. FiringCounts(t)'
        BY <2>3, <4>1, <4>2
      <4>5. QED
        BY <4>2, <4>3, <4>4 DEF EntryCounts
    <3>3. QED
      BY <2>7, <3>1, <3>2 DEF IsPaused, Tried
  <2>8. CASE IsShot(t)
    <3>1. PICK e \in Entries(t), g \in Firings :
             /\ Entries(t)' = {} /\ FliesStay(t, {g})
             /\ rows'[t] = IF e.snap.kind = "self_paced" THEN DisarmSelfPaced(rows[t])
                           ELSE MarkFired(rows[t], NextAfter(e.snap), "none")
             /\ firing'[g] = Begun(t, "schedule", e.snap, tick.now, hist[t].shots + 1)
      BY <2>8 DEF IsShot
    <3>2. /\ rows'[t].fails = rows[t].fails /\ (rows'[t].enabled => rows[t].enabled)
          /\ rows'[t].reason \in {"completed", rows[t].reason}
      BY <2>1, <3>1, MarkFiredFields, DisarmFields
    <3>3. e.snap.fails = rows[t].fails /\ rows[t].reason # "max_failures"
      BY <2>2 DEF EntryCounts
    <3>4. RowCap(rows'[t])
      BY <2>2, <3>2, <3>3 DEF RowCap
    <3>5. Scheduled(t)' \subseteq {g}
      <4>1. Scheduled(t) = {}
        BY <1>2, <2>1 DEF SoloOf
      <4>2. QED
        BY <3>1, <4>1 DEF Scheduled, InFlight, FliesStay
    <3>6. firing'[g].snap = e.snap
      BY <3>1, BegunFields
    <3>7. QED
      BY <3>1, <3>2, <3>3, <3>4, <3>5, <3>6 DEF EntryCounts, FiringCounts
  <2>9. CASE IsEdited(t)
    <3>1. PICK r \in Requests :
             /\ req[r].op = "update" /\ rows'[t] = UpdateRow(rows[t], req[r])
             /\ FliesStay(t, {}) /\ EntriesStay(t)
             /\ req[r].touched => hist'[t].manual = hist[t].manual + 1
      BY <2>9 DEF IsEdited
    <3>2. PICK q : q = req[r] /\ q \in Request /\ Valid(q) /\ q.op = "update" /\ ~q.touched
      BY <1>0, <2>1, <3>1 DEF TypeOK, Base, RequestsInv
    <3>3. /\ rows'[t].fails = rows[t].fails /\ rows'[t].reason = rows[t].reason
          /\ rows'[t].enabled => rows[t].enabled
      BY <2>1, <3>1, <3>2, EditFields DEF Valid
    <3>4. RowCap(rows'[t])
      BY <2>2, <3>3 DEF RowCap
    <3>5. FiringCounts(t)'
      <4>1. \A f \in Scheduled(t)' : firing'[f] = firing[f] /\ f \in Scheduled(t)
        BY <3>1 DEF FliesStay, Scheduled, InFlight
      <4>2. QED
        BY <2>2, <3>3, <4>1 DEF FiringCounts, Unrecorded
    <3>6. QED
      BY <2>2, <3>1, <3>3, <3>4, <3>5 DEF EntryCounts, EntriesStay
  <2>10. QED
    BY <1>2, <2>4, <2>5, <2>6, <2>7, <2>8, <2>9 DEF TaskStep
<1>3. QED
  BY <1>1, <1>2

CapInv == Ground /\ \A t \in live : SoloOf(t) /\ CapOf(t)

\* A firing compares the counter of the row it was claimed with, not the current one.
\* Where no claim met a firing in flight and no user re-armed the task, the two agree:
\* the task is on below max_consecutive_failures, and paused by the cap at it.
THEOREM SchedulerCapIsExact == Spec => []CapIsExact
<1>1. Init => CapInv
  BY GroundInit DEF CapInv, Init
<1>2. CapInv /\ [Next]_vars => CapInv'
  <2> SUFFICES ASSUME CapInv, [Next]_vars PROVE CapInv'
    OBVIOUS
  <2>1. Ground /\ Ground' /\ Base /\ Base' /\ \A t \in live' : TaskStep(t)
    BY GroundStep DEF CapInv, Ground
  <2>2. QED
    BY <2>1, SoloMove, CapMove DEF CapInv
<1>3. CapInv => CapIsExact
  BY DEF CapInv, CapOf, RowCap, CapIsExact
<1>4. QED
  BY <1>1, <1>2, <1>3, PTL DEF Spec

-----------------------------------------------------------------------------
(* A recurring task fires once for each occurrence *)

\* The occurrences up to n that lie before x, all of them when x is Never.
Passed(n, x) == {o \in {NextCron(i) : i \in 0..n} \cap 0..n : x = Never \/ o < x}

\* next_run_at is an occurrence, a claimed one is over, and each shot used one up.
OccasionsOf(t) ==
    rows[t].kind = "recurring" /\ hist[t].manual = 0 =>
        /\ rows[t].next # Never => \E i \in 0..now : rows[t].next = NextCron(i)
        /\ Entries(t) # {} => rows[t].next # Never /\ rows[t].next <= tick.now
        /\ hist[t].shots <= Cardinality(Passed(now, rows[t].next))

LEMMA PassedFinite ==
    ASSUME NEW n \in Nat, NEW x
    PROVE  IsFiniteSet(Passed(n, x)) /\ Cardinality(Passed(n, x)) \in Nat
<1>1. IsFiniteSet(0..n)
  BY FS_Interval
<1>2. Passed(n, x) \subseteq 0..n
  BY DEF Passed
<1>3. IsFiniteSet(Passed(n, x))
  BY <1>1, <1>2, FS_Subset
<1>4. QED
  BY <1>3, FS_CardinalityType

LEMMA PassedGrows ==
    ASSUME NEW m \in Nat, NEW n \in Nat, m <= n, NEW x, NEW y \in {x, Never}
    PROVE  Cardinality(Passed(m, x)) <= Cardinality(Passed(n, y))
<1>1. Passed(m, x) \subseteq Passed(n, y)
  <2> SUFFICES ASSUME NEW o \in Passed(m, x) PROVE o \in Passed(n, y)
    OBVIOUS
  <2>1. /\ o \in 0..m /\ (x = Never \/ o < x)
        /\ \E i \in 0..m : o = NextCron(i)
    BY DEF Passed
  <2>2. o \in 0..n /\ (y = Never \/ o < y) /\ \E i \in 0..n : o = NextCron(i)
    BY <2>1
  <2>3. QED
    BY <2>2 DEF Passed
<1>2. QED
  BY <1>1, PassedFinite, FS_Subset

LEMMA PassedAdds ==
    ASSUME NEW n \in Nat, NEW x \in 0..n, \E i \in 0..n : x = NextCron(i),
           NEW y \in Int, y = Never \/ y > x
    PROVE  Cardinality(Passed(n, x)) + 1 <= Cardinality(Passed(n, y))
<1> DEFINE S == Passed(n, x)
<1>1. x # Never
  BY DEF Never
<1>2. x \notin S /\ S \cup {x} \subseteq Passed(n, y)
  <2>1. x \notin S
    BY <1>1 DEF Passed
  <2>2. ASSUME NEW o \in S PROVE o \in Passed(n, y)
    BY <1>1, <2>2 DEF Passed
  <2>3. x \in Passed(n, y)
    BY DEF Passed
  <2>4. QED
    BY <2>1, <2>2, <2>3
<1>3. IsFiniteSet(S) /\ Cardinality(S) \in Nat
  BY PassedFinite
<1> HIDE DEF S
<1>4. IsFiniteSet(S \cup {x}) /\ Cardinality(S \cup {x}) = Cardinality(S) + 1
  BY <1>2, <1>3, FS_AddElement
<1>5. Cardinality(S \cup {x}) <= Cardinality(Passed(n, y))
  BY <1>2, PassedFinite, FS_Subset
<1>6. QED
  BY <1>4, <1>5 DEF S

\* A recurring task that no user re-arms: its instant is only moved by a shot, or taken
\* away together with the claim.
LEMMA QuietNext ==
    ASSUME Ground, Ground', NEW t \in live, TaskStep(t), ~IsShot(t),
           rows[t].kind = "recurring", hist[t].manual = 0, hist'[t].manual = 0
    PROVE  /\ rows'[t].next = rows[t].next \/ (rows'[t].next = Never /\ Entries(t)' = {})
           /\ hist'[t].shots = hist[t].shots
           /\ IsClaimed(t) \/ (Entries(t)' # {} => Entries(t) # {} /\ tick'.now = tick.now)
<1>0. TypeOK /\ Base /\ rows[t] \in Row /\ SnapsOf(t) /\ ~hist[t].switched
      /\ hist[t].manual \in Nat
  BY TaskTypes DEF Ground, Base, ShotsInv, SnapsInv, SnapsOf
<1>1. hist'[t].shots = hist[t].shots
  BY DEF TaskStep, Rests, IsClaimed, IsPaused, IsRunNow, IsMoved, Dispatched, Recorded, Logged,
         Decided, WrittenBack, IsEdited, IsPruned, IsCrashed, HistoryStays
<1>2. IsClaimed(t) \/ (Entries(t)' # {} => Entries(t) # {} /\ tick'.now = tick.now)
  BY DEF TaskStep, Rests, IsPaused, IsRunNow, IsMoved, IsEdited, IsPruned, IsCrashed, EntriesStay
<1>3. CASE IsPaused(t)
  <2>1. Entries(t)' = {}
        /\ (rows'[t] = MarkFired(rows[t], Never, "conversation_deleted") \/ RowStays(t))
    BY <1>3 DEF IsPaused, Tried
  <2>2. rows'[t].next \in {rows[t].next, Never}
    BY <1>0, <2>1, MarkFiredFields DEF RowStays
  <2>3. QED
    BY <1>1, <1>2, <2>1, <2>2
<1>4. CASE IsMoved(t)
  <2>1. PICK f \in InFlight(t) :
           \/ Dispatched(t, f) \/ Recorded(t, f) \/ Logged(t, f)
           \/ Decided(t, f) \/ WrittenBack(t, f)
    BY <1>4 DEF IsMoved
  <2>2. ~WrittenBack(t, f)
    <3>1. f \in Firings /\ Sound(firing[f]) /\ firing[f].snap.kind = "recurring"
      BY <1>0 DEF InFlight, Base, FiringsInv, SnapsOf, Faithful
    <3>2. QED
      BY <3>1 DEF WrittenBack, Sound
  <2>3. \/ RowStays(t)
        \/ rows'[t] = RecordOutcome(rows[t], firing[f].result = "success", PauseReason(f))
    BY <2>1, <2>2 DEF Dispatched, Recorded, Logged, Decided, Tried
  <2>4. rows'[t].next = rows[t].next
    BY <1>0, <2>3, RecordFields DEF RowStays
  <2>5. QED
    BY <1>1, <1>2, <2>4
<1>5. CASE IsEdited(t)
  <2>1. PICK r \in Requests :
           /\ rows'[t] = UpdateRow(rows[t], req[r])
           /\ req[r].touched => hist'[t].manual = hist[t].manual + 1
    BY <1>5 DEF IsEdited
  <2>2. rows'[t].next = rows[t].next
    BY <1>0, <2>1, EditFields DEF TypeOK
  <2>3. QED
    BY <1>1, <1>2, <2>2
<1>6. CASE Rests(t) \/ IsClaimed(t) \/ IsRunNow(t) \/ IsPruned(t) \/ IsCrashed(t)
  <2>1. rows'[t].next = rows[t].next
    BY <1>6 DEF Rests, IsClaimed, IsRunNow, IsPruned, IsCrashed, RowStays
  <2>2. QED
    BY <1>1, <1>2, <2>1
<1>7. QED
  BY <1>3, <1>4, <1>5, <1>6 DEF TaskStep

LEMMA OccasionsMove ==
    ASSUME Ground, Ground', NEW t \in live', TaskStep(t), t \in live => OccasionsOf(t)
    PROVE  OccasionsOf(t)'
<1>0. /\ TypeOK /\ TypeOK' /\ Base /\ Base' /\ now \in Nat /\ now' \in Nat /\ now' \in 0..MaxTime
      /\ MaxTime \in Nat
  BY NumbersAssumption DEF Ground, Base, ShotsInv, TypeOK
<1>1. CASE t \notin live
  <2>1. /\ rows'[t].kind = "recurring" => \E i \in 0..now' : rows'[t].next = NextCron(i)
        /\ hist'[t].shots = 0 /\ Entries(t)' = {}
    BY <1>0, <1>1, CreatedFields DEF TaskStep
  <2>2. PICK n, x : n = now' /\ x = rows'[t].next
    OBVIOUS
  <2>3. 0 <= Cardinality(Passed(n, x))
    BY <1>0, <2>2, PassedFinite
  <2>4. QED
    BY <2>1, <2>2, <2>3 DEF OccasionsOf
<1>2. CASE t \in live
  <2> SUFFICES ASSUME rows'[t].kind = "recurring", hist'[t].manual = 0
               PROVE  /\ rows'[t].next # Never => \E i \in 0..now' : rows'[t].next = NextCron(i)
                      /\ Entries(t)' # {} => rows'[t].next # Never /\ rows'[t].next <= tick'.now
                      /\ hist'[t].shots <= Cardinality(Passed(now', rows'[t].next))
    BY DEF OccasionsOf
  <2>1. /\ rows[t].kind = "recurring" /\ hist[t].manual = 0 /\ now <= now' /\ ~hist[t].switched
        /\ rows[t].next \in Int /\ hist[t].shots \in Nat /\ rows[t] \in Row /\ SnapsOf(t)
    BY <1>0, <1>2, IdentityStays, TaskTypes DEF Ground, SnapsInv, SnapsOf
  <2>2. /\ rows[t].next # Never => \E i \in 0..now : rows[t].next = NextCron(i)
        /\ Entries(t) # {} => rows[t].next # Never /\ rows[t].next <= tick.now
        /\ hist[t].shots <= Cardinality(Passed(now, rows[t].next))
    BY <1>2, <2>1 DEF OccasionsOf
  <2>3. PICK m, n, x, y : m = now /\ n = now' /\ x = rows[t].next /\ y = rows'[t].next
    OBVIOUS
  <2>4. m \in Nat /\ n \in Nat /\ m <= n /\ x \in Int
    BY <1>0, <2>1, <2>3
  <2>5. CASE ~IsShot(t)
    <3>1. /\ rows'[t].next = rows[t].next \/ (rows'[t].next = Never /\ Entries(t)' = {})
          /\ hist'[t].shots = hist[t].shots
          /\ IsClaimed(t) \/ (Entries(t)' # {} => Entries(t) # {} /\ tick'.now = tick.now)
      BY <1>2, <2>1, <2>5, QuietNext
    <3>2. y \in {x, Never}
      BY <2>3, <3>1
    <3>3. Cardinality(Passed(m, x)) <= Cardinality(Passed(n, y))
      BY <2>4, <3>2, PassedGrows
    <3>4. hist'[t].shots <= Cardinality(Passed(n, y))
      <4>1. Cardinality(Passed(m, x)) \in Nat /\ Cardinality(Passed(n, y)) \in Nat
        BY <2>4, PassedFinite
      <4>2. QED
        BY <2>1, <2>2, <2>3, <3>1, <3>3, <4>1
    <3>5. rows'[t].next # Never => \E i \in 0..now' : rows'[t].next = NextCron(i)
      BY <1>0, <2>1, <2>2, <3>1
    <3>6. Entries(t)' # {} => rows'[t].next # Never /\ rows'[t].next <= tick'.now
      <4>1. IsClaimed(t) => rows[t].next # Never /\ rows[t].next <= tick'.now
        BY DEF IsClaimed, IsDue
      <4>2. QED
        BY <2>2, <3>1, <4>1
    <3>7. QED
      BY <2>3, <3>4, <3>5, <3>6
  <2>6. CASE IsShot(t)
    <3>1. PICK e \in Entries(t) :
             /\ Entries(t)' = {} /\ hist'[t].shots = hist[t].shots + 1 /\ now' = now
             /\ rows'[t] = IF e.snap.kind = "self_paced" THEN DisarmSelfPaced(rows[t])
                           ELSE MarkFired(rows[t], NextAfter(e.snap), "none")
      BY <2>6 DEF IsShot
    <3>2. e.snap.kind = "recurring"
      BY <2>1 DEF SnapsOf, Faithful
    <3>3. y = NextCron(tick.now)
      BY <2>1, <2>3, <3>1, <3>2, MarkFiredFields DEF NextAfter
    <3>4. tick.now \in 0..now
      BY <1>0 DEF Ground, Base, SweepInPast, TypeOK, TickType
    <3>5. tick.now \in 0..MaxTime
      BY DEF Ground, Base, ShotsInv, TypeOK, TickType
    <3>6. y \in Int /\ (y = Never \/ y > tick.now)
      BY <3>3, <3>5, CronAssumption
    <3>7. x # Never /\ x <= tick.now /\ \E i \in 0..m : x = NextCron(i)
      BY <2>2, <2>3
    <3>8. x \in 0..m
      <4>1. PICK i \in 0..m : x = NextCron(i)
        BY <3>7
      <4>2. i \in 0..MaxTime
        BY <1>0, <2>3, <2>4, <4>1
      <4>3. x > i
        BY <3>7, <4>1, <4>2, CronAssumption
      <4>4. QED
        BY <2>3, <2>4, <3>4, <3>7, <4>3
    <3>9. Cardinality(Passed(m, x)) + 1 <= Cardinality(Passed(m, y))
      <4>1. y = Never \/ y > x
        BY <2>4, <3>4, <3>6, <3>7
      <4>2. QED
        BY <2>4, <3>6, <3>7, <3>8, <4>1, PassedAdds
    <3>10. hist'[t].shots <= Cardinality(Passed(now', rows'[t].next))
      <4>1. Cardinality(Passed(m, x)) \in Nat /\ Cardinality(Passed(m, y)) \in Nat
        BY <2>4, PassedFinite
      <4>2. m = n
        BY <2>3, <3>1
      <4>3. hist[t].shots <= Cardinality(Passed(m, x))
        BY <2>2, <2>3
      <4>4. hist'[t].shots <= Cardinality(Passed(n, y))
        BY <2>1, <3>1, <3>9, <4>1, <4>2, <4>3
      <4>5. QED
        BY <2>3, <4>4
    <3>11. rows'[t].next # Never => \E i \in 0..now' : rows'[t].next = NextCron(i)
      BY <2>3, <3>3, <3>4, <3>1
    <3>12. QED
      BY <3>1, <3>10, <3>11
  <2>7. QED
    BY <2>5, <2>6
<1>3. QED
  BY <1>1, <1>2

OccasionsInv == Ground /\ \A t \in live : OccasionsOf(t)

\* However late or slow the sweeps are, a recurring task fires at most once for each
\* match of its cron expression, unless a user re-arms it: mark_fired moves the row past
\* the sweep's clock, so an instant that was fired is behind it (coalesced catch-up).
THEOREM SchedulerOncePerOccurrence == Spec => []OncePerOccurrence
<1>1. Init => OccasionsInv
  BY GroundInit DEF OccasionsInv, Init
<1>2. OccasionsInv /\ [Next]_vars => OccasionsInv'
  <2> SUFFICES ASSUME OccasionsInv, [Next]_vars PROVE OccasionsInv'
    OBVIOUS
  <2>1. Ground /\ Ground' /\ \A t \in live' : TaskStep(t)
    BY GroundStep DEF OccasionsInv
  <2>2. QED
    BY <2>1, OccasionsMove DEF OccasionsInv
<1>3. OccasionsInv => OncePerOccurrence
  <2> SUFFICES ASSUME OccasionsInv, NEW t \in live, rows[t].kind = "recurring",
                      hist[t].manual = 0
               PROVE  hist[t].shots <= Cardinality({NextCron(i) : i \in 0..now} \cap 0..now)
    BY DEF OncePerOccurrence
  <2>1. TypeOK /\ now \in Nat /\ hist[t].shots \in Nat
    BY TaskTypes DEF OccasionsInv, Ground, Base, ShotsInv
  <2>2. PICK n, x : n = now /\ x = rows[t].next
    OBVIOUS
  <2>3. hist[t].shots <= Cardinality(Passed(n, x))
    BY <2>2 DEF OccasionsInv, OccasionsOf
  <2>4. Cardinality(Passed(n, x)) <= Cardinality(Passed(n, Never))
    BY <2>1, <2>2, PassedGrows
  <2>5. Passed(n, Never) = {NextCron(i) : i \in 0..n} \cap 0..n
    BY DEF Passed
  <2>6. Cardinality(Passed(n, x)) \in Nat /\ Cardinality(Passed(n, Never)) \in Nat
    BY <2>1, <2>2, PassedFinite
  <2>7. hist[t].shots <= Cardinality(Passed(n, Never))
    BY <2>1, <2>3, <2>4, <2>6
  <2>8. QED
    BY <2>2, <2>5, <2>7
<1>4. QED
  BY <1>1, <1>2, <1>3, PTL DEF Spec

-----------------------------------------------------------------------------
(* A goal-seeking loop stops at its turn cap *)

TurnCap == AtLeast(MaxTurns, 1)

\* The firings that may still arm the row but will not count a turn any more: users'
\* own, and those whose turn is in the audit log already.
Late(t) == {f \in InFlight(t) : \/ firing[f].trigger = "run_now"
                                \/ firing[f].pc \in {"decide", "arm"}}

\* Those that have decided to arm it.
Arming(t) == {f \in InFlight(t) : firing[f].pc = "arm" /\ firing[f].next # Never}

\* Those whose turn is not in the log yet.
Unlogged(t) == {f \in Scheduled(t) : firing[f].pc \in {"start", "running", "record", "log"}}

\* The shot that an armed or a claimed row owes.
Owed(t) == IF Entries(t) # {} \/ rows[t].next # Never THEN 1 ELSE 0

\* Every shot but the first was earned by a turn in the log, by a user, or by a fault.
Earned(t) ==
    hist[t].shots + Owed(t) + Cardinality(Late(t)) <=
        Cardinality(runs[t]) + 1 + hist[t].manual + hist[t].pruned + faults

\* The bound of the theorem, with what is still to come.
Capped(t) ==
    hist[t].shots + Owed(t) + Cardinality(Arming(t)) <=
        TurnCap + hist[t].manual + faults + hist[t].pruned

\* No turn is in the log before its firing put it there: the INSERT counts.
Numbered(t) ==
    /\ \A f \in Unlogged(t) : /\ firing[f].no \in 1..hist[t].shots
                              /\ \A r \in runs[t] : r[2] # firing[f].no
    /\ \A f, g \in Unlogged(t) : firing[f].no = firing[g].no => f = g
    /\ \A r \in runs[t] : r[2] <= hist[t].shots

Counted(t) == Earned(t) /\ Capped(t) /\ Numbered(t)

TurnsOf(t) ==
    /\ IsFiniteSet(InFlight(t))
    /\ rows[t].goal /\ ~hist[t].switched => Counted(t)

LEMMA SetMove ==
    ASSUME NEW S, NEW T, NEW g, T \ {g} = S \ {g}
    PROVE  /\ (g \in S <=> g \in T) => T = S
           /\ g \in S /\ g \notin T => T = S \ {g}
           /\ g \notin S /\ g \in T => T = S \cup {g}
OBVIOUS

LEMMA CountMove ==
    ASSUME NEW S, NEW T, NEW g, IsFiniteSet(S), T \ {g} = S \ {g}
    PROVE  /\ IsFiniteSet(T) /\ Cardinality(S) \in Nat /\ Cardinality(T) \in Nat
           /\ (g \in S <=> g \in T) => Cardinality(T) = Cardinality(S)
           /\ g \in S /\ g \notin T => Cardinality(T) + 1 = Cardinality(S)
           /\ g \notin S /\ g \in T => Cardinality(T) = Cardinality(S) + 1
<1>1. CASE g \in S <=> g \in T
  <2>1. S = T
    BY <1>1
  <2>2. QED
    BY <1>1, <2>1, FS_CardinalityType
<1>2. CASE g \in S /\ g \notin T
  <2>1. T = S \ {g}
    BY <1>2
  <2>2. QED
    BY SMTT(30), <1>2, <2>1, FS_RemoveElement, FS_CardinalityType
<1>3. CASE g \notin S /\ g \in T
  <2>1. T = S \cup {g}
    BY <1>3
  <2>2. QED
    BY <1>3, <2>1, FS_AddElement, FS_CardinalityType
<1>4. QED
  BY <1>1, <1>2, <1>3

\* What one firing's step leaves of the others.
LEMMA OthersStay ==
    ASSUME NEW t, NEW g, FliesStay(t, {g})
    PROVE  /\ InFlight(t)' \ {g} = InFlight(t) \ {g}
           /\ Late(t)' \ {g} = Late(t) \ {g}
           /\ Arming(t)' \ {g} = Arming(t) \ {g}
           /\ Unlogged(t)' \ {g} = Unlogged(t) \ {g}
           /\ \A f \in Unlogged(t) \ {g} : firing'[f].no = firing[f].no
<1>1. \A f \in (InFlight(t) \cup InFlight(t)') \ {g} : firing'[f] = firing[f]
  BY DEF FliesStay
<1>2. InFlight(t)' \ {g} = InFlight(t) \ {g}
  BY <1>1 DEF InFlight
<1>3. \A f \in InFlight(t) \ {g} : firing'[f] = firing[f]
  BY <1>1
<1>4. QED
  BY <1>2, <1>3 DEF Late, Arming, Unlogged, Scheduled

LEMMA AllStay ==
    ASSUME NEW t, FliesStay(t, {})
    PROVE  /\ InFlight(t)' = InFlight(t) /\ Late(t)' = Late(t)
           /\ Arming(t)' = Arming(t) /\ Unlogged(t)' = Unlogged(t)
           /\ \A f \in Unlogged(t) : firing'[f].no = firing[f].no
<1>1. \A f \in InFlight(t) \cup InFlight(t)' : firing'[f] = firing[f]
  BY DEF FliesStay
<1>2. InFlight(t)' = InFlight(t)
  BY <1>1 DEF InFlight
<1>3. QED
  BY <1>1, <1>2 DEF Late, Arming, Unlogged, Scheduled

LEMMA TurnNumbers ==
    ASSUME TypeOK, NEW t \in live, IsFiniteSet(InFlight(t))
    PROVE  /\ IsFiniteSet(Late(t)) /\ Cardinality(Late(t)) \in Nat
           /\ IsFiniteSet(Arming(t)) /\ Cardinality(Arming(t)) \in Nat
           /\ Cardinality(Arming(t)) <= Cardinality(Late(t))
           /\ IsFiniteSet(runs[t]) /\ Cardinality(runs[t]) \in Nat
           /\ runs[t] \subseteq Int \X Int
           /\ Owed(t) \in {0, 1} /\ TurnCap \in Nat \ {0} /\ faults \in Nat
           /\ hist[t].shots \in Nat /\ hist[t].manual \in Nat /\ hist[t].pruned \in Nat
<1>1. Late(t) \subseteq InFlight(t) /\ Arming(t) \subseteq Late(t)
  BY DEF Late, Arming
<1>2. /\ IsFiniteSet(Late(t)) /\ IsFiniteSet(Arming(t))
      /\ Cardinality(Arming(t)) <= Cardinality(Late(t))
  BY <1>1, FS_Subset
<1>3. IsFiniteSet(runs[t]) /\ runs[t] \subseteq Int \X Int
  BY DEF TypeOK
<1>4. TurnCap \in Nat \ {0}
  BY NumbersAssumption DEF TurnCap, AtLeast
<1>5. Owed(t) \in {0, 1}
  BY DEF Owed
<1>6. QED
  BY <1>2, <1>3, <1>4, <1>5, FS_CardinalityType, TaskTypes

\* A move that leaves the firings alone, and takes from the log only what the history
\* counts.
LEMMA CountedStays ==
    ASSUME TypeOK, TypeOK', NEW t \in live, IsFiniteSet(InFlight(t)), Counted(t),
           FliesStay(t, {}), hist'[t].shots = hist[t].shots, hist[t].manual <= hist'[t].manual,
           Owed(t)' + hist[t].manual <= Owed(t) + hist'[t].manual,
           hist[t].pruned + faults <= hist'[t].pruned + faults',
           Cardinality(runs[t]) + hist[t].pruned + faults
             <= Cardinality(runs'[t]) + hist'[t].pruned + faults',
           \A r \in runs'[t] : r \in runs[t] \/ r[2] < 0
    PROVE  IsFiniteSet(InFlight(t)') /\ Counted(t)'
<1>1. /\ InFlight(t)' = InFlight(t) /\ Late(t)' = Late(t)
      /\ Arming(t)' = Arming(t) /\ Unlogged(t)' = Unlogged(t)
      /\ \A f \in Unlogged(t) : firing'[f].no = firing[f].no
  BY AllStay
<1>2. /\ Cardinality(Late(t)) \in Nat /\ Cardinality(Arming(t)) \in Nat
      /\ Cardinality(runs[t]) \in Nat /\ Owed(t) \in {0, 1} /\ TurnCap \in Nat \ {0}
      /\ hist[t].shots \in Nat /\ hist[t].manual \in Nat /\ hist[t].pruned \in Nat
      /\ faults \in Nat
  BY TurnNumbers
<1>3. /\ Cardinality(runs'[t]) \in Nat /\ Owed(t)' \in {0, 1} /\ faults' \in Nat
      /\ hist'[t].manual \in Nat /\ hist'[t].pruned \in Nat
  <2>1. t \in Tasks
    BY TaskTypes
  <2>2. IsFiniteSet(runs'[t]) /\ hist'[t] \in History /\ faults' \in Nat
    BY <2>1 DEF TypeOK
  <2>3. QED
    BY <2>2, FS_CardinalityType DEF History, Owed
<1>4. Earned(t)'
  BY <1>1, <1>2, <1>3 DEF Counted, Earned
<1>5. Capped(t)'
  BY <1>1, <1>2, <1>3 DEF Counted, Capped, TurnCap
<1>6. Numbered(t)'
  <2>2. \A f \in Unlogged(t)' : /\ f \in Unlogged(t) /\ firing'[f].no = firing[f].no
                                /\ firing'[f].no \in 1..hist'[t].shots
                                /\ \A r \in runs'[t] : r[2] # firing'[f].no
    <3> SUFFICES ASSUME NEW f \in Unlogged(t)'
                 PROVE  /\ f \in Unlogged(t) /\ firing'[f].no = firing[f].no
                        /\ firing'[f].no \in 1..hist'[t].shots
                        /\ \A r \in runs'[t] : r[2] # firing'[f].no
      OBVIOUS
    <3>1. f \in Unlogged(t) /\ firing'[f].no = firing[f].no
      BY <1>1
    <3>2. firing[f].no \in 1..hist[t].shots /\ \A r \in runs[t] : r[2] # firing[f].no
      BY <3>1 DEF Counted, Numbered
    <3>3. QED
      BY <1>2, <3>1, <3>2
  <2>3. \A f, g \in Unlogged(t)' : firing'[f].no = firing'[g].no => f = g
    BY <1>1 DEF Counted, Numbered
  <2>4. \A r \in runs'[t] : r[2] <= hist'[t].shots
    <3> SUFFICES ASSUME NEW r \in runs'[t] PROVE r[2] <= hist'[t].shots
      OBVIOUS
    <3>1. r \in Int \X Int
      BY TaskTypes DEF TypeOK
    <3>2. PICK i : i = r[2] /\ i \in Int
      BY <3>1
    <3>3. i <= hist[t].shots \/ i < 0
      BY <3>2 DEF Counted, Numbered
    <3>4. QED
      BY <1>2, <3>2, <3>3
  <2>5. QED
    BY <2>2, <2>3, <2>4 DEF Numbered
<1>7. QED
  BY <1>1, <1>4, <1>5, <1>6 DEF Counted

\* A firing that begins: the others stay, and it owes no arming yet.
LEMMA BeginsUncounted ==
    ASSUME NEW t, NEW g \in Firings,
           IsFiniteSet(InFlight(t)), firing[g].pc = "free", FliesStay(t, {g}),
           firing'[g].pc = "start", firing'[g].task = t
    PROVE  /\ IsFiniteSet(InFlight(t)')
           /\ Arming(t)' = Arming(t)
           /\ firing'[g].trigger = "schedule" =>
                 Late(t)' = Late(t) /\ Unlogged(t)' = Unlogged(t) \cup {g}
           /\ firing'[g].trigger = "run_now" =>
                 /\ Unlogged(t)' = Unlogged(t)
                 /\ Cardinality(Late(t)') = Cardinality(Late(t)) + 1
           /\ g \notin Unlogged(t)
           /\ \A f \in Unlogged(t) : firing'[f].no = firing[f].no
<1>1. /\ InFlight(t)' \ {g} = InFlight(t) \ {g} /\ Late(t)' \ {g} = Late(t) \ {g}
      /\ Arming(t)' \ {g} = Arming(t) \ {g} /\ Unlogged(t)' \ {g} = Unlogged(t) \ {g}
      /\ \A f \in Unlogged(t) \ {g} : firing'[f].no = firing[f].no
  BY OthersStay
<1>3. /\ g \notin InFlight(t) /\ g \notin Late(t) /\ g \notin Arming(t) /\ g \notin Unlogged(t)
      /\ g \in InFlight(t)' /\ g \notin Arming(t)'
      /\ firing'[g].trigger = "schedule" => g \notin Late(t)' /\ g \in Unlogged(t)'
      /\ firing'[g].trigger = "run_now" => g \in Late(t)' /\ g \notin Unlogged(t)'
  BY DEF InFlight, Late, Arming, Unlogged, Scheduled
<1>4. IsFiniteSet(InFlight(t)')
  BY <1>1, CountMove
<1>5. IsFiniteSet(Late(t))
  <2>1. Late(t) \subseteq InFlight(t)
    BY DEF Late
  <2>2. QED
    BY <2>1, FS_Subset
<1>6. firing'[g].trigger = "run_now" => Cardinality(Late(t)') = Cardinality(Late(t)) + 1
  BY <1>1, <1>3, <1>5, CountMove
<1>7. Arming(t)' = Arming(t)
  BY <1>1, <1>3, SetMove
<1>8. firing'[g].trigger = "schedule" => Late(t)' = Late(t) /\ Unlogged(t)' = Unlogged(t) \cup {g}
  BY <1>1, <1>3, SetMove
<1>9. firing'[g].trigger = "run_now" => Unlogged(t)' = Unlogged(t)
  BY <1>1, <1>3, SetMove
<1>10. QED
  BY <1>1, <1>3, <1>4, <1>6, <1>7, <1>8, <1>9

LEMMA CountedByShot ==
    ASSUME TypeOK, NEW t \in live, IsFiniteSet(InFlight(t)), Counted(t), IsShot(t),
           \A e \in Entries(t) : e.snap.kind = "self_paced"
    PROVE  IsFiniteSet(InFlight(t)') /\ Counted(t)'
<1>1. PICK e \in Entries(t), g \in Firings :
         /\ Entries(t)' = {} /\ rows'[t] = DisarmSelfPaced(rows[t])
         /\ HistoryKeeps(t) /\ hist'[t].pruned = hist[t].pruned
         /\ hist'[t].shots = hist[t].shots + 1
         /\ firing[g].pc = "free" /\ FliesStay(t, {g})
         /\ firing'[g] = Begun(t, "schedule", e.snap, tick.now, hist[t].shots + 1)
         /\ runs'[t] = runs[t] /\ faults' = faults
  BY DEF IsShot, RunsStay
<1>2. /\ Cardinality(Late(t)) \in Nat /\ Cardinality(Arming(t)) \in Nat
      /\ Cardinality(runs[t]) \in Nat /\ TurnCap \in Nat \ {0}
      /\ hist[t].shots \in Nat /\ hist[t].manual \in Nat /\ hist[t].pruned \in Nat
      /\ faults \in Nat /\ runs[t] \subseteq Int \X Int
  BY TurnNumbers
<1>3. Owed(t) = 1 /\ Owed(t)' = 0
  <2>1. rows'[t].next = Never
    BY <1>1, TaskTypes, DisarmFields
  <2>2. QED
    BY <1>1, <2>1 DEF Owed
<1>4. /\ IsFiniteSet(InFlight(t)') /\ Late(t)' = Late(t) /\ Arming(t)' = Arming(t)
      /\ Unlogged(t)' = Unlogged(t) \cup {g}
      /\ g \notin Unlogged(t) /\ firing'[g].no = hist[t].shots + 1
      /\ \A f \in Unlogged(t) : firing'[f].no = firing[f].no
  <2>1. /\ firing'[g].pc = "start" /\ firing'[g].task = t
        /\ firing'[g].trigger = "schedule" /\ firing'[g].no = hist[t].shots + 1
    BY <1>1, BegunFields
  <2>2. QED
    BY <1>1, <2>1, BeginsUncounted
<1>5. hist'[t].manual = hist[t].manual
  BY <1>1 DEF HistoryKeeps
<1>6. Earned(t)' /\ Capped(t)'
  BY <1>1, <1>2, <1>3, <1>4, <1>5 DEF Counted, Earned, Capped, TurnCap
<1>7. Numbered(t)'
  <2>1. PICK n \in Nat : n = hist[t].shots
    BY <1>2
  <2>2. \A f \in Unlogged(t) : firing[f].no \in 1..n /\ \A r \in runs[t] : r[2] # firing[f].no
    BY <2>1 DEF Counted, Numbered
  <2>3. \A r \in runs[t] : r[2] \in Int /\ r[2] <= n
    BY <1>2, <2>1 DEF Counted, Numbered
  <2>4. \A f \in Unlogged(t)' : /\ firing'[f].no \in 1..(n + 1)
                                /\ \A r \in runs'[t] : r[2] # firing'[f].no
    BY <1>1, <1>4, <2>1, <2>2, <2>3
  <2>5. \A f, h \in Unlogged(t)' : firing'[f].no = firing'[h].no => f = h
    BY <1>4, <2>1, <2>2 DEF Counted, Numbered
  <2>6. \A r \in runs'[t] : r[2] <= n + 1
    BY <1>1, <2>3
  <2>7. QED
    BY <1>1, <2>1, <2>4, <2>5, <2>6 DEF Numbered
<1>8. QED
  BY <1>4, <1>6, <1>7 DEF Counted

LEMMA CountedByRunNow ==
    ASSUME TypeOK, NEW t \in live, IsFiniteSet(InFlight(t)), Counted(t), IsRunNow(t)
    PROVE  IsFiniteSet(InFlight(t)') /\ Counted(t)'
<1>1. PICK g \in Firings :
         /\ firing[g].pc = "free" /\ FliesStay(t, {g})
         /\ firing'[g] = Begun(t, "run_now", Snap(rows[t]), now, 0)
         /\ rows'[t].next = rows[t].next /\ Entries(t)' \subseteq Entries(t)
         /\ runs'[t] = runs[t] /\ faults' = faults
         /\ hist'[t].manual = hist[t].manual + 1 /\ hist'[t].shots = hist[t].shots
         /\ hist'[t].pruned = hist[t].pruned
  BY DEF IsRunNow, RowStays, EntriesStay, RunsStay
<1>2. /\ Cardinality(Late(t)) \in Nat /\ Cardinality(Arming(t)) \in Nat
      /\ Cardinality(runs[t]) \in Nat /\ TurnCap \in Nat \ {0}
      /\ hist[t].shots \in Nat /\ hist[t].manual \in Nat /\ hist[t].pruned \in Nat
      /\ faults \in Nat /\ Owed(t) \in {0, 1}
  BY TurnNumbers
<1>3. Owed(t)' \in {0, 1} /\ Owed(t)' <= Owed(t)
  BY <1>1 DEF Owed
<1>4. /\ IsFiniteSet(InFlight(t)') /\ Arming(t)' = Arming(t) /\ Unlogged(t)' = Unlogged(t)
      /\ Cardinality(Late(t)') = Cardinality(Late(t)) + 1
      /\ \A f \in Unlogged(t) : firing'[f].no = firing[f].no
  <2>1. firing'[g].pc = "start" /\ firing'[g].task = t /\ firing'[g].trigger = "run_now"
    BY <1>1, BegunFields
  <2>2. QED
    BY <1>1, <2>1, BeginsUncounted
<1>5. Earned(t)'
  BY <1>1, <1>2, <1>3, <1>4 DEF Counted, Earned
<1>6. Capped(t)'
  BY <1>1, <1>2, <1>3, <1>4 DEF Counted, Capped, TurnCap
<1>7. Numbered(t)'
  BY <1>1, <1>4 DEF Counted, Numbered
<1>8. QED
  BY <1>4, <1>5, <1>6, <1>7 DEF Counted

\* A step of a firing before its INSERT: its turn is still not in the log.
LEMMA CountedOnTheWay ==
    ASSUME TypeOK, NEW t \in live, IsFiniteSet(InFlight(t)), Counted(t),
           NEW f \in InFlight(t), FliesStay(t, {f}), HistoryStays(t), RunsStay(t),
           Owed(t)' <= Owed(t), faults' \in {faults, faults + 1},
           firing[f].pc \in {"start", "running", "record"},
           firing'[f].pc \in {"running", "record", "log"},
           firing'[f].task = t, firing'[f].trigger = firing[f].trigger,
           firing'[f].no = firing[f].no
    PROVE  IsFiniteSet(InFlight(t)') /\ Counted(t)'
<1>1. /\ InFlight(t)' \ {f} = InFlight(t) \ {f} /\ Late(t)' \ {f} = Late(t) \ {f}
      /\ Arming(t)' \ {f} = Arming(t) \ {f} /\ Unlogged(t)' \ {f} = Unlogged(t) \ {f}
      /\ \A g \in Unlogged(t) \ {f} : firing'[g].no = firing[g].no
  BY OthersStay
<1>2. /\ f \in InFlight(t)' /\ (f \in Late(t) <=> f \in Late(t)')
      /\ f \notin Arming(t) /\ f \notin Arming(t)'
      /\ f \in Unlogged(t) <=> f \in Unlogged(t)'
  BY DEF InFlight, Late, Arming, Unlogged, Scheduled
<1>3. /\ InFlight(t)' = InFlight(t) /\ Late(t)' = Late(t) /\ Arming(t)' = Arming(t)
      /\ Unlogged(t)' = Unlogged(t)
  BY <1>1, <1>2, SetMove
<1>4. /\ Cardinality(Late(t)) \in Nat /\ Cardinality(Arming(t)) \in Nat
      /\ Cardinality(runs[t]) \in Nat /\ TurnCap \in Nat \ {0}
      /\ hist[t].shots \in Nat /\ hist[t].manual \in Nat /\ hist[t].pruned \in Nat
      /\ faults \in Nat /\ Owed(t) \in {0, 1}
  BY TurnNumbers
<1>5. /\ hist'[t].shots = hist[t].shots /\ hist'[t].manual = hist[t].manual
      /\ hist'[t].pruned = hist[t].pruned /\ runs'[t] = runs[t] /\ Owed(t)' \in {0, 1}
  BY DEF HistoryStays, HistoryKeeps, RunsStay, Owed
<1>6. Earned(t)'
  BY <1>3, <1>4, <1>5 DEF Counted, Earned
<1>7. Capped(t)'
  BY <1>3, <1>4, <1>5 DEF Counted, Capped, TurnCap
<1>8. \A g \in Unlogged(t) : firing'[g].no = firing[g].no
  BY <1>1
<1>9. Numbered(t)'
  BY <1>3, <1>5, <1>8 DEF Counted, Numbered
<1>10. QED
  BY <1>3, <1>6, <1>7, <1>9 DEF Counted

\* The INSERT: the turn is in the log, or a fault lost it.
LEMMA CountedByLog ==
    ASSUME TypeOK, TypeOK', NEW t \in live, IsFiniteSet(InFlight(t)), Counted(t),
           NEW f \in InFlight(t), FliesStay(t, {f}), Logged(t, f), Owed(t)' <= Owed(t),
           firing[f].snap.goal
    PROVE  IsFiniteSet(InFlight(t)') /\ Counted(t)'
<1>0. /\ f \in Firings /\ firing[f] \in Firing /\ firing[f].pc = "log" /\ firing[f].task = t
      /\ firing[f].trigger \in {"schedule", "run_now"} /\ HistoryStays(t)
  BY DEF InFlight, TypeOK, Firing, Triggers, Logged
<1>1. /\ InFlight(t)' \ {f} = InFlight(t) \ {f} /\ Late(t)' \ {f} = Late(t) \ {f}
      /\ Arming(t)' \ {f} = Arming(t) \ {f} /\ Unlogged(t)' \ {f} = Unlogged(t) \ {f}
      /\ \A g \in Unlogged(t) \ {f} : firing'[g].no = firing[g].no
  BY OthersStay
<1>2. /\ firing'[f].pc \in {"decide", "free"}
      /\ firing'[f].pc = "decide" => /\ firing'[f].task = t
                                     /\ firing'[f].trigger = firing[f].trigger
  BY <1>0 DEF Logged, Firing, FreeFiring
<1>3. /\ f \notin Unlogged(t)' /\ f \notin Arming(t) /\ f \notin Arming(t)'
      /\ f \in Late(t) <=> firing[f].trigger = "run_now"
      /\ f \in Unlogged(t) <=> firing[f].trigger = "schedule"
  BY <1>0, <1>2 DEF InFlight, Late, Arming, Unlogged, Scheduled
<1>4. /\ Unlogged(t)' = Unlogged(t) \ {f} /\ Arming(t)' = Arming(t)
  BY <1>1, <1>3, SetMove
<1>5. /\ Cardinality(Late(t)) \in Nat /\ Cardinality(Arming(t)) \in Nat /\ IsFiniteSet(Late(t))
      /\ Cardinality(runs[t]) \in Nat /\ TurnCap \in Nat \ {0} /\ IsFiniteSet(runs[t])
      /\ hist[t].shots \in Nat /\ hist[t].manual \in Nat /\ hist[t].pruned \in Nat
      /\ faults \in Nat /\ Owed(t) \in {0, 1}
  BY TurnNumbers
<1>6. /\ hist'[t].shots = hist[t].shots /\ hist'[t].manual = hist[t].manual
      /\ hist'[t].pruned = hist[t].pruned /\ Owed(t)' \in {0, 1}
  BY <1>0 DEF HistoryStays, HistoryKeeps, Owed
<1>7. /\ Cardinality(Late(t)') \in Nat
      /\ Cardinality(Late(t)') <= Cardinality(Late(t)) + 1
      /\ firing[f].trigger = "run_now" => Cardinality(Late(t)') <= Cardinality(Late(t))
  <2>1. f \in Late(t) \/ f \notin Late(t)
    OBVIOUS
  <2>2. f \in Late(t)' \/ f \notin Late(t)'
    OBVIOUS
  <2>3. QED
    BY <1>1, <1>3, <1>5, <2>1, <2>2, CountMove
<1>8. IsFiniteSet(InFlight(t)')
  BY <1>1, CountMove
<1>9. CASE /\ firing[f].trigger = "schedule" /\ faults' = faults
           /\ runs'[t] = runs[t] \cup {<<firing[f].at, firing[f].no>>}
  <2>1. PICK n, at : n = firing[f].no /\ at = firing[f].at
    OBVIOUS
  <2>2. \A r \in runs[t] : r[2] # n
    BY <1>3, <1>9, <2>1 DEF Counted, Numbered
  <2>3. <<at, n>> \notin runs[t]
    <3>1. <<at, n>>[2] = n
      OBVIOUS
    <3>2. QED
      BY <2>2, <3>1
  <2>4. Cardinality(runs'[t]) = Cardinality(runs[t]) + 1
    <3>1. PICK S, r : S = runs[t] /\ r = <<at, n>>
      OBVIOUS
    <3>2. IsFiniteSet(S) /\ r \notin S /\ runs'[t] = S \cup {r}
      BY <1>5, <1>9, <2>1, <2>3, <3>1
    <3>3. Cardinality(S \cup {r}) = Cardinality(S) + 1
      BY <3>2, FS_AddElement
    <3>4. QED
      BY <3>1, <3>2, <3>3
  <2>5. Earned(t)'
    BY <1>5, <1>6, <1>7, <1>9, <2>4 DEF Counted, Earned
  <2>6. Capped(t)'
    BY <1>4, <1>5, <1>6, <1>9 DEF Counted, Capped, TurnCap
  <2>7. \A g \in Unlogged(t)' : /\ g \in Unlogged(t) /\ g # f
                                /\ firing'[g].no = firing[g].no /\ firing'[g].no # n
    BY <1>1, <1>3, <1>4, <1>9, <2>1 DEF Counted, Numbered
  <2>8. \A r \in runs'[t] : r \in runs[t] \/ r[2] = n
    BY <1>9, <2>1
  <2>9. \A g \in Unlogged(t)' : /\ firing'[g].no \in 1..hist'[t].shots
                                /\ \A r \in runs'[t] : r[2] # firing'[g].no
    BY <1>6, <2>7, <2>8 DEF Counted, Numbered
  <2>10. n <= hist[t].shots
    BY <1>3, <1>5, <1>9, <2>1 DEF Counted, Numbered
  <2>11. \A r \in runs'[t] : r[2] <= hist'[t].shots
    BY <1>6, <2>8, <2>10 DEF Counted, Numbered
  <2>12. \A g, h \in Unlogged(t)' : firing'[g].no = firing'[h].no => g = h
    BY <2>7 DEF Counted, Numbered
  <2>13. Numbered(t)'
    BY <2>9, <2>11, <2>12 DEF Numbered
  <2>14. QED
    BY <1>8, <2>5, <2>6, <2>13 DEF Counted
<1>10. CASE /\ runs'[t] = runs[t]
            /\ \/ firing[f].trigger = "run_now" /\ faults' \in {faults, faults + 1}
               \/ faults' = faults + 1
  <2>1. Earned(t)'
    BY <1>5, <1>6, <1>7, <1>10 DEF Counted, Earned
  <2>2. Capped(t)'
    BY <1>4, <1>5, <1>6, <1>10 DEF Counted, Capped, TurnCap
  <2>3. \A g \in Unlogged(t)' : g \in Unlogged(t) /\ firing'[g].no = firing[g].no
    BY <1>1, <1>4
  <2>4. Numbered(t)'
    BY <1>6, <1>10, <2>3 DEF Counted, Numbered
  <2>5. QED
    BY <1>8, <2>1, <2>2, <2>4 DEF Counted
<1>11. QED
  BY <1>0, <1>9, <1>10 DEF Logged, Tried, Counts, RunsStay

\* The verdict, which is to go on only below the cap.
LEMMA CountedByVerdict ==
    ASSUME TypeOK, NEW t \in live, IsFiniteSet(InFlight(t)), Counted(t),
           NEW f \in InFlight(t), FliesStay(t, {f}), Decided(t, f), Owed(t)' <= Owed(t),
           firing[f].snap.goal
    PROVE  IsFiniteSet(InFlight(t)') /\ Counted(t)'
<1>0. /\ f \in Firings /\ firing[f].pc = "decide" /\ firing[f].task = t /\ t \in Tasks
      /\ HistoryStays(t) /\ runs'[t] = runs[t] /\ faults' = faults
  BY TaskTypes DEF InFlight, Decided, RunsStay
<1>1. /\ InFlight(t)' \ {f} = InFlight(t) \ {f} /\ Late(t)' \ {f} = Late(t) \ {f}
      /\ Arming(t)' \ {f} = Arming(t) \ {f} /\ Unlogged(t)' \ {f} = Unlogged(t) \ {f}
      /\ \A g \in Unlogged(t) \ {f} : firing'[g].no = firing[g].no
  BY OthersStay
<1>2. PICK done \in BOOLEAN : firing'[f] = Verdict(f, done)
  BY DEF Decided
<1>3. /\ firing'[f].pc = "arm" /\ firing'[f].task = t
      /\ firing'[f].next # Never => Cardinality(runs[t]) < TurnCap
  BY <1>0, <1>2, VerdictFields DEF TurnCap
<1>4. /\ f \in Late(t) /\ f \in Late(t)' /\ f \notin Arming(t)
      /\ f \in Arming(t)' <=> firing'[f].next # Never
      /\ f \notin Unlogged(t) /\ f \notin Unlogged(t)' /\ f \in InFlight(t)'
  BY <1>0, <1>3 DEF InFlight, Late, Arming, Unlogged, Scheduled
<1>5. /\ InFlight(t)' = InFlight(t) /\ Late(t)' = Late(t) /\ Unlogged(t)' = Unlogged(t)
  BY <1>1, <1>4, SetMove
<1>6. /\ Cardinality(Late(t)) \in Nat /\ Cardinality(Arming(t)) \in Nat
      /\ IsFiniteSet(Late(t)) /\ IsFiniteSet(Arming(t))
      /\ Cardinality(runs[t]) \in Nat /\ TurnCap \in Nat \ {0}
      /\ hist[t].shots \in Nat /\ hist[t].manual \in Nat /\ hist[t].pruned \in Nat
      /\ faults \in Nat /\ Owed(t) \in {0, 1}
  BY TurnNumbers
<1>7. /\ hist'[t].shots = hist[t].shots /\ hist'[t].manual = hist[t].manual
      /\ hist'[t].pruned = hist[t].pruned /\ Owed(t)' \in {0, 1}
  BY <1>0 DEF HistoryStays, HistoryKeeps, Owed
<1>8. Earned(t)'
  BY <1>0, <1>5, <1>6, <1>7 DEF Counted, Earned
<1>9. Numbered(t)'
  <2>1. \A g \in Unlogged(t) : firing'[g].no = firing[g].no
    BY <1>1, <1>4
  <2>2. QED
    BY <1>0, <1>5, <1>7, <2>1 DEF Counted, Numbered
<1>10. Capped(t)'
  <2>1. CASE firing'[f].next = Never
    <3>1. Arming(t)' = Arming(t)
      BY <1>1, <1>4, <2>1, SetMove
    <3>2. QED
      BY <1>0, <1>6, <1>7, <3>1 DEF Counted, Capped, TurnCap
  <2>2. CASE firing'[f].next # Never
    <3>1. Cardinality(Arming(t)') \in Nat /\ Cardinality(Arming(t)') <= Cardinality(Late(t))
      <4>1. Arming(t)' \subseteq Late(t)
        <5>1. Arming(t) \subseteq Late(t)
          BY DEF Arming, Late
        <5>2. QED
          BY <1>1, <1>4, <5>1
      <4>2. QED
        BY <1>6, <4>1, FS_Subset, FS_CardinalityType
    <3>2. Cardinality(runs[t]) + 1 <= TurnCap
      BY <1>3, <1>6, <2>2
    <3>3. hist[t].shots + Owed(t) + Cardinality(Late(t)) <=
             TurnCap + hist[t].manual + hist[t].pruned + faults
      BY <1>6, <3>2 DEF Counted, Earned
    <3>4. QED
      BY <1>0, <1>6, <1>7, <3>1, <3>3 DEF Capped, TurnCap
  <2>3. QED
    BY <2>1, <2>2
<1>11. QED
  BY <1>5, <1>8, <1>9, <1>10 DEF Counted

\* The write-back arms the row with what its firing was counted for.
LEMMA CountedByWriteBack ==
    ASSUME TypeOK, NEW t \in live, IsFiniteSet(InFlight(t)), Counted(t),
           NEW f \in InFlight(t), FliesStay(t, {f}), EntriesStay(t), WrittenBack(t, f)
    PROVE  IsFiniteSet(InFlight(t)') /\ Counted(t)'
<1>0. /\ f \in Firings /\ firing[f].pc = "arm" /\ firing[f].task = t /\ rows[t] \in Row
      /\ HistoryStays(t) /\ runs'[t] = runs[t] /\ faults' \in {faults, faults + 1}
      /\ firing'[f].pc = "free"
  BY TaskTypes DEF InFlight, WrittenBack, RunsStay, Tried, FreeFiring
<1>1. /\ InFlight(t)' \ {f} = InFlight(t) \ {f} /\ Late(t)' \ {f} = Late(t) \ {f}
      /\ Arming(t)' \ {f} = Arming(t) \ {f} /\ Unlogged(t)' \ {f} = Unlogged(t) \ {f}
      /\ \A g \in Unlogged(t) \ {f} : firing'[g].no = firing[g].no
  BY OthersStay
<1>2. /\ f \in Late(t) /\ f \notin Late(t)' /\ f \notin Arming(t)'
      /\ f \in Arming(t) <=> firing[f].next # Never
      /\ f \notin Unlogged(t) /\ f \notin Unlogged(t)'
  BY <1>0 DEF InFlight, Late, Arming, Unlogged, Scheduled
<1>3. Unlogged(t)' = Unlogged(t)
  BY <1>1, <1>2, SetMove
<1>4. /\ Cardinality(Late(t)) \in Nat /\ Cardinality(Arming(t)) \in Nat
      /\ IsFiniteSet(Late(t)) /\ IsFiniteSet(Arming(t))
      /\ Cardinality(runs[t]) \in Nat /\ TurnCap \in Nat \ {0}
      /\ hist[t].shots \in Nat /\ hist[t].manual \in Nat /\ hist[t].pruned \in Nat
      /\ faults \in Nat /\ Owed(t) \in {0, 1}
  BY TurnNumbers
<1>5. /\ hist'[t].shots = hist[t].shots /\ hist'[t].manual = hist[t].manual
      /\ hist'[t].pruned = hist[t].pruned /\ Owed(t)' \in {0, 1}
  BY <1>0 DEF HistoryStays, HistoryKeeps, Owed
<1>6. /\ Cardinality(Late(t)') \in Nat /\ Cardinality(Late(t)') + 1 = Cardinality(Late(t))
      /\ Cardinality(Arming(t)') \in Nat
      /\ firing[f].next # Never => Cardinality(Arming(t)') + 1 = Cardinality(Arming(t))
      /\ firing[f].next = Never => Cardinality(Arming(t)') = Cardinality(Arming(t))
  BY <1>1, <1>2, <1>4, CountMove
<1>7. firing[f].next = Never => Owed(t)' <= Owed(t)
  <2>1. rows'[t] = ArmSelfPaced(rows[t], firing[f].next, firing[f].reason) \/ RowStays(t)
    BY DEF WrittenBack, Tried
  <2>2. rows'[t].next \in {rows[t].next, firing[f].next}
    BY <1>0, <2>1, ArmFields DEF RowStays
  <2>3. QED
    BY <2>2 DEF Owed, EntriesStay
<1>8. Earned(t)'
  BY <1>0, <1>4, <1>5, <1>6 DEF Counted, Earned
<1>9. Capped(t)'
  BY <1>0, <1>4, <1>5, <1>6, <1>7 DEF Counted, Capped, TurnCap
<1>10. Numbered(t)'
  <2>1. \A g \in Unlogged(t) : firing'[g].no = firing[g].no
    BY <1>1, <1>2
  <2>2. QED
    BY <1>0, <1>3, <1>5, <2>1 DEF Counted, Numbered
<1>11. IsFiniteSet(InFlight(t)')
  BY <1>1, CountMove
<1>12. QED
  BY <1>8, <1>9, <1>10, <1>11 DEF Counted

LEMMA TurnsMove ==
    ASSUME Ground, Ground', NEW t \in live', TaskStep(t), t \in live => TurnsOf(t)
    PROVE  TurnsOf(t)'
<1>0. TypeOK /\ TypeOK' /\ Base /\ Base'
  BY DEF Ground, Base, ShotsInv
<1>1. CASE t \notin live
  <2>1. /\ rows'[t].next # Never /\ hist'[t].shots = 0 /\ hist'[t].manual = 0
        /\ hist'[t].pruned = 0 /\ runs'[t] = {} /\ InFlight(t)' = {} /\ Entries(t)' = {}
    BY <1>0, <1>1, CreatedFields DEF TaskStep
  <2>2. Late(t)' = {} /\ Arming(t)' = {} /\ Unlogged(t)' = {} /\ Owed(t)' = 1
    BY <2>1 DEF Late, Arming, Unlogged, Scheduled, Owed
  <2>3. IsFiniteSet({}) /\ Cardinality({}) = 0
    BY FS_EmptySet
  <2>4. faults' \in Nat /\ TurnCap \in Nat \ {0}
    BY <1>0, NumbersAssumption DEF TypeOK, TurnCap, AtLeast
  <2>5. Earned(t)' /\ Capped(t)' /\ Numbered(t)'
    BY <2>1, <2>2, <2>3, <2>4 DEF Earned, Capped, TurnCap, Numbered
  <2>6. QED
    BY <2>1, <2>3, <2>5 DEF TurnsOf, Counted
<1>2. CASE t \in live /\ ~(rows'[t].goal /\ ~hist'[t].switched)
  <2>1. IsFiniteSet(InFlight(t))
    BY <1>2 DEF TurnsOf
  <2>2. ASSUME NEW g, FliesStay(t, {g}) PROVE IsFiniteSet(InFlight(t)')
    <3>1. InFlight(t)' \ {g} = InFlight(t) \ {g}
      BY <2>2, OthersStay
    <3>2. QED
      BY <2>1, <3>1, CountMove
  <2>3. FliesStay(t, {}) => IsFiniteSet(InFlight(t)')
    BY <2>1, AllStay
  <2>4. InFlight(t)' = {} => IsFiniteSet(InFlight(t)')
    BY FS_EmptySet
  <2>5. \/ InFlight(t)' = {} \/ FliesStay(t, {})
        \/ \E g : FliesStay(t, {g})
    BY <1>2 DEF TaskStep, Rests, IsClaimed, IsPaused, IsShot, IsRunNow, IsMoved, IsEdited,
                IsPruned, IsCrashed
  <2>6. IsFiniteSet(InFlight(t)')
    BY <2>2, <2>3, <2>4, <2>5
  <2>7. QED
    BY <1>2, <2>6 DEF TurnsOf
<1>3. CASE t \in live /\ rows'[t].goal /\ ~hist'[t].switched
  <2> SUFFICES IsFiniteSet(InFlight(t)') /\ Counted(t)'
    BY DEF TurnsOf
  <2>1. /\ rows[t].goal /\ ~hist[t].switched
        /\ hist[t].manual <= hist'[t].manual /\ rows[t] \in Row /\ t \in Tasks
    BY <1>0, <1>3, IdentityStays, TaskTypes
  <2>2. IsFiniteSet(InFlight(t)) /\ Counted(t) /\ SnapsOf(t)
    BY <1>3, <2>1 DEF TurnsOf, Ground, SnapsInv
  <2>3. /\ Cardinality(runs[t]) \in Nat /\ hist[t].shots \in Nat /\ hist[t].manual \in Nat
        /\ hist[t].pruned \in Nat /\ faults \in Nat /\ Owed(t) \in {0, 1}
        /\ IsFiniteSet(runs[t])
    BY <1>0, <1>3, <2>2, TurnNumbers
  <2>4. /\ \A e \in Entries(t) : e.snap.kind = "self_paced"
        /\ \A f \in InFlight(t) : firing[f].snap.goal /\ firing[f].snap.kind = "self_paced"
    BY <2>1, <2>2 DEF SnapsOf, Faithful
  <2>5. rows'[t].next = rows[t].next /\ Entries(t)' \subseteq Entries(t) => Owed(t)' <= Owed(t)
    BY DEF Owed
  <2>6. Owed(t)' \in {0, 1}
    BY DEF Owed
  <2>7. CASE Rests(t)
    <3>1. /\ FliesStay(t, {}) /\ rows'[t].next = rows[t].next /\ Entries(t)' \subseteq Entries(t)
          /\ hist'[t].shots = hist[t].shots /\ hist'[t].manual = hist[t].manual
          /\ hist'[t].pruned = hist[t].pruned /\ runs'[t] = runs[t] /\ faults <= faults'
      BY <2>7 DEF Rests, RowStays, HistoryStays, HistoryKeeps, EntriesStay, RunsStay, FaultsGrow
    <3>2. faults' \in Nat
      BY <1>0 DEF TypeOK
    <3>3. QED
      BY <1>0, <1>3, <2>2, <2>3, <2>5, <2>6, <3>1, <3>2, CountedStays
  <2>8. CASE IsClaimed(t)
    <3>1. /\ FliesStay(t, {}) /\ rows'[t].next = rows[t].next /\ rows[t].next # Never
          /\ hist'[t].shots = hist[t].shots /\ hist'[t].manual = hist[t].manual
          /\ hist'[t].pruned = hist[t].pruned /\ runs'[t] = runs[t] /\ faults' = faults
      BY <2>8 DEF IsClaimed, IsDue, RowStays, RunsStay
    <3>2. Owed(t) = 1
      BY <3>1 DEF Owed
    <3>3. QED
      BY <1>0, <1>3, <2>2, <2>3, <2>6, <3>1, <3>2, CountedStays
  <2>9. CASE IsPaused(t)
    <3>1. /\ FliesStay(t, {}) /\ Entries(t)' = {}
          /\ rows'[t] = MarkFired(rows[t], Never, "conversation_deleted") \/ RowStays(t)
          /\ hist'[t].shots = hist[t].shots /\ hist'[t].manual = hist[t].manual
          /\ hist'[t].pruned = hist[t].pruned /\ faults' \in {faults, faults + 1}
          /\ runs[t] \subseteq runs'[t] /\ \A r \in runs'[t] \ runs[t] : r[2] < 0
      BY <2>9 DEF IsPaused, Tried, HistoryStays, HistoryKeeps
    <3>2. rows'[t].next \in {rows[t].next, Never}
      <4>1. rows[t] \in Row
        BY <2>1
      <4>2. rows'[t] = MarkFired(rows[t], Never, "conversation_deleted") \/ RowStays(t)
        BY <3>1
      <4>3. QED
        BY <4>1, <4>2, MarkFiredFields DEF RowStays
    <3>3. Owed(t)' <= Owed(t)
      BY <3>1, <3>2 DEF Owed
    <3>4. Cardinality(runs[t]) <= Cardinality(runs'[t]) /\ Cardinality(runs'[t]) \in Nat
      <4>1. IsFiniteSet(runs'[t])
        BY <1>0, <2>1 DEF TypeOK
      <4>2. QED
        BY <3>1, <4>1, FS_Subset, FS_CardinalityType
    <3>5. \A r \in runs'[t] : r \in runs[t] \/ r[2] < 0
      BY <3>1
    <3>6. QED
      BY <1>0, <1>3, <2>2, <2>3, <2>6, <3>1, <3>3, <3>4, <3>5, CountedStays
  <2>10. CASE IsPruned(t)
    <3>1. /\ FliesStay(t, {}) /\ rows'[t].next = rows[t].next /\ Entries(t)' \subseteq Entries(t)
          /\ hist'[t].shots = hist[t].shots /\ hist'[t].manual = hist[t].manual
          /\ hist'[t].pruned = hist[t].pruned + Cardinality(runs[t] \ runs'[t])
          /\ runs'[t] \subseteq runs[t] /\ faults' = faults
      BY <2>10 DEF IsPruned, RowStays, HistoryKeeps, EntriesStay
    <3>2. /\ Cardinality(runs[t] \ runs'[t]) \in Nat /\ Cardinality(runs'[t]) \in Nat
          /\ Cardinality(runs[t]) = Cardinality(runs'[t]) + Cardinality(runs[t] \ runs'[t])
      <4>1. PICK S, T : S = runs[t] /\ T = runs'[t]
        OBVIOUS
      <4>2. IsFiniteSet(S) /\ T \subseteq S /\ S \cap T = T
        BY <2>3, <3>1, <4>1
      <4>3. /\ IsFiniteSet(S \ T) /\ IsFiniteSet(T)
            /\ Cardinality(S \ T) = Cardinality(S) - Cardinality(T)
        BY ZenonT(30), <4>2, FS_Difference, FS_Subset
      <4>4. Cardinality(S \ T) \in Nat /\ Cardinality(T) \in Nat /\ Cardinality(S) \in Nat
        BY <4>2, <4>3, FS_CardinalityType
      <4>5. QED
        BY <4>1, <4>3, <4>4
    <3>3. QED
      BY <1>0, <1>3, <2>2, <2>3, <2>5, <2>6, <3>1, <3>2, CountedStays
  <2>11. CASE IsEdited(t)
    <3>1. PICK r \in Requests :
             /\ rows'[t] = UpdateRow(rows[t], req[r])
             /\ IF req[r].touched THEN hist'[t].manual = hist[t].manual + 1
                ELSE hist'[t].manual = hist[t].manual
             /\ hist'[t].shots = hist[t].shots /\ hist'[t].pruned = hist[t].pruned
             /\ FliesStay(t, {}) /\ EntriesStay(t) /\ runs'[t] = runs[t] /\ faults' = faults
      BY <2>11 DEF IsEdited, RunsStay
    <3>2. req[r].touched \/ rows'[t].next = rows[t].next
      BY <1>0, <2>1, <3>1, EditFields DEF TypeOK
    <3>3. Owed(t)' + hist[t].manual <= Owed(t) + hist'[t].manual
      BY <2>3, <2>5, <2>6, <3>1, <3>2 DEF EntriesStay
    <3>4. QED
      BY <1>0, <1>3, <2>1, <2>2, <2>3, <3>1, <3>3, CountedStays
  <2>12. CASE IsCrashed(t)
    <3>1. /\ InFlight(t)' = {} /\ Entries(t)' = {} /\ rows'[t].next = rows[t].next
          /\ hist'[t].shots = hist[t].shots /\ hist'[t].manual = hist[t].manual
          /\ hist'[t].pruned = hist[t].pruned /\ runs'[t] = runs[t] /\ faults' = faults + 1
      BY <2>12 DEF IsCrashed, RowStays, HistoryStays, HistoryKeeps, RunsStay
    <3>2. Late(t)' = {} /\ Arming(t)' = {} /\ Unlogged(t)' = {}
      BY <3>1 DEF Late, Arming, Unlogged, Scheduled
    <3>3. IsFiniteSet({}) /\ Cardinality({}) = 0
      BY FS_EmptySet
    <3>4. Owed(t)' <= Owed(t)
      BY <2>5, <3>1
    <3>5. /\ Cardinality(Late(t)) \in Nat /\ Cardinality(Arming(t)) \in Nat
          /\ TurnCap \in Nat \ {0}
      BY <1>0, <1>3, <2>2, TurnNumbers
    <3>6. Earned(t)'
      BY <2>2, <2>3, <2>6, <3>1, <3>2, <3>3, <3>4, <3>5 DEF Counted, Earned
    <3>7. Capped(t)'
      BY <2>2, <2>3, <2>6, <3>1, <3>2, <3>3, <3>4, <3>5 DEF Counted, Capped, TurnCap
    <3>8. Numbered(t)'
      BY <2>2, <3>1, <3>2 DEF Counted, Numbered
    <3>9. QED
      BY <3>1, <3>3, <3>6, <3>7, <3>8 DEF Counted
  <2>13. CASE IsShot(t)
    BY <1>0, <1>3, <2>2, <2>4, <2>13, CountedByShot
  <2>14. CASE IsRunNow(t)
    BY <1>0, <1>3, <2>2, <2>14, CountedByRunNow
  <2>15. CASE IsMoved(t)
    <3>1. PICK f \in InFlight(t) :
             /\ FliesStay(t, {f}) /\ EntriesStay(t)
             /\ \/ Dispatched(t, f) \/ Recorded(t, f) \/ Logged(t, f)
                \/ Decided(t, f) \/ WrittenBack(t, f)
      BY <2>15 DEF IsMoved
    <3>2. /\ f \in Firings /\ firing[f] \in Firing /\ firing[f].task = t
          /\ firing[f].snap.goal /\ firing[f].trigger \in Triggers
      BY <1>0, <2>4 DEF InFlight, TypeOK, Firing
    <3>3. ASSUME rows'[t].next = rows[t].next PROVE Owed(t)' <= Owed(t)
      BY <2>5, <3>1, <3>3 DEF EntriesStay
    <3>4. CASE Dispatched(t, f)
      <4>1. /\ HistoryStays(t) /\ RunsStay(t) /\ faults' = faults
            /\ firing[f].pc \in {"start", "running"}
            /\ firing'[f].pc \in {"running", "record", "log"}
            /\ firing'[f].task = t /\ firing'[f].trigger = firing[f].trigger
            /\ firing'[f].no = firing[f].no /\ rows'[t].next = rows[t].next
        BY <3>4 DEF Dispatched, AfterDispatch, RowStays
      <4>2. QED
        BY <1>0, <1>3, <2>2, <3>1, <3>3, <4>1, CountedOnTheWay
    <3>5. CASE Recorded(t, f)
      <4>1. /\ HistoryStays(t) /\ RunsStay(t) /\ faults' \in {faults, faults + 1}
            /\ firing[f].pc = "record" /\ firing'[f].pc = "log"
            /\ firing'[f].task = t /\ firing'[f].trigger = firing[f].trigger
            /\ firing'[f].no = firing[f].no
        BY <3>2, <3>5 DEF Recorded, Tried, Firing
      <4>2. rows'[t].next = rows[t].next
        <5>1. \/ rows'[t] = RecordOutcome(rows[t], firing[f].result = "success", PauseReason(f))
              \/ RowStays(t)
          BY <3>5 DEF Recorded, Tried
        <5>2. rows[t] \in Row
          BY <2>1
        <5>3. QED
          BY <5>1, <5>2, RecordFields DEF RowStays
      <4>3. QED
        BY <1>0, <1>3, <2>2, <3>1, <3>3, <4>1, <4>2, CountedOnTheWay
    <3>6. CASE Logged(t, f)
      <4>1. rows'[t].next = rows[t].next
        BY <3>6 DEF Logged, RowStays
      <4>2. QED
        BY <1>0, <1>3, <2>2, <3>1, <3>2, <3>3, <3>6, <4>1, CountedByLog
    <3>7. CASE Decided(t, f)
      <4>1. rows'[t].next = rows[t].next
        BY <3>7 DEF Decided, RowStays
      <4>2. QED
        BY <1>0, <1>3, <2>2, <3>1, <3>2, <3>3, <3>7, <4>1, CountedByVerdict
    <3>8. CASE WrittenBack(t, f)
      BY <1>0, <1>3, <2>2, <3>1, <3>8, CountedByWriteBack
    <3>9. QED
      BY <3>1, <3>4, <3>5, <3>6, <3>7, <3>8
  <2>16. QED
    BY <1>3, <2>7, <2>8, <2>9, <2>10, <2>11, <2>12, <2>13, <2>14, <2>15 DEF TaskStep
<1>4. QED
  BY <1>1, <1>2, <1>3

TurnsInv == Ground /\ \A t \in live : TurnsOf(t)

\* A goal-seeking loop stops at goal_seek_max_turns: beyond it, it fires as often as a
\* user re-armed it or a fault or the pruning took a turn out of the log that
\* goal_eval::decide counts.  The evaluator may say "go on" for ever, and turns of the
\* user's own and scheduled ones may overlap in any way.
THEOREM SchedulerGoalTurnsBounded == Spec => []GoalTurnsBounded
<1>1. Init => TurnsInv
  BY GroundInit DEF TurnsInv, Init
<1>2. TurnsInv /\ [Next]_vars => TurnsInv'
  <2> SUFFICES ASSUME TurnsInv, [Next]_vars PROVE TurnsInv'
    OBVIOUS
  <2>1. Ground /\ Ground' /\ \A t \in live' : TaskStep(t)
    BY GroundStep DEF TurnsInv
  <2>2. QED
    BY <2>1, TurnsMove DEF TurnsInv
<1>3. TurnsInv => GoalTurnsBounded
  <2> SUFFICES ASSUME TurnsInv, NEW t \in live, rows[t].goal, ~hist[t].switched
               PROVE  hist[t].shots <=
                        AtLeast(MaxTurns, 1) + hist[t].manual + faults + hist[t].pruned
    BY DEF GoalTurnsBounded
  <2>1. TypeOK /\ IsFiniteSet(InFlight(t)) /\ Capped(t)
    BY DEF TurnsInv, TurnsOf, Counted, Ground, Base, ShotsInv
  <2>2. /\ Cardinality(Arming(t)) \in Nat /\ Owed(t) \in {0, 1} /\ TurnCap \in Nat \ {0}
        /\ hist[t].shots \in Nat /\ hist[t].manual \in Nat /\ hist[t].pruned \in Nat
        /\ faults \in Nat
    BY <2>1, TurnNumbers
  <2>3. hist[t].shots <= TurnCap + hist[t].manual + faults + hist[t].pruned
    BY <2>1, <2>2 DEF Capped
  <2>4. QED
    BY <2>3 DEF TurnCap
<1>4. QED
  BY <1>1, <1>2, <1>3, PTL DEF Spec

=============================================================================
