-------------------------- MODULE SchedulerTaskProofs --------------------------
(***************************************************************************)
(* Theorems about one task of Scheduler through its life: how often its    *)
(* row, its claims and its firings let it fire.  A step of the scheduler   *)
(* is seen from a task (TaskStep): most leave it alone, and the others are *)
(* a claim, a shot, one statement of a firing, an edit, ...  Every         *)
(* invariant below speaks of one task, and is kept by each of these moves. *)
(***************************************************************************)
EXTENDS SchedulerProofs

-----------------------------------------------------------------------------
(* A task's part of the state *)

\* What the sweep still holds of t.
Entries(t) == {e \in Image(tick.due) : e.task = t}

\* Statements about a task that has a row are about its columns; which conversation
\* it is bound to decides nothing here.
RowStays(t) ==
    /\ rows'[t].enabled = rows[t].enabled /\ rows'[t].reason = rows[t].reason
    /\ rows'[t].kind = rows[t].kind /\ rows'[t].goal = rows[t].goal
    /\ rows'[t].next = rows[t].next /\ rows'[t].lastStatus = rows[t].lastStatus
    /\ rows'[t].fails = rows[t].fails /\ rows'[t].created = rows[t].created

HistoryKeeps(t) ==
    /\ hist'[t].manual = hist[t].manual /\ hist'[t].switched = hist[t].switched
    /\ hist'[t].overlap = hist[t].overlap

HistoryStays(t) ==
    HistoryKeeps(t) /\ hist'[t].shots = hist[t].shots /\ hist'[t].pruned = hist[t].pruned

\* No firing of t moves, begins or ends, save F's.
FliesStay(t, F) ==
    \A f \in (InFlight(t) \cup InFlight(t)') \ F : firing'[f] = firing[f]

EntriesStay(t) ==
    Entries(t)' \subseteq Entries(t) /\ (Entries(t)' # {} => tick'.now = tick.now)

\* A statement that may fail: then it uses up a fault.
Tried(done, not) == \/ done /\ faults' = faults
                    \/ not /\ faults' = faults + 1

RunsStay(t) == runs'[t] = runs[t]

FaultsGrow == faults <= faults'

Rests(t) ==
    /\ RowStays(t) /\ HistoryStays(t) /\ FliesStay(t, {}) /\ EntriesStay(t)
    /\ RunsStay(t) /\ FaultsGrow /\ now <= now'

IsClaimed(t) ==
    /\ IsDue(t, now) /\ Entries(t) = {}
    /\ Entries(t)' # {} /\ \A e \in Entries(t)' : e.snap = Snap(rows[t])
    /\ tick'.now = now
    /\ RowStays(t) /\ FliesStay(t, {}) /\ RunsStay(t)
    /\ hist'[t].overlap <=> (hist[t].overlap \/ Scheduled(t) # {})
    /\ hist'[t].manual = hist[t].manual /\ hist'[t].switched = hist[t].switched
    /\ hist'[t].shots = hist[t].shots /\ hist'[t].pruned = hist[t].pruned
    /\ faults' = faults /\ now' = now

IsPaused(t) ==
    /\ Entries(t)' = {}
    /\ Tried(rows'[t] = MarkFired(rows[t], Never, "conversation_deleted"), RowStays(t))
    /\ HistoryStays(t) /\ FliesStay(t, {})
    /\ runs[t] \subseteq runs'[t]
    /\ \A r \in runs'[t] \ runs[t] : r[2] < 0
    /\ now' = now

\* A firing as it is spawned.
Begun(t, trigger, snap, at, no) ==
    [FreeFiring EXCEPT !.pc = "start", !.task = t, !.trigger = trigger, !.snap = snap,
                       !.at = at, !.no = no]

\* A shot: the row is advanced, and a firing begins with what the sweep holds.
NextAfter(snap) == IF snap.kind = "recurring" THEN NextCron(tick.now) ELSE Never

IsShot(t) ==
    \E e \in Entries(t), f \in Firings :
        /\ Entries(t)' = {}
        /\ rows'[t] = IF e.snap.kind = "self_paced" THEN DisarmSelfPaced(rows[t])
                      ELSE MarkFired(rows[t], NextAfter(e.snap), "none")
        /\ HistoryKeeps(t) /\ hist'[t].pruned = hist[t].pruned
        /\ hist'[t].shots = hist[t].shots + 1
        /\ firing[f].pc = "free" /\ FliesStay(t, {f})
        /\ firing'[f] = Begun(t, "schedule", e.snap, tick.now, hist[t].shots + 1)
        /\ RunsStay(t) /\ faults' = faults /\ now' = now

IsRunNow(t) ==
    \E f \in Firings :
        /\ firing[f].pc = "free" /\ FliesStay(t, {f})
        /\ firing'[f] = Begun(t, "run_now", Snap(rows[t]), now, 0)
        /\ RowStays(t) /\ EntriesStay(t) /\ RunsStay(t)
        /\ hist'[t].manual = hist[t].manual + 1
        /\ hist'[t].switched = hist[t].switched /\ hist'[t].overlap = hist[t].overlap
        /\ hist'[t].shots = hist[t].shots /\ hist'[t].pruned = hist[t].pruned
        /\ faults' = faults /\ now' = now

\* The steps of a firing f of t.
Dispatched(t, f) ==
    /\ firing[f].pc \in {"start", "running"}
    /\ firing'[f].pc \in {"running", AfterDispatch(f)}
    /\ firing'[f].task = t /\ firing'[f].trigger = firing[f].trigger
    /\ firing'[f].snap = firing[f].snap /\ firing'[f].no = firing[f].no
    /\ firing'[f].at = firing[f].at
    /\ RowStays(t) /\ HistoryStays(t) /\ RunsStay(t) /\ faults' = faults

Recorded(t, f) ==
    /\ firing[f].pc = "record"
    /\ Tried(rows'[t] = RecordOutcome(rows[t], firing[f].result = "success", PauseReason(f)),
             RowStays(t))
    /\ firing'[f] = [firing[f] EXCEPT !.pc = "log"]
    /\ HistoryStays(t) /\ RunsStay(t)

Counts(f) == firing[f].trigger = "schedule" /\ firing[f].snap.goal

Logged(t, f) ==
    /\ firing[f].pc = "log"
    /\ Tried(IF Counts(f) THEN runs'[t] = runs[t] \cup {<<firing[f].at, firing[f].no>>}
             ELSE RunsStay(t),
             RunsStay(t))
    /\ firing'[f] = IF WritesBack(f) THEN [firing[f] EXCEPT !.pc = "decide"] ELSE FreeFiring
    /\ RowStays(t) /\ HistoryStays(t)

\* What self_paced_writeback decides without an evaluator.
OwnVerdict(f) ==
    [firing[f] EXCEPT !.pc = "arm",
        !.next = NextSelfPacedFire(firing[f].proposal, firing[f].snap.created,
                                   firing[f].at),
        !.reason = "completed"]

Decided(t, f) ==
    /\ firing[f].pc = "decide"
    /\ \/ firing[f].snap.goal /\ \E done \in BOOLEAN : firing'[f] = Verdict(f, done)
       \/ ~firing[f].snap.goal /\ firing'[f] = OwnVerdict(f)
    /\ RowStays(t) /\ HistoryStays(t) /\ RunsStay(t) /\ faults' = faults

WrittenBack(t, f) ==
    /\ firing[f].pc = "arm"
    /\ Tried(rows'[t] = ArmSelfPaced(rows[t], firing[f].next, firing[f].reason), RowStays(t))
    /\ firing'[f] = FreeFiring
    /\ HistoryStays(t) /\ RunsStay(t)

IsMoved(t) ==
    \E f \in InFlight(t) :
        /\ FliesStay(t, {f}) /\ EntriesStay(t) /\ now' = now
        /\ \/ Dispatched(t, f) \/ Recorded(t, f) \/ Logged(t, f)
           \/ Decided(t, f) \/ WrittenBack(t, f)

IsEdited(t) ==
    \E r \in Requests :
        /\ req[r].op = "update"
        /\ rows'[t] = UpdateRow(rows[t], req[r])
        /\ IF req[r].touched
           THEN /\ hist'[t].manual = hist[t].manual + 1
                /\ hist'[t].switched
                     <=> (hist[t].switched \/ req[r].kind \notin {"keep", rows[t].kind})
           ELSE hist'[t].manual = hist[t].manual /\ hist'[t].switched = hist[t].switched
        /\ hist'[t].overlap = hist[t].overlap
        /\ hist'[t].shots = hist[t].shots /\ hist'[t].pruned = hist[t].pruned
        /\ FliesStay(t, {}) /\ EntriesStay(t) /\ RunsStay(t)
        /\ faults' = faults /\ now' = now

IsPruned(t) ==
    /\ runs'[t] \subseteq runs[t]
    /\ hist'[t].pruned = hist[t].pruned + Cardinality(runs[t] \ runs'[t])
    /\ hist'[t].shots = hist[t].shots /\ HistoryKeeps(t)
    /\ RowStays(t) /\ FliesStay(t, {}) /\ EntriesStay(t)
    /\ faults' = faults /\ now' = now

IsCrashed(t) ==
    /\ InFlight(t)' = {} /\ Entries(t)' = {}
    /\ RowStays(t) /\ HistoryStays(t) /\ RunsStay(t)
    /\ faults' = faults + 1 /\ now' = now

IsCreated(t) ==
    \E r \in Requests :
        /\ req[r].op = "create" /\ req[r].task = t /\ t \notin used
        /\ rows'[t] = [BlankRow EXCEPT !.enabled = TRUE, !.kind = req[r].kind,
                           !.goal = req[r].goal, !.target = req[r].target,
                           !.bound = req[r].bound, !.runAt = req[r].runAt,
                           !.next = req[r].next, !.created = now]
        /\ HistoryStays(t) /\ RunsStay(t)
        /\ InFlight(t)' = {} /\ Entries(t)' = {}
        /\ faults' = faults /\ now' = now

TaskStep(t) ==
    \/ t \notin live /\ IsCreated(t)
    \/ /\ t \in live
       /\ \/ Rests(t) \/ IsClaimed(t) \/ IsPaused(t) \/ IsShot(t) \/ IsRunNow(t)
          \/ IsMoved(t) \/ IsEdited(t) \/ IsPruned(t) \/ IsCrashed(t)

-----------------------------------------------------------------------------
(* Ids, requests and firings *)

NoHistory == [arms |-> 0, shots |-> 0, overlap |-> FALSE, manual |-> 0, pruned |-> 0,
              switched |-> FALSE]

\* What is claimed or in flight has been inserted, what a create is about has not been,
\* and it is the only one about it.
NamesInv ==
    /\ \A t \in Tasks : Entries(t) # {} => t \in used
    /\ \A f \in Firings : firing[f].pc # "free" => firing[f].task \in used
    /\ \A r \in Requests : req[r].op = "create" =>
          /\ req[r].task \notin used
          /\ \A q \in Requests : req[q].op = "create" /\ req[q].task = req[r].task => q = r
    /\ \A t \in Tasks \ used : hist[t] = NoHistory /\ runs[t] = {}

\* What validate_schedule and the handlers have seen to.
Valid(q) ==
    /\ q.op = "create" =>
          /\ q.next # Never
          /\ q.kind = "self_paced" => q.next <= now
          /\ q.kind = "recurring" => \E i \in 0..now : q.next = NextCron(i)
          /\ q.goal => q.kind = "self_paced"
    /\ q.op = "update" =>
          IF q.touched THEN q.next # Never ELSE q.kind = "keep" /\ q.enabled # "on"

RequestsInv == \A r \in Requests : Valid(req[r])

\* What fire_task knows by how far it is.
Sound(x) ==
    /\ x.pc = "record" => x.trigger = "schedule"
    /\ x.pc \in {"decide", "arm"} => x.snap.kind = "self_paced" /\ x.result = "success"
    /\ x.pc = "arm" => /\ x.next <= x.snap.created + Horizon
                       /\ x.next = Never \/ x.next > x.at
                       /\ x.reason \in {"completed", "incomplete"}

FiringsInv == \A f \in Firings : Sound(firing[f])

SweepInPast == tick.now <= now

Base == ShotsInv /\ NamesInv /\ RequestsInv /\ FiringsInv /\ SweepInPast

-----------------------------------------------------------------------------
(* Every step, seen from one task *)

LEMMA EntryType ==
    ASSUME TypeOK, NEW t, NEW e \in Entries(t)
    PROVE  t \in Tasks /\ e.task = t /\ e.snap \in Snapshot
<1>1. PICK i \in DOMAIN tick.due : e = tick.due[i]
  BY DEF Entries, Image
<1>2. tick.due \in Seq([task : Tasks, snap : Snapshot, gone : BOOLEAN])
  BY DEF TypeOK, TickType
<1>3. tick.due[i] \in [task : Tasks, snap : Snapshot, gone : BOOLEAN]
  BY <1>1, <1>2, ElementOfSeq, LenProperties
<1>4. e.task = t
  BY DEF Entries
<1>5. QED
  BY <1>1, <1>3, <1>4

\* The sweep takes the head of its batch.
LEMMA HeadGoes ==
    ASSUME TypeOK, tick.due # <<>>, BatchIsDistinct, NextInBatch,
           NEW h, h = Head(tick.due).task
    PROVE  /\ Head(tick.due) \in Entries(h)
           /\ Entries(h)' = {}
           /\ \A t : EntriesStay(t)
<1> DEFINE s == tick.due
<1>1. /\ BatchIsDistinct'
      /\ \A i \in DOMAIN tick'.due : tick'.due[i].task # h
  BY BatchTail
<1>2. s \in Seq([task : Tasks, snap : Snapshot, gone : BOOLEAN]) /\ s # <<>>
  BY DEF TypeOK, TickType
<1>3. /\ Tail(s) \in Seq([task : Tasks, snap : Snapshot, gone : BOOLEAN])
      /\ Len(Tail(s)) = Len(s) - 1 /\ Len(s) \in Nat \ {0}
      /\ Head(s) = s[1]
      /\ \A i \in 1..Len(Tail(s)) : Tail(s)[i] = s[i + 1]
  BY <1>2, HeadTailProperties, EmptySeq
<1>4. DOMAIN s = 1..Len(s) /\ DOMAIN Tail(s) = 1..(Len(s) - 1)
  BY <1>2, <1>3, LenProperties
<1>5. tick'.due = Tail(s) /\ (Tail(s) # <<>> => tick'.now = tick.now)
  <2>1. CASE Tail(s) = <<>>
    BY <2>1 DEF NextInBatch, IdleTick
  <2>2. CASE Tail(s) # <<>>
    BY <2>2 DEF NextInBatch, TypeOK, TickType
  <2>3. QED
    BY <2>1, <2>2
<1>6. Image(tick'.due) \subseteq Image(s) /\ (Image(tick'.due) # {} => Tail(s) # <<>>)
  <2>1. \A i \in DOMAIN tick'.due : i + 1 \in DOMAIN s /\ tick'.due[i] = s[i + 1]
    BY <1>3, <1>4, <1>5
  <2>2. DOMAIN tick'.due # {} => Tail(s) # <<>>
    BY <1>5, EmptySeq, LenProperties
  <2>3. QED
    BY <2>1, <2>2 DEF Image
<1>7. \A t : EntriesStay(t)
  BY <1>5, <1>6 DEF EntriesStay, Entries
<1>8. Head(s) \in Entries(h)
  BY <1>3, <1>4 DEF Entries, Image
<1>9. Entries(h)' = {}
  BY <1>1 DEF Entries, Image
<1>10. QED
  BY <1>7, <1>8, <1>9

\* A step that leaves a part of the state alone leaves a task's view of it alone.
LEMMA Unmoved ==
    ASSUME NEW t
    PROVE  /\ firing' = firing => FliesStay(t, {})
           /\ tick' = tick => EntriesStay(t)
           /\ tick' = tick => Entries(t)' = Entries(t)
           /\ rows' = rows => RowStays(t)
           /\ hist' = hist => HistoryStays(t)
           /\ runs' = runs => RunsStay(t)
BY DEF FliesStay, EntriesStay, Entries, RowStays, HistoryStays, HistoryKeeps, RunsStay

\* One firing moves: another task does not see it, its own sees nothing else.
LEMMA OneFlies ==
    ASSUME TypeOK, NEW f \in Firings, NEW x, Becomes(f, x), NEW t,
           x.pc = "free" \/ x.task = firing[f].task
    PROVE  /\ FliesStay(t, {f})
           /\ f \notin InFlight(t) /\ firing[f].pc # "free" => FliesStay(t, {})
           /\ firing'[f] = x
BY DEF Becomes, FliesStay, InFlight, TypeOK

LEMMA BegunFields ==
    ASSUME NEW t, NEW trigger, NEW snap, NEW at, NEW no
    PROVE  LET x == Begun(t, trigger, snap, at, no)
           IN  /\ x.pc = "start" /\ x.task = t /\ x.trigger = trigger /\ x.snap = snap
               /\ x.at = at /\ x.no = no /\ x.result = "none"
BY DEF Begun, FreeFiring

LEMMA OneBegins ==
    ASSUME TypeOK, NEW f \in Firings, NEW u \in Tasks, NEW trigger, NEW snap, NEW at, NEW no,
           Spawn(f, u, trigger, snap, at, no), NEW t
    PROVE  /\ FliesStay(t, {f})
           /\ t # u => FliesStay(t, {})
           /\ firing'[f] = Begun(u, trigger, snap, at, no)
<1> DEFINE x == Begun(u, trigger, snap, at, no)
<1>1. x.task = u
  BY BegunFields
<1>2. firing[f].pc = "free" /\ firing' = [firing EXCEPT ![f] = x]
  BY DEF Spawn, Becomes, Begun
<1> HIDE DEF x
<1>3. firing'[f] = x
  BY <1>2 DEF TypeOK
<1>4. \A g \in Firings \ {f} : firing'[g] = firing[g]
  BY <1>2 DEF TypeOK
<1>5. QED
  BY <1>1, <1>2, <1>3, <1>4 DEF FliesStay, InFlight, x

LEMMA WriteElsewhere ==
    ASSUME TypeOK, NEW u, NEW row, Write(u, row), NEW t \in live
    PROVE  /\ t # u => RowStays(t)
           /\ t = u => rows'[t] = row
BY DEF Write, RowStays, TypeOK

LEMMA OverlapMarked ==
    ASSUME NEW h \in History, NEW b \in BOOLEAN, NEW g, g = [h EXCEPT !.overlap = @ \/ b]
    PROVE  /\ g.manual = h.manual /\ g.switched = h.switched
           /\ g.shots = h.shots /\ g.pruned = h.pruned
           /\ g.overlap <=> (h.overlap \/ b)
           /\ ~b => g.overlap = h.overlap
<1> DEFINE o == h.overlap \/ b
<1>1. g = [h EXCEPT !.overlap = o]
  OBVIOUS
<1>2. o \in BOOLEAN /\ h.overlap \in BOOLEAN
  BY DEF History
<1>3. /\ g.manual = h.manual /\ g.switched = h.switched
      /\ g.shots = h.shots /\ g.pruned = h.pruned /\ g.overlap = o
  <2> HIDE DEF o
  <2>1. QED
    BY <1>1 DEF History
<1>4. ~b => o = h.overlap
  BY <1>2
<1>5. QED
  BY <1>3, <1>4

\* What a sweep claims, and what it does to the history of a task.
LEMMA ClaimSeen ==
    ASSUME TypeOK, Claim, NEW t \in live
    PROVE  IsClaimed(t) \/ Rests(t)
<1> DEFINE due == {u \in Tasks : IsDue(u, now)}
           item(u) == [task |-> u, snap |-> Snap(rows[u]), gone |-> ConversationGone(rows[u])]
           Takes(s) == /\ tick' = [now |-> now, due |-> [i \in DOMAIN s |-> item(s[i])]]
                       /\ hist' = [u \in Tasks |-> [hist[u] EXCEPT
                             !.overlap = @ \/ (Scheduled(u) # {} /\ u \in Image(s))]]
<1>0. PICK n \in 1..Batch : \E s \in [1..n -> due] : Takes(s)
  BY DEF Claim
<1>1. PICK s \in [1..n -> due] : Takes(s)
  BY <1>0
<1>2. tick'.now = now /\ DOMAIN tick'.due = 1..n /\ \A i \in 1..n : tick'.due[i] = item(s[i])
  BY <1>1
<1>3. Entries(t) = {}
  BY DEF Claim, Entries, Image
<1>4. \A e \in Entries(t)' : t \in Image(s) /\ e.snap = Snap(rows[t])
  BY <1>1, <1>2 DEF Entries, Image
<1>5. t \in Image(s) => IsDue(t, now) /\ Entries(t)' # {}
  <2> SUFFICES ASSUME t \in Image(s) PROVE IsDue(t, now) /\ Entries(t)' # {}
    OBVIOUS
  <2>1. PICK i \in 1..n : s[i] = t
    BY <1>1 DEF Image
  <2>2. item(t) \in Entries(t)'
    BY <1>2, <2>1 DEF Entries, Image
  <2>3. QED
    BY <1>1, <2>1, <2>2
<1> DEFINE b == Scheduled(t) # {} /\ t \in Image(s)
<1>6. t \in Tasks /\ hist[t] \in History
  BY DEF TypeOK
<1>7. /\ hist'[t].manual = hist[t].manual /\ hist'[t].switched = hist[t].switched
      /\ hist'[t].shots = hist[t].shots /\ hist'[t].pruned = hist[t].pruned
      /\ hist'[t].overlap <=> (hist[t].overlap \/ b)
      /\ ~b => hist'[t].overlap = hist[t].overlap
  <2>1. hist'[t] = [hist[t] EXCEPT !.overlap = @ \/ b]
    BY <1>1, <1>6
  <2>2. b \in BOOLEAN
    OBVIOUS
  <2> HIDE DEF b
  <2>3. QED
    BY ZenonT(30), <1>6, <2>1, <2>2, OverlapMarked
<1>8. /\ now' = now /\ rows' = rows /\ firing' = firing /\ runs' = runs /\ faults' = faults
      /\ faults \in Nat /\ now \in Int
  BY DEF Claim, TypeOK
<1>9. RowStays(t) /\ FliesStay(t, {}) /\ RunsStay(t)
  BY <1>8, Unmoved
<1>10. CASE t \in Image(s)
  BY <1>2, <1>3, <1>4, <1>5, <1>7, <1>8, <1>9, <1>10 DEF IsClaimed
<1>11. CASE t \notin Image(s)
  <2>1. HistoryStays(t)
    BY <1>7, <1>11 DEF HistoryStays, HistoryKeeps
  <2>2. EntriesStay(t)
    BY <1>4, <1>11 DEF EntriesStay
  <2>3. FaultsGrow /\ now <= now'
    BY <1>8 DEF FaultsGrow
  <2>4. QED
    BY <1>9, <2>1, <2>2, <2>3 DEF Rests
<1>12. QED
  BY <1>10, <1>11

\* What a statement that may have been refused did to a row.
LEMMA WriteTried ==
    ASSUME TypeOK, NEW u, NEW row, NEW t \in live,
           (Write(u, row) /\ UNCHANGED faults) \/ WriteFails
    PROVE  /\ t # u => RowStays(t)
           /\ t = u => Tried(rows'[t] = row, RowStays(t))
           /\ FaultsGrow
BY WriteElsewhere, Unmoved DEF WriteFails, Tried, FaultsGrow, TypeOK

LEMMA PauseSeen ==
    ASSUME TypeOK, BatchIsDistinct, PauseInsteadOfFiring, NEW t \in live
    PROVE  IsPaused(t) \/ Rests(t)
<1>0. PICK h \in Tasks : h = Head(tick.due).task
  BY BatchType DEF PauseInsteadOfFiring
<1> DEFINE row == MarkFired(rows[h], Never, "conversation_deleted")
           entry == <<tick.now, -1 - Cardinality(runs[h])>>
<1>1. /\ (Write(h, row) /\ UNCHANGED faults) \/ WriteFails
      /\ runs' = IF h \in live /\ rows[h].goal
                 THEN [runs EXCEPT ![h] = @ \cup {entry}] ELSE runs
      /\ now' = now /\ firing' = firing /\ hist' = hist
  BY <1>0 DEF PauseInsteadOfFiring
<1>2. Entries(h)' = {} /\ EntriesStay(t)
  BY <1>0, HeadGoes DEF PauseInsteadOfFiring
<1>3. /\ t # h => RowStays(t)
      /\ t = h => Tried(rows'[t] = row, RowStays(t))
      /\ FaultsGrow
  <2> HIDE DEF row
  <2>1. QED
    BY <1>1, WriteTried
<1>4. FliesStay(t, {}) /\ HistoryStays(t)
  BY <1>1, Unmoved
<1>5. CASE t = h
  <2>1. runs'[t] = runs[t] \/ runs'[t] = runs[t] \cup {entry}
    BY <1>1, <1>5 DEF TypeOK
  <2>2. entry[2] < 0
    BY FS_CardinalityType, <1>0 DEF TypeOK
  <2>3. runs[t] \subseteq runs'[t] /\ \A r \in runs'[t] \ runs[t] : r[2] < 0
    BY <2>1, <2>2
  <2>4. QED
    BY <1>1, <1>2, <1>3, <1>4, <1>5, <2>3 DEF IsPaused
<1>6. CASE t # h
  <2>1. RunsStay(t)
    BY <1>1, <1>6 DEF RunsStay, TypeOK
  <2>2. QED
    BY <1>1, <1>2, <1>3, <1>4, <1>6, <2>1 DEF Rests, TypeOK
<1>7. QED
  BY <1>5, <1>6

LEMMA AdvanceSeen ==
    ASSUME TypeOK, BatchIsDistinct, AdvanceAndFire, NEW t \in live
    PROVE  /\ IsShot(t) \/ Rests(t)
           /\ t = Head(tick.due).task => IsShot(t)
<1>0. PICK h \in Tasks : h = Head(tick.due).task
  BY BatchType DEF AdvanceAndFire
<1> DEFINE e == Head(tick.due)
           row == IF e.snap.kind = "self_paced" THEN DisarmSelfPaced(rows[h])
                  ELSE MarkFired(rows[h], NextAfter(e.snap), "none")
<1>1. /\ Write(h, row) /\ Shot(h, NextAfter(e.snap)) /\ runs' = runs
      /\ faults' = faults /\ now' = now
  BY <1>0 DEF AdvanceAndFire, NextAfter
<1>2. PICK f \in Firings : Spawn(f, h, "schedule", e.snap, tick.now, hist[h].shots + 1)
  BY <1>0 DEF AdvanceAndFire
<1>3. e \in Entries(h) /\ Entries(h)' = {} /\ EntriesStay(t)
  BY <1>0, HeadGoes DEF AdvanceAndFire
<1>4. /\ t # h => RowStays(t)
      /\ t = h => rows'[t] = row
  <2> HIDE DEF row
  <2>1. QED
    BY <1>1, WriteElsewhere
<1>5. /\ FliesStay(t, {f}) /\ (t # h => FliesStay(t, {})) /\ firing[f].pc = "free"
      /\ firing'[f] = Begun(h, "schedule", e.snap, tick.now, hist[h].shots + 1)
  <2> DEFINE no == hist[h].shots + 1
  <2>1. Spawn(f, h, "schedule", e.snap, tick.now, no)
    BY <1>2
  <2> HIDE DEF e, no
  <2>2. firing'[f] = Begun(h, "schedule", e.snap, tick.now, no)
    BY <2>1 DEF Spawn, Becomes, Begun, TypeOK
  <2>3. FliesStay(t, {f}) /\ (t # h => FliesStay(t, {}))
    BY <2>1, OneBegins
  <2>4. QED
    BY <2>1, <2>2, <2>3 DEF Spawn, no
<1>6. RunsStay(t) /\ FaultsGrow /\ now <= now'
  BY <1>1, Unmoved DEF FaultsGrow, TypeOK
<1>7. CASE t = h
  <2>1. hist'[t] = [Armed(hist[t], NextAfter(e.snap)) EXCEPT !.shots = @ + 1]
    BY <1>1, <1>7 DEF Shot, TypeOK
  <2>2. hist[t] \in History
    BY <1>7 DEF TypeOK
  <2>3. /\ HistoryKeeps(t) /\ hist'[t].pruned = hist[t].pruned
        /\ hist'[t].shots = hist[t].shots + 1
    <3> HIDE DEF e
    <3>1. QED
      BY <2>1, <2>2 DEF Armed, History, HistoryKeeps
  <2>4. QED
    BY <1>1, <1>3, <1>4, <1>5, <1>6, <1>7, <2>3 DEF IsShot
<1>8. CASE t # h
  <2>1. HistoryStays(t)
    BY <1>1, <1>8 DEF Shot, HistoryStays, HistoryKeeps, TypeOK
  <2>2. QED
    BY <1>0, <1>3, <1>4, <1>5, <1>6, <1>8, <2>1 DEF Rests
<1>9. QED
  BY <1>7, <1>8

LEMMA SkipSeen ==
    ASSUME TypeOK, BatchIsDistinct, SkipTask, NEW t \in live
    PROVE  Rests(t)
<1>1. EntriesStay(t)
  BY HeadGoes DEF SkipTask
<1>2. /\ rows' = rows /\ firing' = firing /\ hist' = hist /\ runs' = runs
      /\ faults' = faults + 1 /\ now' = now /\ now \in Int /\ faults \in Nat
  BY DEF SkipTask, WriteFails, TypeOK
<1>3. QED
  BY <1>1, <1>2, Unmoved DEF Rests, FaultsGrow

\* The slot of a firing on its way to the end of its run.
OnTheWay(f, x) ==
    /\ x.pc \in {"running", AfterDispatch(f)} /\ x.task = firing[f].task
    /\ x.trigger = firing[f].trigger /\ x.snap = firing[f].snap /\ x.no = firing[f].no
    /\ x.at = firing[f].at

Dispatches(f) ==
    \/ DispatchFails(f) \/ DispatchConflicts(f) \/ StartWorkflow(f)
    \/ StartTurn(f) \/ StartInNewConversation(f) \/ TargetEnds(f)

LEMMA DispatchSlot ==
    ASSUME TypeOK, NEW f \in Firings, Dispatches(f)
    PROVE  \E x : Becomes(f, x) /\ OnTheWay(f, x)
<1> DEFINE y == firing[f]
           a == AfterDispatch(f)
<1>0. y \in Firing /\ a = AfterDispatch(f)
  BY DEF TypeOK
<1> HIDE DEF a
<1>1. \A r : OnTheWay(f, [y EXCEPT !.pc = a, !.result = r])
  BY <1>0 DEF OnTheWay, Firing
<1>2. OnTheWay(f, [y EXCEPT !.pc = "running"])
  BY <1>0 DEF OnTheWay, Firing
<1>3. \A c : OnTheWay(f, [y EXCEPT !.pc = "running", !.conv = c])
  BY <1>0 DEF OnTheWay, Firing
<1>4. \A r, p : OnTheWay(f, [y EXCEPT !.pc = a, !.result = r, !.proposal = p])
  BY <1>0 DEF OnTheWay, Firing
<1>5. CASE DispatchFails(f) \/ DispatchConflicts(f)
  BY <1>0, <1>1, <1>5 DEF DispatchFails, DispatchConflicts
<1>6. CASE StartWorkflow(f)
  BY <1>2, <1>6 DEF StartWorkflow, Goto
<1>7. CASE StartTurn(f) \/ StartInNewConversation(f)
  BY <1>3, <1>7 DEF StartTurn, StartInNewConversation
<1>8. CASE TargetEnds(f)
  BY <1>0, <1>4, <1>8 DEF TargetEnds
<1>9. QED
  BY <1>5, <1>6, <1>7, <1>8 DEF Dispatches

LEMMA DispatchSeen ==
    ASSUME TypeOK, NEW f \in Firings, Dispatches(f), NEW t \in live
    PROVE  IsMoved(t) \/ Rests(t)
<1>1. PICK x : Becomes(f, x) /\ OnTheWay(f, x)
  BY DispatchSlot
<1>2. /\ FliesStay(t, {f}) /\ firing'[f] = x
      /\ f \notin InFlight(t) /\ firing[f].pc # "free" => FliesStay(t, {})
  BY <1>1, OneFlies DEF OnTheWay
<1>3. /\ firing[f].pc \in {"start", "running"}
      /\ tick' = tick /\ hist' = hist /\ runs' = runs /\ faults' = faults /\ now' = now
  BY DEF Dispatches, DispatchFails, DispatchConflicts, StartWorkflow, StartTurn,
         StartInNewConversation, TargetEnds
<1>4. RowStays(t)
  <2>1. CASE rows' = rows
    BY <2>1, Unmoved
  <2>2. CASE StartInNewConversation(f)
    <3>1. PICK c : Write(firing[f].task, [rows[firing[f].task] EXCEPT !.bound = c])
      BY <2>2 DEF StartInNewConversation
    <3>2. CASE t = firing[f].task
      <4>1. rows'[t] = [rows[t] EXCEPT !.bound = c]
        BY <3>1, <3>2, WriteElsewhere
      <4>2. QED
        BY <4>1 DEF RowStays, TypeOK, Row
    <3>3. CASE t # firing[f].task
      BY <3>1, <3>3, WriteElsewhere
    <3>4. QED
      BY <3>2, <3>3
  <2>3. QED
    BY <2>1, <2>2 DEF Dispatches, DispatchFails, DispatchConflicts, StartWorkflow,
                      StartTurn, TargetEnds
<1>5. EntriesStay(t) /\ HistoryStays(t) /\ RunsStay(t)
  BY <1>3, Unmoved
<1>6. CASE f \in InFlight(t)
  <2>1. firing[f].task = t
    BY <1>6 DEF InFlight
  <2>2. Dispatched(t, f)
    BY <1>1, <1>2, <1>3, <1>4, <1>5, <2>1 DEF Dispatched, OnTheWay
  <2>3. QED
    BY <1>2, <1>3, <1>5, <1>6, <2>2 DEF IsMoved
<1>7. CASE f \notin InFlight(t)
  BY <1>2, <1>3, <1>4, <1>5, <1>7 DEF Rests, FaultsGrow, TypeOK
<1>8. QED
  BY <1>6, <1>7

LEMMA RecordSeen ==
    ASSUME TypeOK, NEW f \in Firings, Record(f), NEW t \in live
    PROVE  IsMoved(t) \/ Rests(t)
<1> DEFINE u == firing[f].task
           x == [firing[f] EXCEPT !.pc = "log"]
           row == RecordOutcome(rows[u], firing[f].result = "success", PauseReason(f))
<1>1. /\ (Write(u, row) /\ UNCHANGED faults) \/ WriteFails
      /\ Becomes(f, x) /\ firing[f].pc = "record"
      /\ tick' = tick /\ hist' = hist /\ runs' = runs /\ now' = now
  BY DEF Record, Goto
<1>2. x.task = u
  BY DEF TypeOK, Firing
<1>3. /\ FliesStay(t, {f}) /\ firing'[f] = x
      /\ f \notin InFlight(t) => FliesStay(t, {})
  <2> HIDE DEF x
  <2>1. QED
    BY <1>1, <1>2, OneFlies
<1>4. /\ t # u => RowStays(t)
      /\ t = u => Tried(rows'[t] = row, RowStays(t))
      /\ FaultsGrow
  <2> HIDE DEF row, x
  <2>1. QED
    BY <1>1, WriteTried
<1>5. EntriesStay(t) /\ HistoryStays(t) /\ RunsStay(t)
  BY <1>1, Unmoved
<1>6. CASE f \in InFlight(t)
  <2>1. t = u
    BY <1>6 DEF InFlight
  <2>2. Recorded(t, f)
    BY <1>1, <1>3, <1>4, <1>5, <2>1 DEF Recorded
  <2>3. QED
    BY <1>1, <1>3, <1>5, <1>6, <2>2 DEF IsMoved
<1>7. CASE f \notin InFlight(t)
  <2>1. t # u
    BY <1>1, <1>7 DEF InFlight
  <2>2. QED
    BY <1>1, <1>3, <1>4, <1>5, <1>7, <2>1 DEF Rests, TypeOK
<1>8. QED
  BY <1>6, <1>7

LEMMA LogSeen ==
    ASSUME TypeOK, NEW f \in Firings, InsertRun(f), NEW t \in live
    PROVE  IsMoved(t) \/ Rests(t)
<1> DEFINE u == firing[f].task
           x == IF WritesBack(f) THEN [firing[f] EXCEPT !.pc = "decide"] ELSE FreeFiring
           entry == <<firing[f].at, firing[f].no>>
<1>1. /\ Becomes(f, x) /\ firing[f].pc = "log"
      /\ rows' = rows /\ tick' = tick /\ hist' = hist /\ now' = now
  BY DEF InsertRun, Goto
<1>2. \/ /\ runs' = IF Counts(f) /\ u \in live THEN [runs EXCEPT ![u] = @ \cup {entry}]
                    ELSE runs
         /\ faults' = faults
      \/ faults' = faults + 1 /\ runs' = runs
  BY DEF InsertRun, Counts
<1>3. x.pc = "free" \/ x.task = u
  BY DEF TypeOK, Firing, FreeFiring
<1>4. /\ FliesStay(t, {f}) /\ firing'[f] = x
      /\ f \notin InFlight(t) => FliesStay(t, {})
  <2> HIDE DEF x
  <2>1. QED
    BY <1>1, <1>3, OneFlies
<1>5. RowStays(t) /\ EntriesStay(t) /\ HistoryStays(t)
  BY <1>1, Unmoved
<1>6. /\ t # u => RunsStay(t)
      /\ t = u => Tried(IF Counts(f) THEN runs'[t] = runs[t] \cup {entry} ELSE RunsStay(t),
                        RunsStay(t))
  <2> HIDE DEF entry
  <2>1. QED
    BY <1>2 DEF RunsStay, Tried, TypeOK
<1>7. CASE f \in InFlight(t)
  <2>1. t = u
    BY <1>7 DEF InFlight
  <2>2. Logged(t, f)
    BY <1>1, <1>4, <1>5, <1>6, <2>1 DEF Logged
  <2>3. QED
    BY <1>1, <1>4, <1>5, <1>7, <2>2 DEF IsMoved
<1>8. CASE f \notin InFlight(t)
  <2>1. t # u
    BY <1>1, <1>8 DEF InFlight
  <2>2. FaultsGrow /\ now <= now'
    BY <1>1, <1>2 DEF FaultsGrow, TypeOK
  <2>3. QED
    BY <1>4, <1>5, <1>6, <1>8, <2>1, <2>2 DEF Rests
<1>9. QED
  BY <1>7, <1>8

LEMMA DecideSeen ==
    ASSUME TypeOK, NEW f \in Firings, DecideGoal(f) \/ DecideSelfPaced(f), NEW t \in live
    PROVE  IsMoved(t) \/ Rests(t)
<1>1. PICK x : /\ Becomes(f, x)
               /\ \/ firing[f].snap.goal /\ \E done \in BOOLEAN : x = Verdict(f, done)
                  \/ ~firing[f].snap.goal /\ x = OwnVerdict(f)
  BY DEF DecideGoal, DecideSelfPaced, OwnVerdict
<1>2. /\ firing[f].pc = "decide"
      /\ rows' = rows /\ tick' = tick /\ hist' = hist /\ runs' = runs
      /\ faults' = faults /\ now' = now
  BY DEF DecideGoal, DecideSelfPaced
<1>3. x.task = firing[f].task
  <2>1. \A n, r : [firing[f] EXCEPT !.pc = "arm", !.next = n, !.reason = r].task
                     = firing[f].task
    BY DEF TypeOK, Firing
  <2>2. \A done \in BOOLEAN : Verdict(f, done).task = firing[f].task
    BY DEF Verdict, TypeOK, Firing
  <2>3. OwnVerdict(f).task = firing[f].task
    BY <2>1 DEF OwnVerdict
  <2>4. QED
    BY <1>1, <2>2, <2>3
<1>4. /\ FliesStay(t, {f}) /\ firing'[f] = x
      /\ f \notin InFlight(t) => FliesStay(t, {})
  BY <1>1, <1>2, <1>3, OneFlies
<1>5. RowStays(t) /\ EntriesStay(t) /\ HistoryStays(t) /\ RunsStay(t)
  BY <1>2, Unmoved
<1>6. CASE f \in InFlight(t)
  <2>1. \/ firing[f].snap.goal /\ \E done \in BOOLEAN : firing'[f] = Verdict(f, done)
        \/ ~firing[f].snap.goal /\ firing'[f] = OwnVerdict(f)
    BY <1>1, <1>4
  <2>2. Decided(t, f)
    BY <1>2, <1>5, <2>1
       DEF Decided
  <2>3. QED
    BY <1>2, <1>4, <1>5, <1>6, <2>2 DEF IsMoved
<1>7. CASE f \notin InFlight(t)
  BY <1>2, <1>4, <1>5, <1>7 DEF Rests, FaultsGrow, TypeOK
<1>8. QED
  BY <1>6, <1>7

LEMMA WriteBackSeen ==
    ASSUME TypeOK, NEW f \in Firings, WriteBack(f), NEW t \in live
    PROVE  IsMoved(t) \/ Rests(t)
<1> DEFINE u == firing[f].task
           row == ArmSelfPaced(rows[u], firing[f].next, firing[f].reason)
<1>1. /\ (Write(u, row) /\ UNCHANGED faults) \/ WriteFails
      /\ hist' = [hist EXCEPT ![u] = Armed(@, firing[f].next)] \/ hist' = hist
      /\ Becomes(f, FreeFiring) /\ firing[f].pc = "arm"
      /\ tick' = tick /\ runs' = runs /\ now' = now
  BY DEF WriteBack
<1>2. /\ FliesStay(t, {f}) /\ firing'[f] = FreeFiring
      /\ f \notin InFlight(t) => FliesStay(t, {})
  BY <1>1, OneFlies DEF FreeFiring
<1>3. /\ t # u => RowStays(t)
      /\ t = u => Tried(rows'[t] = row, RowStays(t))
      /\ FaultsGrow
  <2> HIDE DEF row
  <2>1. QED
    BY <1>1, WriteTried
<1>4. HistoryStays(t)
  <2>1. hist'[t] = hist[t] \/ hist'[t] = Armed(hist[t], firing[f].next)
    BY <1>1 DEF TypeOK
  <2>2. QED
    BY <2>1 DEF HistoryStays, HistoryKeeps, Armed, TypeOK, History
<1>5. EntriesStay(t) /\ RunsStay(t)
  BY <1>1, Unmoved
<1>6. CASE f \in InFlight(t)
  <2>1. t = u
    BY <1>6 DEF InFlight
  <2>2. WrittenBack(t, f)
    BY <1>1, <1>2, <1>3, <1>4, <1>5, <2>1 DEF WrittenBack
  <2>3. QED
    BY <1>1, <1>2, <1>5, <1>6, <2>2 DEF IsMoved
<1>7. CASE f \notin InFlight(t)
  <2>1. t # u
    BY <1>1, <1>7 DEF InFlight
  <2>2. QED
    BY <1>1, <1>2, <1>3, <1>4, <1>5, <1>7, <2>1 DEF Rests, TypeOK
<1>8. QED
  BY <1>6, <1>7

LEMMA FireSeen ==
    ASSUME TypeOK, NEW f \in Firings, FireStep(f), NEW t \in live
    PROVE  IsMoved(t) \/ Rests(t)
BY DispatchSeen, RecordSeen, LogSeen, DecideSeen, WriteBackSeen DEF FireStep, Dispatches

LEMMA CreateSeen ==
    ASSUME TypeOK, NamesInv, NEW r \in Requests, Create(r), NEW t \in live'
    PROVE  TaskStep(t)
<1>1. PICK q : q = req[r]
  OBVIOUS
<1>2. q.op = "create" /\ q.task \notin used /\ q.task \in Tasks /\ live \subseteq used
  BY <1>1 DEF Create, NamesInv, TypeOK, Request
<1> DEFINE row == [BlankRow EXCEPT !.enabled = TRUE, !.kind = q.kind,
                        !.goal = q.goal, !.target = q.target,
                        !.bound = q.bound, !.runAt = q.runAt,
                        !.next = q.next, !.created = now]
<1>3. /\ \/ /\ live' = live \cup {q.task} /\ rows' = [rows EXCEPT ![q.task] = row]
            /\ hist' = [hist EXCEPT ![q.task] = Armed(@, q.next)]
         \/ live' = live /\ rows' = rows /\ hist' = hist
      /\ firing' = firing /\ tick' = tick /\ runs' = runs /\ faults' = faults /\ now' = now
  BY <1>1 DEF Create
<1>4. FliesStay(t, {}) /\ EntriesStay(t) /\ RunsStay(t) /\ Entries(t)' = Entries(t)
  BY <1>3, Unmoved
<1>5. CASE t \in live
  <2>1. t # q.task
    BY <1>2, <1>5
  <2>2. RowStays(t) /\ HistoryStays(t)
    <3> HIDE DEF row
    <3>1. QED
      BY <1>3, <2>1 DEF RowStays, HistoryStays, HistoryKeeps, TypeOK
  <2>3. QED
    BY <1>3, <1>4, <1>5, <2>2 DEF TaskStep, Rests, FaultsGrow, TypeOK
<1>6. CASE t \notin live
  <2>1. /\ t = q.task /\ rows' = [rows EXCEPT ![t] = row]
        /\ hist' = [hist EXCEPT ![t] = Armed(@, q.next)]
    BY <1>3, <1>6
  <2>2. rows'[t] = row /\ hist'[t] = Armed(hist[t], q.next)
    <3> HIDE DEF row
    <3>1. QED
      BY <1>2, <2>1 DEF TypeOK
  <2>3. HistoryStays(t)
    BY <1>2, <2>1, <2>2 DEF HistoryStays, HistoryKeeps, Armed, TypeOK, History
  <2>4. InFlight(t)' = {} /\ Entries(t)' = {}
    BY <1>2, <1>3, <1>4, <2>1 DEF NamesInv, InFlight
  <2>5. IsCreated(t)
    BY <1>1, <1>2, <1>3, <1>4, <2>1, <2>2, <2>3, <2>4 DEF IsCreated
  <2>6. QED
    BY <1>6, <2>5 DEF TaskStep
<1>7. QED
  BY <1>5, <1>6

\* The history of a task a PUT re-armed.
Edited(h, next, b) == [Armed(h, next) EXCEPT !.manual = @ + 1, !.switched = @ \/ b]

LEMMA EditMarked ==
    ASSUME NEW h \in History, NEW next, NEW b \in BOOLEAN, NEW g, g = Edited(h, next, b)
    PROVE  /\ g.manual = h.manual + 1 /\ g.overlap = h.overlap
           /\ g.shots = h.shots /\ g.pruned = h.pruned
           /\ g.switched <=> (h.switched \/ b)
<1> DEFINE k == Armed(h, next)
           o == k.switched \/ b
<1>1. /\ k \in [arms : {k.arms}, shots : Nat, overlap : BOOLEAN, manual : Nat,
                pruned : Nat, switched : BOOLEAN]
      /\ k.manual = h.manual /\ k.overlap = h.overlap /\ k.shots = h.shots
      /\ k.pruned = h.pruned /\ k.switched = h.switched
  BY DEF Armed, History
<1>2. g = [k EXCEPT !.manual = @ + 1, !.switched = o]
  BY DEF Edited
<1>3. o <=> (h.switched \/ b)
  BY <1>1
<1>4. /\ g.manual = h.manual + 1 /\ g.overlap = h.overlap
      /\ g.shots = h.shots /\ g.pruned = h.pruned /\ g.switched = o
  <2> HIDE DEF o, k
  <2>1. QED
    BY <1>1, <1>2
<1>5. QED
  BY <1>3, <1>4

LEMMA UpdateSeen ==
    ASSUME TypeOK, NEW r \in Requests, Update(r), NEW t \in live
    PROVE  IsEdited(t) \/ Rests(t)
<1> DEFINE u == req[r].task
           row == UpdateRow(rows[u], req[r])
           b == req[r].kind \notin {"keep", rows[u].kind}
<1>1. /\ req[r].op = "update" /\ Write(u, row)
      /\ hist' = IF req[r].touched /\ u \in live
                 THEN [hist EXCEPT ![u] =
                          [Armed(hist[u], req[r].next) EXCEPT !.manual = @ + 1,
                             !.switched = @ \/ b]]
                 ELSE hist
      /\ firing' = firing /\ tick' = tick /\ runs' = runs /\ faults' = faults /\ now' = now
  BY DEF Update
<1>2. FliesStay(t, {}) /\ EntriesStay(t) /\ RunsStay(t)
  BY <1>1, Unmoved
<1>3. /\ t # u => RowStays(t)
      /\ t = u => rows'[t] = row
  <2> HIDE DEF row, b
  <2>1. QED
    BY <1>1, WriteElsewhere
<1>4. CASE t = u
  <2>1. hist[t] \in History /\ b \in BOOLEAN /\ t \in Tasks /\ t \in live
    BY <1>4 DEF TypeOK
  <2>2. CASE req[r].touched
    <3>1. hist'[t] = Edited(hist[t], req[r].next, b)
      BY <1>1, <1>4, <2>1, <2>2 DEF TypeOK, Edited
    <3>2. /\ hist'[t].manual = hist[t].manual + 1 /\ hist'[t].overlap = hist[t].overlap
          /\ hist'[t].shots = hist[t].shots /\ hist'[t].pruned = hist[t].pruned
          /\ hist'[t].switched <=> (hist[t].switched \/ b)
      <4> HIDE DEF b
      <4>1. QED
        BY <2>1, <3>1, EditMarked
    <3>3. QED
      BY <1>1, <1>2, <1>3, <1>4, <2>2, <3>2 DEF IsEdited
  <2>3. CASE ~req[r].touched
    <3>1. hist' = hist
      BY <1>1, <2>3
    <3>2. QED
      BY <1>1, <1>2, <1>3, <1>4, <2>3, <3>1 DEF IsEdited
  <2>4. QED
    BY <2>2, <2>3
<1>5. CASE t # u
  <2>1. hist'[t] = hist[t]
    <3> HIDE DEF b
    <3>1. QED
      BY <1>1, <1>5
  <2>2. HistoryStays(t)
    BY <2>1 DEF HistoryStays, HistoryKeeps
  <2>3. QED
    BY <1>1, <1>2, <1>3, <1>5, <2>2 DEF Rests, FaultsGrow, TypeOK
<1>6. QED
  BY <1>4, <1>5

LEMMA RunNowSeen ==
    ASSUME TypeOK, NEW u \in Tasks, RunNow(u), NEW t \in live
    PROVE  IsRunNow(t) \/ Rests(t)
<1> DEFINE snap == Snap(rows[u])
<1>1. PICK f \in Firings : Spawn(f, u, "run_now", snap, now, 0)
  BY DEF RunNow
<1>2. /\ hist' = [hist EXCEPT ![u].manual = @ + 1]
      /\ rows' = rows /\ runs' = runs /\ tick' = tick /\ faults' = faults /\ now' = now
  BY DEF RunNow
<1>3. RowStays(t) /\ EntriesStay(t) /\ RunsStay(t)
  BY <1>2, Unmoved
<1>4. firing[f].pc = "free" /\ firing'[f] = Begun(u, "run_now", snap, now, 0)
  BY <1>1 DEF Spawn, Becomes, Begun, TypeOK
<1>5. FliesStay(t, {f}) /\ (t # u => FliesStay(t, {}))
  <2> HIDE DEF snap
  <2>1. QED
    BY <1>1, OneBegins
<1>6. CASE t = u
  <2>1. /\ hist'[t].manual = hist[t].manual + 1
        /\ hist'[t].switched = hist[t].switched /\ hist'[t].overlap = hist[t].overlap
        /\ hist'[t].shots = hist[t].shots /\ hist'[t].pruned = hist[t].pruned
    BY <1>2, <1>6 DEF TypeOK, History
  <2>2. QED
    BY <1>2, <1>3, <1>4, <1>5, <1>6, <2>1 DEF IsRunNow
<1>7. CASE t # u
  <2>1. HistoryStays(t)
    BY <1>2, <1>7 DEF HistoryStays, HistoryKeeps, TypeOK
  <2>2. QED
    BY <1>2, <1>3, <1>5, <1>7, <2>1 DEF Rests, FaultsGrow, TypeOK
<1>8. QED
  BY <1>6, <1>7

LEMMA OtherSeen ==
    ASSUME TypeOK, NEW t \in live,
           \/ \E r \in Requests : CreateCheck(r) \/ UpdateCheck(r)
           \/ \E c \in Conversations : UserTurn(c) \/ TurnEnds(c) \/ DeleteConversation(c)
           \/ TimePasses \/ UNCHANGED vars
           \/ \E u \in Tasks \ {t} : Delete(u)
    PROVE  Rests(t)
<1>1. /\ tick' = tick /\ firing' = firing /\ hist' = hist /\ faults' = faults
      /\ now \in Int /\ (now' = now \/ now' = now + 1) /\ faults \in Nat
  BY DEF CreateCheck, UpdateCheck, UserTurn, TurnEnds, DeleteConversation, TimePasses,
         vars, Delete, TypeOK
<1>2. RowStays(t)
  <2>1. CASE rows' = rows
    BY <2>1, Unmoved
  <2>2. CASE \E c \in Conversations : DeleteConversation(c)
    BY <2>2 DEF DeleteConversation, RowStays, TypeOK, Row
  <2>3. CASE \E u \in Tasks \ {t} : Delete(u)
    BY <2>3 DEF Delete, RowStays, TypeOK
  <2>4. QED
    BY <2>1, <2>2, <2>3 DEF CreateCheck, UpdateCheck, UserTurn, TurnEnds, TimePasses, vars
<1>3. RunsStay(t)
  <2>1. CASE \E u \in Tasks \ {t} : Delete(u)
    BY <2>1 DEF Delete, RunsStay, TypeOK
  <2>2. CASE runs' = runs
    BY <2>2, Unmoved
  <2>3. QED
    BY <2>1, <2>2 DEF CreateCheck, UpdateCheck, UserTurn, TurnEnds, DeleteConversation,
                      TimePasses, vars
<1>4. QED
  BY <1>1, <1>2, <1>3, Unmoved DEF Rests, FaultsGrow

LEMMA PruneSeen ==
    ASSUME TypeOK, Prune, NEW t \in live
    PROVE  IsPruned(t)
<1>1. /\ rows' = rows /\ tick' = tick /\ firing' = firing /\ faults' = faults /\ now' = now
  BY DEF Prune
<1>2. runs'[t] = {r \in runs[t] : r[1] >= now - Retention}
  BY DEF Prune, TypeOK
<1>3. PICK n : n = Cardinality(runs[t] \ runs'[t])
  OBVIOUS
<1>4. hist'[t] = [hist[t] EXCEPT !.pruned = @ + n]
  BY <1>3 DEF Prune, TypeOK
<1>5. /\ hist'[t].pruned = hist[t].pruned + n
      /\ hist'[t].shots = hist[t].shots /\ HistoryKeeps(t)
  BY <1>4 DEF HistoryKeeps, TypeOK, History
<1>6. QED
  BY <1>1, <1>2, <1>3, <1>5, Unmoved DEF IsPruned

LEMMA CrashSeen ==
    ASSUME TypeOK, Crash, NEW t \in live
    PROVE  IsCrashed(t)
<1>1. /\ rows' = rows /\ hist' = hist /\ runs' = runs
      /\ faults' = faults + 1 /\ now' = now
  BY DEF Crash
<1>2. Entries(t)' = {}
  BY DEF Crash, IdleTick, Entries, Image
<1>3. InFlight(t)' = {}
  BY DEF Crash, InFlight, FreeFiring
<1>4. QED
  BY <1>1, <1>2, <1>3, Unmoved DEF IsCrashed

\* Every step, seen from a task that has a row after it.
LEMMA EveryStepSeen ==
    ASSUME TypeOK, BatchIsDistinct, NamesInv, [Next]_vars, NEW t \in live'
    PROVE  TaskStep(t)
<1>1. ASSUME NEW r \in Requests, Create(r) PROVE TaskStep(t)
  BY <1>1, CreateSeen
<1>2. ASSUME NEW u \in Tasks, Delete(u) PROVE TaskStep(t)
  <2>1. t \in live /\ t # u
    BY <1>2 DEF Delete
  <2>2. QED
    BY <1>2, <2>1, OtherSeen DEF TaskStep
<1>3. CASE /\ ~\E r \in Requests : Create(r)
           /\ ~\E u \in Tasks : Delete(u)
  <2>1. t \in live
    <3>1. live' = live
      <4>1. CASE TickStep
        BY <4>1 DEF TickStep, Claim, PauseInsteadOfFiring, AdvanceAndFire, SkipTask
      <4>2. CASE \E f \in Firings : FireStep(f)
        BY <4>2 DEF FireStep, DispatchFails, DispatchConflicts, StartWorkflow, StartTurn,
                    StartInNewConversation, TargetEnds, Record, InsertRun, DecideGoal,
                    DecideSelfPaced, WriteBack
      <4>3. CASE \E r \in Requests : CreateCheck(r) \/ UpdateCheck(r) \/ Update(r)
        BY <4>3 DEF CreateCheck, UpdateCheck, Update
      <4>4. CASE \/ \E u \in Tasks : RunNow(u)
                 \/ \E c \in Conversations : UserTurn(c) \/ TurnEnds(c) \/ DeleteConversation(c)
                 \/ Prune \/ Crash \/ TimePasses \/ UNCHANGED vars
        BY <4>4 DEF RunNow, UserTurn, TurnEnds, DeleteConversation, Prune, Crash,
                    TimePasses, vars
      <4>5. QED
        BY <1>3, <4>1, <4>2, <4>3, <4>4 DEF Next, RequestStep
    <3>2. QED
      BY <3>1
  <2>2. CASE TickStep
    BY <2>1, <2>2, ClaimSeen, PauseSeen, AdvanceSeen, SkipSeen DEF TickStep, TaskStep
  <2>3. CASE \E f \in Firings : FireStep(f)
    BY <2>1, <2>3, FireSeen DEF TaskStep
  <2>4. CASE \E r \in Requests : Update(r)
    BY <2>1, <2>4, UpdateSeen DEF TaskStep
  <2>5. CASE \E u \in Tasks : RunNow(u)
    BY <2>1, <2>5, RunNowSeen DEF TaskStep
  <2>6. CASE Prune \/ Crash
    BY <2>1, <2>6, PruneSeen, CrashSeen DEF TaskStep
  <2>7. CASE \/ \E r \in Requests : CreateCheck(r) \/ UpdateCheck(r)
             \/ \E c \in Conversations : UserTurn(c) \/ TurnEnds(c) \/ DeleteConversation(c)
             \/ TimePasses \/ UNCHANGED vars
    BY <2>1, <2>7, OtherSeen DEF TaskStep
  <2>8. QED
    BY <1>3, <2>2, <2>3, <2>4, <2>5, <2>6, <2>7 DEF Next, RequestStep
<1>4. QED
  BY <1>1, <1>2, <1>3

-----------------------------------------------------------------------------
(* Requests and firings keep to what they were admitted as *)

\* What validate_schedule lets through has a next instant.
LEMMA AcceptedSchedule ==
    ASSUME NEW kind \in Kinds, NEW runAt \in Int, NEW at \in 0..MaxTime,
           ValidSchedule(kind, runAt, at)
    PROVE  LET next == NextOccurrence(kind, runAt, at)
           IN  /\ next # Never
               /\ kind = "self_paced" => next <= at
               /\ kind = "recurring" => next = NextCron(at)
<1>1. CASE kind = "once"
  BY <1>1, NumbersAssumption DEF NextOccurrence, ValidSchedule, Never
<1>2. CASE kind = "recurring"
  BY <1>2 DEF NextOccurrence, ValidSchedule
<1>3. CASE kind = "self_paced"
  BY <1>3, NumbersAssumption DEF NextOccurrence, Never
<1>4. QED
  BY <1>1, <1>2, <1>3 DEF Kinds

LEMMA RequestsStep == TypeOK /\ RequestsInv /\ [Next]_vars => RequestsInv'
<1> SUFFICES ASSUME TypeOK, RequestsInv, [Next]_vars, NEW r \in Requests
             PROVE  Valid(req[r])'
  BY DEF RequestsInv
<1>0. now \in 0..MaxTime /\ now' \in 0..MaxTime /\ now <= now'
  <2>1. now' = now \/ TimePasses
    BY DEF Next, TickStep, Claim, PauseInsteadOfFiring, AdvanceAndFire, SkipTask,
           FireStep, DispatchFails, DispatchConflicts, StartWorkflow, StartTurn,
           StartInNewConversation, TargetEnds, Record, InsertRun, DecideGoal,
           DecideSelfPaced, WriteBack, CreateCheck, UpdateCheck, RequestStep, Create,
           Update, Delete, RunNow, UserTurn, TurnEnds, DeleteConversation, Prune, Crash,
           vars
  <2>2. QED
    BY <2>1, TypeStep DEF TimePasses, TypeOK
<1>1. CASE req'[r] = req[r]
  <2>1. PICK q : q = req[r]
    OBVIOUS
  <2>2. Valid(q)
    BY <2>1 DEF RequestsInv
  <2>3. q.next \in Int
    BY <2>1 DEF TypeOK, Request
  <2>4. Valid(q)'
    BY <1>0, <2>2, <2>3 DEF Valid
  <2>5. q = req'[r]
    BY <1>1, <2>1
  <2>6. QED
    BY <2>4, <2>5 DEF Valid
<1>2. CASE req'[r] = FreeRequest
  BY <1>2 DEF Valid, FreeRequest
<1>3. ASSUME CreateCheck(r) PROVE Valid(req[r])'
  <2> DEFINE item(t, k, runAt, c) ==
               [op |-> "create", task |-> t, enabled |-> "on", kind |-> k.kind,
                goal |-> k.goal, target |-> k.target, bound |-> c,
                runAt |-> runAt, touched |-> TRUE,
                next |-> NextOccurrence(k.kind, runAt, now)]
  <2>a. PICK t \in Tasks \ used, k \in Templates :
           \E runAt \in IF k.kind = "once" THEN Future ELSE {Never} :
           \E c \in IF k.target = "prompt" THEN convs \cup {NoConv} ELSE {NoConv} :
              /\ ValidSchedule(k.kind, runAt, now)
              /\ req' = [req EXCEPT ![r] = item(t, k, runAt, c)]
    BY ZenonT(30), <1>3 DEF CreateCheck
  <2>b. PICK runAt \in IF k.kind = "once" THEN Future ELSE {Never},
             c \in IF k.target = "prompt" THEN convs \cup {NoConv} ELSE {NoConv} :
              /\ ValidSchedule(k.kind, runAt, now)
              /\ req' = [req EXCEPT ![r] = item(t, k, runAt, c)]
    BY <2>a
  <2> DEFINE next == NextOccurrence(k.kind, runAt, now)
  <2>1. req' = [req EXCEPT ![r] = item(t, k, runAt, c)]
    BY <2>b
  <2>2. k.kind \in Kinds /\ (k.goal => k.kind = "self_paced") /\ runAt \in Int
    BY <1>0, DomainAssumption, NumbersAssumption DEF Future, Never
  <2>3. /\ next # Never
        /\ k.kind = "self_paced" => next <= now
        /\ k.kind = "recurring" => next = NextCron(now)
    BY <1>0, <2>b, <2>2, AcceptedSchedule
  <2>4. now' = now
    BY <1>3 DEF CreateCheck
  <2>5. /\ req'[r].op = "create" /\ req'[r].kind = k.kind /\ req'[r].goal = k.goal
        /\ req'[r].next = next
    <3> HIDE DEF next
    <3>1. QED
      BY <2>1 DEF TypeOK, next
  <2>6. k.kind = "recurring" => \E i \in 0..now : next = NextCron(i)
    BY <1>0, <2>3
  <2> HIDE DEF next
  <2>7. QED
    BY <2>2, <2>3, <2>4, <2>5, <2>6 DEF Valid
<1>4. ASSUME UpdateCheck(r) PROVE Valid(req[r])'
  <2>a. PICK t \in live, enabled \in {"keep", "on", "off"}, kind \in EditKinds \cup {"keep"} :
           \E runAt \in IF KindAfter(t, kind) = "once" THEN Future \cup {Never} ELSE {Never} :
              /\ Touches(enabled, kind, runAt) \/ enabled = "off"
              /\ enabled = "on" /\ ~rows[t].enabled => UnderQuota
              /\ Touches(enabled, kind, runAt) =>
                    ValidSchedule(KindAfter(t, kind), RunAtAfter(t, runAt), now)
              /\ req' = [req EXCEPT ![r] = Edit(t, enabled, kind, runAt)]
    BY <1>4, Zenon DEF UpdateCheck
  <2>1. PICK runAt \in IF KindAfter(t, kind) = "once" THEN Future \cup {Never} ELSE {Never} :
           /\ Touches(enabled, kind, runAt) =>
                 ValidSchedule(KindAfter(t, kind), RunAtAfter(t, runAt), now)
           /\ req' = [req EXCEPT ![r] = Edit(t, enabled, kind, runAt)]
    BY <2>a
  <2> DEFINE next == NextOccurrence(KindAfter(t, kind), RunAtAfter(t, runAt), now)
             touched == Touches(enabled, kind, runAt)
  <2>2. /\ KindAfter(t, kind) \in Kinds /\ RunAtAfter(t, runAt) \in Int
        /\ touched \in BOOLEAN /\ runAt \in Int
    <3>1. t \in Tasks /\ rows[t] \in Row
      BY DEF TypeOK
    <3>2. runAt \in Int
      BY <1>0, NumbersAssumption DEF Future, Never
    <3>3. QED
      BY <3>1, <3>2, DomainAssumption DEF KindAfter, RunAtAfter, Touches, Row
  <2>3. touched => next # Never
    BY <1>0, <2>1, <2>2, AcceptedSchedule
  <2>4. /\ req'[r].op = "update" /\ req'[r].enabled = enabled /\ req'[r].kind = kind
        /\ (req'[r].touched <=> touched)
        /\ req'[r].next = IF touched THEN next ELSE Never
    <3>1. req'[r] = Edit(t, enabled, kind, runAt)
      BY <2>1 DEF TypeOK
    <3>2. Edit(t, enabled, kind, runAt)
            = [FreeRequest EXCEPT !.op = "update", !.task = t, !.enabled = enabled,
                  !.kind = kind, !.runAt = runAt, !.touched = touched,
                  !.next = IF touched THEN next ELSE Never]
      BY DEF Edit
    <3> HIDE DEF touched, next
    <3>3. QED
      BY <2>2, <3>1, <3>2 DEF FreeRequest
  <2>5. ~touched => kind = "keep" /\ enabled # "on"
    BY DEF Touches
  <2> HIDE DEF touched, next
  <2>6. QED
    BY <2>3, <2>4, <2>5 DEF Valid
<1>5. \/ req'[r] = req[r] \/ req'[r] = FreeRequest
      \/ CreateCheck(r) \/ UpdateCheck(r)
  <2>1. ASSUME NEW q \in Requests, Create(q) \/ Update(q)
        PROVE  req'[r] = req[r] \/ req'[r] = FreeRequest
    BY <2>1 DEF Create, Update, TypeOK
  <2>2. ASSUME NEW q \in Requests, CreateCheck(q) \/ UpdateCheck(q), q # r
        PROVE  req'[r] = req[r]
    BY <2>2 DEF CreateCheck, UpdateCheck, TypeOK
  <2>3. CASE Crash
    BY <2>3 DEF Crash
  <2>4. QED
    BY <2>1, <2>2, <2>3
       DEF Next, TickStep, Claim, PauseInsteadOfFiring, AdvanceAndFire, SkipTask,
           FireStep, DispatchFails, DispatchConflicts, StartWorkflow, StartTurn,
           StartInNewConversation, TargetEnds, Record, InsertRun, DecideGoal,
           DecideSelfPaced, WriteBack, RequestStep, Delete, RunNow, UserTurn, TurnEnds,
           DeleteConversation, Prune, TimePasses, vars
<1>6. QED
  BY <1>1, <1>2, <1>3, <1>4, <1>5

\* A self-paced loop's next instant is at most its expiry.
LEMMA WithinHorizon ==
    ASSUME NEW p, NEW created \in Nat, NEW at
    PROVE  NextSelfPacedFire(p, created, at) <= created + Horizon
BY NumbersAssumption DEF NextSelfPacedFire, AtMost, AtLeast, Never

\* A decision of how long to wait is a decision to wait.
LEMMA LaterFire ==
    ASSUME NEW p \in [stop : BOOLEAN, delay : Int], NEW created \in Nat, NEW at \in Int
    PROVE  \/ NextSelfPacedFire(p, created, at) = Never
           \/ NextSelfPacedFire(p, created, at) > at
BY NumbersAssumption DEF NextSelfPacedFire, AtMost, AtLeast

LEMMA VerdictFields ==
    ASSUME TypeOK, NEW f \in Firings, NEW done \in BOOLEAN, NEW x, x = Verdict(f, done)
    PROVE  /\ x.pc = "arm" /\ x.task = firing[f].task /\ x.trigger = firing[f].trigger
           /\ x.snap = firing[f].snap /\ x.no = firing[f].no /\ x.result = firing[f].result
           /\ x.reason \in {"completed", "incomplete"}
           /\ x.next <= firing[f].snap.created + Horizon
           /\ x.at = firing[f].at /\ (x.next = Never \/ x.next > x.at)
           /\ x.next # Never /\ firing[f].task \in Tasks =>
                Cardinality(runs[firing[f].task]) < AtLeast(MaxTurns, 1)
<1> DEFINE y == firing[f]
           capped == Cardinality(runs[y.task]) >= AtLeast(MaxTurns, 1)
           on == NextSelfPacedFire([stop |-> FALSE, delay |-> MinInterval],
                                   y.snap.created, y.at)
           n == IF done THEN Never ELSE IF capped THEN Never ELSE on
           r == IF ~done /\ (IF capped THEN Never ELSE on) = Never
                THEN "incomplete" ELSE "completed"
<1>1. y \in Firing /\ y.snap.created \in Nat
  BY DEF TypeOK, Firing, Snapshot
<1>2. on <= y.snap.created + Horizon /\ Never <= y.snap.created + Horizon
  BY <1>1, WithinHorizon, NumbersAssumption DEF Never
<1>3. n <= y.snap.created + Horizon /\ r \in {"completed", "incomplete"}
  <2> HIDE DEF on, capped
  <2>1. QED
    BY <1>2
<1>4. n # Never => ~capped /\ n = on
  OBVIOUS
<1>9. on = Never \/ on > y.at
  <2>1. [stop |-> FALSE, delay |-> MinInterval] \in [stop : BOOLEAN, delay : Int] /\ y.at \in Int
    BY <1>1, NumbersAssumption DEF Firing
  <2> HIDE DEF y
  <2>2. QED
    BY <1>1, <2>1, LaterFire, Zenon
<1>5. x = [y EXCEPT !.pc = "arm", !.next = n, !.reason = r]
  BY DEF Verdict
<1>6. y.task \in Tasks /\ ~capped => Cardinality(runs[y.task]) < AtLeast(MaxTurns, 1)
  <2>1. y.task \in Tasks => Cardinality(runs[y.task]) \in Nat
    BY FS_CardinalityType DEF TypeOK
  <2>2. AtLeast(MaxTurns, 1) \in Nat
    BY NumbersAssumption DEF AtLeast
  <2>3. QED
    BY <2>1, <2>2
<1> HIDE DEF n, r, capped, on
<1>7. /\ x.pc = "arm" /\ x.task = y.task /\ x.trigger = y.trigger
      /\ x.snap = y.snap /\ x.no = y.no /\ x.result = y.result
      /\ x.next = n /\ x.reason = r /\ x.at = y.at
  BY <1>1, <1>5 DEF Firing
<1>8. QED
  BY <1>3, <1>4, <1>6, <1>7, <1>9

LEMMA OwnVerdictFields ==
    ASSUME TypeOK, NEW f \in Firings, NEW x, x = OwnVerdict(f)
    PROVE  /\ x.pc = "arm" /\ x.task = firing[f].task /\ x.trigger = firing[f].trigger
           /\ x.snap = firing[f].snap /\ x.no = firing[f].no /\ x.result = firing[f].result
           /\ x.reason \in {"completed", "incomplete"}
           /\ x.next <= firing[f].snap.created + Horizon
           /\ x.at = firing[f].at /\ (x.next = Never \/ x.next > x.at)
<1> DEFINE n == NextSelfPacedFire(firing[f].proposal, firing[f].snap.created, firing[f].at)
<1>0. x = [firing[f] EXCEPT !.pc = "arm", !.next = n, !.reason = "completed"]
  BY DEF OwnVerdict
<1>1. firing[f] \in Firing /\ firing[f].snap.created \in Nat
  BY DEF TypeOK, Firing, Snapshot
<1>2. n <= firing[f].snap.created + Horizon /\ (n = Never \/ n > firing[f].at)
  <2>1. firing[f].proposal \in [stop : BOOLEAN, delay : Int] /\ firing[f].at \in Int
    BY <1>1 DEF Firing
  <2>2. QED
    BY <1>1, <2>1, WithinHorizon, LaterFire
<1> HIDE DEF n
<1>3. QED
  BY <1>1, <1>2, <1>0 DEF Firing

LEMMA FiringsStep == TypeOK /\ FiringsInv /\ [Next]_vars => FiringsInv'
<1> SUFFICES ASSUME TypeOK, FiringsInv, [Next]_vars, NEW f \in Firings
             PROVE  Sound(firing'[f])
  BY DEF FiringsInv, Sound
<1>1. CASE firing'[f] = firing[f]
  BY <1>1 DEF FiringsInv
<1>2. CASE firing'[f] = FreeFiring
  BY <1>2 DEF FreeFiring, Sound
<1>3. ASSUME NEW u \in Tasks, NEW trigger, NEW snap, NEW at, NEW no,
             firing'[f] = Begun(u, trigger, snap, at, no)
      PROVE  Sound(firing'[f])
  BY <1>3, BegunFields DEF Sound
<1>4. ASSUME Dispatches(f) PROVE Sound(firing'[f])
  <2>1. PICK x : Becomes(f, x) /\ OnTheWay(f, x)
    BY <1>4, DispatchSlot
  <2>2. firing'[f] = x
    BY <2>1 DEF Becomes, TypeOK
  <2>3. firing[f].trigger \in Triggers
    BY DEF TypeOK, Firing
  <2>4. QED
    BY <2>1, <2>2, <2>3 DEF OnTheWay, AfterDispatch, Sound, Triggers
<1>5. ASSUME Record(f) PROVE Sound(firing'[f])
  BY <1>5 DEF Record, Goto, Becomes, Sound, TypeOK, Firing
<1>6. ASSUME InsertRun(f) PROVE Sound(firing'[f])
  <2>1. CASE WritesBack(f)
    BY <1>6, <2>1 DEF InsertRun, Goto, Becomes, Sound, WritesBack, TypeOK, Firing
  <2>2. CASE ~WritesBack(f)
    BY <1>2, <1>6, <2>2 DEF InsertRun, Becomes, TypeOK
  <2>3. QED
    BY <2>1, <2>2
<1>7. ASSUME DecideGoal(f) PROVE Sound(firing'[f])
  <2>1. PICK done \in BOOLEAN : Becomes(f, Verdict(f, done))
    BY <1>7 DEF DecideGoal
  <2>2. PICK x : x = Verdict(f, done)
    OBVIOUS
  <2>3. firing'[f] = x
    BY <2>1, <2>2 DEF Becomes, TypeOK
  <2>4. firing[f].snap.kind = "self_paced" /\ firing[f].result = "success"
    BY <1>7 DEF DecideGoal, FiringsInv, Sound
  <2>5. QED
    BY <2>2, <2>3, <2>4, VerdictFields DEF Sound
<1>8. ASSUME DecideSelfPaced(f) PROVE Sound(firing'[f])
  <2>1. PICK x : x = OwnVerdict(f)
    OBVIOUS
  <2>2. firing'[f] = x
    BY <1>8, <2>1 DEF DecideSelfPaced, OwnVerdict, Becomes, TypeOK
  <2>3. firing[f].snap.kind = "self_paced" /\ firing[f].result = "success"
    BY <1>8 DEF DecideSelfPaced, FiringsInv, Sound
  <2>4. QED
    BY <2>1, <2>2, <2>3, OwnVerdictFields DEF Sound
<1>9. ASSUME WriteBack(f) PROVE Sound(firing'[f])
  BY <1>2, <1>9 DEF WriteBack, Becomes, TypeOK
<1>10. ASSUME FireStep(f) PROVE Sound(firing'[f])
  BY <1>4, <1>5, <1>6, <1>7, <1>8, <1>9, <1>10 DEF FireStep, Dispatches
<1>11. ASSUME NEW g \in Firings, FireStep(g), g # f PROVE firing'[f] = firing[f]
  BY <1>11 DEF FireStep, DispatchFails, DispatchConflicts, StartWorkflow, StartTurn,
               StartInNewConversation, TargetEnds, Record, InsertRun, DecideGoal,
               DecideSelfPaced, WriteBack, Goto, Becomes, TypeOK
<1>12. CASE AdvanceAndFire \/ \E u \in Tasks : RunNow(u)
  <2>1. \E g \in Firings, u \in Tasks : \E trigger, snap, at, no :
           Spawn(g, u, trigger, snap, at, no)
    BY <1>12, BatchType DEF AdvanceAndFire, RunNow
  <2>2. PICK g \in Firings, u \in Tasks : \E trigger, snap, at, no :
           Spawn(g, u, trigger, snap, at, no)
    BY <2>1
  <2>3. PICK trigger, snap, at, no : Spawn(g, u, trigger, snap, at, no)
    BY <2>2
  <2>4. CASE g = f
    <3>1. firing'[f] = Begun(u, trigger, snap, at, no)
      BY <2>3, <2>4 DEF Spawn, Becomes, Begun, TypeOK
    <3>2. QED
      BY <1>3, <3>1
  <2>5. CASE g # f
    BY <1>1, <2>3, <2>5 DEF Spawn, Becomes, TypeOK
  <2>6. QED
    BY <2>4, <2>5
<1>13. CASE Crash
  BY <1>2, <1>13 DEF Crash
<1>14. QED
  BY <1>1, <1>10, <1>11, <1>12, <1>13
     DEF Next, TickStep, Claim, PauseInsteadOfFiring, SkipTask, CreateCheck, UpdateCheck,
         RequestStep, Create, Update, Delete, UserTurn, TurnEnds, DeleteConversation, Prune,
         TimePasses, vars

-----------------------------------------------------------------------------
(* Ids *)

\* A step that claims, spawns and admits nothing new.
LEMMA NamesKept ==
    ASSUME NamesInv, used' = used,
           \A t \in Tasks : Entries(t)' # {} => Entries(t) # {} \/ t \in used,
           \A f \in Firings : firing'[f].pc # "free" =>
               \/ firing[f].pc # "free" /\ firing'[f].task = firing[f].task
               \/ firing'[f].task \in used,
           \A r \in Requests : req'[r] = req[r] \/ req'[r].op # "create",
           \A t \in Tasks \ used : hist'[t] = hist[t] /\ runs'[t] = runs[t]
    PROVE  NamesInv'
<1>1. \A t \in Tasks : Entries(t)' # {} => t \in used'
  BY DEF NamesInv
<1>2. \A f \in Firings : firing'[f].pc # "free" => firing'[f].task \in used'
  BY DEF NamesInv
<1>3. \A r \in Requests : req'[r].op = "create" =>
         /\ req'[r].task \notin used'
         /\ \A q \in Requests : req'[q].op = "create" /\ req'[q].task = req'[r].task => q = r
  BY DEF NamesInv
<1>4. \A t \in Tasks \ used' : hist'[t] = NoHistory /\ runs'[t] = {}
  BY DEF NamesInv
<1>5. QED
  BY <1>1, <1>2, <1>3, <1>4 DEF NamesInv

LEMMA SweepNames ==
    ASSUME TypeOK, BatchIsDistinct, NamesInv, TickStep
    PROVE  NamesInv'
<1>1. CASE Claim
  <2>1. used' = used /\ firing' = firing /\ req' = req /\ runs' = runs /\ live \subseteq used
    BY <1>1 DEF Claim, TypeOK
  <2>2. PICK n \in 1..Batch : \E s \in [1..n -> {t \in Tasks : IsDue(t, now)}] :
          /\ tick' = [now |-> now, due |-> [i \in DOMAIN s |->
               [task |-> s[i], snap |-> Snap(rows[s[i]]),
                gone |-> ConversationGone(rows[s[i]])]]]
          /\ hist' = [t \in Tasks |->
               [hist[t] EXCEPT !.overlap = @ \/ (Scheduled(t) # {} /\ t \in Image(s))]]
    BY <1>1 DEF Claim
  <2>3. PICK s \in [1..n -> {t \in Tasks : IsDue(t, now)}] :
          /\ tick' = [now |-> now, due |-> [i \in DOMAIN s |->
               [task |-> s[i], snap |-> Snap(rows[s[i]]),
                gone |-> ConversationGone(rows[s[i]])]]]
          /\ hist' = [t \in Tasks |->
               [hist[t] EXCEPT !.overlap = @ \/ (Scheduled(t) # {} /\ t \in Image(s))]]
    BY <2>2
  <2>4. \A i \in DOMAIN s : s[i] \in used
    BY <2>1 DEF IsDue
  <2>5. \A t \in Tasks : Entries(t)' # {} => t \in used
    BY <2>3, <2>4 DEF Entries, Image
  <2>6. ASSUME NEW t \in Tasks \ used PROVE hist'[t] = hist[t]
    <3> DEFINE b == Scheduled(t) # {} /\ t \in Image(s)
               o == hist[t].overlap \/ b
    <3>1. hist'[t] = [hist[t] EXCEPT !.overlap = o]
      BY <2>3
    <3>2. ~b
      BY <2>4 DEF Image
    <3>3. o = hist[t].overlap
      BY <3>2 DEF TypeOK, History
    <3> HIDE DEF o
    <3>4. QED
      BY <3>1, <3>3 DEF TypeOK, History
  <2>7. QED
    BY <2>1, <2>5, <2>6, NamesKept
<1>2. CASE PauseInsteadOfFiring \/ AdvanceAndFire \/ SkipTask
  <2>1. PICK h \in Tasks : h = Head(tick.due).task
    BY <1>2, BatchType DEF PauseInsteadOfFiring, AdvanceAndFire, SkipTask
  <2>2. /\ h \in used /\ \A t : EntriesStay(t)
    <3>1. Head(tick.due) \in Entries(h) /\ \A t : EntriesStay(t)
      BY <1>2, <2>1, HeadGoes DEF PauseInsteadOfFiring, AdvanceAndFire, SkipTask
    <3>2. QED
      BY <3>1 DEF NamesInv
  <2>3. \A t \in Tasks : Entries(t)' # {} => Entries(t) # {}
    BY <2>2 DEF EntriesStay
  <2>4. used' = used /\ req' = req
    BY <1>2 DEF PauseInsteadOfFiring, AdvanceAndFire, SkipTask
  <2>5. \A f \in Firings : firing'[f] = firing[f] \/ firing'[f].task = h
    <3>1. CASE AdvanceAndFire
      <4>1. \E f \in Firings : \E trigger, snap, at, no : Spawn(f, h, trigger, snap, at, no)
        BY <2>1, <3>1 DEF AdvanceAndFire
      <4>2. PICK f \in Firings : \E trigger, snap, at, no : Spawn(f, h, trigger, snap, at, no)
        BY <4>1
      <4>3. PICK trigger, snap, at, no : Spawn(f, h, trigger, snap, at, no)
        BY <4>2
      <4>4. firing'[f] = Begun(h, trigger, snap, at, no)
        BY <4>3 DEF Spawn, Becomes, Begun, TypeOK
      <4>5. \A g \in Firings \ {f} : firing'[g] = firing[g]
        BY <4>3 DEF Spawn, Becomes, TypeOK
      <4>6. firing'[f].task = h
        BY <4>4, BegunFields
      <4>7. QED
        BY <4>5, <4>6
    <3>2. QED
      BY <1>2, <3>1 DEF PauseInsteadOfFiring, SkipTask
  <2>6. \A t \in Tasks \ used : hist'[t] = hist[t] /\ runs'[t] = runs[t]
    BY <1>2, <2>1, <2>2 DEF PauseInsteadOfFiring, AdvanceAndFire, SkipTask, Shot, TypeOK
  <2>7. QED
    BY <2>2, <2>3, <2>4, <2>5, <2>6, NamesKept
<1>3. QED
  BY <1>1, <1>2 DEF TickStep

LEMMA FireNames ==
    ASSUME TypeOK, NamesInv, NEW f \in Firings, FireStep(f)
    PROVE  NamesInv'
<1>1. /\ used' = used /\ req' = req /\ tick' = tick
      /\ live \subseteq used /\ firing[f].pc # "free"
  BY DEF FireStep, DispatchFails, DispatchConflicts, StartWorkflow, StartTurn,
         StartInNewConversation, TargetEnds, Record, InsertRun, DecideGoal,
         DecideSelfPaced, WriteBack, TypeOK
<1>2. \A t : Entries(t)' = Entries(t)
  BY <1>1 DEF Entries
<1>3. firing[f].task \in used
  BY <1>1 DEF NamesInv
<1>4. \A g \in Firings \ {f} : firing'[g] = firing[g]
  BY DEF FireStep, DispatchFails, DispatchConflicts, StartWorkflow, StartTurn,
         StartInNewConversation, TargetEnds, Record, InsertRun, DecideGoal,
         DecideSelfPaced, WriteBack, Goto, Becomes, TypeOK
<1>5. firing'[f].pc # "free" => firing'[f].task = firing[f].task
  <2>1. CASE Dispatches(f)
    BY <2>1, DispatchSlot DEF OnTheWay, Becomes, TypeOK
  <2>2. CASE Record(f)
    BY <2>2 DEF Record, Goto, Becomes, TypeOK, Firing
  <2>3. CASE InsertRun(f)
    BY <2>3 DEF InsertRun, Goto, Becomes, TypeOK, Firing, FreeFiring
  <2>4. CASE DecideGoal(f)
    <3>1. PICK done \in BOOLEAN : Becomes(f, Verdict(f, done))
      BY <2>4 DEF DecideGoal
    <3>2. firing'[f] = Verdict(f, done)
      BY <3>1 DEF Becomes, TypeOK
    <3>3. QED
      BY <3>2, VerdictFields
  <2>5. CASE DecideSelfPaced(f)
    <3>1. firing'[f] = OwnVerdict(f)
      BY <2>5 DEF DecideSelfPaced, OwnVerdict, Becomes, TypeOK
    <3>2. QED
      BY <3>1, OwnVerdictFields
  <2>6. CASE WriteBack(f)
    BY <2>6 DEF WriteBack, Becomes, TypeOK, FreeFiring
  <2>7. QED
    BY <2>1, <2>2, <2>3, <2>4, <2>5, <2>6 DEF FireStep, Dispatches
<1>6. \A t \in Tasks \ used : hist'[t] = hist[t] /\ runs'[t] = runs[t]
  BY <1>1, <1>3
     DEF FireStep, DispatchFails, DispatchConflicts, StartWorkflow, StartTurn,
         StartInNewConversation, TargetEnds, Record, InsertRun, DecideGoal,
         DecideSelfPaced, WriteBack, TypeOK
<1>7. \A g \in Firings : firing'[g].pc # "free" =>
         \/ firing[g].pc # "free" /\ firing'[g].task = firing[g].task
         \/ firing'[g].task \in used
  BY <1>1, <1>4, <1>5
<1>8. QED
  BY <1>1, <1>2, <1>6, <1>7, NamesKept

LEMMA RequestNames ==
    ASSUME TypeOK, NamesInv, NEW r \in Requests,
           CreateCheck(r) \/ UpdateCheck(r) \/ RequestStep(r)
    PROVE  NamesInv'
<1>1. tick' = tick /\ firing' = firing /\ runs' = runs /\ live \subseteq used
  BY DEF CreateCheck, UpdateCheck, RequestStep, Create, Update, TypeOK
<1>2. \A t : Entries(t)' = Entries(t)
  BY <1>1 DEF Entries
<1>3. CASE UpdateCheck(r)
  <2>1. used' = used /\ hist' = hist
    BY <1>3 DEF UpdateCheck
  <2>2. \A q \in Requests : req'[q] = req[q] \/ req'[q].op # "create"
    <3>1. PICK t \in live, enabled \in {"keep", "on", "off"}, kind \in EditKinds \cup {"keep"} :
             \E runAt \in IF KindAfter(t, kind) = "once" THEN Future \cup {Never} ELSE {Never} :
                req' = [req EXCEPT ![r] = Edit(t, enabled, kind, runAt)]
      BY ZenonT(30), <1>3 DEF UpdateCheck
    <3>2. PICK runAt \in IF KindAfter(t, kind) = "once" THEN Future \cup {Never} ELSE {Never} :
             req' = [req EXCEPT ![r] = Edit(t, enabled, kind, runAt)]
      BY <3>1
    <3>3. Edit(t, enabled, kind, runAt).op = "update"
      BY DEF Edit, FreeRequest
    <3>4. QED
      BY <3>2, <3>3 DEF TypeOK
  <2>3. QED
    BY <1>1, <1>2, <2>1, <2>2, NamesKept
<1>4. CASE Update(r)
  <2>1. used' = used /\ req' = [req EXCEPT ![r] = FreeRequest]
    BY <1>4 DEF Update
  <2>2. \A q \in Requests : req'[q] = req[q] \/ req'[q].op # "create"
    BY <2>1 DEF FreeRequest, TypeOK
  <2>3. \A t \in Tasks \ used : hist'[t] = hist[t]
    <3> DEFINE u == req[r].task
               b == req[r].kind \notin {"keep", rows[u].kind}
    <3>1. hist' = IF req[r].touched /\ u \in live
                  THEN [hist EXCEPT ![u] = Edited(hist[u], req[r].next, b)] ELSE hist
      BY <1>4 DEF Update, Edited
    <3> HIDE DEF b
    <3>2. QED
      BY <1>1, <3>1
  <2>4. QED
    BY <1>1, <1>2, <2>1, <2>2, <2>3, NamesKept
<1>5. CASE CreateCheck(r)
  <2>1. PICK t \in Tasks \ used : \E x :
           /\ \A q \in Requests : req[q].task # t
           /\ req' = [req EXCEPT ![r] = x] /\ x.task = t
    <3> DEFINE item(t, k, runAt, c) ==
                 [op |-> "create", task |-> t, enabled |-> "on", kind |-> k.kind,
                  goal |-> k.goal, target |-> k.target, bound |-> c,
                  runAt |-> runAt, touched |-> TRUE,
                  next |-> NextOccurrence(k.kind, runAt, now)]
    <3>1. PICK t \in Tasks \ used, k \in Templates :
             \E runAt \in IF k.kind = "once" THEN Future ELSE {Never} :
             \E c \in IF k.target = "prompt" THEN convs \cup {NoConv} ELSE {NoConv} :
                /\ \A q \in Requests : req[q].task # t
                /\ req' = [req EXCEPT ![r] = item(t, k, runAt, c)]
      BY ZenonT(30), <1>5 DEF CreateCheck
    <3>2. \A runAt, c : item(t, k, runAt, c).task = t
      OBVIOUS
    <3>3. PICK runAt \in IF k.kind = "once" THEN Future ELSE {Never},
               c \in IF k.target = "prompt" THEN convs \cup {NoConv} ELSE {NoConv} :
             /\ \A q \in Requests : req[q].task # t
             /\ req' = [req EXCEPT ![r] = item(t, k, runAt, c)]
      BY <3>1
    <3> HIDE DEF item
    <3>4. QED
      BY <3>2, <3>3
  <2>2. /\ used' = used /\ hist' = hist
    BY <1>5 DEF CreateCheck
  <2>3. /\ \A q \in Requests : req[q].task # t
        /\ \A q \in Requests \ {r} : req'[q] = req[q]
        /\ req'[r].task = t
    BY <2>1 DEF TypeOK
  <2>4. \A t1 \in Tasks : Entries(t1)' # {} => t1 \in used'
    BY <1>2, <2>2 DEF NamesInv
  <2>5. \A f \in Firings : firing'[f].pc # "free" => firing'[f].task \in used'
    BY <1>1, <2>2 DEF NamesInv
  <2>6. \A p \in Requests : req'[p].op = "create" =>
          /\ req'[p].task \notin used'
          /\ \A q \in Requests : req'[q].op = "create" /\ req'[q].task = req'[p].task => q = p
    BY <2>1, <2>2, <2>3 DEF NamesInv
  <2>7. \A t1 \in Tasks \ used' : hist'[t1] = NoHistory /\ runs'[t1] = {}
    BY <1>1, <2>2 DEF NamesInv
  <2>8. QED
    BY <2>4, <2>5, <2>6, <2>7 DEF NamesInv
<1>6. CASE Create(r)
  <2>1. PICK t : t = req[r].task
    OBVIOUS
  <2>2. /\ req[r].op = "create" /\ used' = used \cup {t}
        /\ req' = [req EXCEPT ![r] = FreeRequest]
    BY <1>6, <2>1 DEF Create
  <2>3. \A u \in Tasks \ used' : hist'[u] = hist[u]
    <3>1. \/ hist' = hist
          \/ hist' = [hist EXCEPT ![t] = Armed(hist[t], req[r].next)]
      BY <1>6, <2>1 DEF Create
    <3>2. QED
      BY <2>2, <3>1 DEF TypeOK
  <2>4. \A t1 \in Tasks : Entries(t1)' # {} => t1 \in used'
    BY <1>2, <2>2 DEF NamesInv
  <2>5. \A f \in Firings : firing'[f].pc # "free" => firing'[f].task \in used'
    BY <1>1, <2>2 DEF NamesInv
  <2>6. \A q \in Requests : req'[q].op = "create" => q # r /\ req'[q] = req[q]
    BY <2>2 DEF FreeRequest, TypeOK
  <2>7. \A p \in Requests : req'[p].op = "create" =>
          /\ req'[p].task \notin used'
          /\ \A q \in Requests : req'[q].op = "create" /\ req'[q].task = req'[p].task => q = p
    BY <2>1, <2>2, <2>6 DEF NamesInv
  <2>8. \A t1 \in Tasks \ used' : hist'[t1] = NoHistory /\ runs'[t1] = {}
    BY <1>1, <2>2, <2>3 DEF NamesInv
  <2>9. QED
    BY <2>4, <2>5, <2>7, <2>8 DEF NamesInv
<1>7. QED
  BY <1>3, <1>4, <1>5, <1>6 DEF RequestStep

LEMMA RestNames ==
    ASSUME TypeOK, NamesInv,
           \/ \E t \in Tasks : Delete(t) \/ RunNow(t)
           \/ \E c \in Conversations : UserTurn(c) \/ TurnEnds(c) \/ DeleteConversation(c)
           \/ Prune \/ Crash \/ TimePasses \/ UNCHANGED vars
    PROVE  NamesInv'
<1>1. used' = used /\ live \subseteq used
  BY DEF Delete, RunNow, UserTurn, TurnEnds, DeleteConversation, Prune, Crash, TimePasses,
         vars, TypeOK
<1>2. CASE Crash
  <2>1. \A t : Entries(t)' = {}
    BY <1>2 DEF Crash, IdleTick, Entries, Image
  <2>2. /\ hist' = hist /\ runs' = runs
        /\ \A f \in Firings : firing'[f].pc = "free"
        /\ \A r \in Requests : req'[r].op # "create"
    BY <1>2 DEF Crash, FreeFiring, FreeRequest
  <2>3. QED
    BY <1>1, <2>1, <2>2, NamesKept
<1>3. CASE ~Crash
  <2>1. tick' = tick /\ req' = req
    BY <1>3 DEF Delete, RunNow, UserTurn, TurnEnds, DeleteConversation, Prune, TimePasses, vars
  <2>2. \A t : Entries(t)' = Entries(t)
    BY <2>1 DEF Entries
  <2>3. \A f \in Firings : firing'[f] = firing[f] \/ firing'[f].task \in used
    <3>1. ASSUME NEW u \in Tasks, RunNow(u)
          PROVE  \A f \in Firings : firing'[f] = firing[f] \/ firing'[f].task \in used
      <4>1. PICK f \in Firings : \E snap : Spawn(f, u, "run_now", snap, now, 0)
        BY <3>1 DEF RunNow
      <4>2. PICK snap : Spawn(f, u, "run_now", snap, now, 0)
        BY <4>1
      <4>3. firing'[f] = Begun(u, "run_now", snap, now, 0)
        BY <4>2 DEF Spawn, Becomes, Begun, TypeOK
      <4>4. firing'[f].task = u /\ u \in used
        BY <1>1, <3>1, <4>3, BegunFields DEF RunNow
      <4>5. \A g \in Firings \ {f} : firing'[g] = firing[g]
        BY <4>2 DEF Spawn, Becomes, TypeOK
      <4>6. QED
        BY <4>4, <4>5
    <3>2. QED
      BY <1>3, <3>1 DEF Delete, UserTurn, TurnEnds, DeleteConversation, Prune, TimePasses, vars
  <2>4. \A t \in Tasks \ used : hist'[t] = hist[t] /\ runs'[t] = runs[t]
    <3>1. ASSUME NEW t \in Tasks \ used, Prune PROVE hist'[t] = hist[t] /\ runs'[t] = runs[t]
      <4>1. runs[t] = {} /\ hist[t] = NoHistory
        BY <3>1 DEF NamesInv
      <4>2. runs'[t] = {}
        BY <3>1, <4>1 DEF Prune
      <4>3. runs[t] \ runs'[t] = {}
        BY <4>1, <4>2
      <4>4. Cardinality(runs[t] \ runs'[t]) = 0
        BY <4>3, FS_EmptySet
      <4>5. hist'[t] = [hist[t] EXCEPT !.pruned = @ + 0]
        BY <3>1, <4>4 DEF Prune
      <4>6. QED
        BY <4>1, <4>2, <4>5 DEF NoHistory
    <3>2. ASSUME NEW u \in Tasks, Delete(u) \/ RunNow(u), NEW t \in Tasks \ used
          PROVE  hist'[t] = hist[t] /\ runs'[t] = runs[t]
      BY <1>1, <3>2 DEF Delete, RunNow, TypeOK
    <3>3. QED
      BY <1>3, <3>1, <3>2 DEF UserTurn, TurnEnds, DeleteConversation, TimePasses, vars
  <2>5. QED
    BY <1>1, <2>1, <2>2, <2>3, <2>4, NamesKept
<1>4. QED
  BY <1>2, <1>3

LEMMA SweepStep == TypeOK /\ SweepInPast /\ [Next]_vars => SweepInPast'
<1> SUFFICES ASSUME TypeOK, SweepInPast, [Next]_vars PROVE SweepInPast'
  OBVIOUS
<1>1. tick.now \in Int /\ now \in Nat
  BY DEF TypeOK, TickType
<1>2. CASE Claim
  BY <1>1, <1>2 DEF Claim, SweepInPast
<1>3. CASE PauseInsteadOfFiring \/ AdvanceAndFire \/ SkipTask
  <2>1. NextInBatch /\ now' = now
    BY <1>3 DEF PauseInsteadOfFiring, AdvanceAndFire, SkipTask
  <2>2. tick'.now = tick.now \/ tick'.now = 0
    BY <2>1 DEF NextInBatch, IdleTick, TypeOK, TickType
  <2>3. QED
    BY <1>1, <2>1, <2>2 DEF SweepInPast
<1>4. CASE Crash
  BY <1>1, <1>4 DEF Crash, IdleTick, SweepInPast
<1>5. CASE tick' = tick /\ (now' = now \/ now' = now + 1)
  BY <1>1, <1>5 DEF SweepInPast
<1>6. QED
  BY <1>2, <1>3, <1>4, <1>5
     DEF Next, TickStep, FireStep, DispatchFails, DispatchConflicts, StartWorkflow,
         StartTurn, StartInNewConversation, TargetEnds, Record, InsertRun, DecideGoal,
         DecideSelfPaced, WriteBack, CreateCheck, UpdateCheck, RequestStep, Create, Update,
         Delete, RunNow, UserTurn, TurnEnds, DeleteConversation, Prune, TimePasses, vars

LEMMA BaseInit == Init => Base
<1> SUFFICES ASSUME Init PROVE Base
  OBVIOUS
<1>1. DOMAIN tick.due = {} /\ tick.now = 0 /\ now = 0
  BY EmptySeq, LenProperties DEF Init, IdleTick
<1>2. \A t : Entries(t) = {}
  BY <1>1 DEF Entries, Image
<1>3. /\ \A f \in Firings : firing[f].pc = "free"
      /\ \A r \in Requests : req[r].op = "none"
      /\ \A t \in Tasks : hist[t] = NoHistory /\ runs[t] = {}
  BY DEF Init, FreeFiring, FreeRequest, NoHistory
<1>4. NamesInv /\ RequestsInv /\ FiringsInv /\ SweepInPast
  BY <1>1, <1>2, <1>3
     DEF NamesInv, RequestsInv, Valid, FiringsInv, Sound, SweepInPast
<1>5. QED
  BY <1>4, ShotsInit DEF Base

LEMMA BaseStep == Base /\ [Next]_vars => Base'
<1> SUFFICES ASSUME Base, [Next]_vars PROVE Base'
  OBVIOUS
<1>1. ShotsInv' /\ TypeOK /\ BatchIsDistinct
  BY ShotsStep DEF Base, ShotsInv
<1>2. NamesInv'
  BY <1>1, SweepNames, FireNames, RequestNames, RestNames DEF Base, Next
<1>3. RequestsInv' /\ FiringsInv' /\ SweepInPast'
  BY <1>1, RequestsStep, FiringsStep, SweepStep DEF Base
<1>4. QED
  BY <1>1, <1>2, <1>3 DEF Base

=============================================================================
