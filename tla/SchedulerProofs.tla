---------------------------- MODULE SchedulerProofs ----------------------------
(***************************************************************************)
(* Theorems about Scheduler, for every number of tasks, firings, requests   *)
(* and conversations, every cron expression and every setting.             *)
(***************************************************************************)
EXTENDS Scheduler, TLAPS, FiniteSetTheorems, SequenceTheorems

-----------------------------------------------------------------------------
(* The helpers stay within their types *)

LEMMA SnapType == \A row \in Row : Snap(row) \in Snapshot
BY DEF Row, Snapshot, Snap

LEMMA BlankRowType == BlankRow \in Row
BY DEF BlankRow, Row, Reasons, Kinds, Targets, Never

LEMMA FreeFiringType == FreeFiring \in Firing
<1>1. Snap(BlankRow) \in Snapshot
  BY SnapType, BlankRowType
<1>2. QED
  BY <1>1 DEF FreeFiring, Firing, Triggers, Classes, Reasons, Never

LEMMA FreeRequestType == FreeRequest \in Request
BY DEF FreeRequest, Request, Kinds, Targets, Never

LEMMA IdleTickType == IdleTick \in TickType
BY NumbersAssumption, EmptySeq DEF IdleTick, TickType

\* Each statement yields a row.
LEMMA MarkFiredType ==
    ASSUME NEW row \in Row, NEW next \in Int, NEW reason \in Reasons
    PROVE  MarkFired(row, next, reason) \in Row
BY DEF Row, MarkFired, Reasons

LEMMA DisarmType == \A row \in Row : DisarmSelfPaced(row) \in Row
BY DEF Row, DisarmSelfPaced, Never

LEMMA ArmType ==
    \A row \in Row, next \in Int, reason \in Reasons :
        ArmSelfPaced(row, next, reason) \in Row
BY DEF Row, ArmSelfPaced

LEMMA RecordOutcomeType ==
    ASSUME NEW row \in Row, NEW success \in BOOLEAN, NEW reason \in Reasons
    PROVE  RecordOutcome(row, success, reason) \in Row
<1>1. /\ row.fails \in Nat /\ row.fails + 1 \in Nat /\ 0 \in Nat
      /\ (row.enabled /\ reason = "none") \in BOOLEAN
  BY DEF Row
<1> DEFINE fails == IF success THEN 0 ELSE row.fails + 1
           on == row.enabled /\ reason = "none"
<1>2. fails \in Nat /\ on \in BOOLEAN
  BY <1>1
<1>3. RecordOutcome(row, success, reason) =
        [row EXCEPT !.lastStatus = IF success THEN "success" ELSE "failed",
                    !.fails = fails, !.enabled = on,
                    !.reason = IF reason # "none" THEN reason ELSE @]
  BY DEF RecordOutcome, Row
<1> HIDE DEF fails, on
<1>4. QED
  BY <1>2, <1>3 DEF Row

LEMMA UpdateRowType ==
    ASSUME NEW row \in Row, NEW r \in Request
    PROVE  UpdateRow(row, r) \in Row
<1> DEFINE on == IF r.enabled = "keep" THEN row.enabled ELSE r.enabled = "on"
           kind == IF r.kind = "keep" THEN row.kind ELSE r.kind
           runAt == IF r.runAt = Never THEN row.runAt ELSE r.runAt
           at == IF r.touched THEN r.next ELSE row.next
<1>1. on \in BOOLEAN /\ kind \in Kinds /\ runAt \in Int /\ at \in Int
  BY DEF Row, Request
<1>2. UpdateRow(row, r) =
        [row EXCEPT !.enabled = on,
                    !.reason = IF r.enabled = "on" THEN "none" ELSE @,
                    !.kind = kind, !.runAt = runAt, !.next = at]
  BY Zenon DEF UpdateRow, Row
<1> HIDE DEF on, kind, runAt, at
<1>3. QED
  BY <1>1, <1>2 DEF Row, Reasons

LEMMA WriteType ==
    ASSUME rows \in [Tasks -> Row], live \subseteq Tasks, NEW t,
           NEW row, t \in live => row \in Row, Write(t, row)
    PROVE  rows' \in [Tasks -> Row]
BY DEF Write

LEMMA ArmedType ==
    \A h \in History, next \in Int : Armed(h, next) \in History
BY DEF History, Armed

\* A cron expression has an answer that is an instant, or none.
LEMMA NextOccurrenceType ==
    ASSUME NEW kind \in Kinds, NEW runAt \in Int, NEW after \in 0..MaxTime
    PROVE  NextOccurrence(kind, runAt, after) \in Int
BY CronAssumption DEF NextOccurrence, Kinds, Never

LEMMA NextSelfPacedFireType ==
    ASSUME NEW p \in [stop : BOOLEAN, delay : Int], NEW created \in Int,
           NEW at \in Int
    PROVE  NextSelfPacedFire(p, created, at) \in Int
BY NumbersAssumption DEF NextSelfPacedFire, AtLeast, AtMost, Never
-----------------------------------------------------------------------------
(* Type correctness *)

LEMMA TypeInit == Init => TypeOK
<1> SUFFICES ASSUME Init PROVE TypeOK
  OBVIOUS
<1>1. \A t \in Tasks : IsFiniteSet(runs[t])
  BY FS_EmptySet DEF Init
<1>2. hist \in [Tasks -> History]
  BY DEF Init, History
<1>3. now \in 0..MaxTime
  BY NumbersAssumption DEF Init
<1>4. QED
  BY <1>1, <1>2, <1>3, BlankRowType, FreeFiringType, FreeRequestType, IdleTickType
     DEF Init, TypeOK

LEMMA FunctionIsSeq ==
    ASSUME NEW S, NEW n \in Nat, NEW f \in [1..n -> S]
    PROVE  f \in Seq(S)
<1>1. f \in UNION {[1..m -> S] : m \in Nat}
  OBVIOUS
<1>2. QED
  BY <1>1, SeqDef, Zenon

LEMMA ClaimType == TypeOK /\ Claim => TypeOK'
<1> SUFFICES ASSUME TypeOK, Claim PROVE TypeOK'
  OBVIOUS
<1> DEFINE Item == [task : Tasks, snap : Snapshot, gone : BOOLEAN]
<1>1. tick' \in TickType
  <2>1. PICK n \in 1..Batch : \E s \in [1..n -> {t \in Tasks : IsDue(t, now)}] :
           tick' = [now |-> now, due |-> [i \in DOMAIN s |->
                [task |-> s[i], snap |-> Snap(rows[s[i]]),
                 gone |-> ConversationGone(rows[s[i]])]]]
    BY DEF Claim
  <2>2. PICK s \in [1..n -> {t \in Tasks : IsDue(t, now)}] :
           tick' = [now |-> now, due |-> [i \in DOMAIN s |->
                [task |-> s[i], snap |-> Snap(rows[s[i]]),
                 gone |-> ConversationGone(rows[s[i]])]]]
    BY <2>1
  <2>3. \A i \in 1..n : [task |-> s[i], snap |-> Snap(rows[s[i]]),
                         gone |-> ConversationGone(rows[s[i]])] \in Item
    BY SnapType DEF TypeOK, ConversationGone
  <2>4. tick'.due \in [1..n -> Item]
    BY <2>2, <2>3
  <2>5. n \in Nat
    BY NumbersAssumption
  <2>6. tick'.due \in Seq(Item)
    BY <2>4, <2>5, FunctionIsSeq
  <2>7. QED
    BY <2>2, <2>6 DEF TickType, TypeOK
<1>2. hist' \in [Tasks -> History]
  <2>1. PICK s : hist' = [t \in Tasks |-> [hist[t] EXCEPT
                     !.overlap = @ \/ (Scheduled(t) # {} /\ t \in Image(s))]]
    BY DEF Claim
  <2>2. \A h \in History, b \in BOOLEAN : [h EXCEPT !.overlap = @ \/ b] \in History
    BY DEF History
  <2>3. QED
    BY <2>1, <2>2 DEF TypeOK
<1>3. QED
  BY <1>1, <1>2 DEF TypeOK, Claim

\* What the batch holds, and what the step to the next of it leaves.
LEMMA BatchType ==
    ASSUME TypeOK, tick.due # <<>>
    PROVE  /\ Head(tick.due).task \in Tasks
           /\ Head(tick.due).snap \in Snapshot
           /\ tick.now \in 0..MaxTime
           /\ NextInBatch => tick' \in TickType
<1> DEFINE Item == [task : Tasks, snap : Snapshot, gone : BOOLEAN]
<1>1. tick.due \in Seq(Item) /\ tick.now \in 0..MaxTime
  BY DEF TypeOK, TickType
<1>2. Head(tick.due) \in Item /\ Tail(tick.due) \in Seq(Item)
  BY <1>1, HeadTailProperties
<1>3. NextInBatch => tick' \in TickType
  BY <1>1, <1>2, IdleTickType DEF NextInBatch, TickType, TypeOK
<1>4. QED
  BY <1>1, <1>2, <1>3

LEMMA PauseInsteadOfFiringType == TypeOK /\ PauseInsteadOfFiring => TypeOK'
<1> SUFFICES ASSUME TypeOK, PauseInsteadOfFiring PROVE TypeOK'
  OBVIOUS
<1> DEFINE t == Head(tick.due).task
<1>1. t \in Tasks /\ tick' \in TickType /\ tick.now \in Int
  BY BatchType DEF PauseInsteadOfFiring
<1>2. rows' \in [Tasks -> Row]
  <2>1. t \in live => MarkFired(rows[t], Never, "conversation_deleted") \in Row
    BY <1>1, MarkFiredType DEF TypeOK, Never, Reasons
  <2>2. QED
    BY <2>1, WriteType DEF PauseInsteadOfFiring, WriteFails, TypeOK
<1>3. faults' \in Nat
  BY NumbersAssumption DEF PauseInsteadOfFiring, WriteFails, TypeOK
<1>4. runs' \in [Tasks -> SUBSET (Int \X Int)] /\ \A u \in Tasks : IsFiniteSet(runs'[u])
  <2>1. IsFiniteSet(runs[t]) /\ Cardinality(runs[t]) \in Nat
    BY <1>1, FS_CardinalityType DEF TypeOK
  <2> DEFINE r == <<tick.now, -1 - Cardinality(runs[t])>>
  <2>2. r \in Int \X Int
    BY <1>1, <2>1
  <2>3. runs' = [runs EXCEPT ![t] = runs[t] \cup {r}] \/ runs' = runs
    BY <1>1 DEF PauseInsteadOfFiring, TypeOK
  <2> HIDE DEF r
  <2>4. IsFiniteSet(runs[t] \cup {r})
    BY <2>1, FS_AddElement
  <2>5. runs[t] \cup {r} \in SUBSET (Int \X Int)
    BY <1>1, <2>2 DEF TypeOK
  <2>6. QED
    BY <1>1, <2>3, <2>4, <2>5 DEF TypeOK
<1>5. QED
  BY <1>1, <1>2, <1>3, <1>4 DEF PauseInsteadOfFiring, TypeOK

LEMMA BecomesType ==
    ASSUME firing \in [Firings -> Firing], NEW f \in Firings, NEW x \in Firing,
           Becomes(f, x)
    PROVE  firing' \in [Firings -> Firing]
BY DEF Becomes

LEMMA SpawnType ==
    ASSUME firing \in [Firings -> Firing], NEW f \in Firings, NEW t \in Tasks,
           NEW trigger \in Triggers, NEW snap \in Snapshot, NEW at \in Int,
           NEW no \in Nat, Spawn(f, t, trigger, snap, at, no)
    PROVE  firing' \in [Firings -> Firing]
<1>1. [FreeFiring EXCEPT !.pc = "start", !.task = t, !.trigger = trigger,
                         !.snap = snap, !.at = at, !.no = no] \in Firing
  BY FreeFiringType DEF Firing
<1>2. QED
  BY <1>1, BecomesType DEF Spawn

LEMMA AdvanceAndFireType == TypeOK /\ AdvanceAndFire => TypeOK'
<1> SUFFICES ASSUME TypeOK, AdvanceAndFire PROVE TypeOK'
  OBVIOUS
<1> DEFINE t == Head(tick.due).task
           snap == Head(tick.due).snap
           next == IF snap.kind = "recurring" THEN NextCron(tick.now) ELSE Never
<1>1. t \in Tasks /\ snap \in Snapshot /\ tick.now \in 0..MaxTime /\ tick' \in TickType
  BY BatchType DEF AdvanceAndFire
<1>2. next \in Int
  BY <1>1, CronAssumption DEF Never
<1>3. rows' \in [Tasks -> Row]
  <2>1. t \in live => /\ MarkFired(rows[t], next, "none") \in Row
                      /\ DisarmSelfPaced(rows[t]) \in Row
    BY <1>1, <1>2, MarkFiredType, DisarmType DEF TypeOK, Reasons
  <2>2. QED
    BY <2>1, WriteType DEF AdvanceAndFire, TypeOK
<1>4. hist' \in [Tasks -> History]
  <2>1. Armed(hist[t], next) \in History
    BY <1>1, <1>2, ArmedType DEF TypeOK
  <2>2. [Armed(hist[t], next) EXCEPT !.shots = @ + 1] \in History
    BY <2>1 DEF History
  <2>3. Shot(t, next)
    BY DEF AdvanceAndFire
  <2> HIDE DEF t, next
  <2>4. QED
    BY <1>1, <2>2, <2>3 DEF TypeOK, Shot
<1>5. firing' \in [Firings -> Firing]
  <2>1. PICK f \in Firings : Spawn(f, t, "schedule", snap, tick.now, hist[t].shots + 1)
    BY DEF AdvanceAndFire
  <2>2. hist[t].shots + 1 \in Nat
    BY <1>1 DEF TypeOK, History
  <2>3. QED
    BY <1>1, <2>1, <2>2, SpawnType DEF TypeOK, Triggers
<1>6. QED
  BY <1>1, <1>3, <1>4, <1>5 DEF AdvanceAndFire, TypeOK

LEMMA SkipTaskType == TypeOK /\ SkipTask => TypeOK'
<1> SUFFICES ASSUME TypeOK, SkipTask PROVE TypeOK'
  OBVIOUS
<1>1. tick' \in TickType
  BY BatchType DEF SkipTask
<1>2. QED
  BY <1>1 DEF SkipTask, WriteFails, TypeOK

LEMMA AfterDispatchType ==
    ASSUME NEW f \in Firings PROVE AfterDispatch(f) \in {"log", "record"}
BY DEF AfterDispatch

LEMMA ProposalsType ==
    ASSUME NEW snap PROVE Proposals(snap) \subseteq [stop : BOOLEAN, delay : Int]
<1>1. FreeFiring.proposal \in [stop : BOOLEAN, delay : Int]
  BY FreeFiringType DEF Firing
<1>2. Horizon + 1 \in Int /\ 0 \in Int
  BY NumbersAssumption
<1>3. \A d \in Int : [stop |-> FALSE, delay |-> d] \in [stop : BOOLEAN, delay : Int]
  OBVIOUS
<1>4. QED
  BY <1>1, <1>2, <1>3 DEF Proposals

\* What the steps of a firing leave in its slot.
LEMMA SlotType ==
    ASSUME NEW x \in Firing
    PROVE  /\ \A pc \in {"start", "running", "record", "log", "decide", "arm"} :
                 [x EXCEPT !.pc = pc] \in Firing
           /\ \A pc \in {"record", "log"}, r \in Classes \cup {"success"} :
                 [x EXCEPT !.pc = pc, !.result = r] \in Firing
           /\ \A c \in Conversations : [x EXCEPT !.pc = "running", !.conv = c] \in Firing
           /\ \A pc \in {"record", "log"}, r \in {"success", "transient"},
                p \in [stop : BOOLEAN, delay : Int] :
                 [x EXCEPT !.pc = pc, !.result = r, !.proposal = p] \in Firing
           /\ \A n \in Int, r \in Reasons :
                 [x EXCEPT !.pc = "arm", !.next = n, !.reason = r] \in Firing
<1>1. \A pc \in {"start", "running", "record", "log", "decide", "arm"} :
         [x EXCEPT !.pc = pc] \in Firing
  BY DEF Firing
<1>2. \A pc \in {"record", "log"}, r \in Classes \cup {"success"} :
         [x EXCEPT !.pc = pc, !.result = r] \in Firing
  BY DEF Firing
<1>3. \A c \in Conversations : [x EXCEPT !.pc = "running", !.conv = c] \in Firing
  BY DEF Firing
<1>4. \A pc \in {"record", "log"}, r \in {"success", "transient"},
        p \in [stop : BOOLEAN, delay : Int] :
         [x EXCEPT !.pc = pc, !.result = r, !.proposal = p] \in Firing
  BY DEF Firing, Classes
<1>5. \A n \in Int, r \in Reasons :
         [x EXCEPT !.pc = "arm", !.next = n, !.reason = r] \in Firing
  BY DEF Firing
<1>6. QED
  BY <1>1, <1>2, <1>3, <1>4, <1>5

LEMMA StartType ==
    ASSUME TypeOK, NEW f \in Firings,
           \/ DispatchFails(f) \/ DispatchConflicts(f) \/ StartWorkflow(f)
           \/ StartTurn(f) \/ StartInNewConversation(f) \/ TargetEnds(f)
    PROVE  TypeOK'
<1>0. firing[f] \in Firing /\ firing \in [Firings -> Firing]
  BY DEF TypeOK
<1>1. CASE DispatchFails(f)
  <2>1. firing' \in [Firings -> Firing]
    BY <1>0, <1>1, AfterDispatchType, SlotType, BecomesType DEF DispatchFails, Classes
  <2>2. QED
    BY <1>1, <2>1 DEF DispatchFails, TypeOK
<1>2. CASE DispatchConflicts(f)
  <2>1. firing' \in [Firings -> Firing]
    BY <1>0, <1>2, AfterDispatchType, SlotType, BecomesType DEF DispatchConflicts, Classes
  <2>2. QED
    BY <1>2, <2>1 DEF DispatchConflicts, TypeOK
<1>3. CASE StartWorkflow(f)
  <2>1. firing' \in [Firings -> Firing]
    BY <1>0, <1>3, SlotType, BecomesType DEF StartWorkflow, Goto
  <2>2. QED
    BY <1>3, <2>1 DEF StartWorkflow, TypeOK
<1>4. CASE StartTurn(f)
  <2>1. firing[f].snap.bound \in Conversations
    BY <1>4 DEF StartTurn, TypeOK
  <2>2. firing' \in [Firings -> Firing]
    BY <1>0, <1>4, <2>1, SlotType, BecomesType DEF StartTurn
  <2>3. QED
    BY <1>4, <2>1, <2>2 DEF StartTurn, TypeOK
<1>5. CASE StartInNewConversation(f)
  <2>1. PICK c \in Conversations :
           /\ convs' = convs \cup {c} /\ generating' = generating \cup {c}
           /\ Write(firing[f].task, [rows[firing[f].task] EXCEPT !.bound = c])
           /\ Becomes(f, [firing[f] EXCEPT !.pc = "running", !.conv = c])
    BY <1>5 DEF StartInNewConversation
  <2>2. firing' \in [Firings -> Firing]
    BY <1>0, <2>1, SlotType, BecomesType
  <2>3. \A row \in Row : [row EXCEPT !.bound = c] \in Row
    BY DEF Row
  <2>4. rows' \in [Tasks -> Row]
    BY <2>1, <2>3, WriteType DEF TypeOK
  <2>5. QED
    BY <1>5, <2>1, <2>2, <2>4 DEF StartInNewConversation, TypeOK
<1>6. CASE TargetEnds(f)
  <2>1. PICK p \in Proposals(firing[f].snap), result \in {"success", "transient"} :
           Becomes(f, [firing[f] EXCEPT !.pc = AfterDispatch(f),
                                        !.result = result, !.proposal = p])
    BY <1>6 DEF TargetEnds
  <2>2. p \in [stop : BOOLEAN, delay : Int]
    BY ProposalsType
  <2>3. firing' \in [Firings -> Firing]
    BY <1>0, <2>1, <2>2, AfterDispatchType, SlotType, BecomesType
  <2>4. QED
    BY <1>6, <2>3 DEF TargetEnds, TypeOK
<1>7. QED
  BY <1>1, <1>2, <1>3, <1>4, <1>5, <1>6

LEMMA RecordType ==
    ASSUME TypeOK, NEW f \in Firings, Record(f)
    PROVE  TypeOK'
<1> DEFINE t == firing[f].task
           success == firing[f].result = "success"
<1>1. firing' \in [Firings -> Firing]
  BY SlotType, BecomesType DEF Record, Goto, TypeOK
<1>2. rows' \in [Tasks -> Row]
  <2>1. t \in live => RecordOutcome(rows[t], success, PauseReason(f)) \in Row
    BY RecordOutcomeType DEF TypeOK, PauseReason, Reasons
  <2>2. QED
    BY <2>1, WriteType DEF Record, WriteFails, TypeOK
<1>3. faults' \in Nat
  BY NumbersAssumption DEF Record, WriteFails, TypeOK
<1>4. QED
  BY <1>1, <1>2, <1>3 DEF Record, TypeOK

LEMMA InsertRunType ==
    ASSUME TypeOK, NEW f \in Firings, InsertRun(f)
    PROVE  TypeOK'
<1> DEFINE t == firing[f].task
           r == <<firing[f].at, firing[f].no>>
<1>1. firing' \in [Firings -> Firing]
  BY FreeFiringType, SlotType, BecomesType DEF InsertRun, Goto, TypeOK
<1>2. runs' \in [Tasks -> SUBSET (Int \X Int)] /\ \A u \in Tasks : IsFiniteSet(runs'[u])
  <2>1. runs' = runs \/ (t \in Tasks /\ runs' = [runs EXCEPT ![t] = @ \cup {r}])
    BY DEF InsertRun, TypeOK
  <2>2. r \in Int \X Int
    BY DEF TypeOK, Firing
  <2> HIDE DEF r, t
  <2>3. t \in Tasks => /\ runs[t] \cup {r} \in SUBSET (Int \X Int)
                       /\ IsFiniteSet(runs[t] \cup {r})
    BY <2>2, FS_AddElement DEF TypeOK
  <2>4. QED
    BY <2>1, <2>3 DEF TypeOK
<1>3. faults' \in Nat
  BY NumbersAssumption DEF InsertRun, TypeOK
<1>4. QED
  BY <1>1, <1>2, <1>3 DEF InsertRun, TypeOK

LEMMA DecideType ==
    ASSUME TypeOK, NEW f \in Firings, DecideGoal(f) \/ DecideSelfPaced(f)
    PROVE  TypeOK'
<1>0. firing[f] \in Firing /\ firing[f].snap \in Snapshot
  BY DEF TypeOK, Firing
<1> DEFINE step == [stop |-> FALSE, delay |-> MinInterval]
<1>1. /\ NextSelfPacedFire(step, firing[f].snap.created, firing[f].at) \in Int
      /\ NextSelfPacedFire(firing[f].proposal, firing[f].snap.created, firing[f].at) \in Int
  <2>1. step \in [stop : BOOLEAN, delay : Int]
    BY NumbersAssumption
  <2>2. /\ firing[f].proposal \in [stop : BOOLEAN, delay : Int]
        /\ firing[f].snap.created \in Int /\ firing[f].at \in Int
    BY <1>0 DEF Firing, Snapshot
  <2> HIDE DEF step
  <2>3. QED
    BY <2>1, <2>2, NextSelfPacedFireType
<1>2. CASE DecideGoal(f)
  <2>1. ASSUME NEW done \in BOOLEAN PROVE Verdict(f, done) \in Firing
    <3> DEFINE next == IF Cardinality(runs[firing[f].task]) >= AtLeast(MaxTurns, 1)
                       THEN Never
                       ELSE NextSelfPacedFire(step, firing[f].snap.created, firing[f].at)
               n == IF done THEN Never ELSE next
               r == IF ~done /\ next = Never THEN "incomplete" ELSE "completed"
    <3>1. n \in Int /\ r \in Reasons
      BY <1>1 DEF Never, Reasons
    <3>2. Verdict(f, done) = [firing[f] EXCEPT !.pc = "arm", !.next = n, !.reason = r]
      BY DEF Verdict
    <3> HIDE DEF n, r
    <3>3. [firing[f] EXCEPT !.pc = "arm", !.next = n, !.reason = r] \in Firing
      BY <1>0, <3>1, SlotType
    <3>4. QED
      BY <3>2, <3>3
  <2>2. firing' \in [Firings -> Firing]
    BY <1>2, <2>1, BecomesType DEF DecideGoal, TypeOK
  <2>3. QED
    BY <1>2, <2>2 DEF DecideGoal, TypeOK
<1>3. CASE DecideSelfPaced(f)
  <2>1. firing' \in [Firings -> Firing]
    <3> DEFINE n == NextSelfPacedFire(firing[f].proposal, firing[f].snap.created,
                                      firing[f].at)
    <3>1. Becomes(f, [firing[f] EXCEPT !.pc = "arm", !.next = n, !.reason = "completed"])
      BY <1>3 DEF DecideSelfPaced
    <3>2. n \in Int /\ "completed" \in Reasons
      BY <1>1 DEF Reasons
    <3> HIDE DEF n
    <3>3. QED
      BY <1>0, <3>1, <3>2, SlotType, BecomesType DEF TypeOK
  <2>2. QED
    BY <1>3, <2>1 DEF DecideSelfPaced, TypeOK
<1>4. QED
  BY <1>2, <1>3

LEMMA WriteBackType ==
    ASSUME TypeOK, NEW f \in Firings, WriteBack(f)
    PROVE  TypeOK'
<1> DEFINE t == firing[f].task
<1>1. firing' \in [Firings -> Firing] /\ firing[f].next \in Int /\ firing[f].reason \in Reasons
  BY FreeFiringType, BecomesType DEF WriteBack, TypeOK, Firing
<1>2. rows' \in [Tasks -> Row]
  <2>1. t \in live => ArmSelfPaced(rows[t], firing[f].next, firing[f].reason) \in Row
    BY <1>1, ArmType DEF TypeOK
  <2>2. QED
    BY <2>1, WriteType DEF WriteBack, WriteFails, TypeOK
<1>3. hist' \in [Tasks -> History]
  <2>1. t \in Tasks => Armed(hist[t], firing[f].next) \in History
    BY <1>1, ArmedType DEF TypeOK
  <2>2. QED
    BY <2>1 DEF WriteBack, TypeOK
<1>4. faults' \in Nat
  BY NumbersAssumption DEF WriteBack, WriteFails, TypeOK
<1>5. QED
  BY <1>1, <1>2, <1>3, <1>4 DEF WriteBack, TypeOK

LEMMA CreateCheckType ==
    ASSUME TypeOK, NEW r \in Requests, CreateCheck(r)
    PROVE  TypeOK'
<1>1. ops' \in Nat
  BY DEF CreateCheck, UserOp, TypeOK
<1>2. req' \in [Requests -> Request]
  <2>1. PICK t \in Tasks \ used, k \in Templates :
           \E runAt \in IF k.kind = "once" THEN Future ELSE {Never} :
           \E c \in IF k.target = "prompt" THEN convs \cup {NoConv} ELSE {NoConv} :
              req' = [req EXCEPT ![r] =
                [op |-> "create", task |-> t, enabled |-> "on", kind |-> k.kind,
                 goal |-> k.goal, target |-> k.target, bound |-> c,
                 runAt |-> runAt, touched |-> TRUE,
                 next |-> NextOccurrence(k.kind, runAt, now)]]
    BY DEF CreateCheck
  <2>2. PICK runAt \in IF k.kind = "once" THEN Future ELSE {Never},
             c \in IF k.target = "prompt" THEN convs \cup {NoConv} ELSE {NoConv} :
              req' = [req EXCEPT ![r] =
                [op |-> "create", task |-> t, enabled |-> "on", kind |-> k.kind,
                 goal |-> k.goal, target |-> k.target, bound |-> c,
                 runAt |-> runAt, touched |-> TRUE,
                 next |-> NextOccurrence(k.kind, runAt, now)]]
    BY <2>1
  <2>3. k \in [kind : Kinds, goal : BOOLEAN, target : Targets]
    BY DomainAssumption
  <2>4. runAt \in Int
    BY NumbersAssumption DEF Future, Never, TypeOK
  <2>5. c \in Conversations \cup {NoConv}
    BY DEF TypeOK
  <2>6. NextOccurrence(k.kind, runAt, now) \in Int
    BY <2>3, <2>4, NextOccurrenceType DEF TypeOK
  <2>7. [op |-> "create", task |-> t, enabled |-> "on", kind |-> k.kind,
         goal |-> k.goal, target |-> k.target, bound |-> c,
         runAt |-> runAt, touched |-> TRUE,
         next |-> NextOccurrence(k.kind, runAt, now)] \in Request
    BY <2>3, <2>4, <2>5, <2>6 DEF Request
  <2>8. QED
    BY <2>2, <2>7 DEF TypeOK
<1>3. QED
  BY <1>1, <1>2 DEF CreateCheck, TypeOK

LEMMA UpdateCheckType ==
    ASSUME TypeOK, NEW r \in Requests, UpdateCheck(r)
    PROVE  TypeOK'
<1>1. ops' \in Nat
  BY DEF UpdateCheck, UserOp, TypeOK
<1>2. req' \in [Requests -> Request]
  <2>1. PICK t \in live, enabled \in {"keep", "on", "off"}, kind \in EditKinds \cup {"keep"} :
           \E runAt \in IF KindAfter(t, kind) = "once" THEN Future \cup {Never} ELSE {Never} :
              req' = [req EXCEPT ![r] = Edit(t, enabled, kind, runAt)]
    BY DEF UpdateCheck
  <2>2. PICK runAt \in IF KindAfter(t, kind) = "once" THEN Future \cup {Never} ELSE {Never} :
              req' = [req EXCEPT ![r] = Edit(t, enabled, kind, runAt)]
    BY <2>1
  <2>3. t \in Tasks /\ rows[t] \in Row /\ now \in 0..MaxTime
    BY DEF TypeOK
  <2>4. KindAfter(t, kind) \in Kinds /\ kind \in Kinds \cup {"keep"}
    BY <2>3, DomainAssumption DEF Row, KindAfter
  <2>5. runAt \in Int /\ RunAtAfter(t, runAt) \in Int
    BY <2>3, NumbersAssumption DEF Future, Never, Row, RunAtAfter
  <2> DEFINE touched == Touches(enabled, kind, runAt)
             next == IF touched
                     THEN NextOccurrence(KindAfter(t, kind), RunAtAfter(t, runAt), now)
                     ELSE Never
  <2>6. next \in Int
    BY <2>3, <2>4, <2>5, NextOccurrenceType DEF Never
  <2>7. touched \in BOOLEAN
    BY DEF Touches
  <2>8. Edit(t, enabled, kind, runAt) =
          [FreeRequest EXCEPT !.op = "update", !.task = t, !.enabled = enabled,
              !.kind = kind, !.runAt = runAt, !.touched = touched, !.next = next]
    BY DEF Edit
  <2> HIDE DEF touched, next
  <2>9. Edit(t, enabled, kind, runAt) \in Request
    BY <2>3, <2>4, <2>5, <2>6, <2>7, <2>8, FreeRequestType DEF Request
  <2>10. QED
    BY <2>2, <2>9 DEF TypeOK
<1>3. QED
  BY <1>1, <1>2 DEF UpdateCheck, TypeOK

LEMMA CreateType ==
    ASSUME TypeOK, NEW r \in Requests, Create(r)
    PROVE  TypeOK'
<1> DEFINE q == req[r]
           row == [BlankRow EXCEPT !.enabled = TRUE, !.kind = q.kind,
                                   !.goal = q.goal, !.target = q.target,
                                   !.bound = q.bound, !.runAt = q.runAt,
                                   !.next = q.next, !.created = now]
<1>1. q \in Request /\ q.next \in Int /\ q.op = "create"
  BY DEF Create, TypeOK, Request
<1>2. q.task \in Tasks /\ q.kind \in Kinds
  BY <1>1 DEF Request
<1>3. row \in Row
  <2>1. /\ q.goal \in BOOLEAN /\ q.target \in Targets /\ q.runAt \in Int
        /\ q.bound \in Conversations \cup {NoConv} /\ now \in Nat
    BY <1>1, NumbersAssumption DEF Request, TypeOK
  <2> HIDE DEF q
  <2>2. QED
    BY <1>1, <1>2, <2>1, BlankRowType DEF Row
<1>4. rows' \in [Tasks -> Row] /\ hist' \in [Tasks -> History]
  BY <1>1, <1>2, <1>3, ArmedType DEF Create, TypeOK
<1>5. req' \in [Requests -> Request]
  BY FreeRequestType DEF Create, TypeOK
<1>6. used' \subseteq Tasks /\ live' \subseteq used'
  BY <1>2 DEF Create, TypeOK
<1>7. QED
  BY <1>4, <1>5, <1>6 DEF Create, TypeOK

\* The history of a task whose schedule a user has edited.
LEMMA EditedType ==
    ASSUME NEW h \in History, NEW b \in BOOLEAN
    PROVE  [h EXCEPT !.manual = @ + 1, !.switched = b] \in History
<1>1. h.manual + 1 \in Nat
  BY DEF History
<1>2. [h EXCEPT !.manual = @ + 1, !.switched = b]
        = [h EXCEPT !.manual = h.manual + 1, !.switched = b]
  BY Zenon DEF History
<1>3. \A n \in Nat : [h EXCEPT !.manual = n, !.switched = b] \in History
  BY DEF History
<1>4. QED
  BY <1>1, <1>2, <1>3, Zenon

LEMMA UpdateType ==
    ASSUME TypeOK, NEW r \in Requests, Update(r)
    PROVE  TypeOK'
<1> DEFINE t == req[r].task
<1>1. req[r] \in Request /\ req[r].next \in Int
  BY DEF TypeOK, Request
<1>2. rows' \in [Tasks -> Row]
  <2>1. t \in live => UpdateRow(rows[t], req[r]) \in Row
    BY <1>1, UpdateRowType DEF TypeOK
  <2>2. QED
    BY <2>1, WriteType DEF Update, TypeOK
<1>3. hist' \in [Tasks -> History]
  <2>1. t \in Tasks => Armed(hist[t], req[r].next) \in History
    BY <1>1, ArmedType DEF TypeOK
  <2> DEFINE moved == hist[t].switched \/ req[r].kind \notin {"keep", rows[t].kind}
  <2>3. hist' = IF req[r].touched /\ t \in live
                THEN [hist EXCEPT ![t] = [Armed(hist[t], req[r].next) EXCEPT
                                             !.manual = @ + 1, !.switched = moved]]
                ELSE hist
    BY DEF Update, Armed
  <2>4. moved \in BOOLEAN
    BY DEF TypeOK, History
  <2> HIDE DEF moved
  <2>5. QED
    BY <2>1, <2>3, <2>4, EditedType DEF TypeOK
<1>4. req' \in [Requests -> Request]
  BY FreeRequestType DEF Update, TypeOK
<1>5. QED
  BY <1>2, <1>3, <1>4 DEF Update, TypeOK

LEMMA ManualType == \A h \in History : [h EXCEPT !.manual = @ + 1] \in History
BY DEF History

LEMMA RestType ==
    ASSUME TypeOK,
           \/ \E t \in Tasks : Delete(t) \/ RunNow(t)
           \/ \E c \in Conversations : UserTurn(c) \/ TurnEnds(c) \/ DeleteConversation(c)
           \/ Prune \/ Crash \/ TimePasses
    PROVE  TypeOK'
<1>1. ASSUME NEW t \in Tasks, Delete(t) PROVE TypeOK'
  <2>1. /\ rows' \in [Tasks -> Row] /\ runs' \in [Tasks -> SUBSET (Int \X Int)]
        /\ \A u \in Tasks : IsFiniteSet(runs'[u])
    BY <1>1, BlankRowType, FS_EmptySet DEF Delete, TypeOK
  <2>2. QED
    BY <1>1, <2>1 DEF Delete, UserOp, TypeOK
<1>2. ASSUME NEW t \in Tasks, RunNow(t) PROVE TypeOK'
  <2>1. PICK f \in Firings : Spawn(f, t, "run_now", Snap(rows[t]), now, 0)
    BY <1>2 DEF RunNow
  <2>2. Snap(rows[t]) \in Snapshot /\ now \in Int
    BY SnapType DEF TypeOK
  <2>3. firing' \in [Firings -> Firing]
    BY <2>1, <2>2, SpawnType DEF TypeOK, Triggers
  <2>4. hist' \in [Tasks -> History]
    BY <1>2, ManualType DEF RunNow, TypeOK
  <2>5. QED
    BY <1>2, <2>3, <2>4 DEF RunNow, UserOp, TypeOK
<1>3. ASSUME NEW c \in Conversations, UserTurn(c) \/ TurnEnds(c) PROVE TypeOK'
  BY <1>3 DEF UserTurn, TurnEnds, UserOp, TypeOK
<1>4. ASSUME NEW c \in Conversations, DeleteConversation(c) PROVE TypeOK'
  <2>1. \A row \in Row : [row EXCEPT !.bound = NoConv] \in Row
    BY DEF Row
  <2>2. rows' \in [Tasks -> Row]
    BY <1>4, <2>1 DEF DeleteConversation, TypeOK
  <2>3. QED
    BY <1>4, <2>2 DEF DeleteConversation, UserOp, TypeOK
<1>5. ASSUME Prune PROVE TypeOK'
  <2>1. \A t \in Tasks : /\ runs'[t] \subseteq runs[t]
                         /\ IsFiniteSet(runs'[t])
    BY <1>5, FS_Subset DEF Prune, TypeOK
  <2>2. runs' \in [Tasks -> SUBSET (Int \X Int)]
    BY <1>5 DEF Prune, TypeOK
  <2>3. \A t \in Tasks : Cardinality(runs[t] \ runs'[t]) \in Nat
    BY FS_Difference, FS_CardinalityType DEF TypeOK
  <2>4. \A h \in History, n \in Nat : [h EXCEPT !.pruned = @ + n] \in History
    BY DEF History
  <2>5. hist' \in [Tasks -> History]
    BY <1>5, <2>3, <2>4 DEF Prune, TypeOK
  <2>6. QED
    BY <1>5, <2>1, <2>2, <2>5 DEF Prune, TypeOK
<1>6. ASSUME Crash PROVE TypeOK'
  BY <1>6, IdleTickType, FreeFiringType, FreeRequestType, NumbersAssumption
     DEF Crash, TypeOK
<1>7. ASSUME TimePasses PROVE TypeOK'
  BY <1>7, NumbersAssumption DEF TimePasses, TypeOK, TickType
<1>8. QED
  BY <1>1, <1>2, <1>3, <1>4, <1>5, <1>6, <1>7

LEMMA TypeStep == TypeOK /\ [Next]_vars => TypeOK'
<1> SUFFICES ASSUME TypeOK, [Next]_vars PROVE TypeOK'
  OBVIOUS
<1>1. CASE TickStep
  BY <1>1, ClaimType, PauseInsteadOfFiringType, AdvanceAndFireType, SkipTaskType
     DEF TickStep
<1>2. ASSUME NEW f \in Firings, FireStep(f) PROVE TypeOK'
  BY <1>2, StartType, RecordType, InsertRunType, DecideType, WriteBackType DEF FireStep
<1>3. ASSUME NEW r \in Requests, CreateCheck(r) \/ UpdateCheck(r) \/ RequestStep(r)
      PROVE TypeOK'
  BY <1>3, CreateCheckType, UpdateCheckType, CreateType, UpdateType DEF RequestStep
<1>4. CASE UNCHANGED vars
  BY <1>4 DEF vars, TypeOK
<1>5. QED
  BY <1>1, <1>2, <1>3, <1>4, RestType DEF Next

\* Every reachable state is of its type: no sequence of claims, firings, requests,
\* failed statements and crashes leaves a row that scheduled_tasks cannot hold.
THEOREM SchedulerType == Spec => []TypeOK
<1>1. QED
  BY TypeInit, TypeStep, PTL DEF Spec

-----------------------------------------------------------------------------
(* A paused row is disabled *)

Coherent(row) == row.reason # "none" => ~row.enabled

\* Every UPDATE that pauses also disables, and the one that enables unpauses.
LEMMA StatementsAreCoherent ==
    ASSUME NEW row \in Row, Coherent(row), NEW next, NEW reason, NEW success,
           NEW r \in Request
    PROVE  /\ Coherent(MarkFired(row, next, reason))
           /\ Coherent(DisarmSelfPaced(row))
           /\ Coherent(ArmSelfPaced(row, next, reason))
           /\ Coherent(RecordOutcome(row, success, reason))
           /\ Coherent(UpdateRow(row, r))
<1>1. Coherent(MarkFired(row, next, reason))
  BY DEF Row, Coherent, MarkFired
<1>2. Coherent(DisarmSelfPaced(row))
  BY DEF Row, Coherent, DisarmSelfPaced
<1>3. Coherent(ArmSelfPaced(row, next, reason))
  BY DEF Row, Coherent, ArmSelfPaced
<1>4. Coherent(RecordOutcome(row, success, reason))
  BY DEF Row, Coherent, RecordOutcome
<1>5. Coherent(UpdateRow(row, r))
  BY DEF Row, Coherent, UpdateRow
<1>6. QED
  BY <1>1, <1>2, <1>3, <1>4, <1>5

\* A statement on a coherent row, or one that is refused, leaves every row coherent.
LEMMA WriteIsCoherent ==
    ASSUME TypeOK, PausedIsDisabled, live' = live, NEW t, NEW row,
           t \in live => Coherent(row), Write(t, row) \/ WriteFails
    PROVE  PausedIsDisabled'
BY DEF PausedIsDisabled, Coherent, Write, WriteFails, TypeOK

LEMMA PausedStep == TypeOK /\ PausedIsDisabled /\ [Next]_vars => PausedIsDisabled'
<1> SUFFICES ASSUME TypeOK, PausedIsDisabled, [Next]_vars PROVE PausedIsDisabled'
  OBVIOUS
<1>0. \A t \in live : rows[t] \in Row /\ Coherent(rows[t])
  BY DEF TypeOK, PausedIsDisabled, Coherent
<1>1. ASSUME rows' = rows, live' \subseteq live PROVE PausedIsDisabled'
  BY <1>1 DEF PausedIsDisabled
<1>2. CASE PauseInsteadOfFiring
  <2> DEFINE t == Head(tick.due).task
             row == MarkFired(rows[t], Never, "conversation_deleted")
  <2>1. t \in live => Coherent(row)
    BY <1>0, FreeRequestType, StatementsAreCoherent
  <2>2. live' = live /\ (Write(t, row) \/ WriteFails)
    BY <1>2 DEF PauseInsteadOfFiring
  <2> HIDE DEF t, row
  <2>3. QED
    BY <2>1, <2>2, WriteIsCoherent
<1>3. CASE AdvanceAndFire
  <2> DEFINE t == Head(tick.due).task
             snap == Head(tick.due).snap
             next == IF snap.kind = "recurring" THEN NextCron(tick.now) ELSE Never
             row == IF snap.kind = "self_paced" THEN DisarmSelfPaced(rows[t])
                    ELSE MarkFired(rows[t], next, "none")
  <2>1. t \in live => Coherent(row)
    BY <1>0, FreeRequestType, StatementsAreCoherent
  <2>2. live' = live /\ Write(t, row)
    BY <1>3 DEF AdvanceAndFire
  <2> HIDE DEF t, row
  <2>3. QED
    BY <2>1, <2>2, WriteIsCoherent
<1>4. ASSUME NEW f \in Firings, StartInNewConversation(f) PROVE PausedIsDisabled'
  <2>1. PICK c : Write(firing[f].task, [rows[firing[f].task] EXCEPT !.bound = c])
    BY <1>4 DEF StartInNewConversation
  <2>2. firing[f].task \in live => Coherent([rows[firing[f].task] EXCEPT !.bound = c])
    BY <1>0 DEF Coherent, Row
  <2>3. live' = live
    BY <1>4 DEF StartInNewConversation
  <2>4. QED
    BY <2>1, <2>2, <2>3, WriteIsCoherent
<1>5. ASSUME NEW f \in Firings, Record(f) PROVE PausedIsDisabled'
  <2> DEFINE t == firing[f].task
             row == RecordOutcome(rows[t], firing[f].result = "success", PauseReason(f))
  <2>1. t \in live => Coherent(row)
    BY <1>0, FreeRequestType, StatementsAreCoherent
  <2>2. live' = live /\ (Write(t, row) \/ WriteFails)
    BY <1>5 DEF Record
  <2> HIDE DEF t, row
  <2>3. QED
    BY <2>1, <2>2, WriteIsCoherent
<1>6. ASSUME NEW f \in Firings, WriteBack(f) PROVE PausedIsDisabled'
  <2> DEFINE t == firing[f].task
             row == ArmSelfPaced(rows[t], firing[f].next, firing[f].reason)
  <2>1. t \in live => Coherent(row)
    BY <1>0, FreeRequestType, StatementsAreCoherent
  <2>2. live' = live /\ (Write(t, row) \/ WriteFails)
    BY <1>6 DEF WriteBack
  <2> HIDE DEF t, row
  <2>3. QED
    BY <2>1, <2>2, WriteIsCoherent
<1>7. ASSUME NEW r \in Requests, Create(r) PROVE PausedIsDisabled'
  <2> DEFINE q == req[r]
             row == [BlankRow EXCEPT !.enabled = TRUE, !.kind = q.kind,
                                     !.goal = q.goal, !.target = q.target,
                                     !.bound = q.bound, !.runAt = q.runAt,
                                     !.next = q.next, !.created = now]
  <2>1. row.reason = "none" /\ q.task \in Tasks
    BY <1>7 DEF BlankRow, Create, TypeOK, Request
  <2>2. /\ live' \subseteq live \cup {q.task}
        /\ (rows' = rows /\ live' = live) \/ rows' = [rows EXCEPT ![q.task] = row]
    BY <1>7 DEF Create
  <2> HIDE DEF row, q
  <2>3. QED
    BY <2>1, <2>2 DEF PausedIsDisabled, TypeOK
<1>8. ASSUME NEW r \in Requests, Update(r) PROVE PausedIsDisabled'
  <2> DEFINE t == req[r].task
             row == UpdateRow(rows[t], req[r])
  <2>1. t \in live => Coherent(row)
    BY <1>0, StatementsAreCoherent DEF TypeOK
  <2>2. live' = live /\ Write(t, row)
    BY <1>8 DEF Update
  <2> HIDE DEF t, row
  <2>3. QED
    BY <2>1, <2>2, WriteIsCoherent
<1>9. ASSUME NEW t \in Tasks, Delete(t) PROVE PausedIsDisabled'
  BY <1>9 DEF Delete, PausedIsDisabled, TypeOK
<1>10. ASSUME NEW c \in Conversations, DeleteConversation(c) PROVE PausedIsDisabled'
  <2>1. live' = live /\ \A t \in live : \/ rows'[t] = rows[t]
                                        \/ rows'[t] = [rows[t] EXCEPT !.bound = NoConv]
    BY <1>10 DEF DeleteConversation, TypeOK
  <2>2. \A row \in Row : Coherent(row) => Coherent([row EXCEPT !.bound = NoConv])
    BY DEF Coherent, Row
  <2>3. \A t \in live : Coherent(rows'[t])
    BY <1>0, <2>1, <2>2
  <2>4. QED
    BY <2>1, <2>3 DEF PausedIsDisabled, Coherent
<1>11. ASSUME Claim \/ SkipTask \/ Prune \/ Crash \/ TimePasses \/ UNCHANGED vars
       PROVE PausedIsDisabled'
  BY <1>1, <1>11
     DEF Claim, SkipTask, WriteFails, Prune, Crash, TimePasses, vars
<1>12. ASSUME NEW f \in Firings, FireStep(f) PROVE PausedIsDisabled'
  BY <1>1, <1>4, <1>5, <1>6, <1>12
     DEF FireStep, DispatchFails, DispatchConflicts, StartWorkflow, StartTurn,
         TargetEnds, InsertRun, DecideGoal, DecideSelfPaced
<1>13. ASSUME NEW r \in Requests, CreateCheck(r) \/ UpdateCheck(r) PROVE PausedIsDisabled'
  BY <1>1, <1>13 DEF CreateCheck, UpdateCheck
<1>14. ASSUME NEW t \in Tasks, RunNow(t) PROVE PausedIsDisabled'
  BY <1>1, <1>14 DEF RunNow
<1>15. ASSUME NEW c \in Conversations, UserTurn(c) \/ TurnEnds(c) PROVE PausedIsDisabled'
  BY <1>1, <1>15 DEF UserTurn, TurnEnds
<1>16. QED
  BY <1>2, <1>3, <1>7, <1>8, <1>9, <1>10, <1>11, <1>12, <1>13, <1>14, <1>15
     DEF Next, TickStep, RequestStep

\* Whatever order the sweep, overlapping firings and PUTs write a row in, with
\* statements lost and processes killed between them, a row that carries a pause
\* reason is disabled: no task is shown as paused and fires.
THEOREM SchedulerPausedIsDisabled == Spec => []PausedIsDisabled
<1>1. Init => PausedIsDisabled
  BY DEF Init, PausedIsDisabled
<1>2. QED
  BY <1>1, PausedStep, SchedulerType, PTL DEF Spec

-----------------------------------------------------------------------------
(* No arming of next_run_at is fired twice *)

Claimed(t) == \E i \in DOMAIN tick.due : tick.due[i].task = t

\* Something may still fire t: its row is armed, or the sweep has claimed it.
Backed(t) == Claimed(t) \/ (t \in live /\ rows[t].next # Never)

BatchIsDistinct ==
    \A i, j \in DOMAIN tick.due : i # j => tick.due[i].task # tick.due[j].task

\* Whatever may still fire has an arming of its own, one no firing has used.
ArmsCoverShots ==
    \A t \in Tasks : /\ hist[t].shots <= hist[t].arms
                     /\ Backed(t) => hist[t].shots < hist[t].arms

ShotsInv == TypeOK /\ BatchIsDistinct /\ ArmsCoverShots

\* A step that fires nothing, and arms whatever it newly backs.
LEMMA CoverKept ==
    ASSUME TypeOK, ArmsCoverShots, TypeOK',
           \A t \in Tasks : hist'[t].shots = hist[t].shots,
           \A t \in Tasks : hist'[t].arms = hist[t].arms \/ hist'[t].arms = hist[t].arms + 1,
           \A t \in Tasks : Backed(t)' => Backed(t) \/ hist'[t].arms = hist[t].arms + 1
    PROVE  ArmsCoverShots'
<1> SUFFICES ASSUME NEW t \in Tasks
             PROVE  /\ hist'[t].shots <= hist'[t].arms
                    /\ Backed(t)' => hist'[t].shots < hist'[t].arms
  BY DEF ArmsCoverShots
<1>1. /\ hist[t].shots \in Nat /\ hist[t].arms \in Nat
      /\ hist[t].shots <= hist[t].arms
      /\ Backed(t) => hist[t].shots < hist[t].arms
  BY DEF TypeOK, History, ArmsCoverShots
<1>2. QED
  BY <1>1

\* Dropping the head of a batch.
LEMMA BatchTail ==
    ASSUME TypeOK, tick.due # <<>>, BatchIsDistinct, NextInBatch
    PROVE  /\ BatchIsDistinct'
           /\ \A t : Claimed(t)' => Claimed(t)
           /\ \A i \in DOMAIN tick'.due : tick'.due[i].task # Head(tick.due).task
           /\ Claimed(Head(tick.due).task)
<1> DEFINE Item == [task : Tasks, snap : Snapshot, gone : BOOLEAN]
           s == tick.due
<1>1. s \in Seq(Item) /\ s # <<>>
  BY DEF TypeOK, TickType
<1>2. /\ Tail(s) \in Seq(Item) /\ Len(Tail(s)) = Len(s) - 1 /\ Len(s) \in Nat \ {0}
      /\ Head(s) = s[1]
      /\ \A i \in 1..Len(Tail(s)) : Tail(s)[i] = s[i + 1]
  BY <1>1, HeadTailProperties, EmptySeq
<1>3. DOMAIN s = 1..Len(s) /\ DOMAIN Tail(s) = 1..(Len(s) - 1)
  BY <1>1, <1>2, LenProperties
<1>4. tick'.due = Tail(s)
  <2>1. CASE Tail(s) = <<>>
    BY <2>1 DEF NextInBatch, IdleTick
  <2>2. CASE Tail(s) # <<>>
    BY <2>2 DEF NextInBatch, TypeOK, TickType
  <2>3. QED
    BY <2>1, <2>2
<1>5. \A i \in DOMAIN tick'.due : i + 1 \in DOMAIN s /\ tick'.due[i] = s[i + 1] /\ i + 1 # 1
  BY <1>2, <1>3, <1>4
<1>6. 1 \in DOMAIN s
  BY <1>2, <1>3
<1>7. BatchIsDistinct'
  BY <1>3, <1>4, <1>5 DEF BatchIsDistinct
<1>8. \A t : Claimed(t)' => Claimed(t)
  BY <1>5 DEF Claimed
<1>9. \A i \in DOMAIN tick'.due : tick'.due[i].task # Head(tick.due).task
  BY <1>2, <1>5, <1>6 DEF BatchIsDistinct
<1>10. QED
  BY <1>2, <1>6, <1>7, <1>8, <1>9 DEF Claimed

LEMMA ClaimCovers == ShotsInv /\ Claim => BatchIsDistinct' /\ ArmsCoverShots'
<1> SUFFICES ASSUME ShotsInv, Claim PROVE BatchIsDistinct' /\ ArmsCoverShots'
  OBVIOUS
<1>0. TypeOK /\ TypeOK'
  BY ClaimType DEF ShotsInv
<1>1. PICK n \in 1..Batch : \E s \in [1..n -> {t \in Tasks : IsDue(t, now)}] :
         /\ IsBatch(s, {t \in Tasks : IsDue(t, now)})
         /\ tick' = [now |-> now, due |-> [i \in DOMAIN s |->
              [task |-> s[i], snap |-> Snap(rows[s[i]]),
               gone |-> ConversationGone(rows[s[i]])]]]
  BY DEF Claim
<1>2. PICK s \in [1..n -> {t \in Tasks : IsDue(t, now)}] :
         /\ IsBatch(s, {t \in Tasks : IsDue(t, now)})
         /\ tick' = [now |-> now, due |-> [i \in DOMAIN s |->
              [task |-> s[i], snap |-> Snap(rows[s[i]]),
               gone |-> ConversationGone(rows[s[i]])]]]
  BY <1>1
<1>3. DOMAIN tick'.due = 1..n /\ \A i \in 1..n : tick'.due[i].task = s[i]
  BY <1>2
<1>4. \A i, j \in 1..n : i < j => s[i] # s[j]
  BY <1>2 DEF IsBatch
<1>5. BatchIsDistinct'
  <2>1. \A i, j \in 1..n : i # j => i < j \/ j < i
    BY NumbersAssumption
  <2>2. QED
    BY <1>3, <1>4, <2>1 DEF BatchIsDistinct
<1>6. \A t \in Tasks : Backed(t)' => Backed(t)
  <2>1. \A i \in 1..n : s[i] \in live /\ rows[s[i]].next # Never
    BY <1>2 DEF IsDue
  <2>2. \A t : Claimed(t)' => t \in live /\ rows[t].next # Never
    BY <1>3, <2>1 DEF Claimed
  <2>3. rows' = rows /\ live' = live
    BY DEF Claim
  <2>4. QED
    BY <2>2, <2>3 DEF Backed
<1>7. \A t \in Tasks : hist'[t].shots = hist[t].shots /\ hist'[t].arms = hist[t].arms
  BY <1>0 DEF Claim, TypeOK, History
<1>8. QED
  BY <1>0, <1>5, <1>6, <1>7, CoverKept DEF ShotsInv

LEMMA AdvanceCovers == ShotsInv /\ AdvanceAndFire => BatchIsDistinct' /\ ArmsCoverShots'
<1> SUFFICES ASSUME ShotsInv, AdvanceAndFire PROVE BatchIsDistinct' /\ ArmsCoverShots'
  OBVIOUS
<1>0. PICK h \in Tasks : h = Head(tick.due).task
  BY BatchType DEF ShotsInv, AdvanceAndFire
<1> DEFINE snap == Head(tick.due).snap
           next == IF snap.kind = "recurring" THEN NextCron(tick.now) ELSE Never
           row == IF snap.kind = "self_paced" THEN DisarmSelfPaced(rows[h])
                  ELSE MarkFired(rows[h], next, "none")
<1>1. /\ BatchIsDistinct' /\ (\A t : Claimed(t)' => Claimed(t))
      /\ ~Claimed(h)' /\ Claimed(h)
  BY <1>0, BatchTail DEF ShotsInv, AdvanceAndFire, Claimed
<1>2. Write(h, row) /\ Shot(h, next) /\ live' = live
  BY <1>0 DEF AdvanceAndFire
<1>3. h \in live => row.next = next \/ row.next = Never
  BY DEF ShotsInv, TypeOK, Row, DisarmSelfPaced, MarkFired
<1>4. \A t \in Tasks \ {h} : hist'[t] = hist[t] /\ (Backed(t)' => Backed(t))
  <2> HIDE DEF row, next
  <2>1. QED
    BY <1>1, <1>2 DEF Shot, Write, Backed, ShotsInv, TypeOK
<1>5. Backed(h)' => next # Never
  <2> HIDE DEF row, next
  <2>1. QED
    BY <1>1, <1>2, <1>3 DEF Write, Backed, ShotsInv, TypeOK
<1>6. /\ hist'[h].shots = hist[h].shots + 1
      /\ hist'[h].arms = IF next = Never THEN hist[h].arms ELSE hist[h].arms + 1
  <2> HIDE DEF row, next
  <2>1. hist[h] \in History
    BY <1>1 DEF ShotsInv, TypeOK
  <2>2. hist'[h] = [Armed(hist[h], next) EXCEPT !.shots = @ + 1]
    BY <1>1, <1>2 DEF Shot, ShotsInv, TypeOK
  <2>3. QED
    BY <2>1, <2>2 DEF Armed, History
<1>7. hist[h].shots < hist[h].arms /\ hist[h].shots \in Nat /\ hist[h].arms \in Nat
  BY <1>1 DEF ShotsInv, ArmsCoverShots, Backed, TypeOK, History
<1>8. /\ hist'[h].shots <= hist'[h].arms
      /\ Backed(h)' => hist'[h].shots < hist'[h].arms
  <2> HIDE DEF next
  <2>1. QED
    BY <1>5, <1>6, <1>7
<1>9. ArmsCoverShots'
  BY <1>4, <1>8 DEF ShotsInv, ArmsCoverShots
<1>10. QED
  BY <1>1, <1>9

SameCounts == \A t \in Tasks : /\ hist'[t].shots = hist[t].shots
                               /\ hist'[t].arms = hist[t].arms

\* A step that arms nothing and fires nothing.
LEMMA CoverUnchanged ==
    ASSUME ShotsInv, TypeOK', SameCounts, \A t \in Tasks : Backed(t)' => Backed(t)
    PROVE  ArmsCoverShots'
BY CoverKept DEF ShotsInv, SameCounts

\* A statement that leaves next_run_at, or clears it, backs nothing new.
LEMMA WriteBacksNothing ==
    ASSUME TypeOK, live' = live, \A u : Claimed(u)' => Claimed(u),
           NEW t, NEW row, Write(t, row) \/ rows' = rows,
           t \in live => row.next = rows[t].next \/ row.next = Never
    PROVE  \A u \in Tasks : Backed(u)' => Backed(u)
BY DEF Backed, Write, TypeOK

LEMMA SweepCovers ==
    ASSUME ShotsInv, PauseInsteadOfFiring \/ SkipTask
    PROVE  BatchIsDistinct' /\ ArmsCoverShots'
<1>0. TypeOK /\ TypeOK' /\ SameCounts /\ live' = live
  BY PauseInsteadOfFiringType, SkipTaskType
     DEF ShotsInv, SameCounts, PauseInsteadOfFiring, SkipTask
<1>1. BatchIsDistinct' /\ \A t : Claimed(t)' => Claimed(t)
  BY BatchTail DEF ShotsInv, PauseInsteadOfFiring, SkipTask
<1>2. \A t \in Tasks : Backed(t)' => Backed(t)
  <2> DEFINE t == Head(tick.due).task
             row == MarkFired(rows[t], Never, "conversation_deleted")
  <2>1. Write(t, row) \/ rows' = rows
    BY DEF PauseInsteadOfFiring, SkipTask, WriteFails
  <2>2. t \in live => row.next = Never
    BY <1>0 DEF MarkFired, TypeOK, Row
  <2> HIDE DEF t, row
  <2>3. QED
    BY <1>0, <1>1, <2>1, <2>2, WriteBacksNothing
<1>3. QED
  BY <1>0, <1>1, <1>2, CoverUnchanged

LEMMA FireStepCovers ==
    ASSUME ShotsInv, NEW f \in Firings, FireStep(f)
    PROVE  BatchIsDistinct' /\ ArmsCoverShots'
<1>0. TypeOK /\ TypeOK' /\ live' = live /\ tick' = tick
  BY TypeStep
     DEF ShotsInv, Next, FireStep, DispatchFails, DispatchConflicts, StartWorkflow,
         StartTurn, StartInNewConversation, TargetEnds, Record, InsertRun, DecideGoal,
         DecideSelfPaced, WriteBack
<1>1. BatchIsDistinct' /\ \A t : Claimed(t)' => Claimed(t)
  BY <1>0 DEF ShotsInv, BatchIsDistinct, Claimed
<1>2. CASE rows' = rows /\ hist' = hist
  <2>1. SameCounts /\ \A t \in Tasks : Backed(t)' => Backed(t)
    BY <1>0, <1>1, <1>2 DEF SameCounts, Backed
  <2>2. QED
    BY <1>0, <1>1, <2>1, CoverUnchanged
<1>3. CASE StartInNewConversation(f)
  <2>1. PICK c : Write(firing[f].task, [rows[firing[f].task] EXCEPT !.bound = c])
    BY <1>3 DEF StartInNewConversation
  <2>2. firing[f].task \in live =>
           [rows[firing[f].task] EXCEPT !.bound = c].next = rows[firing[f].task].next
    BY <1>0 DEF TypeOK, Row
  <2>3. SameCounts
    BY <1>3 DEF StartInNewConversation, SameCounts
  <2>4. \A t \in Tasks : Backed(t)' => Backed(t)
    BY <1>0, <1>1, <2>1, <2>2, WriteBacksNothing
  <2>5. QED
    BY <1>0, <1>1, <2>3, <2>4, CoverUnchanged
<1>4. CASE Record(f)
  <2> DEFINE t == firing[f].task
             row == RecordOutcome(rows[t], firing[f].result = "success", PauseReason(f))
  <2>1. Write(t, row) \/ rows' = rows
    BY <1>4 DEF Record, WriteFails
  <2>2. t \in live => row.next = rows[t].next
    BY <1>0 DEF TypeOK, Row, RecordOutcome
  <2>3. SameCounts
    BY <1>0, <1>4 DEF Record, SameCounts, TypeOK, History
  <2> HIDE DEF t, row
  <2>4. \A u \in Tasks : Backed(u)' => Backed(u)
    BY <1>0, <1>1, <2>1, <2>2, WriteBacksNothing
  <2>5. QED
    BY <1>0, <1>1, <2>3, <2>4, CoverUnchanged
<1>5. CASE WriteBack(f)
  <2>1. PICK t : t = firing[f].task
    OBVIOUS
  <2> DEFINE next == firing[f].next
             row == ArmSelfPaced(rows[t], next, firing[f].reason)
  <2>2. t \in live => row.next = next
    BY <1>0 DEF TypeOK, Row, ArmSelfPaced
  <2>3. \/ Write(t, row) /\ hist' = [hist EXCEPT ![t] = Armed(@, next)]
        \/ rows' = rows /\ hist' = hist
    BY <1>5, <2>1 DEF WriteBack, WriteFails
  <2> HIDE DEF row, next
  <2>4. CASE rows' = rows /\ hist' = hist
    BY <1>2, <2>4
  <2>5. CASE Write(t, row) /\ hist' = [hist EXCEPT ![t] = Armed(@, next)]
    <3>1. \A u \in Tasks : hist[u] \in History
      BY <1>0 DEF TypeOK
    <3>2. \A u \in Tasks \ {t} : hist'[u] = hist[u]
      BY <1>0, <2>5 DEF TypeOK
    <3>3. t \in Tasks => hist'[t] = IF next = Never THEN hist[t]
                                    ELSE [hist[t] EXCEPT !.arms = @ + 1]
      BY <1>0, <2>5 DEF TypeOK, Armed
    <3>4. \A u \in Tasks : hist'[u].shots = hist[u].shots
      BY <3>1, <3>2, <3>3 DEF History
    <3>5. \A u \in Tasks : hist'[u].arms = hist[u].arms \/ hist'[u].arms = hist[u].arms + 1
      BY <3>1, <3>2, <3>3 DEF History
    <3>6. t \in Tasks /\ next # Never => hist'[t].arms = hist[t].arms + 1
      BY <3>1, <3>3 DEF History
    <3>7. \A u \in Tasks : Backed(u)' => Backed(u) \/ (u = t /\ next # Never)
      BY <1>0, <1>1, <2>2, <2>5 DEF Backed, Write, TypeOK
    <3>8. ArmsCoverShots'
      BY <1>0, <3>4, <3>5, <3>6, <3>7, CoverKept DEF ShotsInv
    <3>9. QED
      BY <1>1, <3>8
  <2>6. QED
    BY <2>3, <2>4, <2>5
<1>6. QED
  BY <1>2, <1>3, <1>4, <1>5
     DEF FireStep, DispatchFails, DispatchConflicts, StartWorkflow, StartTurn,
         TargetEnds, InsertRun, DecideGoal, DecideSelfPaced

LEMMA RequestCovers ==
    ASSUME ShotsInv, NEW r \in Requests,
           CreateCheck(r) \/ UpdateCheck(r) \/ Create(r) \/ Update(r)
    PROVE  BatchIsDistinct' /\ ArmsCoverShots'
<1>0. TypeOK /\ TypeOK' /\ tick' = tick /\ \A u \in Tasks : hist[u] \in History
  BY CreateCheckType, UpdateCheckType, CreateType, UpdateType
     DEF ShotsInv, CreateCheck, UpdateCheck, Create, Update, TypeOK
<1>1. BatchIsDistinct' /\ \A t : Claimed(t)' => Claimed(t)
  BY <1>0 DEF ShotsInv, BatchIsDistinct, Claimed
<1>2. CASE rows' = rows /\ hist' = hist /\ live' = live
  <2>1. SameCounts /\ \A t \in Tasks : Backed(t)' => Backed(t)
    BY <1>0, <1>1, <1>2 DEF SameCounts, Backed
  <2>2. QED
    BY <1>0, <1>1, <2>1, CoverUnchanged
<1>3. PICK t, next : t = req[r].task /\ next = req[r].next
  OBVIOUS
<1>4. ASSUME NEW h, \A u \in Tasks : h[u].shots = hist[u].shots /\ h[u].arms = hist[u].arms,
             \A u \in Tasks : h[u] \in History,
             hist' = [h EXCEPT ![t] = Armed(h[t], next)], DOMAIN h = Tasks,
             \A u \in Tasks : Backed(u)' => Backed(u) \/ (u = t /\ next # Never)
      PROVE  ArmsCoverShots'
  <2>1. \A u \in Tasks \ {t} : hist'[u] = h[u]
    BY <1>4
  <2>2. t \in Tasks => hist'[t] = IF next = Never THEN h[t]
                                  ELSE [h[t] EXCEPT !.arms = @ + 1]
    BY <1>4 DEF Armed
  <2>3. \A u \in Tasks : hist'[u].shots = hist[u].shots
    BY <1>4, <2>1, <2>2 DEF History
  <2>4. \A u \in Tasks : hist'[u].arms = hist[u].arms \/ hist'[u].arms = hist[u].arms + 1
    BY <1>4, <2>1, <2>2 DEF History
  <2>5. t \in Tasks /\ next # Never => hist'[t].arms = hist[t].arms + 1
    BY <1>4, <2>2 DEF History
  <2>6. QED
    BY <1>0, <1>4, <2>3, <2>4, <2>5, CoverKept DEF ShotsInv
<1>5. CASE Create(r)
  <2> DEFINE row == [BlankRow EXCEPT !.enabled = TRUE, !.kind = req[r].kind,
                         !.goal = req[r].goal, !.target = req[r].target,
                         !.bound = req[r].bound, !.runAt = req[r].runAt,
                         !.next = req[r].next, !.created = now]
  <2>1. CASE rows' = rows /\ live' = live /\ hist' = hist
    BY <1>2, <2>1
  <2>2. CASE /\ rows' = [rows EXCEPT ![t] = row] /\ live' = live \cup {t}
             /\ hist' = [hist EXCEPT ![t] = Armed(@, next)]
    <3>1. row.next = next
      BY <1>3, BlankRowType DEF Row
    <3> HIDE DEF row
    <3>2. \A u \in Tasks : Backed(u)' => Backed(u) \/ (u = t /\ next # Never)
      BY <1>0, <1>1, <2>2, <3>1 DEF Backed, TypeOK
    <3>3. hist' = [hist EXCEPT ![t] = Armed(hist[t], next)] /\ DOMAIN hist = Tasks
      BY <1>0, <2>2 DEF TypeOK
    <3>4. QED
      BY <1>0, <1>1, <1>4, <3>2, <3>3
  <2>3. QED
    BY <1>3, <1>5, <2>1, <2>2 DEF Create
<1>6. CASE Update(r)
  <2> DEFINE row == UpdateRow(rows[t], req[r])
             moved == hist[t].switched \/ req[r].kind \notin {"keep", rows[t].kind}
             edited == [hist[t] EXCEPT !.manual = @ + 1, !.switched = moved]
             h == [hist EXCEPT ![t] = edited]
  <2>1. Write(t, row) /\ live' = live
    BY <1>3, <1>6 DEF Update
  <2>2. t \in live => row.next = IF req[r].touched THEN next ELSE rows[t].next
    BY <1>0, <1>3 DEF UpdateRow, TypeOK, Row
  <2>3. CASE req[r].touched /\ t \in live
    <3>1. t \in Tasks /\ hist[t] \in History /\ DOMAIN hist = Tasks
      BY <1>0, <2>3 DEF TypeOK
    <3>2. hist' = [hist EXCEPT ![t] = [Armed(hist[t], next) EXCEPT
                                          !.manual = @ + 1, !.switched = moved]]
      BY <1>3, <1>6, <2>3 DEF Update, Armed
    <3>a. moved \in BOOLEAN
      BY <3>1 DEF History
    <3> HIDE DEF moved
    <3>3. /\ h[t] = edited /\ h[t] \in History
          /\ h[t].shots = hist[t].shots /\ h[t].arms = hist[t].arms
          /\ \A u \in Tasks \ {t} : h[u] = hist[u]
          /\ DOMAIN h = Tasks
      BY <3>1, <3>a, EditedType DEF History
    <3>4. [Armed(hist[t], next) EXCEPT !.manual = @ + 1, !.switched = moved]
             = Armed(h[t], next)
      BY <3>1, <3>3 DEF Armed, History
    <3>5. hist' = [h EXCEPT ![t] = Armed(h[t], next)]
      BY <3>2, <3>4
    <3> HIDE DEF h, row, edited
    <3>6. \A u \in Tasks : Backed(u)' => Backed(u) \/ (u = t /\ next # Never)
      BY <1>0, <1>1, <2>1, <2>2, <2>3 DEF Backed, Write, TypeOK
    <3>7. QED
      BY <1>0, <1>1, <1>4, <3>3, <3>5, <3>6
  <2>4. CASE ~(req[r].touched /\ t \in live)
    <3>1. SameCounts
      BY <1>3, <1>6, <2>4 DEF Update, SameCounts
    <3> HIDE DEF h, row, edited, moved
    <3>2. \A u \in Tasks : Backed(u)' => Backed(u)
      BY <1>0, <1>1, <2>1, <2>2, <2>4, WriteBacksNothing
    <3>3. QED
      BY <1>0, <1>1, <3>1, <3>2, CoverUnchanged
  <2>5. QED
    BY <2>3, <2>4
<1>7. QED
  BY <1>2, <1>5, <1>6 DEF CreateCheck, UpdateCheck

LEMMA RestCovers ==
    ASSUME ShotsInv,
           \/ \E t \in Tasks : Delete(t) \/ RunNow(t)
           \/ \E c \in Conversations : UserTurn(c) \/ TurnEnds(c) \/ DeleteConversation(c)
           \/ Prune \/ Crash \/ TimePasses
    PROVE  BatchIsDistinct' /\ ArmsCoverShots'
<1>0. TypeOK /\ TypeOK' /\ (tick' = tick \/ tick' = IdleTick)
  BY RestType DEF ShotsInv, Delete, RunNow, UserTurn, TurnEnds, DeleteConversation,
                  Prune, Crash, TimePasses
<1>1. BatchIsDistinct' /\ \A t : Claimed(t)' => Claimed(t)
  BY <1>0 DEF ShotsInv, BatchIsDistinct, Claimed, IdleTick
<1>2. /\ live' \subseteq live
      /\ \A t \in live' : rows'[t] = rows[t] \/ rows'[t] = [rows[t] EXCEPT !.bound = NoConv]
  BY <1>0 DEF Delete, RunNow, UserTurn, TurnEnds, DeleteConversation, Prune, Crash,
              TimePasses, TypeOK
<1>3. \A t \in Tasks : Backed(t)' => Backed(t)
  <2>1. \A row \in Row : [row EXCEPT !.bound = NoConv].next = row.next
    BY DEF Row
  <2>2. \A t \in live' : rows'[t].next = rows[t].next
    BY <1>0, <1>2, <2>1 DEF TypeOK
  <2>3. QED
    BY <1>1, <1>2, <2>2 DEF Backed
<1>4. SameCounts
  <2>1. \A h \in History : /\ [h EXCEPT !.manual = @ + 1].shots = h.shots
                           /\ [h EXCEPT !.manual = @ + 1].arms = h.arms
    BY DEF History
  <2>2. CASE hist' = hist
    BY <2>2 DEF SameCounts
  <2>3. ASSUME NEW t \in Tasks, RunNow(t) PROVE SameCounts
    BY <1>0, <2>1, <2>3 DEF RunNow, SameCounts, TypeOK
  <2>4. CASE Prune
    <3>1. \A h \in History : \A n : /\ [h EXCEPT !.pruned = @ + n].shots = h.shots
                                    /\ [h EXCEPT !.pruned = @ + n].arms = h.arms
      BY DEF History
    <3>2. QED
      BY <1>0, <2>4, <3>1 DEF Prune, SameCounts, TypeOK
  <2>5. QED
    BY <2>2, <2>3, <2>4 DEF Delete, UserTurn, TurnEnds, DeleteConversation, Crash, TimePasses
<1>5. QED
  BY <1>0, <1>1, <1>3, <1>4, CoverUnchanged

LEMMA ShotsStep == ShotsInv /\ [Next]_vars => ShotsInv'
<1> SUFFICES ASSUME ShotsInv, [Next]_vars PROVE ShotsInv'
  OBVIOUS
<1>1. TypeOK'
  BY TypeStep DEF ShotsInv
<1>2. ASSUME TickStep PROVE BatchIsDistinct' /\ ArmsCoverShots'
  BY <1>2, ClaimCovers, AdvanceCovers, SweepCovers DEF TickStep
<1>3. ASSUME NEW f \in Firings, FireStep(f) PROVE BatchIsDistinct' /\ ArmsCoverShots'
  BY <1>3, FireStepCovers
<1>4. ASSUME NEW r \in Requests, CreateCheck(r) \/ UpdateCheck(r) \/ RequestStep(r)
      PROVE  BatchIsDistinct' /\ ArmsCoverShots'
  BY <1>4, RequestCovers DEF RequestStep
<1>5. ASSUME UNCHANGED vars PROVE BatchIsDistinct' /\ ArmsCoverShots'
  <2>1. tick' = tick /\ hist' = hist /\ live' = live /\ rows' = rows
    BY <1>5 DEF vars
  <2>2. QED
    BY <2>1 DEF ShotsInv, BatchIsDistinct, ArmsCoverShots, Backed, Claimed
<1>6. BatchIsDistinct' /\ ArmsCoverShots'
  BY <1>2, <1>3, <1>4, <1>5, RestCovers DEF Next
<1>7. QED
  BY <1>1, <1>6 DEF ShotsInv

LEMMA ShotsInit == Init => ShotsInv
<1> SUFFICES ASSUME Init PROVE ShotsInv
  OBVIOUS
<1>1. TypeOK
  BY TypeInit
<1>2. DOMAIN tick.due = {} /\ live = {}
  BY EmptySeq, LenProperties DEF Init, IdleTick
<1>3. \A t \in Tasks : hist[t].shots = 0 /\ hist[t].arms = 0
  BY DEF Init
<1>4. QED
  BY <1>1, <1>2, <1>3 DEF ShotsInv, BatchIsDistinct, ArmsCoverShots, Backed, Claimed

\* At-most-once: a task has never fired more often than its next_run_at was armed,
\* by its creation, a user's edit, the advance of a recurring task or the write-back
\* of a loop.  A crash, a lost statement or a PUT between claim and advance never
\* makes one arming fire twice.
THEOREM SchedulerEveryShotWasArmed == Spec => []EveryShotWasArmed
<1>1. ShotsInv => EveryShotWasArmed
  BY DEF ShotsInv, ArmsCoverShots, EveryShotWasArmed
<1>2. QED
  BY <1>1, ShotsInit, ShotsStep, PTL DEF Spec

-----------------------------------------------------------------------------
(* Only a user's request turns a task on *)

\* Every other UPDATE of a row keeps a disabled row disabled.
LEMMA StatementsNeverEnable ==
    ASSUME NEW row \in Row, ~row.enabled, NEW next, NEW reason, NEW success, NEW c
    PROVE  /\ ~MarkFired(row, next, reason).enabled
           /\ ~DisarmSelfPaced(row).enabled
           /\ ~ArmSelfPaced(row, next, reason).enabled
           /\ ~RecordOutcome(row, success, reason).enabled
           /\ ~[row EXCEPT !.bound = c].enabled
<1>1. ~MarkFired(row, next, reason).enabled
  BY DEF Row, MarkFired
<1>2. ~DisarmSelfPaced(row).enabled
  BY DEF Row, DisarmSelfPaced
<1>3. ~ArmSelfPaced(row, next, reason).enabled
  BY DEF Row, ArmSelfPaced
<1>4. ~RecordOutcome(row, success, reason).enabled
  BY DEF Row, RecordOutcome
<1>5. ~[row EXCEPT !.bound = c].enabled
  BY DEF Row
<1>6. QED
  BY <1>1, <1>2, <1>3, <1>4, <1>5

UserEnables(t) ==
    \E r \in Requests : req[r].task = t /\ req[r].enabled = "on" /\ req'[r].op = "none"

EnableStep == \A t \in live : ~rows[t].enabled /\ rows'[t].enabled => UserEnables(t)

\* A statement of a row that stays off, or one that is refused.
LEMMA WriteNeverEnables ==
    ASSUME TypeOK, NEW t, NEW row, Write(t, row) \/ rows' = rows,
           t \in live /\ ~rows[t].enabled => ~row.enabled
    PROVE  EnableStep
BY DEF EnableStep, Write, TypeOK

LEMMA EnableNext == TypeOK /\ [Next]_vars => EnableStep
<1> SUFFICES ASSUME TypeOK, [Next]_vars PROVE EnableStep
  OBVIOUS
<1>0. \A t \in live : rows[t] \in Row
  BY DEF TypeOK
<1>1. ASSUME rows' = rows PROVE EnableStep
  BY <1>1 DEF EnableStep
<1>2. ASSUME PauseInsteadOfFiring PROVE EnableStep
  <2> DEFINE t == Head(tick.due).task
             row == MarkFired(rows[t], Never, "conversation_deleted")
  <2>1. t \in live /\ ~rows[t].enabled => ~row.enabled
    BY <1>0, StatementsNeverEnable
  <2>2. Write(t, row) \/ rows' = rows
    BY <1>2 DEF PauseInsteadOfFiring, WriteFails
  <2> HIDE DEF t, row
  <2>3. QED
    BY <2>1, <2>2, WriteNeverEnables
<1>3. ASSUME AdvanceAndFire PROVE EnableStep
  <2> DEFINE t == Head(tick.due).task
             snap == Head(tick.due).snap
             next == IF snap.kind = "recurring" THEN NextCron(tick.now) ELSE Never
             row == IF snap.kind = "self_paced" THEN DisarmSelfPaced(rows[t])
                    ELSE MarkFired(rows[t], next, "none")
  <2>1. t \in live /\ ~rows[t].enabled => ~row.enabled
    BY <1>0, StatementsNeverEnable
  <2>2. Write(t, row)
    BY <1>3 DEF AdvanceAndFire
  <2> HIDE DEF t, row
  <2>3. QED
    BY <2>1, <2>2, WriteNeverEnables
<1>4. ASSUME NEW f \in Firings, StartInNewConversation(f) PROVE EnableStep
  <2>1. PICK c : Write(firing[f].task, [rows[firing[f].task] EXCEPT !.bound = c])
    BY <1>4 DEF StartInNewConversation
  <2>2. QED
    BY <1>0, <2>1, StatementsNeverEnable, WriteNeverEnables
<1>5. ASSUME NEW f \in Firings, Record(f) PROVE EnableStep
  <2> DEFINE t == firing[f].task
             row == RecordOutcome(rows[t], firing[f].result = "success", PauseReason(f))
  <2>1. t \in live /\ ~rows[t].enabled => ~row.enabled
    BY <1>0, StatementsNeverEnable
  <2>2. Write(t, row) \/ rows' = rows
    BY <1>5 DEF Record, WriteFails
  <2> HIDE DEF t, row
  <2>3. QED
    BY <2>1, <2>2, WriteNeverEnables
<1>6. ASSUME NEW f \in Firings, WriteBack(f) PROVE EnableStep
  <2> DEFINE t == firing[f].task
             row == ArmSelfPaced(rows[t], firing[f].next, firing[f].reason)
  <2>1. t \in live /\ ~rows[t].enabled => ~row.enabled
    BY <1>0, StatementsNeverEnable
  <2>2. Write(t, row) \/ rows' = rows
    BY <1>6 DEF WriteBack, WriteFails
  <2> HIDE DEF t, row
  <2>3. QED
    BY <2>1, <2>2, WriteNeverEnables
<1>7. ASSUME NEW f \in Firings, FireStep(f) PROVE EnableStep
  BY <1>1, <1>4, <1>5, <1>6, <1>7
     DEF FireStep, DispatchFails, DispatchConflicts, StartWorkflow, StartTurn,
         TargetEnds, InsertRun, DecideGoal, DecideSelfPaced
<1>8. ASSUME NEW r \in Requests, Create(r) PROVE EnableStep
  <2>1. /\ req[r].op = "create" /\ req'[r] = FreeRequest
        /\ \A t \in live : t # req[r].task => rows'[t] = rows[t]
    BY <1>8 DEF Create, TypeOK
  <2>2. req[r].enabled = "on" /\ FreeRequest.op = "none"
    BY <2>1 DEF TypeOK, Request, FreeRequest
  <2>3. QED
    BY <2>1, <2>2 DEF EnableStep, UserEnables
<1>9. ASSUME NEW r \in Requests, Update(r) PROVE EnableStep
  <2>1. PICK u : u = req[r].task
    OBVIOUS
  <2>2. req'[r] = FreeRequest /\ FreeRequest.op = "none" /\ Write(u, UpdateRow(rows[u], req[r]))
    BY <1>9, <2>1 DEF Update, TypeOK, FreeRequest
  <2>3. u \in live /\ ~rows[u].enabled /\ UpdateRow(rows[u], req[r]).enabled =>
           req[r].enabled = "on"
    BY <1>0 DEF UpdateRow, Row
  <2>4. QED
    BY <2>1, <2>2, <2>3 DEF EnableStep, UserEnables, Write, TypeOK
<1>10. ASSUME NEW t \in Tasks, Delete(t) PROVE EnableStep
  BY <1>10 DEF Delete, EnableStep, BlankRow, TypeOK
<1>11. ASSUME NEW c \in Conversations, DeleteConversation(c) PROVE EnableStep
  <2>1. \A t \in live : rows'[t] = rows[t] \/ rows'[t] = [rows[t] EXCEPT !.bound = NoConv]
    BY <1>11 DEF DeleteConversation, TypeOK
  <2>2. QED
    BY <1>0, <2>1, StatementsNeverEnable DEF EnableStep
<1>12. ASSUME \/ TickStep \/ Prune \/ Crash \/ TimePasses \/ UNCHANGED vars
       PROVE EnableStep
  BY <1>1, <1>2, <1>3, <1>12
     DEF TickStep, Claim, SkipTask, WriteFails, Prune, Crash, TimePasses, vars
<1>13. ASSUME NEW r \in Requests, CreateCheck(r) \/ UpdateCheck(r) PROVE EnableStep
  BY <1>1, <1>13 DEF CreateCheck, UpdateCheck
<1>14. ASSUME NEW t \in Tasks, RunNow(t) PROVE EnableStep
  BY <1>1, <1>14 DEF RunNow
<1>15. ASSUME NEW c \in Conversations, UserTurn(c) \/ TurnEnds(c) PROVE EnableStep
  BY <1>1, <1>15 DEF UserTurn, TurnEnds
<1>16. QED
  BY <1>7, <1>8, <1>9, <1>10, <1>11, <1>12, <1>13, <1>14, <1>15 DEF Next, RequestStep

\* No firing, write-back or sweep, however late, turns a disabled task on again:
\* the step that does is a POST or PUT with enabled = true.
THEOREM SchedulerOnlyUsersEnable == Spec => OnlyUsersEnable
<1>1. TypeOK /\ [Next]_vars =>
        [\A t \in live : ~rows[t].enabled /\ rows'[t].enabled =>
            \E r \in Requests : req[r].task = t /\ req[r].enabled = "on"
                                /\ req'[r].op = "none"]_vars
  BY EnableNext DEF EnableStep, UserEnables
<1>2. QED
  BY <1>1, SchedulerType, PTL DEF Spec, OnlyUsersEnable
=============================================================================
