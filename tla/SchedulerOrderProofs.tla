-------------------------- MODULE SchedulerOrderProofs --------------------------
(***************************************************************************)
(* The order in which due tasks are served, for every size of the system.  *)
(* A task u that was taken while t was due is behind t until t is taken:   *)
(* whatever may still re-arm u does so at an instant after t's.            *)
(***************************************************************************)
EXTENDS SchedulerLoopProofs, SchedulerOrder

-----------------------------------------------------------------------------
(* The batch, seen from all tasks at once *)

\* Only the head of a batch goes.
LEMMA RestIsKept ==
    ASSUME TypeOK, tick.due # <<>>, NextInBatch, NEW u, u # Head(tick.due).task
    PROVE  Entries(u) # {} => Entries(u)' # {}
<1> DEFINE s == tick.due
<1>1. s \in Seq([task : Tasks, snap : Snapshot, gone : BOOLEAN]) /\ s # <<>>
  BY DEF TypeOK, TickType
<1>2. /\ Tail(s) \in Seq([task : Tasks, snap : Snapshot, gone : BOOLEAN])
      /\ Len(Tail(s)) = Len(s) - 1 /\ Len(s) \in Nat \ {0}
      /\ Head(s) = s[1]
      /\ \A i \in 1..Len(Tail(s)) : Tail(s)[i] = s[i + 1]
  BY <1>1, HeadTailProperties, EmptySeq
<1>3. DOMAIN s = 1..Len(s) /\ DOMAIN Tail(s) = 1..(Len(s) - 1)
  BY <1>1, <1>2, LenProperties
<1>4. tick'.due = Tail(s)
  <2>1. CASE Tail(s) = <<>>
    BY <2>1 DEF NextInBatch, IdleTick
  <2>2. CASE Tail(s) # <<>>
    BY <2>2 DEF NextInBatch, TypeOK, TickType
  <2>3. QED
    BY <2>1, <2>2
<1>5. ASSUME NEW i \in DOMAIN s, s[i].task = u PROVE s[i] \in Entries(u)'
  <2>1. i # 1 /\ i - 1 \in 1..(Len(s) - 1)
    BY <1>2, <1>3, <1>5
  <2>2. tick'.due[i - 1] = s[i] /\ i - 1 \in DOMAIN tick'.due
    BY <1>2, <1>3, <1>4, <2>1
  <2>3. QED
    BY <1>5, <2>2 DEF Entries, Image
<1>6. QED
  BY <1>5 DEF Entries, Image

\* What a sweep claims, earliest first: who is left waits for a later instant.
LEMMA BatchOrder ==
    ASSUME TypeOK, Claim
    PROVE  /\ Taken # {}
           /\ \A u \in Taken : Entries(u)' # {} /\ IsDue(u, now)
           /\ \A u \in Tasks : Entries(u)' # {} => u \in Taken
           /\ \A u \in Taken, t \in Tasks \ Taken :
                 IsDue(t, now) => rows[u].next <= rows[t].next
<1> DEFINE due == {u \in Tasks : IsDue(u, now)}
           item(u) == [task |-> u, snap |-> Snap(rows[u]), gone |-> ConversationGone(rows[u])]
           Takes(s) == /\ IsBatch(s, due)
                       /\ tick' = [now |-> now, due |-> [i \in DOMAIN s |-> item(s[i])]]
<1>0. PICK n \in 1..Batch : \E s \in [1..n -> due] : Takes(s)
  BY DEF Claim
<1>1. PICK s \in [1..n -> due] : Takes(s)
  BY <1>0
<1>2. /\ tick.due = <<>> /\ DOMAIN tick'.due = 1..n
      /\ \A i \in 1..n : tick'.due[i] = item(s[i]) /\ tick'.due[i].task = s[i]
  BY <1>1 DEF Claim
<1>3. 1 \in 1..n /\ tick'.due # <<>>
  <2>1. 1 \in 1..n
    BY NumbersAssumption
  <2>2. QED
    BY <1>2, <2>1
<1>4. Taken = {s[i] : i \in 1..n}
  <2>1. Taken = {tick'.due[i].task : i \in DOMAIN tick'.due}
    BY <1>2, <1>3 DEF Taken
  <2> HIDE DEF item
  <2>2. QED
    BY <1>2, <2>1
<1>5. \A u \in Tasks : Entries(u)' # {} <=> \E i \in 1..n : s[i] = u
  BY <1>2 DEF Entries, Image
<1>6. \A i \in 1..n : s[i] \in Tasks /\ IsDue(s[i], now)
  BY <1>1
<1>7. \A t \in Tasks \ Taken : IsDue(t, now) =>
         \A i \in 1..n : rows[s[i]].next <= rows[t].next
  BY <1>1, <1>4 DEF IsBatch
<1>8. QED
  BY <1>3, <1>4, <1>5, <1>6, <1>7

\* A task is taken when the sweep holds it and did not before.
LEMMA TakenSeen ==
    ASSUME TypeOK, BatchIsDistinct, [Next]_vars
    PROVE  /\ \A u \in Tasks : u \in Taken <=> Entries(u) = {} /\ Entries(u)' # {}
           /\ Taken # {} => Claim
<1>1. CASE Claim
  <2>1. \A u : Entries(u) = {}
    BY <1>1 DEF Claim, Entries, Image
  <2>2. QED
    BY <1>1, <2>1, BatchOrder
<1>2. CASE PauseInsteadOfFiring \/ AdvanceAndFire \/ SkipTask
  <2>1. tick.due # <<>> /\ NextInBatch
    BY <1>2 DEF PauseInsteadOfFiring, AdvanceAndFire, SkipTask
  <2>2. \A u : EntriesStay(u)
    BY <2>1, HeadGoes
  <2>3. Taken = {}
    BY <2>1 DEF Taken
  <2>4. QED
    BY <2>2, <2>3 DEF EntriesStay
<1>3. CASE tick' = tick \/ tick' = IdleTick
  <2>1. Taken = {}
    BY <1>3 DEF Taken, IdleTick
  <2>2. \A u : Entries(u)' = Entries(u) \/ Entries(u)' = {}
    BY <1>3 DEF Entries, Image, IdleTick
  <2>3. QED
    BY <2>1, <2>2
<1>4. QED
  BY <1>1, <1>2, <1>3
     DEF Next, TickStep, FireStep, DispatchFails, DispatchConflicts, StartWorkflow,
         StartTurn, StartInNewConversation, TargetEnds, Record, InsertRun, DecideGoal,
         DecideSelfPaced, WriteBack, CreateCheck, UpdateCheck, RequestStep, Create, Update,
         Delete, RunNow, UserTurn, TurnEnds, DeleteConversation, Prune, Crash, TimePasses,
         vars

\* Without a fault the sweep lets go of a task by pausing or by firing it.
LEMMA EntryKept ==
    ASSUME TypeOK, BatchIsDistinct, [Next]_vars, NEW u \in live,
           Entries(u) # {}, Entries(u)' = {}, faults' = faults
    PROVE  rows'[u].next = Never \/ IsShot(u)
<1>0. faults \in Nat
  BY DEF TypeOK
<1>1. tick' # tick
  BY DEF Entries
<1>2. tick.due # <<>>
  BY DEF Entries, Image
<1>3. CASE PauseInsteadOfFiring
  <2>1. u = Head(tick.due).task
    BY <1>2, <1>3, RestIsKept DEF PauseInsteadOfFiring
  <2>2. Write(u, MarkFired(rows[u], Never, "conversation_deleted"))
    BY <1>0, <1>3, <2>1 DEF PauseInsteadOfFiring, WriteFails
  <2>3. PICK row : row = MarkFired(rows[u], Never, "conversation_deleted")
    OBVIOUS
  <2>4. rows'[u] = row
    BY <2>2, <2>3, WriteElsewhere
  <2>5. rows[u] \in Row
    BY DEF TypeOK
  <2>6. QED
    BY <2>3, <2>4, <2>5, MarkFiredFields
<1>4. CASE AdvanceAndFire
  <2>1. u = Head(tick.due).task
    BY <1>2, <1>4, RestIsKept DEF AdvanceAndFire
  <2>2. QED
    BY <1>4, <2>1, AdvanceSeen
<1>5. CASE SkipTask \/ Crash
  BY <1>0, <1>5 DEF SkipTask, Crash, WriteFails
<1>6. QED
  BY <1>1, <1>2, <1>3, <1>4, <1>5
     DEF Next, TickStep, Claim, FireStep, DispatchFails, DispatchConflicts, StartWorkflow,
         StartTurn, StartInNewConversation, TargetEnds, Record, InsertRun, DecideGoal,
         DecideSelfPaced, WriteBack, CreateCheck, UpdateCheck, RequestStep, Create, Update,
         Delete, RunNow, UserTurn, TurnEnds, DeleteConversation, Prune, TimePasses, vars

-----------------------------------------------------------------------------
(* What only grows *)

LEMMA FaultsAndIdsGrow ==
    ASSUME TypeOK, [Next]_vars
    PROVE  faults <= faults' /\ used \subseteq used'
<1>0. faults \in Nat
  BY DEF TypeOK
<1>1. CASE TickStep
  <2>1. used' = used
    BY <1>1 DEF TickStep, Claim, PauseInsteadOfFiring, AdvanceAndFire, SkipTask
  <2>2. faults' = faults \/ faults' = faults + 1
    BY <1>1 DEF TickStep, Claim, PauseInsteadOfFiring, AdvanceAndFire, SkipTask, WriteFails
  <2>3. QED
    BY <1>0, <2>1, <2>2
<1>2. CASE \E f \in Firings : FireStep(f)
  <2>1. PICK f \in Firings : FireStep(f)
    BY <1>2
  <2>2. used' = used
    BY <2>1 DEF FireStep, DispatchFails, DispatchConflicts, StartWorkflow, StartTurn,
         StartInNewConversation, TargetEnds, Record, InsertRun, DecideGoal,
         DecideSelfPaced, WriteBack
  <2>3. faults' = faults \/ faults' = faults + 1
    BY <2>1 DEF FireStep, DispatchFails, DispatchConflicts, StartWorkflow, StartTurn,
         StartInNewConversation, TargetEnds, Record, InsertRun, DecideGoal,
         DecideSelfPaced, WriteBack, WriteFails
  <2>4. QED
    BY <1>0, <2>2, <2>3
<1>3. CASE \E r \in Requests : CreateCheck(r) \/ UpdateCheck(r) \/ RequestStep(r)
  BY <1>0, <1>3 DEF CreateCheck, UpdateCheck, RequestStep, Create, Update
<1>4. CASE \/ \E u \in Tasks : Delete(u) \/ RunNow(u)
           \/ \E c \in Conversations : UserTurn(c) \/ TurnEnds(c) \/ DeleteConversation(c)
           \/ Prune \/ Crash \/ TimePasses \/ UNCHANGED vars
  BY <1>0, <1>4 DEF Delete, RunNow, UserTurn, TurnEnds, DeleteConversation, Prune, Crash,
                    TimePasses, vars
<1>5. QED
  BY <1>1, <1>2, <1>3, <1>4 DEF Next

\* What a user did to a task is not forgotten, also when its row is gone.
LEMMA ManualGrows ==
    ASSUME TypeOK, [Next]_vars, NEW t \in Tasks
    PROVE  hist[t].manual <= hist'[t].manual
<1>0. hist[t] \in History /\ hist[t].manual \in Nat
  BY DEF TypeOK, History
<1>1. \A next : Armed(hist[t], next).manual = hist[t].manual /\ Armed(hist[t], next) \in History
  BY <1>0 DEF Armed, History
<1>2. CASE hist'[t] = hist[t]
  BY <1>0, <1>2
<1>3. CASE Claim
  <2>1. PICK s : hist' = [u \in Tasks |-> [hist[u] EXCEPT
                     !.overlap = @ \/ (Scheduled(u) # {} /\ u \in Image(s))]]
    BY <1>3 DEF Claim
  <2>2. PICK b \in BOOLEAN : hist'[t] = [hist[t] EXCEPT !.overlap = @ \/ b]
    BY <2>1
  <2>3. hist'[t].manual = hist[t].manual
    BY <1>0, <2>2, OverlapMarked, Zenon
  <2>4. QED
    BY <1>0, <2>3
<1>4. CASE AdvanceAndFire
  <2>1. PICK h, next : Shot(h, next)
    BY <1>4 DEF AdvanceAndFire
  <2>2. \/ hist'[t] = hist[t]
        \/ hist'[t] = [Armed(hist[t], next) EXCEPT !.shots = @ + 1]
    BY <2>1 DEF Shot, TypeOK
  <2>3. \A k \in History : [k EXCEPT !.shots = @ + 1].manual = k.manual
    BY DEF History
  <2>4. hist'[t].manual = hist[t].manual
    BY <1>1, <2>2, <2>3, Zenon
  <2>5. QED
    BY <1>0, <2>4
<1>5. ASSUME NEW f \in Firings, FireStep(f)
      PROVE  hist'[t] = hist[t] \/ \E next : hist'[t] = Armed(hist[t], next)
  <2>1. CASE hist' = hist
    BY <2>1
  <2>2. CASE WriteBack(f)
    BY <2>2 DEF WriteBack, TypeOK
  <2>3. QED
    BY <1>5, <2>1, <2>2
       DEF FireStep, DispatchFails, DispatchConflicts, StartWorkflow, StartTurn,
           StartInNewConversation, TargetEnds, Record, InsertRun, DecideGoal,
           DecideSelfPaced
<1>6. ASSUME NEW r \in Requests, Create(r)
      PROVE  hist'[t] = hist[t] \/ \E next : hist'[t] = Armed(hist[t], next)
  BY <1>6 DEF Create, TypeOK
<1>7. ASSUME NEW r \in Requests, Update(r) PROVE hist[t].manual <= hist'[t].manual
  <2> DEFINE u == req[r].task
             b == req[r].kind \notin {"keep", rows[u].kind}
  <2>1. hist'[t] = hist[t] \/ hist'[t] = Edited(hist[t], req[r].next, b)
    BY <1>7 DEF Update, Edited, TypeOK
  <2>2. b \in BOOLEAN
    OBVIOUS
  <2> HIDE DEF b
  <2>3. QED
    BY <1>0, <2>1, <2>2, EditMarked
<1>8. ASSUME NEW u \in Tasks, RunNow(u) PROVE hist[t].manual <= hist'[t].manual
  BY <1>0, <1>8 DEF RunNow, TypeOK, History
<1>9. CASE Prune
  <2>1. hist'[t] = [hist[t] EXCEPT !.pruned = @ + Cardinality(runs[t] \ runs'[t])]
    BY <1>9 DEF Prune
  <2>2. PICK n : hist'[t] = [hist[t] EXCEPT !.pruned = @ + n]
    BY <2>1
  <2>3. hist'[t].manual = hist[t].manual
    BY <1>0, <2>2 DEF History
  <2>4. QED
    BY <1>0, <2>3
<1>10. CASE \/ PauseInsteadOfFiring \/ SkipTask
            \/ \E r \in Requests : CreateCheck(r) \/ UpdateCheck(r)
            \/ \E u \in Tasks : Delete(u)
            \/ \E c \in Conversations : UserTurn(c) \/ TurnEnds(c) \/ DeleteConversation(c)
            \/ Crash \/ TimePasses \/ UNCHANGED vars
  <2>1. hist' = hist
    BY <1>10 DEF PauseInsteadOfFiring, SkipTask, CreateCheck, UpdateCheck, Delete, UserTurn,
                 TurnEnds, DeleteConversation, Crash, TimePasses, vars
  <2>2. QED
    BY <1>2, <2>1
<1>11. ASSUME NEW next, hist'[t] = Armed(hist[t], next)
       PROVE  hist[t].manual <= hist'[t].manual
  BY <1>0, <1>1, <1>11
<1>12. QED
  BY <1>2, <1>3, <1>4, <1>5, <1>6, <1>7, <1>8, <1>9, <1>10, <1>11
     DEF Next, TickStep, RequestStep

-----------------------------------------------------------------------------
(* Behind an instant *)

\* Whatever may still arm u does so after d: its row, the sweep that holds it, and
\* the loops' turns in flight.
Behind(u, d) ==
    /\ rows[u].next # Never => rows[u].next > d \/ Entries(u) # {}
    /\ Entries(u) # {} => tick.now >= d
    /\ \A f \in Scheduled(u) : firing[f].snap.kind = "self_paced" => firing[f].at >= d

\* A claim puts u behind every instant that is due and not before its own.
LEMMA BehindTaken ==
    ASSUME LoopsInv, Claim, NEW u \in live, IsClaimed(u), hist[u].manual = 0,
           NEW d \in Int, d <= now
    PROVE  Behind(u, d)'
<1>0. TypeOK /\ SnapsOf(u) /\ LoopOf(u) /\ now \in Int
  BY DEF LoopsInv, Ground, Base, ShotsInv, SnapsInv, TypeOK
<1>1. Entries(u)' # {} /\ tick'.now = now /\ rows[u].next # Never
  BY DEF IsClaimed, IsDue
<1>2. firing' = firing
  BY DEF Claim
<1>3. ASSUME NEW f \in Scheduled(u), firing[f].snap.kind = "self_paced" PROVE FALSE
  <2>1. f \in InFlight(u) /\ ~hist[u].switched
    BY <1>0 DEF Scheduled, SnapsOf
  <2>2. rows[u].kind = "self_paced"
    BY <1>0, <1>3, <2>1 DEF SnapsOf, Faithful
  <2>3. QED
    BY <1>0, <1>1, <1>3, <2>2 DEF LoopOf
<1>4. Scheduled(u)' = Scheduled(u)
  BY <1>2 DEF Scheduled, InFlight
<1>5. QED
  BY <1>0, <1>1, <1>2, <1>3, <1>4 DEF Behind

\* Who is behind stays behind, as long as it is not taken.
LEMMA BehindMove ==
    ASSUME LoopsInv, [Next]_vars, NEW u \in live, TaskStep(u), u \notin Taken,
           hist'[u].manual = 0, faults' = faults, NEW d \in Int, Behind(u, d)
    PROVE  Behind(u, d)'
<1>0. /\ Base /\ TypeOK /\ BatchIsDistinct /\ SnapsOf(u) /\ FiringsInv
      /\ u \in Tasks /\ tick.now \in 0..MaxTime
  BY DEF LoopsInv, Ground, Base, ShotsInv, SnapsInv, TypeOK, TickType
<1>1. hist[u].manual = 0
  BY <1>0, ManualGrows DEF TypeOK, History
<1>2. ~IsClaimed(u)
  BY <1>0, TakenSeen DEF IsClaimed
<1>3. Entries(u)' # {} => Entries(u) # {} /\ tick'.now = tick.now
  BY <1>2 DEF TaskStep, Rests, IsPaused, IsShot, IsRunNow, IsMoved, IsEdited, IsPruned,
              IsCrashed, EntriesStay
<1>4. Entries(u)' # {} => tick'.now >= d
  BY <1>3 DEF Behind
<1>5. ASSUME rows'[u].next # Never PROVE rows'[u].next > d \/ Entries(u)' # {}
  <2>1. CASE rows'[u].next = rows[u].next /\ ~IsShot(u)
    BY <1>0, <1>5, <2>1, EntryKept DEF Behind
  <2>2. ASSUME NEW e \in Entries(u), rows'[u].next = NextAfter(e.snap)
        PROVE  rows'[u].next > d
    <3>1. rows'[u].next = NextCron(tick.now)
      BY <1>5, <2>2 DEF NextAfter
    <3>2. NextCron(tick.now) \in Int /\ NextCron(tick.now) > tick.now /\ tick.now >= d
      BY <1>0, <1>5, <2>2, <3>1, CronAssumption DEF Behind
    <3>3. QED
      BY <1>0, <3>1, <3>2
  <2>3. ASSUME NEW f \in InFlight(u), firing[f].pc = "arm", rows'[u].next = firing[f].next
        PROVE  rows'[u].next > d
    <3>1. f \in Scheduled(u) /\ f \in Firings
      BY <1>0, <1>1 DEF SnapsOf, Scheduled, InFlight
    <3>2. firing[f].snap.kind = "self_paced" /\ firing[f].next > firing[f].at
      BY <1>0, <1>5, <2>3, <3>1 DEF FiringsInv, Sound
    <3>3. firing[f].at >= d /\ firing[f].at \in Int /\ firing[f].next \in Int
      BY <1>0, <3>1, <3>2 DEF Behind, TypeOK, Firing
    <3>4. QED
      BY <2>3, <3>2, <3>3
  <2>4. QED
    BY <1>0, <1>5, <2>1, <2>2, <2>3, NextFrom
<1>6. ASSUME NEW f \in Scheduled(u)', firing'[f].snap.kind = "self_paced"
      PROVE  firing'[f].at >= d
  <2>0. f \in InFlight(u)' /\ firing'[f].trigger = "schedule"
    BY DEF Scheduled
  <2>1. CASE f \in InFlight(u) /\ SameFiring(f)
    BY <1>6, <2>0, <2>1 DEF SameFiring, Scheduled, Behind
  <2>2. CASE IsShot(u) /\ firing'[f].at = tick.now
    BY <2>2 DEF IsShot, Behind
  <2>3. QED
    BY <1>0, <2>0, <2>1, <2>2, FliesFrom
<1>7. QED
  BY <1>4, <1>5, <1>6 DEF Behind

-----------------------------------------------------------------------------
(* One task against another *)

OvertakeOf(t, u) ==
    faults = 0 /\ hist[t].manual = 0 /\ hist[u].manual = 0 =>
        \/ overtakes[t][u] = 0
        \/ /\ overtakes[t][u] = 1
           /\ IsDue(t, now) /\ Entries(t) = {}
           /\ u \in used
           /\ u \in live => Behind(u, rows[t].next)

\* A due task that nobody takes keeps its instant.
LEMMA WaitingStays ==
    ASSUME LoopsInv, NEW t \in live, TaskStep(t), IsDue(t, now), rows'[t].next # Never,
           Entries(t) = {}, hist[t].manual = 0, hist'[t].manual = 0
    PROVE  rows'[t].next = rows[t].next
<1>0. Base /\ SnapsOf(t) /\ LoopOf(t) /\ FiringsInv
  BY DEF LoopsInv, Ground, Base, SnapsInv
<1>1. ASSUME NEW f \in InFlight(t), firing[f].pc = "arm" PROVE FALSE
  <2>1. f \in Scheduled(t) /\ f \in Firings
    BY <1>0 DEF SnapsOf, Scheduled, InFlight
  <2>2. firing[f].snap.kind = "self_paced"
    BY <1>0, <1>1, <2>1 DEF FiringsInv, Sound
  <2>3. rows[t].kind = "self_paced"
    BY <1>0, <2>2 DEF SnapsOf, Faithful
  <2>4. QED
    BY <1>0, <2>1, <2>3 DEF LoopOf, IsDue
<1>2. QED
  BY <1>0, <1>1, NextFrom

LEMMA OvertakeMove ==
    ASSUME LoopsInv, LoopsInv', [Next]_vars, Observe, NEW t \in Tasks, NEW u \in Tasks,
           OvertakeOf(t, u)
    PROVE  OvertakeOf(t, u)'
<1>0. /\ TypeOK /\ TypeOK' /\ BatchIsDistinct /\ \A w \in live' : TaskStep(w)
  BY GroundStep DEF LoopsInv, Ground, Base, ShotsInv
<1> SUFFICES ASSUME faults' = 0, hist'[t].manual = 0, hist'[u].manual = 0
             PROVE  \/ overtakes'[t][u] = 0
                    \/ /\ overtakes'[t][u] = 1
                       /\ IsDue(t, now)' /\ Entries(t)' = {}
                       /\ u \in used'
                       /\ u \in live' => Behind(u, rows[t].next)'
  BY DEF OvertakeOf
<1>1. faults = 0 /\ hist[t].manual = 0 /\ hist[u].manual = 0
  BY <1>0, FaultsAndIdsGrow, ManualGrows DEF TypeOK, History
<1>2. overtakes'[t][u] = IF ~IsDue(t, now)' \/ t \in Taken THEN 0
                         ELSE IF u \in Taken THEN overtakes[t][u] + 1
                         ELSE overtakes[t][u]
  BY DEF Observe
<1>3. CASE ~IsDue(t, now)' \/ t \in Taken
  BY <1>2, <1>3
<1>4. CASE IsDue(t, now)' /\ t \notin Taken /\ u \in Taken
  <2>1. Claim /\ rows' = rows /\ live' = live /\ now' = now /\ used' = used
    BY <1>0, <1>4, TakenSeen DEF Claim
  <2>2. IsDue(t, now) /\ t \in live
    BY <1>4, <2>1 DEF IsDue
  <2>3. /\ IsDue(u, now) /\ u \in live /\ rows[u].next <= rows[t].next
        /\ rows[u].next # Never /\ rows[t].next <= now
    BY <1>0, <1>4, <2>1, <2>2, BatchOrder DEF IsDue
  <2>4. /\ Entries(u) = {} /\ Entries(u)' # {}
        /\ Entries(t) = {} /\ Entries(t)' = {}
    <3>1. \A w : Entries(w) = {}
      BY <2>1 DEF Claim, Entries, Image
    <3>2. QED
      BY <1>0, <1>4, <3>1, TakenSeen
  <2>5. rows[t].next \in Int /\ rows[u].next \in Int
    BY <1>0 DEF TypeOK, Row
  <2>6. overtakes[t][u] = 0
    BY <1>1, <2>3, <2>4, <2>5 DEF OvertakeOf, Behind
  <2>7. IsClaimed(u)
    BY <1>0, <2>1, <2>3, <2>4, ClaimSeen DEF Rests, EntriesStay
  <2>8. PICK d : d = rows[t].next
    OBVIOUS
  <2>9. Behind(u, d)'
    BY <1>1, <2>1, <2>3, <2>5, <2>7, <2>8, BehindTaken
  <2>10. Behind(u, rows[t].next)'
    BY <2>1, <2>8, <2>9 DEF Behind
  <2>11. u \in used'
    BY <1>0, <2>1, <2>3 DEF TypeOK
  <2>12. QED
    BY <1>2, <1>4, <2>4, <2>6, <2>10, <2>11
<1>5. CASE IsDue(t, now)' /\ t \notin Taken /\ u \notin Taken /\ overtakes[t][u] = 0
  BY <1>2, <1>5
<1>6. CASE IsDue(t, now)' /\ t \notin Taken /\ u \notin Taken /\ overtakes[t][u] # 0
  <2>1. /\ overtakes[t][u] = 1 /\ IsDue(t, now) /\ Entries(t) = {} /\ u \in used
        /\ u \in live => Behind(u, rows[t].next)
    BY <1>1, <1>6 DEF OvertakeOf
  <2>2. t \in live /\ t \in live' /\ rows'[t].next # Never
    BY <1>6, <2>1 DEF IsDue
  <2>3. rows'[t].next = rows[t].next
    BY <1>0, <1>1, <2>1, <2>2, WaitingStays
  <2>4. Entries(t)' = {}
    BY <1>0, <1>6, <2>1, TakenSeen
  <2>5. u \in used'
    BY <1>0, <2>1, FaultsAndIdsGrow
  <2>6. ASSUME u \in live' PROVE Behind(u, rows[t].next)'
    <3>1. u \in live /\ TaskStep(u)
      BY <1>0, <2>1, <2>6 DEF TaskStep, IsCreated
    <3>2. PICK d \in Int : d = rows[t].next
      BY <1>0 DEF TypeOK, Row
    <3>3. Behind(u, d)'
      BY <1>1, <1>6, <2>1, <3>1, <3>2, BehindMove
    <3>4. QED
      BY <2>3, <3>2, <3>3 DEF Behind
  <2>7. QED
    BY <1>2, <1>6, <2>1, <2>4, <2>5, <2>6
<1>7. QED
  BY <1>3, <1>4, <1>5, <1>6

OrderInv == LoopsInv /\ \A t, u \in Tasks : OvertakeOf(t, u)

\* claim_due_tasks takes the earliest instants first, and every statement that arms a
\* task again does so after the sweep that took it: a task that waits is passed over
\* once by each other task, for any number of tasks and any batch.
THEOREM SchedulerOvertakenOnce == SpecO => []OvertakenOnce
<1>1. InitO => OrderInv
  <2> SUFFICES ASSUME InitO PROVE OrderInv
    OBVIOUS
  <2>1. LoopsInv
    BY LoopsInit DEF InitO
  <2>2. \A t, u \in Tasks : overtakes[t][u] = 0
    BY DEF InitO
  <2>3. QED
    BY <2>1, <2>2 DEF OrderInv, OvertakeOf
<1>2. OrderInv /\ [NextO]_varsO => OrderInv'
  <2> SUFFICES ASSUME OrderInv, [NextO]_varsO PROVE OrderInv'
    OBVIOUS
  <2>1. [Next]_vars /\ LoopsInv /\ LoopsInv'
    <3>1. [Next]_vars
      BY DEF NextO, varsO
    <3>2. QED
      BY <3>1, LoopsStep DEF OrderInv
  <2>2. CASE Observe
    BY <2>1, <2>2, OvertakeMove DEF OrderInv
  <2>3. CASE UNCHANGED varsO
    <3>1. /\ tick' = tick /\ firing' = firing /\ rows' = rows /\ live' = live
          /\ used' = used /\ now' = now /\ faults' = faults /\ hist' = hist
          /\ overtakes' = overtakes
      BY <2>3 DEF varsO, vars
    <3>2. \A t, u \in Tasks : OvertakeOf(t, u)'
      BY <3>1 DEF OrderInv, OvertakeOf, Behind, IsDue, Entries, Image, Scheduled, InFlight
    <3>3. QED
      BY <2>1, <3>2 DEF OrderInv
  <2>4. QED
    BY <2>2, <2>3 DEF NextO
<1>3. OrderInv => OvertakenOnce
  BY DEF OrderInv, OvertakeOf, OvertakenOnce
<1>4. QED
  BY <1>1, <1>2, <1>3, PTL DEF SpecO

=============================================================================
