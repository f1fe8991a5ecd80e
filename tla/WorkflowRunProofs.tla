------------------------- MODULE WorkflowRunProofs --------------------------
(***************************************************************************)
(* Theorems about WorkflowRun, for every set of workflows, any number of   *)
(* handlers, runners, handles, questions and failures.                     *)
(***************************************************************************)
EXTENDS WorkflowRun, TLAPS

-----------------------------------------------------------------------------
(* Type correctness *)

\* Where a runner is at a step of the plan.
Stepping == Dispatching \cup {"arming", "save"}

\* What a thread may become: its step is one of the plan while it executes it, and
\* what it is about to write is a status.
Sane(r) ==
    /\ r.pc \in Stepping => r.step \in Steps
    /\ r.pc = "agentout" => r.note # "none"
    /\ r.pc = "end" => r.note \in Terminal

Good(r) == r \in Thread /\ Sane(r)

TypeInv == TypeOK /\ \A t \in Threads : Sane(thread[t])

LEMMA StateTypes ==
    ASSUME TypeInv
    PROVE  /\ plan \in Plans /\ row \in Row /\ handle \in [Handles -> Handle]
           /\ current \in Handles \cup {0} /\ thread \in [Threads -> Thread]
           /\ \A t \in Threads : Good(thread[t])
           /\ spent \in [elicits : Elicits, faults : Nat, mishaps : 0..MaxMishaps]
           /\ cancel \in {"idle", "signal", "cas"}
           /\ boot \in {"idle", "spare", "fail", "redrive"}
           /\ asked \in BOOLEAN /\ raced \in BOOLEAN
BY DEF TypeInv, TypeOK, Good

LEMMA StepsAreNat == TypeInv => Steps \subseteq Nat /\ plan \in Seq(Kinds)
BY StateTypes, PlansAssumption DEF Steps

LEMMA IdleType == Good(Idle)
BY BoundsAssumption DEF Good, Sane, Idle, Thread, Pcs, Stepping, Dispatching, Running, Elicits, Terminal

\* The thread after a step that sets it.
LEMMA SetIs ==
    ASSUME TypeInv, NEW t \in Threads, NEW r, Set(t, r)
    PROVE  thread'[t] = r /\ \A u \in Threads \ {t} : thread'[u] = thread[u]
BY StateTypes DEF Set

LEMMA SetType ==
    ASSUME TypeInv, NEW t \in Threads, NEW r, Good(r), Set(t, r)
    PROVE  thread' \in [Threads -> Thread] /\ \A u \in Threads : Sane(thread'[u])
<1>1. thread' = [thread EXCEPT ![t] = r]
  BY DEF Set
<1>2. \A u \in Threads : thread'[u] = IF u = t THEN r ELSE thread[u]
  BY <1>1, StateTypes
<1>3. QED
  BY <1>1, <1>2, StateTypes DEF Good

\* Going on to pc, ending with an outcome, completing the step.
Goes(t, pc) ==
    /\ Go(t, pc)
    /\ pc \in Pcs \ {"agentout", "end", "top"}
    /\ pc \in Stepping => thread[t].pc \in Stepping
    /\ thread[t].pc \in Running => pc \in Running
    /\ pc = "inserted" => row.status = "none"

LEMMA GoType ==
    ASSUME TypeInv, NEW t \in Threads, NEW pc, Goes(t, pc)
    PROVE  Good([thread[t] EXCEPT !.pc = pc])
<1>1. Good(thread[t]) /\ pc \in Pcs
  BY StateTypes DEF Goes
<1>2. [thread[t] EXCEPT !.pc = pc] \in Thread
  BY <1>1 DEF Good, Thread
<1>3. /\ [thread[t] EXCEPT !.pc = pc].pc = pc
      /\ [thread[t] EXCEPT !.pc = pc].step = thread[t].step
  BY <1>1 DEF Good, Thread
<1>4. QED
  BY <1>1, <1>2, <1>3 DEF Good, Sane, Goes

LEMMA EndType ==
    ASSUME TypeInv, NEW t \in Threads, NEW o \in Terminal
    PROVE  Good([Idle EXCEPT !.pc = "end", !.note = o, !.h = thread[t].h])
<1>1. Good(Idle) /\ Good(thread[t]) /\ "end" \in Pcs \ Stepping
  BY IdleType, StateTypes DEF Pcs, Ending, Stepping, Dispatching
<1>2. QED
  BY <1>1 DEF Good, Sane, Thread, Terminal

LEMMA DoneType ==
    ASSUME TypeInv, NEW t \in Threads, thread[t].pc \in Stepping
    PROVE  Good([thread[t] EXCEPT !.pc = "save", !.eid = 0, !.got = FALSE,
                                  !.done = @ \cup {thread[t].step}])
<1>1. Good(thread[t]) /\ "save" \in Pcs /\ 0 \in Elicits
  BY StateTypes, BoundsAssumption DEF Pcs, Running, Elicits
<1>2. thread[t].step \in Steps
  BY <1>1 DEF Good, Sane
<1>3. QED
  BY <1>1, <1>2 DEF Good, Sane, Thread

\* A step that moves one thread without a value that only this step knows.
Moves(t) ==
    \/ Set(t, Idle)
    \/ \E pc \in Pcs : Goes(t, pc)
    \/ \E o \in Terminal : End(t, o)
    \/ Completes(t) /\ thread[t].pc \in Stepping

LEMMA MovesType ==
    ASSUME TypeInv, NEW t \in Threads, Moves(t)
    PROVE  thread' \in [Threads -> Thread] /\ \A u \in Threads : Sane(thread'[u])
<1>1. CASE Set(t, Idle)
  BY <1>1, IdleType, SetType
<1>2. ASSUME NEW pc \in Pcs, Goes(t, pc)
      PROVE  thread' \in [Threads -> Thread] /\ \A u \in Threads : Sane(thread'[u])
  <2>1. Set(t, [thread[t] EXCEPT !.pc = pc])
    BY <1>2 DEF Goes, Go
  <2>2. QED
    BY <1>2, <2>1, GoType, SetType
<1>3. ASSUME NEW o \in Terminal, End(t, o)
      PROVE  thread' \in [Threads -> Thread] /\ \A u \in Threads : Sane(thread'[u])
  <2>1. Set(t, [Idle EXCEPT !.pc = "end", !.note = o, !.h = thread[t].h])
    BY <1>3 DEF End
  <2>2. QED
    BY <2>1, EndType, SetType
<1>4. CASE Completes(t) /\ thread[t].pc \in Stepping
  <2>1. Set(t, [thread[t] EXCEPT !.pc = "save", !.eid = 0, !.got = FALSE,
                                 !.done = @ \cup {thread[t].step}])
    BY <1>4 DEF Completes
  <2>2. QED
    BY <1>4, <2>1, DoneType, SetType
<1>5. QED
  BY <1>1, <1>2, <1>3, <1>4 DEF Moves

\* What a step does to the rest of the state.
Typed ==
    /\ plan' = plan
    /\ row' \in Row
    /\ handle' \in [Handles -> Handle]
    /\ current' \in Handles \cup {0}
    /\ spent' \in [elicits : Elicits, faults : Nat, mishaps : 0..MaxMishaps]
    /\ cancel' \in {"idle", "signal", "cas"}
    /\ boot' \in {"idle", "spare", "fail", "redrive"}
    /\ asked' \in BOOLEAN /\ raced' \in BOOLEAN

LEMMA TypedType ==
    ASSUME TypeInv, Typed,
           thread' \in [Threads -> Thread], \A u \in Threads : Sane(thread'[u])
    PROVE  TypeInv'
BY DEF TypeInv, TypeOK, Typed, Row, Thread, Steps, Sane

LEMMA TypeInit == Init => TypeInv
<1> SUFFICES ASSUME Init PROVE TypeInv
  OBVIOUS
<1>1. NoRow \in Row /\ NewHandle \in Handle
  BY BoundsAssumption DEF NoRow, Row, Statuses, Elicits, NewHandle, Handle
<1>2. thread \in [Threads -> Thread] /\ \A t \in Threads : Sane(thread[t])
  BY IdleType DEF Init, Good
<1>3. spent \in [elicits : Elicits, faults : Nat, mishaps : 0..MaxMishaps]
  BY BoundsAssumption DEF Init, Elicits
<1>4. QED
  BY <1>1, <1>2, <1>3 DEF Init, TypeInv, TypeOK

\* The row after each statement.
LEMMA RowTypes ==
    ASSUME TypeInv
    PROVE  /\ \A s \in Statuses : [row EXCEPT !.status = s] \in Row
           /\ \A t \in Threads : thread[t].pc \in Stepping =>
                  [row EXCEPT !.outputs = @ \cup {thread[t].step}] \in Row
           /\ \A e \in Elicits, n \in Nat : [row EXCEPT !.pending = e, !.step = n] \in Row
           /\ \A n \in Nat : [row EXCEPT !.response = n] \in Row
           /\ \A b \in BOOLEAN : [row EXCEPT !.agent = b] \in Row
           /\ [row EXCEPT !.old = TRUE] \in Row
           /\ [NoRow EXCEPT !.status = "deleted"] \in Row
           /\ \A t \in Threads : thread[t].eid \in Elicits /\ thread[t].step \in Nat
<1>1. row \in Row /\ \A t \in Threads : thread[t] \in Thread /\ Sane(thread[t])
  BY StateTypes DEF Good
<1>2. NoRow \in Row
  BY BoundsAssumption DEF NoRow, Row, Statuses, Elicits
<1>3. \A t \in Threads : thread[t].pc \in Stepping =>
          [row EXCEPT !.outputs = @ \cup {thread[t].step}] \in Row
  BY <1>1 DEF Row, Sane
<1>4. [NoRow EXCEPT !.status = "deleted"] \in Row
  BY <1>2 DEF Row, Statuses
<1>5. QED
  BY <1>1, <1>3, <1>4 DEF Row, Thread

LEMMA WriteType == ASSUME TypeInv, NEW r \in Row, Write(r) PROVE row' \in Row
BY StateTypes DEF Write

LEMMA MarkType == ASSUME TypeInv, NEW s \in Statuses, MarkStatus(s) PROVE row' \in Row
BY RowTypes, StateTypes DEF MarkStatus, Write

LEMMA MishapType ==
    ASSUME TypeInv, NEW n \in 0..1, Mishap(n)
    PROVE  spent' \in [elicits : Elicits, faults : Nat, mishaps : 0..MaxMishaps]
<1>1. /\ spent \in [elicits : Elicits, faults : Nat, mishaps : 0..MaxMishaps]
      /\ MaxMishaps \in Nat /\ n \in Nat
  BY StateTypes, BoundsAssumption
<1>2. spent.mishaps + 1 \in 0..MaxMishaps /\ spent.faults + n \in Nat
  BY <1>1 DEF Mishap
<1>3. spent' = [spent EXCEPT !.mishaps = spent.mishaps + 1, !.faults = spent.faults + n]
  BY DEF Mishap
<1>4. QED
  BY <1>1, <1>2, <1>3

LEMMA ElicitType ==
    ASSUME TypeInv, NextElicit
    PROVE  /\ spent' \in [elicits : Elicits, faults : Nat, mishaps : 0..MaxMishaps]
           /\ spent.elicits + 1 \in Elicits
BY StateTypes, BoundsAssumption DEF NextElicit, Elicits

LEMMA NoAnswerType ==
    ASSUME TypeInv, NEW t, NEW n \in 0..1, NoAnswer(t, n)
    PROVE  /\ spent' \in [elicits : Elicits, faults : Nat, mishaps : 0..MaxMishaps]
           /\ spent.elicits + n \in Elicits /\ spent'.faults >= spent.faults
<1>1. spent \in [elicits : Elicits, faults : Nat, mishaps : 0..MaxMishaps]
  BY StateTypes
<1>2. spent.elicits + n \in Elicits
  BY <1>1, BoundsAssumption DEF NoAnswer, Elicits
<1>3. CASE row.response = thread[t].step
  <2>1. spent' = [spent EXCEPT !.elicits = spent.elicits + n, !.mishaps = spent.mishaps + 1,
                               !.faults = spent.faults + 1]
    BY <1>3 DEF NoAnswer
  <2>2. spent.mishaps + 1 \in 0..MaxMishaps
    BY <1>1, <1>3, BoundsAssumption DEF NoAnswer
  <2>3. spent.faults + 1 \in Nat /\ spent.faults + 1 >= spent.faults
    BY <1>1
  <2>4. /\ DOMAIN spent' = {"elicits", "faults", "mishaps"}
        /\ spent'.elicits = spent.elicits + n /\ spent'.mishaps = spent.mishaps + 1
        /\ spent'.faults = spent.faults + 1
    BY <1>1, <2>1
  <2>5. spent' \in [elicits : Elicits, faults : Nat, mishaps : 0..MaxMishaps]
    BY <1>1, <1>2, <2>1, <2>2, <2>3
  <2>6. QED
    BY <1>2, <2>3, <2>4, <2>5
<1>4. CASE row.response # thread[t].step
  <2>1. spent' = [spent EXCEPT !.elicits = spent.elicits + n]
    BY <1>4 DEF NoAnswer
  <2>2. QED
    BY <1>1, <1>2, <2>1
<1>5. QED
  BY <1>3, <1>4

LEMMA KeptType == ASSUME TypeInv, NEW held PROVE Kept(held) \in [Handles -> Handle]
<1>1. NewHandle \in Handle
  BY BoundsAssumption DEF NewHandle, Handle, Elicits
<1>2. QED
  BY <1>1, StateTypes DEF Kept

LEMMA HandleTypes ==
    ASSUME TypeInv
    PROVE  \A h \in Handles :
               /\ \A b \in BOOLEAN : /\ [handle EXCEPT ![h].runner = b] \in [Handles -> Handle]
                                     /\ [handle EXCEPT ![h].kept = b] \in [Handles -> Handle]
                                     /\ [handle EXCEPT ![h].cancelled = b] \in [Handles -> Handle]
               /\ \A e \in Elicits : [handle EXCEPT ![h].slot = e] \in [Handles -> Handle]
BY StateTypes DEF Handle

LEMMA PcsNamed ==
    /\ {"work", "consult", "consume", "clearing", "answered", "gate", "suspend", "ask", "parked",
        "agentin", "agent", "agentgate", "park", "arming", "save"}
            \subseteq ((Pcs \ {"agentout", "end", "top"}) \cap Stepping) \cap Running
    /\ {"leave", "recheck", "reread", "promote", "load", "idle", "inserted",
        "prepare", "branch", "store"} \subseteq ((Pcs \ {"agentout", "end", "top"}) \ Stepping) \ Running
    /\ {"top", "check"} \subseteq (Pcs \cap Running) \ Stepping
    /\ {"agentout", "end"} \subseteq Pcs /\ "agentout" \in Stepping \cap Running
    /\ "end" \notin Stepping \cup Running
    /\ Dispatching \subseteq Stepping \cap Running
    /\ Terminal = {"completed", "failed", "cancelled"}
    /\ Resuming = {"recheck", "reread", "promote", "load"} /\ Ending = {"end", "leave"}
BY DEF Pcs, Running, Ending, Resuming, Stepping, Dispatching, Terminal

\* The steps that are Moves.
LoopMoves(t) ==
    \/ SeeCancel(t) \/ Arm(t) \/ Preempt(t) \/ Deadline(t) \/ Work(t) \/ Save(t)
    \/ Finish(t) \/ MarkEnd(t) \/ Leave(t) \/ Park(t)

ElicitMoves(t) ==
    \/ ConsumeStatus(t) \/ ConsumeResponse(t) \/ Answer(t) \/ PersistGate(t) \/ Suspend(t)
    \/ PersistAsk(t) \/ AskAnswered(t) \/ AskGivenUp(t)

AgentMoves(t) == AgentEnter(t) \/ AgentAsks(t) \/ AgentLeave(t)

HandlerMoves(t) ==
    \/ Spawn(t) \/ SubmitCold(t) \/ StoreResponse(t) \/ ResumeCheck(t) \/ ResumePromote(t)
    \/ Register(t) \/ HandlerFails(t)

LEMMA LoopMove == ASSUME TypeInv, NEW t \in Threads, LoopMoves(t) PROVE Moves(t)
<1>1. CASE SeeCancel(t) \/ Preempt(t) \/ Deadline(t) \/ Finish(t)
  BY <1>1, PcsNamed DEF SeeCancel, Preempt, Deadline, Finish, Moves
<1>2. CASE Arm(t) \/ MarkEnd(t)
  BY <1>2, PcsNamed DEF Arm, MarkEnd, Moves, Goes, At
<1>3. CASE Work(t) \/ Save(t)
  BY <1>3, PcsNamed DEF Work, Save, Moves, Goes, At
<1>4. CASE Leave(t) \/ Park(t)
  BY <1>4 DEF Leave, Park, Moves
<1>5. QED
  BY <1>1, <1>2, <1>3, <1>4 DEF LoopMoves

LEMMA ElicitMove == ASSUME TypeInv, NEW t \in Threads, ElicitMoves(t) PROVE Moves(t)
<1>1. CASE ConsumeStatus(t) \/ ConsumeResponse(t) \/ Suspend(t) \/ AskAnswered(t)
  BY <1>1, PcsNamed DEF ConsumeStatus, ConsumeResponse, Suspend, AskAnswered, Moves, Goes, At
<1>2. CASE Answer(t)
  BY <1>2, PcsNamed DEF Answer, Moves, At
<1>3. CASE PersistGate(t) \/ PersistAsk(t)
  BY <1>3, PcsNamed DEF PersistGate, PersistAsk, Moves, Goes, At
<1>4. CASE AskGivenUp(t)
  BY <1>4, PcsNamed DEF AskGivenUp, Moves
<1>5. QED
  BY <1>1, <1>2, <1>3, <1>4 DEF ElicitMoves

LEMMA AgentMove == ASSUME TypeInv, NEW t \in Threads, AgentMoves(t) PROVE Moves(t)
<1>1. CASE AgentEnter(t) \/ AgentAsks(t)
  BY <1>1, PcsNamed DEF AgentEnter, AgentAsks, Moves, Goes, At
<1>2. CASE AgentLeave(t)
  <2>1. thread[t].note # "none" /\ thread[t].note \in {"none", "waiting"} \cup Terminal
    BY <1>2, StateTypes DEF AgentLeave, At, Good, Sane, Thread
  <2>2. CASE thread[t].note = "waiting"
    BY <1>2, <2>2, PcsNamed DEF AgentLeave, Moves, Goes, At
  <2>3. CASE thread[t].note = "completed"
    BY <1>2, <2>3, PcsNamed DEF AgentLeave, Moves, At
  <2>4. CASE thread[t].note \notin {"waiting", "completed"}
    BY <1>2, <2>1, <2>4 DEF AgentLeave, Moves
  <2>5. QED
    BY <2>2, <2>3, <2>4
<1>3. QED
  BY <1>1, <1>2 DEF AgentMoves

LEMMA HandlerMove == ASSUME TypeInv, NEW t \in Threads, HandlerMoves(t) PROVE Moves(t)
<1>1. CASE Spawn(t) \/ StoreResponse(t) \/ ResumePromote(t) \/ Register(t)
  BY <1>1, PcsNamed DEF Spawn, StoreResponse, ResumePromote, Register, Moves, Goes, At
<1>2. CASE SubmitCold(t) \/ ResumeCheck(t)
  BY <1>2, PcsNamed DEF SubmitCold, ResumeCheck, Moves, Goes, At
<1>3. CASE HandlerFails(t)
  BY <1>3 DEF HandlerFails, Moves
<1>4. QED
  BY <1>1, <1>2, <1>3 DEF HandlerMoves

\* What they do to the rest.
LEMMA LoopTyped == ASSUME TypeInv, NEW t \in Threads, LoopMoves(t) PROVE Typed
<1>1. CASE SeeCancel(t) \/ Preempt(t) \/ Deadline(t) \/ Finish(t) \/ Arm(t) \/ Work(t)
  BY <1>1, StateTypes DEF SeeCancel, Preempt, Deadline, Finish, Arm, Work, Others, Registry, Typed
<1>2. CASE Save(t)
  <2>1. row' \in Row
    BY <1>2, RowTypes, WriteType, StateTypes, PcsNamed DEF Save, Lossy, At
  <2>2. QED
    BY <1>2, <2>1, MishapType, StateTypes DEF Save, Lossy, Fault, Others, Registry, Typed
<1>3. CASE MarkEnd(t)
  <2>1. thread[t].note \in Statuses
    BY <1>3, StateTypes DEF MarkEnd, At, Good, Sane, Statuses
  <2>2. QED
    BY <1>3, <2>1, MarkType, MishapType, StateTypes DEF MarkEnd, Lossy, Fault, Others, Registry, Typed
<1>4. CASE Leave(t)
  BY <1>4, KeptType, StateTypes DEF Leave, Others, Typed
<1>5. CASE Park(t)
  <2> DEFINE rest == Kept(HeldBy(Threads \ {t}) \cup {current})
  <2>1. rest \in [Handles -> Handle]
    BY KeptType
  <2> HIDE DEF rest
  <2>2. \A h \in Handles : [rest EXCEPT ![h].runner = FALSE, ![h].kept = TRUE] \in [Handles -> Handle]
    BY <2>1 DEF Handle
  <2>3. handle' \in [Handles -> Handle]
    BY <1>5, <2>1, <2>2, StateTypes DEF Park, rest
  <2>4. QED
    BY <1>5, <2>3, StateTypes DEF Park, Others, Typed
<1>6. QED
  BY <1>1, <1>2, <1>3, <1>4, <1>5 DEF LoopMoves

LEMMA ElicitTyped == ASSUME TypeInv, NEW t \in Threads, ElicitMoves(t) PROVE Typed
<1>1. /\ NoQuestion \in Row /\ {"running", "waiting"} \subseteq Statuses
      /\ PersistPending(t) => row' \in Row
      /\ [row EXCEPT !.response = 0] \in Row
  <2>1. 0 \in Elicits /\ 0 \in Nat /\ {"running", "waiting"} \subseteq Statuses
    BY BoundsAssumption DEF Elicits, Statuses
  <2>2. NoQuestion \in Row /\ [row EXCEPT !.response = 0] \in Row
    BY <2>1, RowTypes DEF NoQuestion
  <2>3. thread[t].eid \in Elicits /\ thread[t].step \in Nat
    BY RowTypes
  <2>4. [row EXCEPT !.pending = thread[t].eid, !.step = thread[t].step] \in Row
    BY <2>3, RowTypes
  <2>5. QED
    BY <2>1, <2>2, <2>4, WriteType DEF PersistPending
<1>2. CASE ConsumeStatus(t) \/ Suspend(t)
  BY <1>1, <1>2, MarkType, MishapType, StateTypes
     DEF ConsumeStatus, Suspend, Lossy, Fault, Others, Registry, Typed
<1>3. CASE ConsumeResponse(t)
  BY <1>1, <1>3, WriteType, MishapType, StateTypes
     DEF ConsumeResponse, Lossy, Fault, Others, Registry, Typed
<1>4. CASE Answer(t) \/ AskGivenUp(t)
  BY <1>1, <1>4, WriteType, MishapType, StateTypes
     DEF Answer, AskGivenUp, Lossy, Fault, Others, Registry, Typed
<1>5. CASE PersistGate(t)
  BY <1>1, <1>5, MishapType, StateTypes DEF PersistGate, Fault, Others, Registry, Typed
<1>6. CASE PersistAsk(t)
  <2>1. 0 \in Elicits
    BY BoundsAssumption DEF Elicits
  <2>2. handle' \in [Handles -> Handle]
    BY <1>6, <2>1, HandleTypes, StateTypes DEF PersistAsk
  <2>3. QED
    BY <1>1, <1>6, <2>2, MishapType, StateTypes DEF PersistAsk, Fault, Others, Typed
<1>7. CASE AskAnswered(t)
  BY <1>7, StateTypes DEF AskAnswered, Others, Registry, Typed
<1>8. QED
  BY <1>2, <1>3, <1>4, <1>5, <1>6, <1>7 DEF ElicitMoves

LEMMA AgentTyped ==
    ASSUME TypeInv, NEW t \in Threads, AgentMoves(t) \/ AgentSuspends(t) \/ AgentStops(t)
    PROVE  Typed
<1>1. [row EXCEPT !.agent = TRUE] \in Row /\ [row EXCEPT !.agent = FALSE] \in Row
  <2>1. TRUE \in BOOLEAN /\ FALSE \in BOOLEAN
    OBVIOUS
  <2>2. QED
    BY <2>1, RowTypes, Zenon
<1>2. CASE AgentEnter(t)
  BY <1>1, <1>2, WriteType, MishapType, StateTypes DEF AgentEnter, Lossy, Fault, Others, Registry, Typed
<1>3. CASE AgentLeave(t)
  BY <1>1, <1>3, WriteType, MishapType, StateTypes DEF AgentLeave, Lossy, Fault, Others, Registry, Typed
<1>4. CASE AgentAsks(t)
  <2>1. row' \in Row
    BY <1>4, RowTypes, WriteType, ElicitType DEF AgentAsks
  <2>2. QED
    BY <1>4, <2>1, ElicitType, StateTypes DEF AgentAsks, Registry, Typed
<1>5. CASE AgentSuspends(t)
  BY <1>5, MarkType, MishapType, StateTypes DEF AgentSuspends, Fault, Others, Registry, Typed, Statuses
<1>6. CASE AgentStops(t)
  BY <1>6, StateTypes DEF AgentStops, Others, Registry, Typed
<1>7. QED
  BY <1>2, <1>4, <1>5, <1>6, <1>3 DEF AgentMoves

LEMMA RegisteredType ==
    ASSUME TypeInv, NEW h \in Handles, Registered(h)
    PROVE  current' \in Handles /\ handle' \in [Handles -> Handle]
BY HandleTypes DEF Registered, GetOrCreate

LEMMA HandlerTyped == ASSUME TypeInv, NEW t \in Threads, HandlerMoves(t) PROVE Typed
<1>1. CASE Spawn(t)
  BY <1>1, RowTypes, StateTypes DEF Spawn, Others, Registry, Typed, Statuses
<1>2. CASE SubmitCold(t) \/ HandlerFails(t)
  BY <1>2, MishapType, StateTypes DEF SubmitCold, HandlerFails, Fault, Others, Registry, Typed
<1>3. CASE ResumeCheck(t)
  BY <1>3, StateTypes DEF ResumeCheck, Registry, Typed
<1>4. CASE StoreResponse(t)
  BY <1>4, RowTypes, WriteType, StateTypes DEF StoreResponse, Others, Registry, Typed
<1>5. CASE ResumePromote(t)
  BY <1>5, MarkType, StateTypes DEF ResumePromote, Others, Registry, Typed, Statuses
<1>6. CASE Register(t)
  BY <1>6, RegisteredType, StateTypes DEF Register, Others, Typed
<1>7. QED
  BY <1>1, <1>2, <1>3, <1>4, <1>5, <1>6 DEF HandlerMoves

\* The steps that set more of their thread than Moves does.
LEMMA EnterType ==
    ASSUME TypeInv, NEW t \in Threads, Enter(t)
    PROVE  Typed /\ thread' \in [Threads -> Thread] /\ \A u \in Threads : Sane(thread'[u])
<1>1. PICK h \in Handles :
        /\ IF current = 0 THEN Registered(h) ELSE h = current /\ UNCHANGED Registry
        /\ Set(t, [thread[t] EXCEPT !.pc = "top", !.step = 1, !.h = h, !.note = "none", !.eid = 0])
  BY DEF Enter
<1>2. Good([thread[t] EXCEPT !.pc = "top", !.step = 1, !.h = h, !.note = "none", !.eid = 0])
  <2>1. Good(thread[t]) /\ "top" \in Pcs \ Stepping /\ 0 \in Elicits
    BY StateTypes, PcsNamed, BoundsAssumption DEF Elicits
  <2>2. QED
    BY <2>1 DEF Good, Sane, Thread
<1>3. current' \in Handles /\ handle' \in [Handles -> Handle]
  BY <1>1, RegisteredType, StateTypes DEF Registry
<1>4. row' \in Row
  <2>1. [row EXCEPT !.status = "running"] \in Row /\ row \in Row
    BY RowTypes, StateTypes DEF Statuses
  <2>2. QED
    BY <2>1 DEF Enter, Write, Lossy
<1>5. Typed
  BY <1>3, <1>4, MishapType, StateTypes DEF Enter, Lossy, Fault, Others, Typed
<1>6. QED
  BY <1>1, <1>2, <1>5, SetType

LEMMA StepType ==
    ASSUME TypeInv, NEW t \in Threads, SkipStep(t) \/ BeginStep(t) \/ Check(t)
    PROVE  Typed /\ thread' \in [Threads -> Thread] /\ \A u \in Threads : Sane(thread'[u])
<1>1. Typed
  BY MishapType, StateTypes DEF SkipStep, BeginStep, Check, Fault, Others, Registry, Typed
<1>2. Good(thread[t]) /\ {"top", "arming"} \subseteq Pcs \ {"agentout", "end"} /\ "top" \notin Stepping
  BY StateTypes, PcsNamed
<1>3. thread[t].step \in Nat
  BY RowTypes
<1>4. CASE SkipStep(t)
  <2>1. Good([thread[t] EXCEPT !.step = @ + 1])
    BY <1>2, <1>3, <1>4 DEF SkipStep, At, Good, Sane, Thread
  <2>2. QED
    BY <1>1, <1>4, <2>1, SetType DEF SkipStep
<1>5. CASE BeginStep(t)
  <2> DEFINE late == row.status = "cancelled"
  <2>1. late \in BOOLEAN
    OBVIOUS
  <2> HIDE DEF late
  <2>2. thread[t].step \in Steps /\ FALSE \in BOOLEAN /\ "arming" \in Pcs \ {"agentout", "end"}
    BY <1>2, <1>5 DEF BeginStep
  <2> DEFINE r == [thread[t] EXCEPT !.pc = "arming", !.woken = FALSE, !.late = late]
  <2>4. r \in Thread
    BY <1>2, <2>1, <2>2 DEF Good, Thread
  <2>5. r.pc = "arming" /\ r.step = thread[t].step
    BY <1>2 DEF Good, Thread
  <2> HIDE DEF r
  <2>6. Good(r)
    BY <2>2, <2>4, <2>5 DEF Good, Sane
  <2>3. QED
    BY <1>1, <1>5, <2>6, SetType DEF BeginStep, late, r
<1>6. CASE Check(t)
  <2> DEFINE r == [thread[t] EXCEPT !.pc = "top", !.step = @ + 1]
  <2>4. r \in Thread /\ r.pc = "top"
    <3>1. thread[t] \in Thread /\ "top" \in Pcs /\ thread[t].step + 1 \in Nat
      BY <1>2, <1>3 DEF Good
    <3>2. QED
      BY <3>1 DEF Thread
  <2>1. Good(r)
    <3> HIDE DEF r
    <3>1. QED
      BY <1>2, <2>4 DEF Good, Sane
  <2>2. CASE End(t, "cancelled")
    BY <1>1, <2>2, PcsNamed, MovesType DEF Moves
  <2>3. QED
    BY <1>1, <1>6, <2>1, <2>2, SetType DEF Check
<1>7. QED
  BY <1>4, <1>5, <1>6

LEMMA ConsultType ==
    ASSUME TypeInv, NEW t \in Threads, Consult(t)
    PROVE  Typed /\ thread' \in [Threads -> Thread] /\ \A u \in Threads : Sane(thread'[u])
<1> DEFINE e == spent.elicits + 1
<1>1. Good(thread[t]) /\ thread[t].pc \in Stepping
  BY StateTypes, PcsNamed DEF Consult, At
<1>2. NoAnswer(t, 1) => /\ e \in Elicits
                        /\ spent' \in [elicits : Elicits, faults : Nat, mishaps : 0..MaxMishaps]
  BY NoAnswerType
<1>3. \A pc \in {"gate", "ask"} : e \in Elicits => Good([thread[t] EXCEPT !.pc = pc, !.eid = e])
  <2>1. {"gate", "ask"} \subseteq Pcs \ {"agentout", "end"}
    BY PcsNamed
  <2> HIDE DEF e
  <2>2. QED
    BY <1>1, <2>1 DEF Good, Sane, Thread
<1>4. CASE \/ row.response = thread[t].step /\ Go(t, "consume") /\ UNCHANGED <<handle, spent>>
           \/ NoAnswer(t, 0) /\ End(t, "failed") /\ UNCHANGED handle
  <2>1. Moves(t)
    BY <1>1, <1>4, PcsNamed DEF Moves, Goes
  <2>2. spent' \in [elicits : Elicits, faults : Nat, mishaps : 0..MaxMishaps]
    BY <1>4, NoAnswerType, StateTypes
  <2>3. QED
    BY <1>4, <2>1, <2>2, MovesType, StateTypes DEF Consult, Others, Typed
<1>5. CASE /\ NoAnswer(t, 1)
           /\ Set(t, [thread[t] EXCEPT !.pc = "gate", !.eid = spent.elicits + 1])
           /\ UNCHANGED handle
  BY <1>2, <1>3, <1>5, SetType, StateTypes DEF Consult, Others, Typed
<1>6. CASE /\ NoAnswer(t, 1) /\ current # 0
           /\ handle' = [handle EXCEPT ![current].slot = spent.elicits + 1]
           /\ Set(t, [thread[t] EXCEPT !.pc = "ask", !.eid = spent.elicits + 1])
  <2>1. handle' \in [Handles -> Handle]
    BY <1>2, <1>6, HandleTypes, StateTypes
  <2>2. QED
    BY <1>2, <1>3, <1>6, <2>1, SetType, StateTypes DEF Consult, Others, Typed
<1>7. QED
  BY <1>4, <1>5, <1>6 DEF Consult

LEMMA AgentOutType ==
    ASSUME TypeInv, NEW t \in Threads, AgentSuspends(t) \/ AgentStops(t)
    PROVE  Typed /\ thread' \in [Threads -> Thread] /\ \A u \in Threads : Sane(thread'[u])
<1>1. PICK o \in {"waiting"} \cup Terminal :
        Set(t, [thread[t] EXCEPT !.pc = "agentout", !.note = o])
  BY DEF AgentSuspends, AgentStops, Terminal
<1> DEFINE r == [thread[t] EXCEPT !.pc = "agentout", !.note = o]
<1>2. Good(thread[t]) /\ thread[t].pc \in Stepping /\ "agentout" \in Pcs
  BY StateTypes, PcsNamed DEF AgentSuspends, AgentStops, At
<1>3. thread[t].step \in Steps
  BY <1>2 DEF Good, Sane
<1>4. r \in Thread /\ r.pc = "agentout" /\ r.step = thread[t].step /\ r.note = o
  BY <1>2 DEF Good, Thread
<1>5. Good(r)
  <2> HIDE DEF r
  <2>1. QED
    BY <1>3, <1>4 DEF Good, Sane, Terminal
<1>6. QED
  BY <1>1, <1>5, AgentTyped, SetType

LEMMA SubmitType ==
    ASSUME TypeInv, NEW t \in Threads, Submit(t)
    PROVE  Typed /\ thread' \in [Threads -> Thread] /\ \A u \in Threads : Sane(thread'[u])
<1> DEFINE o == IF row.status = "waiting" THEN "waiting" ELSE "none"
           r == [thread[t] EXCEPT !.pc = "branch", !.eid = row.pending, !.step = row.step, !.note = o]
<1>1. thread[t] \in Thread /\ row.pending \in Elicits /\ row.step \in Nat /\ "branch" \in Pcs \ Stepping
  BY StateTypes, PcsNamed DEF Good, Row
<1>2. o \in {"none", "waiting"}
  OBVIOUS
<1>3. Set(t, r)
  BY DEF Submit
<1> HIDE DEF o
<1>4. r \in Thread /\ r.pc = "branch"
  BY <1>1, <1>2 DEF Thread
<1> HIDE DEF r
<1>5. Good(r)
  BY <1>1, <1>4 DEF Good, Sane
<1>6. Typed
  BY StateTypes DEF Submit, Others, Registry, Typed
<1>7. QED
  BY <1>3, <1>5, <1>6, SetType

LEMMA ReadType ==
    ASSUME TypeInv, NEW t \in Threads, ResumeRead(t)
    PROVE  Typed /\ thread' \in [Threads -> Thread] /\ \A u \in Threads : Sane(thread'[u])
<1>1. thread[t] \in Thread /\ row.outputs \in SUBSET Steps /\ {"load", "promote"} \subseteq Pcs \ Stepping
  BY StateTypes, PcsNamed DEF Good, Row
<1>2. \A pc \in {"load", "promote"} : Good([thread[t] EXCEPT !.pc = pc, !.done = row.outputs])
  <2> TAKE pc \in {"load", "promote"}
  <2> DEFINE r == [thread[t] EXCEPT !.pc = pc, !.done = row.outputs]
  <2>1. r \in Thread /\ r.pc = pc
    BY <1>1 DEF Thread
  <2> HIDE DEF r
  <2>2. Good(r)
    BY <1>1, <2>1 DEF Good, Sane
  <2>3. QED
    BY <2>2 DEF r
<1>3. Typed
  BY StateTypes DEF ResumeRead, Others, Registry, Typed
<1>4. QED
  BY <1>2, <1>3, IdleType, SetType DEF ResumeRead

\* Steps that leave what a thread executes as it is: they answer it or wake it.
Touched ==
    \A u \in Threads :
        \/ thread'[u] = thread[u]
        \/ \E b \in BOOLEAN : thread'[u] = [thread[u] EXCEPT !.got = b]
        \/ \E b \in BOOLEAN : thread'[u] = [thread[u] EXCEPT !.woken = b]
        \/ thread'[u] = Idle

LEMMA TouchedType ==
    ASSUME TypeInv, Touched, thread' = [u \in Threads |-> thread'[u]]
    PROVE  thread' \in [Threads -> Thread] /\ \A u \in Threads : Sane(thread'[u])
<1>1. ASSUME NEW u \in Threads PROVE Good(thread'[u])
  <2>1. thread[u] \in Thread /\ Sane(thread[u])
    BY StateTypes DEF Good
  <2>2. CASE thread'[u] = thread[u] \/ thread'[u] = Idle
    BY <2>1, <2>2, IdleType DEF Good
  <2>3. ASSUME NEW b \in BOOLEAN, thread'[u] = [thread[u] EXCEPT !.got = b]
        PROVE  Good(thread'[u])
    <3>1. /\ thread'[u] \in Thread /\ thread'[u].pc = thread[u].pc
          /\ thread'[u].step = thread[u].step /\ thread'[u].note = thread[u].note
      BY <2>1, <2>3 DEF Thread
    <3>2. QED
      BY <2>1, <3>1 DEF Good, Sane
  <2>4. ASSUME NEW b \in BOOLEAN, thread'[u] = [thread[u] EXCEPT !.woken = b]
        PROVE  Good(thread'[u])
    <3>1. /\ thread'[u] \in Thread /\ thread'[u].pc = thread[u].pc
          /\ thread'[u].step = thread[u].step /\ thread'[u].note = thread[u].note
      BY <2>1, <2>4 DEF Thread
    <3>2. QED
      BY <2>1, <3>1 DEF Good, Sane
  <2>5. QED
    BY <2>2, <2>3, <2>4 DEF Touched
<1> DEFINE f == thread'
<1> HIDE DEF f
<1>2. f = [u \in Threads |-> f[u]] /\ \A u \in Threads : f[u] \in Thread /\ Sane(f[u])
  BY <1>1 DEF f, Good
<1>3. f \in [Threads -> Thread]
  BY <1>2
<1>4. QED
  BY <1>2, <1>3 DEF f

\* What each of those steps does to the threads.
LEMMA HotTouches ==
    ASSUME TypeInv, NEW t \in Threads, SubmitHot(t)
    PROVE  Touched /\ thread' = [u \in Threads |-> thread'[u]]
<1> DEFINE b(u) == thread[u].got \/ (handle[current].slot = thread[t].eid
                                       /\ thread[u].pc \in {"ask", "parked"}
                                       /\ thread[u].eid = thread[t].eid)
<1>1. thread' = [u \in Threads |-> IF u = t THEN Idle ELSE [thread[u] EXCEPT !.got = b(u)]]
  BY DEF SubmitHot
<1>2. \A u \in Threads : b(u) \in BOOLEAN
  <2>1. \A u \in Threads : thread[u].got \in BOOLEAN
    BY StateTypes DEF Good, Thread
  <2>2. QED
    BY <2>1
<1> HIDE DEF b
<1>3. \A u \in Threads : thread'[u] = Idle \/ thread'[u] = [thread[u] EXCEPT !.got = b(u)]
  BY <1>1
<1>4. QED
  BY <1>1, <1>2, <1>3, Zenon DEF Touched

LEMMA SignalTouches ==
    ASSUME TypeInv, Signal
    PROVE  /\ Touched /\ thread' = [u \in Threads |-> thread'[u]]
           /\ handle' \in [Handles -> Handle]
<1>1. CASE current = 0
  <2>1. thread' = thread /\ handle' = handle
    BY <1>1 DEF Signal
  <2>2. thread' = [u \in Threads |-> thread'[u]]
    BY <2>1, StateTypes
  <2>3. QED
    BY <2>1, <2>2, StateTypes DEF Touched
<1>2. CASE current # 0
  <2> DEFINE b(u) == thread[u].woken \/ (thread[u].h = current /\ thread[u].pc \in Dispatching)
  <2>1. thread' = [u \in Threads |-> [thread[u] EXCEPT !.woken = b(u)]]
    BY <1>2 DEF Signal
  <2>2. \A u \in Threads : b(u) \in BOOLEAN
    <3>1. \A u \in Threads : thread[u].woken \in BOOLEAN
      BY StateTypes DEF Good, Thread
    <3>2. QED
      BY <3>1
  <2> HIDE DEF b
  <2>3. \A u \in Threads : thread'[u] = [thread[u] EXCEPT !.woken = b(u)]
    BY <2>1
  <2>4. Touched /\ thread' = [u \in Threads |-> thread'[u]]
    BY <2>1, <2>2, <2>3, Zenon DEF Touched
  <2>5. TRUE \in BOOLEAN /\ current \in Handles
    BY <1>2, StateTypes
  <2>6. handle' = [handle EXCEPT ![current].cancelled = TRUE]
    BY <1>2 DEF Signal
  <2>7. handle' \in [Handles -> Handle]
    BY <2>5, <2>6, HandleTypes
  <2>8. QED
    BY <2>4, <2>7
<1>3. QED
  BY <1>1, <1>2

LEMMA HotType ==
    ASSUME TypeInv, NEW t \in Threads, SubmitHot(t) PROVE TypeInv'
<1>1. 0 \in Elicits
  BY BoundsAssumption DEF Elicits
<1>2. handle' \in [Handles -> Handle]
  <2>1. current \in Handles
    BY StateTypes DEF SubmitHot, Resident
  <2>2. [handle EXCEPT ![current].slot = 0] \in [Handles -> Handle]
    BY <1>1, <2>1, HandleTypes
  <2>3. QED
    BY <2>2, StateTypes DEF SubmitHot
<1>3. Typed
  BY <1>2, StateTypes DEF SubmitHot, Others, Typed
<1>4. QED
  BY <1>3, HotTouches, TouchedType, TypedType

LEMMA CancellingType == ASSUME TypeInv, Cancelling PROVE TypeInv'
<1>1. CancelCas => row' \in Row
  <2>1. [row EXCEPT !.status = "cancelled"] \in Row /\ row \in Row
    BY RowTypes, StateTypes DEF Statuses, Terminal
  <2>2. QED
    BY <2>1 DEF CancelCas, Write
<1>2. CASE CancelRow \/ DropRow
  <2>1. Typed
    BY <1>1, <1>2, StateTypes DEF CancelRow, DropRow, Rest, Typed
  <2>2. thread' = thread
    BY <1>2 DEF CancelRow, DropRow
  <2>3. thread' \in [Threads -> Thread] /\ \A u \in Threads : Sane(thread'[u])
    BY <2>2, StateTypes DEF Good
  <2>4. QED
    BY <2>1, <2>3, TypedType
<1>3. CASE CancelSignal \/ DropSignal
  <2>1. Touched /\ thread' = [u \in Threads |-> thread'[u]] /\ handle' \in [Handles -> Handle]
    BY <1>3, SignalTouches DEF CancelSignal, DropSignal
  <2>2. Typed
    BY <1>3, <2>1, StateTypes DEF CancelSignal, DropSignal, Rest, Typed
  <2>3. QED
    BY <2>1, <2>2, TouchedType, TypedType
<1>4. QED
  BY <1>2, <1>3 DEF Cancelling

LEMMA CrashType == ASSUME TypeInv, Crash PROVE TypeInv'
<1>1. Touched /\ thread' = [u \in Threads |-> thread'[u]]
  <2>1. thread' = [u \in Threads |-> Idle]
    BY DEF Crash
  <2>2. \A u \in Threads : thread'[u] = Idle
    BY <2>1
  <2>3. QED
    BY <2>1, <2>2, Zenon DEF Touched
<1>2. handle' \in [Handles -> Handle]
  <2>1. NewHandle \in Handle
    BY BoundsAssumption DEF NewHandle, Handle, Elicits
  <2>2. QED
    BY <2>1 DEF Crash
<1>3. row' \in Row
  BY RowTypes DEF Crash
<1>4. spent' \in [elicits : Elicits, faults : Nat, mishaps : 0..MaxMishaps]
  BY MishapType DEF Crash
<1>5. Typed
  BY <1>2, <1>3, <1>4, StateTypes DEF Crash, Typed
<1>6. QED
  BY <1>1, <1>5, TouchedType, TypedType

LEMMA RestType ==
    ASSUME TypeInv, Delete \/ Subscribe \/ Reap PROVE TypeInv'
<1>1. CASE Delete
  BY <1>1, RowTypes, StateTypes, TypedType DEF Delete, DeleteRun, DeleteWorkflow, Deleted, Rest, Typed, Good
<1>2. CASE Subscribe
  <2>1. PICK h \in Handles : GetOrCreate(h) /\ handle' = [handle EXCEPT ![h].kept = TRUE]
    BY <1>2 DEF Subscribe
  <2>2. TRUE \in BOOLEAN
    OBVIOUS
  <2>3. current' \in Handles /\ handle' \in [Handles -> Handle]
    BY <2>1, <2>2, HandleTypes DEF GetOrCreate
  <2>4. QED
    BY <1>2, <2>3, StateTypes, TypedType DEF Subscribe, Others, Typed, Good
<1>3. CASE Reap
  <2>1. handle' \in [Handles -> Handle] /\ raced' \in BOOLEAN
    <3>1. handle[current].runner \in BOOLEAN
      BY <1>3, StateTypes DEF Reap, Handle
    <3>2. QED
      BY <1>3, <3>1, KeptType, StateTypes DEF Reap
  <2>2. spent' \in [elicits : Elicits, faults : Nat, mishaps : 0..MaxMishaps]
    BY <1>3, MishapType DEF Reap
  <2>3. QED
    BY <1>3, <2>1, <2>2, StateTypes, TypedType DEF Reap, Typed, Good
<1>4. QED
  BY <1>1, <1>2, <1>3

LEMMA SweepingType == ASSUME TypeInv, Sweeping PROVE TypeInv'
<1>1. /\ [row EXCEPT !.status = "resumable"] \in Row
      /\ [row EXCEPT !.status = "failed"] \in Row /\ row \in Row
  BY RowTypes, StateTypes DEF Statuses, Terminal
<1>2. CASE SweepSpare \/ SweepFail
  BY <1>1, <1>2, StateTypes, TypedType DEF SweepSpare, SweepFail, Sweep, Typed, Good
<1>3. CASE SweepDies
  BY <1>3, MishapType, StateTypes, TypedType DEF SweepDies, Fault, Sweep, Typed, Good
<1>4. CASE SweepRedrive
  <2>1. Typed
    BY <1>4, StateTypes DEF SweepRedrive, Sweep, Typed
  <2>2. CASE row.status = "resumable"
    <3>1. PICK t \in Threads : At(t, "idle") /\ Go(t, "recheck")
      BY <1>4, <2>2 DEF SweepRedrive
    <3>2. Moves(t)
      BY <3>1, PcsNamed DEF Moves, Goes, At
    <3>3. QED
      BY <2>1, <3>2, MovesType, TypedType
  <2>3. CASE row.status # "resumable"
    BY <1>4, <2>1, <2>3, StateTypes, TypedType DEF SweepRedrive, Good
  <2>4. QED
    BY <2>2, <2>3
<1>5. QED
  BY <1>2, <1>3, <1>4 DEF Sweeping

\* Every step of a thread is one of those above.
LEMMA StepKinds ==
    ASSUME NEW t \in Threads, Spawn(t) \/ Submit(t) \/ Step(t)
    PROVE  \/ LoopMoves(t) \/ SkipStep(t) \/ BeginStep(t) \/ Check(t)
           \/ ElicitMoves(t) \/ Consult(t)
           \/ AgentMoves(t) \/ AgentSuspends(t) \/ AgentStops(t)
           \/ HandlerMoves(t) \/ Submit(t) \/ SubmitHot(t) \/ ResumeRead(t) \/ Enter(t)
BY DEF Step, Loop, Elicit, Agent, Handler, LoopMoves, ElicitMoves, AgentMoves, HandlerMoves

LEMMA TypeStep == ASSUME TypeInv, [Next]_vars PROVE TypeInv'
<1>1. ASSUME NEW t \in Threads, Spawn(t) \/ Submit(t) \/ Step(t) PROVE TypeInv'
  <2>1. CASE LoopMoves(t)
    BY <2>1, LoopMove, LoopTyped, MovesType, TypedType
  <2>2. CASE ElicitMoves(t)
    BY <2>2, ElicitMove, ElicitTyped, MovesType, TypedType
  <2>3. CASE AgentMoves(t)
    BY <2>3, AgentMove, AgentTyped, MovesType, TypedType
  <2>4. CASE HandlerMoves(t)
    BY <2>4, HandlerMove, HandlerTyped, MovesType, TypedType
  <2>5. CASE SkipStep(t) \/ BeginStep(t) \/ Check(t)
    BY <2>5, StepType, TypedType
  <2>6. CASE Consult(t)
    BY <2>6, ConsultType, TypedType
  <2>7. CASE AgentSuspends(t) \/ AgentStops(t)
    BY <2>7, AgentOutType, TypedType
  <2>8. CASE Submit(t) \/ ResumeRead(t) \/ Enter(t)
    BY <2>8, SubmitType, ReadType, EnterType, TypedType
  <2>9. CASE SubmitHot(t)
    BY <2>9, HotType
  <2>10. QED
    BY <1>1, <2>1, <2>2, <2>3, <2>4, <2>5, <2>6, <2>7, <2>8, <2>9, StepKinds
<1>2. CASE UNCHANGED vars
  BY <1>2, StateTypes, TypedType DEF vars, Typed, Good
<1>3. QED
  BY <1>1, <1>2, CancellingType, CrashType, RestType, SweepingType DEF Next

\* Whatever the workflow and whatever fails, every variable keeps its type: a
\* runner works on a step of its plan and writes only statuses of the column.
THEOREM WorkflowType == Spec => []TypeOK
<1>1. TypeInv => TypeOK
  BY DEF TypeInv
<1>2. QED
  BY <1>1, TypeInit, TypeStep, PTL DEF Spec

\* The same for the stronger invariant, which the other theorems start from.
LEMMA WorkflowTyped == Spec => []TypeInv
BY TypeInit, TypeStep, PTL DEF Spec

-----------------------------------------------------------------------------
(* The status of the row *)

\* A step that leaves the status as it is, or that writes it where it may.
Respects ==
    row.status \in Terminal \cup {"deleted"} => row'.status = row.status \/ row'.status = "deleted"

SameStatus == row'.status = row.status /\ row'.old = row.old

LEMMA WriteRespects ==
    ASSUME TypeInv, NEW r \in Row, r.status = row.status, r.old = row.old, Write(r) PROVE SameStatus
BY DEF Write, SameStatus

LEMMA MarkRespects ==
    ASSUME TypeInv, NEW s \in Statuses, MarkStatus(s)
    PROVE  /\ Respects /\ row'.old = row.old
           /\ row'.status = row.status \/ row'.status = s
<1>1. row \in Row
  BY StateTypes
<1>2. row' = row \/ row' = [row EXCEPT !.status = s]
  BY DEF MarkStatus, Write
<1>3. row.status \in Terminal \cup {"deleted"} => row' = row
  BY DEF MarkStatus, Write
<1>4. QED
  BY <1>1, <1>2, <1>3 DEF Respects, Row

\* The steps that write the row without its status, and how.
LEMMA RowWrites ==
    ASSUME TypeInv, NEW t \in Threads,
           \/ LoopMoves(t) /\ ~MarkEnd(t)
           \/ SkipStep(t) \/ BeginStep(t) \/ Check(t) \/ Consult(t) \/ Submit(t)
           \/ ElicitMoves(t) /\ ~ConsumeStatus(t) /\ ~Suspend(t)
           \/ AgentMoves(t) \/ AgentStops(t)
           \/ SubmitHot(t) \/ SubmitCold(t) \/ StoreResponse(t) \/ ResumeCheck(t)
           \/ Register(t) \/ HandlerFails(t) \/ ResumeRead(t)
    PROVE  \/ row' = row
           \/ Save(t) /\ \E o \in SUBSET Steps : Write([row EXCEPT !.outputs = o])
           \/ \E e \in Elicits, n \in Nat : Write([row EXCEPT !.pending = e, !.step = n])
           \/ \E n \in Nat : Write([row EXCEPT !.response = n])
           \/ \E b \in BOOLEAN : Write([row EXCEPT !.agent = b])
<1>1. /\ 0 \in Elicits /\ 0 \in Nat
      /\ \A u \in Threads : thread[u].step \in Nat /\ thread[u].eid \in Elicits
  <2>1. 0 \in Elicits /\ 0 \in Nat
    BY BoundsAssumption DEF Elicits
  <2>2. \A u \in Threads : thread[u] \in Thread
    BY StateTypes DEF Good
  <2>3. QED
    BY <2>1, <2>2 DEF Thread
<1>2. CASE LoopMoves(t) /\ ~MarkEnd(t)
  <2>1. CASE Save(t)
    <3>1. thread[t].step \in Steps /\ row.outputs \in SUBSET Steps
      BY <2>1, StateTypes, PcsNamed DEF Save, At, Good, Sane, Row
    <3>2. row.outputs \cup {thread[t].step} \in SUBSET Steps
      BY <3>1
    <3>3. row' = row \/ Write([row EXCEPT !.outputs = row.outputs \cup {thread[t].step}])
      BY <2>1 DEF Save, Lossy
    <3>4. QED
      BY <2>1, <3>2, <3>3
  <2>2. CASE ~Save(t)
    BY <1>2, <2>2 DEF LoopMoves, SeeCancel, Arm, Preempt, Deadline, Work, Finish, Leave, Park, Others
  <2>3. QED
    BY <2>1, <2>2
<1>3. CASE SkipStep(t) \/ BeginStep(t) \/ Check(t) \/ Consult(t) \/ Submit(t)
  BY <1>3 DEF SkipStep, BeginStep, Check, Consult, Submit
<1>4. CASE ElicitMoves(t) /\ ~ConsumeStatus(t) /\ ~Suspend(t)
  <2>1. CASE ConsumeResponse(t)
    BY <1>1, <2>1 DEF ConsumeResponse, Lossy
  <2>2. CASE Answer(t) \/ AskGivenUp(t)
    BY <1>1, <2>2 DEF Answer, AskGivenUp, Lossy, NoQuestion
  <2>3. CASE PersistGate(t) \/ PersistAsk(t)
    BY <1>1, <2>3 DEF PersistGate, PersistAsk, PersistPending
  <2>4. CASE AskAnswered(t)
    BY <2>4 DEF AskAnswered
  <2>5. QED
    BY <1>4, <2>1, <2>2, <2>3, <2>4 DEF ElicitMoves
<1>5. CASE AgentMoves(t) \/ AgentStops(t)
  <2>1. TRUE \in BOOLEAN /\ FALSE \in BOOLEAN
    OBVIOUS
  <2>2. CASE AgentEnter(t)
    BY <2>1, <2>2, Zenon DEF AgentEnter, Lossy
  <2>3. CASE AgentLeave(t)
    BY <2>1, <2>3, Zenon DEF AgentLeave, Lossy
  <2>4. CASE AgentAsks(t)
    BY <1>1, <2>4, ElicitType DEF AgentAsks
  <2>5. CASE AgentStops(t)
    BY <2>5 DEF AgentStops
  <2>6. QED
    BY <1>5, <2>2, <2>3, <2>4, <2>5 DEF AgentMoves
<1>6. CASE \/ SubmitHot(t) \/ SubmitCold(t) \/ ResumeCheck(t) \/ Register(t)
           \/ HandlerFails(t) \/ ResumeRead(t)
  BY <1>6 DEF SubmitHot, SubmitCold, ResumeCheck, Register, HandlerFails, ResumeRead
<1>7. CASE StoreResponse(t)
  BY <1>1, <1>7 DEF StoreResponse
<1>8. QED
  BY <1>2, <1>3, <1>4, <1>5, <1>6, <1>7

LEMMA StatusIsKept ==
    ASSUME TypeInv, NEW t \in Threads,
           \/ LoopMoves(t) /\ ~MarkEnd(t)
           \/ SkipStep(t) \/ BeginStep(t) \/ Check(t) \/ Consult(t) \/ Submit(t)
           \/ ElicitMoves(t) /\ ~ConsumeStatus(t) /\ ~Suspend(t)
           \/ AgentMoves(t) \/ AgentStops(t)
           \/ SubmitHot(t) \/ SubmitCold(t) \/ StoreResponse(t) \/ ResumeCheck(t)
           \/ Register(t) \/ HandlerFails(t) \/ ResumeRead(t)
    PROVE  SameStatus
<1>1. row \in Row
  BY StateTypes
<1>2. \/ row' = row
      \/ \E o \in SUBSET Steps : Write([row EXCEPT !.outputs = o])
      \/ \E e \in Elicits, n \in Nat : Write([row EXCEPT !.pending = e, !.step = n])
      \/ \E n \in Nat : Write([row EXCEPT !.response = n])
      \/ \E b \in BOOLEAN : Write([row EXCEPT !.agent = b])
  BY RowWrites
<1>3. CASE row' = row
  BY <1>3 DEF SameStatus
<1>4. ASSUME NEW o \in SUBSET Steps, Write([row EXCEPT !.outputs = o]) PROVE SameStatus
  BY <1>1, <1>4 DEF Write, SameStatus, Row
<1>5. ASSUME NEW e \in Elicits, NEW n \in Nat, Write([row EXCEPT !.pending = e, !.step = n])
      PROVE  SameStatus
  BY <1>1, <1>5 DEF Write, SameStatus, Row
<1>6. ASSUME NEW n \in Nat, Write([row EXCEPT !.response = n]) PROVE SameStatus
  BY <1>1, <1>6 DEF Write, SameStatus, Row
<1>7. ASSUME NEW b \in BOOLEAN, Write([row EXCEPT !.agent = b]) PROVE SameStatus
  BY <1>1, <1>7 DEF Write, SameStatus, Row
<1>8. QED
  BY <1>2, <1>3, <1>4, <1>5, <1>6, <1>7

\* The status each of the other steps writes.
LEMMA StatusWritten ==
    ASSUME TypeInv, NEW t \in Threads,
           \/ Spawn(t) \/ MarkEnd(t) \/ ConsumeStatus(t) \/ Suspend(t)
           \/ AgentSuspends(t) \/ ResumePromote(t) \/ Enter(t)
    PROVE  Respects /\ row'.old = row.old
<1>1. row \in Row /\ {"running", "waiting"} \subseteq Statuses \ {"none", "pending"}
  BY StateTypes DEF Statuses
<1>2. CASE Spawn(t)
  BY <1>1, <1>2 DEF Spawn, Respects, Terminal, Row
<1>3. CASE MarkEnd(t)
  <2>1. thread[t].note \in Statuses
    BY <1>3, StateTypes DEF MarkEnd, At, Good, Sane, Statuses
  <2>2. QED
    BY <1>3, <2>1, MarkRespects DEF MarkEnd, Lossy, Respects
<1>4. CASE ConsumeStatus(t) \/ Suspend(t) \/ AgentSuspends(t) \/ ResumePromote(t)
  BY <1>1, <1>4, MarkRespects
     DEF ConsumeStatus, Suspend, AgentSuspends, ResumePromote, Lossy, Respects
<1>5. CASE Enter(t)
  BY <1>1, <1>5 DEF Enter, Write, Lossy, Respects, Row, Terminal
<1>6. QED
  BY <1>2, <1>3, <1>4, <1>5

LEMMA StepRespects == ASSUME TypeInv, [Next]_vars PROVE Respects
<1>1. ASSUME NEW t \in Threads, Spawn(t) \/ Submit(t) \/ Step(t) PROVE Respects
  <2>1. SameStatus => Respects
    BY DEF SameStatus, Respects
  <2>2. QED
    BY <1>1, <2>1, StepKinds, StatusIsKept, StatusWritten
       DEF LoopMoves, ElicitMoves, AgentMoves, HandlerMoves
<1>2. CASE Cancelling
  BY <1>2, StateTypes
     DEF Cancelling, CancelRow, CancelSignal, DropSignal, DropRow, CancelCas, Write, Respects, Row, Terminal
<1>3. CASE Delete \/ Subscribe \/ Reap \/ UNCHANGED vars
  BY <1>3, StateTypes DEF Delete, DeleteRun, DeleteWorkflow, Deleted, Subscribe, Reap, vars, Respects, NoRow, Row
<1>4. CASE Crash
  BY <1>4, StateTypes DEF Crash, Respects, Row
<1>5. CASE Sweeping
  BY <1>5, StateTypes
     DEF Sweeping, SweepSpare, SweepFail, SweepRedrive, SweepDies, Sweep, Respects, Row, Terminal
<1>6. QED
  BY <1>1, <1>2, <1>3, <1>4, <1>5 DEF Next

\* A terminal status is final: however runner, answer, cancel, resume and sweep
\* interleave, the guard of mark_status and of the two compare-and-set updates
\* keeps it, and only delete_run ends it.
THEOREM WorkflowTerminalIsFinal == Spec => TerminalIsFinal
<1>1. TypeInv /\ [Next]_vars =>
          [row.status \in Terminal \cup {"deleted"} =>
              row'.status = row.status \/ row'.status = "deleted"]_vars
  BY StepRespects DEF Respects
<1>2. QED
  BY <1>1, WorkflowTyped, PTL DEF Spec, TerminalIsFinal

-----------------------------------------------------------------------------
(* A cancel is seen between the steps *)

\* A runner that began a step of a cancelled run is still at it.
LateInv ==
    \A t \in Threads :
        thread[t].late => thread[t].pc \in Running /\ row.status \in {"cancelled", "deleted"}

CancelInv == TypeInv /\ LateInv /\ CancelIsSeen

\* What a step does to `late' of the thread that takes it, which is at "inserted"
\* only once it has made the row.
LateStep(t) ==
    /\ thread'[t].pc = "inserted" => row.status = "none"
    /\ \/ ~thread'[t].late
       \/ /\ thread'[t].late = thread[t].late
          /\ thread[t].pc \in Running => thread'[t].pc \in Running
          /\ thread'[t].pc = "top" =>
               \/ thread[t].pc = "top" /\ UNCHANGED spent
               \/ row.status = "cancelled" => spent'.faults > 0
               \/ thread[t].pc \notin Running
       \/ BeginStep(t) /\ thread'[t].late = (row.status = "cancelled") /\ thread'[t].pc = "arming"

LEMMA FaultCounts == ASSUME TypeInv, Fault PROVE spent'.faults > 0
BY StateTypes DEF Fault, Mishap

LEMMA FaultsGrow == ASSUME TypeInv, [Next]_vars PROVE spent'.faults >= spent.faults
<1>1. spent.faults \in Nat
  BY StateTypes
<1>2. \/ spent' = spent \/ (\E n \in 0..1 : Mishap(n)) \/ NextElicit
      \/ \E t \in Threads, n \in 0..1 : NoAnswer(t, n)
  <2>1. 0 \in 0..1 /\ 1 \in 0..1
    OBVIOUS
  <2>2. ASSUME NEW t \in Threads, Spawn(t) \/ Submit(t) \/ Step(t)
        PROVE  spent' = spent \/ Fault \/ NextElicit \/ (\E n \in 0..1 : NoAnswer(t, n))
    <3>1. Loop(t) => spent' = spent \/ Fault
      BY DEF Loop, SkipStep, BeginStep, SeeCancel, Arm, Preempt, Deadline, Work, Save, Check,
             Finish, MarkEnd, Leave, Park, Lossy
    <3>2. Elicit(t) => spent' = spent \/ Fault \/ NoAnswer(t, 0) \/ NoAnswer(t, 1)
      BY DEF Elicit, Consult, ConsumeStatus, ConsumeResponse, Answer, PersistGate, Suspend,
             PersistAsk, AskAnswered, AskGivenUp, Lossy
    <3>3. Agent(t) => spent' = spent \/ Fault \/ NextElicit
      BY DEF Agent, AgentEnter, AgentAsks, AgentSuspends, AgentStops, AgentLeave, Lossy
    <3>4. Handler(t) \/ Spawn(t) \/ Submit(t) => spent' = spent \/ Fault
      BY DEF Handler, SubmitHot, SubmitCold, StoreResponse, ResumeCheck, ResumeRead, ResumePromote,
             Register, HandlerFails, Enter, Spawn, Submit, Lossy
    <3>5. QED
      BY <2>1, <2>2, <3>1, <3>2, <3>3, <3>4 DEF Step
  <2>3. Cancelling \/ Delete \/ Subscribe \/ UNCHANGED vars => spent' = spent
    BY DEF Cancelling, CancelRow, CancelSignal, DropSignal, DropRow, Rest, Delete, DeleteRun, DeleteWorkflow, Deleted, Subscribe, vars
  <2>4. Reap \/ Crash => Mishap(0)
    BY DEF Reap, Crash
  <2>5. Sweeping => spent' = spent \/ Fault
    BY DEF Sweeping, SweepSpare, SweepFail, SweepRedrive, SweepDies
  <2>6. QED
    BY <2>1, <2>2, <2>3, <2>4, <2>5 DEF Next, Fault
<1>3. spent' = spent => spent'.faults >= spent.faults
  BY <1>1
<1>4. ASSUME NEW n \in 0..1, Mishap(n) PROVE spent'.faults >= spent.faults
  BY <1>1, <1>4, StateTypes DEF Mishap
<1>5. NextElicit => spent'.faults >= spent.faults
  BY <1>1, StateTypes DEF NextElicit
<1>6. (\E t \in Threads, n \in 0..1 : NoAnswer(t, n)) => spent'.faults >= spent.faults
  BY NoAnswerType
<1>7. QED
  BY <1>2, <1>3, <1>4, <1>5, <1>6

LEMMA MovesLate == ASSUME TypeInv, NEW t \in Threads, Moves(t) PROVE LateStep(t)
<1>1. thread[t] \in Thread
  BY StateTypes DEF Good
<1>2. CASE Set(t, Idle)
  BY <1>2, SetIs DEF LateStep, Idle
<1>3. ASSUME NEW pc \in Pcs, Goes(t, pc) PROVE LateStep(t)
  <2>1. thread'[t] = [thread[t] EXCEPT !.pc = pc]
    BY <1>3, SetIs DEF Goes, Go
  <2>2. thread'[t].pc = pc /\ thread'[t].late = thread[t].late
    BY <1>1, <2>1 DEF Thread
  <2>3. QED
    BY <1>3, <2>2 DEF Goes, LateStep
<1>4. ASSUME NEW o \in Terminal, End(t, o) PROVE LateStep(t)
  <2>1. thread'[t] = [Idle EXCEPT !.pc = "end", !.note = o, !.h = thread[t].h]
    BY <1>4, SetIs DEF End
  <2>2. QED
    BY <2>1 DEF Idle, LateStep
<1>5. CASE Completes(t) /\ thread[t].pc \in Stepping
  <2>1. thread'[t] = [thread[t] EXCEPT !.pc = "save", !.eid = 0, !.got = FALSE,
                                      !.done = @ \cup {thread[t].step}]
    BY <1>5, SetIs DEF Completes
  <2>2. thread'[t].pc = "save" /\ thread'[t].late = thread[t].late /\ "save" \in Running
    BY <1>1, <2>1, PcsNamed DEF Thread
  <2>3. QED
    BY <2>2 DEF LateStep
<1>6. QED
  BY <1>2, <1>3, <1>4, <1>5 DEF Moves

LEMMA ThreadLate ==
    ASSUME TypeInv, NEW t \in Threads, Spawn(t) \/ Submit(t) \/ Step(t), ~SubmitHot(t)
    PROVE  LateStep(t) /\ \A u \in Threads \ {t} : thread'[u] = thread[u]
<1>1. thread[t] \in Thread /\ {"top", "arming", "check", "ask", "gate", "agentout"} \subseteq Running
  BY StateTypes, PcsNamed DEF Good
<1>2. CASE Moves(t)
  BY <1>2, MovesLate, SetIs DEF Moves, Goes, Go, End, Completes
<1>3. CASE SkipStep(t)
  <2>1. thread'[t] = [thread[t] EXCEPT !.step = @ + 1] /\ \A u \in Threads \ {t} : thread'[u] = thread[u]
    BY <1>3, SetIs DEF SkipStep
  <2>2. thread'[t].pc = thread[t].pc /\ thread'[t].late = thread[t].late
    BY <1>1, <2>1 DEF Thread
  <2>3. QED
    BY <1>3, <2>1, <2>2 DEF SkipStep, At, LateStep
<1>4. CASE BeginStep(t)
  <2>1. /\ thread'[t] = [thread[t] EXCEPT !.pc = "arming", !.woken = FALSE, !.late = row.status = "cancelled"]
        /\ \A u \in Threads \ {t} : thread'[u] = thread[u]
    BY <1>4, SetIs DEF BeginStep
  <2>2. thread'[t].pc = "arming" /\ thread'[t].late = (row.status = "cancelled")
    BY <1>1, <2>1 DEF Thread
  <2>3. QED
    BY <1>4, <2>1, <2>2 DEF LateStep
<1>5. CASE Check(t)
  <2>1. CASE End(t, "cancelled")
    BY <1>2, <2>1, PcsNamed DEF Moves
  <2>2. CASE /\ IF row.status = "cancelled" THEN Fault ELSE UNCHANGED spent
             /\ Set(t, [thread[t] EXCEPT !.pc = "top", !.step = @ + 1])
    <3>1. thread'[t] = [thread[t] EXCEPT !.pc = "top", !.step = @ + 1]
          /\ \A u \in Threads \ {t} : thread'[u] = thread[u]
      BY <2>2, SetIs
    <3>2. thread'[t].pc = "top" /\ thread'[t].late = thread[t].late
      BY <1>1, <3>1 DEF Thread
    <3>3. row.status = "cancelled" => spent'.faults > 0
      BY <2>2, FaultCounts
    <3>4. QED
      BY <1>1, <3>1, <3>2, <3>3 DEF LateStep
  <2>3. QED
    BY <1>5, <2>1, <2>2 DEF Check
<1>6. CASE Consult(t)
  <2>1. CASE Go(t, "consume") \/ End(t, "failed")
    BY <1>2, <1>6, <2>1, PcsNamed DEF Consult, Moves, Goes, At
  <2>2. ASSUME NEW pc \in {"gate", "ask"}, Set(t, [thread[t] EXCEPT !.pc = pc, !.eid = spent.elicits + 1])
        PROVE  LateStep(t) /\ \A u \in Threads \ {t} : thread'[u] = thread[u]
    <3>1. /\ thread'[t] = [thread[t] EXCEPT !.pc = pc, !.eid = spent.elicits + 1]
          /\ \A u \in Threads \ {t} : thread'[u] = thread[u]
      BY <2>2, SetIs
    <3>2. thread'[t].pc = pc /\ thread'[t].late = thread[t].late
      BY <1>1, <3>1 DEF Thread
    <3>3. QED
      BY <1>1, <3>1, <3>2 DEF LateStep
  <2>3. QED
    BY <1>6, <2>1, <2>2 DEF Consult
<1>7. CASE AgentSuspends(t) \/ AgentStops(t)
  <2>1. PICK o \in {"waiting"} \cup Terminal :
          Set(t, [thread[t] EXCEPT !.pc = "agentout", !.note = o])
    BY <1>7 DEF AgentSuspends, AgentStops, Terminal
  <2>2. /\ thread'[t] = [thread[t] EXCEPT !.pc = "agentout", !.note = o]
        /\ \A u \in Threads \ {t} : thread'[u] = thread[u]
    BY <2>1, SetIs
  <2>3. thread'[t].pc = "agentout" /\ thread'[t].late = thread[t].late
    BY <1>1, <2>2 DEF Thread
  <2>4. QED
    BY <1>1, <2>2, <2>3 DEF LateStep
<1>8. CASE Submit(t)
  <2>1. PICK n : Set(t, [thread[t] EXCEPT !.pc = "branch", !.eid = row.pending, !.step = row.step, !.note = n])
    BY <1>8 DEF Submit
  <2>2. /\ thread'[t] = [thread[t] EXCEPT !.pc = "branch", !.eid = row.pending, !.step = row.step, !.note = n]
        /\ \A u \in Threads \ {t} : thread'[u] = thread[u]
    BY <2>1, SetIs
  <2>3. thread'[t].pc = "branch" /\ thread'[t].late = thread[t].late /\ thread[t].pc \notin Running
    BY <1>1, <1>8, <2>2, PcsNamed DEF Thread, Submit, At
  <2>4. QED
    BY <2>2, <2>3 DEF LateStep
<1>9. CASE ResumeRead(t)
  <2>1. CASE Set(t, Idle)
    BY <1>2, <2>1 DEF Moves
  <2>2. ASSUME NEW pc \in {"load", "promote"}, Set(t, [thread[t] EXCEPT !.pc = pc, !.done = row.outputs])
        PROVE  LateStep(t) /\ \A u \in Threads \ {t} : thread'[u] = thread[u]
    <3>1. /\ thread'[t] = [thread[t] EXCEPT !.pc = pc, !.done = row.outputs]
          /\ \A u \in Threads \ {t} : thread'[u] = thread[u]
      BY <2>2, SetIs
    <3>2. thread'[t].pc = pc /\ thread'[t].late = thread[t].late /\ thread[t].pc \notin Running
      BY <1>1, <1>9, <3>1, PcsNamed DEF Thread, ResumeRead, At
    <3>3. QED
      BY <3>1, <3>2 DEF LateStep
  <2>3. QED
    BY <1>9, <2>1, <2>2 DEF ResumeRead
<1>10. CASE Enter(t)
  <2>1. PICK h \in Handles :
          Set(t, [thread[t] EXCEPT !.pc = "top", !.step = 1, !.h = h, !.note = "none", !.eid = 0])
    BY <1>10 DEF Enter
  <2>2. /\ thread'[t] = [thread[t] EXCEPT !.pc = "top", !.step = 1, !.h = h, !.note = "none", !.eid = 0]
        /\ \A u \in Threads \ {t} : thread'[u] = thread[u]
    BY <2>1, SetIs
  <2>3. thread'[t].pc = "top" /\ thread'[t].late = thread[t].late /\ thread[t].pc \notin Running
    BY <1>1, <1>10, <2>2, PcsNamed DEF Thread, Enter, At
  <2>4. QED
    BY <2>2, <2>3 DEF LateStep
<1>11. QED
  BY <1>2, <1>3, <1>4, <1>5, <1>6, <1>7, <1>8, <1>9, <1>10,
     StepKinds, LoopMove, ElicitMove, AgentMove, HandlerMove

LEMMA TouchedLate ==
    ASSUME TypeInv, Touched, NEW u \in Threads
    PROVE  ~thread'[u].late \/ (thread'[u].late = thread[u].late /\ thread'[u].pc = thread[u].pc)
<1>1. thread[u] \in Thread
  BY StateTypes DEF Good
<1>2. CASE thread'[u] = thread[u] \/ thread'[u] = Idle
  BY <1>2 DEF Idle
<1>3. ASSUME NEW b \in BOOLEAN, thread'[u] = [thread[u] EXCEPT !.got = b]
      PROVE  thread'[u].late = thread[u].late /\ thread'[u].pc = thread[u].pc
  BY <1>1, <1>3 DEF Thread
<1>4. ASSUME NEW b \in BOOLEAN, thread'[u] = [thread[u] EXCEPT !.woken = b]
      PROVE  thread'[u].late = thread[u].late /\ thread'[u].pc = thread[u].pc
  BY <1>1, <1>4 DEF Thread
<1>5. QED
  BY <1>2, <1>3, <1>4 DEF Touched

\* Nothing but a thread's own step moves it, except to end it.
LEMMA RestTouches ==
    ASSUME TypeInv, \/ \E t \in Threads : SubmitHot(t)
                    \/ Cancelling \/ Delete \/ Subscribe \/ Reap \/ Crash \/ UNCHANGED vars
                    \/ SweepSpare \/ SweepFail \/ SweepDies
                    \/ SweepRedrive /\ row.status # "resumable"
    PROVE  Touched
<1>1. thread' = thread => Touched
  BY DEF Touched
<1>2. CASE \E t \in Threads : SubmitHot(t)
  BY <1>2, HotTouches
<1>3. CASE Cancelling
  BY <1>1, <1>3, SignalTouches DEF Cancelling, CancelRow, DropRow, CancelSignal, DropSignal
<1>4. CASE Delete \/ Subscribe \/ Reap \/ UNCHANGED vars \/ SweepSpare \/ SweepFail \/ SweepDies
  BY <1>1, <1>4 DEF Delete, DeleteRun, DeleteWorkflow, Deleted, Subscribe, Reap, vars, SweepSpare, SweepFail, SweepDies
<1>5. CASE SweepRedrive /\ row.status # "resumable"
  BY <1>1, <1>5 DEF SweepRedrive
<1>6. CASE Crash
  <2>1. \A u \in Threads : thread'[u] = Idle
    BY <1>6 DEF Crash
  <2>2. QED
    BY <2>1, Zenon DEF Touched
<1>7. QED
  BY <1>2, <1>3, <1>4, <1>5, <1>6

LEMMA CancelStep == ASSUME CancelInv, [Next]_vars PROVE CancelInv'
<1>1. TypeInv /\ TypeInv' /\ LateInv /\ CancelIsSeen
  BY TypeStep DEF CancelInv
<1>2. Respects /\ spent'.faults >= spent.faults /\ spent'.faults \in Nat /\ spent.faults \in Nat
  BY <1>1, StepRespects, FaultsGrow, StateTypes DEF TypeInv, TypeOK
<1>3. \A u \in Threads : LateStep(u) \/ ~thread'[u].late
                          \/ (thread'[u].late = thread[u].late /\ thread'[u].pc = thread[u].pc)
  <2>2. CASE Touched
    BY <1>1, <2>2, TouchedLate
  <2>3. CASE SweepRedrive /\ row.status = "resumable"
    <3>1. PICK t \in Threads : At(t, "idle") /\ Go(t, "recheck")
      BY <2>3 DEF SweepRedrive
    <3>2. Moves(t)
      BY <3>1, PcsNamed DEF Moves, Goes, At
    <3>3. LateStep(t) /\ \A u \in Threads \ {t} : thread'[u] = thread[u]
      BY <1>1, <3>1, <3>2, MovesLate, SetIs DEF Go
    <3>4. QED
      BY <3>3
  <2>4. ASSUME NEW t \in Threads, Spawn(t) \/ Submit(t) \/ Step(t), ~SubmitHot(t), NEW u \in Threads
        PROVE  \/ LateStep(u) \/ ~thread'[u].late
               \/ (thread'[u].late = thread[u].late /\ thread'[u].pc = thread[u].pc)
    BY <1>1, <2>4, ThreadLate
  <2>5. \/ Touched \/ (SweepRedrive /\ row.status = "resumable")
        \/ \E t \in Threads : (Spawn(t) \/ Submit(t) \/ Step(t)) /\ ~SubmitHot(t)
    BY <1>1, RestTouches DEF Next, Sweeping
  <2>6. QED
    BY <2>2, <2>3, <2>4, <2>5
<1>4. LateInv'
  <2> SUFFICES ASSUME NEW u \in Threads, thread'[u].late
               PROVE  thread'[u].pc \in Running /\ row'.status \in {"cancelled", "deleted"}
    BY DEF LateInv, Running, Dispatching
  <2>1. thread[u].late => thread[u].pc \in Running /\ row.status \in {"cancelled", "deleted"}
    BY <1>1 DEF LateInv
  <2>2. row.status \in {"cancelled", "deleted"} => row'.status \in {"cancelled", "deleted"}
    BY <1>2 DEF Respects, Terminal
  <2>3. "arming" \in Running
    BY PcsNamed
  <2>4. CASE thread'[u].late = thread[u].late /\ thread'[u].pc = thread[u].pc
    BY <2>1, <2>2, <2>4
  <2>5. CASE LateStep(u)
    <3>1. BeginStep(u) => SameStatus
      BY <1>1, StatusIsKept
    <3>2. QED
      BY <2>1, <2>2, <2>3, <2>5, <3>1 DEF LateStep, SameStatus
  <2>6. QED
    BY <1>3, <2>4, <2>5
<1>5. CancelIsSeen'
  <2> SUFFICES ASSUME NEW u \in Threads, thread'[u].pc = "top", thread'[u].late, row'.status = "cancelled"
               PROVE  spent'.faults > 0
    BY DEF CancelIsSeen, At
  <2>1. thread[u].late => thread[u].pc \in Running /\ row.status \in {"cancelled", "deleted"}
    BY <1>1 DEF LateInv
  <2>2. thread[u].late => row.status = "cancelled"
    BY <1>2, <2>1 DEF Respects
  <2>3. thread[u].late /\ thread[u].pc = "top" => spent.faults > 0
    BY <1>1, <2>2 DEF CancelIsSeen, At
  <2>4. thread[u].late /\ thread[u].pc = "top" => spent'.faults > 0
    BY <1>2, <2>3
  <2>5. CASE thread'[u].late = thread[u].late /\ thread'[u].pc = thread[u].pc
    BY <2>4, <2>5
  <2>6. CASE LateStep(u)
    BY <2>1, <2>2, <2>4, <2>6 DEF LateStep
  <2>7. QED
    BY <1>3, <2>5, <2>6
<1>6. QED
  BY <1>1, <1>4, <1>5 DEF CancelInv

LEMMA CancelInit == Init => CancelInv
<1> SUFFICES ASSUME Init PROVE CancelInv
  OBVIOUS
<1>1. \A t \in Threads : ~thread[t].late
  BY DEF Init, Idle
<1>2. QED
  BY <1>1, TypeInit DEF CancelInv, LateInv, CancelIsSeen

\* However a cancel meets the runner, its signal lost or not, the runner that began
\* a step of the cancelled run begins no other: the look at the row between the
\* steps stops it, unless that read fails or the row is gone.
THEOREM WorkflowCancelIsSeen == Spec => []CancelIsSeen
<1>1. CancelInv => CancelIsSeen
  BY DEF CancelInv
<1>2. QED
  BY <1>1, CancelInit, CancelStep, PTL DEF Spec

-----------------------------------------------------------------------------
(* A run that is pending or running has an owner *)

\* Where a thread will still write the status of a run that it starts or executes.
Strong == (Running \ {"park"}) \cup {"end", "inserted", "prepare", "load"}

Owner(t) == thread[t].pc \in Strong /\ ~(thread[t].pc = "agentout" /\ thread[t].note = "waiting")

LiveStatus == {"pending", "running"}

OwnedInv ==
    row.status \in LiveStatus /\ spent.faults = 0 =>
        (\E t \in Threads : Owner(t)) \/ (row.old /\ boot \in {"spare", "fail"})

\* What a step does to the ownership of the thread that takes it.
OwnStep(t) ==
    \/ thread'[t].pc \in Strong /\ ~(thread'[t].pc = "agentout" /\ thread'[t].note = "waiting")
    \/ spent'.faults > 0
    \/ row'.status \notin LiveStatus
    \/ ~Owner(t) /\ SameStatus

LEMMA Lands ==
    ASSUME TypeInv, NEW t \in Threads
    PROVE  /\ \A pc \in Strong \ {"agentout"} : Go(t, pc) => OwnStep(t)
           /\ \A o : End(t, o) => OwnStep(t)
           /\ Completes(t) => OwnStep(t)
<1>1. thread[t] \in Thread /\ {"end", "save"} \subseteq Strong \ {"agentout"}
  BY StateTypes, PcsNamed DEF Good, Strong
<1>2. ASSUME NEW pc \in Strong \ {"agentout"}, Go(t, pc) PROVE OwnStep(t)
  <2>1. thread'[t] = [thread[t] EXCEPT !.pc = pc]
    BY <1>2, SetIs DEF Go
  <2>2. thread'[t].pc = pc
    BY <1>1, <2>1 DEF Thread
  <2>3. QED
    BY <2>2 DEF OwnStep
<1>3. ASSUME NEW o, End(t, o) PROVE OwnStep(t)
  <2>1. thread'[t] = [Idle EXCEPT !.pc = "end", !.note = o, !.h = thread[t].h]
    BY <1>3, SetIs DEF End
  <2>2. thread'[t].pc = "end"
    BY <2>1 DEF Idle
  <2>3. QED
    BY <1>1, <2>2 DEF OwnStep
<1>4. ASSUME Completes(t) PROVE OwnStep(t)
  <2>1. thread'[t] = [thread[t] EXCEPT !.pc = "save", !.eid = 0, !.got = FALSE,
                                      !.done = @ \cup {thread[t].step}]
    BY <1>4, SetIs DEF Completes
  <2>2. thread'[t].pc = "save"
    BY <1>1, <2>1 DEF Thread
  <2>3. QED
    BY <1>1, <2>2 DEF OwnStep
<1>5. QED
  BY <1>2, <1>3, <1>4

LEMMA StrongPcs ==
    /\ {"work", "consult", "consume", "clearing", "answered", "gate", "suspend", "ask", "parked",
        "agentin", "agent", "agentgate", "arming", "save", "check", "top", "inserted", "prepare",
        "load", "end"} \subseteq Strong \ {"agentout"}
    /\ {"park", "leave", "recheck", "reread", "promote", "idle", "branch", "store"} \cap Strong = {}
    /\ "agentout" \in Strong
BY PcsNamed DEF Strong

\* The status a marking leaves, when the run is not deleted.
LEMMA MarkLeaves ==
    ASSUME TypeInv, NEW s \in Statuses \ LiveStatus, MarkStatus(s)
    PROVE  row'.status \notin LiveStatus
BY StateTypes DEF MarkStatus, Write, Row, LiveStatus, Terminal

LEMMA LoopOwn ==
    ASSUME TypeInv, NEW t \in Threads, LoopMoves(t) \/ SkipStep(t) \/ BeginStep(t) \/ Check(t)
    PROVE  OwnStep(t)
<1>1. thread[t] \in Thread
  BY StateTypes DEF Good
<1>2. CASE SeeCancel(t) \/ Preempt(t) \/ Deadline(t) \/ Finish(t)
  BY <1>2, Lands DEF SeeCancel, Preempt, Deadline, Finish
<1>3. CASE Arm(t) \/ Work(t) \/ Save(t)
  BY <1>3, Lands, StrongPcs DEF Arm, Work, Save
<1>4. CASE MarkEnd(t)
  <2>1. thread[t].note \in Terminal
    BY <1>4, StateTypes DEF MarkEnd, At, Good, Sane
  <2>2. thread[t].note \in Statuses \ LiveStatus
    BY <2>1 DEF Statuses, LiveStatus, Terminal
  <2>3. QED
    BY <1>4, <2>2, MarkLeaves, FaultCounts DEF MarkEnd, Lossy, OwnStep
<1>5. CASE Leave(t) \/ Park(t)
  <2>1. thread[t].pc \in {"leave", "park"} /\ row' = row
    BY <1>5 DEF Leave, Park, At, Others
  <2>2. QED
    BY <2>1, StrongPcs DEF Owner, OwnStep, SameStatus
<1>6. CASE SkipStep(t)
  <2>1. thread'[t] = [thread[t] EXCEPT !.step = @ + 1]
    BY <1>6, SetIs DEF SkipStep
  <2>2. thread'[t].pc = "top"
    BY <1>1, <1>6, <2>1 DEF SkipStep, At, Thread
  <2>3. QED
    BY <2>2, StrongPcs DEF OwnStep
<1>7. CASE BeginStep(t)
  <2>1. thread'[t] = [thread[t] EXCEPT !.pc = "arming", !.woken = FALSE, !.late = row.status = "cancelled"]
    BY <1>7, SetIs DEF BeginStep
  <2>2. thread'[t].pc = "arming"
    BY <1>1, <2>1 DEF Thread
  <2>3. QED
    BY <2>2, StrongPcs DEF OwnStep
<1>8. CASE Check(t)
  <2>1. ASSUME Set(t, [thread[t] EXCEPT !.pc = "top", !.step = @ + 1]) PROVE OwnStep(t)
    <3>1. thread'[t] = [thread[t] EXCEPT !.pc = "top", !.step = @ + 1]
      BY <2>1, SetIs
    <3>2. thread'[t].pc = "top"
      BY <1>1, <3>1 DEF Thread
    <3>3. QED
      BY <3>2, StrongPcs DEF OwnStep
  <2>2. QED
    BY <1>8, <2>1, Lands DEF Check
<1>9. QED
  BY <1>2, <1>3, <1>4, <1>5, <1>6, <1>7, <1>8 DEF LoopMoves

LEMMA ElicitOwn ==
    ASSUME TypeInv, NEW t \in Threads, ElicitMoves(t) \/ Consult(t) PROVE OwnStep(t)
<1>1. thread[t] \in Thread
  BY StateTypes DEF Good
<1>2. CASE \/ ConsumeStatus(t) \/ ConsumeResponse(t) \/ Answer(t) \/ PersistGate(t) \/ PersistAsk(t)
           \/ AskAnswered(t) \/ AskGivenUp(t)
  BY <1>2, Lands, StrongPcs
     DEF ConsumeStatus, ConsumeResponse, Answer, PersistGate, PersistAsk, AskAnswered, AskGivenUp
<1>3. CASE Suspend(t)
  <2>1. "waiting" \in Statuses \ LiveStatus
    BY DEF Statuses, LiveStatus
  <2>2. QED
    BY <1>3, <2>1, MarkLeaves, FaultCounts DEF Suspend, Lossy, OwnStep
<1>4. CASE Consult(t)
  <2>1. ASSUME NEW pc \in {"gate", "ask"}, Set(t, [thread[t] EXCEPT !.pc = pc, !.eid = spent.elicits + 1])
        PROVE  OwnStep(t)
    <3>1. thread'[t] = [thread[t] EXCEPT !.pc = pc, !.eid = spent.elicits + 1]
      BY <2>1, SetIs
    <3>2. thread'[t].pc = pc
      BY <1>1, <3>1 DEF Thread
    <3>3. QED
      BY <3>2, StrongPcs DEF OwnStep
  <2>2. QED
    BY <1>4, <2>1, Lands, StrongPcs DEF Consult
<1>5. QED
  BY <1>2, <1>3, <1>4 DEF ElicitMoves

LEMMA AgentOwn ==
    ASSUME TypeInv, NEW t \in Threads, AgentMoves(t) \/ AgentSuspends(t) \/ AgentStops(t)
    PROVE  OwnStep(t)
<1>1. thread[t] \in Thread
  BY StateTypes DEF Good
<1>2. CASE AgentEnter(t) \/ AgentAsks(t)
  BY <1>2, Lands, StrongPcs DEF AgentEnter, AgentAsks
<1>3. CASE AgentLeave(t)
  <2>1. CASE thread[t].note = "waiting"
    <3>1. ~Owner(t) /\ SameStatus
      BY <1>3, <2>1, StatusIsKept DEF AgentMoves, AgentLeave, At, Owner
    <3>2. QED
      BY <3>1 DEF OwnStep
  <2>2. CASE thread[t].note # "waiting"
    BY <1>3, <2>2, Lands DEF AgentLeave
  <2>3. QED
    BY <2>1, <2>2
<1>4. CASE AgentSuspends(t)
  <2>1. "waiting" \in Statuses \ LiveStatus
    BY DEF Statuses, LiveStatus
  <2>2. QED
    BY <1>4, <2>1, MarkLeaves, FaultCounts DEF AgentSuspends, OwnStep
<1>5. CASE AgentStops(t)
  <2>1. PICK o \in Terminal : Set(t, [thread[t] EXCEPT !.pc = "agentout", !.note = o])
    BY <1>5 DEF AgentStops
  <2>2. thread'[t] = [thread[t] EXCEPT !.pc = "agentout", !.note = o]
    BY <2>1, SetIs
  <2>3. thread'[t].pc = "agentout" /\ thread'[t].note = o /\ o # "waiting"
    BY <1>1, <2>2 DEF Thread, Terminal
  <2>4. QED
    BY <2>3, StrongPcs DEF OwnStep
<1>6. QED
  BY <1>2, <1>3, <1>4, <1>5 DEF AgentMoves

LEMMA HandlerOwn ==
    ASSUME TypeInv, NEW t \in Threads,
           HandlerMoves(t) \/ Submit(t) \/ SubmitHot(t) \/ ResumeRead(t) \/ Enter(t)
    PROVE  OwnStep(t)
<1>1. thread[t] \in Thread
  BY StateTypes DEF Good
<1>2. CASE Spawn(t) \/ ResumePromote(t) \/ Register(t)
  BY <1>2, Lands, StrongPcs DEF Spawn, ResumePromote, Register
<1>3. CASE HandlerFails(t)
  BY <1>3, FaultCounts DEF HandlerFails, OwnStep
<1>4. CASE \/ SubmitCold(t) \/ StoreResponse(t) \/ ResumeCheck(t) \/ Submit(t) \/ SubmitHot(t)
           \/ ResumeRead(t)
  <2>1. thread[t].pc \in {"branch", "store", "recheck", "idle", "reread"}
    BY <1>4 DEF SubmitCold, StoreResponse, ResumeCheck, Submit, SubmitHot, ResumeRead, At
  <2>2. SameStatus
    BY <1>4, StatusIsKept
  <2>3. QED
    BY <2>1, <2>2, StrongPcs DEF Owner, OwnStep
<1>5. CASE Enter(t)
  <2>1. PICK h \in Handles :
          Set(t, [thread[t] EXCEPT !.pc = "top", !.step = 1, !.h = h, !.note = "none", !.eid = 0])
    BY <1>5 DEF Enter
  <2>2. thread'[t] = [thread[t] EXCEPT !.pc = "top", !.step = 1, !.h = h, !.note = "none", !.eid = 0]
    BY <2>1, SetIs
  <2>3. thread'[t].pc = "top"
    BY <1>1, <2>2 DEF Thread
  <2>4. QED
    BY <2>3, StrongPcs DEF OwnStep
<1>6. QED
  BY <1>2, <1>3, <1>4, <1>5 DEF HandlerMoves

LEMMA TouchedOwner ==
    ASSUME TypeInv, Touched, NEW u \in Threads, thread'[u] # Idle, Owner(u)
    PROVE  thread'[u].pc \in Strong /\ ~(thread'[u].pc = "agentout" /\ thread'[u].note = "waiting")
<1>1. thread[u] \in Thread
  BY StateTypes DEF Good
<1>2. thread'[u].pc = thread[u].pc /\ thread'[u].note = thread[u].note
  <2>1. ASSUME NEW b \in BOOLEAN, thread'[u] = [thread[u] EXCEPT !.got = b]
        PROVE  thread'[u].pc = thread[u].pc /\ thread'[u].note = thread[u].note
    BY <1>1, <2>1 DEF Thread
  <2>2. ASSUME NEW b \in BOOLEAN, thread'[u] = [thread[u] EXCEPT !.woken = b]
        PROVE  thread'[u].pc = thread[u].pc /\ thread'[u].note = thread[u].note
    BY <1>1, <2>2 DEF Thread
  <2>3. QED
    BY <2>1, <2>2 DEF Touched
<1>3. QED
  BY <1>2 DEF Owner

LEMMA OwnedStep == ASSUME TypeInv, OwnedInv, [Next]_vars PROVE OwnedInv'
<1> SUFFICES ASSUME row'.status \in LiveStatus, spent'.faults = 0
             PROVE  \/ \E u \in Threads : /\ thread'[u].pc \in Strong
                                          /\ ~(thread'[u].pc = "agentout" /\ thread'[u].note = "waiting")
                    \/ row'.old /\ boot' \in {"spare", "fail"}
  BY DEF OwnedInv, Owner, Strong, Running, Dispatching, LiveStatus
<1>1. spent.faults = 0 /\ row \in Row
  BY FaultsGrow, StateTypes
<1> DEFINE Keeps(u) == thread'[u].pc \in Strong
                         /\ ~(thread'[u].pc = "agentout" /\ thread'[u].note = "waiting")
<1>2. ASSUME NEW t \in Threads, Spawn(t) \/ Submit(t) \/ Step(t)
      PROVE  (\E u \in Threads : Keeps(u)) \/ (row'.old /\ boot' \in {"spare", "fail"})
  <2>1. OwnStep(t)
    BY <1>2, StepKinds, LoopOwn, ElicitOwn, AgentOwn, HandlerOwn
  <2>2. CASE Keeps(t)
    BY <2>2
  <2>3. CASE ~Owner(t) /\ SameStatus
    <3>1. boot' = boot
      BY <1>2 DEF Spawn, Submit, Step, Loop, Elicit, Agent, Handler, Others, SkipStep, BeginStep,
             SeeCancel, Arm, Preempt, Deadline, Work, Save, Check, Finish, MarkEnd, Leave, Park,
             Consult, ConsumeStatus, ConsumeResponse, Answer, PersistGate, Suspend, PersistAsk,
             AskAnswered, AskGivenUp, AgentEnter, AgentAsks, AgentSuspends, AgentStops, AgentLeave,
             SubmitHot, SubmitCold, StoreResponse, ResumeCheck, ResumeRead, ResumePromote, Register,
             HandlerFails, Enter
    <3>2. (\E u \in Threads \ {t} : Owner(u)) \/ (row'.old /\ boot' \in {"spare", "fail"})
      BY <1>1, <2>3, <3>1 DEF OwnedInv, SameStatus
    <3>3. ASSUME NEW u \in Threads \ {t}, Owner(u) PROVE Keeps(u)
      <4>1. CASE SubmitHot(t)
        <5>1. Touched
          BY <4>1, HotTouches
        <5>2. thread'[u] = Idle => FALSE
          <6>1. thread[u] \in Thread /\ thread[u].pc # "idle"
            BY <3>3, StateTypes, StrongPcs DEF Good, Owner
          <6>2. thread'[u].pc = thread[u].pc
            BY <4>1, <6>1 DEF SubmitHot, Thread
          <6>3. QED
            BY <6>1, <6>2 DEF Idle
        <5>3. QED
          BY <3>3, <5>1, <5>2, TouchedOwner
      <4>2. CASE ~SubmitHot(t)
        <5>1. thread'[u] = thread[u]
          BY <1>2, <4>2, ThreadLate
        <5>2. QED
          BY <3>3, <5>1 DEF Owner
      <4>3. QED
        BY <4>1, <4>2
    <3>4. QED
      BY <3>2, <3>3
  <2>4. QED
    BY <2>1, <2>2, <2>3 DEF OwnStep
<1>3. CASE CancelRow \/ DropRow \/ Delete \/ Subscribe \/ Reap \/ UNCHANGED vars
  <2>1. thread' = thread /\ boot' = boot /\ row'.old = row.old /\ row.status \in LiveStatus
    BY <1>1, <1>3 DEF CancelRow, DropRow, CancelCas, Write, Delete, DeleteRun, DeleteWorkflow, Deleted, Subscribe, Reap, vars, Rest, Others,
              LiveStatus, NoRow, Row, Terminal
  <2>2. QED
    BY <1>1, <2>1 DEF OwnedInv, Owner
<1>4. CASE CancelSignal \/ DropSignal
  <2>1. Touched /\ row' = row /\ boot' = boot
    BY <1>4, SignalTouches DEF CancelSignal, DropSignal, Rest
  <2>2. \A u \in Threads : Owner(u) => thread'[u] # Idle
    <3>1. ASSUME NEW u \in Threads, Owner(u) PROVE thread'[u] # Idle
      <4>1. thread[u] \in Thread /\ thread[u].pc # "idle"
        BY <3>1, StateTypes, StrongPcs DEF Good, Owner
      <4>2. thread'[u].pc = thread[u].pc
        BY <1>4, <4>1 DEF CancelSignal, DropSignal, Signal, Thread
      <4>3. QED
        BY <4>1, <4>2 DEF Idle
    <3>2. QED
      BY <3>1
  <2>3. \A u \in Threads : Owner(u) => Keeps(u)
    BY <2>1, <2>2, TouchedOwner
  <2>4. QED
    BY <1>1, <2>1, <2>3 DEF OwnedInv
<1>5. CASE Crash
  BY <1>1, <1>5 DEF Crash, Row
<1>6. CASE SweepSpare \/ SweepFail
  <2>1. thread' = thread /\ row'.old = row.old /\ row.status \in LiveStatus
    BY <1>1, <1>6 DEF SweepSpare, SweepFail, Row, LiveStatus
  <2>2. SweepSpare => boot' = "fail"
    BY DEF SweepSpare
  <2>3. SweepFail => ~row.old
    BY <1>1 DEF SweepFail, Row, LiveStatus
  <2>4. QED
    BY <1>1, <1>6, <2>1, <2>2, <2>3 DEF OwnedInv, Owner
<1>7. CASE SweepDies
  BY <1>7, FaultCounts DEF SweepDies
<1>8. CASE SweepRedrive
  <2>1. row' = row /\ boot \notin {"spare", "fail"}
    BY <1>8 DEF SweepRedrive, Sweep
  <2>2. PICK u \in Threads : Owner(u)
    BY <1>1, <2>1 DEF OwnedInv
  <2>3. thread'[u] = thread[u]
    <3>1. row.status # "resumable"
      BY <2>1 DEF LiveStatus
    <3>2. QED
      BY <1>8, <3>1 DEF SweepRedrive
  <2>4. QED
    BY <2>2, <2>3 DEF Owner
<1>9. QED
  BY <1>2, <1>3, <1>4, <1>5, <1>6, <1>7, <1>8 DEF Next, Cancelling, Sweeping

\* A run that is pending or running is in somebody's hands, across any interleaving
\* of handlers, runners, crash and sweep in which no write or start fails: nothing
\* else would ever settle it.
THEOREM WorkflowNotAbandoned == Spec => []NotAbandoned
<1>1. Init => OwnedInv
  BY DEF Init, OwnedInv, NoRow, LiveStatus
<1>2. TypeInv /\ OwnedInv => NotAbandoned
  <2>1. \A t \in Threads : Owner(t) =>
          thread[t].pc \in Running \cup Ending \cup {"inserted", "prepare", "load", "promote"}
    BY PcsNamed DEF Owner, Strong
  <2>2. QED
    BY <2>1 DEF OwnedInv, NotAbandoned, Owned, LiveStatus
<1>3. TypeInv /\ OwnedInv /\ [Next]_vars => OwnedInv'
  BY OwnedStep
<1>4. QED
  BY <1>1, <1>2, <1>3, WorkflowTyped, PTL DEF Spec

-----------------------------------------------------------------------------
(* One runner at a time, which knows what is saved and is in reach of answers *)

\* From the moment resume_run has found no runner, or the row is inserted, until
\* the runner has left.
Active == (Resuming \ {"recheck"}) \cup {"inserted", "prepare"} \cup Running \cup Ending

Alone == \A t, u \in Threads : thread[t].pc \in Active /\ thread[u].pc \in Active => t = u

\* A thread r, beside the outputs of the row, the run's handle c and the handles H.
Seated(r, outputs, c, H) ==
    /\ r.pc \in {"prepare"} \cup Running \cup Ending => c # 0 /\ H[c].runner
    /\ r.pc \in Running \cup Ending => r.h = c
    /\ r.pc \in {"inserted", "promote", "load", "prepare"} \cup Running => outputs \subseteq r.done
    /\ r.pc \in Dispatching \cup {"arming"} => r.step \notin r.done
    /\ r.pc = "save" => r.step \in r.done
    /\ r.pc \in {"ask", "parked"} => H[c].slot = r.eid \/ r.got

Seat(t) == Seated(thread[t], row.outputs, current, handle)

\* Before the row and right after it nobody else knows the run.
Beginning ==
    /\ row.status = "none" => row = NoRow /\ boot = "idle" /\ \A t \in Threads : thread[t] = Idle
    /\ \A t \in Threads : thread[t].pc = "inserted" =>
            boot = "idle" /\ row.pending = 0 /\ \A u \in Threads \ {t} : thread[u].pc = "idle"

RaceInv == TypeInv /\ Beginning /\ (~raced => Alone /\ \A t \in Threads : Seat(t))

LEMMA ActivePcs ==
    /\ {"prepare", "inserted", "promote", "load", "reread", "save", "ask", "parked", "arming"} \subseteq Active
    /\ Running \cup Ending \cup Dispatching \subseteq Active
    /\ {"idle", "branch", "store", "recheck"} \cap Active = {}
    /\ {"idle", "branch", "store", "recheck"} \cap (Running \cup Ending \cup {"promote", "load"}) = {}
BY PcsNamed DEF Active

\* Who is not active needs no seat.
LEMMA Unseated == \A r, o, c, H : r.pc \notin Active => Seated(r, o, c, H)
BY ActivePcs DEF Seated

LEMMA WriteOutputs ==
    ASSUME TypeInv, NEW r \in Row, r.outputs = row.outputs, Write(r)
    PROVE  row'.outputs = row.outputs
BY DEF Write

LEMMA MarkOutputs ==
    ASSUME TypeInv, NEW s \in Statuses, MarkStatus(s)
    PROVE  row'.outputs = row.outputs /\ row'.pending = row.pending
<1>1. row \in Row
  BY StateTypes
<1>2. row' = row \/ row' = [row EXCEPT !.status = s]
  BY DEF MarkStatus, Write
<1>3. QED
  BY <1>1, <1>2 DEF Row

\* Only the save of a step changes the outputs.
LEMMA OutputsKept ==
    ASSUME TypeInv, NEW t \in Threads, Spawn(t) \/ Submit(t) \/ Step(t), ~Save(t)
    PROVE  row'.outputs = row.outputs
<1>1. row \in Row /\ {"running", "waiting"} \subseteq Statuses
  BY StateTypes DEF Statuses
<1>2. CASE \/ row' = row
           \/ \E e \in Elicits, n \in Nat : Write([row EXCEPT !.pending = e, !.step = n])
           \/ \E n \in Nat : Write([row EXCEPT !.response = n])
           \/ \E b \in BOOLEAN : Write([row EXCEPT !.agent = b])
  <2>1. ASSUME NEW e \in Elicits, NEW n \in Nat, Write([row EXCEPT !.pending = e, !.step = n])
        PROVE  row'.outputs = row.outputs
    BY <1>1, <2>1 DEF Write, Row
  <2>2. ASSUME NEW n \in Nat, Write([row EXCEPT !.response = n]) PROVE row'.outputs = row.outputs
    BY <1>1, <2>2 DEF Write, Row
  <2>3. ASSUME NEW b \in BOOLEAN, Write([row EXCEPT !.agent = b]) PROVE row'.outputs = row.outputs
    BY <1>1, <2>3 DEF Write, Row
  <2>4. QED
    BY <1>2, <2>1, <2>2, <2>3
<1>3. CASE Spawn(t)
  BY <1>1, <1>3 DEF Spawn, Row
<1>4. CASE MarkEnd(t)
  <2>1. thread[t].note \in Statuses
    BY <1>4, StateTypes DEF MarkEnd, At, Good, Sane, Statuses
  <2>2. QED
    BY <1>4, <2>1, MarkOutputs DEF MarkEnd, Lossy
<1>5. CASE ConsumeStatus(t) \/ Suspend(t) \/ AgentSuspends(t) \/ ResumePromote(t)
  BY <1>1, <1>5, MarkOutputs DEF ConsumeStatus, Suspend, AgentSuspends, ResumePromote, Lossy
<1>6. CASE Enter(t)
  BY <1>1, <1>6 DEF Enter, Write, Lossy, Row
<1>7. QED
  BY <1>2, <1>3, <1>4, <1>5, <1>6, StepKinds, RowWrites
     DEF LoopMoves, ElicitMoves, AgentMoves, HandlerMoves

\* The run's handle stays, with its runner.
RunnerKept == current' = current /\ (current # 0 => handle'[current].runner = handle[current].runner)

LEMMA GoSeated ==
    ASSUME TypeInv, NEW t \in Threads, Seat(t), NEW pc \in (Running \cup Ending) \ {"save"}, Go(t, pc),
           RunnerKept, row'.outputs = row.outputs,
           thread[t].pc \in Running \cup Ending,
           pc \in Running => thread[t].pc \in Running,
           pc \in Dispatching \cup {"arming"} => thread[t].pc \in Dispatching \cup {"arming"},
           pc \in {"ask", "parked"} => thread[t].pc \in {"ask", "parked"} /\ handle' = handle
    PROVE  Seat(t)'
<1>1. thread[t] \in Thread
  BY StateTypes DEF Good
<1>2. thread'[t] = [thread[t] EXCEPT !.pc = pc]
  BY SetIs DEF Go
<1>3. /\ thread'[t].pc = pc /\ thread'[t].h = thread[t].h /\ thread'[t].done = thread[t].done
      /\ thread'[t].step = thread[t].step /\ thread'[t].eid = thread[t].eid
      /\ thread'[t].got = thread[t].got
  BY <1>1, <1>2 DEF Thread
<1>4. pc \notin {"prepare", "inserted", "promote", "load"}
  BY PcsNamed
<1>5. QED
  BY <1>3, <1>4 DEF Seat, Seated, RunnerKept

LEMMA EndSeated ==
    ASSUME TypeInv, NEW t \in Threads, Seat(t), NEW o, End(t, o), RunnerKept, thread[t].pc \in Running
    PROVE  Seat(t)'
<1>1. thread'[t] = [Idle EXCEPT !.pc = "end", !.note = o, !.h = thread[t].h]
  BY SetIs DEF End
<1>2. thread'[t].pc = "end" /\ thread'[t].h = thread[t].h
  BY <1>1 DEF Idle
<1>3. "end" \notin {"inserted", "promote", "load", "prepare"} \cup Running \cup Dispatching
  BY PcsNamed
<1>4. QED
  BY <1>2, <1>3 DEF Seat, Seated, RunnerKept

LEMMA DoneSeated ==
    ASSUME TypeInv, NEW t \in Threads, Seat(t), Completes(t), RunnerKept, row'.outputs = row.outputs,
           thread[t].pc \in Running
    PROVE  Seat(t)'
<1>1. thread[t] \in Thread
  BY StateTypes DEF Good
<1>2. thread'[t] = [thread[t] EXCEPT !.pc = "save", !.eid = 0, !.got = FALSE,
                                    !.done = @ \cup {thread[t].step}]
  BY SetIs DEF Completes
<1>3. /\ thread'[t].pc = "save" /\ thread'[t].h = thread[t].h /\ thread'[t].step = thread[t].step
      /\ thread'[t].done = thread[t].done \cup {thread[t].step}
  BY <1>1, <1>2 DEF Thread
<1>4. "save" \notin Dispatching
  BY DEF Dispatching
<1>5. QED
  BY <1>3, <1>4 DEF Seat, Seated, RunnerKept

LEMMA IdleSeated == ASSUME TypeInv, NEW t \in Threads, Set(t, Idle) PROVE Seat(t)'
<1>1. thread'[t].pc = "idle"
  BY SetIs DEF Idle
<1>2. QED
  BY <1>1, ActivePcs, Unseated DEF Seat

LEMMA LoopSeated ==
    ASSUME TypeInv, NEW t \in Threads, Seat(t),
           LoopMoves(t) \/ SkipStep(t) \/ BeginStep(t) \/ Check(t)
    PROVE  Seat(t)'
<1>1. thread[t] \in Thread /\ row \in Row
  BY StateTypes DEF Good
<1>2. UNCHANGED Registry => RunnerKept
  BY DEF Registry, RunnerKept
<1>3. (LoopMoves(t) /\ ~Save(t)) \/ SkipStep(t) \/ BeginStep(t) \/ Check(t) => row'.outputs = row.outputs
  <2>1. ~Save(t) \/ SkipStep(t) \/ BeginStep(t) \/ Check(t) => ~Save(t)
    BY DEF SkipStep, BeginStep, Check, Save, At
  <2>2. QED
    BY <2>1, OutputsKept DEF Step, Loop, LoopMoves
<1>4. CASE SeeCancel(t) \/ Preempt(t) \/ Deadline(t) \/ Finish(t)
  <2>1. thread[t].pc \in Running /\ RunnerKept
    BY <1>2, <1>4, PcsNamed DEF SeeCancel, Preempt, Deadline, Finish, At
  <2>2. QED
    BY <1>4, <2>1, EndSeated DEF SeeCancel, Preempt, Deadline, Finish
<1>5. CASE Arm(t)
  <2>1. PICK pc \in {"work", "agentin", "consult"} : Go(t, pc)
    BY <1>5 DEF Arm
  <2>2. pc \in Dispatching /\ pc \in (Running \cup Ending) \ {"save"} /\ pc \notin {"ask", "parked"}
    BY <2>1, PcsNamed DEF Dispatching
  <2>3. thread[t].pc = "arming" /\ "arming" \in Running /\ RunnerKept /\ row'.outputs = row.outputs
    BY <1>2, <1>3, <1>5, PcsNamed DEF Arm, At, LoopMoves, Save
  <2>4. QED
    BY <2>1, <2>2, <2>3, GoSeated
<1>6. CASE Work(t)
  <2>1. thread[t].pc \in Running /\ RunnerKept /\ row'.outputs = row.outputs
    BY <1>2, <1>3, <1>6, PcsNamed DEF Work, At, LoopMoves, Save
  <2>2. QED
    BY <1>6, <2>1, EndSeated, DoneSeated DEF Work
<1>7. CASE Save(t)
  <2>1. thread[t].pc = "save" /\ RunnerKept /\ {"save", "check"} \subseteq Running
    BY <1>2, <1>7, PcsNamed DEF Save, At
  <2>2. CASE End(t, "failed")
    BY <2>1, <2>2, EndSeated
  <2>3. CASE Go(t, "check")
    <3>1. thread'[t] = [thread[t] EXCEPT !.pc = "check"]
      BY <2>3, SetIs DEF Go
    <3>2. /\ thread'[t].pc = "check" /\ thread'[t].h = thread[t].h /\ thread'[t].done = thread[t].done
      BY <1>1, <3>1 DEF Thread
    <3>3. row'.outputs \subseteq row.outputs \cup {thread[t].step}
      BY <1>1, <1>7 DEF Save, Lossy, Write, Row
    <3>4. "check" \notin Dispatching /\ thread[t].step \in thread[t].done /\ row.outputs \subseteq thread[t].done
      BY <2>1 DEF Dispatching, Seat, Seated
    <3>5. row'.outputs \subseteq thread'[t].done
      BY <3>2, <3>3, <3>4
    <3>6. QED
      BY <2>1, <3>2, <3>4, <3>5 DEF Seat, Seated, RunnerKept
  <2>4. QED
    BY <1>7, <2>2, <2>3 DEF Save
<1>8. CASE MarkEnd(t)
  <2>1. thread[t].pc = "end" /\ RunnerKept /\ row'.outputs = row.outputs
    BY <1>2, <1>3, <1>8 DEF MarkEnd, At, LoopMoves, Save
  <2>2. "leave" \in (Running \cup Ending) \ {"save"} /\ "leave" \notin Running \cup Dispatching \cup {"arming"}
    BY PcsNamed
  <2>3. "end" \in Ending /\ Go(t, "leave")
    BY <1>8, PcsNamed DEF MarkEnd
  <2>4. QED
    BY <2>1, <2>2, <2>3, GoSeated
<1>9. CASE Leave(t) \/ Park(t)
  BY <1>9, IdleSeated DEF Leave, Park
<1>10. CASE SkipStep(t)
  <2>1. thread'[t] = [thread[t] EXCEPT !.step = @ + 1]
    BY <1>10, SetIs DEF SkipStep
  <2>2. /\ thread'[t].pc = "top" /\ thread[t].pc = "top"
        /\ thread'[t].h = thread[t].h /\ thread'[t].done = thread[t].done
    BY <1>1, <1>10, <2>1 DEF SkipStep, At, Thread
  <2>3. "top" \notin Dispatching
    BY DEF Dispatching
  <2>4. RunnerKept /\ row'.outputs = row.outputs
    BY <1>2, <1>3, <1>10 DEF SkipStep
  <2>5. QED
    BY <2>2, <2>3, <2>4, PcsNamed DEF Seat, Seated, RunnerKept
<1>11. CASE BeginStep(t)
  <2>1. thread'[t] = [thread[t] EXCEPT !.pc = "arming", !.woken = FALSE, !.late = row.status = "cancelled"]
    BY <1>11, SetIs DEF BeginStep
  <2>2. /\ thread'[t].pc = "arming" /\ thread[t].pc = "top" /\ thread'[t].step = thread[t].step
        /\ thread'[t].h = thread[t].h /\ thread'[t].done = thread[t].done
    BY <1>1, <1>11, <2>1 DEF BeginStep, At, Thread
  <2>3. RunnerKept /\ row'.outputs = row.outputs /\ thread[t].step \notin thread[t].done
    BY <1>2, <1>3, <1>11 DEF BeginStep, Skipped
  <2>4. QED
    BY <2>2, <2>3, PcsNamed DEF Seat, Seated, RunnerKept
<1>12. CASE Check(t)
  <2>1. RunnerKept /\ row'.outputs = row.outputs /\ thread[t].pc = "check" /\ "check" \in Running
    BY <1>2, <1>3, <1>12, PcsNamed DEF Check, At
  <2>2. CASE End(t, "cancelled")
    BY <2>1, <2>2, EndSeated
  <2>3. CASE Set(t, [thread[t] EXCEPT !.pc = "top", !.step = @ + 1])
    <3>1. thread'[t] = [thread[t] EXCEPT !.pc = "top", !.step = @ + 1]
      BY <2>3, SetIs
    <3>2. thread'[t].pc = "top" /\ thread'[t].h = thread[t].h /\ thread'[t].done = thread[t].done
      BY <1>1, <3>1 DEF Thread
    <3>3. "top" \notin Dispatching
      BY DEF Dispatching
    <3>4. QED
      BY <2>1, <3>2, <3>3 DEF Seat, Seated, RunnerKept
  <2>4. QED
    BY <1>12, <2>2, <2>3 DEF Check
<1>13. QED
  BY <1>4, <1>5, <1>6, <1>7, <1>8, <1>9, <1>10, <1>11, <1>12 DEF LoopMoves

LEMMA ElicitSeated ==
    ASSUME TypeInv, NEW t \in Threads, Seat(t), ElicitMoves(t) \/ Consult(t)
    PROVE  Seat(t)'
<1>1. thread[t] \in Thread
  BY StateTypes DEF Good
<1>2. row'.outputs = row.outputs
  <2>1. ~Save(t)
    BY DEF ElicitMoves, Consult, ConsumeStatus, ConsumeResponse, Answer, PersistGate, Suspend,
           PersistAsk, AskAnswered, AskGivenUp, Save, At
  <2>2. QED
    BY <2>1, OutputsKept DEF Step, Elicit, ElicitMoves
<1>3. thread[t].pc \in Dispatching /\ Dispatching \subseteq Running
  BY PcsNamed DEF ElicitMoves, Consult, ConsumeStatus, ConsumeResponse, Answer, PersistGate, Suspend,
     PersistAsk, AskAnswered, AskGivenUp, At, Dispatching
<1>4. UNCHANGED Registry => RunnerKept
  BY DEF Registry, RunnerKept
<1>5. ASSUME NEW pc \in {"consume", "clearing", "answered", "suspend", "park", "parked"}, Go(t, pc),
             RunnerKept, pc = "parked" => thread[t].pc = "ask" /\ handle' = handle
      PROVE  Seat(t)'
  <2>1. pc \in Dispatching /\ pc \in (Running \cup Ending) \ {"save"}
    BY <1>3 DEF Dispatching
  <2>2. QED
    BY <1>2, <1>3, <1>5, <2>1, GoSeated
<1>6. CASE ConsumeStatus(t) \/ ConsumeResponse(t) \/ Suspend(t) \/ AskAnswered(t) \/ PersistGate(t)
  <2>1. RunnerKept
    BY <1>4, <1>6 DEF ConsumeStatus, ConsumeResponse, Suspend, AskAnswered, PersistGate
  <2>2. QED
    BY <1>3, <1>5, <1>6, <2>1, EndSeated
       DEF ConsumeStatus, ConsumeResponse, Suspend, AskAnswered, PersistGate
<1>7. CASE Answer(t) \/ AskGivenUp(t)
  <2>1. RunnerKept
    BY <1>4, <1>7 DEF Answer, AskGivenUp
  <2>2. QED
    BY <1>2, <1>3, <1>7, <2>1, EndSeated, DoneSeated DEF Answer, AskGivenUp
<1>8. CASE PersistAsk(t)
  <2>1. RunnerKept
    BY <1>8, StateTypes DEF PersistAsk, RunnerKept, Handle
  <2>2. QED
    BY <1>3, <1>5, <1>8, <2>1, EndSeated DEF PersistAsk, At
<1>9. CASE Consult(t)
  <2>1. CASE (Go(t, "consume") \/ End(t, "failed")) /\ handle' = handle
    <3>1. RunnerKept
      BY <1>9, <2>1 DEF Consult, RunnerKept
    <3>2. QED
      BY <1>3, <1>5, <2>1, <3>1, EndSeated
  <2>2. ASSUME NEW pc \in {"gate", "ask"}, Set(t, [thread[t] EXCEPT !.pc = pc, !.eid = spent.elicits + 1]),
               current' = current,
               \/ pc = "gate" /\ handle' = handle
               \/ current # 0 /\ handle' = [handle EXCEPT ![current].slot = spent.elicits + 1]
        PROVE  Seat(t)'
    <3>1. thread'[t] = [thread[t] EXCEPT !.pc = pc, !.eid = spent.elicits + 1]
      BY <2>2, SetIs
    <3>2. /\ thread'[t].pc = pc /\ thread'[t].h = thread[t].h /\ thread'[t].done = thread[t].done
          /\ thread'[t].step = thread[t].step /\ thread'[t].eid = spent.elicits + 1
      BY <1>1, <3>1 DEF Thread
    <3>3. RunnerKept /\ (pc = "ask" => handle'[current].slot = spent.elicits + 1)
      BY <2>2, StateTypes DEF RunnerKept, Handle
    <3>4. QED
      BY <1>2, <1>3, <2>2, <3>2, <3>3 DEF Seat, Seated, RunnerKept
  <2>3. QED
    BY <1>9, <2>1, <2>2 DEF Consult, Others
<1>10. QED
  BY <1>6, <1>7, <1>8, <1>9 DEF ElicitMoves

LEMMA AgentSeated ==
    ASSUME TypeInv, NEW t \in Threads, Seat(t), AgentMoves(t) \/ AgentSuspends(t) \/ AgentStops(t)
    PROVE  Seat(t)'
<1>1. thread[t] \in Thread
  BY StateTypes DEF Good
<1>2. row'.outputs = row.outputs
  <2>1. ~Save(t)
    BY DEF AgentMoves, AgentEnter, AgentAsks, AgentLeave, AgentSuspends, AgentStops, Save, At
  <2>2. QED
    BY <2>1, OutputsKept DEF Step, Agent, AgentMoves
<1>3. thread[t].pc \in Dispatching /\ Dispatching \subseteq Running
  BY PcsNamed DEF AgentMoves, AgentEnter, AgentAsks, AgentLeave, AgentSuspends, AgentStops, At, Dispatching
<1>4. RunnerKept
  BY DEF AgentMoves, AgentEnter, AgentAsks, AgentLeave, AgentSuspends, AgentStops, Registry, RunnerKept
<1>5. ASSUME NEW pc \in {"agent", "agentgate", "park"}, Go(t, pc) PROVE Seat(t)'
  <2>1. pc \in Dispatching /\ pc \in (Running \cup Ending) \ {"save"} /\ pc \notin {"ask", "parked"}
    BY <1>3 DEF Dispatching
  <2>2. QED
    BY <1>2, <1>3, <1>4, <1>5, <2>1, GoSeated
<1>6. CASE AgentEnter(t) \/ AgentAsks(t) \/ AgentLeave(t)
  BY <1>2, <1>3, <1>4, <1>5, <1>6, EndSeated, DoneSeated DEF AgentEnter, AgentAsks, AgentLeave
<1>7. CASE AgentSuspends(t) \/ AgentStops(t)
  <2>1. PICK o \in {"waiting"} \cup Terminal : Set(t, [thread[t] EXCEPT !.pc = "agentout", !.note = o])
    BY <1>7 DEF AgentSuspends, AgentStops, Terminal
  <2>2. thread'[t] = [thread[t] EXCEPT !.pc = "agentout", !.note = o]
    BY <2>1, SetIs
  <2>3. /\ thread'[t].pc = "agentout" /\ thread'[t].h = thread[t].h
        /\ thread'[t].done = thread[t].done /\ thread'[t].step = thread[t].step
    BY <1>1, <2>2 DEF Thread
  <2>4. QED
    BY <1>2, <1>3, <1>4, <2>3 DEF Seat, Seated, RunnerKept
<1>8. QED
  BY <1>6, <1>7 DEF AgentMoves

LEMMA HandlerSeated ==
    ASSUME TypeInv, NEW t \in Threads, Seat(t),
           ResumeRead(t) \/ ResumePromote(t) \/ Register(t) \/ HandlerFails(t) \/ Enter(t)
    PROVE  Seat(t)'
<1>1. thread[t] \in Thread
  BY StateTypes DEF Good
<1>2. row'.outputs = row.outputs
  <2>1. ~Save(t)
    BY PcsNamed DEF ResumeRead, ResumePromote, Register, HandlerFails, Enter, Save, At
  <2>2. QED
    BY <2>1, OutputsKept DEF Step, Handler
<1>3. {"load", "promote", "prepare"} \cap (Running \cup Ending \cup Dispatching \cup {"arming", "save", "ask", "parked"}) = {}
  BY PcsNamed
<1>4. CASE HandlerFails(t)
  BY <1>4, IdleSeated DEF HandlerFails
<1>5. CASE ResumeRead(t)
  <2>1. CASE Set(t, Idle)
    BY <2>1, IdleSeated
  <2>2. ASSUME NEW pc \in {"load", "promote"}, Set(t, [thread[t] EXCEPT !.pc = pc, !.done = row.outputs])
        PROVE  Seat(t)'
    <3>1. thread'[t] = [thread[t] EXCEPT !.pc = pc, !.done = row.outputs]
      BY <2>2, SetIs
    <3>2. thread'[t].pc = pc /\ thread'[t].done = row.outputs
      BY <1>1, <3>1 DEF Thread
    <3>3. QED
      BY <1>2, <1>3, <3>2 DEF Seat, Seated
  <2>3. QED
    BY <1>5, <2>1, <2>2 DEF ResumeRead
<1>6. CASE ResumePromote(t)
  <2>1. thread'[t] = [thread[t] EXCEPT !.pc = "load"]
    BY <1>6, SetIs DEF ResumePromote, Go
  <2>2. thread'[t].pc = "load" /\ thread'[t].done = thread[t].done
    BY <1>1, <2>1 DEF Thread
  <2>3. thread[t].pc = "promote"
    BY <1>6 DEF ResumePromote, At
  <2>4. QED
    BY <1>2, <1>3, <2>2, <2>3 DEF Seat, Seated
<1>7. CASE Register(t)
  <2>1. thread'[t] = [thread[t] EXCEPT !.pc = "prepare"]
    BY <1>7, SetIs DEF Register, Go
  <2>2. thread'[t].pc = "prepare" /\ thread'[t].done = thread[t].done
    BY <1>1, <2>1 DEF Thread
  <2>3. PICK h \in Handles : current' = h /\ handle' = [handle EXCEPT ![h].runner = TRUE]
    BY <1>7 DEF Register, Registered, GetOrCreate
  <2>4. current' # 0 /\ handle'[current'].runner
    BY <2>3, StateTypes, BoundsAssumption DEF Handle
  <2>5. thread[t].pc \in {"inserted", "load"}
    BY <1>7 DEF Register
  <2>6. QED
    BY <1>2, <1>3, <2>2, <2>4, <2>5 DEF Seat, Seated
<1>8. CASE Enter(t)
  <2>1. PICK h \in Handles :
          /\ IF current = 0 THEN Registered(h) ELSE h = current /\ UNCHANGED Registry
          /\ Set(t, [thread[t] EXCEPT !.pc = "top", !.step = 1, !.h = h, !.note = "none", !.eid = 0])
    BY <1>8 DEF Enter
  <2>2. thread'[t] = [thread[t] EXCEPT !.pc = "top", !.step = 1, !.h = h, !.note = "none", !.eid = 0]
    BY <2>1, SetIs
  <2>3. thread'[t].pc = "top" /\ thread'[t].h = h /\ thread'[t].done = thread[t].done
    BY <1>1, <2>2 DEF Thread
  <2>4. thread[t].pc = "prepare"
    BY <1>8 DEF Enter, At
  <2>5. current # 0 /\ h = current /\ handle' = handle /\ current' = current /\ handle[current].runner
    BY <2>1, <2>4 DEF Seat, Seated, Registry
  <2>6. "top" \notin Dispatching
    BY DEF Dispatching
  <2>7. QED
    BY <1>2, <2>3, <2>4, <2>5, <2>6 DEF Seat, Seated
<1>9. QED
  BY <1>4, <1>5, <1>6, <1>7, <1>8

\* A step of an active thread, which has no other beside it.
ActiveStep(t) ==
    \/ LoopMoves(t) \/ SkipStep(t) \/ BeginStep(t) \/ Check(t) \/ ElicitMoves(t) \/ Consult(t)
    \/ AgentMoves(t) \/ AgentSuspends(t) \/ AgentStops(t)
    \/ ResumeRead(t) \/ ResumePromote(t) \/ Register(t) \/ Enter(t)
    \/ HandlerFails(t) /\ thread[t].pc \in Active

LEMMA ActiveActs == ASSUME NEW t \in Threads, ActiveStep(t) PROVE thread[t].pc \in Active /\ ~SubmitHot(t)
<1>1. thread[t].pc \in Active
  BY PcsNamed, ActivePcs
     DEF ActiveStep, LoopMoves, SkipStep, BeginStep, Check, ElicitMoves, Consult, AgentMoves,
         AgentSuspends, AgentStops, ResumeRead, ResumePromote, Register, Enter, SeeCancel, Arm,
         Preempt, Deadline, Work, Save, Finish, MarkEnd, Leave, Park, ConsumeStatus, ConsumeResponse,
         Answer, PersistGate, Suspend, PersistAsk, AskAnswered, AskGivenUp, AgentEnter, AgentAsks,
         AgentLeave, At
<1>2. QED
  BY <1>1, ActivePcs DEF SubmitHot, At

LEMMA ActiveRace ==
    ASSUME RaceInv, NEW t \in Threads, ActiveStep(t), Spawn(t) \/ Submit(t) \/ Step(t), ~raced
    PROVE  Alone' /\ \A u \in Threads : Seat(u)'
<1>1. thread[t].pc \in Active /\ TypeInv /\ Alone /\ Seat(t)
  BY ActiveActs DEF RaceInv
<1>2. \A u \in Threads \ {t} : thread'[u] = thread[u] /\ thread[u].pc \notin Active
  <2>1. ~SubmitHot(t)
    BY ActiveActs
  <2>2. QED
    BY <1>1, <2>1, ThreadLate DEF Alone
<1>3. Alone'
  BY <1>2 DEF Alone, Active, Resuming, Running, Dispatching, Ending
<1>4. Seat(t)'
  BY <1>1, LoopSeated, ElicitSeated, AgentSeated, HandlerSeated DEF ActiveStep
<1>5. ASSUME NEW u \in Threads \ {t} PROVE Seat(u)'
  BY <1>2, <1>5, Unseated DEF Seat
<1>6. QED
  BY <1>3, <1>4, <1>5

\* A thread that others only answer, wake or leave alone keeps its seat, while the
\* run's runner is kept, or when there was none.
LEMMA SeatKept ==
    ASSUME TypeInv, NEW u \in Threads, Seat(u), row'.outputs \subseteq row.outputs,
           thread'[u].pc = thread[u].pc, thread'[u].h = thread[u].h, thread'[u].done = thread[u].done,
           thread'[u].step = thread[u].step, thread'[u].eid = thread[u].eid,
           \/ /\ RunnerKept
              /\ thread[u].pc \in {"ask", "parked"} =>
                    (handle[current].slot = thread[u].eid \/ thread[u].got =>
                        handle'[current].slot = thread[u].eid \/ thread'[u].got)
           \/ ~Resident
    PROVE  Seat(u)'
<1>1. CASE ~Resident
  <2>1. thread[u].pc \notin {"prepare"} \cup Running \cup Ending
    BY <1>1 DEF Seat, Seated, Resident
  <2>2. thread[u].pc \notin Dispatching \cup {"arming", "save", "ask", "parked"}
    BY <2>1, PcsNamed
  <2>3. QED
    BY <2>1, <2>2 DEF Seat, Seated
<1>2. CASE /\ RunnerKept
           /\ thread[u].pc \in {"ask", "parked"} =>
                (handle[current].slot = thread[u].eid \/ thread[u].got =>
                    handle'[current].slot = thread[u].eid \/ thread'[u].got)
  BY <1>2 DEF Seat, Seated, RunnerKept
<1>3. QED
  BY <1>1, <1>2

\* A step of a thread that is not active and does not become so.
LEMMA QuietRace ==
    ASSUME RaceInv, ~raced, NEW t \in Threads,
           \/ Submit(t) \/ SubmitCold(t) \/ StoreResponse(t) \/ (ResumeCheck(t) /\ Resident)
           \/ (HandlerFails(t) /\ thread[t].pc \notin Active)
    PROVE  Alone' /\ \A u \in Threads : Seat(u)'
<1>1. TypeInv /\ Alone /\ \A u \in Threads : Seat(u)
  BY DEF RaceInv
<1>2. thread[t] \in Thread
  BY <1>1, StateTypes DEF Good
<1>3. \A u \in Threads \ {t} : thread'[u] = thread[u]
  BY <1>1, ThreadLate DEF Submit, SubmitCold, StoreResponse, ResumeCheck, HandlerFails, SubmitHot, At,
     Step, Handler, Resuming
<1>4. row'.outputs = row.outputs
  <2>1. ~Save(t)
    BY PcsNamed DEF Submit, SubmitCold, StoreResponse, ResumeCheck, HandlerFails, Save, At
  <2>2. QED
    BY <1>1, <2>1, OutputsKept DEF Step, Handler
<1>5. current' = current /\ handle' = handle
  BY DEF Submit, SubmitCold, StoreResponse, ResumeCheck, HandlerFails, Registry
<1>6. thread'[t].pc \in {"idle", "branch", "store", "recheck"}
  <2>1. CASE Submit(t)
    <3>1. PICK n : Set(t, [thread[t] EXCEPT !.pc = "branch", !.eid = row.pending, !.step = row.step, !.note = n])
      BY <2>1 DEF Submit
    <3>2. thread'[t] = [thread[t] EXCEPT !.pc = "branch", !.eid = row.pending, !.step = row.step, !.note = n]
      BY <1>1, <3>1, SetIs
    <3>3. QED
      BY <1>2, <3>2 DEF Thread
  <2>2. CASE SubmitCold(t) \/ StoreResponse(t) \/ (ResumeCheck(t) /\ Resident) \/ HandlerFails(t)
    <3>1. Set(t, Idle) \/ Go(t, "store") \/ Go(t, "recheck")
      BY <2>2 DEF SubmitCold, StoreResponse, ResumeCheck, HandlerFails
    <3>2. Set(t, Idle) => thread'[t].pc = "idle"
      BY <1>1, SetIs DEF Idle
    <3>3. \A pc : Go(t, pc) => thread'[t].pc = pc
      <4> TAKE pc
      <4>1. Go(t, pc) => thread'[t] = [thread[t] EXCEPT !.pc = pc]
        BY <1>1, SetIs DEF Go
      <4>2. QED
        BY <1>2, <4>1 DEF Thread
    <3>4. QED
      BY <3>1, <3>2, <3>3
  <2>3. QED
    BY <2>1, <2>2
<1>7. Seat(t)'
  BY <1>6, ActivePcs, Unseated DEF Seat
<1>8. ASSUME NEW u \in Threads \ {t} PROVE Seat(u)'
  BY <1>1, <1>3, <1>4, <1>5, <1>8 DEF Seat
<1>9. Alone'
  <2>1. thread'[t].pc \notin Active
    BY <1>6, ActivePcs
  <2>2. QED
    BY <1>1, <1>3, <2>1 DEF Alone, Active, Resuming, Running, Dispatching, Ending
<1>10. QED
  BY <1>7, <1>8, <1>9

LEMMA SpawnRace ==
    ASSUME RaceInv, NEW t \in Threads, Spawn(t) PROVE Alone' /\ \A u \in Threads : Seat(u)'
<1>1. TypeInv /\ row = NoRow /\ \A u \in Threads : thread[u] = Idle
  BY DEF RaceInv, Beginning, Spawn
<1>2. thread'[t] = [Idle EXCEPT !.pc = "inserted"] /\ \A u \in Threads \ {t} : thread'[u] = Idle
  BY <1>1, SetIs DEF Spawn, Go
<1>3. thread'[t].pc = "inserted" /\ \A u \in Threads \ {t} : thread'[u].pc = "idle"
  BY <1>2 DEF Idle
<1>4. row'.outputs = {}
  BY <1>1 DEF Spawn, NoRow
<1>5. "inserted" \notin Running \cup Ending \cup Dispatching
  BY PcsNamed
<1>6. Seat(t)'
  BY <1>3, <1>4, <1>5 DEF Seat, Seated
<1>7. ASSUME NEW u \in Threads \ {t} PROVE Seat(u)'
  BY <1>3, <1>7, ActivePcs, Unseated DEF Seat
<1>8. Alone'
  BY <1>3, ActivePcs DEF Alone, Active, Resuming, Running, Dispatching, Ending
<1>9. QED
  BY <1>6, <1>7, <1>8

LEMMA CheckRace ==
    ASSUME RaceInv, ~raced', NEW t \in Threads, ResumeCheck(t), ~Resident
    PROVE  Alone' /\ \A u \in Threads : Seat(u)'
<1>1. ~raced /\ \A u \in Threads \ {t} : thread[u].pc \notin Resuming \ {"recheck"}
  BY DEF ResumeCheck
<1>2. TypeInv /\ Alone /\ \A u \in Threads : Seat(u)
  BY <1>1 DEF RaceInv
<1>3. thread'[t] = [thread[t] EXCEPT !.pc = "reread"] /\ \A u \in Threads \ {t} : thread'[u] = thread[u]
  BY <1>2, SetIs DEF ResumeCheck, Go
<1>4. \A u \in Threads \ {t} : thread[u].pc \notin Active
  <2>1. \A u \in Threads : thread[u].pc \notin {"prepare"} \cup Running \cup Ending
    BY <1>2 DEF Seat, Seated, Resident
  <2>2. \A u \in Threads \ {t} : thread[u].pc # "inserted"
    <3>1. thread[t].pc # "idle"
      BY DEF ResumeCheck, At
    <3>2. QED
      BY <3>1 DEF RaceInv, Beginning
  <2>3. QED
    BY <1>1, <2>1, <2>2 DEF Active
<1>5. thread'[t].pc = "reread"
  <2>1. thread[t] \in Thread
    BY <1>2, StateTypes DEF Good
  <2>2. QED
    BY <1>3, <2>1 DEF Thread
<1>6. Alone'
  BY <1>3, <1>4 DEF Alone, Active, Resuming, Running, Dispatching, Ending
<1>7. Seat(t)'
  BY <1>5, PcsNamed DEF Seat, Seated
<1>8. ASSUME NEW u \in Threads \ {t} PROVE Seat(u)'
  BY <1>3, <1>4, <1>8, Unseated DEF Seat
<1>9. QED
  BY <1>6, <1>7, <1>8

LEMMA HotRace ==
    ASSUME RaceInv, ~raced, NEW t \in Threads, SubmitHot(t)
    PROVE  Alone' /\ \A u \in Threads : Seat(u)'
<1> DEFINE taken == handle[current].slot = thread[t].eid
           b(u) == thread[u].got \/ (taken /\ thread[u].pc \in {"ask", "parked"}
                                           /\ thread[u].eid = thread[t].eid)
<1>1. TypeInv /\ Alone /\ current \in Handles /\ \A u \in Threads : Seat(u) /\ thread[u] \in Thread
  BY StateTypes DEF RaceInv, SubmitHot, Resident, Good
<1>2. thread' = [u \in Threads |-> IF u = t THEN Idle ELSE [thread[u] EXCEPT !.got = b(u)]]
  BY DEF SubmitHot
<1>3. thread'[t].pc = "idle"
  BY <1>2 DEF Idle
<1>4. ASSUME NEW u \in Threads \ {t}
      PROVE  /\ thread'[u].pc = thread[u].pc /\ thread'[u].h = thread[u].h
             /\ thread'[u].done = thread[u].done /\ thread'[u].step = thread[u].step
             /\ thread'[u].eid = thread[u].eid /\ thread'[u].got = b(u)
  <2>1. thread'[u] = [thread[u] EXCEPT !.got = b(u)]
    BY <1>2, <1>4
  <2> HIDE DEF b
  <2>2. QED
    BY <1>1, <2>1 DEF Thread
<1>5. /\ RunnerKept /\ row'.outputs = row.outputs
      /\ ~taken => handle' = handle
  BY <1>1, StateTypes DEF SubmitHot, RunnerKept, Handle
<1>6. ASSUME NEW u \in Threads \ {t} PROVE Seat(u)'
  <2>1. thread[u].pc \in {"ask", "parked"} =>
            (handle[current].slot = thread[u].eid \/ thread[u].got =>
                handle'[current].slot = thread[u].eid \/ thread'[u].got)
    <3>1. CASE taken
      BY <1>4, <1>6, <3>1
    <3>2. CASE ~taken
      BY <1>4, <1>5, <1>6, <3>2
    <3>3. QED
      BY <3>1, <3>2
  <2>2. QED
    BY <1>1, <1>4, <1>5, <1>6, <2>1, SeatKept
<1>7. Seat(t)'
  BY <1>3, ActivePcs, Unseated DEF Seat
<1>8. Alone'
  BY <1>1, <1>3, <1>4, ActivePcs DEF Alone, Active, Resuming, Running, Dispatching, Ending
<1>9. QED
  BY <1>6, <1>7, <1>8

\* The cancel handler, the deletion, the subscription, the reaper, the restart and
\* the sweep.
LEMMA RestRace ==
    ASSUME RaceInv, ~raced, ~raced',
           Cancelling \/ Delete \/ Subscribe \/ Reap \/ Crash \/ Sweeping \/ UNCHANGED vars
    PROVE  Alone' /\ \A u \in Threads : Seat(u)'
<1>1. /\ TypeInv /\ Alone /\ row \in Row
      /\ \A u \in Threads : Seat(u) /\ thread[u] \in Thread
  BY StateTypes DEF RaceInv, Good
<1>2. Crash => Alone' /\ \A u \in Threads : Seat(u)'
  <2> SUFFICES ASSUME Crash PROVE Alone' /\ \A u \in Threads : Seat(u)'
    OBVIOUS
  <2>1. \A u \in Threads : thread'[u].pc = "idle"
    BY DEF Crash, Idle
  <2>2. Alone'
    BY <2>1, ActivePcs DEF Alone, Active, Resuming, Running, Dispatching, Ending
  <2>3. QED
    BY <2>1, <2>2, ActivePcs, Unseated DEF Seat
<1>3. CASE CancelSignal \/ DropSignal
  <2> DEFINE b(u) == thread[u].woken \/ (thread[u].h = current /\ thread[u].pc \in Dispatching)
  <2>1. row' = row /\ current' = current /\ Signal
    BY <1>3 DEF CancelSignal, DropSignal, Rest
  <2>2. ASSUME NEW u \in Threads
        PROVE  /\ thread'[u].pc = thread[u].pc /\ thread'[u].h = thread[u].h
               /\ thread'[u].done = thread[u].done /\ thread'[u].step = thread[u].step
               /\ thread'[u].eid = thread[u].eid /\ thread'[u].got = thread[u].got
    <3>1. thread'[u] = thread[u] \/ thread'[u] = [thread[u] EXCEPT !.woken = b(u)]
      BY <2>1 DEF Signal
    <3> HIDE DEF b
    <3>2. QED
      BY <1>1, <3>1 DEF Thread
  <2>3. RunnerKept /\ (current # 0 => handle'[current].slot = handle[current].slot)
    BY <1>1, <2>1, StateTypes DEF Signal, RunnerKept, Handle
  <2>4. ASSUME NEW u \in Threads PROVE Seat(u)'
    <3>1. CASE ~Resident
      BY <1>1, <2>1, <2>2, <3>1, SeatKept
    <3>2. CASE Resident
      <4>1. handle'[current].slot = handle[current].slot
        BY <2>3, <3>2 DEF Resident
      <4>2. QED
        BY <1>1, <2>1, <2>2, <2>3, <4>1, SeatKept
    <3>3. QED
      BY <3>1, <3>2
  <2>5. QED
    BY <1>1, <2>2, <2>4 DEF Alone, Active, Resuming, Running, Dispatching, Ending
<1>4. CASE CancelRow \/ DropRow \/ Delete \/ SweepSpare \/ SweepFail \/ SweepDies \/ UNCHANGED vars
  <2>1. thread' = thread /\ current' = current /\ handle' = handle
    BY <1>4 DEF CancelRow, DropRow, Delete, DeleteRun, DeleteWorkflow, Deleted, SweepSpare, SweepFail, SweepDies, Sweep, Rest, vars
  <2>2. row'.outputs \subseteq row.outputs
    BY <1>1, <1>4 DEF CancelRow, DropRow, CancelCas, Write, Delete, DeleteRun, DeleteWorkflow, Deleted, SweepSpare, SweepFail, SweepDies,
       vars, NoRow, Row
  <2>3. RunnerKept
    BY <2>1 DEF RunnerKept
  <2>4. ASSUME NEW u \in Threads PROVE Seat(u)'
    BY <1>1, <2>1, <2>2, <2>3, SeatKept
  <2>5. QED
    BY <1>1, <2>1, <2>4 DEF Alone, Active, Resuming, Running, Dispatching, Ending
<1>5. CASE Subscribe \/ Reap
  <2>1. thread' = thread /\ row' = row /\ ~Resident
    BY <1>5 DEF Subscribe, Reap, Resident
  <2>2. ASSUME NEW u \in Threads PROVE Seat(u)'
    BY <1>1, <2>1, SeatKept
  <2>3. QED
    BY <1>1, <2>1, <2>2 DEF Alone, Active, Resuming, Running, Dispatching, Ending
<1>6. CASE SweepRedrive
  <2>1. row' = row /\ current' = current /\ handle' = handle
    BY <1>6 DEF SweepRedrive, Sweep
  <2>2. ASSUME NEW u \in Threads
        PROVE  thread'[u] = thread[u] \/ (thread[u].pc = "idle" /\ thread'[u].pc = "recheck")
    <3>1. CASE row.status = "resumable"
      <4>1. PICK t \in Threads : At(t, "idle") /\ Go(t, "recheck")
        BY <1>6, <3>1 DEF SweepRedrive
      <4>2. thread'[t] = [thread[t] EXCEPT !.pc = "recheck"] /\ \A v \in Threads \ {t} : thread'[v] = thread[v]
        BY <1>1, <4>1, SetIs DEF Go
      <4>3. QED
        BY <1>1, <4>1, <4>2 DEF At, Thread
    <3>2. CASE row.status # "resumable"
      BY <1>6, <3>2 DEF SweepRedrive
    <3>3. QED
      BY <3>1, <3>2
  <2>3. ASSUME NEW u \in Threads PROVE Seat(u)'
    <3>1. CASE thread'[u] = thread[u]
      BY <1>1, <2>1, <3>1 DEF Seat
    <3>2. CASE thread'[u].pc = "recheck"
      BY <3>2, ActivePcs, Unseated DEF Seat
    <3>3. QED
      BY <2>2, <3>1, <3>2
  <2>4. Alone'
    BY <1>1, <2>2, ActivePcs DEF Alone, Active, Resuming, Running, Dispatching, Ending
  <2>5. QED
    BY <2>3, <2>4
<1>7. QED
  BY <1>2, <1>3, <1>4, <1>5, <1>6 DEF Cancelling, Sweeping

\* An idle thread only begins; one that has inserted the row registers or fails.
LEMMA StepStarts ==
    ASSUME TypeInv, NEW t \in Threads, Step(t)
    PROVE  /\ thread[t].pc # "idle"
           /\ thread[t].pc = "inserted" => Register(t) \/ HandlerFails(t)
<1>1. CASE HandlerFails(t) \/ Register(t)
  BY <1>1, PcsNamed DEF HandlerFails, Register
<1>2. CASE ~HandlerFails(t) /\ ~Register(t)
  <2>1. thread[t].pc \in Running \cup Ending \cup {"branch", "store", "recheck", "reread", "promote", "prepare"}
    BY <1>2, PcsNamed
       DEF Step, Loop, Elicit, Agent, Handler, SkipStep, BeginStep, SeeCancel, Arm, Preempt, Deadline,
           Work, Save, Check, Finish, MarkEnd, Leave, Park, Consult, ConsumeStatus, ConsumeResponse,
           Answer, PersistGate, Suspend, PersistAsk, AskAnswered, AskGivenUp, AgentEnter, AgentAsks,
           AgentSuspends, AgentStops, AgentLeave, SubmitHot, SubmitCold, StoreResponse, ResumeCheck,
           ResumeRead, ResumePromote, Enter, At
  <2>2. QED
    BY <2>1, PcsNamed
<1>3. QED
  BY <1>1, <1>2

LEMMA BeginningStep ==
    ASSUME TypeInv, Beginning, [Next]_vars PROVE Beginning'
<1>1. row \in Row /\ \A u \in Threads : thread[u] \in Thread
  BY StateTypes DEF Good
<1> SUFFICES /\ row'.status = "none" =>
                    row' = NoRow /\ boot' = "idle" /\ \A u \in Threads : thread'[u] = Idle
             /\ \A t \in Threads : thread'[t].pc = "inserted" =>
                    boot' = "idle" /\ row'.pending = 0
                      /\ \A u \in Threads \ {t} : thread'[u].pc = "idle"
  BY DEF Beginning
<1>2. ASSUME NEW t \in Threads, Spawn(t)
      PROVE  /\ row'.status # "none" /\ boot' = "idle" /\ row'.pending = 0
             /\ \A u \in Threads \ {t} : thread'[u].pc = "idle"
             /\ thread'[t].pc = "inserted"
  <2>1. row = NoRow /\ boot = "idle" /\ \A u \in Threads : thread[u] = Idle
    BY <1>2 DEF Spawn, Beginning
  <2>2. thread'[t] = [Idle EXCEPT !.pc = "inserted"] /\ \A u \in Threads \ {t} : thread'[u] = Idle
    BY <1>2, <2>1, SetIs DEF Spawn, Go
  <2>3. row' = [NoRow EXCEPT !.status = "pending"] /\ boot' = boot
    BY <1>2, <2>1 DEF Spawn, Others
  <2>4. QED
    BY <2>1, <2>2, <2>3 DEF NoRow, Idle
<1>3. ASSUME NEW t \in Threads, Submit(t) PROVE Beginning'
  <2>1. row.pending # 0 /\ row' = row /\ thread[t].pc = "idle"
    BY <1>3 DEF Submit, At
  <2>2. row.status # "none" /\ \A u \in Threads : thread[u].pc # "inserted"
    BY <2>1 DEF Beginning, NoRow
  <2>3. thread'[t].pc # "inserted" /\ \A u \in Threads \ {t} : thread'[u] = thread[u]
    <3>1. PICK n : Set(t, [thread[t] EXCEPT !.pc = "branch", !.eid = row.pending, !.step = row.step, !.note = n])
      BY <1>3 DEF Submit
    <3>2. /\ thread'[t] = [thread[t] EXCEPT !.pc = "branch", !.eid = row.pending, !.step = row.step, !.note = n]
          /\ \A u \in Threads \ {t} : thread'[u] = thread[u]
      BY <3>1, SetIs
    <3>3. QED
      BY <1>1, <3>2 DEF Thread
  <2>4. \A u \in Threads : thread'[u].pc # "inserted"
    BY <2>2, <2>3
  <2>5. QED
    BY <2>1, <2>2, <2>4 DEF Beginning
<1>4. ASSUME NEW t \in Threads, Step(t) PROVE Beginning'
  <2>1. row.status # "none"
    BY <1>4, StepStarts DEF Beginning, Idle
  <2>2. row'.status # "none"
    <3>1. CASE SameStatus
      BY <2>1, <3>1 DEF SameStatus
    <3>2. CASE MarkEnd(t)
      <4>1. thread[t].note \in Terminal
        BY <3>2, StateTypes DEF MarkEnd, At, Good, Sane
      <4>2. thread[t].note \in Statuses \ {"none"}
        BY <4>1 DEF Statuses, Terminal
      <4>3. QED
        BY <2>1, <3>2, <4>2, MarkRespects DEF MarkEnd, Lossy
    <3>3. CASE ConsumeStatus(t) \/ Suspend(t) \/ AgentSuspends(t) \/ ResumePromote(t)
      <4>1. {"running", "waiting"} \subseteq Statuses \ {"none"}
        BY DEF Statuses
      <4>2. QED
        BY <2>1, <3>3, <4>1, MarkRespects
           DEF ConsumeStatus, Suspend, AgentSuspends, ResumePromote, Lossy
    <3>4. CASE Enter(t)
      BY <1>1, <2>1, <3>4 DEF Enter, Write, Lossy, Row
    <3>5. CASE Spawn(t)
      BY <2>1, <3>5 DEF Spawn
    <3>6. QED
      BY <1>4, <3>1, <3>2, <3>3, <3>4, <3>5, StepKinds, StatusIsKept
         DEF LoopMoves, ElicitMoves, AgentMoves, HandlerMoves
  <2>3. \A u \in Threads \ {t} : thread[u].pc # "inserted"
    BY <1>4, StepStarts DEF Beginning
  <2>4. ASSUME NEW u \in Threads PROVE thread'[u].pc # "inserted"
    <3>1. CASE u # t
      <4>1. thread'[u].pc = thread[u].pc
        <5>1. CASE SubmitHot(t)
          BY <1>1, <3>1, <5>1 DEF SubmitHot, Thread
        <5>2. CASE ~SubmitHot(t)
          BY <1>4, <3>1, <5>2, ThreadLate
        <5>3. QED
          BY <5>1, <5>2
      <4>2. QED
        BY <2>3, <3>1, <4>1
    <3>2. CASE u = t
      <4>1. CASE thread[t].pc = "inserted"
        <5>1. CASE Register(t)
          <6>1. thread'[t] = [thread[t] EXCEPT !.pc = "prepare"]
            BY <5>1, SetIs DEF Register, Go
          <6>2. QED
            BY <1>1, <3>2, <6>1 DEF Thread
        <5>2. CASE HandlerFails(t)
          BY <3>2, <5>2, SetIs DEF HandlerFails, Idle
        <5>3. QED
          BY <1>4, <4>1, <5>1, <5>2, StepStarts
      <4>2. CASE thread[t].pc # "inserted"
        <5>1. CASE SubmitHot(t)
          BY <3>2, <5>1 DEF SubmitHot, Idle
        <5>2. CASE ~SubmitHot(t)
          <6>1. LateStep(t)
            BY <1>4, <5>2, ThreadLate
          <6>2. QED
            BY <2>1, <3>2, <6>1 DEF LateStep
        <5>3. QED
          BY <5>1, <5>2
      <4>3. QED
        BY <4>1, <4>2
    <3>3. QED
      BY <3>1, <3>2
  <2>5. QED
    BY <2>2, <2>4 DEF Beginning
<1>5. CASE row.status = "none" /\ (Cancelling \/ Delete \/ Subscribe \/ Reap \/ Crash \/ Sweeping \/ UNCHANGED vars)
  <2>1. row = NoRow /\ boot = "idle" /\ \A u \in Threads : thread[u] = Idle
    BY <1>5 DEF Beginning
  <2>2. row' = row /\ boot' = boot
    BY <1>5, <2>1
       DEF Cancelling, CancelRow, CancelSignal, DropSignal, DropRow, CancelCas, Write, Delete, DeleteRun, DeleteWorkflow, Deleted, Subscribe,
           Reap, Crash, Sweeping, SweepSpare, SweepFail, SweepRedrive, SweepDies, vars, Rest, Others,
           Terminal
  <2>3. thread' = thread
    <3>1. CASE CancelSignal \/ DropSignal
      <4>1. ASSUME NEW u \in Threads
            PROVE  [thread[u] EXCEPT !.woken = @ \/ (thread[u].h = current /\ thread[u].pc \in Dispatching)]
                     = thread[u]
        <5>1. thread[u].woken = FALSE /\ thread[u].pc \notin Dispatching
          BY <2>1, PcsNamed DEF Idle
        <5>2. (thread[u].woken \/ (thread[u].h = current /\ thread[u].pc \in Dispatching)) = thread[u].woken
          BY <5>1
        <5>3. QED
          BY <1>1, <5>2 DEF Thread
      <4>2. thread' = thread \/ thread' = [u \in Threads |-> thread[u]]
        BY <3>1, <4>1 DEF CancelSignal, DropSignal, Signal
      <4>3. QED
        BY <4>2, StateTypes
    <3>2. CASE CancelRow \/ DropRow \/ Delete \/ Subscribe \/ Reap \/ UNCHANGED vars
      BY <3>2 DEF CancelRow, DropRow, Delete, DeleteRun, DeleteWorkflow, Deleted, Subscribe, Reap, vars, Rest
    <3>3. ~Crash /\ ~Sweeping
      BY <1>5, <2>1 DEF Crash, Sweeping, SweepSpare, SweepFail, SweepRedrive, SweepDies
    <3>4. QED
      BY <1>5, <3>1, <3>2, <3>3 DEF Cancelling
  <2>4. QED
    BY <2>1, <2>2, <2>3 DEF Idle
<1>6. CASE row.status # "none" /\ (Cancelling \/ Delete \/ Subscribe \/ Reap \/ UNCHANGED vars)
  <2>1. row'.status # "none" /\ boot' = boot /\ (row'.pending = row.pending \/ row'.pending = 0)
    BY <1>1, <1>6
       DEF Cancelling, CancelRow, CancelSignal, DropSignal, DropRow, CancelCas, Write, Delete, DeleteRun, DeleteWorkflow, Deleted, Subscribe,
           Reap, vars, Rest, Others, NoRow, Row
  <2>2. \A u \in Threads : thread'[u].pc = thread[u].pc
    <3>1. CASE CancelSignal \/ DropSignal
      BY <1>1, <3>1 DEF CancelSignal, DropSignal, Signal, Thread
    <3>2. CASE CancelRow \/ DropRow \/ Delete \/ Subscribe \/ Reap \/ UNCHANGED vars
      BY <3>2 DEF CancelRow, DropRow, Delete, DeleteRun, DeleteWorkflow, Deleted, Subscribe, Reap, vars, Rest
    <3>3. QED
      BY <1>6, <3>1, <3>2 DEF Cancelling
  <2>3. QED
    BY <2>1, <2>2 DEF Beginning
<1>7. CASE row.status # "none" /\ Crash
  <2>1. row'.status # "none" /\ \A u \in Threads : thread'[u].pc = "idle"
    BY <1>1, <1>7 DEF Crash, Row, Idle
  <2>2. QED
    BY <2>1
<1>8. CASE row.status # "none" /\ Sweeping
  <2>1. boot # "idle"
    BY <1>8 DEF Sweeping, SweepSpare, SweepFail, SweepRedrive, SweepDies
  <2>2. row'.status # "none"
    BY <1>1, <1>8 DEF Sweeping, SweepSpare, SweepFail, SweepRedrive, SweepDies, Sweep, Row
  <2>3. \A u \in Threads : thread[u].pc # "inserted"
    BY <2>1 DEF Beginning
  <2>4. ASSUME NEW u \in Threads PROVE thread'[u].pc # "inserted"
    <3>1. CASE SweepSpare \/ SweepFail \/ SweepDies \/ (SweepRedrive /\ row.status # "resumable")
      BY <2>3, <3>1 DEF SweepSpare, SweepFail, SweepDies, SweepRedrive
    <3>2. CASE SweepRedrive /\ row.status = "resumable"
      <4>1. PICK t \in Threads : Go(t, "recheck")
        BY <3>2 DEF SweepRedrive
      <4>2. thread'[t] = [thread[t] EXCEPT !.pc = "recheck"] /\ \A v \in Threads \ {t} : thread'[v] = thread[v]
        BY <4>1, SetIs DEF Go
      <4>3. QED
        BY <1>1, <2>3, <4>2 DEF Thread
    <3>3. QED
      BY <1>8, <3>1, <3>2 DEF Sweeping
  <2>5. QED
    BY <2>2, <2>4
<1>9. QED
  BY <1>2, <1>3, <1>4, <1>5, <1>6, <1>7, <1>8 DEF Next, Beginning

LEMMA RaceStep == ASSUME RaceInv, [Next]_vars PROVE RaceInv'
<1>1. TypeInv /\ Beginning /\ TypeInv' /\ Beginning'
  BY TypeStep, BeginningStep DEF RaceInv
<1>2. ~raced' => ~raced
  <2>1. ASSUME NEW t \in Threads, Spawn(t) \/ Submit(t) \/ Step(t) PROVE ~raced' => ~raced
    BY <2>1 DEF Spawn, Submit, Step, Loop, Elicit, Agent, Handler, Others, SkipStep, BeginStep,
           SeeCancel, Arm, Preempt, Deadline, Work, Save, Check, Finish, MarkEnd, Leave, Park,
           Consult, ConsumeStatus, ConsumeResponse, Answer, PersistGate, Suspend, PersistAsk,
           AskAnswered, AskGivenUp, AgentEnter, AgentAsks, AgentSuspends, AgentStops, AgentLeave,
           SubmitHot, SubmitCold, StoreResponse, ResumeCheck, ResumeRead, ResumePromote, Register,
           HandlerFails, Enter
  <2>2. Cancelling \/ Delete \/ Subscribe \/ Reap \/ Crash \/ Sweeping \/ UNCHANGED vars => (~raced' => ~raced)
    BY DEF Cancelling, CancelRow, CancelSignal, DropSignal, DropRow, Rest, Delete, DeleteRun, DeleteWorkflow, Deleted, Subscribe, Others,
           Reap, Crash, Sweeping, SweepSpare, SweepFail, SweepRedrive, SweepDies, Sweep, vars
  <2>3. QED
    BY <2>1, <2>2 DEF Next
<1>3. ASSUME ~raced', NEW t \in Threads, Spawn(t) \/ Submit(t) \/ Step(t)
      PROVE  Alone' /\ \A u \in Threads : Seat(u)'
  <2>1. ~raced
    BY <1>2, <1>3
  <2>2. CASE ActiveStep(t)
    BY <1>3, <2>1, <2>2, ActiveRace
  <2>3. CASE Spawn(t)
    BY <2>3, SpawnRace
  <2>4. CASE SubmitHot(t)
    BY <2>1, <2>4, HotRace
  <2>5. CASE ResumeCheck(t) /\ ~Resident
    BY <1>3, <2>5, CheckRace
  <2>6. CASE \/ Submit(t) \/ SubmitCold(t) \/ StoreResponse(t) \/ (ResumeCheck(t) /\ Resident)
             \/ (HandlerFails(t) /\ thread[t].pc \notin Active)
    BY <2>1, <2>6, QuietRace
  <2>7. QED
    BY <1>3, <2>2, <2>3, <2>4, <2>5, <2>6, StepKinds DEF ActiveStep, HandlerMoves
<1>4. ~raced' => Alone' /\ \A u \in Threads : Seat(u)'
  BY <1>2, <1>3, RestRace DEF Next
<1>5. QED
  BY <1>1, <1>4 DEF RaceInv

LEMMA RaceInit == Init => RaceInv
<1> SUFFICES ASSUME Init PROVE RaceInv
  OBVIOUS
<1>1. \A t \in Threads : thread[t] = Idle /\ thread[t].pc = "idle"
  BY DEF Init, Idle
<1>2. Alone /\ \A t \in Threads : Seat(t)
  BY <1>1, ActivePcs, Unseated DEF Alone, Seat
<1>3. Beginning
  BY <1>1 DEF Init, Beginning, NoRow
<1>4. QED
  BY <1>2, <1>3, TypeInit DEF RaceInv

LEMMA WorkflowRace == Spec => []RaceInv
BY RaceInit, RaceStep, PTL DEF Spec

\* Unless two resumes overlapped or a live runner lost its handle, one runner at
\* most executes the run: the resume that has found no runner is alone with it.
THEOREM WorkflowOneRunner == Spec => []OneRunner
<1>1. RaceInv => OneRunner
  BY ActivePcs DEF RaceInv, OneRunner, Alone, Runners
<1>2. QED
  BY <1>1, WorkflowRace, PTL

\* A step whose output is saved is never begun again, across suspensions, crashes
\* and resumes, because what a resume reads cannot change until its runner is there.
THEOREM WorkflowSavedStepIsNotRedone == Spec => []SavedStepIsNotRedone
<1>1. RaceInv => SavedStepIsNotRedone
  <2> SUFFICES ASSUME RaceInv, NEW t \in Threads, ~raced, thread[t].pc \in Dispatching \cup {"arming"}
               PROVE  thread[t].step \notin row.outputs
    BY DEF SavedStepIsNotRedone
  <2>1. Seat(t) /\ thread[t].pc \in Running
    BY PcsNamed DEF RaceInv
  <2>2. QED
    BY <2>1 DEF Seat, Seated
<1>2. QED
  BY <1>1, WorkflowRace, PTL

\* While a bounded question waits, its slot holds its sender or the answer is in
\* its channel: no interleaving of the runner with answers empties it otherwise.
THEOREM WorkflowSlotBeforeRecord == Spec => []SlotBeforeRecord
<1>1. RaceInv => SlotBeforeRecord
  BY DEF RaceInv, SlotBeforeRecord, Seat, Seated
<1>2. QED
  BY <1>1, WorkflowRace, PTL

-----------------------------------------------------------------------------
(* A waiting run has a question *)

Open(q) == q.status \notin Terminal \cup {"deleted"}

\* What WaitingHasQuestion leaves aside does not end: an agent's review, resumes
\* that raced, a write or a start that failed.
Quiet == Open(row) /\ ~asked /\ ~raced /\ spent.faults = 0

\* The row q of a run of the workflow p: it waits at a gate, the first step whose
\* output is not saved.
Question(p, q) ==
    q.status = "waiting" =>
        /\ q.pending # 0 /\ q.step \in 1..Len(p) /\ p[q.step] = "gate"
        /\ \A j \in 1..Len(p) : j < q.step => j \in q.outputs
        /\ q.step \notin q.outputs

\* Where a thread of a run that is marked waiting cannot be.
Asleep == {"inserted", "promote", "work", "clearing", "answered", "ask", "parked",
           "agentin", "agent", "agentout", "save", "check"}

\* Where a thread knows which steps are done.
Informed == {"inserted", "promote", "load", "prepare"} \cup Running

\* A thread r beside the row: it has skipped and executed what is saved, no more,
\* and while the run is marked waiting it is not past the question.
Standing(p, r, q) ==
    /\ r.pc \in Informed => r.done \subseteq q.outputs \cup {s \in {r.step} : r.pc = "save"}
    /\ r.pc \in Running => \A j \in 1..Len(p) : j < r.step => j \in q.outputs
    /\ r.pc = "check" => r.step \in q.outputs
    /\ r.pc \in {"gate", "ask"} => r.eid # 0
    /\ r.pc \in {"gate", "suspend"} => p[r.step] = "gate"
    /\ r.pc = "suspend" => q.pending # 0 /\ q.step = r.step
    /\ r.pc # "agentgate" /\ ~(r.pc = "agentout" /\ r.note = "waiting")
    /\ q.status = "waiting" => r.pc \notin Asleep /\ (r.pc \in Running => r.step <= q.step)

Calm(t) == Question(plan, row) /\ Standing(plan, thread[t], row)

WaitInv == RaceInv /\ (Quiet => Question(plan, row) /\ \A t \in Threads : Calm(t))

LEMMA InformedPcs ==
    /\ Asleep \cup {"check", "gate", "ask", "suspend", "agentgate", "agentout"} \subseteq Informed
    /\ Informed \subseteq Active /\ Running \subseteq Informed
    /\ {"idle", "branch", "store", "recheck", "reread", "end", "leave"} \cap Informed = {}
BY PcsNamed DEF Informed, Asleep, Active

\* Who does not know stands anywhere.
LEMMA Elsewhere == \A p, r, q : r.pc \notin Informed => Standing(p, r, q)
<1> SUFFICES ASSUME NEW p, NEW r, NEW q, r.pc \notin Informed PROVE Standing(p, r, q)
  OBVIOUS
<1>1. r.pc \notin Running /\ r.pc \notin Asleep \cup {"check", "gate", "ask", "suspend", "agentgate", "agentout"}
  BY InformedPcs
<1>2. QED
  BY <1>1 DEF Standing

\* What an open row lets a write do.
LEMMA OpenWrites ==
    ASSUME Open(row)
    PROVE  /\ \A r : Write(r) => row' = r
           /\ \A s : MarkStatus(s) => row' = [row EXCEPT !.status = s]
BY DEF Open, Write, MarkStatus

LEMMA RacedStays == ASSUME [Next]_vars, ~raced' PROVE ~raced
<1>1. ASSUME NEW t \in Threads, Spawn(t) \/ Submit(t) \/ Step(t) PROVE ~raced
  BY <1>1 DEF Spawn, Submit, Step, Loop, Elicit, Agent, Handler, Others, SkipStep, BeginStep,
         SeeCancel, Arm, Preempt, Deadline, Work, Save, Check, Finish, MarkEnd, Leave, Park,
         Consult, ConsumeStatus, ConsumeResponse, Answer, PersistGate, Suspend, PersistAsk,
         AskAnswered, AskGivenUp, AgentEnter, AgentAsks, AgentSuspends, AgentStops, AgentLeave,
         SubmitHot, SubmitCold, StoreResponse, ResumeCheck, ResumeRead, ResumePromote, Register,
         HandlerFails, Enter
<1>2. CASE Cancelling \/ Delete \/ Subscribe \/ Reap \/ Crash \/ Sweeping \/ UNCHANGED vars
  BY <1>2 DEF Cancelling, CancelRow, CancelSignal, DropSignal, DropRow, Rest, Delete, DeleteRun, DeleteWorkflow, Deleted, Subscribe, Others,
         Reap, Crash, Sweeping, SweepSpare, SweepFail, SweepRedrive, SweepDies, Sweep, vars
<1>3. QED
  BY <1>1, <1>2 DEF Next

\* The workflow of the run stays, and that its agent has asked.
LEMMA AskedStays == ASSUME [Next]_vars PROVE plan' = plan /\ (~asked' => ~asked)
<1>1. ASSUME NEW t \in Threads, Spawn(t) \/ Submit(t) \/ Step(t) PROVE plan' = plan /\ (~asked' => ~asked)
  <2>1. Loop(t) => UNCHANGED <<plan, asked>>
    BY DEF Loop, Others, SkipStep, BeginStep, SeeCancel, Arm, Preempt, Deadline, Work, Save, Check,
           Finish, MarkEnd, Leave, Park
  <2>2. Elicit(t) => UNCHANGED <<plan, asked>>
    BY DEF Elicit, Others, Consult, ConsumeStatus, ConsumeResponse, Answer, PersistGate, Suspend,
           PersistAsk, AskAnswered, AskGivenUp
  <2>3. AgentEnter(t) => UNCHANGED <<plan, asked>>
    BY DEF Others, AgentEnter
  <2>4. AgentSuspends(t) => UNCHANGED <<plan, asked>>
    BY DEF Others, AgentSuspends
  <2>5. AgentStops(t) \/ AgentLeave(t) => UNCHANGED <<plan, asked>>
    BY DEF Others, AgentStops, AgentLeave
  <2>6. Handler(t) /\ ~ResumeCheck(t) => UNCHANGED <<plan, asked>>
    BY DEF Handler, Others, SubmitHot, SubmitCold, StoreResponse, ResumeRead,
           ResumePromote, Register, HandlerFails, Enter
  <2>7. ResumeCheck(t) \/ Spawn(t) \/ Submit(t) => UNCHANGED <<plan, asked>>
    BY DEF Others, ResumeCheck, Spawn, Submit
  <2>8. AgentAsks(t) => plan' = plan /\ asked'
    <3>1. AgentAsks(t) => plan' = plan
      BY DEF AgentAsks
    <3>2. AgentAsks(t) => asked'
      BY Zenon DEF AgentAsks
    <3>3. QED
      BY <3>1, <3>2
  <2>9. Agent(t) => AgentEnter(t) \/ AgentAsks(t) \/ AgentSuspends(t) \/ AgentStops(t) \/ AgentLeave(t)
    BY DEF Agent
  <2>10. UNCHANGED <<plan, asked>> \/ (plan' = plan /\ asked')
    BY <1>1, <2>1, <2>2, <2>3, <2>4, <2>5, <2>6, <2>7, <2>8, <2>9 DEF Step
  <2>11. QED
    BY <2>10
<1>2. CASE Cancelling \/ Delete \/ Subscribe \/ Reap \/ Crash \/ Sweeping \/ UNCHANGED vars
  BY <1>2 DEF Cancelling, CancelRow, CancelSignal, DropSignal, DropRow, Rest, Delete, DeleteRun, DeleteWorkflow, Deleted, Subscribe, Others,
         Reap, Crash, Sweeping, SweepSpare, SweepFail, SweepRedrive, SweepDies, Sweep, vars
<1>3. QED
  BY <1>1, <1>2 DEF Next

LEMMA QuietBefore == ASSUME TypeInv, [Next]_vars, Quiet' PROVE Quiet
<1>1. Open(row)
  BY StepRespects DEF Quiet, Open, Respects, Terminal
<1>2. spent.faults = 0
  <2>1. spent.faults \in Nat /\ spent'.faults >= spent.faults /\ spent'.faults = 0
    BY FaultsGrow, StateTypes DEF Quiet
  <2>2. QED
    BY <2>1
<1>3. QED
  BY <1>1, <1>2, RacedStays, AskedStays DEF Quiet

\* No step of a quiet run fails half-way, or is that of an agent that asks.
LEMMA NoFault == ASSUME TypeInv, Quiet' PROVE ~Fault /\ ~asked'
BY FaultCounts DEF Quiet

\* What the invariant says of one thread.
LEMMA CalmFacts ==
    ASSUME WaitInv, Quiet, NEW t \in Threads
    PROVE  /\ TypeInv /\ Seat(t) /\ Calm(t) /\ Open(row) /\ ~asked
           /\ thread[t] \in Thread /\ row \in Row /\ plan \in Seq(Kinds) /\ Len(plan) \in Nat
           /\ thread[t].step \in Nat /\ row.step \in Nat
           /\ thread[t].pc \in Stepping => thread[t].step \in 1..Len(plan)
           /\ Steps = 1..Len(plan)
<1>1. TypeInv /\ Seat(t) /\ Calm(t) /\ Open(row) /\ ~asked /\ Good(thread[t]) /\ row \in Row
  BY StateTypes DEF WaitInv, RaceInv, Quiet
<1>2. plan \in Seq(Kinds) /\ Len(plan) \in Nat
  BY <1>1, StepsAreNat
<1>3. QED
  BY <1>1, <1>2 DEF Good, Sane, Thread, Row, Steps

\* While the run is marked waiting, the step a runner executes is the question's.
LEMMA AtTheQuestion ==
    ASSUME WaitInv, Quiet, NEW t \in Threads, row.status = "waiting",
           thread[t].pc \in Dispatching \cup {"arming"}
    PROVE  thread[t].step = row.step /\ plan[thread[t].step] = "gate"
<1>1. /\ Seat(t) /\ Calm(t) /\ thread[t].step \in 1..Len(plan) /\ row.step \in Nat /\ Len(plan) \in Nat
      /\ thread[t].pc \in Running
  BY CalmFacts, PcsNamed
<1>2. thread[t].step <= row.step /\ Question(plan, row)
  BY <1>1 DEF Calm, Standing
<1>3. thread[t].step \notin row.outputs
  BY <1>1 DEF Seat, Seated
<1>4. ~(thread[t].step < row.step)
  BY <1>1, <1>2, <1>3 DEF Question
<1>5. thread[t].step = row.step
  BY <1>1, <1>2, <1>4
<1>6. QED
  BY <1>2, <1>5 DEF Question

\* The row keeps its question when nothing of it changes but what is not asked for.
LEMMA SameQuestion ==
    ASSUME NEW p, NEW q, NEW o, Question(p, q), o.status = q.status, o.pending = q.pending,
           o.step = q.step, o.outputs = q.outputs
    PROVE  Question(p, o) /\ \A r : Standing(p, r, q) => Standing(p, r, o)
<1>1. Question(p, o)
  BY DEF Question
<1>2. ASSUME NEW r, Standing(p, r, q) PROVE Standing(p, r, o)
  BY <1>2 DEF Standing
<1>3. QED
  BY <1>1, <1>2

\* A thread that leaves, ends or has nothing to do with the run.
LEMMA Gone ==
    ASSUME TypeInv, NEW t \in Threads, plan' = plan, Question(plan, row'),
           (\E o : End(t, o)) \/ Set(t, Idle)
           \/ \E pc \in {"leave", "branch", "store", "recheck", "reread"} : Go(t, pc)
    PROVE  Calm(t)'
<1>1. thread[t] \in Thread
  BY StateTypes DEF Good
<1>2. ASSUME NEW o, End(t, o) PROVE thread'[t].pc = "end"
  <2>1. thread'[t] = [Idle EXCEPT !.pc = "end", !.note = o, !.h = thread[t].h]
    BY <1>2, SetIs DEF End
  <2>2. QED
    BY <2>1 DEF Idle
<1>3. CASE Set(t, Idle)
  <2>1. thread'[t].pc = "idle"
    BY <1>3, SetIs DEF Idle
  <2>2. QED
    BY <2>1, InformedPcs, Elsewhere DEF Calm
<1>4. ASSUME NEW pc, Go(t, pc) PROVE thread'[t].pc = pc
  <2>1. thread'[t] = [thread[t] EXCEPT !.pc = pc]
    BY <1>4, SetIs DEF Go
  <2>2. QED
    BY <1>1, <2>1 DEF Thread
<1>5. thread'[t].pc \notin Informed \/ Set(t, Idle)
  BY <1>2, <1>4, InformedPcs
<1>6. QED
  BY <1>3, <1>5, Elsewhere DEF Calm

\* A thread that is given another pc, while the row stays or changes in what is
\* not asked for.
LEMMA Lying ==
    ASSUME WaitInv, Quiet, NEW t \in Threads, plan' = plan, NEW r, r.step = thread[t].step,
           r.done = thread[t].done, thread[t].pc \in Informed \ {"save"},
           r.pc \in Running => thread[t].pc \in Running,
           r.pc \in {"gate", "ask"} => r.eid # 0,
           r.pc = "gate" => plan[r.step] = "gate",
           r.pc \notin {"suspend", "agentgate", "agentout", "check"},
           row'.status = "waiting" => r.pc \notin Asleep,
           row'.outputs = row.outputs, Question(plan, row'),
           row'.status = "waiting" => row.status = "waiting" /\ row'.step = row.step,
           thread'[t] = r
    PROVE  Calm(t)'
<1>1. Calm(t)
  BY CalmFacts
<1>2. thread[t].done \subseteq row.outputs
  BY <1>1 DEF Calm, Standing
<1>3. r.pc \in Running => \A j \in 1..Len(plan) : j < r.step => j \in row.outputs
  BY <1>1 DEF Calm, Standing
<1>4. row'.status = "waiting" => r.pc \notin Asleep /\ (r.pc \in Running => r.step <= row'.step)
  BY <1>1 DEF Calm, Standing
<1>5. Standing(plan, r, row')
  BY <1>2, <1>3, <1>4 DEF Standing
<1>6. QED
  BY <1>5 DEF Calm

LEMMA Completing ==
    ASSUME WaitInv, Quiet, NEW t \in Threads, plan' = plan, Completes(t),
           thread[t].pc \in Dispatching, row'.outputs = row.outputs, row'.status # "waiting"
    PROVE  Calm(t)'
<1>1. thread[t] \in Thread /\ TypeInv /\ Calm(t)
  BY CalmFacts
<1>2. PICK r : r = [thread[t] EXCEPT !.pc = "save", !.eid = 0, !.got = FALSE,
                                     !.done = @ \cup {thread[t].step}]
  OBVIOUS
<1>3. thread'[t] = r /\ r.pc = "save" /\ r.step = thread[t].step /\ r.done = thread[t].done \cup {thread[t].step}
  BY <1>1, <1>2, SetIs DEF Completes, Thread
<1>4. thread[t].pc \in Running /\ thread[t].pc \in Informed /\ thread[t].pc # "save"
  BY InformedPcs, PcsNamed DEF Dispatching
<1>5. /\ thread[t].done \subseteq row.outputs
      /\ \A j \in 1..Len(plan) : j < r.step => j \in row.outputs
  BY <1>1, <1>3, <1>4 DEF Calm, Standing
<1>6. Standing(plan, r, row')
  BY <1>3, <1>5 DEF Standing
<1>7. QED
  BY <1>3, <1>6 DEF Calm, Question

LEMMA LoopCalm ==
    ASSUME WaitInv, Quiet, Quiet', NEW t \in Threads, plan' = plan,
           LoopMoves(t) \/ SkipStep(t) \/ BeginStep(t) \/ Check(t)
    PROVE  Calm(t)'
<1>1. /\ TypeInv /\ Seat(t) /\ Calm(t) /\ Open(row) /\ thread[t] \in Thread /\ row \in Row
      /\ Len(plan) \in Nat /\ thread[t].step \in Nat /\ row.step \in Nat
      /\ thread[t].pc \in Stepping => thread[t].step \in 1..Len(plan)
      /\ Steps = 1..Len(plan) /\ Question(plan, row) /\ Standing(plan, thread[t], row)
  BY CalmFacts DEF Calm
<1>2. ~Fault
  BY <1>1, NoFault
<1>3. CASE SeeCancel(t) \/ Preempt(t) \/ Deadline(t) \/ Finish(t) \/ Leave(t) \/ Park(t)
  <2>1. row' = row
    BY <1>3 DEF SeeCancel, Preempt, Deadline, Finish, Leave, Park, Others
  <2>2. (\E o : End(t, o)) \/ Set(t, Idle)
    BY <1>3 DEF SeeCancel, Preempt, Deadline, Finish, Leave, Park
  <2>3. QED
    BY <1>1, <2>1, <2>2, Gone
<1>4. CASE Arm(t)
  <2>1. PICK pc : /\ Go(t, pc) /\ pc \in {"work", "agentin", "consult"}
                  /\ pc = "work" => plan[thread[t].step] = "work"
                  /\ pc = "agentin" => plan[thread[t].step] = "agent"
    BY <1>4 DEF Arm
  <2>2. row' = row /\ thread[t].pc = "arming"
    BY <1>4 DEF Arm, At
  <2>3. row.status = "waiting" => pc = "consult"
    BY <2>1, <2>2, AtTheQuestion
  <2>4. PICK r : r = [thread[t] EXCEPT !.pc = pc]
    OBVIOUS
  <2>5. thread'[t] = r /\ r.pc = pc /\ r.step = thread[t].step /\ r.done = thread[t].done
    BY <1>1, <2>1, <2>4, SetIs DEF Go, Thread
  <2>6. "arming" \in Informed \ {"save"} /\ "arming" \in Running
    BY InformedPcs, PcsNamed
  <2>7. "consult" \notin Asleep
    BY DEF Asleep
  <2>8. QED
    BY <1>1, <2>1, <2>2, <2>3, <2>5, <2>6, <2>7, Lying
<1>5. CASE Work(t)
  <2>1. row' = row /\ thread[t].pc = "work"
    BY <1>5 DEF Work, At
  <2>2. CASE Completes(t)
    <3>1. thread[t].pc \in Dispatching /\ "work" \in Asleep
      BY <2>1 DEF Dispatching, Asleep
    <3>2. row.status # "waiting"
      BY <1>1, <2>1, <3>1 DEF Standing
    <3>3. QED
      BY <2>1, <2>2, <3>1, <3>2, Completing
  <2>3. QED
    BY <1>1, <1>5, <2>1, <2>2, Gone DEF Work
<1>6. CASE Save(t)
  <2>1. row' = [row EXCEPT !.outputs = @ \cup {thread[t].step}] /\ thread[t].pc = "save"
    BY <1>1, <1>2, <1>6, OpenWrites DEF Save, Lossy, At
  <2>2. /\ row'.outputs = row.outputs \cup {thread[t].step} /\ row'.status = row.status
        /\ row'.pending = row.pending /\ row'.step = row.step
    BY <1>1, <2>1 DEF Row
  <2>3. {"save", "check"} \subseteq Running \cap Informed /\ "save" \in Asleep
    BY InformedPcs, PcsNamed DEF Asleep
  <2>4. /\ row.status # "waiting" /\ thread[t].done \subseteq row.outputs \cup {thread[t].step}
        /\ \A j \in 1..Len(plan) : j < thread[t].step => j \in row.outputs
    BY <1>1, <2>1, <2>3 DEF Standing
  <2>5. Question(plan, row')
    BY <2>2, <2>4 DEF Question
  <2>6. CASE Go(t, "check")
    <3>1. PICK r : r = [thread[t] EXCEPT !.pc = "check"]
      OBVIOUS
    <3>2. thread'[t] = r /\ r.pc = "check" /\ r.step = thread[t].step /\ r.done = thread[t].done
      BY <1>1, <2>6, <3>1, SetIs DEF Go, Thread
    <3>3. Standing(plan, r, row')
      BY <2>2, <2>4, <3>2 DEF Standing
    <3>4. QED
      BY <2>5, <3>2, <3>3 DEF Calm
  <2>7. QED
    BY <1>1, <1>6, <2>5, <2>6, Gone DEF Save
<1>7. CASE MarkEnd(t)
  <2>1. row' = [row EXCEPT !.status = thread[t].note] /\ thread[t].note \in Terminal
    BY <1>1, <1>2, <1>7, OpenWrites, StateTypes DEF MarkEnd, Lossy, At, Good, Sane
  <2>2. row'.status \in Terminal
    BY <1>1, <2>1 DEF Row
  <2>3. QED
    BY <2>2 DEF Quiet, Open
<1>8. CASE SkipStep(t)
  <2>1. /\ row' = row /\ thread[t].pc = "top" /\ thread[t].step \in 1..Len(plan)
        /\ thread[t].step \in thread[t].done
    BY <1>1, <1>8 DEF SkipStep, At, Skipped
  <2>2. PICK r : r = [thread[t] EXCEPT !.step = @ + 1]
    OBVIOUS
  <2>3. /\ thread'[t] = r /\ r.pc = "top" /\ r.step = thread[t].step + 1 /\ r.done = thread[t].done
    BY <1>1, <1>8, <2>1, <2>2, SetIs DEF SkipStep, Thread
  <2>4. "top" \in Running \cap Informed /\ "top" \notin Asleep
    BY InformedPcs, PcsNamed DEF Asleep
  <2>5. thread[t].done \subseteq row.outputs
    BY <1>1, <2>1, <2>4 DEF Standing
  <2>6. \A j \in 1..Len(plan) : j < r.step => j \in row.outputs
    <3>1. \A j \in 1..Len(plan) : j < thread[t].step => j \in row.outputs
      BY <1>1, <2>1, <2>4 DEF Standing
    <3>2. QED
      BY <1>1, <2>1, <2>3, <2>5, <3>1
  <2>7. row.status = "waiting" => r.step <= row.step
    <3>1. row.status = "waiting" => thread[t].step <= row.step /\ row.step \notin row.outputs
      BY <1>1, <2>1, <2>4 DEF Standing, Question
    <3>2. QED
      BY <1>1, <2>1, <2>3, <2>5, <3>1
  <2>8. Standing(plan, r, row)
    BY <2>3, <2>4, <2>5, <2>6, <2>7 DEF Standing
  <2>9. QED
    BY <1>1, <2>1, <2>3, <2>8 DEF Calm
<1>9. CASE BeginStep(t)
  <2>1. row' = row /\ thread[t].pc = "top"
    BY <1>9 DEF BeginStep, At
  <2>2. PICK r : r = [thread[t] EXCEPT !.pc = "arming", !.woken = FALSE, !.late = row.status = "cancelled"]
    OBVIOUS
  <2>3. /\ thread'[t] = r /\ r.pc = "arming" /\ r.step = thread[t].step /\ r.done = thread[t].done
    BY <1>1, <1>9, <2>2, SetIs DEF BeginStep, Thread
  <2>4. "top" \in Informed \ {"save"} /\ "top" \in Running /\ "arming" \notin Asleep
    BY InformedPcs, PcsNamed DEF Asleep
  <2>5. QED
    BY <1>1, <2>1, <2>3, <2>4, Lying
<1>10. CASE Check(t)
  <2>1. row' = row /\ thread[t].pc = "check"
    BY <1>10 DEF Check, At
  <2>2. CASE Set(t, [thread[t] EXCEPT !.pc = "top", !.step = @ + 1])
    <3>1. PICK r : r = [thread[t] EXCEPT !.pc = "top", !.step = @ + 1]
      OBVIOUS
    <3>2. /\ thread'[t] = r /\ r.pc = "top" /\ r.step = thread[t].step + 1 /\ r.done = thread[t].done
      BY <1>1, <2>2, <3>1, SetIs DEF Thread
    <3>3. {"top", "check"} \subseteq Running \cap Informed /\ "check" \in Asleep
      BY InformedPcs, PcsNamed DEF Asleep
    <3>4. /\ thread[t].done \subseteq row.outputs /\ row.status # "waiting" /\ thread[t].step \in row.outputs
          /\ \A j \in 1..Len(plan) : j < thread[t].step => j \in row.outputs
      BY <1>1, <2>1, <3>3 DEF Standing
    <3>5. \A j \in 1..Len(plan) : j < r.step => j \in row.outputs
      BY <1>1, <3>2, <3>4
    <3>6. Standing(plan, r, row)
      BY <3>2, <3>4, <3>5 DEF Standing
    <3>7. QED
      BY <1>1, <2>1, <3>2, <3>6 DEF Calm
  <2>3. QED
    BY <1>1, <1>10, <2>1, <2>2, Gone DEF Check
<1>11. QED
  BY <1>3, <1>4, <1>5, <1>6, <1>7, <1>8, <1>9, <1>10 DEF LoopMoves

LEMMA ElicitCalm ==
    ASSUME WaitInv, Quiet, Quiet', NEW t \in Threads, plan' = plan, ElicitMoves(t) \/ Consult(t)
    PROVE  Calm(t)'
<1>1. /\ TypeInv /\ Seat(t) /\ Calm(t) /\ Open(row) /\ thread[t] \in Thread /\ row \in Row
      /\ Len(plan) \in Nat /\ thread[t].step \in Nat /\ row.step \in Nat
      /\ thread[t].pc \in Stepping => thread[t].step \in 1..Len(plan)
      /\ Steps = 1..Len(plan) /\ Question(plan, row) /\ Standing(plan, thread[t], row)
  BY CalmFacts DEF Calm
<1>2. ~Fault
  BY <1>1, NoFault
<1>3. thread[t].pc \in Dispatching /\ thread[t].pc \in Running /\ thread[t].pc \in Informed \ {"save"}
  BY PcsNamed, InformedPcs
     DEF ElicitMoves, Consult, ConsumeStatus, ConsumeResponse, Answer, PersistGate, Suspend,
     PersistAsk, AskAnswered, AskGivenUp, At, Dispatching
\* It goes on to pc.
<1>4. ASSUME NEW pc, Go(t, pc), pc \notin {"gate", "ask", "suspend", "agentgate", "agentout", "check"},
             row'.status = "waiting" => pc \notin Asleep,
             row'.outputs = row.outputs, Question(plan, row'),
             row'.status = "waiting" => row.status = "waiting" /\ row'.step = row.step
      PROVE  Calm(t)'
  <2>1. PICK r : r = [thread[t] EXCEPT !.pc = pc]
    OBVIOUS
  <2>2. thread'[t] = r /\ r.pc = pc /\ r.step = thread[t].step /\ r.done = thread[t].done
    BY <1>1, <1>4, <2>1, SetIs DEF Go, Thread
  <2>3. QED
    BY <1>3, <1>4, <2>2, Lying
<1>5. CASE ConsumeStatus(t)
  <2>1. row' = [row EXCEPT !.status = "running"] /\ Go(t, "clearing")
    BY <1>1, <1>2, <1>5, OpenWrites DEF ConsumeStatus, Lossy
  <2>2. row'.status = "running" /\ row'.outputs = row.outputs
    BY <1>1, <2>1 DEF Row
  <2>3. QED
    BY <1>4, <2>1, <2>2 DEF Question
<1>6. CASE ConsumeResponse(t) \/ AskAnswered(t)
  <2>1. /\ Go(t, "answered") /\ thread[t].pc \in Asleep
        /\ row' = row \/ row' = [row EXCEPT !.response = 0]
    BY <1>1, <1>2, <1>6, OpenWrites DEF ConsumeResponse, AskAnswered, Lossy, At, Asleep
  <2>2. row'.status = row.status /\ row'.outputs = row.outputs
    BY <1>1, <2>1 DEF Row
  <2>3. row.status # "waiting"
    BY <1>1, <2>1 DEF Standing
  <2>4. QED
    BY <1>4, <2>1, <2>2, <2>3 DEF Question
<1>7. CASE Answer(t) \/ AskGivenUp(t)
  <2>1. row' = [row EXCEPT !.pending = 0, !.step = 0] /\ thread[t].pc \in Asleep
    BY <1>1, <1>2, <1>7, OpenWrites DEF Answer, AskGivenUp, Lossy, At, Asleep, NoQuestion
  <2>2. row'.status = row.status /\ row'.outputs = row.outputs
    BY <1>1, <2>1 DEF Row
  <2>3. row'.status # "waiting"
    BY <1>1, <2>1, <2>2 DEF Standing
  <2>4. Completes(t) \/ \E o : End(t, o)
    BY <1>7 DEF Answer, AskGivenUp
  <2>5. QED
    BY <1>1, <1>3, <2>2, <2>3, <2>4, Completing, Gone DEF Question
<1>8. CASE PersistGate(t)
  <2>1. /\ row' = [row EXCEPT !.pending = thread[t].eid, !.step = thread[t].step]
        /\ Go(t, "suspend") /\ thread[t].pc = "gate"
    BY <1>1, <1>2, <1>8, OpenWrites DEF PersistGate, PersistPending, At
  <2>2. /\ row'.pending = thread[t].eid /\ row'.step = thread[t].step
        /\ row'.status = row.status /\ row'.outputs = row.outputs
    BY <1>1, <2>1 DEF Row
  <2>3. /\ thread[t].eid # 0 /\ plan[thread[t].step] = "gate" /\ thread[t].done \subseteq row.outputs
        /\ \A j \in 1..Len(plan) : j < thread[t].step => j \in row.outputs
    BY <1>1, <1>3, <2>1 DEF Standing
  <2>4. row.status = "waiting" => thread[t].step = row.step
    BY <1>3, AtTheQuestion
  <2>5. Question(plan, row')
    BY <1>1, <2>2, <2>3, <2>4 DEF Question
  <2>6. PICK r : r = [thread[t] EXCEPT !.pc = "suspend"]
    OBVIOUS
  <2>7. thread'[t] = r /\ r.pc = "suspend" /\ r.step = thread[t].step /\ r.done = thread[t].done
    BY <1>1, <2>1, <2>6, SetIs DEF Go, Thread
  <2>8. "suspend" \notin Asleep
    BY DEF Asleep
  <2>9. Standing(plan, r, row')
    BY <1>1, <2>2, <2>3, <2>7, <2>8 DEF Standing
  <2>10. QED
    BY <2>5, <2>7, <2>9 DEF Calm
<1>9. CASE Suspend(t)
  <2>1. row' = [row EXCEPT !.status = "waiting"] /\ Go(t, "park") /\ thread[t].pc = "suspend"
    BY <1>1, <1>2, <1>9, OpenWrites DEF Suspend, Lossy, At
  <2>2. /\ row'.pending = row.pending /\ row'.step = row.step
        /\ row'.status = "waiting" /\ row'.outputs = row.outputs
    BY <1>1, <2>1 DEF Row
  <2>3. /\ row.pending # 0 /\ row.step = thread[t].step /\ plan[thread[t].step] = "gate"
        /\ thread[t].done \subseteq row.outputs
        /\ \A j \in 1..Len(plan) : j < thread[t].step => j \in row.outputs
    BY <1>1, <1>3, <2>1 DEF Standing
  <2>4. thread[t].step \in 1..Len(plan) /\ thread[t].step \notin row.outputs
    BY <1>1, <1>3, PcsNamed DEF Seat, Seated
  <2>5. Question(plan, row')
    BY <2>2, <2>3, <2>4 DEF Question
  <2>6. PICK r : r = [thread[t] EXCEPT !.pc = "park"]
    OBVIOUS
  <2>7. thread'[t] = r /\ r.pc = "park" /\ r.step = thread[t].step /\ r.done = thread[t].done
    BY <1>1, <2>1, <2>6, SetIs DEF Go, Thread
  <2>8. "park" \notin Asleep
    BY DEF Asleep
  <2>9. Standing(plan, r, row')
    BY <1>1, <2>2, <2>3, <2>7, <2>8 DEF Standing
  <2>10. QED
    BY <2>5, <2>7, <2>9 DEF Calm
<1>10. CASE PersistAsk(t)
  <2>1. /\ row' = [row EXCEPT !.pending = thread[t].eid, !.step = thread[t].step]
        /\ Go(t, "parked") /\ thread[t].pc = "ask"
    BY <1>1, <1>2, <1>10, OpenWrites DEF PersistAsk, PersistPending, At
  <2>2. row'.status = row.status /\ row'.outputs = row.outputs
    BY <1>1, <2>1 DEF Row
  <2>3. row.status # "waiting"
    BY <1>1, <2>1 DEF Standing, Asleep
  <2>4. QED
    BY <1>4, <2>1, <2>2, <2>3 DEF Question
<1>11. CASE Consult(t)
  <2>1. row' = row /\ thread[t].pc = "consult"
    BY <1>11 DEF Consult, At
  <2>2. CASE Go(t, "consume")
    <3>1. "consume" \notin Asleep
      BY DEF Asleep
    <3>2. QED
      BY <1>1, <1>4, <2>1, <2>2, <3>1
  <2>3. ASSUME NEW pc \in {"gate", "ask"}, Set(t, [thread[t] EXCEPT !.pc = pc, !.eid = spent.elicits + 1]),
               plan[thread[t].step] = pc
        PROVE  Calm(t)'
    <3>1. PICK r : r = [thread[t] EXCEPT !.pc = pc, !.eid = spent.elicits + 1]
      OBVIOUS
    <3>2. thread'[t] = r /\ r.pc = pc /\ r.step = thread[t].step /\ r.done = thread[t].done
          /\ r.eid = spent.elicits + 1
      BY <1>1, <2>3, <3>1, SetIs DEF Thread
    <3>3. spent.elicits + 1 # 0
      BY <1>1, StateTypes, BoundsAssumption DEF Elicits
    <3>4. row.status = "waiting" => pc = "gate"
      BY <1>3, <2>3, AtTheQuestion
    <3>5. "gate" \notin Asleep
      BY DEF Asleep
    <3>6. QED
      BY <1>1, <1>3, <2>1, <2>3, <3>2, <3>3, <3>4, <3>5, Lying
  <2>4. CASE End(t, "failed")
    BY <1>1, <2>1, <2>4, Gone
  <2>5. QED
    BY <1>11, <2>2, <2>3, <2>4 DEF Consult
<1>12. QED
  BY <1>5, <1>6, <1>7, <1>8, <1>9, <1>10, <1>11 DEF ElicitMoves

LEMMA AgentCalm ==
    ASSUME WaitInv, Quiet, Quiet', NEW t \in Threads, plan' = plan,
           AgentMoves(t) \/ AgentSuspends(t) \/ AgentStops(t)
    PROVE  Calm(t)'
<1>1. /\ TypeInv /\ Calm(t) /\ Open(row) /\ thread[t] \in Thread /\ row \in Row
      /\ Question(plan, row) /\ Standing(plan, thread[t], row)
  BY CalmFacts DEF Calm
<1>2. ~Fault /\ ~asked'
  BY <1>1, NoFault
<1>3. thread[t].pc # "agentgate"
  BY <1>1 DEF Standing
<1>4. ~AgentSuspends(t)
  BY <1>3 DEF AgentSuspends, At
<1>5. ~AgentAsks(t)
  BY <1>2, Zenon DEF AgentAsks
<1>6. /\ thread[t].pc \in {"agentin", "agent", "agentout"}
      /\ row.status # "waiting"
  <2>1. thread[t].pc \in {"agentin", "agent", "agentout"}
    BY <1>4, <1>5 DEF AgentMoves, AgentEnter, AgentStops, AgentLeave, At
  <2>2. QED
    BY <1>1, <2>1 DEF Standing, Asleep
<1>7. thread[t].pc \in Dispatching /\ thread[t].pc \in Running /\ thread[t].pc \in Informed /\ thread[t].pc # "save"
  BY <1>6, PcsNamed, InformedPcs DEF Dispatching
<1>8. /\ thread[t].done \subseteq row.outputs
      /\ \A j \in 1..Len(plan) : j < thread[t].step => j \in row.outputs
  BY <1>1, <1>7 DEF Standing
<1>9. CASE AgentEnter(t) \/ AgentLeave(t)
  <2>1. PICK b \in BOOLEAN : row' = [row EXCEPT !.agent = b]
    BY <1>1, <1>2, <1>9, OpenWrites, Zenon DEF AgentEnter, AgentLeave, Lossy
  <2>2. row'.status # "waiting" /\ row'.outputs = row.outputs
    BY <1>1, <1>6, <2>1 DEF Row
  <2>3. CASE AgentEnter(t)
    <3>1. PICK r : r = [thread[t] EXCEPT !.pc = "agent"]
      OBVIOUS
    <3>2. thread'[t] = r /\ r.pc = "agent" /\ r.step = thread[t].step /\ r.done = thread[t].done
      BY <1>1, <2>3, <3>1, SetIs DEF AgentEnter, Go, Thread
    <3>3. QED
      BY <1>7, <2>2, <3>2, Lying DEF Question
  <2>4. CASE AgentLeave(t)
    <3>1. thread[t].note # "waiting"
      BY <1>1, <2>4 DEF AgentLeave, At, Standing
    <3>2. Completes(t) \/ \E o : End(t, o)
      BY <2>4, <3>1 DEF AgentLeave
    <3>3. QED
      BY <1>1, <1>7, <2>2, <3>2, Completing, Gone DEF Question
  <2>5. QED
    BY <1>9, <2>3, <2>4
<1>10. CASE AgentStops(t)
  <2>1. PICK o \in Terminal : Set(t, [thread[t] EXCEPT !.pc = "agentout", !.note = o])
    BY <1>10 DEF AgentStops
  <2>2. PICK r : r = [thread[t] EXCEPT !.pc = "agentout", !.note = o]
    OBVIOUS
  <2>3. /\ thread'[t] = r /\ r.pc = "agentout" /\ r.step = thread[t].step /\ r.done = thread[t].done
        /\ r.note # "waiting"
    BY <1>1, <2>1, <2>2, SetIs DEF Thread, Terminal
  <2>4. row' = row
    BY <1>10 DEF AgentStops
  <2>5. Standing(plan, r, row)
    BY <1>6, <1>8, <2>3 DEF Standing
  <2>6. QED
    BY <1>1, <2>3, <2>4, <2>5 DEF Calm
<1>11. QED
  BY <1>4, <1>5, <1>9, <1>10 DEF AgentMoves

LEMMA HandlerCalm ==
    ASSUME WaitInv, Quiet, Quiet', NEW t \in Threads, plan' = plan,
           Register(t) \/ ResumeRead(t) \/ ResumePromote(t) \/ Enter(t)
    PROVE  Calm(t)'
<1>1. /\ TypeInv /\ Calm(t) /\ Open(row) /\ thread[t] \in Thread /\ row \in Row
      /\ Question(plan, row) /\ Standing(plan, thread[t], row) /\ Len(plan) \in Nat
  BY CalmFacts DEF Calm
<1>2. /\ {"inserted", "load", "prepare", "promote"} \subseteq Informed \ ({"save"} \cup Running)
      /\ {"load", "prepare", "top"} \cap Asleep = {}
      /\ {"inserted", "promote"} \subseteq Asleep
      /\ "top" \in Running
  BY InformedPcs, PcsNamed DEF Asleep, Informed
<1>3. CASE Register(t) \/ ResumePromote(t)
  <2>1. PICK pc \in {"load", "prepare"} : Go(t, pc) /\ (pc = "load" => ResumePromote(t)) /\ (pc = "prepare" => Register(t))
    BY <1>3 DEF Register, ResumePromote
  <2>2. thread[t].pc \in Informed \ {"save"}
    BY <1>2, <1>3 DEF Register, ResumePromote, At
  <2>3. row' = row \/ row' = [row EXCEPT !.status = "running"]
    BY <1>1, <1>3, OpenWrites DEF Register, ResumePromote
  <2>4. /\ row'.outputs = row.outputs /\ Question(plan, row')
        /\ row'.status = "waiting" => row.status = "waiting" /\ row'.step = row.step
    BY <1>1, <2>3 DEF Row, Question
  <2>5. PICK r : r = [thread[t] EXCEPT !.pc = pc]
    OBVIOUS
  <2>6. thread'[t] = r /\ r.pc = pc /\ r.step = thread[t].step /\ r.done = thread[t].done
    BY <1>1, <2>1, <2>5, SetIs DEF Go, Thread
  <2>7. pc \notin Running /\ pc \notin Asleep /\ pc \notin {"suspend", "agentgate", "agentout", "check", "gate", "ask"}
    BY <1>2
  <2>8. QED
    BY <2>2, <2>4, <2>6, <2>7, Lying
<1>4. CASE ResumeRead(t)
  <2>1. row' = row
    BY <1>4 DEF ResumeRead
  <2>2. ASSUME NEW pc \in {"load", "promote"}, Set(t, [thread[t] EXCEPT !.pc = pc, !.done = row.outputs]),
               pc = "promote" => row.status = "resumable"
        PROVE  Calm(t)'
    <3>1. PICK r : r = [thread[t] EXCEPT !.pc = pc, !.done = row.outputs]
      OBVIOUS
    <3>2. thread'[t] = r /\ r.pc = pc /\ r.done = row.outputs
      BY <1>1, <2>2, <3>1, SetIs DEF Thread
    <3>3. pc \notin Running /\ pc # "save" /\ (row.status = "waiting" => pc \notin Asleep)
      BY <1>2, <2>2
    <3>4. Standing(plan, r, row)
      BY <3>2, <3>3, PcsNamed DEF Standing
    <3>5. QED
      BY <1>1, <2>1, <3>2, <3>4 DEF Calm
  <2>3. QED
    BY <1>1, <1>4, <2>1, <2>2, Gone DEF ResumeRead
<1>5. CASE Enter(t)
  <2>1. PICK h \in Handles :
          Set(t, [thread[t] EXCEPT !.pc = "top", !.step = 1, !.h = h, !.note = "none", !.eid = 0])
    BY <1>5 DEF Enter
  <2>2. PICK r : r = [thread[t] EXCEPT !.pc = "top", !.step = 1, !.h = h, !.note = "none", !.eid = 0]
    OBVIOUS
  <2>3. thread'[t] = r /\ r.pc = "top" /\ r.step = 1 /\ r.done = thread[t].done
    BY <1>1, <2>1, <2>2, SetIs DEF Thread
  <2>4. row' = row \/ row' = [row EXCEPT !.status = "running"]
    BY <1>1, <1>5, OpenWrites DEF Enter, Lossy
  <2>5. /\ row'.outputs = row.outputs /\ Question(plan, row')
        /\ row'.status = "waiting" => row.status = "waiting" /\ row'.step = row.step
    BY <1>1, <2>4 DEF Row, Question
  <2>6. thread[t].done \subseteq row.outputs
    <3>1. thread[t].pc = "prepare"
      BY <1>5 DEF Enter, At
    <3>2. QED
      BY <1>1, <1>2, <3>1 DEF Standing
  <2>7. row'.status = "waiting" => r.step <= row'.step
    BY <1>1, <2>3, <2>5 DEF Question
  <2>8. \A j \in 1..Len(plan) : ~(j < r.step)
    BY <1>1, <2>3
  <2>9. Standing(plan, r, row')
    BY <1>2, <2>3, <2>5, <2>6, <2>7, <2>8 DEF Standing
  <2>10. QED
    BY <2>3, <2>5, <2>9 DEF Calm
<1>6. QED
  BY <1>3, <1>4, <1>5

\* What a step leaves of the row's question, when it does not ask or answer one.
Asking == /\ row'.pending = row.pending /\ row'.step = row.step /\ row'.outputs = row.outputs
          /\ row'.status = row.status \/ row'.status # "waiting"

LEMMA AskingStays == ASSUME Question(plan, row), plan' = plan, Asking PROVE Question(plan, row')
BY DEF Asking, Question

LEMMA StillCalm ==
    ASSUME WaitInv, Quiet, NEW u \in Threads, plan' = plan, Asking,
           \/ thread'[u].pc \notin Informed
           \/ /\ thread'[u].pc = thread[u].pc /\ thread'[u].step = thread[u].step
              /\ thread'[u].done = thread[u].done /\ thread'[u].eid = thread[u].eid
              /\ thread'[u].note = thread[u].note
    PROVE  Calm(u)'
<1>1. Question(plan, row) /\ Standing(plan, thread[u], row)
  BY CalmFacts DEF Calm
<1>2. CASE thread'[u].pc \notin Informed
  BY <1>1, <1>2, Elsewhere, AskingStays DEF Calm
<1>3. CASE /\ thread'[u].pc = thread[u].pc /\ thread'[u].step = thread[u].step
           /\ thread'[u].done = thread[u].done /\ thread'[u].eid = thread[u].eid
           /\ thread'[u].note = thread[u].note
  <2>1. Standing(plan, thread'[u], row')
    BY <1>1, <1>3 DEF Standing, Asking
  <2>2. QED
    BY <1>1, <2>1, AskingStays DEF Calm
<1>4. QED
  BY <1>2, <1>3

LEMMA TouchedCalm ==
    ASSUME WaitInv, Quiet, plan' = plan, Asking, Touched, NEW u \in Threads PROVE Calm(u)'
<1>1. thread[u] \in Thread
  BY CalmFacts
<1>2. CASE thread'[u] = thread[u]
  BY <1>2, StillCalm
<1>3. CASE thread'[u] = Idle
  <2>1. thread'[u].pc \notin Informed
    BY <1>3, InformedPcs DEF Idle
  <2>2. QED
    BY <2>1, StillCalm
<1>4. ASSUME NEW b \in BOOLEAN, thread'[u] = [thread[u] EXCEPT !.got = b] PROVE Calm(u)'
  <2>1. /\ thread'[u].pc = thread[u].pc /\ thread'[u].step = thread[u].step
        /\ thread'[u].done = thread[u].done /\ thread'[u].eid = thread[u].eid
        /\ thread'[u].note = thread[u].note
    BY <1>1, <1>4 DEF Thread
  <2>2. QED
    BY <2>1, StillCalm
<1>5. ASSUME NEW b \in BOOLEAN, thread'[u] = [thread[u] EXCEPT !.woken = b] PROVE Calm(u)'
  <2>1. /\ thread'[u].pc = thread[u].pc /\ thread'[u].step = thread[u].step
        /\ thread'[u].done = thread[u].done /\ thread'[u].eid = thread[u].eid
        /\ thread'[u].note = thread[u].note
    BY <1>1, <1>5 DEF Thread
  <2>2. QED
    BY <2>1, StillCalm
<1>6. QED
  BY <1>2, <1>3, <1>4, <1>5 DEF Touched

\* A thread's own step: the others that know anything of the run do not exist, or
\* it takes one that does not change what they know.
LEMMA ThreadCalm ==
    ASSUME WaitInv, Quiet, Quiet', NEW t \in Threads, plan' = plan, Spawn(t) \/ Submit(t) \/ Step(t)
    PROVE  Question(plan, row') /\ \A u \in Threads : Calm(u)'
<1>1. /\ TypeInv /\ Alone /\ Beginning /\ Question(plan, row) /\ thread[t] \in Thread /\ row \in Row
      /\ Open(row) /\ Calm(t)
  BY CalmFacts DEF WaitInv, RaceInv, Quiet
<1>2. ~Fault
  BY <1>1, NoFault
<1>3. CASE ActiveStep(t)
  <2>1. thread[t].pc \in Active /\ ~SubmitHot(t) /\ ~HandlerFails(t)
    BY <1>2, <1>3, ActiveActs DEF HandlerFails
  <2>2. Calm(t)'
    BY <1>3, <2>1, LoopCalm, ElicitCalm, AgentCalm, HandlerCalm DEF ActiveStep
  <2>3. ASSUME NEW u \in Threads \ {t} PROVE Calm(u)'
    <3>1. thread'[u] = thread[u] /\ thread[u].pc \notin Active
      BY <1>1, <2>1, ThreadLate DEF Alone
    <3>2. thread'[u].pc \notin Informed
      BY <3>1, InformedPcs
    <3>3. QED
      BY <2>2, <3>2, Elsewhere DEF Calm
  <2>4. QED
    BY <2>2, <2>3 DEF Calm
<1>4. CASE Spawn(t)
  <2>1. row = NoRow /\ \A u \in Threads : thread[u] = Idle
    BY <1>1, <1>4 DEF Spawn, Beginning
  <2>2. row' = [NoRow EXCEPT !.status = "pending"]
    BY <1>4, <2>1 DEF Spawn
  <2>3. PICK r : r = [thread[t] EXCEPT !.pc = "inserted"]
    OBVIOUS
  <2>4. thread'[t] = r /\ \A u \in Threads \ {t} : thread'[u] = thread[u]
    BY <1>1, <1>4, <2>3, SetIs DEF Spawn, Go
  <2>5. r.pc = "inserted" /\ r.done = {} /\ "inserted" \notin Running
    BY <2>1, <2>3, PcsNamed DEF Idle
  <2>6. row'.status = "pending"
    BY <2>2 DEF NoRow
  <2>7. Question(plan, row') /\ Standing(plan, r, row')
    BY <2>5, <2>6 DEF Question, Standing
  <2>8. ASSUME NEW u \in Threads \ {t} PROVE Calm(u)'
    <3>1. thread'[u].pc \notin Informed
      BY <2>1, <2>4, InformedPcs DEF Idle
    <3>2. QED
      BY <2>7, <3>1, Elsewhere DEF Calm
  <2>9. QED
    BY <2>4, <2>7, <2>8 DEF Calm
<1>5. CASE SubmitHot(t)
  <2>1. Touched /\ row' = row
    BY <1>1, <1>5, HotTouches DEF SubmitHot, Others
  <2>2. Asking
    BY <2>1 DEF Asking
  <2>3. QED
    BY <1>1, <2>1, <2>2, TouchedCalm, AskingStays
<1>6. CASE Submit(t) \/ SubmitCold(t) \/ StoreResponse(t) \/ ResumeCheck(t)
  <2>1. row' = row \/ row' = [row EXCEPT !.response = thread[t].step]
    BY <1>1, <1>6, OpenWrites DEF Submit, SubmitCold, StoreResponse, ResumeCheck
  <2>2. Asking
    BY <1>1, <2>1 DEF Asking, Row
  <2>3. Question(plan, row')
    BY <1>1, <2>2, AskingStays
  <2>4. ASSUME NEW u \in Threads \ {t} PROVE Calm(u)'
    <3>1. CASE ~SubmitHot(t)
      <4>1. thread'[u] = thread[u]
        BY <1>1, <3>1, ThreadLate
      <4>2. QED
        BY <2>2, <4>1, StillCalm
    <3>2. QED
      BY <1>5, <3>1
  <2>5. Calm(t)'
    <3>1. CASE Submit(t)
      <4>1. PICK r : r = [thread[t] EXCEPT !.pc = "branch", !.eid = row.pending, !.step = row.step,
                                !.note = IF row.status = "waiting" THEN "waiting" ELSE "none"]
        OBVIOUS
      <4>2. thread'[t] = r /\ r.pc = "branch"
        BY <1>1, <3>1, <4>1, SetIs DEF Submit, Thread
      <4>3. thread'[t].pc \notin Informed
        BY <4>2, InformedPcs
      <4>4. QED
        BY <2>2, <4>3, StillCalm
    <3>2. CASE ~Submit(t)
      <4>1. Set(t, Idle) \/ \E pc \in {"leave", "branch", "store", "recheck", "reread"} : Go(t, pc)
        BY <1>6, <3>2 DEF SubmitCold, StoreResponse, ResumeCheck
      <4>2. QED
        BY <1>1, <2>3, <4>1, Gone
    <3>3. QED
      BY <3>1, <3>2
  <2>6. QED
    BY <2>3, <2>4, <2>5
<1>7. CASE HandlerFails(t)
  BY <1>2, <1>7 DEF HandlerFails
<1>8. QED
  BY <1>3, <1>4, <1>5, <1>6, <1>7, StepKinds DEF ActiveStep, HandlerMoves

\* Everything else: cancels, subscriptions, restarts and the sweep.
LEMMA RestCalm ==
    ASSUME WaitInv, Quiet, Quiet', plan' = plan,
           Cancelling \/ Delete \/ Subscribe \/ Reap \/ Crash \/ Sweeping \/ UNCHANGED vars
    PROVE  Question(plan, row') /\ \A u \in Threads : Calm(u)'
<1>1. TypeInv /\ Question(plan, row) /\ row \in Row /\ Open(row)
  BY StateTypes DEF WaitInv, RaceInv, Quiet
<1>2. Asking
  <2>1. Open(row')
    BY DEF Quiet
  <2>2. CASE Cancelling
    <3>1. row' = row \/ row' = [row EXCEPT !.status = "cancelled"]
      BY <2>2 DEF Cancelling, CancelRow, CancelSignal, DropSignal, DropRow, CancelCas, Write, Rest
    <3>2. QED
      BY <1>1, <3>1 DEF Asking, Row
  <2>3. CASE Delete
    <3>1. row'.status = "deleted"
      BY <2>3 DEF Delete, DeleteRun, DeleteWorkflow, Deleted, NoRow
    <3>2. QED
      BY <2>1, <3>1 DEF Open
  <2>4. CASE Subscribe \/ Reap \/ UNCHANGED vars
    BY <2>4 DEF Subscribe, Reap, vars, Asking
  <2>5. CASE Crash
    BY <1>1, <2>5 DEF Crash, Asking, Row
  <2>6. CASE Sweeping
    <3>1. \/ row' = row \/ row' = [row EXCEPT !.status = "resumable"]
          \/ row' = [row EXCEPT !.status = "failed"]
      BY <2>6 DEF Sweeping, SweepSpare, SweepFail, SweepRedrive, SweepDies, Sweep
    <3>2. QED
      BY <1>1, <3>1 DEF Asking, Row
  <2>7. QED
    BY <2>2, <2>3, <2>4, <2>5, <2>6
<1>3. CASE SweepRedrive /\ row.status = "resumable"
  <2>1. PICK t \in Threads : At(t, "idle") /\ Go(t, "recheck")
    BY <1>3 DEF SweepRedrive
  <2>2. Calm(t)'
    BY <1>1, <1>2, <2>1, AskingStays, Gone
  <2>3. ASSUME NEW u \in Threads \ {t} PROVE Calm(u)'
    <3>1. thread'[u] = thread[u]
      BY <1>1, <2>1, SetIs DEF Go
    <3>2. QED
      BY <1>2, <3>1, StillCalm
  <2>4. QED
    BY <1>1, <1>2, <2>2, <2>3, AskingStays
<1>4. CASE ~(SweepRedrive /\ row.status = "resumable")
  <2>1. Touched
    BY <1>1, <1>4, RestTouches DEF Sweeping
  <2>2. QED
    BY <1>1, <1>2, <2>1, TouchedCalm, AskingStays
<1>5. QED
  BY <1>3, <1>4

LEMMA WaitStep == ASSUME WaitInv, [Next]_vars PROVE WaitInv'
<1>1. TypeInv /\ RaceInv /\ RaceInv'
  BY RaceStep DEF WaitInv, RaceInv
<1>2. Quiet' => Quiet /\ plan' = plan
  BY <1>1, QuietBefore, AskedStays
<1>3. Quiet' => Question(plan, row') /\ \A u \in Threads : Calm(u)'
  BY <1>2, ThreadCalm, RestCalm DEF Next
<1>4. QED
  BY <1>1, <1>2, <1>3 DEF WaitInv

LEMMA WaitInit == Init => WaitInv
<1> SUFFICES ASSUME Init PROVE WaitInv
  OBVIOUS
<1>1. row.status = "none"
  BY DEF Init, NoRow
<1>2. Question(plan, row)
  BY <1>1 DEF Question
<1>3. ASSUME NEW t \in Threads PROVE Calm(t)
  <2>1. thread[t].pc \notin Informed
    BY InformedPcs DEF Init, Idle
  <2>2. QED
    BY <1>2, <2>1, Elsewhere DEF Calm
<1>4. QED
  BY <1>2, <1>3, RaceInit DEF WaitInv

\* A run that is marked waiting has a question in its row: whatever answers,
\* resumes, cancels and restarts interleave, the record is cleared only by a runner
\* that has marked the run running again.
THEOREM WorkflowWaitingHasQuestion == Spec => []WaitingHasQuestion
<1>1. WaitInv => WaitingHasQuestion
  <2> SUFFICES ASSUME WaitInv, row.status = "waiting", ~asked, ~raced, spent.faults = 0
               PROVE  row.pending # 0
    BY DEF WaitingHasQuestion
  <2>1. Quiet
    BY DEF Quiet, Open, Terminal
  <2>2. QED
    BY <2>1 DEF WaitInv, Question
<1>2. QED
  BY <1>1, WaitInit, WaitStep, PTL DEF Spec

=============================================================================
