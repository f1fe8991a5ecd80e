---------------------------- MODULE SchedulerOrder ----------------------------
(***************************************************************************)
(* The order in which the sweeps of the scheduler serve due tasks.         *)
(*                                                                         *)
(* The clock of a model is bounded, so that nothing can be re-armed for    *)
(* ever, and "a due task is served some day" says nothing of the order in  *)
(* which that happens.  This module adds a history variable to Scheduler   *)
(* that counts, while a task waits, who is taken in its place.             *)
(***************************************************************************)
EXTENDS Scheduler

VARIABLE
    overtakes   \* history: overtakes[t][u] sweeps took u since t was due or taken

varsO == <<vars, overtakes>>

\* The tasks that the step claims.
Taken == IF tick.due = <<>> /\ tick'.due # <<>>
         THEN {tick'.due[i].task : i \in DOMAIN tick'.due} ELSE {}

Observe ==
    overtakes' = [t \in Tasks |-> [u \in Tasks |->
        IF ~IsDue(t, now)' \/ t \in Taken THEN 0
        ELSE IF u \in Taken THEN overtakes[t][u] + 1
        ELSE overtakes[t][u]]]

InitO == Init /\ overtakes = [t \in Tasks |-> [u \in Tasks |-> 0]]

NextO == Next /\ Observe

SpecO == InitO /\ [][NextO]_varsO

\* The fairness of FairSpec.
FairSpecO ==
    /\ SpecO
    /\ WF_vars(TickStep)
    /\ \A f \in Firings : WF_vars(FireStep(f))
    /\ \A r \in Requests : WF_vars(RequestStep(r))

-----------------------------------------------------------------------------
\* A due task is overtaken at most once by each other task: however small the
\* batch, nothing that keeps being re-armed goes ahead of it again and again
\* (ORDER BY next_run_at in claim_due_tasks; every re-arming is later than the
\* sweep).  A user who re-arms either of them, and a failed statement or a crash
\* between claim and advance, may let one through again.
OvertakenOnce ==
    \A t, u \in Tasks :
        faults = 0 /\ hist[t].manual = 0 /\ hist[u].manual = 0
        => overtakes[t][u] <= 1
=============================================================================
