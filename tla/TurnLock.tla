------------------------------ MODULE TurnLock ------------------------------
(***************************************************************************)
(* What begin_generation promises (chat/stream/registry.rs): one turn per  *)
(* conversation at a time, a conversation handed from one turn to the next *)
(* only through a state in which nobody has it, and no turn has it twice.  *)
(***************************************************************************)

CONSTANTS Conversations, Turns, NoTurn

VARIABLES
    holder,     \* the turn in flight in a conversation
    spent       \* turns that were ever given a conversation

lockVars == <<holder, spent>>

Init ==
    /\ holder = [c \in Conversations |-> NoTurn]
    /\ spent = {}

Acquire(c, t) ==
    /\ holder[c] = NoTurn /\ t \notin spent
    /\ holder' = [holder EXCEPT ![c] = t]
    /\ spent' = spent \cup {t}

Release(c) ==
    /\ holder[c] # NoTurn
    /\ holder' = [holder EXCEPT ![c] = NoTurn]
    /\ UNCHANGED spent

Next == \E c \in Conversations : Release(c) \/ \E t \in Turns : Acquire(c, t)

Spec == Init /\ [][Next]_lockVars

=============================================================================
