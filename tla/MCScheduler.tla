----------------------------- MODULE MCScheduler -----------------------------
(***************************************************************************)
(* Small instances of Scheduler for TLC.                                   *)
(***************************************************************************)
EXTENDS Scheduler, TLC

\* A cron expression that matches every other clock value, up to a last match.
MCNextCron(i) == IF i >= MaxTime + 2 THEN Never ELSE 2 * (i \div 2) + 2

\* One that matches every clock value.
EveryInstant(i) == i + 1

Template(kind, goal, target) == [kind |-> kind, goal |-> goal, target |-> target]

OnceTemplates      == {Template("once", FALSE, "workflow")}
RecurringTemplates == {Template("recurring", FALSE, "prompt")}
LoopTemplates      == {Template("self_paced", goal, "prompt") : goal \in BOOLEAN}
MixedTemplates     == OnceTemplates \cup RecurringTemplates
                      \cup {Template("self_paced", FALSE, "prompt")}

NoKinds  == {}
AllKinds == Kinds

\* Slots and conversations are interchangeable.
Symmetry == Permutations(Firings) \cup Permutations(Conversations)
            \cup Permutations(Requests)
=============================================================================
