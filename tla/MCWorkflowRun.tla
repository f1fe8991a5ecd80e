--------------------------- MODULE MCWorkflowRun ---------------------------
\* Instances of WorkflowRun: two threads are enough for a runner beside a handler
\* and for two resumes at once; a run refers to at most three handles then.
EXTENDS WorkflowRun, TLC

CONSTANTS t1, t2

MCThreads == {t1, t2}

MCHandles == 1..3

\* Steps before and after a question, with every way of asking.
MCPlans == {<<"work", "gate">>, <<"gate", "ask">>, <<"ask", "agent">>}

\* For liveness, one thread: a runner, or the handler that resumes the run.
OneThread == {t1}

ShortPlans == {<<"ask", "work">>, <<"gate">>, <<"agent", "work">>}

ThreadSymmetry == Permutations(Threads)
====
