-------------------------- MODULE MCBackgroundRuns --------------------------
\* Two calls of one conversation: they may be of one spec or of two, of a sub-agent
\* or a command, and may have read different caps.
EXTENDS BackgroundRuns

CONSTANTS r1, r2, c1, s1, s2

MCRuns == {r1, r2}

MCConversations == {c1}

MCSpecs == {s1, s2}

MCSubAgents == {s1}

MCCaps == 1..2
=============================================================================
