---------------------------- MODULE MCChatStream ----------------------------
(***************************************************************************)
(* Small instances of ChatStream for TLC.                                  *)
(***************************************************************************)
EXTENDS ChatStream, TLC

\* All conversations belong to one user.
OneOwner(c) == CHOOSE u \in Users : TRUE

\* Identifiers of one kind are interchangeable.
Symmetry == Permutations(Conns) \cup Permutations(Turns) \cup Permutations(Puts)
            \cup Permutations(Conversations)
=============================================================================
