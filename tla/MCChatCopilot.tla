---------------------------- MODULE MCChatCopilot ----------------------------
EXTENDS ChatCopilotProperties, TLC
CONSTANTS r1, r2, a1, ann, bob, eve, askA, askB, askE

MCUsers == {ann, bob, eve}
MCOrgs == {"o1", "o2"}
MCOrgOf == [u \in MCUsers |-> IF u = eve THEN "o2" ELSE "o1"]
MCAsks == {<<ann, askA>>, <<bob, askB>>, <<eve, askE>>}
MCSimilar == {askA, askB, askE} \X {askA, askB, askE}
MCQueueOf == [a \in {a1} |-> "o1"]

\* The requests may be exchanged, and ann with what she asks for bob with what he
\* asks; sound for safety.
Exchange == (ann :> bob) @@ (bob :> ann) @@ (askA :> askB) @@ (askB :> askA)
Symmetry == Permutations({r1, r2}) \cup {Exchange}
=============================================================================
