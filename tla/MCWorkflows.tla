----------------------------- MODULE MCWorkflows -----------------------------
(* Small instances of Workflows for TLC.                                   *)
EXTENDS Workflows, TLC

\* Three steps numbered from 0, as the tests number them; the second waits.
MCThreeSteps == 0..2
MCTwoSteps == 0..1
MCSecondWaits == {1}
MCNone == {}
\* A job may die anywhere but after its last write.
MCUnfinished == {"queued", "loaded", "ran", "counting"}
MCAnywhere == MCUnfinished \cup {"done"}
MCFinished == {"done"}

\* Any place in the queue is as good as another.
Places == Permutations(Jobs)

=============================================================================
