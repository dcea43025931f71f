------------------------------ MODULE MCMembers ------------------------------
(* Small instances of Members for TLC.                                     *)
EXTENDS Members, TLC

\* Each account has an address, and one address belongs to nobody.
CONSTANTS ann, bob, eve, a, b, e, spare
MCFirst == ann :> a @@ bob :> b @@ eve :> e
MCPair == ann :> a @@ bob :> b
MCTwoSeats == {2}
MCThreeSeats == {3}
MCTwoOrThreeSeats == {2, 3}
MCDowngrade == {1, 2}

\* Any id is as good as another.
Rows == Permutations(Ids)

=============================================================================
