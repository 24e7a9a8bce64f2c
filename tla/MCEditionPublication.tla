------------------------ MODULE MCEditionPublication ------------------------
(***************************************************************************)
(* EditionPublication for two versions of a bundle: a semifinal and the    *)
(* final that takes its winner, and a squad of which the second version    *)
(* replaces a player.                                                      *)
(***************************************************************************)
EXTENDS EditionPublication, TLC

CONSTANTS b1, b2, semi, final, p, q, x, y, z

Symmetry == Permutations(Operators)

Side(a, b) == [A |-> a, B |-> b]
Sheet(s, f) == (semi :> s) @@ (final :> f)

TwoRetrieved == (b1 :> 1) @@ (b2 :> 2)
WholeFixture == [b \in Bundles |-> Matches]
Both == [b \in Bundles |-> Players]
Only(player) == [m \in Players |-> IF m = player THEN "ACTIVE" ELSE "ABSENT"]
TwoRosters == (b1 :> Only(p)) @@ (b2 :> Only(q))
TwoLists == (b1 :> {p}) @@ (b2 :> {q})
TwoNames == (b1 :> Sheet(Side(x, y), Side(NoTeam, z)))
         @@ (b2 :> Sheet(Side(x, z), Side(NoTeam, y)))
WinnerTakes == [b \in Bundles |->
    Sheet(Side(NoMatch, NoMatch), Side(semi, NoMatch))]
RevisionReports == (b1 :> Sheet(NoSide, NoSide)) @@ (b2 :> Sheet("A", NoSide))
=============================================================================
