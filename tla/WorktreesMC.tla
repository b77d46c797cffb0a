---------------------------- MODULE WorktreesMC ----------------------------
(* Instances of Worktrees for TLC: other clones may have pushed no branch, *)
(* or every branch. The actors are interchangeable.                        *)
EXTENDS Worktrees, TLC

Nothing == {}
Everything == Branch
ActorSymmetry == Permutations(Actors)
=============================================================================
