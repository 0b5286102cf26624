------------------------- MODULE MCResourceCollection -------------------------
(* Small pools for TLC: every worktree is made from the first repository, and  *)
(* each run has a worktree of its own.                                         *)
EXTENDS ResourceCollection, TLC

OneRepository == [w \in Worktrees |-> CHOOSE r \in Repositories : TRUE]
OneEach == CHOOSE f \in [Runs -> Worktrees] : \A a, b \in Runs : f[a] = f[b] => a = b
=============================================================================
