----------------------------- MODULE MCScheduler -----------------------------
(* A repository, a worktree of it enlisted beside it, and a second          *)
(* repository whose one task depends on the first one's.                    *)
EXTENDS Scheduler

MCRepos == {"r", "w", "q"}
MCCommonDir == [r \in MCRepos |-> IF r = "q" THEN "dq" ELSE "dr"]
MCRegistries == {MCRepos, {"w", "q"}}
MCTasks == {"r1", "w1", "q1"}
MCRepoOf == [t \in MCTasks |-> CASE t = "r1" -> "r" [] t = "w1" -> "w" [] t = "q1" -> "q"]
MCDependsOn == [t \in MCTasks |-> IF t = "q1" THEN {"r1"} ELSE {}]
MCRank == [t \in MCTasks |-> CASE t = "r1" -> 1 [] t = "w1" -> 2 [] t = "q1" -> 3]
=============================================================================
