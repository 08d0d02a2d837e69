--------------------------- MODULE RepositoryPass ---------------------------
(***************************************************************************)
(* One pass over the enlisted repositories: driveRepositories of           *)
(* src/run/repository-coordinator.ts, the planning it asks for after every *)
(* settlement (src/plan/plan-across-repositories.ts, select-task.ts) and,  *)
(* for each admitted task, the lease it takes and gives back               *)
(* (src/run/lifecycle-driver.ts).                                          *)
(*                                                                         *)
(* The coordinator is one event loop: it plans, admits in ranking order as *)
(* many tasks as it has slots for, never two on one Git common directory,  *)
(* and awaits a settlement before it plans again.  Between its steps other *)
(* processes take, drop and die holding leases, people edit task files,    *)
(* and the clock moves.                                                    *)
(***************************************************************************)
EXTENDS Integers, FiniteSets

CONSTANTS
  Repos,            \* enlistable repositories
  CommonDir,        \* each one's Git common directory: the lease's own key
  Tasks,            \* task files of all of them
  RepoOf,           \* the repository of each task
  DependsOn,        \* the tasks each one depends on
  Registries,       \* the sets of them the registry may list
  Rank,             \* the total order of the cross-repository ranking
  MaxCapacity,      \* MAX_CONCURRENT_REPOSITORIES
  MaxAdmissions,    \* MAX_COORDINATOR_ADMISSIONS
  MaxClock,         \* bound: the last instant of the clock
  MaxFaults         \* bound: refusals, failed releases, strangers and edits

ASSUME RepositoriesAreNamed ==
  /\ RepoOf \in [Tasks -> Repos]
  /\ DependsOn \in [Tasks -> SUBSET Tasks]
  /\ Registries \subseteq SUBSET Repos
ASSUME RankingIsTotal ==
  /\ Rank \in [Tasks -> Nat]
  /\ \A s, t \in Tasks : Rank[s] = Rank[t] => s = t
ASSUME PassBounds ==
  /\ MaxCapacity \in Nat \ {0} /\ MaxAdmissions \in Nat
  /\ MaxClock \in Nat /\ MaxFaults \in Nat

VARIABLES
  clock,            \* deps.now
  declared,         \* the status each task file declares
  task,             \* each task's durable state
  lease,            \* who holds the lease of each common directory
  registered,       \* request.repositories
  capacity,         \* request.maxConcurrentRepositories
  stage,            \* where driveRepositories is
  ended,            \* the outcome the pass is heading for
  planned,          \* the tasks the latest plan ranked
  pending,          \* those the admission loop has not reached yet
  active,           \* what each admitted execution has come to
  attempted,        \* the tasks this pass admitted
  unproven,         \* admissions that were not shown to give their lease back
  obstructed,       \* admissions refused at a lease of a running sibling
  faults            \* faults so far

world == <<clock, declared, task, lease>>
request == <<registered, capacity>>
passVars == <<stage, ended, planned, pending, active, attempted, unproven,
              obstructed>>
repositoryVars == <<world, request, passVars, faults>>

-----------------------------------------------------------------------------
(* Tasks, directories and leases                                           *)

Instants == 0 .. MaxClock

\* OPEN stands for every state that names no reset to wait for, a quota block
\* without one and the reviewer's own block among them.
Open == [state |-> "OPEN", reset |-> 0]
Blocked(i) == [state |-> "BLOCKED_USAGE_LIMIT", reset |-> i]
TaskState == {Open} \cup {Blocked(i) : i \in Instants}

Dir(t) == CommonDir[RepoOf[t]]
Dirs == {CommonDir[r] : r \in Repos}
Active == {t \in Tasks : active[t] # "none"}
\* A sibling on the same root, as if the root were the lease's key.
BusyRoot(t) == \E s \in Active : RepoOf[s] = RepoOf[t]
Busy(t) == \E s \in Active : Dir(s) = Dir(t)

\* A LEAKED lease is this process's own, left behind by a failed release: its
\* owner is alive, so nobody may recover it.
Leases == {"FREE", "OURS", "LEAKED", "FOREIGN", "DEAD"}
Stages == {"IDLE", "PLAN", "ADMIT", "AWAIT", "DRAIN", "OVER"}
Executions == {"none", "driving", "proven", "unproven"}
Outcomes == {"COMPLETE", "UNPLANNABLE", "PLANNER_THREW", "BUDGET_EXHAUSTED"}

Eligible ==
  {t \in Tasks : /\ RepoOf[t] \in registered
                 /\ declared[t] = "OPEN"
                 /\ \A d \in DependsOn[t] : declared[d] = "DONE"}

\* The block of a task is lifted strictly after its reset.
Resumable(t) ==
  \/ task[t].state = "OPEN"
  \/ task[t].state = "BLOCKED_USAGE_LIMIT" /\ task[t].reset < clock

Fault == faults < MaxFaults /\ faults' = faults + 1

PassInit ==
  /\ clock = 0
  /\ declared = [t \in Tasks |-> "OPEN"]
  /\ task \in [Tasks -> TaskState \ {Blocked(0)}]
  /\ lease = [d \in Dirs |-> "FREE"]
  /\ registered \in Registries
  /\ capacity \in 1 .. MaxCapacity
  /\ stage = "IDLE" /\ ended = "COMPLETE"
  /\ planned = {} /\ pending = {}
  /\ active = [t \in Tasks |-> "none"]
  /\ attempted = {} /\ unproven = {} /\ obstructed = {}
  /\ faults = 0

-----------------------------------------------------------------------------
(* driveRepositories                                                       *)

StartPass ==
  /\ stage \in {"IDLE", "OVER"}
  /\ stage' = "PLAN" /\ ended' = "COMPLETE"
  /\ planned' = {} /\ pending' = {} /\ attempted' = {} /\ unproven' = {}
  /\ obstructed' = {}
  /\ UNCHANGED active

\* Where the loop goes when it stops planning: it awaits what is in flight.
Leave(outcome) ==
  /\ ended' = outcome
  /\ stage' = IF Active = {} THEN "OVER" ELSE "DRAIN"

Plan ==
  /\ stage = "PLAN"
  /\ stage' = "ADMIT"
  /\ planned' = Eligible /\ pending' = Eligible
  /\ UNCHANGED <<world, request, ended, active, attempted, unproven, obstructed,
                 faults>>

\* REPOSITORY_UNPLANNABLE, or the planner threw and the throw is kept.
PlanFails ==
  /\ stage = "PLAN" /\ Fault
  /\ \E outcome \in {"UNPLANNABLE", "PLANNER_THREW"} : Leave(outcome)
  /\ UNCHANGED <<world, request, planned, pending, active, attempted, unproven,
                 obstructed>>

Full == Cardinality(Active) >= capacity
Untried == pending \ attempted
Spent == ~Full /\ Untried # {} /\ Cardinality(attempted) >= MaxAdmissions
Admissible == {t \in Untried : ~Busy(t)}

\* driveLifecycle runs up to its first await inside admit: it takes the lease
\* of the common directory, recovering a dead owner's, or is refused and
\* settles with nothing to give back.
TakeLease(t) ==
  LET d == Dir(t) IN
  \/ /\ lease[d] = "FREE"
     /\ lease' = [lease EXCEPT ![d] = "OURS"]
     /\ active' = [active EXCEPT ![t] = "driving"]
     /\ UNCHANGED <<obstructed, faults>>
  \/ /\ lease[d] = "DEAD"
     /\ lease' = [lease EXCEPT ![d] = "OURS"]
     /\ active' = [active EXCEPT ![t] = "driving"]
     /\ UNCHANGED <<obstructed, faults>>
  \/ /\ lease[d] = "DEAD" /\ Fault
     /\ active' = [active EXCEPT ![t] = "proven"]
     /\ UNCHANGED <<lease, obstructed>>
  \/ /\ lease[d] \in {"OURS", "LEAKED", "FOREIGN"}
     /\ active' = [active EXCEPT ![t] = "proven"]
     /\ obstructed' = IF lease[d] = "OURS" THEN obstructed \cup {t}
                      ELSE obstructed
     /\ UNCHANGED <<lease, faults>>

\* The next entry of the ranking that may be admitted.
Admit ==
  /\ stage = "ADMIT" /\ ~Full /\ ~Spent
  /\ \E t \in Admissible :
       /\ \A s \in Admissible : Rank[t] <= Rank[s]
       /\ TakeLease(t)
       /\ attempted' = attempted \cup {t}
       /\ pending' = {s \in pending : Rank[s] > Rank[t]}
  /\ UNCHANGED <<clock, declared, task, request, stage, ended, planned, unproven>>

\* The end of the admission loop: nothing is running, the budget is spent, or
\* there is a settlement to wait for.
AdmissionsMade ==
  /\ stage = "ADMIT"
  /\ Full \/ Spent \/ Admissible = {}
  /\ IF Spent THEN Leave("BUDGET_EXHAUSTED")
     ELSE /\ stage' = IF Active = {} THEN "OVER" ELSE "AWAIT"
          /\ UNCHANGED ended
  /\ pending' = {}
  /\ UNCHANGED <<world, request, planned, active, attempted, unproven, obstructed,
                 faults>>

\* A reap that goes on with the plan it has instead of planning again.
ReapWithoutPlanning ==
  /\ stage \in {"AWAIT", "DRAIN"}
  /\ \E t \in Tasks : active[t] \in {"proven", "unproven"}
  /\ unproven' = unproven \cup {t \in Tasks : active[t] = "unproven"}
  /\ active' = [t \in Tasks |-> IF active[t] = "driving" THEN "driving" ELSE "none"]
  /\ stage' = IF stage = "AWAIT" THEN "ADMIT"
              ELSE IF \E t \in Tasks : active[t] = "driving" THEN "DRAIN" ELSE "OVER"
  /\ UNCHANGED <<world, request, ended, planned, pending, attempted, obstructed,
                 faults>>

\* reap: every execution that has settled frees its slot.
Reap ==
  /\ stage \in {"AWAIT", "DRAIN"}
  /\ \E t \in Tasks : active[t] \in {"proven", "unproven"}
  /\ unproven' = unproven \cup {t \in Tasks : active[t] = "unproven"}
  /\ active' = [t \in Tasks |-> IF active[t] = "driving" THEN "driving" ELSE "none"]
  /\ stage' = IF stage = "AWAIT" THEN "PLAN"
              ELSE IF \E t \in Tasks : active[t] = "driving" THEN "DRAIN" ELSE "OVER"
  /\ UNCHANGED <<world, request, ended, planned, pending, attempted, obstructed,
                 faults>>

-----------------------------------------------------------------------------
(* One admitted execution ends                                             *)

\* A task that may be driven ends in any state; any other keeps its own.
NextState(t) == IF Resumable(t) THEN TaskState ELSE {task[t]}

\* finish: the lease is given back, and only RELEASED proves it.
RunEnds(t) ==
  /\ active[t] = "driving"
  /\ \E s \in NextState(t) : task' = [task EXCEPT ![t] = s]
  /\ lease' = [lease EXCEPT ![Dir(t)] = "FREE"]
  /\ active' = [active EXCEPT ![t] = "proven"]
  /\ UNCHANGED <<clock, declared, request, stage, ended, planned, pending,
                 attempted, unproven, obstructed, faults>>

\* The release failed, or the run threw and nothing reports its release.
RunEndsUnproven(t) ==
  /\ active[t] = "driving" /\ Fault
  /\ \E s \in NextState(t) : task' = [task EXCEPT ![t] = s]
  /\ \E l \in {"FREE", "LEAKED"} : lease' = [lease EXCEPT ![Dir(t)] = l]
  /\ active' = [active EXCEPT ![t] = "unproven"]
  /\ UNCHANGED <<clock, declared, request, stage, ended, planned, pending,
                 attempted, unproven, obstructed>>

-----------------------------------------------------------------------------
(* Everyone else                                                           *)

Tick ==
  /\ clock < MaxClock /\ clock' = clock + 1
  /\ UNCHANGED <<declared, task, lease, request, passVars, faults>>

\* A person edits the status of a task file.
EditTask(t) ==
  /\ Fault
  /\ declared' = [declared EXCEPT ![t] = IF @ = "OPEN" THEN "DONE" ELSE "OPEN"]
  /\ UNCHANGED <<clock, task, lease, request, passVars>>

\* Another process takes a lease, gives it back, or dies with it; what it
\* drove may meanwhile have met a usage limit.
ForeignTakes(d) ==
  /\ lease[d] = "FREE" /\ Fault
  /\ lease' = [lease EXCEPT ![d] = "FOREIGN"]
  /\ UNCHANGED <<clock, declared, task, request, passVars>>

ForeignLeaves(t) ==
  /\ lease[Dir(t)] = "FOREIGN"
  /\ \E l \in {"FREE", "DEAD"} : lease' = [lease EXCEPT ![Dir(t)] = l]
  /\ \E s \in NextState(t) : task' = [task EXCEPT ![t] = s]
  /\ UNCHANGED <<clock, declared, request, passVars, faults>>

Coordinator == Plan \/ PlanFails \/ Admit \/ AdmissionsMade \/ Reap
Execution == \E t \in Tasks : RunEnds(t) \/ RunEndsUnproven(t)
Others ==
  \/ Tick
  \/ \E t \in Tasks : EditTask(t) \/ ForeignLeaves(t)
  \/ \E d \in Dirs : ForeignTakes(d)
=============================================================================
