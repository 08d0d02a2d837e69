------------------------------ MODULE Scheduler ------------------------------
(***************************************************************************)
(* The persistent scheduler: driveScheduler of src/schedule/scheduler.ts,  *)
(* the scan for recorded quota resets (durable-wake.ts) and the bounded    *)
(* sleep (bounded-sleep.ts), around the passes of RepositoryPass.          *)
(*                                                                         *)
(* After each pass the scheduler reads the resets the durable states name  *)
(* and runs another pass at once, sleeps, or ends.  Nothing is stored: a   *)
(* wake that it overlooks is overlooked until somebody runs it again.      *)
(***************************************************************************)
EXTENDS RepositoryPass

CONSTANTS
  MaxCycles,        \* --max-cycles
  MaxWait,          \* --max-wait
  IdlePoll          \* --idle-poll, when it is given

ASSUME WaitBounds ==
  /\ MaxCycles \in Nat \ {0, 1}
  /\ MaxWait \in Nat \ {0} /\ IdlePoll \in Nat \ {0}

VARIABLES
  phase,            \* PASS, DECIDE, SLEEP, REGISTRY, ENDED
  disposition,      \* how the latest cycle was concluded
  sequence,         \* its number
  wait,             \* request.wait.wait
  idle,             \* whether an idle interval was asked for
  passStart,        \* passStartedAt
  deadline,         \* the instant it sleeps until
  chunks,           \* chunks of that sleep still to spend
  stopped,          \* shutdown.stopped
  triedAt           \* start of the latest pass that attempted each task

schedulerVars == <<phase, disposition, sequence, wait, idle, passStart, deadline,
                   chunks, stopped, triedAt>>
vars == <<repositoryVars, schedulerVars>>

Never == -1

-----------------------------------------------------------------------------
(* What the durable states say                                             *)

\* Every state file of an enlisted repository is read, eligible or not.
Wakes == {t \in Tasks : /\ RepoOf[t] \in registered
                        /\ task[t].state = "BLOCKED_USAGE_LIMIT"}
Future == {t \in Wakes : task[t].reset > clock}
\* A scan given the present as both ends of its window.
MaturedNow == {t \in Wakes : task[t].reset <= clock /\ task[t].reset > clock}
Matured == {t \in Wakes : task[t].reset <= clock /\ task[t].reset > passStart}
Soonest == {t \in Future : \A s \in Future : task[t].reset <= task[s].reset}

Required(t) == task[t].reset + 1 - clock
WithinBound == \E t \in Soonest : Required(t) <= MaxWait

\* The answers without the proof that every lease is back.
DispositionUnproven ==
  IF ~wait THEN "NOT_REQUESTED"
  ELSE IF stopped THEN "SHUTDOWN_REQUESTED"
  ELSE IF Matured = {} /\ Future = {} /\ ~idle THEN "NO_FUTURE_WAKE"
  ELSE IF sequence >= MaxCycles THEN "CYCLE_BUDGET_SPENT"
  ELSE IF Matured # {} THEN "MATURED_DURING_PASS"
  ELSE IF Future = {} THEN "IDLE_POLLED"
  ELSE IF WithinBound THEN "WAITED"
  ELSE IF idle THEN "IDLE_POLLED"
  ELSE "BOUND_EXCEEDED"

\* The answers with a matured reset asked about before the budget.
\* The refusals and answers of driveScheduler, in its order.
Disposition ==
  IF ~wait THEN "NOT_REQUESTED"
  ELSE IF stopped THEN "SHUTDOWN_REQUESTED"
  ELSE IF unproven # {} THEN "LEASE_RELEASE_UNPROVEN"
  ELSE IF Matured = {} /\ Future = {} /\ ~idle THEN "NO_FUTURE_WAKE"
  ELSE IF sequence >= MaxCycles THEN "CYCLE_BUDGET_SPENT"
  ELSE IF Matured # {} THEN "MATURED_DURING_PASS"
  ELSE IF Future = {} THEN "IDLE_POLLED"
  ELSE IF WithinBound THEN "WAITED"
  ELSE IF idle THEN "IDLE_POLLED"
  ELSE "BOUND_EXCEEDED"

Sleeping == {"WAITED", "IDLE_POLLED"}
Endings == {"NOT_REQUESTED", "SHUTDOWN_REQUESTED", "LEASE_RELEASE_UNPROVEN",
            "NO_FUTURE_WAKE", "CYCLE_BUDGET_SPENT", "BOUND_EXCEEDED",
            "SLEEP_BUDGET_SPENT", "REGISTRY_UNUSABLE_AFTER_WAIT", "THREW"}
Dispositions == Sleeping \cup Endings \cup {"NONE", "MATURED_DURING_PASS"}

-----------------------------------------------------------------------------
(* driveScheduler                                                          *)

Init ==
  /\ PassInit
  /\ phase = "DECIDE" /\ disposition = "NONE" /\ sequence = 0
  /\ wait \in BOOLEAN /\ idle \in (IF wait THEN BOOLEAN ELSE {FALSE})
  /\ passStart = 0 /\ deadline = 0 /\ chunks = 0
  /\ stopped = FALSE
  /\ triedAt = [t \in Tasks |-> Never]

NextPass ==
  /\ StartPass
  /\ phase' = "PASS" /\ sequence' = sequence + 1 /\ passStart' = clock

FirstPass ==
  /\ phase = "DECIDE" /\ sequence = 0
  /\ NextPass
  /\ UNCHANGED <<world, request, faults, disposition, wait, idle, deadline, chunks,
                 stopped, triedAt>>

\* driveRepositories returns; observePass is awaited before anything is read.
PassReturns ==
  /\ phase = "PASS" /\ stage = "OVER"
  /\ triedAt' = [t \in Tasks |-> IF t \in attempted THEN passStart ELSE triedAt[t]]
  /\ IF ended = "PLANNER_THREW" THEN phase' = "ENDED" /\ disposition' = "THREW"
     ELSE phase' = "DECIDE" /\ UNCHANGED disposition
  /\ UNCHANGED <<repositoryVars, sequence, wait, idle, passStart, deadline, chunks,
                 stopped>>

\* The answer to a reset that fell inside the pass: another one, at once.
PassAgain ==
  /\ phase = "DECIDE" /\ sequence > 0 /\ Disposition = "MATURED_DURING_PASS"
  /\ disposition' = Disposition
  /\ NextPass
  /\ UNCHANGED <<world, request, faults, wait, idle, deadline, chunks, stopped, triedAt>>

\* A sleep gets a chunk for each unit of its distance and two more, whatever
\* the clock does meanwhile.
FallAsleep ==
  /\ phase = "DECIDE" /\ sequence > 0 /\ Disposition \in Sleeping
  /\ phase' = "SLEEP" /\ disposition' = Disposition
  /\ \/ /\ Disposition = "WAITED"
        /\ \E t \in Soonest : deadline' = task[t].reset + 1 /\ chunks' = Required(t) + 2
     \/ /\ Disposition = "IDLE_POLLED"
        /\ deadline' = clock + IdlePoll /\ chunks' = IdlePoll + 2
  /\ UNCHANGED <<repositoryVars, sequence, wait, idle, passStart, stopped, triedAt>>

Conclude ==
  /\ phase = "DECIDE" /\ sequence > 0 /\ Disposition \in Endings
  /\ phase' = "ENDED" /\ disposition' = Disposition
  /\ UNCHANGED <<repositoryVars, sequence, wait, idle, passStart, deadline, chunks,
                 stopped, triedAt>>

-----------------------------------------------------------------------------
(* sleepUntilInstant, and what follows the wait                            *)

SleepChunkUncounted ==
  /\ phase = "SLEEP" /\ ~stopped /\ clock < deadline /\ chunks > 0
  /\ UNCHANGED vars

SleepChunk ==
  /\ phase = "SLEEP" /\ ~stopped /\ clock < deadline /\ chunks > 0
  /\ chunks' = chunks - 1
  /\ UNCHANGED <<repositoryVars, phase, disposition, sequence, wait, idle, passStart,
                 deadline, stopped, triedAt>>

SleepEnds ==
  /\ phase = "SLEEP"
  /\ \/ stopped /\ phase' = "ENDED" /\ disposition' = "SHUTDOWN_REQUESTED"
     \/ ~stopped /\ clock >= deadline /\ phase' = "REGISTRY" /\ UNCHANGED disposition
     \/ /\ ~stopped /\ clock < deadline /\ chunks = 0
        /\ phase' = "ENDED" /\ disposition' = "SLEEP_BUDGET_SPENT"
  /\ UNCHANGED <<repositoryVars, sequence, wait, idle, passStart, deadline, chunks,
                 stopped, triedAt>>

\* resolveRegistry has answered: the enlisted repositories and the capacity
\* may both have changed.
RegistryRead ==
  /\ phase = "REGISTRY" /\ ~stopped
  /\ registered' \in Registries /\ capacity' \in 1 .. MaxCapacity
  /\ NextPass
  /\ UNCHANGED <<world, faults, disposition, wait, idle, deadline, chunks, stopped,
                 triedAt>>

RegistryRefused ==
  /\ phase = "REGISTRY"
  /\ \/ /\ stopped /\ disposition' = "SHUTDOWN_REQUESTED"
        /\ UNCHANGED faults
     \/ ~stopped /\ Fault /\ disposition' = "REGISTRY_UNUSABLE_AFTER_WAIT"
  /\ phase' = "ENDED"
  /\ UNCHANGED <<world, request, passVars, sequence, wait, idle, passStart, deadline,
                 chunks, stopped, triedAt>>

\* The first interrupt; it never ends a pass that is under way.
Interrupt ==
  /\ ~stopped /\ wait /\ phase # "ENDED" /\ Fault
  /\ stopped' = TRUE
  /\ UNCHANGED <<world, request, passVars, phase, disposition, sequence, wait, idle,
                 passStart, deadline, chunks, triedAt>>

Ended == phase = "ENDED" /\ UNCHANGED vars

-----------------------------------------------------------------------------

InPass == phase = "PASS" /\ Coordinator /\ UNCHANGED schedulerVars
Runs(t) == (RunEnds(t) \/ RunEndsUnproven(t)) /\ UNCHANGED schedulerVars
Elsewhere == phase # "ENDED" /\ sequence > 0 /\ Others /\ UNCHANGED schedulerVars

Step ==
  \/ FirstPass \/ InPass \/ PassReturns \/ PassAgain \/ FallAsleep \/ Conclude
  \/ SleepChunk \/ SleepEnds \/ RegistryRead \/ RegistryRefused

Next ==
  \/ Step
  \/ \E t \in Tasks : Runs(t)
  \/ Elsewhere \/ Interrupt \/ Ended

Spec == Init /\ [][Next]_vars

\* The event loop gets its turns and a driven task comes back: every command a
\* run starts has a timeout and its steps are counted.  Nothing is assumed of
\* the clock, of other processes or of people.
FairSpec == Spec /\ WF_vars(Step) /\ \A t \in Tasks : WF_vars(Runs(t))

-----------------------------------------------------------------------------
(* Properties                                                              *)

\* Every variable holds what the code can put there; in particular no more
\* cycles are run than the budget has.
TypeOK ==
  /\ clock \in Instants
  /\ declared \in [Tasks -> {"OPEN", "DONE"}] /\ task \in [Tasks -> TaskState]
  /\ lease \in [Dirs -> Leases]
  /\ registered \subseteq Repos /\ capacity \in 1 .. MaxCapacity
  /\ stage \in Stages /\ ended \in Outcomes
  /\ planned \subseteq Tasks /\ pending \subseteq planned
  /\ active \in [Tasks -> Executions]
  /\ attempted \subseteq Tasks /\ unproven \subseteq attempted
  /\ obstructed \subseteq attempted
  /\ faults \in 0 .. MaxFaults
  /\ phase \in {"PASS", "DECIDE", "SLEEP", "REGISTRY", "ENDED"}
  /\ disposition \in Dispositions
  /\ sequence \in 0 .. MaxCycles
  /\ wait \in BOOLEAN /\ idle \in BOOLEAN /\ stopped \in BOOLEAN
  /\ passStart \in Instants /\ deadline \in Nat /\ chunks \in Nat
  /\ triedAt \in [Tasks -> Instants \cup {Never}]

\* A pass never spends a task's one admission on a lease that another
\* execution of the same pass is holding, however many repositories share a
\* Git common directory and whatever settles in between
\* (src/run/repository-coordinator.ts:515).
NeverItsOwnObstacle == obstructed = {}

\* A pass that reports RUN_COMPLETE or NOTHING_ADMITTED has admitted every
\* task its last plan ranked: no slot that freed late, no busy directory and
\* no edit of a task file leaves one behind.
PassIsExhaustive ==
  stage = "OVER" /\ ended = "COMPLETE" => planned \subseteq attempted

\* While the scheduler sleeps, re-reads its registry or plans a further pass it
\* is nobody's writer: no execution runs and no lease is its own, not even one
\* whose release failed in an earlier pass (src/schedule/scheduler.ts:733-770).
HoldsNothingAcrossAWait ==
  phase \in {"SLEEP", "REGISTRY"} \/ (stage = "PLAN" /\ attempted = {}) =>
    /\ Active = {}
    /\ \A d \in Dirs : lease[d] \notin {"OURS", "LEAKED"}

\* Whatever the last plan ranked and a recorded reset has released is never
\* left for nobody: when the scheduler stops for want of a wake, or sleeps, a
\* complete pass that began at or after the reset has attempted the task.  A
\* reset that fell inside a pass is what makes this hard (durable-wake.ts:316).
NoWakeIsMissed ==
  [][(phase = "DECIDE" /\ ended = "COMPLETE"
      /\ (phase' = "SLEEP" \/ (phase' = "ENDED" /\ disposition' = "NO_FUTURE_WAKE")))
     => \A t \in planned \cap Wakes :
          task[t].reset <= clock => triedAt[t] >= task[t].reset]_vars

\* Asked to stop, the scheduler starts no further pass, in whichever of its
\* waits the request reached it (src/schedule/scheduler.ts:946-984).
NoPassAfterStop == [][stopped => sequence' = sequence \/ sequence = 0]_vars

\* The invocation ends, even under a clock that stands still: passes run out
\* of tasks, sleeps out of chunks and cycles out of their budget.
EventuallyEnds == <>(phase = "ENDED")
=============================================================================
