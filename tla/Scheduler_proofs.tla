--------------------------- MODULE Scheduler_proofs ---------------------------
(***************************************************************************)
(* Proofs about RepositoryPass and Scheduler, for every set of             *)
(* repositories and tasks and every bound.                                 *)
(*                                                                         *)
(* PassInv is what a pass keeps by itself: a lease that is ours has the    *)
(* one execution that holds it, a lease that leaked has an admission that  *)
(* says so, and what the last plan ranked is attempted, still to come, or  *)
(* waits for something in flight.  SchedulerInv adds what the scheduler    *)
(* knows between passes: whoever sleeps has had every release proved.      *)
(***************************************************************************)
EXTENDS Scheduler, FiniteSetTheorems, TLAPS

PassTypes ==
  /\ clock \in Instants
  /\ declared \in [Tasks -> {"OPEN", "DONE"}] /\ task \in [Tasks -> TaskState]
  /\ lease \in [Dirs -> Leases]
  /\ registered \subseteq Repos /\ capacity \in 1 .. MaxCapacity
  /\ stage \in Stages /\ ended \in Outcomes
  /\ planned \subseteq Tasks /\ pending \subseteq planned
  /\ active \in [Tasks -> Executions]
  /\ attempted \subseteq Tasks /\ unproven \subseteq attempted
  /\ obstructed \subseteq attempted
  /\ faults \in 0 .. MaxFaults

Exclusion ==
  /\ \A s, t \in Active : Dir(s) = Dir(t) => s = t
  /\ \A t \in Tasks : active[t] = "driving" => lease[Dir(t)] = "OURS"
  /\ \A d \in Dirs : lease[d] = "OURS" =>
       \E t \in Tasks : active[t] = "driving" /\ Dir(t) = d
  /\ obstructed = {}

Accounts ==
  /\ Active \subseteq attempted
  /\ \A d \in Dirs : lease[d] = "LEAKED" =>
       unproven # {} \/ \E t \in Tasks : active[t] = "unproven"

Ranked ==
  /\ stage \in {"IDLE", "OVER"} => Active = {}
  /\ stage = "IDLE" => planned = {}
  /\ stage = "ADMIT" /\ Active = {} => planned \subseteq pending \cup attempted
  /\ stage = "DRAIN" => ended # "COMPLETE"
  /\ stage = "OVER" /\ ended = "COMPLETE" => planned \subseteq attempted

PassInv == PassTypes /\ Exclusion /\ Accounts /\ Ranked

NoneOfOurs == \A d \in Dirs : lease[d] \notin {"OURS", "LEAKED"}

Control ==
  /\ phase \in {"PASS", "DECIDE", "SLEEP", "REGISTRY", "ENDED"}
  /\ disposition \in Dispositions
  /\ sequence \in 0 .. MaxCycles
  /\ wait \in BOOLEAN /\ idle \in BOOLEAN /\ stopped \in BOOLEAN
  /\ passStart \in Instants /\ deadline \in Nat /\ chunks \in Nat
  /\ triedAt \in [Tasks -> Instants \cup {Never}]

Between ==
  /\ sequence = 0 => phase = "DECIDE" /\ stage = "IDLE" /\ unproven = {}
  /\ sequence > 0 /\ phase # "PASS" => stage = "OVER"
  /\ phase \in {"SLEEP", "REGISTRY"} => unproven = {} /\ sequence < MaxCycles
  /\ phase = "DECIDE" /\ sequence > 0 => \A t \in attempted : triedAt[t] = passStart

SchedulerInv == PassInv /\ Control /\ Between

USE RepositoriesAreNamed, RankingIsTotal, PassBounds, WaitBounds

-----------------------------------------------------------------------------
(* Lemmas on the directories and on a pass at rest                         *)

LEMMA DirType == \A t \in Tasks : Dir(t) \in Dirs
  BY DEF Dir, Dirs

\* At rest nothing is active, so a lease that is ours or leaked would have to
\* be accounted for by a release that was not proved.
LEMMA AtRest ==
  ASSUME PassInv, Active = {}, unproven = {}
  PROVE  NoneOfOurs
  BY DirType DEF PassInv, Exclusion, Accounts, Active, NoneOfOurs

\* No admission is held up by a sibling: its directory would be busy.
LEMMA FreeOfSiblings ==
  ASSUME PassInv, NEW t \in Tasks, ~Busy(t)
  PROVE  lease[Dir(t)] # "OURS"
  BY DirType DEF PassInv, Exclusion, Busy, Active

-----------------------------------------------------------------------------
(* The pass                                                                *)

LEMMA PlanKeeps ==
  ASSUME PassInv, Plan PROVE PassInv'
<1> USE DEF Plan, world, request
<1>1. PassTypes' BY DEF PassInv, PassTypes, Stages, Eligible
<1>2. Exclusion' BY DEF PassInv, Exclusion, Active, Dir
<1>3. Accounts' BY DEF PassInv, Accounts, Active
<1>4. Ranked' BY DEF PassInv, Ranked, Active
<1>. QED BY <1>1, <1>2, <1>3, <1>4 DEF PassInv

LEMMA PlanFailsKeeps ==
  ASSUME PassInv, PlanFails PROVE PassInv'
<1> USE DEF PlanFails, world, request, Leave, Fault
<1>1. PassTypes' BY DEF PassInv, PassTypes, Stages, Outcomes
<1>2. Exclusion' BY DEF PassInv, Exclusion, Active, Dir
<1>3. Accounts' BY DEF PassInv, Accounts, Active
<1>4. Ranked' BY DEF PassInv, Ranked, Active
<1>. QED BY <1>1, <1>2, <1>3, <1>4 DEF PassInv

LEMMA AdmissionsMadeKeeps ==
  ASSUME PassInv, AdmissionsMade PROVE PassInv'
<1> USE DEF AdmissionsMade, world, request, Leave
<1>1. PassTypes' BY DEF PassInv, PassTypes, Stages, Outcomes
<1>2. Exclusion' BY DEF PassInv, Exclusion, Active, Dir
<1>3. Accounts' BY DEF PassInv, Accounts, Active
<1>4. Ranked'
  <2>1. ASSUME Active = {}, ~Spent PROVE planned \subseteq attempted
    <3>1. ~Full
      BY <2>1, FS_EmptySet DEF Full, PassInv, PassTypes
    <3>2. Admissible = {}
      BY <2>1, <3>1
    <3>3. Untried = {}
      BY <2>1, <3>2 DEF Admissible, Busy
    <3>. QED BY <2>1, <3>3 DEF Untried, PassInv, Ranked
  <2>2. Active' = Active
    BY DEF Active
  <2>. QED BY <2>1, <2>2 DEF Ranked
<1>. QED BY <1>1, <1>2, <1>3, <1>4 DEF PassInv

LEMMA AdmitKeeps ==
  ASSUME PassInv, Admit PROVE PassInv'
<1>1. PICK t \in Admissible :
        /\ TakeLease(t)
        /\ attempted' = attempted \cup {t}
        /\ pending' = {s \in pending : Rank[s] > Rank[t]}
        /\ \A s \in Admissible : Rank[t] <= Rank[s]
  BY DEF Admit
<1>2. /\ t \in Tasks /\ t \in pending /\ ~Busy(t)
      /\ lease[Dir(t)] # "OURS" /\ lease[Dir(t)] \in Leases /\ Dir(t) \in Dirs
  <2>1. t \in Tasks /\ t \in pending /\ ~Busy(t)
    BY DEF Admissible, Untried, PassInv, PassTypes
  <2>. QED BY <2>1, FreeOfSiblings, DirType DEF PassInv, PassTypes
<1>3. /\ clock' = clock /\ declared' = declared /\ task' = task
      /\ registered' = registered /\ capacity' = capacity
      /\ stage = "ADMIT" /\ stage' = stage /\ ended' = ended /\ planned' = planned
      /\ unproven' = unproven
  BY DEF Admit, request
<1>4. \/ /\ active' = [active EXCEPT ![t] = "driving"]
         /\ lease' = [lease EXCEPT ![Dir(t)] = "OURS"]
         /\ lease[Dir(t)] # "LEAKED"
      \/ active' = [active EXCEPT ![t] = "proven"] /\ lease' = lease
  BY <1>1, <1>2 DEF TakeLease
<1>5. obstructed' = obstructed /\ faults' \in 0 .. MaxFaults
  BY <1>1, <1>2 DEF TakeLease, Fault, PassInv, PassTypes
<1>6. active' \in [Tasks -> Executions] /\ lease' \in [Dirs -> Leases]
  BY <1>2, <1>4 DEF PassInv, PassTypes, Executions, Leases
<1>7. Active' = Active \cup {t}
  BY <1>2, <1>4 DEF Active, PassInv, PassTypes
<1>8. PassTypes'
  BY <1>1, <1>2, <1>3, <1>5, <1>6 DEF PassInv, PassTypes
<1>9. Exclusion'
  <2>1. \A r, s \in Active' : Dir(r) = Dir(s) => r = s
    BY <1>2, <1>7 DEF PassInv, Exclusion, Busy
  <2>2. ASSUME NEW s \in Tasks, active'[s] = "driving" PROVE lease'[Dir(s)] = "OURS"
    BY <1>2, <1>4, <2>2, DirType DEF PassInv, PassTypes, Exclusion
  <2>3. ASSUME NEW d \in Dirs, lease'[d] = "OURS"
        PROVE  \E s \in Tasks : active'[s] = "driving" /\ Dir(s) = d
    <3>1. CASE d = Dir(t)
      BY <1>2, <1>4, <2>3, <3>1 DEF PassInv, PassTypes
    <3>2. CASE d # Dir(t)
      <4>1. lease[d] = "OURS"
        BY <1>4, <2>3, <3>2 DEF PassInv, PassTypes
      <4>2. PICK s \in Tasks : active[s] = "driving" /\ Dir(s) = d
        BY <4>1 DEF PassInv, Exclusion
      <4>3. s # t
        BY <3>2, <4>2
      <4>. QED BY <1>4, <4>2, <4>3 DEF PassInv, PassTypes
    <3>. QED BY <3>1, <3>2
  <2>. QED BY <1>5, <2>1, <2>2, <2>3 DEF PassInv, Exclusion, Dir, Dirs
<1>10. Accounts'
  <2>1. Active' \subseteq attempted'
    BY <1>1, <1>7 DEF PassInv, Accounts
  <2>2. ASSUME NEW d \in Dirs, lease'[d] = "LEAKED"
        PROVE  unproven' # {} \/ \E s \in Tasks : active'[s] = "unproven"
    <3>1. lease[d] = "LEAKED"
      BY <1>2, <1>4, <2>2 DEF PassInv, PassTypes
    <3>2. unproven # {} \/ \E s \in Tasks : active[s] = "unproven"
      BY <3>1 DEF PassInv, Accounts
    <3>3. ASSUME NEW s \in Tasks, active[s] = "unproven" PROVE active'[s] = "unproven"
      BY <1>2, <1>4, <3>3 DEF PassInv, PassTypes, Admissible, Busy, Active
    <3>. QED BY <1>3, <3>2, <3>3
  <2>. QED BY <2>1, <2>2 DEF Accounts
<1>11. Ranked'
  BY <1>3, <1>7 DEF Ranked
<1>. QED BY <1>8, <1>9, <1>10, <1>11 DEF PassInv

LEMMA ReapKeeps ==
  ASSUME PassInv, Reap PROVE PassInv'
<1>1. /\ clock' = clock /\ declared' = declared /\ task' = task /\ lease' = lease
      /\ registered' = registered /\ capacity' = capacity
      /\ ended' = ended /\ planned' = planned /\ pending' = pending
      /\ attempted' = attempted /\ obstructed' = obstructed /\ faults' = faults
      /\ stage \in {"AWAIT", "DRAIN"}
      /\ unproven' = unproven \cup {t \in Tasks : active[t] = "unproven"}
      /\ active' = [t \in Tasks |-> IF active[t] = "driving" THEN "driving" ELSE "none"]
      /\ stage' = IF stage = "AWAIT" THEN "PLAN"
                  ELSE IF \E t \in Tasks : active[t] = "driving" THEN "DRAIN" ELSE "OVER"
  BY DEF Reap, world, request
<1>2. active' \in [Tasks -> Executions]
  BY <1>1 DEF Executions
<1>3. Active' = {t \in Tasks : active[t] = "driving"}
  BY <1>1 DEF Active
<1>4. unproven' \subseteq attempted'
  BY <1>1 DEF PassInv, PassTypes, Accounts, Active
<1>5. PassTypes'
  BY <1>1, <1>2, <1>4 DEF PassInv, PassTypes, Stages
<1>6. Exclusion'
  <2>1. \A t \in Tasks : active'[t] = "driving" <=> active[t] = "driving"
    BY <1>1
  <2>2. Active' \subseteq Active
    BY <1>3 DEF Active
  <2>. QED BY <1>1, <2>1, <2>2 DEF PassInv, Exclusion, Dir, Dirs
<1>7. Accounts'
  <2>1. Active' \subseteq attempted'
    BY <1>1, <1>3 DEF PassInv, Accounts, Active
  <2>2. ASSUME NEW d \in Dirs, lease[d] = "LEAKED" PROVE unproven' # {}
    BY <1>1, <2>2 DEF PassInv, Accounts
  <2>. QED BY <1>1, <2>1, <2>2 DEF Accounts
<1>8. Ranked'
  BY <1>1, <1>3 DEF PassInv, Ranked
<1>. QED BY <1>5, <1>6, <1>7, <1>8 DEF PassInv

\* Whatever a run comes to, its lease is no longer ours and its slot is not
\* free before the release has been tried.
LEMMA RunEndingKeeps ==
  ASSUME PassInv, NEW t \in Tasks, active[t] = "driving",
         NEW l \in {"FREE", "LEAKED"}, NEW e \in {"proven", "unproven"},
         l = "LEAKED" => e = "unproven",
         task' \in [Tasks -> TaskState],
         lease' = [lease EXCEPT ![Dir(t)] = l],
         active' = [active EXCEPT ![t] = e],
         faults' \in 0 .. MaxFaults,
         UNCHANGED <<clock, declared, request, stage, ended, planned, pending,
                     attempted, unproven, obstructed>>
  PROVE  PassInv'
<1>1. /\ lease' \in [Dirs -> Leases] /\ active' \in [Tasks -> Executions]
      /\ Dir(t) \in Dirs
  BY DirType DEF PassInv, PassTypes, Leases, Executions
<1>2. PassTypes'
  BY <1>1 DEF PassInv, PassTypes, request
<1>3. Active' = Active
  BY DEF Active, PassInv, PassTypes
<1>4. Exclusion'
  <2>1. ASSUME NEW s \in Tasks, active'[s] = "driving" PROVE lease'[Dir(s)] = "OURS"
    <3>1. s # t /\ active[s] = "driving"
      BY <2>1 DEF PassInv, PassTypes
    <3>2. Dir(s) # Dir(t)
      BY <3>1 DEF PassInv, Exclusion, Active
    <3>3. lease[Dir(s)] = "OURS"
      BY <3>1 DEF PassInv, Exclusion
    <3>. QED BY <3>2, <3>3, DirType DEF PassInv, PassTypes
  <2>2. ASSUME NEW d \in Dirs, lease'[d] = "OURS"
        PROVE  \E s \in Tasks : active'[s] = "driving" /\ Dir(s) = d
    <3>1. d # Dir(t) /\ lease[d] = "OURS"
      BY <2>2, <1>1 DEF PassInv, PassTypes
    <3>2. PICK s \in Tasks : active[s] = "driving" /\ Dir(s) = d
      BY <3>1 DEF PassInv, Exclusion
    <3>. QED BY <3>1, <3>2 DEF PassInv, PassTypes
  <2>. QED BY <1>3, <2>1, <2>2 DEF PassInv, Exclusion, Dir, Dirs
<1>5. Accounts'
  <2>1. ASSUME NEW d \in Dirs, lease'[d] = "LEAKED"
        PROVE  unproven # {} \/ \E s \in Tasks : active'[s] = "unproven"
    <3>1. CASE d = Dir(t)
      BY <1>1, <2>1, <3>1 DEF PassInv, PassTypes
    <3>2. CASE d # Dir(t)
      <4>1. lease[d] = "LEAKED"
        BY <2>1, <3>2, <1>1 DEF PassInv, PassTypes
      <4>2. unproven # {} \/ \E s \in Tasks : active[s] = "unproven"
        BY <4>1 DEF PassInv, Accounts
      <4>3. ASSUME NEW s \in Tasks, active[s] = "unproven" PROVE active'[s] = "unproven"
        BY <4>3 DEF PassInv, PassTypes
      <4>. QED BY <4>2, <4>3
    <3>. QED BY <3>1, <3>2
  <2>. QED BY <1>3, <2>1 DEF PassInv, Accounts, Dirs
<1>6. Ranked'
  BY <1>3 DEF PassInv, Ranked
<1>. QED BY <1>2, <1>4, <1>5, <1>6 DEF PassInv

\* A driven task keeps a state of the type.
LEMMA NextStateType ==
  ASSUME PassTypes, NEW t \in Tasks PROVE NextState(t) \subseteq TaskState
  BY DEF NextState, PassTypes

LEMMA RunKeeps ==
  ASSUME PassInv, NEW t \in Tasks, RunEnds(t) \/ RunEndsUnproven(t) PROVE PassInv'
<1>1. task' \in [Tasks -> TaskState]
  BY NextStateType DEF RunEnds, RunEndsUnproven, PassInv, PassTypes
<1>2. CASE RunEnds(t)
  BY <1>1, <1>2, RunEndingKeeps DEF RunEnds, PassInv, PassTypes
<1>3. CASE RunEndsUnproven(t)
  <2>1. PICK l \in {"FREE", "LEAKED"} : lease' = [lease EXCEPT ![Dir(t)] = l]
    BY <1>3 DEF RunEndsUnproven
  <2>2. faults' \in 0 .. MaxFaults
    BY <1>3 DEF RunEndsUnproven, Fault, PassInv, PassTypes
  <2>3. /\ active[t] = "driving"
        /\ active' = [active EXCEPT ![t] = "unproven"]
        /\ UNCHANGED <<clock, declared, request, stage, ended, planned, pending,
                       attempted, unproven, obstructed>>
    BY <1>3 DEF RunEndsUnproven
  <2>. QED BY <1>1, <2>1, <2>2, <2>3, RunEndingKeeps
<1>. QED BY <1>2, <1>3

LEMMA OthersKeep ==
  ASSUME PassInv, Others PROVE PassInv'
<1> USE DEF request, passVars, Fault
<1>1. CASE Tick
  <2>1. PassTypes'
    BY <1>1 DEF Tick, PassInv, PassTypes, Instants
  <2>. QED BY <1>1, <2>1 DEF Tick, PassInv, Exclusion, Accounts, Ranked, Active, Dir, Dirs
<1>2. CASE \E t \in Tasks : EditTask(t)
  <2>1. PassTypes'
    BY <1>2 DEF EditTask, PassInv, PassTypes
  <2>. QED BY <1>2, <2>1 DEF EditTask, PassInv, Exclusion, Accounts, Ranked, Active, Dir,
              Dirs
<1>3. ASSUME NEW d \in Dirs, lease[d] \in {"FREE", "FOREIGN"},
             NEW l \in {"FREE", "FOREIGN", "DEAD"}, lease' = [lease EXCEPT ![d] = l],
             task' \in [Tasks -> TaskState], faults' \in 0 .. MaxFaults,
             UNCHANGED <<clock, declared, request, passVars>>
      PROVE  PassInv'
  <2>1. PassTypes'
    BY <1>3 DEF PassInv, PassTypes, Leases
  <2>2. \A c \in Dirs : lease'[c] \in {"OURS", "LEAKED"} \/ lease[c] \in {"OURS", "LEAKED"}
          => lease'[c] = lease[c]
    BY <1>3 DEF PassInv, PassTypes
  <2>3. Exclusion'
    BY <1>3, <2>2, DirType DEF PassInv, Exclusion, Active, Dir, Dirs
  <2>4. Accounts'
    BY <1>3, <2>2 DEF PassInv, Accounts, Active, Dirs
  <2>5. Ranked'
    BY <1>3 DEF PassInv, Ranked, Active
  <2>. QED BY <2>1, <2>3, <2>4, <2>5 DEF PassInv
<1>4. CASE \E d \in Dirs : ForeignTakes(d)
  <2>1. PICK d \in Dirs : ForeignTakes(d)
    BY <1>4
  <2>2. faults' \in 0 .. MaxFaults /\ task' \in [Tasks -> TaskState]
    BY <2>1 DEF ForeignTakes, PassInv, PassTypes
  <2>. QED BY <1>3, <2>1, <2>2 DEF ForeignTakes
<1>5. CASE \E t \in Tasks : ForeignLeaves(t)
  <2>1. PICK t \in Tasks : ForeignLeaves(t)
    BY <1>5
  <2>2. task' \in [Tasks -> TaskState] /\ faults' \in 0 .. MaxFaults
    BY <2>1, NextStateType DEF ForeignLeaves, PassInv, PassTypes
  <2>3. PICK l \in {"FREE", "DEAD"} : lease' = [lease EXCEPT ![Dir(t)] = l]
    BY <2>1 DEF ForeignLeaves
  <2>4. Dir(t) \in Dirs /\ lease[Dir(t)] = "FOREIGN"
    BY <2>1, DirType DEF ForeignLeaves
  <2>5. UNCHANGED <<clock, declared, request, passVars>>
    BY <2>1 DEF ForeignLeaves
  <2>. QED BY <1>3, <2>2, <2>3, <2>4, <2>5
<1>. QED BY <1>1, <1>2, <1>4, <1>5 DEF Others

LEMMA CoordinatorKeeps ==
  ASSUME PassInv, Coordinator PROVE PassInv'
  BY PlanKeeps, PlanFailsKeeps, AdmitKeeps, AdmissionsMadeKeeps, ReapKeeps
     DEF Coordinator

\* A pass that starts with nothing of ours anywhere starts with its accounts
\* in order.
LEMMA StartKeeps ==
  ASSUME PassInv, NoneOfOurs, StartPass, UNCHANGED <<world, faults>>,
         registered' \subseteq Repos, capacity' \in 1 .. MaxCapacity
  PROVE  PassInv' /\ stage' = "PLAN" /\ unproven' = {}
<1> USE DEF StartPass, world
<1>1. Active = {} /\ Active' = {}
  BY DEF PassInv, Ranked, Active
<1>2. PassTypes'
  BY DEF PassInv, PassTypes, Stages, Outcomes
<1>3. Exclusion'
  BY <1>1 DEF PassInv, Exclusion, NoneOfOurs, Active, Dirs
<1>4. Accounts'
  BY <1>1 DEF Accounts, NoneOfOurs, Dirs
<1>5. Ranked'
  BY DEF Ranked
<1>. QED BY <1>2, <1>3, <1>4, <1>5 DEF PassInv

-----------------------------------------------------------------------------
(* The scheduler                                                           *)

\* What the answers of the scheduler rest on.
LEMMA Answers ==
  ASSUME wait \in BOOLEAN, stopped \in BOOLEAN, idle \in BOOLEAN
  PROVE  /\ Disposition \in Dispositions
         /\ Disposition \in Sleeping \cup {"MATURED_DURING_PASS"} =>
              ~stopped /\ unproven = {} /\ ~(sequence >= MaxCycles)
         /\ Disposition \in Sleeping \cup {"NO_FUTURE_WAKE"} => Matured = {}
  BY DEF Disposition, Dispositions, Sleeping, Endings

LEMMA InitHolds == ASSUME Init PROVE SchedulerInv
<1> USE DEF Init, PassInit
<1>1. PassTypes
  BY DEF PassTypes, Leases, Stages, Outcomes, Executions, Instants
<1>2. Exclusion /\ Accounts /\ Ranked
  BY DEF Exclusion, Accounts, Ranked, Active
<1>3. Control
  <2>1. idle \in BOOLEAN /\ wait \in BOOLEAN
    OBVIOUS
  <2>2. triedAt \in [Tasks -> Instants \cup {Never}] /\ passStart \in Instants
    BY DEF Instants
  <2>3. disposition \in Dispositions
    BY DEF Dispositions
  <2>4. sequence \in 0 .. MaxCycles /\ deadline \in Nat /\ chunks \in Nat
    OBVIOUS
  <2>5. stopped \in BOOLEAN
    BY Zenon
  <2>6. phase = "DECIDE"
    OBVIOUS
  <2>. QED BY ONLY <2>1, <2>2, <2>3, <2>4, <2>5, <2>6 DEF Control
<1>4. Between
  BY DEF Between
<1>. QED BY <1>1, <1>2, <1>3, <1>4 DEF SchedulerInv, PassInv

\* A further pass is begun by a scheduler at rest that may still run one.
LEMMA NextPassKeeps ==
  ASSUME SchedulerInv, NextPass, phase \in {"DECIDE", "SLEEP", "REGISTRY"},
         unproven = {}, sequence < MaxCycles,
         UNCHANGED <<world, faults, wait, idle, deadline, chunks, stopped, triedAt>>,
         disposition' \in Dispositions,
         registered' \subseteq Repos, capacity' \in 1 .. MaxCapacity
  PROVE  SchedulerInv'
<1>1. Active = {}
  BY DEF SchedulerInv, Between, Control, PassInv, Ranked
<1>2. NoneOfOurs
  BY <1>1, AtRest DEF SchedulerInv
<1>3. PassInv' /\ stage' = "PLAN" /\ unproven' = {}
  BY <1>2, StartKeeps DEF NextPass, SchedulerInv
<1>4. Control'
  BY DEF Control, NextPass, SchedulerInv, PassInv, PassTypes
<1>5. Between'
  BY <1>3 DEF Between, NextPass, SchedulerInv, Control
<1>. QED BY <1>3, <1>4, <1>5 DEF SchedulerInv

\* A step that leaves the repositories alone leaves their invariant.
LEMMA PassAlone ==
  ASSUME PassInv, UNCHANGED repositoryVars PROVE PassInv'
  BY DEF repositoryVars, world, request, passVars, PassInv, PassTypes, Exclusion,
     Accounts, Ranked, Active, Dir, Dirs

LEMMA PassStepKeeps ==
  ASSUME SchedulerInv, PassInv', UNCHANGED schedulerVars,
         phase = "PASS" \/ UNCHANGED passVars, sequence > 0
  PROVE  SchedulerInv'
<1>1. Control'
  BY DEF Control, SchedulerInv, schedulerVars
<1>2. Between'
  BY DEF Between, SchedulerInv, schedulerVars, passVars, Control
<1>. QED BY <1>1, <1>2 DEF SchedulerInv

LEMMA StepKeeps ==
  ASSUME SchedulerInv, Step PROVE SchedulerInv'
<1>a. registered \subseteq Repos /\ capacity \in 1 .. MaxCapacity
  BY DEF SchedulerInv, PassInv, PassTypes
<1>b. /\ Disposition \in Dispositions
      /\ Disposition \in Sleeping \cup {"MATURED_DURING_PASS"} =>
           unproven = {} /\ sequence < MaxCycles
  BY Answers DEF SchedulerInv, Control
<1>1. CASE FirstPass
  BY <1>1, <1>a, NextPassKeeps DEF FirstPass, SchedulerInv, Between, Control, request
<1>2. CASE InPass
  <2>1. PassInv'
    BY <1>2, CoordinatorKeeps DEF InPass, SchedulerInv
  <2>2. phase = "PASS" /\ UNCHANGED schedulerVars /\ sequence > 0
    BY <1>2 DEF InPass, SchedulerInv, Between, Control
  <2>. QED BY <2>1, <2>2, PassStepKeeps
<1>3. CASE PassReturns
  <2>1. PassInv'
    BY <1>3, PassAlone DEF PassReturns, SchedulerInv
  <2>2. Control'
    BY <1>3 DEF PassReturns, Control, SchedulerInv, Dispositions, Endings
  <2>3. Between'
    BY <1>3 DEF PassReturns, Between, SchedulerInv, Control, repositoryVars, passVars,
       PassInv, PassTypes
  <2>. QED BY <2>1, <2>2, <2>3 DEF SchedulerInv
<1>4. CASE PassAgain
  BY <1>4, <1>a, <1>b, NextPassKeeps DEF PassAgain, request
<1>5. CASE FallAsleep
  <2>1. PassInv'
    BY <1>5, PassAlone DEF FallAsleep, SchedulerInv
  <2>2. deadline' \in Nat /\ chunks' \in Nat
    <3>1. CASE \E t \in Soonest : deadline' = task[t].reset + 1 /\ chunks' = Required(t) + 2
      <4>1. PICK t \in Soonest : deadline' = task[t].reset + 1 /\ chunks' = Required(t) + 2
        BY <3>1
      <4>2. t \in Tasks /\ task[t].state = "BLOCKED_USAGE_LIMIT" /\ task[t].reset > clock
        BY DEF Soonest, Future, Wakes
      <4>3. task[t].reset \in Instants
        BY <4>2 DEF SchedulerInv, PassInv, PassTypes, TaskState, Open, Blocked
      <4>4. clock \in Nat /\ task[t].reset \in Nat
        BY <4>3 DEF Instants, SchedulerInv, PassInv, PassTypes
      <4>. QED BY <4>1, <4>2, <4>4 DEF Required
    <3>2. CASE deadline' = clock + IdlePoll /\ chunks' = IdlePoll + 2
      BY <3>2 DEF Instants, SchedulerInv, PassInv, PassTypes
    <3>. QED BY <1>5, <3>1, <3>2 DEF FallAsleep
  <2>3. Control'
    BY <1>5, <1>b, <2>2 DEF FallAsleep, Control, SchedulerInv
  <2>4. Between'
    BY <1>5, <1>b DEF FallAsleep, Between, SchedulerInv, Control, repositoryVars, passVars
  <2>. QED BY <2>1, <2>3, <2>4 DEF SchedulerInv
<1>6. CASE Conclude
  <2>1. PassInv'
    BY <1>6, PassAlone DEF Conclude, SchedulerInv
  <2>2. Control'
    BY <1>6, <1>b DEF Conclude, Control, SchedulerInv
  <2>3. Between'
    BY <1>6 DEF Conclude, Between, SchedulerInv, Control, repositoryVars, passVars
  <2>. QED BY <2>1, <2>2, <2>3 DEF SchedulerInv
<1>7. CASE SleepChunk
  <2>1. PassInv'
    BY <1>7, PassAlone DEF SleepChunk, SchedulerInv
  <2>2. Control'
    BY <1>7 DEF SleepChunk, Control, SchedulerInv
  <2>3. Between'
    BY <1>7 DEF SleepChunk, Between, SchedulerInv, Control, repositoryVars, passVars
  <2>. QED BY <2>1, <2>2, <2>3 DEF SchedulerInv
<1>8. CASE SleepEnds
  <2>1. PassInv'
    BY <1>8, PassAlone DEF SleepEnds, SchedulerInv
  <2>2. Control'
    BY <1>8 DEF SleepEnds, Control, SchedulerInv, Dispositions, Endings
  <2>3. sequence > 0
    BY <1>8 DEF SleepEnds, SchedulerInv, Between, Control
  <2>4. stage = "OVER"
    BY <1>8, <2>3 DEF SleepEnds, SchedulerInv, Between
  <2>5. Between'
    BY <1>8, <2>3, <2>4 DEF SleepEnds, Between, SchedulerInv, Control, repositoryVars, passVars
  <2>. QED BY <2>1, <2>2, <2>5 DEF SchedulerInv
<1>9. CASE RegistryRead
  <2>1. /\ phase = "REGISTRY" /\ unproven = {} /\ sequence < MaxCycles
        /\ registered' \subseteq Repos /\ capacity' \in 1 .. MaxCapacity
        /\ disposition' \in Dispositions
    BY <1>9 DEF RegistryRead, SchedulerInv, Between, Control
  <2>. QED BY <1>9, <2>1, NextPassKeeps DEF RegistryRead
<1>10. CASE RegistryRefused
  <2>1. faults' \in 0 .. MaxFaults
    BY <1>10 DEF RegistryRefused, Fault, SchedulerInv, PassInv, PassTypes
  <2>2. PassInv'
    BY <1>10, <2>1 DEF RegistryRefused, SchedulerInv, world, request, passVars, PassInv,
       PassTypes, Exclusion, Accounts, Ranked, Active, Dir, Dirs
  <2>3. Control'
    BY <1>10 DEF RegistryRefused, Control, SchedulerInv, Dispositions, Endings
  <2>4. Between'
    BY <1>10 DEF RegistryRefused, Between, SchedulerInv, Control, passVars
  <2>. QED BY <2>2, <2>3, <2>4 DEF SchedulerInv
<1>. QED BY <1>1, <1>2, <1>3, <1>4, <1>5, <1>6, <1>7, <1>8, <1>9, <1>10 DEF Step

LEMMA NextKeeps ==
  ASSUME SchedulerInv, [Next]_vars PROVE SchedulerInv'
<1>1. CASE Step
  BY <1>1, StepKeeps
<1>2. ASSUME NEW t \in Tasks, Runs(t) PROVE SchedulerInv'
  <2>1. PassInv'
    BY <1>2, RunKeeps DEF Runs, SchedulerInv
  <2>2. UNCHANGED schedulerVars
    BY <1>2 DEF Runs
  <2>3. phase = "PASS" /\ sequence > 0
    <3>1. active[t] = "driving"
      BY <1>2 DEF Runs, RunEnds, RunEndsUnproven
    <3>2. Active # {}
      BY <3>1 DEF Active
    <3>. QED BY <3>2 DEF SchedulerInv, PassInv, Ranked, Between, Control
  <2>. QED BY <2>1, <2>2, <2>3, PassStepKeeps
<1>3. CASE Elsewhere
  <2>1. PassInv' /\ UNCHANGED schedulerVars /\ sequence > 0
    BY <1>3, OthersKeep DEF Elsewhere, SchedulerInv
  <2>2. UNCHANGED passVars
    BY <1>3 DEF Elsewhere, Others, Tick, EditTask, ForeignLeaves, ForeignTakes
  <2>. QED BY <2>1, <2>2, PassStepKeeps
<1>4. CASE Interrupt
  <2>1. faults' \in 0 .. MaxFaults
    BY <1>4 DEF Interrupt, Fault, SchedulerInv, PassInv, PassTypes
  <2>2. PassInv'
    BY <1>4, <2>1 DEF Interrupt, SchedulerInv, world, request, passVars, PassInv,
       PassTypes, Exclusion, Accounts, Ranked, Active, Dir, Dirs
  <2>3. Control'
    BY <1>4 DEF Interrupt, Control, SchedulerInv
  <2>4. Between'
    BY <1>4 DEF Interrupt, Between, SchedulerInv, Control, passVars
  <2>. QED BY <2>2, <2>3, <2>4 DEF SchedulerInv
<1>5. CASE UNCHANGED vars
  <2>1. PassInv'
    BY <1>5, PassAlone DEF vars, SchedulerInv
  <2>2. UNCHANGED <<schedulerVars, passVars>>
    BY <1>5 DEF vars, repositoryVars
  <2>3. Control'
    BY <2>2 DEF Control, SchedulerInv, schedulerVars
  <2>4. Between'
    BY <2>2 DEF Between, SchedulerInv, schedulerVars, passVars, Control
  <2>. QED BY <2>1, <2>3, <2>4 DEF SchedulerInv
<1>6. CASE Ended
  BY <1>5, <1>6 DEF Ended
<1>. QED BY <1>1, <1>2, <1>3, <1>4, <1>5, <1>6 DEF Next

LEMMA Invariance == Spec => []SchedulerInv
<1>1. Init => SchedulerInv
  BY InitHolds
<1>2. SchedulerInv /\ [Next]_vars => SchedulerInv'
  BY NextKeeps
<1>. QED BY <1>1, <1>2, PTL DEF Spec

-----------------------------------------------------------------------------
(* Theorems                                                                *)

\* Every variable of driveScheduler and of the pass under it keeps its type,
\* and no more cycles are run than the budget has.
THEOREM SchedulerTypeCorrect == Spec => []TypeOK
<1>1. SchedulerInv => TypeOK
  BY DEF SchedulerInv, PassInv, PassTypes, Control, TypeOK
<1>. QED BY <1>1, Invariance, PTL

\* The exclusion of driveRepositories on the Git common directory: no task's
\* one admission is lost at a lease a sibling of the same pass holds.
THEOREM PassExcludesItself == Spec => []NeverItsOwnObstacle
<1>1. SchedulerInv => NeverItsOwnObstacle
  BY DEF SchedulerInv, PassInv, Exclusion, NeverItsOwnObstacle
<1>. QED BY <1>1, Invariance, PTL

\* A pass of driveRepositories that completes has admitted all its last plan
\* ranked.
THEOREM PassLeavesNothing == Spec => []PassIsExhaustive
<1>1. SchedulerInv => PassIsExhaustive
  BY DEF SchedulerInv, PassInv, Ranked, PassIsExhaustive
<1>. QED BY <1>1, Invariance, PTL

\* Whoever sleeps, re-reads the registry or begins another pass holds no lease
\* of any repository, a leaked one included.
THEOREM SleeperHoldsNothing == Spec => []HoldsNothingAcrossAWait
<1>1. ASSUME SchedulerInv PROVE HoldsNothingAcrossAWait
  <2>1. ASSUME phase \in {"SLEEP", "REGISTRY"} \/ (stage = "PLAN" /\ attempted = {})
        PROVE  Active = {} /\ unproven = {}
    <3>1. CASE phase \in {"SLEEP", "REGISTRY"}
      <4>1. sequence > 0 /\ unproven = {}
        BY <1>1, <3>1 DEF SchedulerInv, Between, Control
      <4>. QED BY <1>1, <3>1, <4>1 DEF SchedulerInv, Between, PassInv, Ranked
    <3>2. CASE stage = "PLAN" /\ attempted = {}
      BY <1>1, <3>2 DEF SchedulerInv, PassInv, Accounts, PassTypes
    <3>. QED BY <2>1, <3>1, <3>2
  <2>2. PassInv
    BY <1>1 DEF SchedulerInv
  <2>. QED BY <2>1, <2>2, AtRest DEF HoldsNothingAcrossAWait, NoneOfOurs
<1>. QED BY <1>1, Invariance, PTL

\* A reset that has passed is never overlooked by a scheduler that stops for
\* want of a wake or goes to sleep, wherever it fell among its passes.
THEOREM WakesAreNotMissed == Spec => NoWakeIsMissed
<1>1. ASSUME SchedulerInv, [Next]_vars,
             phase = "DECIDE", ended = "COMPLETE",
             phase' = "SLEEP" \/ (phase' = "ENDED" /\ disposition' = "NO_FUTURE_WAKE"),
             NEW t \in planned \cap Wakes, task[t].reset <= clock
      PROVE  triedAt[t] >= task[t].reset
  <2>1. (FallAsleep \/ Conclude) /\ disposition' = Disposition
    BY <1>1 DEF Next, Step, FirstPass, InPass, PassReturns, PassAgain, NextPass, SleepChunk,
       SleepEnds, RegistryRead, RegistryRefused, Interrupt, Ended, Runs, Elsewhere,
       FallAsleep, Conclude, vars, schedulerVars
  <2>2. Disposition \in Sleeping \cup {"NO_FUTURE_WAKE"} /\ sequence > 0
    <3>1. CASE FallAsleep
      BY <3>1 DEF FallAsleep
    <3>2. CASE Conclude
      <4>1. phase' = "ENDED"
        BY <3>2 DEF Conclude
      <4>. QED BY <1>1, <2>1, <3>2, <4>1 DEF Conclude
    <3>. QED BY <2>1, <3>1, <3>2
  <2>3. Matured = {}
    BY <1>1, <2>2, Answers DEF SchedulerInv, Control
  <2>4. t \in attempted
    BY <1>1, <2>2 DEF SchedulerInv, Between, PassInv, Ranked
  <2>5. triedAt[t] = passStart
    BY <1>1, <2>2, <2>4 DEF SchedulerInv, Between
  <2>6. ~(task[t].reset > passStart)
    BY <1>1, <2>3 DEF Matured
  <2>7. task[t].reset \in Nat /\ passStart \in Nat
    <3>1. t \in Tasks /\ task[t].state = "BLOCKED_USAGE_LIMIT"
      BY DEF Wakes
    <3>2. task[t] \in TaskState
      BY <1>1, <3>1 DEF SchedulerInv, PassInv, PassTypes
    <3>. QED BY <1>1, <3>1, <3>2 DEF TaskState, Open, Blocked, Instants, SchedulerInv, Control
  <2>. QED BY <2>5, <2>6, <2>7
<1>2. SchedulerInv /\ [Next]_vars =>
        [(phase = "DECIDE" /\ ended = "COMPLETE"
          /\ (phase' = "SLEEP" \/ (phase' = "ENDED" /\ disposition' = "NO_FUTURE_WAKE")))
         => \A t \in planned \cap Wakes :
              task[t].reset <= clock => triedAt[t] >= task[t].reset]_vars
  BY <1>1
<1>. QED BY <1>2, Invariance, PTL DEF Spec, NoWakeIsMissed

\* A stop asked for in any wait of the scheduler is honoured before it begins
\* another pass.
THEOREM StopIsHonoured == Spec => NoPassAfterStop
<1>1. ASSUME SchedulerInv, [Next]_vars, stopped, sequence # 0
      PROVE  sequence' = sequence
  <2>1. ~PassAgain
    <3>1. Disposition # "MATURED_DURING_PASS"
      BY <1>1, Answers DEF SchedulerInv, Control
    <3>. QED BY <3>1 DEF PassAgain
  <2>. QED BY <1>1, <2>1 DEF Next, Step, FirstPass, InPass, PassReturns, FallAsleep, Conclude,
          SleepChunk, SleepEnds, RegistryRead, RegistryRefused, Interrupt, Ended, Runs,
          Elsewhere, vars, schedulerVars
<1>2. SchedulerInv /\ [Next]_vars => [stopped => sequence' = sequence \/ sequence = 0]_vars
  BY <1>1
<1>. QED BY <1>2, Invariance, PTL DEF Spec, NoPassAfterStop

=============================================================================
