------------------------------ MODULE BlockRun ------------------------------
(***************************************************************************)
(* The attended block runner of src/src/block: one process drives the        *)
(* members of a block, in the order they were named, and keeps a ledger of    *)
(* what became of each.  The ledger claims nothing a task's own record does    *)
(* not prove, and it belongs to one run: a later run starts an empty one and   *)
(* finds the finished members again in their records.                         *)
(*                                                                         *)
(* Between two durable writes the process may die, a write may be refused, or  *)
(* the execution lease may be lost; whoever has the lease then, or after the   *)
(* run, may start, drive and resolve tasks.  The work on one task is module    *)
(* TaskLoop; here its record moves between in flight, blocked and ready.       *)
(*                                                                         *)
(* A commit is what it contains: how far the default branch had come, and the  *)
(* tasks whose work it holds.  No code writes the task state ABORTED, so the   *)
(* disposition ABANDONED has no step.                                        *)
(***************************************************************************)
EXTENDS Naturals, Sequences, FiniteSets

CONSTANTS
  Tasks,         \* the members
  Order,         \* the order the operator named them in
  Readings,      \* what the roadmap may say: [deps, done, outside]
  PlanMayChange, \* it may be edited between runs
  Damageable,    \* bound: tasks whose record may be damaged
  Legacy,        \* tasks that may be ready without any work, from an old build
  MaxMain,       \* bound: advances of the default branch
  MaxSaves,      \* bound: saves of one task record by a driver
  MaxRuns,       \* bound: block runs
  WriteMayFail,  \* a ledger or record write may be refused
  None           \* no commit, no task

Commit == [main : 0..MaxMain, work : SUBSET Tasks]

ASSUME BlockAssumption ==
  /\ Order \in Seq(Tasks)
  /\ \A t \in Tasks : Cardinality({i \in 1..Len(Order) : Order[i] = t}) = 1
  /\ Readings \subseteq
       [deps : [Tasks -> SUBSET Tasks], done : SUBSET Tasks, outside : SUBSET Tasks]
  /\ PlanMayChange \in BOOLEAN
  /\ Legacy \subseteq Tasks /\ Damageable \subseteq Tasks
  /\ MaxMain \in Nat /\ MaxSaves \in Nat \ {0} /\ MaxRuns \in Nat
  /\ WriteMayFail \in BOOLEAN
  /\ None \notin Commit /\ None \notin Tasks

VARIABLES
  record,    \* each task's durable record
  worktree,  \* the commit its worktree was created at, or None
  main,      \* how far the default branch has come
  ledger,    \* the ledger of the latest run: [task, active, stop]
  reading,   \* the roadmap as that run read it
  runBase,   \* the default branch as that run found it
  held,      \* the run still has the execution lease
  pc,        \* where the run is
  now,       \* the member it is about
  told,      \* the disposition the driver's answer asks for
  stepped,   \* this call of the driver has taken a step
  runs,      \* how many runs there have been
  outcome    \* how the latest run ended

vars == <<record, worktree, main, ledger, reading, runBase, held, pc, now,
          told, stepped, runs, outcome>>
world == <<record, worktree, main>>
once == <<reading, runBase, runs>>

InFlight == {"WORK", "BLOCKED"}
Dispositions == {"PLANNED", "ACTIVE", "SETTLED", "BLOCKED", "RESOLVED"}
StopReasons == {"COMPLETE", "TASK_BLOCKED", "NO_ELIGIBLE_TASK", "LEDGER_DIVERGED",
                "STATE_UNUSABLE", "ACTIVE_TASK_UNRESOLVED"}
ProgressClaiming == {"COMPLETE", "TASK_BLOCKED"}
Ends == StopReasons \cup {"DURABLE_WRITE_FAILED", "RUN_GATE_REFUSED",
                          "RECONCILIATION_UNRESOLVED", "LEASE_AUTHORITY_UNCERTAIN",
                          "NONE", "CRASHED"}

Root == [main |-> 0, work |-> {}]
Contains(c, d) == d.main <= c.main /\ d.work \subseteq c.work
With(c, t) == [c EXCEPT !.work = @ \cup {t}]
First(S) == Order[CHOOSE i \in 1..Len(Order) :
                    Order[i] \in S /\ \A j \in 1..(i - 1) : Order[j] \notin S]

\* projectBlockDependencies: the least set closed under the direct dependencies.
Frozen(t) ==
  {d \in Tasks \ {t} :
     \A S \in SUBSET Tasks :
       reading.deps[t] \subseteq S /\ (\A u \in S : reading.deps[u] \subseteq S) => d \in S}

\* uniqueMaximumOf: the dependency that is above all the others.
Maxima(t) == {c \in Frozen(t) : Frozen(t) \ {c} \subseteq Frozen(c)}

\* chainShapeOf
Shaped == \A t \in Tasks : Frozen(t) # {} => Cardinality(Maxima(t)) = 1

Roots == {t \in Tasks : Frozen(t) = {}}
Independent == Roots = Tasks

Roadmaps == IF PlanMayChange THEN Readings ELSE {reading}

Planned(t) == ledger.task[t].disp = "PLANNED"
Settled(t) == ledger.task[t].disp = "SETTLED"

-----------------------------------------------------------------------------
(***************************************************************************)
(* What a ledger entry claims and what its task record proves                *)
(* (proveBlockTaskEntry and its field provers).                              *)
(***************************************************************************)
NoClaim == [disp |-> "PLANNED", rev |-> 0, base |-> None, result |-> None]

Supports(t, disp) ==
  CASE disp = "SETTLED" -> record[t].state = "READY"
    [] disp = "BLOCKED" -> record[t].state = "BLOCKED"
    [] disp = "RESOLVED" -> record[t].state = "RESOLVED"
    [] disp = "ACTIVE" -> record[t].state \notin {"NONE", "UNUSABLE"}
    [] OTHER -> TRUE

ClaimPinned(t, disp) ==
  [disp |-> disp,
   rev |-> record[t].rev,
   base |-> record[t].base,
   result |-> IF disp = "SETTLED" THEN record[t].head ELSE None]

Claim(t, disp) ==
  [disp |-> disp,
   rev |-> IF disp = "ACTIVE" THEN 0 ELSE record[t].rev,
   base |-> record[t].base,
   result |-> IF disp = "SETTLED" THEN record[t].head ELSE None]

Proved(t, entry) ==
  \/ entry = NoClaim
  \/ Supports(t, entry.disp) /\ entry = Claim(t, entry.disp)

Unproven(tasks) == {t \in Tasks : ~Proved(t, tasks[t])}

\* A successor of the ledger in which t has the disposition.
Moved(t, disp) ==
  [ledger EXCEPT !.task[t] = Claim(t, disp),
                 !.active = IF disp = "ACTIVE" THEN t ELSE IF @ = t THEN None ELSE @]

(***************************************************************************)
(* How the attempt to record a disposition is graded (recordingResultFor):    *)
(* the task's own record is read first, and the store then proves every       *)
(* entry of the successor again.                                             *)
(***************************************************************************)
Grade(t, disp) ==
  LET bad == Unproven(Moved(t, disp).task)
      culprit == IF ~Supports(t, disp) THEN t ELSE First(bad)
  IN IF Supports(t, disp) /\ bad = {} THEN "RECORDED"
     ELSE IF record[culprit].state = "UNUSABLE" THEN "STATE_UNUSABLE" ELSE "UNRESOLVED"

-----------------------------------------------------------------------------
Init ==
  /\ \E old \in SUBSET Legacy :
       record = [t \in Tasks |-> [state |-> IF t \in old THEN "READY" ELSE "NONE",
                                  rev |-> IF t \in old THEN 1 ELSE 0,
                                  base |-> Root, head |-> Root]]
  /\ worktree = [t \in Tasks |-> None]
  /\ main = 0
  /\ ledger = [task |-> [t \in Tasks |-> NoClaim], active |-> None, stop |-> "NONE"]
  /\ reading \in Readings
  /\ runBase = 0
  /\ held = FALSE
  /\ pc = "off"
  /\ now = None
  /\ told = "PLANNED"
  /\ stepped = FALSE
  /\ runs = 0
  /\ outcome = "NONE"

Goto(where) == pc' = where /\ UNCHANGED <<held, outcome>>

\* The run is over and its process releases the lease.
End(how) ==
  /\ pc' = "off"
  /\ held' = FALSE
  /\ outcome' = how
  /\ now' = None /\ told' = "PLANNED" /\ stepped' = FALSE
  /\ UNCHANGED once

StopUnproved(reason) ==
  /\ UNCHANGED world
  /\ LET refused == reason \in ProgressClaiming /\ ledger.active # None
     IN \/ ~refused /\ ledger' = [ledger EXCEPT !.stop = reason] /\ End(reason)
        \/ (refused \/ WriteMayFail) /\ UNCHANGED ledger /\ End("DURABLE_WRITE_FAILED")

\* stopBlockRun: a reason that claims progress is proved like any other claim.
Stop(reason) ==
  /\ UNCHANGED world
  /\ LET refused == reason \in ProgressClaiming
                      /\ (ledger.active # None \/ Unproven(ledger.task) # {})
     IN \/ ~refused /\ ledger' = [ledger EXCEPT !.stop = reason] /\ End(reason)
        \/ (refused \/ WriteMayFail) /\ UNCHANGED ledger /\ End("DURABLE_WRITE_FAILED")

\* endReasonFor
EndReason ==
  LET disps == {ledger.task[t].disp : t \in Tasks}
  IN IF disps = {"SETTLED"} THEN "COMPLETE"
     ELSE IF "BLOCKED" \in disps THEN "TASK_BLOCKED" ELSE "NO_ELIGIBLE_TASK"

(***************************************************************************)
(* openRun: a fresh ledger that claims nothing, the dependencies frozen from  *)
(* one reading of the roadmap, the base from the default branch.  A block that *)
(* is not shaped like a chain is refused, and a run that cannot be opened        *)
(* changes nothing and is no step.                                           *)
(***************************************************************************)
StartRun ==
  /\ pc = "off"
  /\ runs < MaxRuns
  /\ runs' = runs + 1
  /\ reading' \in Roadmaps
  /\ Shaped'
  /\ runBase' = main
  /\ ledger' = [task |-> [t \in Tasks |-> NoClaim], active |-> None, stop |-> "NONE"]
  /\ held' = TRUE
  /\ outcome' = "NONE"
  /\ pc' = "check"
  /\ UNCHANGED <<record, worktree, main, now, told, stepped>>

LeaseUncertain ==
  /\ pc \in {"check", "start", "save", "drive"}
  /\ ~held
  /\ End("LEASE_AUTHORITY_UNCERTAIN")
  /\ UNCHANGED <<record, worktree, main, ledger>>

\* checkRecords: nothing is chosen on a ledger its records contradict.
RecordsAgree ==
  /\ pc = "check"
  /\ held
  /\ Unproven(ledger.task) = {}
  /\ Goto("force")
  /\ UNCHANGED <<record, worktree, main, ledger, reading, runBase, now, told, stepped, runs>>

RecordsDiverge ==
  /\ pc = "check"
  /\ held
  /\ Unproven(ledger.task) # {}
  /\ Stop(IF \E t \in Unproven(ledger.task) : record[t].state = "UNUSABLE"
          THEN "STATE_UNUSABLE" ELSE "LEDGER_DIVERGED")

\* A finished record under a planned entry: progress the ledger must adopt first.
Ahead == {t \in Tasks : Planned(t) /\ record[t].state = "READY"}

ApplyForcedAgain ==
  /\ pc = "force"
  /\ Ahead # {}
  /\ LET t == First(Ahead) IN
       IF Grade(t, "SETTLED") = "RECORDED"
       THEN \/ /\ ledger' = Moved(t, "SETTLED")
               /\ Goto("force")
               /\ UNCHANGED <<record, worktree, main, reading, runBase, now, told, stepped, runs>>
            \/ WriteMayFail /\ End("DURABLE_WRITE_FAILED") /\ UNCHANGED <<world, ledger>>
       ELSE UNCHANGED vars

(***************************************************************************)
(* applyForcedProgress, one entry per step: settled from the record, without  *)
(* driving the task again.                                                   *)
(***************************************************************************)
ApplyForced ==
  /\ pc = "force"
  /\ Ahead # {}
  /\ LET t == First(Ahead) IN
       CASE Grade(t, "SETTLED") = "RECORDED" ->
              \/ /\ ledger' = Moved(t, "SETTLED")
                 /\ Goto("force")
                 /\ UNCHANGED <<record, worktree, main, reading, runBase, now, told, stepped, runs>>
              \/ WriteMayFail /\ End("DURABLE_WRITE_FAILED") /\ UNCHANGED <<world, ledger>>
         [] Grade(t, "SETTLED") = "STATE_UNUSABLE" -> Stop("STATE_UNUSABLE")
         [] OTHER -> End("RECONCILIATION_UNRESOLVED") /\ UNCHANGED <<world, ledger>>

\* memberRunnability: its direct dependencies are done, or members that settled.
Runnable(t) ==
  /\ t \notin reading.done \cup reading.outside
  /\ \A d \in reading.deps[t] \ reading.done : Settled(d)

Choices ==
  {t \in Tasks : Planned(t) /\ Runnable(t) /\ (Frozen(t) # {} => Cardinality(Maxima(t)) = 1)}

Choose ==
  /\ pc = "force"
  /\ Ahead = {}
  /\ Choices # {}
  /\ now' = First(Choices)
  /\ Goto("start")
  /\ UNCHANGED <<record, worktree, main, ledger, reading, runBase, told, stepped, runs>>

NothingLeft ==
  /\ pc = "force"
  /\ Ahead = {}
  /\ Choices = {}
  /\ Stop(EndReason)

-----------------------------------------------------------------------------
\* The commit a chained member is to be built on: its unique maximum's result.
Candidate == ledger.task[CHOOSE c \in Maxima(now) : TRUE].result

\* The bases of the members without dependencies, where the ledger has one.
Anchors == {ledger.task[t].base : t \in Roots} \ {None}

ChainProvenSettled ==
  \A d \in Frozen(now) : Settled(d) /\ ledger.task[d].result # ledger.task[d].base

\* proveChainBase
ChainProven ==
  /\ \A d \in Frozen(now) : Settled(d) /\ ledger.task[d].result # ledger.task[d].base
  /\ Contains(Candidate, [main |-> runBase, work |-> {}])
  /\ \A d \in Frozen(now) : Contains(Candidate, ledger.task[d].result)
  /\ Anchors = {[main |-> runBase, work |-> {}]}

Base == IF Frozen(now) = {} THEN [main |-> runBase, work |-> {}] ELSE Candidate

MayStart == pc = "start" /\ held /\ (Frozen(now) # {} => ChainProven)

\* A refused base, a refused or colliding workspace: reported, nothing recorded.
StartRefused ==
  /\ pc = "start"
  /\ End("RUN_GATE_REFUSED")
  /\ UNCHANGED <<record, worktree, main, ledger>>

\* startAgainstPlan: a task that has a record is not started a second time.
AlreadyStarted ==
  /\ MayStart
  /\ record[now].state \notin {"NONE", "UNUSABLE"}
  /\ Goto("activate")
  /\ UNCHANGED <<record, worktree, main, ledger, reading, runBase, now, told, stepped, runs>>

StartUnusable ==
  /\ MayStart
  /\ record[now].state = "UNUSABLE"
  /\ Stop("STATE_UNUSABLE")

\* prepareTaskWorkspace, or the adoption of the untouched worktree of a dead start.
Prepare ==
  /\ MayStart
  /\ record[now].state = "NONE"
  /\ worktree[now] \in {None, Base}
  /\ worktree' = [worktree EXCEPT ![now] = Base]
  /\ Goto("save")
  /\ UNCHANGED <<record, main, ledger, reading, runBase, now, told, stepped, runs>>

\* The first record of the task; it is created only where there is none.
SaveFirst ==
  /\ pc = "save"
  /\ held
  /\ \/ /\ record[now].state = "NONE"
        /\ record' = [record EXCEPT ![now] =
             [state |-> "WORK", rev |-> 1, base |-> worktree[now], head |-> worktree[now]]]
        /\ Goto("activate")
        /\ UNCHANGED <<worktree, main, ledger, reading, runBase, now, told, stepped, runs>>
     \/ /\ WriteMayFail \/ record[now].state # "NONE"
        /\ End("RUN_GATE_REFUSED")
        /\ UNCHANGED <<world, ledger>>

\* A disposition is written to the ledger, or the run ends on the reason it was not.
Write(disp, then) ==
  CASE Grade(now, disp) = "RECORDED" ->
         \/ /\ ledger' = Moved(now, disp)
            /\ Goto(then)
            /\ UNCHANGED <<record, worktree, main, reading, runBase, now, told, stepped, runs>>
         \/ WriteMayFail /\ End("DURABLE_WRITE_FAILED") /\ UNCHANGED <<world, ledger>>
    [] Grade(now, disp) = "STATE_UNUSABLE" -> Stop("STATE_UNUSABLE")
    [] OTHER -> Stop("ACTIVE_TASK_UNRESOLVED")

Activate == pc = "activate" /\ Write("ACTIVE", "drive")

-----------------------------------------------------------------------------
(***************************************************************************)
(* runTask on the active member.  It saves the task's record any number of     *)
(* times, and works only under the lease.                                    *)
(***************************************************************************)
Saved(t, state) ==
  record' = [record EXCEPT ![t] =
    [state |-> state, rev |-> @.rev + 1, base |-> @.base,
     head |-> IF state = "READY" THEN With(@.base, t) ELSE @.head]]

CanWork(t) == record[t].state \in InFlight /\ record[t].rev < MaxSaves

Work ==
  /\ pc = "drive"
  /\ held
  /\ CanWork(now)
  /\ \E state \in InFlight \cup {"READY"} : Saved(now, state)
  /\ stepped' = TRUE
  /\ UNCHANGED <<worktree, main, ledger, reading, runBase, held, pc, now, told, runs, outcome>>

\* The driver's answer is about a task that is done, parked or resolved.
RunReturns ==
  /\ pc = "drive"
  /\ \E disp \in {"SETTLED", "BLOCKED", "RESOLVED"} :
       Supports(now, disp) /\ told' = disp
  /\ Goto("record")
  /\ UNCHANGED <<record, worktree, main, ledger, reading, runBase, now, stepped, runs>>

\* The step budget ran out: the same task is driven again, if it moved at all.
Continue ==
  /\ pc = "drive"
  /\ held
  /\ record[now].state = "WORK"
  /\ stepped
  /\ stepped' = FALSE
  /\ UNCHANGED <<record, worktree, main, ledger, reading, runBase, held, pc, now, told, runs, outcome>>

\* No step was taken, or the driver could not observe or record what it did.
Unresolved ==
  /\ pc = "drive"
  /\ Stop(IF record[now].state = "UNUSABLE" THEN "STATE_UNUSABLE" ELSE "ACTIVE_TASK_UNRESOLVED")

\* settleBlockTask, parkBlockTask, resolveBlockTask
Record == pc = "record" /\ Write(told, "after")

NextMember ==
  /\ pc = "after"
  /\ ledger.task[now].disp = "BLOCKED" => Independent
  /\ Goto("check")
  /\ now' = None /\ told' = "PLANNED" /\ stepped' = FALSE
  /\ UNCHANGED <<record, worktree, main, ledger, reading, runBase, runs>>

\* A member that failed ends the run unless no member depends on another.
FailureStops ==
  /\ pc = "after"
  /\ ledger.task[now].disp = "BLOCKED" /\ ~Independent
  /\ Stop(EndReason)

Crash ==
  /\ pc # "off"
  /\ End("CRASHED")
  /\ UNCHANGED <<record, worktree, main, ledger>>

Runner ==
  \/ LeaseUncertain \/ RecordsAgree \/ RecordsDiverge \/ ApplyForced \/ Choose \/ NothingLeft
  \/ StartRefused \/ AlreadyStarted \/ StartUnusable \/ Prepare \/ SaveFirst \/ Activate
  \/ Work \/ RunReturns \/ Continue \/ Unresolved \/ Record \/ NextMember \/ FailureStops

-----------------------------------------------------------------------------
(***************************************************************************)
(* Everybody else: the default branch advances at any time; whoever has the    *)
(* lease when this run has not starts, drives and resolves tasks by hand; a    *)
(* record can be damaged.                                                    *)
(***************************************************************************)
rest == <<ledger, reading, runBase, held, pc, now, told, stepped, runs, outcome>>

LoseLease ==
  /\ held
  /\ held' = FALSE
  /\ UNCHANGED <<record, worktree, main, ledger, reading, runBase, pc, now, told, stepped, runs, outcome>>

MainAdvances ==
  /\ main < MaxMain
  /\ main' = main + 1
  /\ UNCHANGED <<record, worktree, rest>>

\* A start by hand needs every dependency done, and builds on the default branch.
OtherStart(t) ==
  /\ ~held
  /\ record[t].state = "NONE" /\ worktree[t] \in {None, [main |-> main, work |-> {}]}
  /\ \E r \in Roadmaps : t \notin r.done \cup r.outside /\ r.deps[t] \subseteq r.done
  /\ worktree' = [worktree EXCEPT ![t] = [main |-> main, work |-> {}]]
  /\ record' = [record EXCEPT ![t] =
       [state |-> "WORK", rev |-> 1, base |-> worktree'[t], head |-> worktree'[t]]]
  /\ UNCHANGED <<main, rest>>

OtherDrive(t) ==
  /\ ~held
  /\ CanWork(t)
  /\ \E state \in InFlight \cup {"READY"} : Saved(t, state)
  /\ UNCHANGED <<worktree, main, rest>>

Resolve(t) ==
  /\ ~held
  /\ record[t].state = "BLOCKED"
  /\ Saved(t, "RESOLVED")
  /\ UNCHANGED <<worktree, main, rest>>

Damage(t) ==
  /\ t \in Damageable
  /\ record[t].state \notin {"NONE", "UNUSABLE"}
  /\ record' = [record EXCEPT ![t].state = "UNUSABLE"]
  /\ UNCHANGED <<worktree, main, rest>>

Others ==
  \/ LoseLease \/ MainAdvances
  \/ \E t \in Tasks : OtherStart(t) \/ OtherDrive(t) \/ Resolve(t) \/ Damage(t)

Next == StartRun \/ Runner \/ Crash \/ Others

Spec == Init /\ [][Next]_vars

\* The runner's statements follow one another and agents run under a timeout.
FairSpec == Spec /\ WF_vars(Runner)

-----------------------------------------------------------------------------
Entry == [disp : Dispositions, rev : 0..MaxSaves + 1, base : Commit \cup {None},
          result : Commit \cup {None}]

TypeOK ==
  /\ record \in [Tasks -> [state : InFlight \cup {"NONE", "READY", "RESOLVED", "UNUSABLE"},
                           rev : 0..MaxSaves + 1, base : Commit, head : Commit]]
  /\ worktree \in [Tasks -> Commit \cup {None}]
  /\ main \in 0..MaxMain
  /\ ledger \in [task : [Tasks -> Entry], active : Tasks \cup {None},
                 stop : StopReasons \cup {"NONE"}]
  /\ \A t \in Tasks : ledger.active = t <=> ledger.task[t].disp = "ACTIVE"
  /\ reading \in Readings
  /\ runBase \in 0..MaxMain
  /\ held \in BOOLEAN
  /\ pc \in {"off", "check", "force", "start", "save", "activate", "drive", "record", "after"}
  /\ now \in Tasks \cup {None}
  /\ told \in Dispositions
  /\ stepped \in BOOLEAN
  /\ runs \in 0..MaxRuns
  /\ outcome \in Ends

(***************************************************************************)
(* "A member whose predecessors have settled in this run is built on the last  *)
(* of their result commits": when a dependent member is driven, its branch     *)
(* starts at this block's base with the work of every dependency in it.        *)
(***************************************************************************)
BuiltOnDependencies ==
  pc \in {"drive", "record"} /\ Frozen(now) # {} =>
    /\ record[now].base.main = runBase
    /\ Frozen(now) \subseteq record[now].base.work

(***************************************************************************)
(* As long as the run has the lease, nothing it has written in the ledger is   *)
(* contradicted by a task's record that can be read: a later check can         *)
(* report LEDGER_DIVERGED only about what somebody else did.                   *)
(***************************************************************************)
LedgerHoldsUnderLease ==
  held => \A t \in Unproven(ledger.task) : record[t].state = "UNUSABLE"

(***************************************************************************)
(* A reason is true of the records when it is reported, whoever has moved the  *)
(* tasks since the run last looked: at COMPLETE every record is of a finished   *)
(* task, the ready ones at the commits the ledger names, and at TASK_BLOCKED    *)
(* one is still blocked (endReasonFor, and stopBlockRun's last proof).          *)
(***************************************************************************)
ReasonIsTrueOfTheRecords ==
  [][outcome' # outcome =>
       /\ outcome' = "COMPLETE" => \A t \in Tasks :
            /\ record[t].state \in {"READY", "RESOLVED"}
            /\ record[t].state = "READY" => ledger.task[t].result = record[t].head
       /\ outcome' = "TASK_BLOCKED" => \E t \in Tasks : record[t].state = "BLOCKED"]_vars

\* Every run that starts ends, whatever is refused, damaged or lost under it.
RunEnds == pc # "off" ~> pc = "off"
=============================================================================
