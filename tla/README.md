# A TLA+ model of AgentOrchestrator

AgentOrchestrator drives coding tasks through a fixed lifecycle: a *writing agent* edits a Git worktree, the
work is committed and verified, a *reviewing agent* reads it, findings are remediated, and a task that passes
is ready for a pull request. Everything an orchestrator process knows it keeps in files (task records, an
execution lease, histories, ledgers, receipts), and any process may die between two of its effects. The
modules here model that state and the steps on it, TLC explores small instances, and TLAPS proves the central
facts about eight of the components for every instance.

Paths below are relative to the repository's `src/` (so `lease/…` is `src/lease/…` of the repository).

## 1. Inventory

| Component | State it keeps | Operations | Hard behaviour | What makes it correct |
|---|---|---|---|---|
| Execution lease, `lease/execution-lease.ts` | one file in the Git common directory, staged and quarantined files beside it | acquire, verify (checkpoint), release, assess, recover | several processes race on one name; a removal is rename, read, decide, restore; crashes and failing calls between them | one process in an effect; nobody destroys a live record; what cannot be decided is kept |
| Launch history and register, same file and `lease/*-ledger.ts` | per-lease record of announced, established and settled launches | open, begin, attest, confirm, retract, record containment, discard | a crash between announcing and starting a child, between its end and the record of it | recovery is refused while a child may be alive |
| Task record, `core/task-state.ts`, `core/transitions.ts` | a JSON record with a schema, a revision and a transition table | load, advance, save | a record computed after the work it describes; two writers | every computed record is legal; no lost update |
| Run driver and loop, `run/run-driver.ts`, `loop/loop-step.ts` | nothing durable of its own; findings, spent flags and the step budget in memory | one reconciliation, one decision and one step per iteration | crash or lease loss anywhere; flags and clocks that reopen parked tasks; foreign edits | see section 4 |
| Reconciliation and resume, `state/reconcile.ts`, `state/resume-decision.ts`, `core/automatic-resume.ts` | none | compare the record with the worktree, classify a parked state | reset times that pass, a HEAD that moved | no self-inflicted divergence; machines resume only what the clock unblocks |
| Scope gate and commit, `scope/`, `worktree/commit-task-work.ts` | the work branch | measure, stage, commit, compare | edits between measuring and staging | nothing out of scope becomes ready |
| Verification and repair, `verify/` | attempt history of at most 6, pass evidence | verify, record, assess and adopt an operator's repair | full history, a repair on a moved HEAD | a block has recorded evidence |
| Agents, `agent/` | a child process | launch, interpret, record an interruption | usage limits with and without reset times | the interruption's checkpoint is true |
| Reviewer gate, `loop/reviewer-provider-gate.ts` | promise tails and exhaustion per provider | run exclusively, note exhausted, availability | turns queued before an exhaustion is noted | no review starts against an exhausted provider |
| Block runner, `block/` | a ledger of the tasks of a block and their progress | open, choose, activate, settle, park, abandon, stop, reconcile | the ledger and the task records are two files | ledger progress never runs ahead of the task records |
| Delivery, `cli/delivery-driver.ts`, `deliver/` | authorisations, outcome, evidence and conclusion records | publish, create, merge, reconcile, verify, conclude | remote effects whose answers are lost, crashes before the receipt | no effect twice, no conclusion without proof |
| Scheduler and waits, `schedule/`, `run/unattended-resume.ts`, `run/lifecycle-driver.ts` | wake readings, waits in memory | scan, pass, sleep, wait and resume | a wake that matures during a pass; sleeping without the lease | a due task is eventually tried; nobody sleeps holding a lease |
| Coordinator, `run/repository-coordinator.ts` | admissions in memory | admit, drive, collect | two entries for one Git directory | one driver per Git directory |
| Attention outbox, `notify/` | records and delivery receipts | record, deliver, mark, remove | crash between sending and the receipt | at least one notification per condition |
| Worktrees, `worktree/` | a registered Git worktree and a branch per task | start, adopt, undo, release | half-done Git operations that outlive their caller, a lease lost in between | a recorded task keeps its workspace; no work is destroyed |
| Plan, `plan/` | none | discover, build the graph, select | cycles and missing dependencies | a selected task's dependencies are done |
| Launch boundary, `boundary/`, `doctor/exec.ts`, `native/ao-launch/` | a helper process, a job object, a status file, the pipes between | establish, run, end, report | helper, target, watcher and owner die in any order; the status says less than happened | what is reported is what happened; nothing outlives its owner |
| CLI and renderers, dashboard, doctor, configuration, registry, YAML, auth preflight | text, HTTP, files read once | parse, render, probe | little interleaving | pure I/O and parsing, not modelled |

How they interact: the CLI calls the lifecycle driver, which takes the lease and calls `runTask`; the loop
re-verifies the lease before each iteration and each effect. The block runner and the scheduler call the
lifecycle driver repeatedly. Delivery starts from a READY_FOR_PR record and takes the lease itself. All
communication is through the files above; the only in-memory sharing between drivers is the reviewer gate and
the coordinator.

`PROJECT.json` lists each component with its status, and under `hazards` what is hard to test, at its line,
with the property that covers it or the module planned for it.

## 2. Modules and plan

Each row is a component; every module of the last column but one is checked by the run beside it.

| Component | Modules | Proofs | Run |
|---|---|---|---|
| Execution lease | `ExecutionLease` | `ExecutionLease_proofs` | `lease_recover` |
| Launch history and register | `LaunchLedger` | `LaunchLedger_proofs` | `launch_ledger` |
| Launch boundary | `LaunchHelper`, `OwnedCommand` (extends it) | `LaunchLedger_proofs`, second part | `owned_command` |
| Worktrees | `TaskWorkspace` | `TaskWorkspace_proofs` | `workspace` |
| Run driver, loop, reconciliation, scope, verification, agents | `TaskLoop` | `TaskLoop_proofs` | `loop_crash`, `loop_settles` |
| Reviewer gate | `ReviewerGate` | `TaskLoop_proofs`, second part | `reviewer_gate` |
| Block runner | `BlockRun` | `BlockRun_proofs` | `block_run` |
| Coordinator and scheduler | `RepositoryPass`, `Scheduler` (extends it) | `Scheduler_proofs` | `scheduler` |
| Delivery | `DeliveryDrive`, abstract `DeliveryPromise` | `DeliveryDrive_proofs` | `delivery_drive` |
| Attention outbox | `AttentionOutbox` | `AttentionOutbox_proofs` | `outbox`, `outbox_overlap` |

Two proof modules are about two components each, one of which calls the other: the task loop and the gate in
front of its reviewer, the launch ledger and the command whose launches it records. `ReviewerGate` and
`OwnedCommand` therefore name their specifications `GateSpec` and `CommandSpec`, and so on.

`MC…` modules give the constants their values; a `.cfg` has the name of its run. A component is modelled with
its neighbours reduced to what they promise, and the promise is a property of the neighbour's own module:

- `TaskLoop`, `BlockRun`, `TaskWorkspace` take the lease as "a process may lose it at any moment and is told
  so at its next check"; that a second one is not in an effect meanwhile is `ExclusiveEffects`.
- `ExecutionLease` takes "a dead owner's lease may be assessed safe" from `LaunchLedger`, whose
  `SafeMeansQuiet` says when that is so.
- `LaunchLedger` takes "a helper's tree ends with its owner, and an ending that is reported is one" from
  `OwnedCommand`: `TreeDiesWithItsOwner` and `ClosedRecordIsOver`.
- `BlockRun` and `RepositoryPass` take "a driver that is called returns with the task in flight, parked or
  ended" from `TaskLoop`: `InFlightSettles`.
- `DeliveryDrive` starts from a record in READY_FOR_PR; `ClaimsAreBacked` says what that means.

Left, most important first:

1. `TaskStore`: two writers of one task record, where `state/state-store.ts` (257) compares the revision and
   then renames. The lease serialises them; without it one save can replace another. The abstract
   specification would be a compare-and-swap register.
2. The wait of a single task's call, `run/unattended-resume.ts`: it sleeps at most once, for a reset that is
   the only thing in the way and after a release that was proved, and establishes everything again. The
   same for a pass of many tasks is `Scheduler`.
3. Refinements: `TaskLoop` to an abstract lifecycle of running, parked and ended; `BlockRun` to a block as a
   sequence of settled tasks; `ExecutionLease` with one recoverer to a lock.
4. The proofs section 15 lists as missing.

No module uses a RECURSIVE operator.

## 3. ExecutionLease

A file is an object with an identity (its creator and a number); `lease` is the object at the lease name,
`content` the record in each object, `aside` the object a process has renamed away and is deciding about,
`kept` the quarantine files that stay. A record is identified by its nonce, and the nonce by the object it was
first written to, so a restored copy is a different object with the same record. Each action is one system
call another process can observe:

| Actions | Code |
|---|---|
| `Acquire`, `Collide`, `Diagnose` | `acquireRepositoryExecutionLease`, `claimLeaseFile`, `refusalForExistingLease`. A link refused otherwise is `FILESYSTEM_UNSUPPORTED` and changes nothing, so it is no step |
| `Checkpoint`, `CheckpointRefused`, `EndEffect` | `verifyExecutionLeaseHeldFor` before an effect, the effect, its end |
| `BeginRelease`, `ReleaseRefused` | `releaseRepositoryExecutionLease` |
| `AssessSafe`, `AssessUnsafe` | `assessStaleLeaseRecoveryBound` as `recoverStaleLease` uses it |
| `Detach` … `WriteCopyFails` | `removeVerifiedLease`, `putBack`, `writeRecord`, `discard` |
| `Crash` | the process ends anywhere |

Assumed of the environment: a rename and a link are atomic, a pid that is not running is observed so
(`AssessSafe` needs a dead owner), nonces do not repeat. A pid reused by a stranger only makes assessment
refuse, which `AssessUnsafe` covers. Effects that go on in a child after its orchestrator dies are in
`LaunchLedger`.

Properties:

- `LiveRecordKept`: no race of releases and recoveries destroys the record of a running process.
- `ExclusiveEffects`: while at most one process may have recovered a lease, at most one process is in a
  checked effect.
- `DisplacedIsStoppedAndKept`: with two recoverers the code does allow two overlapping effects (a second
  recovery, or a release whose own lease was displaced after it was verified, detaches the lease of whoever
  acquired since), and this says how far that goes: one of the two is displaced, its next checkpoint stops it,
  and its record is not lost.

`lease_recover`: four processes with one file each, two of which recover; every read, rename and unlink may
fail, and links may be refused to every process but one recoverer, so that a removal, a release and the other
recovery put a lease back by the copying fallback. An overlap takes a dead owner, two recoverers that both
assessed it, a process that acquires after the first recovery and enters an effect, and one that acquires
after the second: four processes with one file each. With three the overlap is never reached. With links
refused to both recoverers `LiveRecordKept` fails (section 13). The theorems below remove the bounds.

### Proofs

`ExecutionLease_proofs` proves for every set of processes, every bound on files and every choice of failing
calls:

- `TypeCorrect`: `Spec => []TypeOK`.
- `EffectsExclude`: `Spec => []ExclusiveEffects`, without a hypothesis. `ExclusiveEffects` is not inductive,
  and the strengthening holds only while one process may have recovered: the invariant is `Guarded`, that
  `OneMayHaveRecovered` implies `LeaseInv` (a record that is stored was made by its owner; a process that is
  in an effect, or may enter one, has its record at the lease name unless the single recoverer holds it; a
  removal's predicate names only a record that is its own or a dead process's). That the premise, once false,
  stays false is the lemma `RefusalIsRemembered`.
- `LiveRecordIsKept`: `NoCopies => (Spec => []LiveRecordKept)`, and `NoRecordIsDestroyed`: `NoCopies => (Spec
  => NoForeignDestruction)`, both from `RecordInv`, which says of every remover what it is entitled to delete
  (its own record, or one of a dead owner) and what it holds.
- `DisplacedIsStopped`: `NoCopies => (Spec => []DisplacedIsStoppedAndKept)`, from the same invariant. Whoever is
  in an effect has a record of its own in some file, and the lease name is only one of them.

`NoCopies` says that a link is refused only because the name is taken (`LinkRefused = {}`); the copying
fallback is model-checked only. The proofs have one step per action. `LeaseInv` and `RecordInv` were checked
by TLC as invariants of the same instances before they were proved.

## 4. TaskLoop

`rec` is the durable record, abstracted to the fields its rules relate; `tree` the worktree (HEAD as a commit
number, whether there is uncommitted work and whether it is within scope, whether the branch has left scope);
`attempts` the attempt history (length, latest subject, whether it failed). All else is the driver's memory
and is lost by `Halt`. An iteration of `runTask` is: `Reached` (lease, terminal, reconciliation, grant), then
one of the departures from a parked state (`Resume`, `Adopt`) or one step of the loop (`EnterContext`,
`LoadContext`, `BeginWriter` … `CommitPass`, `BeginVerify` …, `BeginReview` …), which ends in `Propose`, the
record handed to `advanceTaskState`; `Save` is the compare and write. `Halt` stands for a crash and for a
lease check that fails: both end the call with nothing further written.

What is abstracted: commit hashes are numbers, findings are the set of rounds that have some, reset times are
`none`, `ahead` or `past`, the agents are Claude (writer) and Codex (reviewer). Left out: the states before
WORKTREE_READY, BLOCKED_AUTH and BLOCKED_GIT, the policy digest, the reviewer gate's WITHHELD answer (it is
`ReviewInterrupted` with a reset), and permission accounting.

Properties, each over every grant, flag and crash unless said otherwise:

- `NeverSelfDiverged`: a crash never makes the record contradict the orchestrator's own worktree.
- `ReadyIsWithinScope`: a task is never ready with work beyond its declared scope in it.
- `ClaimsAreBacked`, in two parts. `ReadyIsVerifiedAndReviewed`: a task is ready at a commit that passed
  verification and was accepted by a review. `BlockedOnEvidence`: a task parked in BLOCKED_VERIFY has that
  failure in its history, about the commit the worktree is at, or the one before it where an adopted repair was
  committed and the driver then died. A failure the full or unwritable history refused parks for a person
  instead.
- `NoStepIsInVain`, in two parts. `ContractNeverRefuses`: no step computes a record its schema or the
  transition table refuses. `WorkIsReviewable`: no writer, verification or review is at work beyond the review
  budget, whatever was granted, interrupted, parked and resumed on the way. Each of these four parts has a
  mutant of its own.
- `InFlightSettles` (liveness): a task that is called again while it is in flight comes to a parked or a final
  state.

| Run | Environment | Bounds |
|---|---|---|
| `loop_crash` | the driver may die or lose the lease, Git may not answer, an operator repairs failed verifications, somebody edits within scope or beyond and commits, at any moment | 2 review rounds, ceiling 3, 3 steps a call, 3 commits, 2 attempts; 5.7 million states |
| `loop_settles` | called again while in flight | 2 review rounds, ceiling 3, 2 steps a call, 2 commits, reused |

`touched` remembers that somebody other than the orchestrator and the operator who repairs has written in the
worktree. `NeverSelfDiverged`, `ReadyIsVerifiedAndReviewed` and the commit in `BlockedOnEvidence` are claims
about a worktree nobody else writes in; the rest holds against everybody. That `ReadyIsVerifiedAndReviewed`
needs the condition is one of the disagreements of section 13.

The ceiling is one above the profile's rounds so that an operator can buy a round and then meet the ceiling;
two attempts let the history fill and refuse; two or three steps let a call end with findings in memory.
`MaxCommits` bounds the branch; past it `Recycle` reuses names so that the liveness run is not settled by
running out of commits.

Fairness: `FairSpec` is weak fairness of the driver's own steps (agents run under a timeout, so a started run
ends); `CalledSpec` adds that an idle task in flight is called again, as the scheduler, the block runner or
the operator does. `loop_settles` has no crashes: with them a driver may die before every save for ever and
nothing could settle.

Proved, for every limit, bound, grant, flag and edit: `TypesHold`, `RecordAndWorktreeAgree`,
`ReadyMeansWithinScope`, `RecordsClaimWhatIsSo` (`ClaimsAreBacked`, from `ReadyMeansVerifiedAndReviewed` and
`BlocksHaveEvidence`) and `NothingIsDoneInVain` (`NoStepIsInVain`, from `NoSaveIsRefused` and
`WorkLeavesAReview`); no run keeps `TypeOK`, which the first of them states.
The only assumption is that `None` is not a value of anything else. `LoopInv` is the inductive invariant, and
was checked at the bounds of `loop_crash` before it was proved:

- `Sound(rec)`: the durable record obeys the contract (`Wellformed`) and agrees with the worktree (`Agrees`).
  A checkpoint it holds names the HEAD and the cleanliness that are there. Once past the scope gate the branch
  is within scope; if nobody else writes, the tree is clean, and verified when review is next. The state alone
  does not say which of this holds, since a parked record keeps the phase it will resume in: `At` and
  `PastGate` read both.
- `InHand`: the same of what the driver holds at each statement, the record it loaded and the one it is about
  to save. The four properties are not inductive without it, because a save makes durable what a step computed
  several steps before, and the worktree may have moved in between.
- `Findings`: a driver that carries a review's findings is in, or resuming to, `REMEDIATING`, with nothing but
  that remediation left once its budget is spent; a driver at work without them still has steps left. An idle
  one carries none.

Two more invariants rest on `LoopInv`. `SpareInv`: every record that does not wait for a person is below its
budget, the one about to be saved as well; only a human decision starts work at the budget, and buys a round.
`EvidenceInv`: only a verification proposes the block over a failure, right after the attempt was recorded,
and an adoption begins at the failed commit, so that it cannot begin twice.

`InFlightSettles` stays with TLC.

## 5. BlockRun

`record` is each member's durable task record, cut down to whether it is in flight, blocked, ready, resolved
or unusable, with its revision, the commit it was started at and its current commit; `worktree` is the base of
the worktree a start has created, which a dead start leaves behind without a record. `ledger` is the block
ledger of the latest run, `reading` the one reading of the roadmap that run keeps, `runBase` the default
branch it resolved, `pc` and `now` the statement the runner is at and the member it is about. A commit is how
far the default branch had come plus the set of members whose work it contains; that is all that ancestry,
`proveChainBase` and the properties ask of one.

| Actions | Code |
|---|---|
| `StartRun` | `runBlockUnderLease`, `openRun`, `startBlockRun`, `chainShapeOf` |
| `RecordsAgree`, `RecordsDiverge` | `checkRecords`, `reconcileBlockRun` |
| `ApplyForced` | `applyForcedProgress`, one entry per step |
| `Choose`, `NothingLeft` | `chooseTask`, `memberRunnability`, `endReasonFor` |
| `StartRefused` ... `SaveFirst` | `proveChainBase`, `startAgainstPlan`, adoption of a dead start's worktree |
| `Activate`, `Work`, `RunReturns`, `Continue`, `Unresolved`, `Record` | `driveOneTask` with the driver's outcome classes |
| `NextMember`, `FailureStops` | the tail of the loop of `runAttendedBlock` |
| `LeaseUncertain`, `Crash` | the lease checks, and the end of the process |
| `OtherStart`, `OtherDrive`, `Resolve`, `MainAdvances`, `LoseLease`, `Damage` | what happens around the run |

`Proved` is `proveBlockTaskEntry`: an entry is compared field by field with the record it is about. `Grade`
puts the reading of the task's own record and the store's second proof of the whole successor into one step,
because both are synchronous calls of one process; the reconciliation before them is a step of its own, so a
record can move in between.

Properties:

- `BuiltOnDependencies`: a dependent member is driven on this block's base with the work of every dependency
  in it, although finished members may come from an earlier run on an older base.
- `LedgerHoldsUnderLease`: while the run holds the lease no readable record contradicts its ledger.
- `ReasonIsTrueOfTheRecords`: the reason a run reports is true of the records as they are then, whoever has
  moved the tasks since the run last looked. At COMPLETE every record is ready or resolved by the operator,
  and the ready ones are at the commits the ledger names; at TASK_BLOCKED one is still blocked.
- `RunEnds`: no run hangs, also where forced progress is refused.

`block_run` checks all four over three members and two runs. `Plans` has a chain of three, one dependent pair,
no dependencies, a shape that is refused and a member that waits for a task outside; there is one advance of
the default branch, two saves of a record by a driver and one by an operator, one damageable record, and one
record that may be ready without work.

The bounds: a stale base needs a member finished in one run, an advance, and a dependent in the next; a
transitive dependency needs three members; a second save lets a driver run twice without finishing. `RunEnds`
relies on `MaxSaves` for the end of the work on one member, which is `InFlightSettles` of `TaskLoop`; what it
adds is that the block runner's own loops end. `PlanMayChange` is FALSE in `block_run`: a roadmap edited
between two runs breaks `BuiltOnDependencies` (section 13).

Fairness (`FairSpec`): weak fairness of `Runner`, the statements of one process that does not wait on anything
but agents, which run under a timeout. A crash ends the run.

Left out: a damaged ledger file, a run id used twice, two block runs over the same members at once (the lease
excludes them), and the disposition ABANDONED, which needs a task state no code writes.

Proved, for every set of members, every relation between them and every bound: `BlockTypesHold`, `LedgerIsTrue`
(`LedgerHoldsUnderLease`), `ReasonsAreTrue` (`ReasonIsTrueOfTheRecords`) and `DependentsAreBuiltOnDependencies`
(`BuiltOnDependencies`). Both invariants below were checked by TLC at the bounds of `block_run` first, `BlockInv`
also with an edited roadmap.

- `BlockInv` adds to the properties where the run is (`Position`: what `now`, `told` and the active entry are at
  each statement), that an entry that claims nothing is `NoClaim` and a settled one names the head of a record
  that is ready or damaged since (`Entries`), and the bound on revisions. Under the lease only the record of
  the active member moves, and the entry ACTIVE pins no revision: that is why the ledger stays true while its
  member is saved again and again, and what the mutant `ClaimPinned` breaks.
- `ChainInv` is about commits. `Commits`: a head is its base, or its base with the member's own work, and under
  the lease no base is past the run's. `Chained`: what was built has its dependencies' work in its base, and
  they began where it began. So the one dependency above all the others has the work of each in its result,
  and since that result contains the run's base and cannot be past it, all of them began at this run's base
  (`ChainedBase`). A member that already has a record is covered by `Chained` and not by a check of its own.

`BuiltOnDependencies` is proved under `OneRoadmap`: the roadmap is not edited between runs, and calls no
dependency of a member done before the block has delivered it. Without the first it is false (section 13);
without the second a member may be started by hand on the default branch, which in the model has none of the
block's work. `RunEnds` stays with TLC.

## 6. LaunchLedger

The companion file of a lease says what a dead run may have left behind. `book` is the epoch (lease) it is
bound to, `entries` its writer generations, `open` its register of owned launches, `complete` and `next` its
two remaining fields; `call[l]` is how far the owner is with launch `l`, `tree[l]` what is true of its
processes, `rec` a recovery between its readings.

| Actions | Code |
|---|---|
| `Acquire`, `Release`, `Crash` | a lease is taken and its history started or discarded, given back, or its owner dies |
| `OpenGeneration`, `Confirm`, `Withdraw` | the writer's launch: `PENDING`, `ESTABLISHED`, `CONTAINED`, or withdrawn |
| `Announce`, `AnnounceDiscards`, `Unaccounted`, `AnnounceRefused` | the register before a spawn, with its disposition where the file cannot be rewritten |
| `Spawn`, `SeeEstablished`, `NothingRan`, `EndProved`, `EndUnproved`, `EstablishTimeout` | what the owner learns of the launch and writes of it |
| `TargetStarts`, `ChildExits`, `TreeEnds`, `HelperDies`, `OwnerWatch` | what the processes do |
| `AssessLease`, `AssessSafe`, `AssessUnsafe`, `Recover` | `assessStaleLeaseRecoveryBound`, one reading a step |

Properties: `SafeMeansQuiet` (a lease is removed over nothing that still runs), `UnrecordedIsNeverLicensed` (a
launch that went ahead unrecorded is beside a file that licenses no recovery, then and later),
`LicensedIsRecovered` (liveness: a lease that may be recovered is).

`launch_ledger`: two leases in a row, one writer and two other launches, one generation and one slot, so that
the register fills, behind the helper and without it, with every read and write refused at will. Fairness: the
helper's watcher notices the owner's death (`OwnerWatch`), somebody keeps assessing and recovering, and a read
is not refused for ever (strong fairness of `AssessSafe`).

Proved for every set of launches and every limit: `LedgerTypeCorrect`, `RecoveryRemovesNothingRunning`
(`SafeMeansQuiet`), `UnrecordedLicensesNothing`. The invariant `LedgerInv` follows a launch from the file to
its processes: while the file licenses a recovery, every process that may be alive is named in it, so a
recovery that finds nothing alive among the named ones has looked at all of them.

## 7. The launch boundary

`LaunchHelper` is the native helper (`native/ao-launch/AoLaunch.cs`): its main thread (`main`), its watcher
(`gate`, `lostOwner`), its pump of standard input (`pump`), the target and its children (`target`, `kin`), the
job object, and the status file (`notes` is what the helper knows to say, `status` what the file says).
`OwnedCommand` extends it with the process that runs the command: `runCommand` of `doctor/exec.ts`,
`runOwnedCommand` and `startOwnedProcess`, one action per turn of the event loop.

Properties:

- `ClosedRecordIsOver`: an owned-launch record that is closed describes a launch that is over.
- `CompletedMeansCompleted`: what is reported as completed ended by itself and unasked.
- `DeliveredIsWhole`: standard input that is reported delivered reached the target as a whole.
- `EveryCallReturns`: every call returns while its process lives, except behind a helper that ignores its kill
  before establishment.
- `TreeDiesWithItsOwner`: nothing outlives the owner, except a suspended target of a helper that was killed.

`owned_command`: both launch modes, one piece of input, two faults (each a kill from outside, a refused kill,
a status that cannot be written, a broken pipe), 968 thousand states. A property fails, if at all, through one
fault in the helper and one on the way its evidence travels, hence two. Fairness: turns of the event loop and
its timers, a kill that is accepted, the helper's two threads; nothing is assumed of the target.

Assumed of the environment: the kernel ends the members of a job when its last handle closes, before the end
of the process that held it is reported; the runtime puts its children in a kill-on-close job; terminating
one's own suspended child succeeds; the watcher's put, terminate and write are one step.

Proved for every amount of input and number of faults (in `LaunchLedger_proofs`): `OwnedTypesHold`, `ClosedRecordsAreOver`,
`CompletionsAreReal`, `DeliveriesAreWhole`, and `NobodyIsStranded` (`NothingIsStranded`, which no run states
apart). `OwnedInv` follows the evidence: `TargetFollows` (what is true of the target at each place of the
helper), `NotesTell` (what the notes say is true), `StatusTells` and `StdinTells` (what the file says is among
the notes), `CallFollows` (what is reported was in the file). The two liveness properties stay with TLC.

Left out: the path without the helper, which the command line refuses, output buffers, and the encoding of
requests. SUSPENDED mode is modelled although no caller in production uses it.

## 8. TaskWorkspace

One action per turn between two awaits of `startAgainstPlan`, `prepareTaskWorkspace`, `adoptTaskWorkspace` and
`removeTaskWorkspace`; a Git command is a process of its own (`cmd`), which is sent in the turn that reads the
lease, may be killed by its deadline, and may outlive the process that sent it. `branch` and `tree` are what
is in the repository, `record` the base of the task's record, `holder` the owner of the lease. A release asks
whether there is ignored content and proves the lease (`AskIgnored`), then whether the worktree is registered,
clean and merged (`AskOwned`, `AskClean`, `AskMerged`), each in a turn of its own, so that files, commits and
late commands fall between any two answers and the removal.

- `RecordedWorkspaceStands`: a task that has a record has its branch and its worktree. `overtaken` remembers
  that the lease moved while a command of its holder was still running; without that condition the property is
  false, because the code can gate a command and not recall it.
- `NoWorkIsLost`: no commit the default branch lacks and no file Git can see is destroyed, overtaken or not.
- `EventuallyStarted`: a task that is started again and again is started, or something is in the way that only
  a person may clear (`Obstructed`).

`workspace`: two processes, one advance of the default branch, two faults, 336 thousand states: a loss needs a
start that undoes, a start that adopts and a lease that moves between them. Fairness: turns, Git and a start
from the tip, which is called again and again (strong), and the recovery of a dead owner's lease.

Proved for every set of processes and bound: `TypesHold`, `WorkspacesStand`, `WorkIsKept`. `WorkspaceInv` adds
that a command in flight is its holder's unless overtaken, that a holder in the middle of a start knows there
is no record, and that what a record is about to name is there.

## 9. ReviewerGate

`tail` and `awaits` are the chain of promises of `loop/reviewer-provider-gate.ts`, `exhaustedUntil` the
remembered reset; the review step around it (`loop/loop-step.ts`) reads the clock, queues, calls or is
withheld, and writes the record. `told` is a ghost: the latest reset the provider has named to this process.

`OneReviewer`, `KnownExhaustedIsNotCalled` (a call is not made before a reset the process was told of, however
long it queued) and `EveryTurnComes` are checked by `reviewer_gate` for three tasks and three instants, with a
process that may die: two tasks can be behind one that throws, is withheld or learns of an exhaustion.
Fairness: the event loop runs what is ready, and the launch boundary ends a reviewer (`EveryCallReturns`).

Proved for every set of tasks (in `TaskLoop_proofs`): `GateTypesHold`, `ReviewersAlternate`, `ExhaustionIsHeeded`. The chain is numbered
(`Numbering`): every unsettled call has the number after the call it waits for, so that the one without a
predecessor is unique.

A reviewer that survives an unconfirmed termination is outside the exclusion, as the gate's own comment says.

## 10. Coordinator and scheduler

`RepositoryPass` is one pass of `driveRepositories`: `Plan` reads everything, `Admit` takes a lease and starts
a driver, `Reap` collects one and plans again. The coordinator is a single event loop and takes the lease
synchronously inside `admit`, so admission is one step. `Scheduler` extends it with `driveScheduler`: the
disposition after a pass, the bounded sleep in chunks, the registry that is read again, an interrupt.

- `NeverItsOwnObstacle`: no task's one admission is lost at a lease a sibling of the same pass holds.
- `PassIsExhaustive`: a pass that completes has admitted all its last plan ranked.
- `HoldsNothingAcrossAWait`: whoever sleeps or begins another pass holds no lease, also not one whose release
  failed.
- `NoWakeIsMissed`: when it stops for want of a wake, or sleeps, every reset that has passed has been tried
  since.
- `EventuallyEnds`: the invocation ends, also under a clock that stands still.

`scheduler`: three tasks in two Git directories, two slots, two admissions, two cycles, two instants after the
first, one fault: a shared directory beside another, and a reset that falls before, in or after the pass of
the first cycle. `OPEN` stands for every state without a reset. Fairness: turns of the event loop, and drivers
that come back.

Edges the model keeps: a reset equal to the beginning of a pass is judged in the same millisecond, and
`durable-wake.ts` (about 320) refuses `now <= reset`; a lease that leaked is met by later admissions of the
same pass and never across a wait; a pass that ends by its budget or as unplannable can leave a reset that has
passed to the next invocation.

Proved for every set of repositories and tasks: `SchedulerTypeCorrect`, `PassExcludesItself`,
`PassLeavesNothing`, `SleeperHoldsNothing`, `WakesAreNotMissed`, and `StopIsHonoured` (`NoPassAfterStop`:
after an interrupt no further pass begins), which is proved only.

## 11. Delivery

`DeliveryDrive` is `agent-loop delivery` in both forms, the repeated drive and the single act, beside the
forge: `ref`, `pulls` and `checks` are the forge's, `flight[d]` a request that lands later or never whether or
not its caller still waits, `receipt`, `history` and `concluded` the three records, everything indexed by a
drive its memory. One action stands for the code between two points at which another call, the forge or a
person can act.

`DeliveryPromise` is the abstract specification: the receipt names the one merge there has been, attempts are
only added and never after a pass under the same profile, a conclusion is reached over the receipt and a
standing pass of its profile. It may be reached again and then replaces the one before: nothing locks it. `KeepsThePromise` is that `DeliveryDrive` implements it, with `merged` mapped to the pull requests
merged at the task's commit into its base (`MergedHere`).

- `ReceiptIsTheMerge`: every receipt written or about to be written names that merge.
- `UnattendedIsAccounted`: a push nobody was present for is authorised on disk before it is sent, and is all
  such a call sends.
- `MergesOnlyTheCheckedCommit`: a merge no person made is of the delivered commit, whose checks had succeeded.
- `EventuallyDelivered`: an operator who keeps asking gets the delivery concluded, unless something keeps
  coming back only a person can clear.

A conclusion is written in two steps. `RecheckConclusion` is the last reading of the receipt, the history and
the target, `WriteConclusion` the staging, the fsync and the rename, which replaces what is there by then. A second
conclusion may therefore replace the first one, which `DeliveryPromise` allows; each that is written is over the
receipt and a standing pass (section 13 has what the code says of it).

`delivery_drive`: the operator's drive beside one other call, two pull request numbers, two profiles, two
attempts, one move of a person and one fault. Fairness: a running call goes on, the forge answers, checks end,
the operator asks again, fetches, and recovers the lease of a dead process. READY_FOR_PR is terminal, so the
commit and the record's revision do not move.

Proved for every set of callers, numbers and profiles: `DeliveryTypeCorrect`, `OneMergeIsRecorded`,
`ConclusionsStand` (`ConclusionStands`, proved only), and `DeliveryKeepsThePromise`, the refinement:
`StepHolds` shows of every action that it keeps `DeliveryInv` and is a step of the promise or a stutter.
`MergesAreOfTheCheckedCommit` needs `Backed` besides: a decision to merge, a call that is about to and a
request under way, which outlives its caller, all follow a success of the checks. `UnattendedCallsAreAccounted`
needs `Accounted`: only an attended call comes near an opening or a merge, and a call that has pushed has no
publication ahead of it, in either form, so no later look at the ref turns its authorisation into
NOT_DISPATCHED. Both were checked at the bounds of `delivery_drive` first. `NoDecisionIsNone` says that no
decision is the absent one.

Noted on the way: a crash during the verification of a merge leaves its workspace, and every later
verification refuses it (WORKSPACE_PATH_OCCUPIED) until a person removes it; two calls may both write the
receipt, and write the same; the conclusion checks its bindings before it writes and never after.

## 12. AttentionOutbox

An invocation settles in the steps of `settleAttention`: scan the repositories, write records, list the
directory, discard the receipts and remove the records of what no longer holds, announce, mark. `records` and
`receipts` are the files. `reached` counts what the endpoint took of an item in its present occurrence: it
starts again when the record is removed, and also when an invocation reads that the condition is over and there
is no record to remove (`Over`). `orphans` are the receipts that outlived their occurrence, because the unlink
was refused or because the record had been refused and no removal came by.

- `NoneIsSilenced`: an open item with a receipt did reach the endpoint in this occurrence, unless the receipt
  is an orphan; and without a fault there are no orphans (`notify/attention-store.ts` 612 to 624 on the unlink,
  `notify/attention-outbox.ts` 437 to 482 on the record).
- `HeardOnce`: an item one invocation drives is announced again only where a fault explains it.
- `DismissedWasGone`: a record is removed only by an invocation whose own scan passed over its repository
  while it did not hold.
- `StandingIsAnnounced` (liveness): what keeps holding is announced in that occurrence, unless an orphan stands
  beside it.

`outbox`: two invocations over two repositories, one of which both drive, two faults, one change of state of
the second task. A repeated announcement needs one fault, and a silenced one a fault in each half of a
removal. Fairness: every invocation goes on or is started again; faults are finite. `outbox_overlap`
checks `NeverMissing`, that no open item with a receipt is unheard, with two invocations of one repository and
no fault, and finds it violated (section 13).

Proved for every set of repositories and finitely many invocations: `OutboxTypeCorrect`,
`OutboxDismissesWhatIsGone`, and `OutboxSilencesNothing` under `SoleOwner`: the repositories whose runs meet
conditions are each driven by one invocation. Without it the property fails as `outbox_overlap` shows. Orphans
are not assumed away: the theorem says that they need a fault.

`OutboxAnnouncesOnce` is `HeardOnce`, of every item at most one invocation drives. A hearing is paid for either
by a receipt or by a fault, but a receipt goes before its record does, so the count alone is not inductive.
`HeardInv` adds what the sole driver holds at each phase (`Explained`): what it is about to announce has been
heard no more often than there were faults, and what it is about to remove has a record and will not hold
again under its name. The last rests on `Known`: a task's item that was recorded or found to hold holds now or
is `Past`, because a new state bears a later instant. `HeardInv` was checked at the bounds of `outbox` first.

## 13. Disagreements found

One is checked by a run, `outbox_overlap`: a receipt written after another invocation removed the record
silences the next occurrence of that condition, although `notify/attention-outbox.ts` (46) says that an overlap
"costs a delayed notification, never a missing one".

The others were met while modelling; the models contain the behaviour, and no run is kept for it:

- A conclusion can be replaced by another: two calls find none on their last reading, under two profiles that
  both passed, and the second rename replaces the first one's judgement, without any fault.
  `deliver/delivery-conclusion-store.ts` (13) says "Written once, never overwritten", and (58 to 61) that the two
  differ only in `concludedAt`; they differ in the digest of the profile too. So "reached once" is no property
  of the code, and none is stated.
- An item whose record could not be written is announced and marked all the same. Its receipt has no record,
  the removals walk the records, and the next occurrence of the condition is silent. The comment at
  `notify/attention-outbox.ts` 458 has the removal take such a receipt away "with its record", and the one at 16
  says that a create that does not happen "is retried on the next pass for free". `NoneIsSilenced` and
  `StandingIsAnnounced` except these receipts by name (`orphans`) and say that they need a fault.
- A block whose members are all settled or resolved by the operator ends as NO_ELIGIBLE_TASK
  (`block/block-conclusion.ts` 201), a reason its comment (191) keeps for dead ends no disposition accounts
  for. `block/block-ledger.ts` (160 to 163) says that COMPLETE accepts RESOLVED beside SETTLED lest the run be
  permanently incomplete; its schema (524) and `block/block-progress.ts` (462) agree, and the comment on the
  reason itself (192) says "Every frozen task is settled". `ReasonIsTrueOfTheRecords` asks only what all of
  them agree on.
- Where links are refused to two recoverers, `LiveRecordKept` fails: a half-written copy is detached by the
  other recovery, which destroys the record of a running process (`lease/execution-lease.ts` 1932; the
  comments at 1874 and 1876 describe the harm as removed).
- A collision with a lease that is released a moment later is answered as a stale lease (1963), which
  `Diagnose` models.
- An announcement that reads the lease while a second recovery has it detached is answered LEASE_ABSENT, hence
  EPOCH_ENDED (1303): the accountant is dropped for the life of the process, the lease is put back, and its
  file still licenses. The comment at 1277 permits EPOCH_ENDED only where no document of the epoch can license
  a recovery. A withdrawal at such a moment is reported as LEASE_NO_LONGER_THIS_RUNS (`loop/leased-spawns.ts`
  340 to 356). `LaunchLedger` takes the lease of a running owner to stay where it is.
- `--remediate-verify-failure` can hand the writer old findings instead of the failure, and a quota pause
  during such a remediation cannot clear on its own.
- A commit made in the worktree while the reviewer runs is the one declared ready (`loop/loop-step.ts` 1891);
  `ReadyIsVerifiedAndReviewed` is conditional for this reason.
- A block member that was already started is driven on its old base, whatever base an edited roadmap calls
  for.
- A `git worktree add` whose answer is lost is reported as WORKTREE_CREATE_FAILED without residue
  (`worktree/prepare-workspace.ts` 363 to 368), although it may have made the worktree.
- A review is judged with the clock as it was read before it queued (`loop/loop-step.ts` 1716), so it can be
  withheld for a reset that has passed meanwhile and parks as a block no clock clears; and the rule that a
  later exhaustion wins is unreachable with one provider.
- The wait for a helper that ignores its kill before establishment has no bound
  (`boundary/start-owned-process.ts` 522), although `boundary/owned-command.ts` (937) calls establishment
  bounded.

## 14. Mutants

The definitions named `…AnyOwner`, `…Unchecked`, `…NoLimit` and the like, marked "Mutation:" and written just
before the definition they vary, are plausible mistakes in the code. `PROJECT.json` `mutants` pairs each with
the property that must catch it; they are not part of any specification.

## 15. Limits

Every safety and action property of the passing runs is also proved, three of the lease under `NoCopies`, one
of the outbox under `SoleOwner` and one of the block runner under `OneRoadmap`. Model-checked only: those
properties beyond these hypotheses, as far as the bounds of their runs go (the copying fallback of the lease
above all), and every liveness property. Liveness under fairness and ENABLED are out of the provers' reach.

Not modelled: the command line and its renderers, whose grants and flags are the `Grants` and `FlagSets` of
`TaskLoop` and the `Calls` of `DeliveryDrive`; the dashboard, a read-only projection over HTTP; the doctor's
probes; configuration, registry, YAML and the authentication preflight, which parse once and interleave with
nothing; the building and checking of the task graph; and what section 2 lists as left.

