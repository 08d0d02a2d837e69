------------------------------ MODULE TaskLoop ------------------------------
(***************************************************************************)
(* One task of the orchestrator: its durable record (core/task-state.ts),    *)
(* the worktree an agent writes in, the verification-attempt history beside   *)
(* the record, and the run driver that moves the record phase by phase        *)
(* (run/run-driver.ts runTask, loop/loop-step.ts).                           *)
(*                                                                         *)
(* The execution lease keeps a second driver out (module ExecutionLease), so  *)
(* there is one driver at a time; it may die or lose the lease at any point,   *)
(* and then only the record, the worktree and the history survive.  A step is  *)
(* one effect on one of these; the model keeps the order the code gives them.  *)
(***************************************************************************)
EXTENDS Integers, FiniteSets

CONSTANTS
  MaxReviewRounds,  \* completion.maxReviewRounds of the repository profile
  MaxReviewBudget,  \* MAX_REVIEW_BUDGET: 12
  AttemptsKept,     \* MAX_VERIFICATION_ATTEMPTS_KEPT: 6
  MaxSteps,         \* the step budget a call is given
  MaxCommits,       \* bound: commits made on the work branch
  Grants,           \* the invocation grants a call may carry
  FlagSets,         \* the sets of operator flags a call may carry
  Edits,            \* what somebody else may do to the worktree
  Recycle,          \* past MaxCommits the names of commits are used again
  GitMayFail,       \* a Git question may go unanswered
  MayHalt,          \* a driver may die or lose the lease before it is done
  None

Flags == {"remediate", "repair", "decide", "quota", "restored"}

ASSUME LoopAssumption ==
  /\ MaxReviewRounds \in Nat \ {0}
  /\ MaxReviewBudget \in Nat
  /\ MaxReviewRounds <= MaxReviewBudget
  /\ AttemptsKept \in Nat \ {0}
  /\ MaxSteps \in Nat \ {0}
  /\ MaxCommits \in Nat \ {0}
  /\ Grants \subseteq {"NO_CONTINUATION", "ATTENDED", "AUTOMATIC_RESUME_ONLY"}
  /\ FlagSets \subseteq SUBSET Flags
  /\ Edits \subseteq {"repair", "dirty", "commit"}
  /\ Recycle \in BOOLEAN
  /\ GitMayFail \in BOOLEAN
  /\ MayHalt \in BOOLEAN
  /\ None \notin Int

Phase == {"IMPLEMENT", "VERIFY", "REVIEW", "REMEDIATE"}
PhaseState ==
  [IMPLEMENT |-> "IMPLEMENTING", VERIFY |-> "VERIFYING",
   REVIEW |-> "REVIEWING", REMEDIATE |-> "REMEDIATING"]

WorkLoop    == {PhaseState[ph] : ph \in Phase}
PreWork     == {"WORKTREE_READY", "CONTEXT_LOADING"}
LoopDriven  == PreWork \cup WorkLoop
AgentPhase  == {"IMPLEMENTING", "REVIEWING", "REMEDIATING"}
Blocking    == {"BLOCKED_USAGE_LIMIT", "BLOCKED_VERIFY", "SCOPE_VIOLATION",
                "HUMAN_DECISION_REQUIRED"}
Terminal    == {"READY_FOR_PR", "OPERATOR_RESOLVED"}
State       == LoopDriven \cup Blocking \cup Terminal

\* TRANSITION_TABLE, the rows and columns of the states this loop can write.
Escalation == {"HUMAN_DECISION_REQUIRED"}
Interrupted == {"BLOCKED_USAGE_LIMIT", "SCOPE_VIOLATION"} \cup Escalation
Table ==
  [WORKTREE_READY          |-> {"CONTEXT_LOADING"} \cup Escalation,
   CONTEXT_LOADING         |-> {"IMPLEMENTING"} \cup Escalation,
   IMPLEMENTING            |-> {"VERIFYING"} \cup Interrupted,
   VERIFYING               |-> {"REVIEWING", "BLOCKED_VERIFY"} \cup Escalation,
   REVIEWING               |-> {"READY_FOR_PR", "REMEDIATING"} \cup Interrupted,
   REMEDIATING             |-> {"VERIFYING"} \cup Interrupted,
   BLOCKED_USAGE_LIMIT     |-> {"IMPLEMENTING", "REVIEWING", "REMEDIATING"} \cup Escalation,
   BLOCKED_VERIFY          |-> {"VERIFYING", "REMEDIATING", "OPERATOR_RESOLVED"} \cup Escalation,
   SCOPE_VIOLATION         |-> Escalation,
   HUMAN_DECISION_REQUIRED |-> WorkLoop \cup {"OPERATOR_RESOLVED"},
   READY_FOR_PR            |-> {},
   OPERATOR_RESOLVED       |-> {}]

OperatorOnlyEdges == {<<"BLOCKED_VERIFY", "VERIFYING">>}

Round  == 1..MaxReviewBudget
Commit == 0..MaxCommits          \* 0 is the base pin
Reset  == {"none", "ahead", "past"}

Record ==
  [state   : State,
   round   : 0..MaxReviewBudget,          \* reviewRound
   granted : 0..MaxReviewBudget,          \* grantedReviewRounds
   agent   : {"claude", "codex", None},   \* blockedAgent
   resume  : [phase : Phase, round : Round] \cup {None},
   reset   : Reset,                       \* reportedResetAt against the clock
   current : Commit \cup {None},          \* currentCommit
   clean   : BOOLEAN,                     \* worktreeCleanAtCheckpoint
   found   : SUBSET Round]                \* the rounds findingHistory has records of

\* None is no commit (LoopAssumption) and no resume point either.
ASSUME NoneAssumption == None \notin [phase : Phase, round : Round]

VARIABLES
  rec,       \* the durable record
  tree,      \* the worktree: HEAD, uncommitted work, and whether the branch left scope
  attempts,  \* the attempt history: its length, and the latest attempt
  pc,        \* where the driver is
  mem,       \* the record it loaded
  next,      \* the record it is about to save
  call,      \* the call: grant, unspent flags, iterations left, the departure in use
  brief,     \* the round whose findings it holds in memory
  cut,       \* how the writer ended: "no", or the reset a usage limit reported
  before,    \* what it observed before the reviewer ran
  cause,     \* what the last remediation brief was made of
  verified,  \* commits every verification command passed on
  accepted,  \* commits a reviewer had nothing to object to
  touched    \* somebody else has written in the worktree, but for a repair

durable == <<rec, tree, attempts>>
driver  == <<pc, mem, next, call, brief, cut, before, cause>>
ghosts  == <<verified, accepted, touched>>
vars    == <<durable, driver, ghosts>>

-----------------------------------------------------------------------------
(* core/review-budget.ts, core/agent-phases.ts, core/resume-policy.ts         *)

Budget(s) == MaxReviewRounds + s.granted
Exhausted(s) == s.round >= Budget(s)

Least(m, n) == IF m <= n THEN m ELSE n
Most(m, n)  == IF m >= n THEN m ELSE n
CurrentRound(s) == Least(Most(1, s.round), Budget(s))

\* withdrawnCheckpointFor: entering or leaving the named phase gives up the checkpoint.
KeepsCheckpoint(phase, s) == s
Withdrawn(phase, s) ==
  IF phase \in AgentPhase THEN [s EXCEPT !.current = None, !.clean = FALSE] ELSE s

\* RESUME_EVIDENCE_SPENT.
SpentPointOnly(s) == [s EXCEPT !.resume = None]
Spent(s) == [s EXCEPT !.resume = None, !.reset = "none"]

AllowedResumePhases(b) ==
  IF b = "SCOPE_VIOLATION" THEN {}
  ELSE {ph \in Phase : /\ PhaseState[ph] \in Table[b]
                       /\ <<b, PhaseState[ph]>> \notin OperatorOnlyEdges}

AllowedAgents(b) ==
  CASE b = "BLOCKED_USAGE_LIMIT" -> {"claude", "codex"}
    [] b = "BLOCKED_VERIFY"      -> {None}
    [] OTHER                     -> {"claude", "codex", None}

\* TaskStateSchema, the rules that relate one field of the record to another.
WithinBudget(s) ==
  /\ s.granted > 0 => Budget(s) <= MaxReviewBudget
  /\ s.round <= Budget(s)
  /\ s.resume # None => s.resume.round <= Budget(s)
  /\ \A r \in s.found : r <= Budget(s)

Contract(s) ==
  /\ WithinBudget(s)
  /\ s.state = "READY_FOR_PR" =>
       s.current # None /\ s.clean /\ s.resume = None /\ s.reset = "none" /\ s.round >= 1
  /\ s.state = "OPERATOR_RESOLVED" => s.resume = None /\ s.reset = "none"
  /\ s.state \notin Blocking => s.agent = None
  /\ s.state \in WorkLoop => s.resume = None /\ s.reset = "none"
  /\ s.state \in Blocking =>
       /\ s.agent \in AllowedAgents(s.state)
       /\ s.state # "SCOPE_VIOLATION" => s.resume # None
       /\ s.resume # None => s.resume.phase \in AllowedResumePhases(s.state)

-----------------------------------------------------------------------------
(* state/reconcile.ts: what of the record the worktree can contradict         *)

Virgin(s) ==
  s.state \in PreWork /\ s.resume = None /\ s.current = None /\ s.round = 0 /\ s.found = {}

ExpectedHead(s) == IF s.current = None /\ Virgin(s) THEN 0 ELSE s.current

Consistent(s, t) ==
  /\ ExpectedHead(s) # None => t.head = ExpectedHead(s)
  /\ s.clean \/ Virgin(s) => t.dirt = "clean"

-----------------------------------------------------------------------------
(* The decision at the top of an iteration: who may take the task where       *)

\* classifyResume answers AUTOMATIC_ALLOWED.
ByClock ==
  /\ rec.state = "BLOCKED_USAGE_LIMIT"
  /\ rec.resume # None
  /\ rec.agent = "claude"
  /\ rec.reset = "past"
  /\ rec.clean
  /\ rec.current = tree.head

Asked(flag) == call.grant = "ATTENDED" /\ flag \in call.flags

ByRemediation ==
  /\ rec.state = "BLOCKED_VERIFY"
  /\ Asked("remediate")
  /\ rec.resume # None /\ rec.resume.phase = "REMEDIATE"

ByRepair ==
  /\ rec.state = "BLOCKED_VERIFY"
  /\ Asked("repair")
  /\ rec.resume # None /\ rec.resume.phase = "REMEDIATE"

ByDecision ==
  /\ rec.state = "HUMAN_DECISION_REQUIRED"
  /\ Asked("decide")
  /\ rec.resume # None

\* usageLimitContinuation: never while the clock may still do it by itself.
ByQuota ==
  /\ rec.state = "BLOCKED_USAGE_LIMIT"
  /\ Asked("quota")
  /\ rec.resume # None
  /\ IF rec.reset = "ahead" THEN "restored" \in call.flags
     ELSE ~(rec.reset = "past" /\ rec.agent = "claude" /\ rec.current # None /\ rec.clean)

\* permitsContinuation.
Granted ==
  \/ call.grant = "ATTENDED"
  \/ call.grant = "AUTOMATIC_RESUME_ONLY" /\ (ByClock \/ call.own)

\* The loop condition, and every return before the step itself.
Iterates == call.left > 0 \/ brief # None
Reached  == pc = "top" /\ Iterates /\ rec.state \notin Terminal /\ Consistent(rec, tree) /\ Granted

Departs == ByClock \/ ByRemediation \/ ByDecision \/ ByQuota
CeilingReached == ByDecision /\ Exhausted(rec) /\ Budget(rec) >= MaxReviewBudget

RepairAllowed ==
  /\ attempts.count > 0
  /\ attempts.failed
  /\ tree.head = attempts.subject
  /\ tree.dirt = "within" /\ ~tree.beyond

Proceeds ==
  /\ Reached
  /\ \/ rec.state \in LoopDriven
     \/ Departs /\ ~CeilingReached
     \/ ByRepair /\ RepairAllowed

-----------------------------------------------------------------------------

FirstState ==
  [state |-> "WORKTREE_READY", round |-> 0, granted |-> 0, agent |-> None,
   resume |-> None, reset |-> "none", current |-> 0, clean |-> TRUE, found |-> {}]

NoCall == [grant |-> "NO_CONTINUATION", flags |-> {}, left |-> 0, own |-> FALSE, using |-> "none"]

Init ==
  /\ rec = FirstState
  /\ tree = [head |-> 0, dirt |-> "clean", beyond |-> FALSE]
  /\ attempts = [count |-> 0, subject |-> None, failed |-> FALSE]
  /\ pc = "idle"
  /\ mem = FirstState
  /\ next = FirstState
  /\ call = NoCall
  /\ brief = None
  /\ cut = "no"
  /\ before = [head |-> None, clean |-> FALSE]
  /\ cause = "none"
  /\ verified = {}
  /\ accepted = {}
  /\ touched = FALSE

\* The driver's memory after a call.
Forget ==
  /\ pc' = "idle"
  /\ mem' = FirstState
  /\ next' = FirstState
  /\ call' = NoCall
  /\ brief' = None
  /\ cut' = "no"
  /\ before' = [head |-> None, clean |-> FALSE]
  /\ cause' = "none"

Invoke ==
  /\ pc = "idle"
  /\ \E grant \in Grants, flags \in FlagSets :
       /\ flags # {} => grant = "ATTENDED"
       /\ call' = [grant |-> grant, flags |-> flags, left |-> MaxSteps,
                   own |-> FALSE, using |-> "none"]
  /\ pc' = "top"
  /\ UNCHANGED <<durable, mem, next, brief, cut, before, cause, ghosts>>

\* Every answer runTask gives without touching the record.
Stop ==
  /\ pc = "top"
  /\ ~Proceeds
  /\ Forget
  /\ UNCHANGED <<durable, ghosts>>

\* The driver dies, or a lease check ends the call before its next effect.
Halt ==
  /\ MayHalt
  /\ pc # "idle"
  /\ Forget
  /\ UNCHANGED <<durable, ghosts>>

Propose(s) == next' = s /\ pc' = "save"

Parked(s, phase, round) ==
  [s EXCEPT !.state = "HUMAN_DECISION_REQUIRED", !.agent = None, !.reset = "none",
            !.resume = [phase |-> phase, round |-> round]]

Keeping(unchanged) == UNCHANGED <<durable, ghosts, unchanged>>

-----------------------------------------------------------------------------
(* Leaving a parked state                                                     *)

\* resumeBlockedTask; only a continued human decision may buy a review round.
Resumed(s, extend) ==
  LET target == PhaseState[s.resume.phase] IN
  Withdrawn(target, Spent([s EXCEPT !.state = target, !.agent = None,
                                    !.granted = @ + (IF extend THEN 1 ELSE 0)]))

Resume ==
  /\ Reached
  /\ Departs
  /\ ~CeilingReached
  /\ mem' = rec
  /\ Propose(Resumed(rec, ByDecision /\ Exhausted(rec)))
  /\ call' = [call EXCEPT !.using =
                IF ByClock THEN "clock" ELSE IF ByRemediation THEN "remediate"
                ELSE IF ByQuota THEN "quota" ELSE "decide"]
  /\ Keeping(<<brief, cut, before, cause>>)

\* assessOperatorRepair allowed the adoption.
Adopt ==
  /\ Reached
  /\ ByRepair
  /\ RepairAllowed
  /\ mem' = rec
  /\ pc' = "adopt"
  /\ call' = [call EXCEPT !.using = "repair"]
  /\ Keeping(<<next, brief, cut, before, cause>>)

(***************************************************************************)
(* commitTaskWork: everything uncommitted is staged and committed, and then   *)
(* the delta from the base pin is compared with what the scope gate approved.  *)
(***************************************************************************)
MayCommit == tree.head < MaxCommits \/ Recycle
After(commit) == IF commit < MaxCommits THEN commit + 1 ELSE 1
NewCommit == After(tree.head)

CommitAll ==
  tree' = [head |-> NewCommit, dirt |-> "clean",
           beyond |-> tree.beyond \/ tree.dirt = "beyond"]

\* <<the outcome, whether a commit object was made>>
CommitUnchecked == {<<IF tree.dirt = "clean" THEN "NOTHING_TO_COMMIT" ELSE "COMMITTED",
                      tree.dirt # "clean">>}
CommitOutcomes ==
  (IF tree.dirt = "clean" THEN {<<"NOTHING_TO_COMMIT", FALSE>>}
   ELSE {<<IF tree.beyond \/ tree.dirt = "beyond" THEN "COMMITTED_BEYOND_APPROVED_SCOPE"
           ELSE "COMMITTED", TRUE>>})
  \cup (IF GitMayFail
        THEN {<<"GIT_UNAVAILABLE", FALSE>>, <<"NOTHING_TO_COMMIT", FALSE>>}
             \cup (IF tree.dirt = "clean" THEN {} ELSE {<<"GIT_UNAVAILABLE", TRUE>>})
        ELSE {})

\* commitOperatorRepair and the write after it.
AdoptCommit ==
  /\ pc = "adopt"
  /\ \E out \in CommitOutcomes :
       /\ IF out[2] THEN CommitAll ELSE UNCHANGED tree
       /\ IF out[1] = "COMMITTED"
          THEN /\ Propose(Spent([mem EXCEPT !.state = "VERIFYING", !.agent = None,
                                            !.current = None, !.clean = FALSE]))
               /\ UNCHANGED <<mem, call, brief, cut, before, cause>>
          ELSE Forget
  /\ UNCHANGED <<rec, attempts, ghosts>>

-----------------------------------------------------------------------------
(* WORKTREE_READY and CONTEXT_LOADING                                         *)

EnterContext ==
  /\ Reached
  /\ rec.state = "WORKTREE_READY"
  /\ mem' = rec
  /\ Propose([rec EXCEPT !.state = "CONTEXT_LOADING"])
  /\ Keeping(<<call, brief, cut, before, cause>>)

LoadContext ==
  /\ Reached
  /\ rec.state = "CONTEXT_LOADING"
  /\ mem' = rec
  /\ \/ Propose(Withdrawn("IMPLEMENTING", Spent([rec EXCEPT !.state = "IMPLEMENTING"])))
     \/ Propose(Parked(rec, "IMPLEMENT", CurrentRound(rec)))
  /\ Keeping(<<call, brief, cut, before, cause>>)

-----------------------------------------------------------------------------
(* IMPLEMENTING and REMEDIATING: a writer between two scope gates             *)

WriterPhase(s) == IF s.state = "IMPLEMENTING" THEN "IMPLEMENT" ELSE "REMEDIATE"

\* resumedBrief: what a remediation without findings in memory can be told.
DurableCause(s) ==
  IF CurrentRound(s) \in s.found THEN "findings"
  ELSE IF attempts.count > 0 /\ attempts.subject = tree.head THEN "attempt"
  ELSE "none"

CauseOf(s) ==
  IF s.state = "IMPLEMENTING" THEN "plan"
  ELSE IF brief # None THEN "payload" ELSE DurableCause(s)

Violation(s, writer) ==
  Withdrawn(s.state, [s EXCEPT !.state = "SCOPE_VIOLATION", !.agent = writer,
                               !.resume = None, !.reset = "none"])
Indeterminate(s) == Withdrawn(s.state, Parked(s, WriterPhase(s), CurrentRound(s)))

OutOfScope == tree.dirt = "beyond" \/ tree.beyond

BeginWriter ==
  /\ Reached
  /\ rec.state \in {"IMPLEMENTING", "REMEDIATING"}
  /\ mem' = rec
  /\ cause' = CauseOf(rec)
  /\ \/ /\ cause' = "none" \/ rec.state = "IMPLEMENTING"   \* no cause, no brief
        /\ Propose(Parked(rec, WriterPhase(rec), CurrentRound(rec)))
     \/ /\ cause' # "none" /\ OutOfScope
        /\ Propose(Violation(rec, None))
     \/ /\ cause' # "none" /\ GitMayFail
        /\ Propose(Indeterminate(rec))
     \/ /\ cause' # "none" /\ ~OutOfScope
        /\ pc' = "writing"
        /\ UNCHANGED next
  /\ Keeping(<<call, brief, cut, before>>)

WriterWrites ==
  /\ pc = "writing"
  /\ MayCommit
  /\ \E dirt \in {"clean", "within", "beyond"} \ {tree.dirt} :
       tree' = [tree EXCEPT !.dirt = dirt]
  /\ UNCHANGED <<rec, attempts, driver, ghosts>>

\* recordAgentInterruption, with the checkpoint a settlement established.
Interruption(s, phase, agent, reset, checkpoint) ==
  LET blocked == [s EXCEPT !.state = "BLOCKED_USAGE_LIMIT", !.agent = agent, !.reset = reset,
                           !.resume = phase]
  IN  IF checkpoint = None THEN Withdrawn(s.state, blocked)
      ELSE [blocked EXCEPT !.current = checkpoint, !.clean = TRUE]

NeedsAttention(s, phase, agent) ==
  Withdrawn(s.state, [s EXCEPT !.state = "HUMAN_DECISION_REQUIRED", !.agent = agent,
                               !.reset = "none", !.resume = phase])

WriterPoint(s) == [phase |-> WriterPhase(s), round |-> CurrentRound(s)]

WriterEnds ==
  /\ pc = "writing"
  /\ \/ /\ pc' = "measure"
        /\ cut' \in {"no"} \cup Reset        \* done, or cut off by a usage limit
        /\ UNCHANGED next
     \/ /\ Propose(NeedsAttention(mem, WriterPoint(mem), "claude"))
        /\ UNCHANGED cut
  /\ Keeping(<<mem, call, brief, before, cause>>)

\* enforceScope after a writer that finished, measureScope after one cut off.
Measure ==
  /\ pc = "measure"
  /\ \/ /\ OutOfScope
        /\ Propose(Violation(mem, "claude"))
     \/ /\ GitMayFail
        /\ Propose(IF cut = "no" THEN Indeterminate(mem)
                   ELSE Interruption(mem, WriterPoint(mem), "claude", cut, None))
     \/ /\ ~OutOfScope
        /\ pc' = "commit"
        /\ UNCHANGED next
  /\ Keeping(<<mem, call, brief, cut, before, cause>>)

\* commitPassOrPark: a pass that recorded nothing, or not what was approved, parks.
PassRecorded(outcome) ==
  IF outcome = "COMMITTED"
  THEN Withdrawn("IMPLEMENTING", Spent([mem EXCEPT !.state = "VERIFYING"]))
  ELSE Parked(mem, WriterPhase(mem), CurrentRound(mem))

\* settleQuotaInterruption: the observation follows the commit.
PauseSettled(outcome, t) ==
  Interruption(mem, WriterPoint(mem), "claude", cut,
               IF outcome \in {"COMMITTED", "NOTHING_TO_COMMIT"} /\ t.dirt = "clean"
               THEN t.head ELSE None)

CommitPass ==
  /\ pc = "commit"
  /\ \E out \in CommitOutcomes :
       /\ IF out[2] THEN CommitAll ELSE UNCHANGED tree
       /\ Propose(IF cut = "no" THEN PassRecorded(out[1]) ELSE PauseSettled(out[1], tree'))
  /\ UNCHANGED <<rec, attempts, mem, call, brief, cut, before, cause, ghosts>>

-----------------------------------------------------------------------------
(* VERIFYING                                                                  *)

BeginVerify ==
  /\ Reached
  /\ rec.state = "VERIFYING"
  /\ mem' = rec
  /\ pc' = "verify"
  /\ Keeping(<<next, call, brief, cut, before, cause>>)

VerifyPasses ==
  /\ pc = "verify"
  /\ verified' = IF tree.dirt = "clean" THEN verified \cup {tree.head} ELSE verified
  /\ Propose(Spent([mem EXCEPT !.state = "REVIEWING"]))
  /\ UNCHANGED <<durable, mem, call, brief, cut, before, cause, accepted, touched>>

VerifyBlocked(s) ==
  [s EXCEPT !.state = "BLOCKED_VERIFY", !.agent = None, !.reset = "none",
            !.resume = [phase |-> "REMEDIATE", round |-> CurrentRound(s)]]

\* A failure, a timeout or a spawn that never started: the attempt is evidence, and
\* the history refuses one past its limit instead of dropping the oldest.
Room(recorded) == recorded /\ attempts.count < AttemptsKept

ReopenedAtReview(s) == Parked(s, "REVIEW", CurrentRound(s))
VerifyUnclear(s) == Parked(s, "VERIFY", CurrentRound(s))

OutcomeUnrecorded(failed, kept) == IF failed THEN VerifyBlocked(mem) ELSE VerifyUnclear(mem)
VerifyOutcome(failed, kept) ==
  IF failed /\ kept THEN VerifyBlocked(mem) ELSE VerifyUnclear(mem)

\* The attempt is recorded first; a block is written only over recorded evidence.
VerifyFails ==
  /\ pc = "verify"
  /\ \E failed \in BOOLEAN, recorded \in {TRUE} \cup (IF GitMayFail THEN {FALSE} ELSE {}) :
       LET kept == Room(recorded) IN
       /\ attempts' = IF kept
                      THEN [count |-> attempts.count + 1, subject |-> tree.head, failed |-> failed]
                      ELSE attempts
       /\ Propose(VerifyOutcome(failed, kept))
  /\ UNCHANGED <<rec, tree, mem, call, brief, cut, before, cause, ghosts>>

-----------------------------------------------------------------------------
(* REVIEWING                                                                  *)

BeginReview ==
  /\ Reached
  /\ rec.state = "REVIEWING"
  /\ mem' = rec
  /\ IF rec.round + 1 > Budget(rec)
     THEN /\ Propose(Parked(rec, "REMEDIATE", CurrentRound(rec)))
          /\ UNCHANGED before
     ELSE \/ /\ Propose(Parked(rec, "REVIEW", rec.round + 1))     \* the brief is incomplete
             /\ UNCHANGED before
          \/ /\ pc' = "review"
             /\ before' = [head |-> tree.head, clean |-> tree.dirt = "clean"]
             /\ UNCHANGED next
  /\ Keeping(<<call, brief, cut, cause>>)

ReviewPoint == [phase |-> "REVIEW", round |-> mem.round + 1]

\* settledReviewCheckpoint: the tree did not move while the reviewer read it.
ReviewCheckpoint ==
  IF before.clean /\ before.head = tree.head /\ tree.dirt = "clean" THEN tree.head ELSE None

ReviewInterrupted ==
  /\ pc = "review"
  /\ \/ \E reset \in Reset :
          Propose(Interruption(mem, ReviewPoint, "codex", reset, ReviewCheckpoint))
     \/ Propose(NeedsAttention(mem, ReviewPoint, "codex"))
  /\ Keeping(<<mem, call, brief, cut, before, cause>>)

ReviewedUncounted(s) == s
Reviewed(s) == [s EXCEPT !.round = @ + 1]

LastRoundLate(s, round) == round > Budget(s)
\* The last round cannot start a remediation nobody could review.
LastRound(s, round) == round >= Budget(s)

ReviewFinds ==
  /\ pc = "review"
  /\ LET round  == mem.round + 1
         record == [Reviewed(mem) EXCEPT !.found = @ \cup {round}]
     IN  Propose(IF LastRound(mem, round) THEN Parked(record, "REMEDIATE", round)
                 ELSE Withdrawn("REMEDIATING", Spent([record EXCEPT !.state = "REMEDIATING"])))
  /\ Keeping(<<mem, call, brief, cut, before, cause>>)

\* A clean review still needs a clean tree at a commit that is not the base pin.
ReviewAccepts ==
  /\ pc = "review"
  /\ accepted' = IF before.clean THEN accepted \cup {before.head} ELSE accepted
  /\ \E observed \in {TRUE} \cup (IF GitMayFail THEN {FALSE} ELSE {}) :
     Propose(IF observed /\ tree.dirt = "clean" /\ tree.head # 0
             THEN Spent([Reviewed(mem) EXCEPT !.state = "READY_FOR_PR", !.agent = None,
                                              !.current = tree.head, !.clean = TRUE])
             ELSE Parked(Reviewed(mem), "REVIEW", mem.round + 1))
  /\ UNCHANGED <<durable, mem, call, brief, cut, before, cause, verified, touched>>

-----------------------------------------------------------------------------
(* advanceTaskState, and what the driver does with its answer                 *)

Legal(s, t) == Contract(t) /\ t.state \in Table[s.state]

\* A departure spends the flag that allowed it; a step spends what it resumed under.
AfterSave ==
  IF mem.state \in Blocking
  THEN [call EXCEPT !.left = @ - 1, !.flags = @ \ {call.using}, !.own = @ \/ call.using = "clock"]
  ELSE [call EXCEPT !.left = @ - 1, !.using = "none"]

\* A refused save ends the call with nothing written, as a parked or ended task does.
EndsCall == ~Legal(mem, next) \/ next.state \in Blocking \cup Terminal

\* Findings travel in memory from the review that made them to the next step only.
BriefAfter ==
  IF mem.state = "REVIEWING" /\ next.state = "REMEDIATING" THEN next.round ELSE None

Save ==
  /\ pc = "save"
  /\ rec' = IF Legal(mem, next) THEN next ELSE rec
  /\ IF EndsCall
     THEN Forget
     ELSE /\ pc' = "top"
          /\ call' = AfterSave
          /\ brief' = BriefAfter
          /\ mem' = FirstState
          /\ next' = FirstState
          /\ cut' = "no"
          /\ before' = [head |-> None, clean |-> FALSE]
          /\ cause' = "none"
  /\ UNCHANGED <<tree, attempts, ghosts>>

-----------------------------------------------------------------------------
(* The world around the driver                                                *)

\* resolveTaskByOperator: an operator closes a task that waits for one.
Resolve ==
  /\ pc = "idle"
  /\ rec.state \in {"HUMAN_DECISION_REQUIRED", "BLOCKED_VERIFY"}
  /\ rec' = Spent([rec EXCEPT !.state = "OPERATOR_RESOLVED", !.agent = None])
  /\ UNCHANGED <<tree, attempts, driver, ghosts>>

ResetPasses ==
  /\ rec.reset = "ahead"
  /\ rec' = [rec EXCEPT !.reset = "past"]
  /\ UNCHANGED <<tree, attempts, driver, ghosts>>

Dirties ==
  /\ MayCommit
  /\ \E dirt \in {"clean", "within", "beyond"} \ {tree.dirt} :
       tree' = [tree EXCEPT !.dirt = dirt]
  /\ UNCHANGED <<rec, attempts, driver, verified, accepted>>

\* An operator's repair of a failed verification.
Repair ==
  /\ "repair" \in Edits
  /\ pc = "idle" /\ rec.state = "BLOCKED_VERIFY"
  /\ Dirties
  /\ UNCHANGED touched

\* Somebody else's uncommitted edit, at any moment.
Edit ==
  /\ "dirty" \in Edits
  /\ Dirties
  /\ touched' = TRUE

\* Somebody else's commit, of work within the scope of the task.
ForeignCommit ==
  /\ "commit" \in Edits
  /\ MayCommit
  /\ tree.dirt = "clean"
  /\ tree' = [tree EXCEPT !.head = NewCommit]
  /\ touched' = TRUE
  /\ UNCHANGED <<rec, attempts, driver, verified, accepted>>

\* What the driver does once it is called.
Drive ==
  \/ Stop \/ Resume \/ Adopt \/ AdoptCommit
  \/ EnterContext \/ LoadContext \/ BeginWriter \/ WriterEnds \/ Measure \/ CommitPass
  \/ BeginVerify \/ VerifyPasses \/ VerifyFails
  \/ BeginReview \/ ReviewInterrupted \/ ReviewFinds \/ ReviewAccepts
  \/ Save

Next ==
  \/ Invoke \/ Drive \/ WriterWrites \/ Halt
  \/ Resolve \/ ResetPasses \/ Repair \/ Edit \/ ForeignCommit

Spec == Init /\ [][Next]_vars

\* A driver that is running goes on, and every agent run is bounded by a timeout.
FairSpec == Spec /\ WF_vars(Drive)

\* And somebody calls the orchestrator again while there is work to do.
Attended == rec.state \in LoopDriven /\ Invoke
CalledSpec == FairSpec /\ WF_vars(Attended)

-----------------------------------------------------------------------------

Calls == [grant : {"NO_CONTINUATION", "ATTENDED", "AUTOMATIC_RESUME_ONLY"}, flags : SUBSET Flags,
          left : -1..MaxSteps, own : BOOLEAN,
          using : Flags \cup {"none", "clock"}]

TypeOK ==
  /\ rec \in Record /\ mem \in Record /\ next \in Record
  /\ tree \in [head : Commit, dirt : {"clean", "within", "beyond"}, beyond : BOOLEAN]
  /\ attempts \in [count : 0..AttemptsKept, subject : Commit \cup {None}, failed : BOOLEAN]
  /\ pc \in {"idle", "top", "save", "adopt", "writing", "measure", "commit", "verify", "review"}
  /\ call \in Calls
  /\ brief \in Round \cup {None}
  /\ cut \in {"no"} \cup Reset
  /\ before \in [head : Commit \cup {None}, clean : BOOLEAN]
  /\ cause \in {"plan", "payload", "findings", "attempt", "none"}
  /\ verified \in SUBSET Commit /\ accepted \in SUBSET Commit /\ touched \in BOOLEAN

(***************************************************************************)
(* Every record a step computes is one the contract accepts, along an edge    *)
(* the table has: no step, from no state a restart can find, ends in           *)
(* STATE_CONTRACT_VIOLATION or ILLEGAL_TRANSITION after the work it is about    *)
(* to record has been done.                                                   *)
(***************************************************************************)
ContractNeverRefuses == pc = "save" => Legal(mem, next)

(***************************************************************************)
(* While nobody else touches the worktree, the record never contradicts it:   *)
(* whatever a crash interrupts, the next call is not told STATE_DIVERGED       *)
(* about the orchestrator's own work (withdrawnCheckpointFor).                *)
(***************************************************************************)
NeverSelfDiverged ==
  ~touched /\ rec.state \notin Terminal => Consistent(rec, tree)

(***************************************************************************)
(* A task that claims READY_FOR_PR names a commit on which verification        *)
(* passed and to which a reviewer had no objection, however the task was       *)
(* parked, resumed, repaired and interrupted on the way, as long as the         *)
(* worktree is only edited by an operator who repairs a failed verification.   *)
(***************************************************************************)
ReadyIsVerifiedAndReviewed ==
  ~touched /\ rec.state = "READY_FOR_PR" => rec.current \in verified \cap accepted

(***************************************************************************)
(* No task is declared ready with a branch that left its scope, even when      *)
(* somebody edits files between the scope gate and the commit, and even when    *)
(* the commit that caught it is not the one that ends the pass.               *)
(***************************************************************************)
ReadyIsWithinScope == rec.state = "READY_FOR_PR" => ~tree.beyond

(***************************************************************************)
(* A task is parked in BLOCKED_VERIFY over a failure its history holds, and    *)
(* while nobody else writes it is a failure of the commit the worktree is at,  *)
(* or of the one an interrupted repair was committed on: a failure that could   *)
(* not be recorded parks for a person instead (runVerifyStep).                *)
(***************************************************************************)
BlockedOnEvidence ==
  rec.state = "BLOCKED_VERIFY" =>
    /\ attempts.count > 0 /\ attempts.failed
    /\ ~touched => tree.head \in {attempts.subject, After(attempts.subject)}

(***************************************************************************)
(* Work goes on only while a review round is left to judge it: a round that    *)
(* finds something, an interruption that takes its round along, a park and a    *)
(* continuation that buys a round never leave a writer, a verification or a      *)
(* review at work beyond the budget (review-budget.ts, runReviewStep).         *)
(***************************************************************************)
WorkIsReviewable == rec.state \in LoopDriven => ~Exhausted(rec)

(***************************************************************************)
(* What a record claims of a verification is so, either way: READY_FOR_PR      *)
(* rests on a pass and a review of the commit it names, and BLOCKED_VERIFY on   *)
(* a failure in the history, also where that history is full.                  *)
(***************************************************************************)
ClaimsAreBacked == ReadyIsVerifiedAndReviewed /\ BlockedOnEvidence

(***************************************************************************)
(* No work is done in vain, at either end of the counters: what a step has     *)
(* computed is never refused by the contract, and nothing is at work that no    *)
(* review round is left to judge.                                             *)
(***************************************************************************)
NoStepIsInVain == ContractNeverRefuses /\ WorkIsReviewable

\* A task somebody keeps calling does not circle between writer, verification
\* and reviewer: it comes to a parked or a final state.
InFlightSettles == rec.state \in LoopDriven ~> rec.state \in Blocking \cup Terminal
=============================================================================
