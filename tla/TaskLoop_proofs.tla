--------------------------- MODULE TaskLoop_proofs ---------------------------
(***************************************************************************)
(* Proofs about TaskLoop, for any budgets, bounds, grants, flags and edits,   *)
(* and, at the end, about the gate its review phase calls the provider        *)
(* through (ReviewerGate).                                                   *)
(*                                                                         *)
(* The driver works on a copy of the record, so the invariant says of the    *)
(* record it has loaded and of the one it is about to save what the four      *)
(* properties say of the durable one: the contract holds of each, and each    *)
(* agrees with the worktree.  A record agrees with the worktree when its       *)
(* checkpoint names the HEAD and the tree it finds there, and when, past the   *)
(* scope gate, the branch is within scope and (while nobody else writes)       *)
(* clean, and verified once it is to be reviewed.                            *)
(***************************************************************************)
EXTENDS TaskLoop, ReviewerGate, TLAPS

Idle == {"idle", "top"}
Writing == {"writing", "measure", "commit"}

\* The phase a state works in, or the one it would resume in.
At(s, phase) ==
  \/ s.state = PhaseState[phase]
  \/ s.resume # None /\ s.resume.phase = phase

\* The work a record speaks of has been through the gate and committed.
PastGate(s) == At(s, "VERIFY") \/ At(s, "REVIEW") \/ s.state = "READY_FOR_PR"

\* Only these hold a checkpoint: nothing writes in the worktree under them.
MayHoldCheckpoint(s) ==
  \/ s.state \in PreWork \cup Terminal \cup {"BLOCKED_USAGE_LIMIT"}
  \/ s.state = "HUMAN_DECISION_REQUIRED" /\ s.resume.phase = "IMPLEMENT"

Checkpointed(s) ==
  /\ s.current # None \/ s.clean => MayHoldCheckpoint(s)
  /\ s.state \in PreWork => s.current # None /\ s.resume = None

Wellformed(s) == s \in Record /\ Contract(s) /\ Checkpointed(s)

\* What a record says that the worktree can confirm.
Confirmed(s) ==
  /\ s.current # None => tree.head = s.current
  /\ s.clean => tree.dirt = "clean"
  /\ At(s, "VERIFY") \/ At(s, "REVIEW") => tree.dirt = "clean"
  /\ At(s, "REVIEW") => tree.head \in verified
  /\ s.state = "READY_FOR_PR" => s.current \in verified \cap accepted

Agrees(s) ==
  /\ PastGate(s) => ~tree.beyond
  /\ ~touched => Confirmed(s)

Sound(s) == Wellformed(s) /\ Agrees(s)

\* The record may have changed under the driver only by the passing of a reset.
Loaded == mem.state = rec.state /\ mem.resume = rec.resume

InHand ==
  /\ pc \notin Idle => Wellformed(mem) /\ Loaded /\ mem.state \notin Terminal
  /\ pc = "adopt" => mem.state = "BLOCKED_VERIFY"
  /\ pc \in Writing => mem.state \in {"IMPLEMENTING", "REMEDIATING"}
  /\ pc = "verify" => mem.state = "VERIFYING"
  /\ pc = "review" =>
       /\ mem.state = "REVIEWING"
       /\ mem.round + 1 <= Budget(mem)
       /\ before.head \in Commit
       /\ ~touched => before.clean /\ before.head = tree.head
  /\ pc = "save" =>
       /\ Sound(next) /\ next.state \in Table[mem.state]
       /\ mem.state = "REVIEWING" /\ next.state = "REMEDIATING" => next.round \in Round

\* A call that has spent its budget is at most finishing the remediation that
\* a review has just asked for.
Findings ==
  /\ brief # None =>
       call.left >= 0 /\ (IF pc \in Idle THEN rec.state ELSE mem.state) = "REMEDIATING"
  /\ pc \notin Idle /\ brief = None => call.left > 0
  /\ pc = "idle" => brief = None

LoopInv == TypeOK /\ Sound(rec) /\ InHand /\ Findings
-----------------------------------------------------------------------------
LEMMA PhaseStates ==
  /\ PhaseState["IMPLEMENT"] = "IMPLEMENTING" /\ PhaseState["VERIFY"] = "VERIFYING"
  /\ PhaseState["REVIEW"] = "REVIEWING" /\ PhaseState["REMEDIATE"] = "REMEDIATING"
BY DEF PhaseState

LEMMA BudgetIsARound ==
  ASSUME NEW s \in Record, WithinBudget(s)
  PROVE  /\ Budget(s) \in Round
         /\ CurrentRound(s) \in 1 .. Budget(s)
         /\ CurrentRound(s) \in Round
BY LoopAssumption DEF Record, WithinBudget, Budget, CurrentRound, Least, Most, Round

LEMMA WorkIsBare ==
  ASSUME NEW s, Wellformed(s), s.state \in WorkLoop
  PROVE  /\ s \in Record /\ WithinBudget(s)
         /\ s.agent = None /\ s.resume = None /\ s.reset = "none"
         /\ s.current = None /\ s.clean = FALSE
<1>1. s.state \notin Blocking /\ ~MayHoldCheckpoint(s)
  BY DEF WorkLoop, Phase, PhaseState, Blocking, MayHoldCheckpoint, PreWork, Terminal
<1> QED BY <1>1 DEF Wellformed, Checkpointed, Contract, Record

LEMMA WorkIsWellformed ==
  ASSUME NEW t \in Record, WithinBudget(t), t.state \in WorkLoop, t.agent = None,
         t.resume = None, t.reset = "none", t.current = None, t.clean = FALSE
  PROVE  Wellformed(t)
<1>1. t.state \notin Blocking \cup PreWork \cup Terminal
  BY DEF WorkLoop, Phase, PhaseState, Blocking, PreWork, Terminal
<1> QED BY <1>1 DEF Wellformed, Checkpointed, Contract, Terminal

LEMMA ResumablePhases ==
  /\ AllowedResumePhases("HUMAN_DECISION_REQUIRED") = Phase
  /\ AllowedResumePhases("BLOCKED_VERIFY") = {"REMEDIATE"}
  /\ AllowedResumePhases("BLOCKED_USAGE_LIMIT") = {"IMPLEMENT", "REVIEW", "REMEDIATE"}
  /\ AllowedResumePhases("SCOPE_VIOLATION") = {}
BY DEF AllowedResumePhases, Phase, PhaseState, Table, OperatorOnlyEdges, WorkLoop, Escalation

LEMMA ParkedIsWellformed ==
  ASSUME NEW s, Wellformed(s), s.state \in PreWork \cup WorkLoop,
         NEW phase \in Phase, NEW round \in 1 .. Budget(s),
         s.state \in PreWork => phase = "IMPLEMENT"
  PROVE  LET t == Parked(s, phase, round) IN
         /\ Wellformed(t)
         /\ t.state = "HUMAN_DECISION_REQUIRED"
         /\ t.resume = [phase |-> phase, round |-> round]
         /\ t.current = s.current /\ t.clean = s.clean
<1> DEFINE t == Parked(s, phase, round)
<1>1. round \in Round /\ s \in Record /\ WithinBudget(s)
  <2>1. s \in Record /\ WithinBudget(s)
    BY DEF Wellformed, Contract
  <2>2. Budget(s) \in Round
    BY <2>1, BudgetIsARound
  <2> QED BY <2>1, <2>2, LoopAssumption DEF Round
<1>2. /\ t \in Record
      /\ t.state = "HUMAN_DECISION_REQUIRED" /\ t.agent = None /\ t.reset = "none"
      /\ t.resume = [phase |-> phase, round |-> round]
      /\ t.round = s.round /\ t.granted = s.granted /\ t.current = s.current
      /\ t.clean = s.clean /\ t.found = s.found
  BY <1>1 DEF Parked, Record, State, Blocking, Reset
<1> HIDE DEF t
<1>3. t.resume # None
  BY <1>1, <1>2, NoneAssumption
<1>4. Contract(t)
  BY <1>1, <1>2, <1>3, ResumablePhases DEF Contract, WithinBudget, Budget, Blocking, WorkLoop, Phase, PhaseState, AllowedAgents
<1>5. Checkpointed(t)
  <2>1. s.state \in PreWork => t.resume.phase = "IMPLEMENT"
    BY <1>2
  <2>2. s.state \in WorkLoop => t.current = None /\ ~t.clean
    BY <1>2, WorkIsBare
  <2> QED BY <1>2, <2>1, <2>2 DEF Checkpointed, MayHoldCheckpoint, PreWork
<1> QED BY <1>2, <1>4, <1>5 DEF Wellformed, t

\* The states a phase of the loop goes on to, with nothing left of a checkpoint.
LEMMA AdvancedIsWellformed ==
  ASSUME NEW s, Wellformed(s), s.state \in PreWork \cup WorkLoop, NEW to \in WorkLoop
  PROVE  LET t == Spent([s EXCEPT !.state = to])
             w == Withdrawn("IMPLEMENTING", t)
         IN  /\ Wellformed(w) /\ w.state = to /\ w.resume = None
             /\ w.round = s.round /\ w.current = None /\ w.clean = FALSE
             /\ s.state \in WorkLoop =>
                  Wellformed(t) /\ t.state = to /\ t.resume = None
<1> DEFINE t == Spent([s EXCEPT !.state = to])
           w == Withdrawn("IMPLEMENTING", t)
<1>1. s \in Record /\ WithinBudget(s) /\ s.agent = None
  <2>1. s.state \notin Blocking
    BY DEF WorkLoop, Phase, PhaseState, PreWork, Blocking
  <2> QED BY <2>1 DEF Wellformed, Contract
<1>2. /\ t \in Record /\ t.state = to /\ t.round = s.round /\ t.granted = s.granted
      /\ t.agent = s.agent /\ t.resume = None /\ t.reset = "none"
      /\ t.current = s.current /\ t.clean = s.clean /\ t.found = s.found
  BY <1>1 DEF Spent, Record, State, LoopDriven, Reset
<1> HIDE DEF t
<1>3. /\ w \in Record /\ w.state = to /\ w.round = s.round /\ w.granted = s.granted
      /\ w.agent = s.agent /\ w.resume = None /\ w.reset = "none"
      /\ w.current = None /\ w.clean = FALSE /\ w.found = s.found
  BY <1>2 DEF Withdrawn, Record, AgentPhase
<1> HIDE DEF w
<1>4. Wellformed(w)
  <2>1. WithinBudget(w)
    BY <1>1, <1>3 DEF WithinBudget, Budget
  <2> QED BY <1>1, <1>3, <2>1, WorkIsWellformed
<1>5. s.state \in WorkLoop => Wellformed(t)
  <2> SUFFICES ASSUME s.state \in WorkLoop PROVE Wellformed(t)
    OBVIOUS
  <2>1. WithinBudget(t)
    BY <1>1, <1>2 DEF WithinBudget, Budget
  <2>2. t.current = None /\ t.clean = FALSE
    BY <1>2, WorkIsBare
  <2> QED BY <1>1, <1>2, <2>1, <2>2, WorkIsWellformed
<1> QED BY <1>2, <1>3, <1>4, <1>5 DEF t, w

\* A repaired tree goes back to verification (AdoptCommit).
LEMMA AdoptedIsWellformed ==
  ASSUME NEW s, Wellformed(s)
  PROVE  LET t == Spent([s EXCEPT !.state = "VERIFYING", !.agent = None,
                                  !.current = None, !.clean = FALSE])
         IN  Wellformed(t) /\ t.state = "VERIFYING" /\ t.resume = None
             /\ t.current = None /\ t.clean = FALSE
<1> DEFINE t == Spent([s EXCEPT !.state = "VERIFYING", !.agent = None,
                                !.current = None, !.clean = FALSE])
<1>1. s \in Record /\ WithinBudget(s)
  BY DEF Wellformed, Contract
<1>2. /\ t \in Record /\ t.state = "VERIFYING" /\ t.round = s.round /\ t.granted = s.granted
      /\ t.agent = None /\ t.resume = None /\ t.reset = "none"
      /\ t.current = None /\ t.clean = FALSE /\ t.found = s.found
  BY <1>1 DEF Spent, Record, State, LoopDriven, WorkLoop, Phase, PhaseState, Reset
<1> HIDE DEF t
<1>3. WithinBudget(t) /\ t.state \in WorkLoop
  BY <1>1, <1>2 DEF WithinBudget, Budget, WorkLoop, Phase, PhaseState
<1>4. Wellformed(t)
  BY <1>2, <1>3, WorkIsWellformed
<1> QED BY <1>2, <1>4 DEF t

LEMMA CheckpointIsGivenUp ==
  ASSUME NEW phase \in AgentPhase, NEW t \in Record
  PROVE  LET w == Withdrawn(phase, t) IN
         /\ w \in Record /\ w.state = t.state /\ w.round = t.round
         /\ w.granted = t.granted /\ w.agent = t.agent /\ w.resume = t.resume
         /\ w.reset = t.reset /\ w.current = None /\ w.clean = FALSE /\ w.found = t.found
BY DEF Withdrawn, Record

\* How an agent's phase may be left without an outcome.
LEMMA BlockedIsWellformed ==
  ASSUME NEW t \in Record, WithinBudget(t), t.state \in Blocking \ {"SCOPE_VIOLATION"},
         t.agent \in AllowedAgents(t.state), t.resume # None,
         t.resume.phase \in AllowedResumePhases(t.state),
         t.current # None \/ t.clean => t.state = "BLOCKED_USAGE_LIMIT"
  PROVE  Wellformed(t)
<1>1. t.state \notin WorkLoop \cup PreWork \cup Terminal
  BY DEF WorkLoop, Phase, PhaseState, Blocking, PreWork, Terminal
<1>2. Contract(t)
  BY <1>1 DEF Contract, Terminal
<1> QED BY <1>1, <1>2 DEF Wellformed, Checkpointed, MayHoldCheckpoint

LEMMA ViolationIsWellformed ==
  ASSUME NEW s, Wellformed(s), s.state \in {"IMPLEMENTING", "REMEDIATING"},
         NEW writer \in {"claude", None}
  PROVE  LET t == Violation(s, writer) IN
         /\ Wellformed(t) /\ t.state = "SCOPE_VIOLATION" /\ t.resume = None
         /\ t.current = None /\ t.clean = FALSE
<1> DEFINE b == [s EXCEPT !.state = "SCOPE_VIOLATION", !.agent = writer,
                          !.resume = None, !.reset = "none"]
           t == Withdrawn(s.state, b)
<1>1. s \in Record /\ WithinBudget(s)
  BY DEF Wellformed, Contract
<1>2. /\ b \in Record /\ b.state = "SCOPE_VIOLATION" /\ b.round = s.round
      /\ b.granted = s.granted /\ b.agent = writer /\ b.resume = None
      /\ b.reset = "none" /\ b.found = s.found
  BY <1>1 DEF Record, State, Blocking, Reset
<1> HIDE DEF b
<1>3. /\ t \in Record /\ t.state = "SCOPE_VIOLATION" /\ t.round = s.round
      /\ t.granted = s.granted /\ t.agent = writer /\ t.resume = None
      /\ t.reset = "none" /\ t.found = s.found /\ t.current = None /\ t.clean = FALSE
  <2>1. s.state \in AgentPhase
    BY DEF AgentPhase
  <2> QED BY <1>2, <2>1, CheckpointIsGivenUp
<1> HIDE DEF t
<1>4. WithinBudget(t)
  BY <1>1, <1>3 DEF WithinBudget, Budget
<1>5. Contract(t)
  BY <1>3, <1>4 DEF Contract, Blocking, WorkLoop, Phase, PhaseState, AllowedAgents
<1>6. Checkpointed(t)
  BY <1>3 DEF Checkpointed, PreWork
<1> QED BY <1>3, <1>5, <1>6 DEF Wellformed, Violation, t, b

LEMMA IndeterminateIsWellformed ==
  ASSUME NEW s, Wellformed(s), s.state \in {"IMPLEMENTING", "REMEDIATING"}
  PROVE  LET t == Indeterminate(s) IN
         /\ Wellformed(t) /\ t.state = "HUMAN_DECISION_REQUIRED"
         /\ t.resume # None /\ t.resume.phase = WriterPhase(s)
         /\ t.current = None /\ t.clean = FALSE
<1> DEFINE p == Parked(s, WriterPhase(s), CurrentRound(s))
           t == Withdrawn(s.state, p)
<1>1. /\ s \in Record /\ WithinBudget(s) /\ WriterPhase(s) \in Phase
      /\ s.state \in WorkLoop /\ s.state \notin PreWork
  BY DEF Wellformed, Contract, WriterPhase, Phase, WorkLoop, PhaseState, PreWork
<1>2. CurrentRound(s) \in 1 .. Budget(s)
  BY <1>1, BudgetIsARound
<1>3. /\ Wellformed(p) /\ p.state = "HUMAN_DECISION_REQUIRED"
      /\ p.resume = [phase |-> WriterPhase(s), round |-> CurrentRound(s)]
  BY <1>1, <1>2, ParkedIsWellformed
<1> HIDE DEF p
<1>4. p \in Record /\ WithinBudget(p) /\ p.resume # None /\ p.agent \in AllowedAgents(p.state)
  BY <1>3 DEF Wellformed, Contract, Blocking
<1>5. /\ t \in Record /\ t.state = p.state /\ t.round = p.round
      /\ t.granted = p.granted /\ t.agent = p.agent /\ t.resume = p.resume
      /\ t.current = None /\ t.clean = FALSE /\ t.found = p.found
  <2>1. s.state \in AgentPhase
    BY DEF AgentPhase
  <2> QED BY <1>4, <2>1, CheckpointIsGivenUp
<1> HIDE DEF t
<1>6. WithinBudget(t)
  BY <1>4, <1>5 DEF WithinBudget, Budget
<1>7. Wellformed(t)
  BY <1>1, <1>3, <1>4, <1>5, <1>6, BlockedIsWellformed, ResumablePhases DEF Blocking
<1> QED BY <1>3, <1>4, <1>5, <1>7 DEF Indeterminate, t, p

LEMMA AttentionIsWellformed ==
  ASSUME NEW s, Wellformed(s), s.state \in AgentPhase, NEW agent \in {"claude", "codex"},
         NEW point, point \in [phase : Phase, round : Round], point.round <= Budget(s)
  PROVE  LET t == NeedsAttention(s, point, agent) IN
         /\ Wellformed(t) /\ t.state = "HUMAN_DECISION_REQUIRED"
         /\ t.resume # None /\ t.resume = point
         /\ t.current = None /\ t.clean = FALSE
<1> DEFINE b == [s EXCEPT !.state = "HUMAN_DECISION_REQUIRED", !.agent = agent,
                          !.reset = "none", !.resume = point]
           t == Withdrawn(s.state, b)
<1>1. s \in Record /\ WithinBudget(s)
  BY DEF Wellformed, Contract
<1>2. point # None
  BY NoneAssumption
<1>4. /\ b \in Record /\ b.state = "HUMAN_DECISION_REQUIRED" /\ b.round = s.round
      /\ b.granted = s.granted /\ b.agent = agent /\ b.resume = point
      /\ b.reset = "none" /\ b.found = s.found
  BY <1>1 DEF Record, State, Blocking, Reset
<1> HIDE DEF b
<1>5. /\ t \in Record /\ t.state = "HUMAN_DECISION_REQUIRED" /\ t.round = s.round
      /\ t.granted = s.granted /\ t.agent = agent /\ t.resume = point
      /\ t.reset = "none" /\ t.found = s.found /\ t.current = None /\ t.clean = FALSE
  BY <1>4, CheckpointIsGivenUp
<1> HIDE DEF t
<1>6. WithinBudget(t)
  BY <1>1, <1>5 DEF WithinBudget, Budget
<1>7. Wellformed(t)
  BY <1>2, <1>5, <1>6, BlockedIsWellformed, ResumablePhases DEF Blocking, AllowedAgents
<1> QED BY <1>2, <1>5, <1>7 DEF NeedsAttention, t, b

LEMMA InterruptionIsWellformed ==
  ASSUME NEW s, Wellformed(s), s.state \in AgentPhase, NEW agent \in {"claude", "codex"},
         NEW point, point \in [phase : Phase, round : Round], point.round <= Budget(s),
         point.phase # "VERIFY", NEW reset \in Reset,
         NEW checkpoint \in Commit \cup {None}
  PROVE  LET t == Interruption(s, point, agent, reset, checkpoint) IN
         /\ Wellformed(t) /\ t.state = "BLOCKED_USAGE_LIMIT"
         /\ t.resume # None /\ t.resume = point
         /\ t.current = checkpoint /\ t.clean = (checkpoint # None)
<1> DEFINE b == [s EXCEPT !.state = "BLOCKED_USAGE_LIMIT", !.agent = agent, !.reset = reset,
                          !.resume = point]
           t == Interruption(s, point, agent, reset, checkpoint)
<1>1. s \in Record /\ WithinBudget(s)
  BY DEF Wellformed, Contract
<1>2. point # None /\ point.phase \in {"IMPLEMENT", "REVIEW", "REMEDIATE"}
  BY NoneAssumption DEF Phase
<1>4. /\ b \in Record /\ b.state = "BLOCKED_USAGE_LIMIT" /\ b.round = s.round
      /\ b.granted = s.granted /\ b.agent = agent /\ b.resume = point
      /\ b.reset = reset /\ b.found = s.found
  BY <1>1 DEF Record, State, Blocking
<1>5. t = IF checkpoint = None THEN Withdrawn(s.state, b)
          ELSE [b EXCEPT !.current = checkpoint, !.clean = TRUE]
  BY DEF Interruption
<1> HIDE DEF b, t
<1>6. /\ t \in Record /\ t.state = "BLOCKED_USAGE_LIMIT" /\ t.round = s.round
      /\ t.granted = s.granted /\ t.agent = agent /\ t.resume = point
      /\ t.found = s.found /\ t.current = checkpoint /\ t.clean = (checkpoint # None)
  <2>1. CASE checkpoint = None
    BY <1>4, <1>5, <2>1, CheckpointIsGivenUp
  <2>2. CASE checkpoint # None
    BY <1>4, <1>5, <2>2 DEF Record
  <2> QED BY <2>1, <2>2
<1>7. WithinBudget(t)
  BY <1>1, <1>6 DEF WithinBudget, Budget
<1>8. Wellformed(t)
  BY <1>2, <1>6, <1>7, BlockedIsWellformed, ResumablePhases DEF Blocking, AllowedAgents
<1> QED BY <1>2, <1>6, <1>8 DEF t

LEMMA VerifyBlockedIsWellformed ==
  ASSUME NEW s, Wellformed(s), s.state = "VERIFYING"
  PROVE  LET t == VerifyBlocked(s) IN
         /\ Wellformed(t) /\ t.state = "BLOCKED_VERIFY"
         /\ t.resume # None /\ t.resume.phase = "REMEDIATE"
         /\ t.current = None /\ t.clean = FALSE
<1> DEFINE t == VerifyBlocked(s)
           point == [phase |-> "REMEDIATE", round |-> CurrentRound(s)]
<1>1. s.state \in WorkLoop
  BY DEF WorkLoop, Phase, PhaseState
<1>2. s \in Record /\ WithinBudget(s) /\ s.current = None /\ s.clean = FALSE
  BY <1>1, WorkIsBare
<1>3. CurrentRound(s) \in Round /\ CurrentRound(s) <= Budget(s)
  <2>1. CurrentRound(s) \in Round /\ CurrentRound(s) \in 1 .. Budget(s)
    BY <1>2, BudgetIsARound
  <2> QED BY <2>1 DEF Round
<1>4. /\ point \in [phase : Phase, round : Round] /\ point # None
      /\ point.phase = "REMEDIATE" /\ point.round = CurrentRound(s)
  BY <1>3, NoneAssumption DEF Phase
<1>5. t = [s EXCEPT !.state = "BLOCKED_VERIFY", !.agent = None, !.reset = "none",
                    !.resume = point]
  BY DEF VerifyBlocked
<1> HIDE DEF t, point
<1>6. /\ t \in Record /\ t.state = "BLOCKED_VERIFY" /\ t.round = s.round
      /\ t.granted = s.granted /\ t.agent = None /\ t.resume = point
      /\ t.found = s.found /\ t.current = None /\ t.clean = FALSE
  BY <1>2, <1>4, <1>5 DEF Record, State, Blocking, Reset
<1>7. WithinBudget(t)
  BY <1>2, <1>3, <1>4, <1>6 DEF WithinBudget, Budget
<1>8. Wellformed(t)
  BY <1>4, <1>6, <1>7, BlockedIsWellformed, ResumablePhases DEF Blocking, AllowedAgents
<1> QED BY <1>4, <1>6, <1>8 DEF t

\* The states a parked task may be resumed from, and what it was parked for.
LEMMA ResumedIsWellformed ==
  ASSUME NEW s, Wellformed(s), s.resume # None, NEW extend \in BOOLEAN,
         s.state \in Blocking \ {"SCOPE_VIOLATION"},
         extend => Budget(s) < MaxReviewBudget
  PROVE  LET t == Resumed(s, extend) IN
         /\ Wellformed(t) /\ t.state = PhaseState[s.resume.phase]
         /\ t.state \in Table[s.state] /\ t.state \in WorkLoop /\ t.resume = None
         /\ t.current = None /\ t.clean = FALSE /\ s.resume.phase \in Phase
<1> DEFINE target == PhaseState[s.resume.phase]
           b == Spent([s EXCEPT !.state = target, !.agent = None,
                                !.granted = @ + (IF extend THEN 1 ELSE 0)])
           t == Withdrawn(target, b)
<1>1. s \in Record /\ WithinBudget(s) /\ s.resume.phase \in AllowedResumePhases(s.state)
  BY DEF Wellformed, Contract
<1>2. s.resume.phase \in Phase /\ target \in Table[s.state]
  BY <1>1 DEF AllowedResumePhases
<1>3. target \in WorkLoop /\ target \in State /\ target \notin Blocking
  BY <1>2, PhaseStates DEF WorkLoop, State, LoopDriven, Phase, Blocking
<1>4. target \notin AgentPhase => s.current = None /\ s.clean = FALSE
  <2> SUFFICES ASSUME target \notin AgentPhase PROVE ~MayHoldCheckpoint(s)
    BY <1>1 DEF Wellformed, Checkpointed, Record
  <2>1. s.resume.phase = "VERIFY"
    BY <1>2, PhaseStates DEF AgentPhase, Phase
  <2>2. s.state = "HUMAN_DECISION_REQUIRED"
    BY <1>1, <2>1, ResumablePhases DEF Blocking
  <2> QED BY <2>1, <2>2 DEF MayHoldCheckpoint, PreWork, Terminal
<1> HIDE DEF target
<1>5. s.granted + (IF extend THEN 1 ELSE 0) \in 0 .. MaxReviewBudget
  BY <1>1, LoopAssumption DEF Record, Budget
<1>6. /\ b \in Record /\ b.state = target /\ b.round = s.round
      /\ b.granted = s.granted + (IF extend THEN 1 ELSE 0)
      /\ b.agent = None /\ b.resume = None /\ b.reset = "none" /\ b.found = s.found
      /\ b.current = s.current /\ b.clean = s.clean
  BY <1>1, <1>3, <1>5 DEF Record, Spent, Reset
<1> HIDE DEF b
<1>7. /\ t \in Record /\ t.state = target /\ t.round = s.round
      /\ t.granted = s.granted + (IF extend THEN 1 ELSE 0)
      /\ t.agent = None /\ t.resume = None /\ t.reset = "none" /\ t.found = s.found
      /\ t.current = None /\ t.clean = FALSE
  <2>1. CASE target \in AgentPhase
    BY <1>6, <2>1, CheckpointIsGivenUp
  <2>2. CASE target \notin AgentPhase
    BY <1>4, <1>6, <2>2 DEF Withdrawn
  <2> QED BY <2>1, <2>2
<1> HIDE DEF t
<1>8. WithinBudget(t)
  BY <1>1, <1>7, LoopAssumption DEF WithinBudget, Budget, Record, Round
<1>9. Wellformed(t)
  BY <1>3, <1>7, <1>8, WorkIsWellformed
<1> QED BY <1>2, <1>3, <1>7, <1>9 DEF Resumed, t, b, target

LEMMA ReviewedIsWellformed ==
  ASSUME NEW s, Wellformed(s), s.state = "REVIEWING", s.round + 1 <= Budget(s)
  PROVE  LET r == Reviewed(s)
             f == [r EXCEPT !.found = @ \cup {s.round + 1}]
         IN  /\ s.round + 1 \in Round /\ s.round + 1 \in 1 .. Budget(s)
             /\ Wellformed(r) /\ r.state = "REVIEWING" /\ r.round = s.round + 1
             /\ Budget(r) = Budget(s) /\ r.current = None /\ r.clean = FALSE
             /\ Wellformed(f) /\ f.state = "REVIEWING" /\ f.round = s.round + 1
             /\ Budget(f) = Budget(s) /\ f.current = None /\ f.clean = FALSE
<1> DEFINE r == Reviewed(s)
           f == [r EXCEPT !.found = @ \cup {s.round + 1}]
<1>1. s.state \in WorkLoop
  BY DEF WorkLoop, Phase, PhaseState
<1>2. /\ s \in Record /\ WithinBudget(s)
      /\ s.agent = None /\ s.resume = None /\ s.reset = "none"
      /\ s.current = None /\ s.clean = FALSE
  BY <1>1, WorkIsBare
<1>3. s.round + 1 \in Round /\ s.round + 1 \in 1 .. Budget(s)
  <2>1. Budget(s) \in Round
    BY <1>2, BudgetIsARound
  <2> QED BY <1>2, <2>1, LoopAssumption DEF Round, Record
<1>4. /\ r \in Record /\ r.state = "REVIEWING" /\ r.round = s.round + 1
      /\ r.granted = s.granted /\ r.agent = None /\ r.resume = None /\ r.reset = "none"
      /\ r.current = None /\ r.clean = FALSE /\ r.found = s.found
  BY <1>2, <1>3 DEF Reviewed, Record, Round
<1> HIDE DEF r
<1>5. /\ f \in Record /\ f.state = "REVIEWING" /\ f.round = s.round + 1
      /\ f.granted = s.granted /\ f.agent = None /\ f.resume = None /\ f.reset = "none"
      /\ f.current = None /\ f.clean = FALSE /\ f.found = s.found \cup {s.round + 1}
  BY <1>3, <1>4 DEF Record
<1> HIDE DEF f
<1>6. Wellformed(r)
  <2>1. WithinBudget(r)
    BY <1>2, <1>4 DEF WithinBudget, Budget
  <2> QED BY <1>1, <1>4, <2>1, WorkIsWellformed
<1>7. Wellformed(f)
  <2>1. WithinBudget(f)
    BY <1>2, <1>5 DEF WithinBudget, Budget
  <2> QED BY <1>1, <1>5, <2>1, WorkIsWellformed
<1>8. Budget(r) = Budget(s) /\ Budget(f) = Budget(s)
  BY <1>4, <1>5 DEF Budget
<1> QED BY <1>3, <1>4, <1>5, <1>6, <1>7, <1>8 DEF r, f

LEMMA ReadyIsWellformed ==
  ASSUME NEW s, Wellformed(s), s.state = "REVIEWING", s.round + 1 <= Budget(s),
         NEW head \in Commit
  PROVE  LET t == Spent([Reviewed(s) EXCEPT !.state = "READY_FOR_PR", !.agent = None,
                                            !.current = head, !.clean = TRUE])
         IN  /\ Wellformed(t) /\ t.state = "READY_FOR_PR" /\ t.resume = None
             /\ t.current = head
<1> DEFINE r == Reviewed(s)
           t == Spent([r EXCEPT !.state = "READY_FOR_PR", !.agent = None,
                                !.current = head, !.clean = TRUE])
<1>1. Wellformed(r) /\ r.round = s.round + 1 /\ s.round + 1 \in Round
  BY ReviewedIsWellformed
<1> HIDE DEF r
<1>2. r \in Record /\ WithinBudget(r)
  BY <1>1 DEF Wellformed, Contract
<1>3. /\ t \in Record /\ t.state = "READY_FOR_PR" /\ t.round = r.round
      /\ t.granted = r.granted /\ t.agent = None /\ t.resume = None /\ t.reset = "none"
      /\ t.current = head /\ t.clean = TRUE /\ t.found = r.found
  BY <1>2 DEF Spent, Record, State, Terminal, Reset
<1> HIDE DEF t
<1>4. t.current # None /\ t.round >= 1
  BY <1>1, <1>3, LoopAssumption DEF Commit, Round
<1>5. Contract(t)
  <2>1. WithinBudget(t)
    BY <1>2, <1>3 DEF WithinBudget, Budget
  <2> QED BY <1>3, <1>4, <2>1 DEF Contract, WorkLoop, Phase, PhaseState, Blocking
<1>6. Checkpointed(t)
  BY <1>3 DEF Checkpointed, MayHoldCheckpoint, Terminal, PreWork
<1> QED BY <1>3, <1>5, <1>6 DEF Wellformed, t, r

LEMMA EnteredIsWellformed ==
  ASSUME NEW s, Wellformed(s), s.state = "WORKTREE_READY"
  PROVE  LET t == [s EXCEPT !.state = "CONTEXT_LOADING"] IN
         /\ Wellformed(t) /\ t.state = "CONTEXT_LOADING" /\ t.resume = None
         /\ t.current = s.current /\ t.clean = s.clean
<1> DEFINE t == [s EXCEPT !.state = "CONTEXT_LOADING"]
<1>1. /\ s \in Record /\ WithinBudget(s) /\ s.agent = None /\ s.current # None
      /\ s.resume = None
  BY DEF Wellformed, Contract, Checkpointed, PreWork, Blocking
<1>2. /\ t \in Record /\ t.state = "CONTEXT_LOADING" /\ t.round = s.round
      /\ t.granted = s.granted /\ t.agent = None /\ t.resume = None
      /\ t.current = s.current /\ t.clean = s.clean /\ t.found = s.found
  BY <1>1 DEF Record, State, LoopDriven, PreWork
<1> HIDE DEF t
<1>3. Contract(t)
  <2>1. WithinBudget(t)
    BY <1>1, <1>2 DEF WithinBudget, Budget
  <2> QED BY <1>2, <2>1 DEF Contract, WorkLoop, Phase, PhaseState, Blocking
<1>4. Checkpointed(t)
  BY <1>1, <1>2 DEF Checkpointed, MayHoldCheckpoint, PreWork
<1> QED BY <1>2, <1>3, <1>4 DEF Wellformed, t

LEMMA ResolvedIsWellformed ==
  ASSUME NEW s, Wellformed(s)
  PROVE  LET t == Spent([s EXCEPT !.state = "OPERATOR_RESOLVED", !.agent = None]) IN
         /\ Wellformed(t) /\ t.state = "OPERATOR_RESOLVED" /\ t.resume = None
         /\ t.current = s.current /\ t.clean = s.clean
<1> DEFINE t == Spent([s EXCEPT !.state = "OPERATOR_RESOLVED", !.agent = None])
<1>1. s \in Record /\ WithinBudget(s)
  BY DEF Wellformed, Contract
<1>2. /\ t \in Record /\ t.state = "OPERATOR_RESOLVED" /\ t.round = s.round
      /\ t.granted = s.granted /\ t.agent = None /\ t.resume = None /\ t.reset = "none"
      /\ t.current = s.current /\ t.clean = s.clean /\ t.found = s.found
  BY <1>1 DEF Spent, Record, State, Terminal, Reset
<1> HIDE DEF t
<1>3. Contract(t)
  <2>1. WithinBudget(t)
    BY <1>1, <1>2 DEF WithinBudget, Budget
  <2> QED BY <1>2, <2>1 DEF Contract, WorkLoop, Phase, PhaseState, Blocking
<1>4. Checkpointed(t)
  BY <1>2 DEF Checkpointed, MayHoldCheckpoint, Terminal, PreWork
<1> QED BY <1>2, <1>3, <1>4 DEF Wellformed, t

LEMMA ResetPassesWellformed ==
  ASSUME NEW s, Wellformed(s), s.reset = "ahead"
  PROVE  LET t == [s EXCEPT !.reset = "past"] IN
         /\ Wellformed(t) /\ t.state = s.state /\ t.resume = s.resume
         /\ t.current = s.current /\ t.clean = s.clean
<1> DEFINE t == [s EXCEPT !.reset = "past"]
<1>1. s \in Record
  BY DEF Wellformed
<1>2. /\ t \in Record /\ t.state = s.state /\ t.round = s.round /\ t.reset = "past"
      /\ t.granted = s.granted /\ t.agent = s.agent /\ t.resume = s.resume
      /\ t.current = s.current /\ t.clean = s.clean /\ t.found = s.found
  BY <1>1 DEF Record, Reset
<1> HIDE DEF t
<1>3. Contract(t)
  <2>1. WithinBudget(t)
    BY <1>2 DEF Wellformed, Contract, WithinBudget, Budget
  <2> QED BY <1>2, <2>1 DEF Wellformed, Contract
<1>4. Checkpointed(t)
  BY <1>2 DEF Wellformed, Checkpointed, MayHoldCheckpoint
<1> QED BY <1>2, <1>3, <1>4 DEF Wellformed, t

-----------------------------------------------------------------------------
(* What keeps a record and the worktree in agreement                          *)

LEMMA AgreementGrows ==
  ASSUME NEW s, Agrees(s), tree' = tree, touched' = touched,
         verified \subseteq verified', accepted \subseteq accepted'
  PROVE  Agrees(s)'
BY DEF Agrees, PastGate, Confirmed, At

\* Once somebody else has written, only the scope of the branch still counts.
LEMMA TouchedAgreement ==
  ASSUME NEW s, Agrees(s), tree'.beyond = tree.beyond, touched' = TRUE
  PROVE  Agrees(s)'
BY DEF Agrees, PastGate, At

\* A record before the gate that holds no checkpoint agrees with any worktree.
Unbound(s) == s.current = None /\ s.clean = FALSE /\ ~PastGate(s)

LEMMA UnboundAgrees ==
  ASSUME NEW s, Unbound(s) PROVE Agrees(s) /\ Agrees(s)'
BY DEF Unbound, Agrees, PastGate, Confirmed, At

LEMMA WriterIsUnbound ==
  ASSUME NEW s, Wellformed(s), s.state \in {"IMPLEMENTING", "REMEDIATING"}
  PROVE  Unbound(s)
<1>1. s.state \in WorkLoop
  BY DEF WorkLoop, Phase, PhaseState
<1> QED BY <1>1, WorkIsBare, PhaseStates DEF Unbound, PastGate, At

LEMMA UnverifiedIsUnbound ==
  ASSUME NEW s, Wellformed(s), s.state = "BLOCKED_VERIFY"
  PROVE  Unbound(s)
<1>1. s.resume.phase = "REMEDIATE"
  BY ResumablePhases DEF Wellformed, Contract, Blocking
<1>2. s.current = None /\ s.clean = FALSE
  BY DEF Wellformed, Checkpointed, MayHoldCheckpoint, PreWork, Terminal, Record
<1> QED BY <1>1, <1>2, PhaseStates DEF Unbound, PastGate, At

-----------------------------------------------------------------------------
(* How an action of the driver keeps the invariant                            *)

LEMMA StateSets ==
  /\ WorkLoop = {"IMPLEMENTING", "VERIFYING", "REVIEWING", "REMEDIATING"}
  /\ LoopDriven = PreWork \cup WorkLoop
  /\ State = LoopDriven \cup Blocking \cup Terminal
BY DEF WorkLoop, Phase, PhaseState, LoopDriven, State

\* The first proposal of an iteration, made from the record as it was read.
LEMMA FirstProposal ==
  ASSUME LoopInv, Reached, NEW t, Propose(t), mem' = rec,
         Wellformed(t), Agrees(t), t.state \in Table[rec.state],
         rec.state = "REVIEWING" => t.state # "REMEDIATING",
         UNCHANGED <<durable, ghosts, brief, cut>>,
         call' \in Calls, call'.left = call.left,
         before' = before, cause' \in {"plan", "payload", "findings", "attempt", "none"}
  PROVE  LoopInv'
<1>1. t \in Record
  BY DEF Wellformed
<1>2. TypeOK'
  BY <1>1 DEF LoopInv, TypeOK, Propose, durable, ghosts
<1>3. Sound(rec)' /\ Sound(next)'
  BY AgreementGrows DEF LoopInv, Sound, Propose, durable, ghosts
<1>4. InHand'
  BY <1>3 DEF InHand, LoopInv, Sound, Propose, Reached, Loaded, Idle, Writing, durable
<1>5. Findings'
  BY DEF LoopInv, Findings, Reached, Iterates, Propose, Idle, TypeOK, Calls, durable
<1> QED BY <1>2, <1>3, <1>4, <1>5 DEF LoopInv

\* The work of an iteration begins.
LEMMA WorkBegins ==
  ASSUME LoopInv, Reached, mem' = rec,
         \/ pc' = "writing" /\ rec.state \in {"IMPLEMENTING", "REMEDIATING"}
         \/ pc' = "verify" /\ rec.state = "VERIFYING"
         \/ pc' = "adopt" /\ rec.state = "BLOCKED_VERIFY"
         \/ /\ pc' = "review" /\ rec.state = "REVIEWING" /\ rec.round + 1 <= Budget(rec)
            /\ before' = [head |-> tree.head, clean |-> tree.dirt = "clean"],
         UNCHANGED <<durable, ghosts, brief, cut, next>>,
         call' \in Calls, call'.left = call.left,
         before' \in [head : Commit \cup {None}, clean : BOOLEAN],
         cause' \in {"plan", "payload", "findings", "attempt", "none"}
  PROVE  LoopInv'
<1>1. TypeOK'
  BY DEF LoopInv, TypeOK, durable, ghosts
<1>2. Sound(rec)'
  BY AgreementGrows DEF LoopInv, Sound, durable, ghosts
<1>3. ~touched /\ rec.state = "REVIEWING" => tree.dirt = "clean"
  BY PhaseStates DEF LoopInv, Sound, Agrees, Confirmed, At
<1>4. tree.head \in Commit
  BY DEF LoopInv, TypeOK
<1>5. InHand'
  BY <1>3, <1>4 DEF InHand, LoopInv, Sound, Reached, Loaded, Idle, Writing, durable, ghosts
<1>6. Findings'
  BY DEF LoopInv, Findings, Reached, Iterates, Idle, TypeOK, Calls, durable
<1> QED BY <1>1, <1>2, <1>5, <1>6 DEF LoopInv

\* A later proposal: the outcome of the work, which may have moved the worktree.
LEMMA LaterProposal ==
  ASSUME LoopInv, pc \notin Idle, NEW t, Propose(t),
         UNCHANGED <<rec, mem, call, brief, before, cause, touched>>,
         tree' \in [head : Commit, dirt : {"clean", "within", "beyond"}, beyond : BOOLEAN],
         attempts' \in [count : 0..AttemptsKept, subject : Commit \cup {None}, failed : BOOLEAN],
         cut' \in {"no"} \cup Reset, verified' \in SUBSET Commit, accepted' \in SUBSET Commit,
         Wellformed(t), Agrees(t)', Agrees(rec)', t.state \in Table[mem.state],
         mem.state = "REVIEWING" /\ t.state = "REMEDIATING" => t.round \in Round
  PROVE  LoopInv'
<1>1. t \in Record
  BY DEF Wellformed
<1>2. TypeOK'
  BY <1>1 DEF LoopInv, TypeOK, Propose
<1>3. Sound(rec)' /\ Sound(next)'
  BY DEF LoopInv, Sound, Propose
<1>4. InHand'
  BY <1>3 DEF InHand, LoopInv, Propose, Loaded, Idle, Writing
<1>5. Findings'
  BY DEF LoopInv, Findings, Propose, Idle
<1> QED BY <1>2, <1>3, <1>4, <1>5 DEF LoopInv

\* The driver forgets: the call ends, or its process dies.
LEMMA ForgettingKeeps ==
  ASSUME LoopInv, Forget, NEW s, rec' = s, Wellformed(s), Agrees(s)',
         tree' \in [head : Commit, dirt : {"clean", "within", "beyond"}, beyond : BOOLEAN],
         UNCHANGED <<attempts, ghosts>>
  PROVE  LoopInv'
<1>1. FirstState \in Record /\ NoCall \in Calls
  BY LoopAssumption DEF FirstState, NoCall, Record, Calls, Round, Commit, State, LoopDriven, PreWork, Reset
<1>2. s \in Record
  BY DEF Wellformed
<1>3. TypeOK'
  BY <1>1, <1>2 DEF LoopInv, TypeOK, Forget, ghosts
<1>4. Sound(rec)'
  BY DEF Sound
<1>5. InHand' /\ Findings'
  BY DEF Forget, InHand, Findings, Idle, Writing
<1> QED BY <1>3, <1>4, <1>5 DEF LoopInv

-----------------------------------------------------------------------------
(* The actions                                                                *)

LEMMA Rows ==
  /\ \A b \in PreWork \cup WorkLoop : "HUMAN_DECISION_REQUIRED" \in Table[b]
  /\ \A b \in AgentPhase : "BLOCKED_USAGE_LIMIT" \in Table[b]
  /\ \A b \in {"IMPLEMENTING", "REMEDIATING"} :
       {"VERIFYING", "SCOPE_VIOLATION"} \subseteq Table[b]
  /\ "CONTEXT_LOADING" \in Table["WORKTREE_READY"]
  /\ "IMPLEMENTING" \in Table["CONTEXT_LOADING"]
  /\ {"REVIEWING", "BLOCKED_VERIFY"} \subseteq Table["VERIFYING"]
  /\ {"READY_FOR_PR", "REMEDIATING"} \subseteq Table["REVIEWING"]
  /\ "VERIFYING" \in Table["BLOCKED_VERIFY"]
BY DEF Table, Escalation, Interrupted, PreWork, WorkLoop, Phase, PhaseState, AgentPhase

LEMMA InitHolds == Init => LoopInv
<1> SUFFICES ASSUME Init PROVE LoopInv
  OBVIOUS
<1>1. /\ rec \in Record /\ rec.state = "WORKTREE_READY" /\ rec.round = 0 /\ rec.granted = 0
      /\ rec.agent = None /\ rec.resume = None /\ rec.reset = "none" /\ rec.current = 0
      /\ rec.clean = TRUE /\ rec.found = {}
  BY LoopAssumption DEF Init, FirstState, Record, Round, Commit, State, LoopDriven, PreWork, Reset
<1>2. NoCall \in Calls
  BY LoopAssumption DEF NoCall, Calls
<1>3. TypeOK
  <2>1. mem = rec /\ next = rec
    BY DEF Init
  <2>2. attempts \in [count : 0..AttemptsKept, subject : Commit \cup {None}, failed : BOOLEAN]
    BY LoopAssumption DEF Init
  <2>3. tree \in [head : Commit, dirt : {"clean", "within", "beyond"}, beyond : BOOLEAN]
    BY LoopAssumption DEF Init, Commit
  <2> QED BY <1>1, <1>2, <2>1, <2>2, <2>3 DEF Init, TypeOK
<1>4. Contract(rec)
  <2>1. WithinBudget(rec)
    BY <1>1, LoopAssumption DEF WithinBudget, Budget
  <2> QED BY <1>1, <2>1 DEF Contract, WorkLoop, Phase, PhaseState, Blocking
<1>5. Checkpointed(rec)
  BY <1>1, LoopAssumption DEF Checkpointed, MayHoldCheckpoint, PreWork
<1>6. Agrees(rec)
  BY <1>1, PhaseStates DEF Agrees, PastGate, Confirmed, At, Init, Phase
<1>7. InHand /\ Findings
  BY DEF Init, InHand, Findings, Idle, Writing
<1> QED BY <1>1, <1>3, <1>4, <1>5, <1>6, <1>7 DEF LoopInv, Sound, Wellformed

LEMMA InvokeKeeps == ASSUME LoopInv, Invoke PROVE LoopInv'
<1>1. call' \in Calls
  BY LoopAssumption DEF Invoke, Calls
<1>2. TypeOK'
  BY <1>1 DEF LoopInv, TypeOK, Invoke, durable, ghosts
<1>3. Sound(rec)'
  BY AgreementGrows DEF LoopInv, Sound, Invoke, durable, ghosts
<1>4. InHand' /\ Findings'
  BY DEF LoopInv, InHand, Findings, Invoke, Idle, Writing
<1> QED BY <1>2, <1>3, <1>4 DEF LoopInv

\* Stop, and Halt at any point.
LEMMA LeavingKeeps ==
  ASSUME LoopInv, Forget, UNCHANGED <<durable, ghosts>> PROVE LoopInv'
<1>1. Wellformed(rec) /\ Agrees(rec)'
  BY AgreementGrows DEF LoopInv, Sound, durable, ghosts
<1> QED BY <1>1, ForgettingKeeps DEF LoopInv, TypeOK, durable

LEMMA ResumeKeeps == ASSUME LoopInv, Resume PROVE LoopInv'
<1> DEFINE extend == ByDecision /\ Exhausted(rec)
           t == Resumed(rec, extend)
<1>1. /\ Wellformed(rec) /\ rec.resume # None
      /\ rec.state \in Blocking \ {"SCOPE_VIOLATION"}
  BY DEF LoopInv, Sound, Resume, Departs, ByClock, ByRemediation, ByDecision, ByQuota, Blocking
<1>2. extend => Budget(rec) < MaxReviewBudget
  <2>1. Budget(rec) \in Round
    BY <1>1, BudgetIsARound DEF Wellformed, Contract
  <2> QED BY <2>1, LoopAssumption DEF Resume, CeilingReached, Round
<1>3. extend \in BOOLEAN
  OBVIOUS
<1>4. Propose(t) /\ Reached /\ mem' = rec
  BY DEF Resume
<1> HIDE DEF extend
<1>5. /\ Wellformed(t) /\ t.state = PhaseState[rec.resume.phase] /\ t.state \in Table[rec.state]
      /\ t.resume = None /\ t.current = None /\ t.clean = FALSE /\ t.state \in WorkLoop
      /\ rec.resume.phase \in Phase
  BY <1>1, <1>2, <1>3, ResumedIsWellformed
<1>6. Agrees(t)
  <2>1. \A phase \in Phase : At(t, phase) => At(rec, phase)
    BY <1>1, <1>5, PhaseStates DEF At, Phase
  <2>2. t.state # "READY_FOR_PR"
    BY <1>5, StateSets
  <2> QED BY <1>5, <2>1, <2>2 DEF LoopInv, Sound, Agrees, PastGate, Confirmed, Phase
<1>7. call' \in Calls /\ call'.left = call.left
  BY DEF Resume, LoopInv, TypeOK, Calls, Flags
<1>8. rec.state # "REVIEWING"
  BY <1>1 DEF Blocking
<1> HIDE DEF t
<1> QED BY <1>4, <1>5, <1>6, <1>7, <1>8, FirstProposal DEF Resume, Keeping, LoopInv, TypeOK

LEMMA AdoptKeeps == ASSUME LoopInv, Adopt PROVE LoopInv'
<1>1. call' \in Calls /\ call'.left = call.left
  BY DEF Adopt, LoopInv, TypeOK, Calls, Flags
<1> QED BY <1>1, WorkBegins DEF Adopt, ByRepair, Keeping, LoopInv, TypeOK

\* What a commit may come to: only one that is clean and within scope is COMMITTED.
LEMMA CommitsMove ==
  ASSUME TypeOK, NEW out \in CommitOutcomes,
         IF out[2] THEN CommitAll ELSE UNCHANGED tree
  PROVE  /\ tree' \in [head : Commit, dirt : {"clean", "within", "beyond"}, beyond : BOOLEAN]
         /\ out[1] = "COMMITTED" => tree'.dirt = "clean" /\ ~tree'.beyond
<1>1. NewCommit \in Commit
  BY LoopAssumption DEF TypeOK, NewCommit, After, Commit
<1>2. \/ out = <<"NOTHING_TO_COMMIT", FALSE>>
      \/ out = <<"GIT_UNAVAILABLE", FALSE>>
      \/ out = <<"GIT_UNAVAILABLE", TRUE>>
      \/ out = <<"COMMITTED_BEYOND_APPROVED_SCOPE", TRUE>>
      \/ out = <<"COMMITTED", TRUE>> /\ ~tree.beyond /\ tree.dirt # "beyond"
  BY DEF CommitOutcomes
<1>7. \/ out[1] # "COMMITTED" /\ (out[2] = FALSE \/ out[2] = TRUE)
      \/ out[2] = TRUE /\ ~tree.beyond /\ tree.dirt # "beyond"
  <2>1. CASE out = <<"NOTHING_TO_COMMIT", FALSE>>
    BY <2>1
  <2>2. CASE out = <<"GIT_UNAVAILABLE", FALSE>>
    BY <2>2
  <2>3. CASE out = <<"GIT_UNAVAILABLE", TRUE>>
    BY <2>3
  <2>4. CASE out = <<"COMMITTED_BEYOND_APPROVED_SCOPE", TRUE>>
    BY <2>4
  <2>5. CASE out = <<"COMMITTED", TRUE>> /\ ~tree.beyond /\ tree.dirt # "beyond"
    <3>1. out[2] = TRUE
      BY <2>5
    <3> QED BY <2>5, <3>1
  <2> QED BY <1>2, <2>1, <2>2, <2>3, <2>4, <2>5
<1>3. CASE CommitAll
  <2> DEFINE b == tree.beyond \/ tree.dirt = "beyond"
  <2>1. b \in BOOLEAN /\ tree' = [head |-> NewCommit, dirt |-> "clean", beyond |-> b]
    BY <1>3 DEF CommitAll
  <2>2. out[1] = "COMMITTED" => ~b
    BY <1>7
  <2> HIDE DEF b
  <2> QED BY <1>1, <2>1, <2>2
<1>4. CASE UNCHANGED tree /\ out[1] # "COMMITTED"
  BY <1>4 DEF TypeOK
<1>5. (out[2] = TRUE /\ CommitAll) \/ (out[2] = FALSE /\ UNCHANGED tree)
  BY <1>7
<1>6. out[2] = FALSE => out[1] # "COMMITTED"
  BY <1>7
<1> QED BY <1>3, <1>4, <1>5, <1>6

LEMMA AdoptCommitKeeps == ASSUME LoopInv, AdoptCommit PROVE LoopInv'
<1>1. PICK out \in CommitOutcomes :
        /\ IF out[2] THEN CommitAll ELSE UNCHANGED tree
        /\ IF out[1] = "COMMITTED"
           THEN /\ Propose(Spent([mem EXCEPT !.state = "VERIFYING", !.agent = None,
                                             !.current = None, !.clean = FALSE]))
                /\ UNCHANGED <<mem, call, brief, cut, before, cause>>
           ELSE Forget
  BY DEF AdoptCommit
<1>2. TypeOK /\ Wellformed(mem) /\ Wellformed(rec) /\ Loaded
      /\ mem.state = "BLOCKED_VERIFY" /\ pc \notin Idle
  BY DEF LoopInv, InHand, AdoptCommit, Sound, Idle
<1>3. /\ tree' \in [head : Commit, dirt : {"clean", "within", "beyond"}, beyond : BOOLEAN]
      /\ out[1] = "COMMITTED" => tree'.dirt = "clean" /\ ~tree'.beyond
  BY <1>1, <1>2, CommitsMove
<1>4. Agrees(rec)'
  BY <1>2, UnverifiedIsUnbound, UnboundAgrees DEF Loaded, AdoptCommit
<1>5. CASE out[1] = "COMMITTED"
  <2>1. PICK t : t = Spent([mem EXCEPT !.state = "VERIFYING", !.agent = None,
                                      !.current = None, !.clean = FALSE])
    OBVIOUS
  <2>2. /\ Wellformed(t) /\ t.state = "VERIFYING" /\ t.resume = None
        /\ t.current = None /\ t.clean = FALSE
    BY <1>2, <2>1, AdoptedIsWellformed
  <2>3. Propose(t) /\ UNCHANGED <<mem, call, brief, cut, before, cause>>
    BY <1>1, <1>5, <2>1
  <2>4. Agrees(t)'
    BY <1>3, <1>5, <2>2, PhaseStates DEF Agrees, PastGate, Confirmed, At
  <2> QED BY <1>2, <1>3, <1>4, <2>2, <2>3, <2>4, Rows, LaterProposal
          DEF AdoptCommit, ghosts, TypeOK
<1>6. CASE out[1] # "COMMITTED"
  BY <1>1, <1>2, <1>3, <1>4, <1>6, ForgettingKeeps DEF AdoptCommit
<1> QED BY <1>5, <1>6

LEMMA EnterContextKeeps == ASSUME LoopInv, EnterContext PROVE LoopInv'
<1> DEFINE t == [rec EXCEPT !.state = "CONTEXT_LOADING"]
<1>1. Wellformed(rec) /\ Agrees(rec) /\ rec.state = "WORKTREE_READY"
  BY DEF LoopInv, Sound, EnterContext
<1>2. /\ Wellformed(t) /\ t.state = "CONTEXT_LOADING" /\ t.resume = None
      /\ t.current = rec.current /\ t.clean = rec.clean
  BY <1>1, EnteredIsWellformed
<1>3. Propose(t) /\ t.state \in Table[rec.state]
  BY <1>1, <1>2, Rows DEF EnterContext
<1> HIDE DEF t
<1>4. Agrees(t)
  BY <1>1, <1>2, PhaseStates DEF Agrees, PastGate, Confirmed, At
<1> QED BY <1>1, <1>2, <1>3, <1>4, FirstProposal
        DEF EnterContext, Keeping, LoopInv, TypeOK

LEMMA LoadContextKeeps == ASSUME LoopInv, LoadContext PROVE LoopInv'
<1>1. Wellformed(rec) /\ Agrees(rec) /\ rec.state = "CONTEXT_LOADING" /\ rec.state \in PreWork
  BY DEF LoopInv, Sound, LoadContext, PreWork
<1>2. CASE Propose(Withdrawn("IMPLEMENTING", Spent([rec EXCEPT !.state = "IMPLEMENTING"])))
  <2> DEFINE t == Withdrawn("IMPLEMENTING", Spent([rec EXCEPT !.state = "IMPLEMENTING"]))
  <2>1. Wellformed(t) /\ t.state = "IMPLEMENTING"
    BY <1>1, AdvancedIsWellformed, StateSets
  <2>2. Propose(t)
    BY <1>2
  <2> HIDE DEF t
  <2>3. Agrees(t)
    BY <2>1, WriterIsUnbound, UnboundAgrees
  <2> QED BY <1>1, <2>1, <2>2, <2>3, Rows, FirstProposal
          DEF LoadContext, Keeping, LoopInv, TypeOK
<1>3. CASE Propose(Parked(rec, "IMPLEMENT", CurrentRound(rec)))
  <2> DEFINE t == Parked(rec, "IMPLEMENT", CurrentRound(rec))
  <2>1. CurrentRound(rec) \in 1 .. Budget(rec)
    BY <1>1, BudgetIsARound DEF Wellformed, Contract
  <2>2. /\ Wellformed(t) /\ t.state = "HUMAN_DECISION_REQUIRED"
        /\ t.resume = [phase |-> "IMPLEMENT", round |-> CurrentRound(rec)]
        /\ t.current = rec.current /\ t.clean = rec.clean
    BY <1>1, <2>1, ParkedIsWellformed DEF Phase
  <2>3. Propose(t)
    BY <1>3
  <2> HIDE DEF t
  <2>4. Agrees(t)
    BY <1>1, <2>2, PhaseStates DEF Agrees, PastGate, Confirmed, At
  <2> QED BY <1>1, <2>2, <2>3, <2>4, Rows, FirstProposal
          DEF LoadContext, Keeping, LoopInv, TypeOK
<1> QED BY <1>2, <1>3 DEF LoadContext

-----------------------------------------------------------------------------
(* The writer                                                                 *)

\* A record parked, or blocked, for a writer's phase.
LEMMA ParkedForAWriter ==
  ASSUME NEW t, t.state \in Blocking, t.current = None, t.clean = FALSE,
         t.resume = None \/ t.resume.phase \in {"IMPLEMENT", "REMEDIATE"}
  PROVE  Unbound(t)
BY PhaseStates DEF Unbound, PastGate, At, Blocking

LEMMA ParkedWriterIsUnbound ==
  ASSUME NEW s, Wellformed(s), s.state \in {"IMPLEMENTING", "REMEDIATING"}
  PROVE  LET t == Parked(s, WriterPhase(s), CurrentRound(s)) IN
         Wellformed(t) /\ t.state = "HUMAN_DECISION_REQUIRED" /\ Unbound(t)
<1> DEFINE t == Parked(s, WriterPhase(s), CurrentRound(s))
<1>1. /\ s \in Record /\ WithinBudget(s) /\ s.state \in WorkLoop /\ s.state \notin PreWork
      /\ WriterPhase(s) \in {"IMPLEMENT", "REMEDIATE"}
  BY StateSets DEF Wellformed, Contract, WriterPhase, PreWork
<1>2. CurrentRound(s) \in 1 .. Budget(s)
  BY <1>1, BudgetIsARound
<1>3. /\ Wellformed(t) /\ t.state = "HUMAN_DECISION_REQUIRED"
      /\ t.resume = [phase |-> WriterPhase(s), round |-> CurrentRound(s)]
      /\ t.current = s.current /\ t.clean = s.clean
  BY <1>1, <1>2, ParkedIsWellformed DEF Phase
<1> HIDE DEF t
<1>4. t.current = None /\ t.clean = FALSE
  BY <1>1, <1>3, WorkIsBare
<1>5. t.resume.phase = WriterPhase(s) /\ t.state \in Blocking
  BY <1>3 DEF Blocking
<1>6. Unbound(t)
  BY <1>1, <1>4, <1>5, ParkedForAWriter
<1> QED BY <1>3, <1>6 DEF t

LEMMA BeginWriterKeeps == ASSUME LoopInv, BeginWriter PROVE LoopInv'
<1>1. Wellformed(rec) /\ rec.state \in {"IMPLEMENTING", "REMEDIATING"} /\ TypeOK
  BY DEF LoopInv, Sound, BeginWriter
<1>2. cause' \in {"plan", "payload", "findings", "attempt", "none"}
  BY DEF BeginWriter, CauseOf, DurableCause
<1>3. ASSUME NEW t, Propose(t), Wellformed(t), Unbound(t), t.state \in Table[rec.state]
      PROVE  LoopInv'
  <2>1. Agrees(t)
    BY <1>3, UnboundAgrees
  <2> QED BY <1>1, <1>2, <1>3, <2>1, FirstProposal DEF BeginWriter, Keeping, TypeOK
<1>4. CASE Propose(Parked(rec, WriterPhase(rec), CurrentRound(rec)))
  BY <1>1, <1>3, <1>4, ParkedWriterIsUnbound, Rows, StateSets
<1>5. CASE Propose(Violation(rec, None))
  <2> DEFINE t == Violation(rec, None)
  <2>1. /\ Wellformed(t) /\ t.state = "SCOPE_VIOLATION" /\ t.resume = None
        /\ t.current = None /\ t.clean = FALSE
    BY <1>1, ViolationIsWellformed
  <2>2. Propose(t)
    BY <1>5
  <2> HIDE DEF t
  <2>3. Unbound(t)
    <3>1. t.state \in Blocking
      BY <2>1 DEF Blocking
    <3> QED BY <2>1, <3>1, ParkedForAWriter
  <2> QED BY <1>1, <1>3, <2>1, <2>2, <2>3, Rows
<1>6. CASE Propose(Indeterminate(rec))
  <2> DEFINE t == Indeterminate(rec)
  <2>1. /\ Wellformed(t) /\ t.state = "HUMAN_DECISION_REQUIRED"
        /\ t.resume.phase = WriterPhase(rec) /\ t.current = None /\ t.clean = FALSE
    BY <1>1, IndeterminateIsWellformed
  <2>2. Propose(t)
    BY <1>6
  <2> HIDE DEF t
  <2>3. Unbound(t)
    <3>1. t.resume.phase \in {"IMPLEMENT", "REMEDIATE"} /\ t.state \in Blocking
      BY <2>1 DEF WriterPhase, Blocking
    <3> QED BY <2>1, <3>1, ParkedForAWriter
  <2>4. t.state \in Table[rec.state]
    BY <1>1, <2>1, Rows, StateSets
  <2> QED BY <1>3, <2>1, <2>2, <2>3, <2>4
<1>7. CASE pc' = "writing" /\ UNCHANGED next
  BY <1>1, <1>2, <1>7, WorkBegins DEF BeginWriter, Keeping, TypeOK
<1> QED BY <1>4, <1>5, <1>6, <1>7 DEF BeginWriter

\* Everything known of the driver while a writer or its gate and commit run.
LEMMA WriterAtWork ==
  ASSUME LoopInv, pc \in Writing
  PROVE  /\ TypeOK /\ Wellformed(mem) /\ Wellformed(rec) /\ Loaded /\ pc \notin Idle
         /\ mem.state \in {"IMPLEMENTING", "REMEDIATING"} /\ Unbound(rec)
         /\ mem.state \in AgentPhase
         /\ WriterPoint(mem) \in [phase : Phase, round : Round]
         /\ WriterPoint(mem).phase \in {"IMPLEMENT", "REMEDIATE"}
         /\ WriterPoint(mem).phase = WriterPhase(mem)
         /\ WriterPoint(mem).round <= Budget(mem)
<1>1. /\ TypeOK /\ Wellformed(mem) /\ Wellformed(rec) /\ Loaded /\ pc \notin Idle
      /\ mem.state \in {"IMPLEMENTING", "REMEDIATING"}
  BY DEF LoopInv, InHand, Sound, Writing, Idle
<1>2. Unbound(rec)
  BY <1>1, WriterIsUnbound DEF Loaded
<1>3. CurrentRound(mem) \in Round /\ CurrentRound(mem) \in 1 .. Budget(mem)
  BY <1>1, BudgetIsARound DEF Wellformed, Contract
<1>4. WriterPhase(mem) \in {"IMPLEMENT", "REMEDIATE"}
  BY DEF WriterPhase
<1>5. /\ WriterPoint(mem) \in [phase : Phase, round : Round]
      /\ WriterPoint(mem).phase = WriterPhase(mem)
      /\ WriterPoint(mem).round <= Budget(mem)
  BY <1>3, <1>4 DEF WriterPoint, Phase, Round
<1> QED BY <1>1, <1>2, <1>4, <1>5 DEF AgentPhase

LEMMA WriterWritesKeeps == ASSUME LoopInv, WriterWrites PROVE LoopInv'
<1>1. TypeOK /\ Unbound(rec)
  BY WriterAtWork DEF WriterWrites, Writing
<1>2. TypeOK'
  BY <1>1 DEF TypeOK, WriterWrites, driver, ghosts
<1>3. Sound(rec)'
  BY <1>1, UnboundAgrees DEF LoopInv, Sound, WriterWrites
<1>4. InHand' /\ Findings'
  BY DEF LoopInv, InHand, Findings, Loaded, WriterWrites, driver, Idle, Writing
<1> QED BY <1>2, <1>3, <1>4 DEF LoopInv

\* A proposal of a writer's phase that stays before the gate.
LEMMA WriterProposal ==
  ASSUME LoopInv, pc \in Writing, NEW t, Propose(t), Wellformed(t), Agrees(t)',
         t.state \in Table[mem.state],
         UNCHANGED <<rec, attempts, mem, call, brief, before, cause, ghosts>>,
         tree' \in [head : Commit, dirt : {"clean", "within", "beyond"}, beyond : BOOLEAN],
         cut' \in {"no"} \cup Reset
  PROVE  LoopInv'
<1>1. TypeOK /\ pc \notin Idle /\ Agrees(rec)' /\ mem.state # "REVIEWING"
  BY WriterAtWork, UnboundAgrees
<1> QED BY <1>1, LaterProposal DEF TypeOK, ghosts

LEMMA WriterEndsKeeps == ASSUME LoopInv, WriterEnds PROVE LoopInv'
<1>1. pc \in Writing
  BY DEF WriterEnds, Writing
<1>2. CASE pc' = "measure" /\ cut' \in {"no"} \cup Reset /\ UNCHANGED next
  <2>1. TypeOK'
    BY <1>2 DEF LoopInv, TypeOK, WriterEnds, Keeping, durable, ghosts
  <2>2. Sound(rec)'
    BY AgreementGrows DEF LoopInv, Sound, WriterEnds, Keeping, durable, ghosts
  <2>3. InHand' /\ Findings'
    BY <1>2 DEF LoopInv, InHand, Findings, Loaded, WriterEnds, Keeping, durable, Idle, Writing
  <2> QED BY <2>1, <2>2, <2>3 DEF LoopInv
<1>3. CASE Propose(NeedsAttention(mem, WriterPoint(mem), "claude")) /\ UNCHANGED cut
  <2>1. PICK t : t = NeedsAttention(mem, WriterPoint(mem), "claude")
    OBVIOUS
  <2>2. /\ Wellformed(t) /\ t.state = "HUMAN_DECISION_REQUIRED"
        /\ t.resume.phase = WriterPhase(mem) /\ t.current = None /\ t.clean = FALSE
    <3>1. /\ WriterPoint(mem) \in [phase : Phase, round : Round]
          /\ WriterPoint(mem).round <= Budget(mem)
          /\ WriterPoint(mem).phase = WriterPhase(mem)
      BY <1>1, WriterAtWork
    <3>2. Wellformed(mem) /\ mem.state \in AgentPhase
      BY <1>1, WriterAtWork
    <3>3. t.resume = WriterPoint(mem)
      BY <2>1, <3>1, <3>2, AttentionIsWellformed, ZenonT(60)
    <3>4. t.resume.phase = WriterPhase(mem)
      BY <3>1, <3>3
    <3>5. Wellformed(t) /\ t.current = None /\ t.clean = FALSE
      BY <2>1, <3>1, <3>2, AttentionIsWellformed
    <3>6. t.state = "HUMAN_DECISION_REQUIRED"
      BY <2>1, <3>1, <3>2, AttentionIsWellformed, ZenonT(60)
    <3> QED BY <3>4, <3>5, <3>6
  <2>3. Agrees(t)'
    <3>1. t.resume.phase \in {"IMPLEMENT", "REMEDIATE"} /\ t.state \in Blocking
      BY <1>1, <2>2, WriterAtWork DEF Blocking
    <3>2. Unbound(t)
      BY <2>2, <3>1, ParkedForAWriter
    <3> QED BY <3>2, UnboundAgrees
  <2> QED BY <1>1, <1>3, <2>1, <2>2, <2>3, WriterAtWork, WriterProposal, Rows, StateSets
          DEF WriterEnds, Keeping, durable, TypeOK
<1> QED BY <1>2, <1>3 DEF WriterEnds

\* A usage limit that cut a writer off, with or without a checkpoint of its work.
LEMMA PauseIsWellformed ==
  ASSUME LoopInv, pc \in Writing, cut # "no", NEW checkpoint \in Commit \cup {None}, NEW t,
         t = Interruption(mem, WriterPoint(mem), "claude", cut, checkpoint)
  PROVE  /\ Wellformed(t) /\ t.state = "BLOCKED_USAGE_LIMIT"
         /\ t.resume.phase \in {"IMPLEMENT", "REMEDIATE"}
         /\ t.current = checkpoint /\ t.clean = (checkpoint # None)
<1>1. /\ WriterPoint(mem) \in [phase : Phase, round : Round]
      /\ WriterPoint(mem).round <= Budget(mem)
      /\ WriterPoint(mem).phase \in {"IMPLEMENT", "REMEDIATE"}
  BY WriterAtWork
<1>2. Wellformed(mem) /\ mem.state \in AgentPhase /\ cut \in Reset
  BY WriterAtWork DEF LoopInv, TypeOK
<1>3. t.resume = WriterPoint(mem)
  BY <1>1, <1>2, InterruptionIsWellformed
<1>4. Wellformed(t) /\ t.current = checkpoint /\ t.clean = (checkpoint # None)
  BY <1>1, <1>2, InterruptionIsWellformed
<1>5. t.state = "BLOCKED_USAGE_LIMIT"
  BY <1>1, <1>2, InterruptionIsWellformed
<1> QED BY <1>1, <1>3, <1>4, <1>5

LEMMA IndeterminateWriterIsUnbound ==
  ASSUME NEW s, Wellformed(s), s.state \in {"IMPLEMENTING", "REMEDIATING"}
  PROVE  LET t == Indeterminate(s) IN
         Wellformed(t) /\ t.state = "HUMAN_DECISION_REQUIRED" /\ Unbound(t)
<1> DEFINE t == Indeterminate(s)
<1>1. /\ Wellformed(t) /\ t.state = "HUMAN_DECISION_REQUIRED"
      /\ t.resume.phase = WriterPhase(s) /\ t.current = None /\ t.clean = FALSE
  BY IndeterminateIsWellformed
<1> HIDE DEF t
<1>2. t.resume.phase \in {"IMPLEMENT", "REMEDIATE"} /\ t.state \in Blocking
  BY <1>1 DEF WriterPhase, Blocking
<1>3. Unbound(t)
  BY <1>1, <1>2, ParkedForAWriter
<1> QED BY <1>1, <1>3 DEF t

LEMMA MeasureKeeps == ASSUME LoopInv, Measure PROVE LoopInv'
<1>1. pc \in Writing
  BY DEF Measure, Writing
<1>2. ASSUME NEW t, Propose(t), Wellformed(t), Unbound(t), t.state \in Table[mem.state]
      PROVE  LoopInv'
  BY <1>1, <1>2, UnboundAgrees, WriterProposal, WriterAtWork DEF Measure, Keeping, durable, TypeOK
<1>3. CASE Propose(Violation(mem, "claude"))
  <2>1. PICK t : t = Violation(mem, "claude")
    OBVIOUS
  <2>2. /\ Wellformed(t) /\ t.state = "SCOPE_VIOLATION" /\ t.resume = None
        /\ t.current = None /\ t.clean = FALSE
    BY <1>1, <2>1, WriterAtWork, ViolationIsWellformed
  <2>3. Unbound(t)
    <3>1. t.state \in Blocking
      BY <2>2 DEF Blocking
    <3> QED BY <2>2, <3>1, ParkedForAWriter
  <2> QED BY <1>1, <1>2, <1>3, <2>1, <2>2, <2>3, WriterAtWork, Rows
<1>4. CASE Propose(Indeterminate(mem))
  <2>1. PICK t : t = Indeterminate(mem)
    OBVIOUS
  <2>2. Wellformed(t) /\ t.state = "HUMAN_DECISION_REQUIRED" /\ Unbound(t)
    BY <1>1, <2>1, WriterAtWork, IndeterminateWriterIsUnbound
  <2> QED BY <1>1, <1>2, <1>4, <2>1, <2>2, WriterAtWork, Rows, StateSets
<1>5. CASE cut # "no" /\ Propose(Interruption(mem, WriterPoint(mem), "claude", cut, None))
  <2>1. PICK t : t = Interruption(mem, WriterPoint(mem), "claude", cut, None)
    OBVIOUS
  <2>2. /\ Wellformed(t) /\ t.state = "BLOCKED_USAGE_LIMIT"
        /\ t.resume.phase \in {"IMPLEMENT", "REMEDIATE"}
        /\ t.current = None /\ t.clean = FALSE
    BY <1>1, <1>5, <2>1, PauseIsWellformed
  <2>3. Unbound(t)
    <3>1. t.state \in Blocking
      BY <2>2 DEF Blocking
    <3> QED BY <2>2, <3>1, ParkedForAWriter
  <2> QED BY <1>1, <1>2, <1>5, <2>1, <2>2, <2>3, WriterAtWork, Rows
<1>6. CASE ~OutOfScope /\ pc' = "commit" /\ UNCHANGED next
  <2>1. TypeOK'
    BY <1>6 DEF LoopInv, TypeOK, Measure, Keeping, durable, ghosts
  <2>2. Sound(rec)'
    BY AgreementGrows DEF LoopInv, Sound, Measure, Keeping, durable, ghosts
  <2>3. InHand' /\ Findings'
    BY <1>6 DEF LoopInv, InHand, Findings, Loaded, Measure, Keeping, durable, Idle, Writing
  <2> QED BY <2>1, <2>2, <2>3 DEF LoopInv
<1> QED BY <1>3, <1>4, <1>5, <1>6 DEF Measure

LEMMA CommitPassKeeps == ASSUME LoopInv, CommitPass PROVE LoopInv'
<1>1. PICK out \in CommitOutcomes :
        /\ IF out[2] THEN CommitAll ELSE UNCHANGED tree
        /\ Propose(IF cut = "no" THEN PassRecorded(out[1]) ELSE PauseSettled(out[1], tree'))
  BY DEF CommitPass
<1>2. pc \in Writing
  BY DEF CommitPass, Writing
<1>3. /\ tree' \in [head : Commit, dirt : {"clean", "within", "beyond"}, beyond : BOOLEAN]
      /\ out[1] = "COMMITTED" => tree'.dirt = "clean" /\ ~tree'.beyond
  BY <1>1, <1>2, CommitsMove, WriterAtWork
<1>4. ASSUME NEW t, Propose(t), Wellformed(t), Agrees(t)', t.state \in Table[mem.state]
      PROVE  LoopInv'
  BY <1>2, <1>3, <1>4, WriterProposal, WriterAtWork DEF CommitPass, ghosts, TypeOK
<1>5. CASE cut = "no" /\ out[1] = "COMMITTED"
  <2>1. PICK t : t = Withdrawn("IMPLEMENTING", Spent([mem EXCEPT !.state = "VERIFYING"]))
    OBVIOUS
  <2>2. Propose(t)
    BY <1>1, <1>5, <2>1 DEF PassRecorded
  <2>3. /\ Wellformed(t) /\ t.state = "VERIFYING" /\ t.resume = None
        /\ t.current = None /\ t.clean = FALSE
    BY <1>2, <2>1, WriterAtWork, AdvancedIsWellformed, StateSets, ZenonT(60)
  <2>4. Agrees(t)'
    BY <1>3, <1>5, <2>3, PhaseStates DEF Agrees, PastGate, Confirmed, At
  <2> QED BY <1>2, <1>4, <2>2, <2>3, <2>4, WriterAtWork, Rows
<1>6. CASE cut = "no" /\ out[1] # "COMMITTED"
  <2>1. PICK t : t = Parked(mem, WriterPhase(mem), CurrentRound(mem))
    OBVIOUS
  <2>2. Propose(t)
    BY <1>1, <1>6, <2>1 DEF PassRecorded
  <2>3. Wellformed(t) /\ t.state = "HUMAN_DECISION_REQUIRED" /\ Unbound(t)
    BY <1>2, <2>1, WriterAtWork, ParkedWriterIsUnbound
  <2>4. Agrees(t)'
    BY <2>3, UnboundAgrees
  <2> QED BY <1>2, <1>4, <2>2, <2>3, <2>4, WriterAtWork, Rows, StateSets
<1>7. CASE cut # "no"
  <2>1. PICK checkpoint :
          checkpoint = IF out[1] \in {"COMMITTED", "NOTHING_TO_COMMIT"} /\ tree'.dirt = "clean"
                       THEN tree'.head ELSE None
    OBVIOUS
  <2>2. /\ checkpoint \in Commit \cup {None}
        /\ checkpoint # None => checkpoint = tree'.head /\ tree'.dirt = "clean"
    BY <1>3, <2>1
  <2>3. PICK t : t = Interruption(mem, WriterPoint(mem), "claude", cut, checkpoint)
    OBVIOUS
  <2>4. Propose(t)
    BY <1>1, <1>7, <2>1, <2>3 DEF PauseSettled
  <2>5. /\ Wellformed(t) /\ t.state = "BLOCKED_USAGE_LIMIT"
        /\ t.resume.phase \in {"IMPLEMENT", "REMEDIATE"}
        /\ t.current = checkpoint /\ t.clean = (checkpoint # None)
    BY <1>2, <1>7, <2>2, <2>3, PauseIsWellformed
  <2>6. Agrees(t)'
    BY <2>2, <2>5, PhaseStates DEF Agrees, PastGate, Confirmed, At
  <2> QED BY <1>2, <1>4, <2>4, <2>5, <2>6, WriterAtWork, Rows
<1> QED BY <1>5, <1>6, <1>7

-----------------------------------------------------------------------------
(* Verification and review                                                    *)

LEMMA BeginVerifyKeeps == ASSUME LoopInv, BeginVerify PROVE LoopInv'
BY WorkBegins DEF BeginVerify, Keeping, LoopInv, TypeOK

\* Everything known of the driver while the work is verified, or reviewed.
LEMMA CheckAtWork ==
  ASSUME LoopInv, pc \in {"verify", "review"}
  PROVE  /\ TypeOK /\ Wellformed(mem) /\ Wellformed(rec) /\ Agrees(rec) /\ pc \notin Idle
         /\ mem.state = IF pc = "verify" THEN "VERIFYING" ELSE "REVIEWING"
         /\ pc = "review" => before.head \in Commit
         /\ mem.state \in WorkLoop /\ mem.state \notin PreWork
         /\ mem.current = None /\ mem.clean = FALSE /\ mem.resume = None
         /\ ~tree.beyond
         /\ ~touched => tree.dirt = "clean"
         /\ ~touched /\ pc = "review" =>
              tree.head \in verified /\ before.clean /\ before.head = tree.head
<1>1. /\ TypeOK /\ Wellformed(mem) /\ Wellformed(rec) /\ Agrees(rec) /\ pc \notin Idle
      /\ rec.state = mem.state
      /\ mem.state = IF pc = "verify" THEN "VERIFYING" ELSE "REVIEWING"
      /\ pc = "review" => before.head \in Commit
      /\ ~touched /\ pc = "review" => before.clean /\ before.head = tree.head
  BY DEF LoopInv, InHand, Sound, Loaded, Idle
<1>2. mem.state \in WorkLoop /\ mem.state \notin PreWork
  BY <1>1, StateSets DEF PreWork
<1>3. mem.current = None /\ mem.clean = FALSE /\ mem.resume = None
  BY <1>1, <1>2, WorkIsBare
<1>4. /\ PastGate(rec)
      /\ At(rec, "VERIFY") \/ At(rec, "REVIEW")
      /\ pc = "review" => At(rec, "REVIEW")
  BY <1>1, PhaseStates DEF PastGate, At
<1>5. /\ ~tree.beyond
      /\ ~touched => tree.dirt = "clean"
      /\ ~touched /\ pc = "review" => tree.head \in verified
  BY <1>1, <1>4 DEF Agrees, Confirmed
<1> QED BY <1>1, <1>2, <1>3, <1>5

LEMMA VerifyPassesKeeps == ASSUME LoopInv, VerifyPasses PROVE LoopInv'
<1>1. pc = "verify"
  BY DEF VerifyPasses
<1>2. PICK t : t = Spent([mem EXCEPT !.state = "REVIEWING"])
  OBVIOUS
<1>3. Propose(t)
  BY <1>2 DEF VerifyPasses
<1>4. Wellformed(t) /\ t.state = "REVIEWING" /\ t.resume = None
  BY <1>1, <1>2, CheckAtWork, AdvancedIsWellformed, StateSets
<1>5. t.current = None /\ t.clean = FALSE
  BY <1>4, WorkIsBare, StateSets
<1>6. verified' \in SUBSET Commit /\ verified \subseteq verified'
      /\ (tree.dirt = "clean" => tree.head \in verified')
  BY DEF VerifyPasses, LoopInv, TypeOK
<1>7. UNCHANGED <<tree, touched, accepted>>
  BY DEF VerifyPasses, durable
<1>8. Agrees(t)'
  BY <1>1, <1>4, <1>5, <1>6, <1>7, CheckAtWork, PhaseStates DEF Agrees, PastGate, Confirmed, At
<1>9. Agrees(rec)'
  BY <1>1, <1>6, <1>7, CheckAtWork, AgreementGrows DEF VerifyPasses, durable
<1> QED BY <1>1, <1>3, <1>4, <1>6, <1>8, <1>9, CheckAtWork, Rows, LaterProposal
        DEF VerifyPasses, durable, TypeOK

LEMMA VerifyFailsKeeps == ASSUME LoopInv, VerifyFails PROVE LoopInv'
<1>1. pc = "verify" /\ TypeOK
  BY DEF VerifyFails, LoopInv
<1>2. attempts' \in [count : 0..AttemptsKept, subject : Commit \cup {None}, failed : BOOLEAN]
  BY <1>1, LoopAssumption DEF VerifyFails, TypeOK, Room
<1>3. ASSUME NEW t, Propose(t), Wellformed(t), Agrees(t)', t.state \in Table[mem.state]
      PROVE  LoopInv'
  <2>1. Agrees(rec)'
    BY <1>1, CheckAtWork, AgreementGrows DEF VerifyFails, ghosts
  <2>2. mem.state # "REVIEWING"
    BY <1>1, CheckAtWork
  <2> QED BY <1>1, <1>2, <1>3, <2>1, <2>2, CheckAtWork, LaterProposal
          DEF VerifyFails, ghosts, TypeOK
<1>4. CASE Propose(VerifyBlocked(mem))
  <2>1. PICK t : t = VerifyBlocked(mem)
    OBVIOUS
  <2>2. /\ Wellformed(t) /\ t.state = "BLOCKED_VERIFY"
    BY <1>1, <2>1, CheckAtWork, VerifyBlockedIsWellformed
  <2>3. Agrees(t)'
    BY <2>2, UnverifiedIsUnbound, UnboundAgrees
  <2> QED BY <1>1, <1>3, <1>4, <2>1, <2>2, <2>3, CheckAtWork, Rows
<1>5. CASE Propose(VerifyUnclear(mem))
  <2>1. PICK t : t = Parked(mem, "VERIFY", CurrentRound(mem))
    OBVIOUS
  <2>2. CurrentRound(mem) \in 1 .. Budget(mem)
    BY <1>1, CheckAtWork, BudgetIsARound DEF Wellformed, Contract
  <2>3. /\ Wellformed(t) /\ t.state = "HUMAN_DECISION_REQUIRED"
        /\ t.resume = [phase |-> "VERIFY", round |-> CurrentRound(mem)]
        /\ t.current = mem.current /\ t.clean = mem.clean
    BY <1>1, <2>1, <2>2, CheckAtWork, ParkedIsWellformed DEF Phase
  <2>4. UNCHANGED <<tree, ghosts>>
    BY DEF VerifyFails
  <2>5. Agrees(t)'
    BY <1>1, <2>3, <2>4, CheckAtWork, PhaseStates DEF Agrees, PastGate, Confirmed, At, ghosts
  <2> QED BY <1>1, <1>3, <1>5, <2>1, <2>3, <2>5, CheckAtWork, Rows, StateSets
          DEF VerifyUnclear
<1> QED BY <1>4, <1>5 DEF VerifyFails, VerifyOutcome

\* A record parked at the review of work that has been verified.
LEMMA AwaitingReviewAgrees ==
  ASSUME LoopInv, pc = "review" \/ (Reached /\ rec.state = "REVIEWING"), NEW t,
         t.state \in {"HUMAN_DECISION_REQUIRED", "BLOCKED_USAGE_LIMIT"},
         t.resume # None => t.resume.phase \in {"REVIEW", "REMEDIATE"},
         t.current # None => t.current = tree.head,
         t.clean => tree.dirt = "clean"
  PROVE  Agrees(t)
<1>1. rec.state = "REVIEWING" /\ Agrees(rec)
  BY DEF LoopInv, Sound, InHand, Loaded, Idle
<1>2. /\ ~tree.beyond
      /\ ~touched => tree.dirt = "clean" /\ tree.head \in verified
  BY <1>1, PhaseStates DEF Agrees, Confirmed, PastGate, At
<1> QED BY <1>2, PhaseStates DEF Agrees, PastGate, Confirmed, At

LEMMA BeginReviewKeeps == ASSUME LoopInv, BeginReview PROVE LoopInv'
<1>1. /\ Wellformed(rec) /\ rec.state = "REVIEWING" /\ TypeOK /\ Reached
      /\ rec.state \in WorkLoop /\ rec.state \notin PreWork /\ rec \in Record
      /\ WithinBudget(rec)
  BY StateSets DEF LoopInv, Sound, BeginReview, PreWork, Wellformed, Contract
<1>2. rec.current = None /\ rec.clean = FALSE
  BY <1>1, WorkIsBare
<1>3. /\ Budget(rec) \in Round /\ rec.round \in Nat
      /\ CurrentRound(rec) \in 1 .. Budget(rec)
  BY <1>1, BudgetIsARound DEF Record
<1>4. ASSUME NEW phase \in {"REVIEW", "REMEDIATE"}, NEW round \in 1 .. Budget(rec),
             Propose(Parked(rec, phase, round)), UNCHANGED before
      PROVE  LoopInv'
  <2>1. PICK t : t = Parked(rec, phase, round)
    OBVIOUS
  <2>2. /\ Wellformed(t) /\ t.state = "HUMAN_DECISION_REQUIRED"
        /\ t.resume = [phase |-> phase, round |-> round]
        /\ t.current = None /\ t.clean = FALSE
    BY <1>1, <1>2, <1>4, <2>1, ParkedIsWellformed DEF Phase
  <2>3. Agrees(t)
    BY <1>1, <2>2, AwaitingReviewAgrees
  <2>4. t.state \in Table[rec.state] /\ t.state # "REMEDIATING"
    BY <1>1, <2>2, Rows
  <2> QED BY <1>1, <1>4, <2>1, <2>2, <2>3, <2>4, FirstProposal
          DEF BeginReview, Keeping, TypeOK
<1>5. CASE Propose(Parked(rec, "REMEDIATE", CurrentRound(rec))) /\ UNCHANGED before
  BY <1>3, <1>4, <1>5
<1>6. CASE /\ rec.round + 1 <= Budget(rec)
           /\ Propose(Parked(rec, "REVIEW", rec.round + 1)) /\ UNCHANGED before
  <2>1. rec.round + 1 \in 1 .. Budget(rec)
    BY <1>3, <1>6, LoopAssumption DEF Round
  <2> QED BY <1>4, <1>6, <2>1
<1>7. CASE /\ rec.round + 1 <= Budget(rec) /\ pc' = "review" /\ UNCHANGED next
           /\ before' = [head |-> tree.head, clean |-> tree.dirt = "clean"]
  <2>1. before' \in [head : Commit \cup {None}, clean : BOOLEAN]
    BY <1>1, <1>7 DEF TypeOK
  <2> QED BY <1>1, <1>7, <2>1, WorkBegins DEF BeginReview, Keeping, TypeOK
<1>8. rec.round + 1 > Budget(rec) \/ rec.round + 1 <= Budget(rec)
  BY <1>3 DEF Round
<1> QED BY <1>3, <1>5, <1>6, <1>7, <1>8 DEF BeginReview

\* Everything known of the driver while the reviewer runs, beyond CheckAtWork.
LEMMA ReviewAtWork ==
  ASSUME LoopInv, pc = "review"
  PROVE  /\ TypeOK /\ Wellformed(mem) /\ mem.state = "REVIEWING" /\ pc \notin Idle
         /\ mem.state \in AgentPhase /\ mem.round + 1 <= Budget(mem)
         /\ mem.round + 1 \in 1 .. Budget(mem) /\ mem.round + 1 \in Round
         /\ ReviewPoint \in [phase : Phase, round : Round]
         /\ ReviewPoint.phase = "REVIEW" /\ ReviewPoint.round <= Budget(mem)
<1>1. /\ TypeOK /\ Wellformed(mem) /\ mem.state = "REVIEWING" /\ pc \notin Idle
      /\ mem.round + 1 <= Budget(mem)
  BY DEF LoopInv, InHand, Idle
<1>2. mem.round + 1 \in Round /\ mem.round + 1 \in 1 .. Budget(mem)
  BY <1>1, ReviewedIsWellformed
<1>3. /\ ReviewPoint \in [phase : Phase, round : Round]
      /\ ReviewPoint.phase = "REVIEW" /\ ReviewPoint.round <= Budget(mem)
  BY <1>1, <1>2 DEF ReviewPoint, Phase
<1> QED BY <1>1, <1>2, <1>3 DEF AgentPhase

\* The outcome of a review that leaves the worktree and the history alone.
LEMMA ReviewProposal ==
  ASSUME LoopInv, pc = "review", NEW t, Propose(t), Wellformed(t), Agrees(t)',
         t.state \in Table["REVIEWING"], t.state = "REMEDIATING" => t.round \in Round,
         UNCHANGED <<durable, mem, call, brief, cut, before, cause, verified, touched>>,
         accepted \subseteq accepted', accepted' \in SUBSET Commit
  PROVE  LoopInv'
<1>1. Agrees(rec)'
  BY CheckAtWork, AgreementGrows DEF durable
<1> QED BY <1>1, CheckAtWork, LaterProposal DEF TypeOK, durable

LEMMA ReviewInterruptedKeeps == ASSUME LoopInv, ReviewInterrupted PROVE LoopInv'
<1>1. pc = "review"
  BY DEF ReviewInterrupted
<1>2. ASSUME NEW t, Propose(t), Wellformed(t), Agrees(t), t.state \in Table["REVIEWING"],
             t.state # "REMEDIATING"
      PROVE  LoopInv'
  <2>1. Agrees(t)'
    BY <1>2, AgreementGrows DEF ReviewInterrupted, Keeping, durable, ghosts
  <2> QED BY <1>1, <1>2, <2>1, ReviewProposal, CheckAtWork
          DEF ReviewInterrupted, Keeping, durable, ghosts, TypeOK
<1>3. ASSUME NEW reset \in Reset,
             Propose(Interruption(mem, ReviewPoint, "codex", reset, ReviewCheckpoint))
      PROVE  LoopInv'
  <2>1. PICK checkpoint : checkpoint = ReviewCheckpoint
    OBVIOUS
  <2>2. /\ checkpoint \in Commit \cup {None}
        /\ checkpoint # None => checkpoint = tree.head /\ tree.dirt = "clean"
    BY <1>1, <2>1, ReviewAtWork DEF ReviewCheckpoint, TypeOK
  <2>3. PICK t : t = Interruption(mem, ReviewPoint, "codex", reset, checkpoint)
    OBVIOUS
  <2>4. Wellformed(t) /\ t.current = checkpoint /\ t.clean = (checkpoint # None)
    BY <1>1, <2>2, <2>3, ReviewAtWork, InterruptionIsWellformed
  <2>5. t.resume = ReviewPoint
    BY <1>1, <2>2, <2>3, ReviewAtWork, InterruptionIsWellformed
  <2>6. t.state = "BLOCKED_USAGE_LIMIT"
    BY <1>1, <2>2, <2>3, ReviewAtWork, InterruptionIsWellformed
  <2>7. t.resume.phase = "REVIEW"
    BY <1>1, <2>5, ReviewAtWork
  <2>8. Agrees(t)
    <3>1. t.current # None => t.current = tree.head
      BY <2>2, <2>4
    <3>2. t.clean => tree.dirt = "clean"
      BY <2>2, <2>4
    <3> QED BY <1>1, <2>6, <2>7, <3>1, <3>2, AwaitingReviewAgrees
  <2> QED BY <1>1, <1>2, <1>3, <2>1, <2>3, <2>4, <2>6, <2>8, ReviewAtWork, Rows
<1>4. CASE Propose(NeedsAttention(mem, ReviewPoint, "codex"))
  <2>1. PICK t : t = NeedsAttention(mem, ReviewPoint, "codex")
    OBVIOUS
  <2>2. Wellformed(t) /\ t.current = None /\ t.clean = FALSE
    BY <1>1, <2>1, ReviewAtWork, AttentionIsWellformed
  <2>3. t.resume = ReviewPoint
    BY <1>1, <2>1, ReviewAtWork, AttentionIsWellformed, ZenonT(60)
  <2>4. t.state = "HUMAN_DECISION_REQUIRED"
    BY <1>1, <2>1, ReviewAtWork, AttentionIsWellformed, ZenonT(60)
  <2>5. t.resume.phase = "REVIEW"
    BY <1>1, <2>3, ReviewAtWork
  <2>6. Agrees(t)
    BY <1>1, <2>2, <2>4, <2>5, AwaitingReviewAgrees
  <2>7. t.state \in Table["REVIEWING"]
    BY <2>4, Rows, StateSets
  <2> QED BY <1>2, <1>4, <2>1, <2>2, <2>4, <2>6, <2>7
<1> QED BY <1>3, <1>4 DEF ReviewInterrupted

LEMMA ReviewFindsKeeps == ASSUME LoopInv, ReviewFinds PROVE LoopInv'
<1>1. pc = "review"
  BY DEF ReviewFinds
<1>2. PICK round \in Round : round = mem.round + 1
  BY <1>1, ReviewAtWork
<1>3. PICK f : f = [Reviewed(mem) EXCEPT !.found = @ \cup {mem.round + 1}]
  OBVIOUS
<1>4. /\ Wellformed(f) /\ f.round = mem.round + 1 /\ Budget(f) = Budget(mem)
      /\ f.current = None /\ f.clean = FALSE
  BY <1>1, <1>3, ReviewAtWork, ReviewedIsWellformed
<1>5. f.state = "REVIEWING" /\ f.state \in WorkLoop /\ f.state \notin PreWork
  <2>1. f.state = "REVIEWING"
    BY <1>1, <1>3, ReviewAtWork, ReviewedIsWellformed
  <2> QED BY <2>1, StateSets DEF PreWork
<1>6. ASSUME NEW t, Propose(t), Wellformed(t), Unbound(t), t.state \in Table["REVIEWING"],
             t.state = "REMEDIATING" => t.round \in Round
      PROVE  LoopInv'
  <2>1. Agrees(t)'
    BY <1>6, UnboundAgrees
  <2> QED BY <1>1, <1>6, <2>1, ReviewProposal, CheckAtWork
          DEF ReviewFinds, Keeping, durable, ghosts, TypeOK
<1>7. CASE Propose(Parked(f, "REMEDIATE", round))
  <2>1. PICK t : t = Parked(f, "REMEDIATE", round)
    OBVIOUS
  <2>2. round \in 1 .. Budget(f)
    BY <1>1, <1>2, <1>4, ReviewAtWork
  <2>3. /\ Wellformed(t) /\ t.state = "HUMAN_DECISION_REQUIRED"
        /\ t.resume = [phase |-> "REMEDIATE", round |-> round]
        /\ t.current = None /\ t.clean = FALSE
    BY <1>4, <1>5, <2>1, <2>2, ParkedIsWellformed DEF Phase
  <2>4. Unbound(t)
    <3>1. t.state \in Blocking /\ t.resume.phase = "REMEDIATE"
      BY <2>3 DEF Blocking
    <3> QED BY <2>3, <3>1, ParkedForAWriter
  <2>5. t.state \in Table["REVIEWING"] /\ t.state # "REMEDIATING"
    BY <2>3, Rows, StateSets
  <2> QED BY <1>6, <1>7, <2>1, <2>3, <2>4, <2>5
<1>8. CASE Propose(Withdrawn("REMEDIATING", Spent([f EXCEPT !.state = "REMEDIATING"])))
  <2>1. PICK t : t = Withdrawn("IMPLEMENTING", Spent([f EXCEPT !.state = "REMEDIATING"]))
    OBVIOUS
  <2>2. Propose(t)
    BY <1>8, <2>1 DEF Withdrawn, AgentPhase
  <2>3. Wellformed(t) /\ t.round = mem.round + 1
    BY <1>4, <1>5, <2>1, AdvancedIsWellformed, StateSets
  <2>4. t.state = "REMEDIATING"
    BY <1>4, <1>5, <2>1, AdvancedIsWellformed, StateSets
  <2>5. Unbound(t)
    BY <2>3, <2>4, WriterIsUnbound
  <2> QED BY <1>1, <1>6, <2>2, <2>3, <2>4, <2>5, ReviewAtWork, Rows
<1> QED BY <1>2, <1>3, <1>7, <1>8 DEF ReviewFinds

LEMMA ReviewAcceptsKeeps == ASSUME LoopInv, ReviewAccepts PROVE LoopInv'
<1>1. pc = "review" /\ TypeOK
  BY DEF ReviewAccepts, LoopInv
<1>2. /\ accepted' \in SUBSET Commit /\ accepted \subseteq accepted'
      /\ ~touched => tree.head \in accepted'
  <2>1. accepted' = accepted \/ accepted' = accepted \cup {before.head}
    BY DEF ReviewAccepts
  <2>2. ~touched => before.clean /\ before.head = tree.head
    BY <1>1, CheckAtWork
  <2>3. ~touched => accepted' = accepted \cup {before.head}
    BY <2>2 DEF ReviewAccepts
  <2>4. before.head \in Commit
    BY <1>1, CheckAtWork
  <2> QED BY <1>1, <2>1, <2>2, <2>3, <2>4 DEF TypeOK
<1>3. UNCHANGED <<tree, touched, verified>>
  BY DEF ReviewAccepts, durable
<1>4. ASSUME NEW t, Propose(t), Wellformed(t), Agrees(t)', t.state \in Table["REVIEWING"],
             t.state # "REMEDIATING"
      PROVE  LoopInv'
  BY <1>1, <1>2, <1>4, ReviewProposal DEF ReviewAccepts
<1>5. CASE /\ tree.dirt = "clean"
           /\ Propose(Spent([Reviewed(mem) EXCEPT !.state = "READY_FOR_PR", !.agent = None,
                                                 !.current = tree.head, !.clean = TRUE]))
  <2>1. PICK t : t = Spent([Reviewed(mem) EXCEPT !.state = "READY_FOR_PR", !.agent = None,
                                                !.current = tree.head, !.clean = TRUE])
    OBVIOUS
  <2>2. /\ tree.head \in Commit /\ Wellformed(mem) /\ mem.state = "REVIEWING"
        /\ mem.round + 1 <= Budget(mem)
    BY <1>1, ReviewAtWork DEF TypeOK
  <2>3. Wellformed(t) /\ t.resume = None /\ t.current = tree.head
    BY ONLY <2>1, <2>2, ReadyIsWellformed, ZenonT(60)
  <2>4. t.state = "READY_FOR_PR"
    BY ONLY <2>1, <2>2, ReadyIsWellformed, ZenonT(60)
  <2>5. ~At(t, "VERIFY") /\ ~At(t, "REVIEW")
    BY <2>3, <2>4, PhaseStates DEF At
  <2>6. ~touched => tree.head \in verified /\ tree.head \in accepted'
    BY <1>1, <1>2, CheckAtWork
  <2>7. Agrees(t)'
    BY <1>1, <1>3, <1>5, <2>3, <2>4, <2>5, <2>6, CheckAtWork DEF Agrees, Confirmed, At
  <2>8. t.state \in Table["REVIEWING"] /\ t.state # "REMEDIATING"
    BY <2>4, Rows
  <2> QED BY <1>4, <1>5, <2>1, <2>3, <2>7, <2>8
<1>6. CASE Propose(Parked(Reviewed(mem), "REVIEW", mem.round + 1))
  <2>1. PICK r : r = Reviewed(mem)
    OBVIOUS
  <2>2. /\ Wellformed(r) /\ Budget(r) = Budget(mem) /\ r.current = None /\ r.clean = FALSE
    BY <1>1, <2>1, ReviewAtWork, ReviewedIsWellformed
  <2>3. r.state \in WorkLoop /\ r.state \notin PreWork
    <3>1. r.state = "REVIEWING"
      BY <1>1, <2>1, ReviewAtWork, ReviewedIsWellformed
    <3> QED BY <3>1, StateSets DEF PreWork
  <2>4. PICK round : round = mem.round + 1
    OBVIOUS
  <2>5. round \in 1 .. Budget(r)
    BY <1>1, <2>2, <2>4, ReviewAtWork
  <2>6. PICK t : t = Parked(r, "REVIEW", round)
    OBVIOUS
  <2>7. /\ Wellformed(t) /\ t.state = "HUMAN_DECISION_REQUIRED"
        /\ t.resume = [phase |-> "REVIEW", round |-> round]
        /\ t.current = None /\ t.clean = FALSE
    BY <2>2, <2>3, <2>5, <2>6, ParkedIsWellformed DEF Phase
  <2>8. Agrees(t)
    BY <1>1, <2>7, AwaitingReviewAgrees
  <2>9. Agrees(t)'
    BY <1>2, <1>3, <2>8, AgreementGrows
  <2>10. t.state \in Table["REVIEWING"] /\ t.state # "REMEDIATING"
    BY <2>7, Rows, StateSets
  <2> QED BY <1>4, <1>6, <2>1, <2>4, <2>6, <2>7, <2>9, <2>10
<1> QED BY <1>5, <1>6 DEF ReviewAccepts

-----------------------------------------------------------------------------
(* The save, and the world around the driver                                  *)

LEMMA SaveKeeps == ASSUME LoopInv, Save PROVE LoopInv'
<1>1. /\ pc = "save" /\ TypeOK /\ Wellformed(next) /\ Agrees(next) /\ Wellformed(rec)
      /\ Agrees(rec) /\ next.state \in Table[mem.state] /\ pc \notin Idle
      /\ mem.state = "REVIEWING" /\ next.state = "REMEDIATING" => next.round \in Round
  BY DEF Save, LoopInv, InHand, Sound, Idle
<1>2. rec' = next
  BY <1>1 DEF Save, Legal, Wellformed
<1>3. PICK t : t = next
  OBVIOUS
<1>4. rec' = t /\ Wellformed(t) /\ Agrees(t)'
  BY <1>1, <1>2, <1>3, AgreementGrows DEF Save, ghosts
<1>5. CASE EndsCall
  <2>1. Forget
    BY <1>5 DEF Save
  <2> QED BY <1>1, <1>4, <2>1, ForgettingKeeps DEF Save, TypeOK
<1>6. CASE ~EndsCall
  <2>1. /\ pc' = "top" /\ call' = AfterSave /\ brief' = BriefAfter
        /\ mem' = FirstState /\ next' = FirstState /\ cut' = "no"
        /\ before' = [head |-> None, clean |-> FALSE] /\ cause' = "none"
    BY <1>6 DEF Save
  <2>2. /\ brief # None => call.left >= 0 /\ mem.state = "REMEDIATING"
        /\ brief = None => call.left > 0
        /\ call.left \in -1 .. MaxSteps
    BY <1>1 DEF LoopInv, Findings, TypeOK, Calls
  <2>3. call'.left = call.left - 1 /\ call' \in Calls
    <3>1. call.left - 1 \in -1 .. MaxSteps
      BY <2>2, LoopAssumption
    <3>2. call \in Calls
      BY <1>1 DEF TypeOK
    <3> QED BY <2>1, <3>1, <3>2 DEF AfterSave, Calls
  <2>4. brief' \in Round \cup {None}
    BY <1>1, <2>1 DEF BriefAfter
  <2>5. FirstState \in Record
    BY <1>1, LoopAssumption DEF FirstState, Record, Round, Commit, State, LoopDriven, PreWork, Reset
  <2>6. TypeOK'
    BY <1>1, <1>4, <2>1, <2>3, <2>4, <2>5 DEF TypeOK, Save, ghosts, Wellformed
  <2>7. Sound(rec)'
    BY <1>4 DEF Sound
  <2>8. InHand'
    BY <2>1 DEF InHand, Idle, Writing
  <2>9. Findings'
    <3>1. brief' # None => mem.state = "REVIEWING" /\ next.state = "REMEDIATING"
      BY <2>1 DEF BriefAfter
    <3>2. brief' # None => call'.left >= 0 /\ rec'.state = "REMEDIATING"
      BY <1>2, <2>2, <2>3, <3>1
    <3> QED BY <2>1, <3>2 DEF Findings, Idle
  <2> QED BY <2>6, <2>7, <2>8, <2>9 DEF LoopInv
<1> QED BY <1>5, <1>6

LEMMA ResolveKeeps == ASSUME LoopInv, Resolve PROVE LoopInv'
<1>1. PICK t : t = Spent([rec EXCEPT !.state = "OPERATOR_RESOLVED", !.agent = None])
  OBVIOUS
<1>2. /\ Wellformed(rec) /\ Agrees(rec) /\ TypeOK /\ pc = "idle" /\ rec' = t
      /\ UNCHANGED <<tree, attempts, driver, ghosts>>
  BY <1>1 DEF LoopInv, Sound, Resolve
<1>3. Wellformed(t) /\ t.resume = None /\ t.current = rec.current /\ t.clean = rec.clean
  BY <1>1, <1>2, ResolvedIsWellformed
<1>4. t.state = "OPERATOR_RESOLVED"
  BY <1>1, <1>2, ResolvedIsWellformed
<1>5. Agrees(t)'
  <2>1. ~PastGate(t) /\ ~At(t, "VERIFY") /\ ~At(t, "REVIEW")
    BY <1>3, <1>4, PhaseStates DEF PastGate, At
  <2>2. Agrees(t)
    BY <1>2, <1>3, <1>4, <2>1 DEF Agrees, Confirmed, PastGate, At
  <2> QED BY <1>2, <2>2, AgreementGrows DEF ghosts
<1>6. TypeOK'
  BY <1>2, <1>3 DEF TypeOK, driver, ghosts, Wellformed
<1>7. InHand' /\ Findings'
  BY <1>2 DEF LoopInv, InHand, Findings, driver, Idle, Writing
<1> QED BY <1>2, <1>3, <1>5, <1>6, <1>7 DEF LoopInv, Sound

LEMMA ResetPassesKeeps == ASSUME LoopInv, ResetPasses PROVE LoopInv'
<1>1. PICK t : t = [rec EXCEPT !.reset = "past"]
  OBVIOUS
<1>2. /\ Wellformed(rec) /\ Agrees(rec) /\ TypeOK /\ rec' = t
      /\ UNCHANGED <<tree, attempts, driver, ghosts>>
  BY <1>1 DEF LoopInv, Sound, ResetPasses
<1>3. /\ Wellformed(t) /\ t.state = rec.state /\ t.resume = rec.resume
      /\ t.current = rec.current /\ t.clean = rec.clean
  BY <1>1, <1>2, ResetPassesWellformed DEF ResetPasses
<1>4. Agrees(t)'
  <2>1. Agrees(t)
    BY <1>2, <1>3 DEF Agrees, Confirmed, PastGate, At
  <2> QED BY <1>2, <2>1, AgreementGrows DEF ghosts
<1>5. TypeOK'
  BY <1>2, <1>3 DEF TypeOK, driver, ghosts, Wellformed
<1>6. InHand'
  <2>1. (pc \notin Idle => Loaded)' 
    BY <1>2, <1>3 DEF LoopInv, InHand, Loaded, driver
  <2>2. Sound(next)' <=> Sound(next)
    BY <1>2 DEF Sound, Agrees, Confirmed, driver, ghosts
  <2> QED BY <1>2, <2>1, <2>2 DEF LoopInv, InHand, driver, ghosts
<1>7. Findings'
  BY <1>2, <1>3 DEF LoopInv, Findings, driver
<1> QED BY <1>2, <1>3, <1>4, <1>5, <1>6, <1>7 DEF LoopInv, Sound

LEMMA RepairKeeps == ASSUME LoopInv, Repair PROVE LoopInv'
<1>1. /\ TypeOK /\ Wellformed(rec) /\ rec.state = "BLOCKED_VERIFY" /\ pc = "idle"
      /\ UNCHANGED <<rec, attempts, driver, ghosts>>
  BY DEF LoopInv, Sound, Repair, Dirties, ghosts
<1>2. tree' \in [head : Commit, dirt : {"clean", "within", "beyond"}, beyond : BOOLEAN]
  BY <1>1 DEF Repair, Dirties, TypeOK
<1>3. TypeOK'
  BY <1>1, <1>2 DEF TypeOK, driver, ghosts
<1>4. Sound(rec)'
  BY <1>1, UnverifiedIsUnbound, UnboundAgrees DEF Sound
<1>5. InHand' /\ Findings'
  BY <1>1 DEF LoopInv, InHand, Findings, driver, Idle, Writing
<1> QED BY <1>3, <1>4, <1>5 DEF LoopInv

\* Somebody else writes in the worktree: from then on only the scope counts.
LEMMA TouchingKeeps ==
  ASSUME LoopInv, tree'.beyond = tree.beyond, touched' = TRUE,
         tree' \in [head : Commit, dirt : {"clean", "within", "beyond"}, beyond : BOOLEAN],
         UNCHANGED <<rec, attempts, driver, verified, accepted>>
  PROVE  LoopInv'
<1>1. TypeOK'
  BY DEF LoopInv, TypeOK, driver
<1>2. Sound(rec)'
  BY TouchedAgreement DEF LoopInv, Sound
<1>3. pc = "save" => Sound(next)'
  <2> SUFFICES ASSUME pc = "save" PROVE Sound(next)'
    OBVIOUS
  <2>1. PICK t : t = next
    OBVIOUS
  <2>2. Wellformed(t) /\ Agrees(t)'
    BY <2>1, TouchedAgreement DEF LoopInv, InHand, Sound
  <2>3. next' = t
    BY <2>1 DEF driver
  <2> QED BY <2>2, <2>3 DEF Sound
<1>4. InHand'
  BY <1>3 DEF LoopInv, InHand, Loaded, driver
<1>5. Findings'
  BY DEF LoopInv, Findings, driver
<1> QED BY <1>1, <1>2, <1>4, <1>5 DEF LoopInv

LEMMA EditKeeps == ASSUME LoopInv, Edit PROVE LoopInv'
<1>1. /\ tree'.beyond = tree.beyond
      /\ tree' \in [head : Commit, dirt : {"clean", "within", "beyond"}, beyond : BOOLEAN]
  BY DEF LoopInv, TypeOK, Edit, Dirties
<1> QED BY <1>1, TouchingKeeps DEF Edit, Dirties

LEMMA ForeignCommitKeeps == ASSUME LoopInv, ForeignCommit PROVE LoopInv'
<1>1. NewCommit \in Commit
  BY LoopAssumption DEF LoopInv, TypeOK, NewCommit, After, Commit
<1>2. /\ tree'.beyond = tree.beyond
      /\ tree' \in [head : Commit, dirt : {"clean", "within", "beyond"}, beyond : BOOLEAN]
  BY <1>1 DEF LoopInv, TypeOK, ForeignCommit
<1> QED BY <1>2, TouchingKeeps DEF ForeignCommit

-----------------------------------------------------------------------------
LEMMA StepKeeps == ASSUME LoopInv, [Next]_vars PROVE LoopInv'
<1>1. CASE Invoke
  BY <1>1, InvokeKeeps
<1>2. CASE Stop
  BY <1>2, LeavingKeeps DEF Stop
<1>3. CASE Resume
  BY <1>3, ResumeKeeps
<1>4. CASE Adopt
  BY <1>4, AdoptKeeps
<1>5. CASE AdoptCommit
  BY <1>5, AdoptCommitKeeps
<1>6. CASE EnterContext
  BY <1>6, EnterContextKeeps
<1>7. CASE LoadContext
  BY <1>7, LoadContextKeeps
<1>8. CASE BeginWriter
  BY <1>8, BeginWriterKeeps
<1>9. CASE WriterEnds
  BY <1>9, WriterEndsKeeps
<1>10. CASE Measure
  BY <1>10, MeasureKeeps
<1>11. CASE CommitPass
  BY <1>11, CommitPassKeeps
<1>12. CASE BeginVerify
  BY <1>12, BeginVerifyKeeps
<1>13. CASE VerifyPasses
  BY <1>13, VerifyPassesKeeps
<1>14. CASE VerifyFails
  BY <1>14, VerifyFailsKeeps
<1>15. CASE BeginReview
  BY <1>15, BeginReviewKeeps
<1>16. CASE ReviewInterrupted
  BY <1>16, ReviewInterruptedKeeps
<1>17. CASE ReviewFinds
  BY <1>17, ReviewFindsKeeps
<1>18. CASE ReviewAccepts
  BY <1>18, ReviewAcceptsKeeps
<1>19. CASE Save
  BY <1>19, SaveKeeps
<1>20. CASE WriterWrites
  BY <1>20, WriterWritesKeeps
<1>21. CASE Halt
  BY <1>21, LeavingKeeps DEF Halt
<1>22. CASE Resolve
  BY <1>22, ResolveKeeps
<1>23. CASE ResetPasses
  BY <1>23, ResetPassesKeeps
<1>24. CASE Repair
  BY <1>24, RepairKeeps
<1>25. CASE Edit
  BY <1>25, EditKeeps
<1>26. CASE ForeignCommit
  BY <1>26, ForeignCommitKeeps
<1>27. CASE UNCHANGED vars
  <2>1. Sound(rec)' /\ (Sound(next) => Sound(next)')
    BY <1>27, AgreementGrows DEF LoopInv, Sound, vars, durable, driver, ghosts
  <2>2. TypeOK' /\ Findings'
    BY <1>27 DEF LoopInv, TypeOK, Findings, vars, durable, driver, ghosts
  <2>3. InHand'
    BY <1>27, <2>1 DEF LoopInv, InHand, Loaded, vars, durable, driver, ghosts
  <2> QED BY <2>1, <2>2, <2>3 DEF LoopInv
<1> QED BY <1>1, <1>2, <1>3, <1>4, <1>5, <1>6, <1>7, <1>8, <1>9, <1>10, <1>11, <1>12, <1>13,
           <1>14, <1>15, <1>16, <1>17, <1>18, <1>19, <1>20, <1>21, <1>22, <1>23, <1>24, <1>25,
           <1>26, <1>27
        DEF Next, Drive

LEMMA InvariantHolds == Spec => []LoopInv
<1>1. Init => LoopInv
  BY InitHolds
<1>2. LoopInv /\ [Next]_vars => LoopInv'
  BY StepKeeps
<1> QED BY <1>1, <1>2, PTL DEF Spec

\* The record, the worktree, the history and the driver's memory stay within
\* their types: the counters within their limits (AttemptsKept, the step budget
\* and the one step a call may overdraw to finish what a review asked for).
THEOREM TypesHold == Spec => []TypeOK
<1>1. LoopInv => TypeOK
  BY DEF LoopInv
<1> QED BY <1>1, InvariantHolds, PTL

\* advanceTaskState never refuses what a step computed (ContractNeverRefuses):
\* for every budget, and from every record a crash or an operator may leave, the
\* record a step proposes obeys TaskStateSchema and follows an edge of the table.
THEOREM NoSaveIsRefused == Spec => []ContractNeverRefuses
<1>1. LoopInv => ContractNeverRefuses
  BY DEF LoopInv, InHand, Sound, Wellformed, ContractNeverRefuses, Legal
<1> QED BY <1>1, InvariantHolds, PTL

\* As long as nobody else writes in the worktree, reconciliation finds the record
\* and the worktree of a task in agreement at every moment (NeverSelfDiverged).
THEOREM RecordAndWorktreeAgree == Spec => []NeverSelfDiverged
<1>1. ASSUME LoopInv, ~touched, rec.state \notin Terminal PROVE Consistent(rec, tree)
  <2>1. Confirmed(rec)
    BY <1>1 DEF LoopInv, Sound, Agrees
  <2>2. Virgin(rec) => rec.current # None
    BY <1>1 DEF LoopInv, Sound, Wellformed, Checkpointed, Virgin
  <2>3. ~Virgin(rec)
    BY <2>2 DEF Virgin
  <2> QED BY <2>1, <2>3 DEF Consistent, ExpectedHead, Confirmed
<1>2. LoopInv => NeverSelfDiverged
  BY <1>1 DEF NeverSelfDiverged
<1> QED BY <1>2, InvariantHolds, PTL

\* A task that is READY_FOR_PR names a commit that every verification command
\* passed on and that a reviewer accepted, however often it was parked, resumed
\* and repaired on the way (ReadyIsVerifiedAndReviewed).
THEOREM ReadyMeansVerifiedAndReviewed == Spec => []ReadyIsVerifiedAndReviewed
<1>1. LoopInv => ReadyIsVerifiedAndReviewed
  BY DEF LoopInv, Sound, Agrees, Confirmed, ReadyIsVerifiedAndReviewed
<1> QED BY <1>1, InvariantHolds, PTL

\* The branch of a task that is READY_FOR_PR has not left its scope, whoever has
\* edited files while the task ran (ReadyIsWithinScope).
THEOREM ReadyMeansWithinScope == Spec => []ReadyIsWithinScope
<1>1. LoopInv => ReadyIsWithinScope
  BY DEF LoopInv, Sound, Agrees, PastGate, ReadyIsWithinScope
<1> QED BY <1>1, InvariantHolds, PTL

-----------------------------------------------------------------------------
(***************************************************************************)
(* A round left to review the work.  Only a review raises the round, and it    *)
(* sends no work back at the last; only a human decision starts work at the     *)
(* budget, and it buys one round more.  So every record that does not wait for  *)
(* a person is below its budget, the one about to be saved as well.            *)
(***************************************************************************)
Waits(s) == s.state \in Terminal \cup {"HUMAN_DECISION_REQUIRED"}
Spare(s) == Waits(s) \/ s.round < Budget(s)
SameCount(s, t) == t.round = s.round /\ t.granted = s.granted

SpareInv ==
  /\ Spare(rec)
  /\ pc \notin Idle => SameCount(rec, mem)
  /\ pc = "save" => Spare(next)

LEMMA SpareIsCounted ==
  ASSUME NEW s, NEW t, SameCount(s, t), Spare(s), ~Waits(s)
  PROVE  Spare(t)
BY DEF Spare, SameCount, Budget

LEMMA CountsStay ==
  ASSUME NEW s \in Record, NEW phase, NEW round, NEW agent, NEW reset, NEW point,
         NEW checkpoint, NEW state
  PROVE  /\ SameCount(s, Interruption(s, point, agent, reset, checkpoint))
         /\ SameCount(s, Violation(s, agent))
         /\ SameCount(s, VerifyBlocked(s))
         /\ SameCount(s, [s EXCEPT !.state = state])
         /\ SameCount(s, Spent([s EXCEPT !.state = state]))
         /\ SameCount(s, Withdrawn("IMPLEMENTING", Spent([s EXCEPT !.state = state])))
         /\ SameCount(s, Spent([s EXCEPT !.state = "VERIFYING", !.agent = None,
                                         !.current = None, !.clean = FALSE]))
         /\ Parked(s, phase, round).state = "HUMAN_DECISION_REQUIRED"
         /\ Indeterminate(s).state = "HUMAN_DECISION_REQUIRED"
         /\ NeedsAttention(s, point, agent).state = "HUMAN_DECISION_REQUIRED"
<1>1. SameCount(s, Interruption(s, point, agent, reset, checkpoint))
  BY DEF Record, SameCount, Interruption, Withdrawn
<1>2. SameCount(s, Violation(s, agent)) /\ SameCount(s, VerifyBlocked(s))
  BY DEF Record, SameCount, Violation, VerifyBlocked, Withdrawn
<1>3. /\ SameCount(s, [s EXCEPT !.state = state])
      /\ SameCount(s, Spent([s EXCEPT !.state = state]))
      /\ SameCount(s, Withdrawn("IMPLEMENTING", Spent([s EXCEPT !.state = state])))
      /\ SameCount(s, Spent([s EXCEPT !.state = "VERIFYING", !.agent = None,
                                      !.current = None, !.clean = FALSE]))
  BY DEF Record, SameCount, Withdrawn, Spent
<1>4. /\ Parked(s, phase, round).state = "HUMAN_DECISION_REQUIRED"
      /\ NeedsAttention(s, point, agent).state = "HUMAN_DECISION_REQUIRED"
  BY DEF Record, Parked, NeedsAttention, Withdrawn
<1>5. Indeterminate(s).state = "HUMAN_DECISION_REQUIRED"
  BY DEF Record, Indeterminate, Parked, Withdrawn
<1> QED BY <1>1, <1>2, <1>3, <1>4, <1>5

\* A step proposes a record that waits for a person or counts what the one it
\* is made of counts.
LEMMA SpareProposal ==
  ASSUME SpareInv, NEW s, NEW t, s.state = rec.state, SameCount(rec, s), ~Waits(rec), Propose(t),
         rec' = rec, mem' = mem \/ mem' = rec, pc \notin Idle \/ mem' = rec,
         Waits(t) \/ SameCount(s, t)
  PROVE  SpareInv'
<1>1. Spare(t)
  BY SpareIsCounted DEF SpareInv, SameCount, Spare
<1>2. SameCount(rec, mem')
  BY DEF SpareInv, SameCount
<1> QED BY <1>1, <1>2 DEF SpareInv, Propose, SameCount

LEMMA InHandIsWorked ==
  ASSUME LoopInv, pc \in {"writing", "measure", "commit", "verify", "review"}, SpareInv
  PROVE  /\ mem \in Record /\ mem.state = rec.state /\ SameCount(rec, mem)
         /\ ~Waits(rec) /\ pc \notin Idle
<1>1. pc \notin Idle /\ mem.state \in {"IMPLEMENTING", "REMEDIATING", "VERIFYING", "REVIEWING"}
  BY DEF LoopInv, InHand, Idle, Writing
<1> QED BY <1>1 DEF LoopInv, InHand, Wellformed, Loaded, SpareInv, Waits, Terminal

LEMMA ResumeIsSpare == ASSUME LoopInv, SpareInv, Resume PROVE SpareInv'
<1>1. rec \in Record /\ rec.round <= Budget(rec) /\ rec.round \in Nat /\ rec.granted \in Nat
  BY LoopAssumption DEF LoopInv, Sound, Wellformed, Contract, WithinBudget, Record
<1>2. PICK t : t = Resumed(rec, ByDecision /\ Exhausted(rec)) /\ Propose(t) /\ mem' = rec
  BY DEF Resume
<1>3. /\ t.round = rec.round
      /\ t.granted = rec.granted + (IF ByDecision /\ Exhausted(rec) THEN 1 ELSE 0)
  BY <1>1, <1>2 DEF Resumed, Withdrawn, Spent, Record
<1>4. t.round < Budget(t)
  <2>1. CASE ByDecision /\ Exhausted(rec)
    BY <1>1, <1>3, <2>1, LoopAssumption DEF Budget
  <2>2. CASE ~Exhausted(rec)
    BY <1>1, <1>3, <2>2, LoopAssumption DEF Budget, Exhausted
  <2>3. CASE ~ByDecision
    <3>1. rec.state \in {"BLOCKED_USAGE_LIMIT", "BLOCKED_VERIFY"}
      BY <2>3 DEF Resume, Departs, ByClock, ByRemediation, ByQuota
    <3>2. rec.round < Budget(rec)
      BY <3>1 DEF SpareInv, Spare, Waits, Terminal
    <3>3. t.granted = rec.granted
      BY <1>1, <1>3, <2>3
    <3> QED BY <1>3, <3>2, <3>3 DEF Budget
  <2> QED BY <2>1, <2>2, <2>3
<1> QED BY <1>2, <1>4 DEF SpareInv, Spare, SameCount, Propose, Resume, Keeping, durable

\* The steps from the top of an iteration that work on what the record says.
LEMMA EntryIsSpare ==
  ASSUME LoopInv, SpareInv,
         EnterContext \/ LoadContext \/ BeginWriter \/ BeginVerify \/ BeginReview \/ Adopt
  PROVE  SpareInv'
<1>1. rec \in Record /\ SameCount(rec, rec) /\ rec' = rec /\ mem' = rec
  BY DEF LoopInv, TypeOK, SameCount, EnterContext, LoadContext, BeginWriter, BeginVerify,
         BeginReview, Adopt, Keeping, durable
<1>2. ~Waits(rec)
  BY DEF Waits, Terminal, EnterContext, LoadContext, BeginWriter, BeginVerify, BeginReview,
         Adopt, ByRepair
<1>3. CASE pc' # "save"
  BY <1>1, <1>3 DEF SpareInv
<1>4. ASSUME NEW t, Propose(t), Waits(t) \/ SameCount(rec, t) PROVE SpareInv'
  BY <1>1, <1>2, <1>4, SpareProposal
<1>5. CASE pc' = "save"
  <2>1. CASE EnterContext
    BY <1>1, <1>4, <2>1, CountsStay DEF EnterContext
  <2>2. CASE LoadContext
    BY <1>1, <1>4, <2>2, CountsStay DEF LoadContext, Waits
  <2>3. CASE BeginWriter
    BY <1>1, <1>4, <1>5, <2>3, CountsStay DEF BeginWriter, Waits
  <2>4. CASE BeginReview
    BY <1>1, <1>4, <1>5, <2>4, CountsStay DEF BeginReview, Waits
  <2> QED BY <1>5, <2>1, <2>2, <2>3, <2>4 DEF BeginVerify, Adopt
<1> QED BY <1>3, <1>5

\* The steps of a writer, of a verification and of a review that found something
\* to stop for.
LEMMA WorkIsSpare ==
  ASSUME LoopInv, SpareInv,
         \/ WriterEnds \/ Measure \/ CommitPass \/ VerifyPasses \/ VerifyFails
         \/ ReviewInterrupted \/ ReviewAccepts
  PROVE  SpareInv'
<1>1. /\ mem \in Record /\ mem.state = rec.state /\ SameCount(rec, mem)
      /\ ~Waits(rec) /\ pc \notin Idle
  BY InHandIsWorked DEF WriterEnds, Measure, CommitPass, VerifyPasses, VerifyFails,
     ReviewInterrupted, ReviewAccepts
<1>2. rec' = rec /\ mem' = mem
  BY DEF WriterEnds, Measure, CommitPass, VerifyPasses, VerifyFails, ReviewInterrupted,
         ReviewAccepts, Keeping, durable
<1>3. CASE pc' # "save"
  BY <1>1, <1>2, <1>3 DEF SpareInv
<1>4. ASSUME NEW t, Propose(t), Waits(t) \/ SameCount(mem, t) PROVE SpareInv'
  BY <1>1, <1>2, <1>4, SpareProposal
<1>5. CASE pc' = "save"
  <2>1. CASE WriterEnds
    BY <1>1, <1>4, <1>5, <2>1, CountsStay DEF WriterEnds, Waits
  <2>2. CASE Measure
    BY <1>1, <1>4, <1>5, <2>2, CountsStay DEF Measure, Waits
  <2>3. CASE CommitPass
    <3>1. PICK how : Propose(PassRecorded(how)) \/ Propose(PauseSettled(how, tree'))
      BY <2>3 DEF CommitPass
    <3>2. CASE Propose(PassRecorded(how))
      BY <1>1, <1>4, <3>2, CountsStay DEF PassRecorded, Waits
    <3>3. CASE Propose(PauseSettled(how, tree'))
      BY <1>1, <1>4, <3>3, CountsStay DEF PauseSettled
    <3> QED BY <3>1, <3>2, <3>3
  <2>4. CASE VerifyPasses
    BY <1>1, <1>4, <2>4, CountsStay DEF VerifyPasses
  <2>5. CASE VerifyFails
    BY <1>1, <1>4, <2>5, CountsStay DEF VerifyFails, VerifyOutcome, VerifyUnclear, Waits
  <2>6. CASE ReviewInterrupted
    BY <1>1, <1>4, <2>6, CountsStay DEF ReviewInterrupted, Waits
  <2>7. CASE ReviewAccepts
    <3>1. PICK t : /\ Propose(t)
                   /\ \/ t = Spent([Reviewed(mem) EXCEPT !.state = "READY_FOR_PR", !.agent = None,
                                      !.current = tree.head, !.clean = TRUE])
                      \/ t = Parked(Reviewed(mem), "REVIEW", mem.round + 1)
      BY <2>7 DEF ReviewAccepts
    <3>2. Waits(t)
      BY <1>1, <3>1 DEF Record, Reviewed, Parked, Spent, Waits, Terminal
    <3> QED BY <1>4, <3>1, <3>2
  <2> QED BY <2>1, <2>2, <2>3, <2>4, <2>5, <2>6, <2>7
<1> QED BY <1>3, <1>5

LEMMA AdoptCommitIsSpare == ASSUME LoopInv, SpareInv, AdoptCommit PROVE SpareInv'
<1>1. /\ mem \in Record /\ mem.state = rec.state /\ SameCount(rec, mem)
      /\ ~Waits(rec) /\ pc \notin Idle /\ rec' = rec
  BY DEF AdoptCommit, LoopInv, InHand, Wellformed, Loaded, SpareInv, Waits, Terminal, Idle
<1>2. CASE Forget
  BY <1>1, <1>2 DEF SpareInv, Forget, Idle
<1>3. CASE /\ Propose(Spent([mem EXCEPT !.state = "VERIFYING", !.agent = None,
                                        !.current = None, !.clean = FALSE]))
           /\ mem' = mem
  BY <1>1, <1>3, CountsStay, SpareProposal
<1> QED BY <1>2, <1>3 DEF AdoptCommit

\* A review that asks for a remediation leaves the round that will judge it.
LEMMA ReviewFindsIsSpare == ASSUME LoopInv, SpareInv, ReviewFinds PROVE SpareInv'
<1>1. mem \in Record /\ SameCount(rec, mem) /\ pc \notin Idle /\ rec' = rec /\ mem' = mem
  BY InHandIsWorked DEF ReviewFinds, Keeping, durable
<1>2. PICK counted : counted = [Reviewed(mem) EXCEPT !.found = @ \cup {mem.round + 1}]
  OBVIOUS
<1>3. counted.round = mem.round + 1 /\ counted.granted = mem.granted
  BY <1>1, <1>2 DEF Reviewed, Record
<1>4. CASE LastRound(mem, mem.round + 1) /\ Propose(Parked(counted, "REMEDIATE", mem.round + 1))
  <2>1. Parked(counted, "REMEDIATE", mem.round + 1).state = "HUMAN_DECISION_REQUIRED"
    BY <1>1, <1>2 DEF Parked, Reviewed, Record
  <2> QED BY <1>1, <1>4, <2>1 DEF SpareInv, Spare, Waits, SameCount, Propose
<1>5. CASE /\ ~LastRound(mem, mem.round + 1)
           /\ Propose(Withdrawn("REMEDIATING", Spent([counted EXCEPT !.state = "REMEDIATING"])))
  <2>1. PICK t : t = Withdrawn("REMEDIATING", Spent([counted EXCEPT !.state = "REMEDIATING"]))
    OBVIOUS
  <2>2. t.round = mem.round + 1 /\ t.granted = mem.granted
    BY <1>1, <1>2, <1>3, <2>1 DEF Withdrawn, Spent, Reviewed, Record
  <2>3. mem.round \in Nat /\ mem.granted \in Nat
    BY <1>1, LoopAssumption DEF Record
  <2>4. t.round < Budget(t)
    BY <1>5, <2>2, <2>3, LoopAssumption DEF LastRound, Budget
  <2> QED BY <1>1, <1>5, <2>1, <2>4 DEF SpareInv, Spare, SameCount, Propose
<1> QED BY <1>2, <1>4, <1>5 DEF ReviewFinds

LEMMA SpareStep == LoopInv /\ SpareInv /\ [Next]_vars => SpareInv'
<1> SUFFICES ASSUME LoopInv, SpareInv, [Next]_vars PROVE SpareInv'
  OBVIOUS
<1>1. CASE Invoke \/ WriterWrites \/ Repair \/ Edit \/ ForeignCommit \/ UNCHANGED vars
  <2>1. rec' = rec /\ mem' = mem /\ next' = next /\ (pc' = pc \/ pc' = "top")
    BY <1>1 DEF Invoke, WriterWrites, Repair, Edit, ForeignCommit, Dirties, vars, durable, driver
  <2> QED BY <2>1 DEF SpareInv, Idle
<1>2. CASE Stop \/ Halt
  BY <1>2 DEF Stop, Halt, Forget, durable, SpareInv, Idle
<1>3. CASE Resume \/ AdoptCommit \/ ReviewFinds
  BY <1>3, ResumeIsSpare, AdoptCommitIsSpare, ReviewFindsIsSpare
<1>4. CASE EnterContext \/ LoadContext \/ BeginWriter \/ BeginVerify \/ BeginReview \/ Adopt
  BY <1>4, EntryIsSpare
<1>5. CASE \/ WriterEnds \/ Measure \/ CommitPass \/ VerifyPasses \/ VerifyFails
           \/ ReviewInterrupted \/ ReviewAccepts
  BY <1>5, WorkIsSpare
<1>6. CASE Save
  <2>1. Spare(rec')
    BY <1>6 DEF Save, SpareInv
  <2>2. pc' \in Idle
    BY <1>6 DEF Save, Forget, Idle
  <2> QED BY <2>1, <2>2 DEF SpareInv, Spare, Waits, Budget, Idle
<1>7. CASE Resolve
  <2>1. rec \in Record /\ pc \in Idle
    BY <1>7 DEF LoopInv, TypeOK, Resolve, Idle
  <2>2. rec'.state = "OPERATOR_RESOLVED"
    BY <1>7, <2>1 DEF Resolve, Spent, Record
  <2> QED BY <1>7, <2>1, <2>2 DEF Resolve, SpareInv, Spare, Waits, Terminal, driver, Idle
<1>8. CASE ResetPasses
  <2>1. rec \in Record
    BY DEF LoopInv, TypeOK
  <2>2. rec'.state = rec.state /\ SameCount(rec, rec')
    BY <1>8, <2>1 DEF ResetPasses, Record, SameCount
  <2> QED BY <1>8, <2>2 DEF ResetPasses, driver, SpareInv, Spare, Waits, SameCount, Budget
<1> QED BY <1>1, <1>2, <1>3, <1>4, <1>5, <1>6, <1>7, <1>8 DEF Next, Drive

\* No writer, verification or review is at work beyond the review budget, for any
\* profile, any number of grants and any order of parks and continuations.
THEOREM WorkLeavesAReview == Spec => []WorkIsReviewable
<1>1. Init => SpareInv
  BY LoopAssumption DEF Init, FirstState, SpareInv, Spare, Budget, Idle
<1>2. SpareInv /\ LoopInv => WorkIsReviewable
  <2>1. LoopDriven \cap (Terminal \cup {"HUMAN_DECISION_REQUIRED"}) = {}
    BY DEF LoopDriven, PreWork, WorkLoop, Phase, PhaseState, Terminal
  <2>2. rec.state \in LoopDriven => ~Waits(rec)
    BY <2>1 DEF Waits
  <2>3. LoopInv => rec.round \in Nat /\ Budget(rec) \in Nat
    BY LoopAssumption DEF LoopInv, TypeOK, Record, Budget
  <2> QED BY <2>2, <2>3 DEF SpareInv, Spare, WorkIsReviewable, Exhausted
<1> QED BY <1>1, <1>2, SpareStep, InvariantHolds, PTL DEF Spec

-----------------------------------------------------------------------------
(***************************************************************************)
(* A block over a failed verification rests on the recorded failure.  Only a   *)
(* verification proposes such a block, right after it recorded the attempt.     *)
(* While the block stands nobody but an adoption commits, and an adoption that   *)
(* begins at the failed commit ends at it or at the next one, where none can     *)
(* begin again.                                                              *)
(***************************************************************************)
FailureIsRecorded == attempts.count > 0 /\ attempts.failed

EvidenceInv ==
  /\ BlockedOnEvidence
  /\ pc = "adopt" /\ ~touched => tree.head = attempts.subject
  /\ pc = "save" /\ next.state = "BLOCKED_VERIFY" =>
       FailureIsRecorded /\ (~touched => tree.head = attempts.subject)

\* Only a verification leads to a block over one.
LEMMA OnlyVerifyingIsBlocked ==
  ASSUME NEW s \in State, s \notin Terminal, "BLOCKED_VERIFY" \in Table[s]
  PROVE  s = "VERIFYING"
<1>1. \A x \in {"WORKTREE_READY", "CONTEXT_LOADING", "IMPLEMENTING", "REVIEWING", "REMEDIATING",
               "BLOCKED_USAGE_LIMIT", "BLOCKED_VERIFY", "SCOPE_VIOLATION",
               "HUMAN_DECISION_REQUIRED"} : "BLOCKED_VERIFY" \notin Table[x]
  <2>1. "BLOCKED_VERIFY" \notin WorkLoop
    BY DEF WorkLoop, Phase, PhaseState
  <2> QED BY <2>1 DEF Table, Interrupted, Escalation
<1>2. s \in {"WORKTREE_READY", "CONTEXT_LOADING", "IMPLEMENTING", "VERIFYING", "REVIEWING",
             "REMEDIATING", "BLOCKED_USAGE_LIMIT", "BLOCKED_VERIFY", "SCOPE_VIOLATION",
             "HUMAN_DECISION_REQUIRED"}
  <2>1. WorkLoop = {"IMPLEMENTING", "VERIFYING", "REVIEWING", "REMEDIATING"}
    BY DEF WorkLoop, Phase, PhaseState
  <2> QED BY <2>1 DEF State, LoopDriven, Terminal, PreWork, Blocking
<1> QED BY <1>1, <1>2

\* Steps that leave the files alone and propose what no verification led to.
LEMMA EvidenceStays ==
  ASSUME LoopInv', EvidenceInv, UNCHANGED <<durable, touched>>, pc' # "adopt",
         pc' = "save" => mem'.state # "VERIFYING" \/ next'.state # "BLOCKED_VERIFY"
  PROVE  EvidenceInv'
<1>1. ~(pc' = "save" /\ next'.state = "BLOCKED_VERIFY")
  <2>1. pc' = "save" =>
          mem'.state \in State \ Terminal /\ next'.state \in Table[mem'.state]
    BY DEF LoopInv, InHand, Idle, TypeOK, Record
  <2> QED BY <2>1, OnlyVerifyingIsBlocked
<1> QED BY <1>1 DEF EvidenceInv, BlockedOnEvidence, durable

LEMMA EvidenceStep == LoopInv /\ LoopInv' /\ EvidenceInv /\ [Next]_vars => EvidenceInv'
<1> SUFFICES ASSUME LoopInv, LoopInv', EvidenceInv, [Next]_vars PROVE EvidenceInv'
  OBVIOUS
<1>1. CASE Invoke \/ Stop \/ Halt \/ UNCHANGED vars
  <2>1. UNCHANGED <<durable, touched>>
    BY <1>1 DEF Invoke, Stop, Halt, ghosts, vars
  <2>2. CASE UNCHANGED vars
    BY <2>1, <2>2 DEF EvidenceInv, BlockedOnEvidence, FailureIsRecorded, vars, durable, driver
  <2>3. CASE Invoke \/ Stop \/ Halt
    <3>1. pc' \in Idle
      BY <2>3 DEF Invoke, Stop, Halt, Forget, Idle
    <3> QED BY <2>1, <3>1, EvidenceStays DEF Idle
  <2> QED BY <1>1, <2>2, <2>3
<1>2. CASE Resume \/ EnterContext \/ LoadContext \/ BeginWriter \/ BeginVerify \/ BeginReview
  <2>1. UNCHANGED <<durable, touched>> /\ mem' = rec /\ pc' # "adopt"
    BY <1>2 DEF Resume, EnterContext, LoadContext, BeginWriter, BeginVerify, BeginReview, Keeping,
       ghosts, Propose, Reached
  <2>2. pc' = "save" => rec.state # "VERIFYING"
    BY <1>2 DEF Resume, Departs, ByClock, ByRemediation, ByDecision, ByQuota, EnterContext,
       LoadContext, BeginWriter, BeginVerify, BeginReview
  <2> QED BY <2>1, <2>2, EvidenceStays
<1>3. CASE Adopt
  <2>1. tree.head = attempts.subject /\ pc' = "adopt" /\ UNCHANGED <<durable, touched>>
    BY <1>3 DEF Adopt, RepairAllowed, Keeping, ghosts
  <2> QED BY <2>1 DEF EvidenceInv, BlockedOnEvidence, durable
<1>4. CASE AdoptCommit
  <2>1. UNCHANGED <<rec, attempts, touched>>
    BY <1>4 DEF AdoptCommit, ghosts
  <2>2. tree'.head \in {tree.head, After(tree.head)}
    BY <1>4 DEF AdoptCommit, CommitAll, NewCommit
  <2>3. rec.state = "BLOCKED_VERIFY" /\ (~touched => tree.head = attempts.subject)
    BY <1>4 DEF AdoptCommit, LoopInv, InHand, Loaded, Idle, EvidenceInv
  <2>4. pc' # "adopt" /\ ~(pc' = "save" /\ next'.state = "BLOCKED_VERIFY")
    BY <1>4 DEF AdoptCommit, Forget, Propose, Spent, LoopInv, TypeOK, Record
  <2> QED BY <2>1, <2>2, <2>3, <2>4 DEF EvidenceInv, BlockedOnEvidence
<1>5. CASE WriterEnds \/ Measure \/ ReviewInterrupted \/ ReviewFinds \/ ReviewAccepts \/ VerifyPasses
  <2>1. UNCHANGED <<durable, touched>> /\ mem' = mem /\ pc' # "adopt"
    BY <1>5 DEF WriterEnds, Measure, ReviewInterrupted, ReviewFinds, ReviewAccepts, VerifyPasses,
       Keeping, ghosts, Propose
  <2>2. mem.state # "VERIFYING" \/ (next'.state # "BLOCKED_VERIFY" /\ VerifyPasses)
    <3>1. CASE VerifyPasses
      BY <3>1 DEF VerifyPasses, Propose, Spent, LoopInv, TypeOK, Record
    <3>2. CASE ~VerifyPasses
      BY <1>5, <3>2 DEF WriterEnds, Measure, ReviewInterrupted, ReviewFinds, ReviewAccepts,
         LoopInv, InHand, Writing
    <3> QED BY <3>1, <3>2
  <2> QED BY <2>1, <2>2, EvidenceStays
<1>6. CASE CommitPass
  <2>1. rec' = rec /\ mem' = mem /\ pc' = "save"
    BY <1>6 DEF CommitPass, Propose
  <2>2. mem.state \in {"IMPLEMENTING", "REMEDIATING"} /\ rec.state = mem.state
    BY <1>6 DEF CommitPass, LoopInv, InHand, Writing, Loaded, Idle
  <2>3. next'.state # "BLOCKED_VERIFY"
    <3>1. mem'.state \in State \ Terminal /\ next'.state \in Table[mem'.state]
      BY <2>1 DEF LoopInv, InHand, Idle, TypeOK, Record
    <3> QED BY <2>1, <2>2, <3>1, OnlyVerifyingIsBlocked
  <2> QED BY <2>1, <2>2, <2>3 DEF EvidenceInv, BlockedOnEvidence
<1>7. CASE VerifyFails
  <2>1. rec' = rec /\ tree' = tree /\ touched' = touched /\ pc' = "save" /\ rec.state = "VERIFYING"
    BY <1>7 DEF VerifyFails, Propose, ghosts, LoopInv, InHand, Loaded, Idle
  <2>2. PICK failed \in BOOLEAN, kept \in BOOLEAN :
          /\ attempts' = IF kept
                         THEN [count |-> attempts.count + 1, subject |-> tree.head, failed |-> failed]
                         ELSE attempts
          /\ next' = VerifyOutcome(failed, kept)
    BY <1>7 DEF VerifyFails, Propose, Room
  <2>3. CASE failed /\ kept
    <3>1. attempts'.count > 0 /\ attempts'.failed /\ attempts'.subject = tree.head
      BY <2>2, <2>3 DEF LoopInv, TypeOK
    <3> QED BY <2>1, <3>1 DEF EvidenceInv, BlockedOnEvidence, FailureIsRecorded
  <2>4. CASE ~(failed /\ kept)
    <3>1. next'.state = "HUMAN_DECISION_REQUIRED"
      BY <2>2, <2>4 DEF VerifyOutcome, VerifyUnclear, Parked, LoopInv, TypeOK, Record
    <3> QED BY <2>1, <3>1 DEF EvidenceInv, BlockedOnEvidence
  <2> QED BY <2>3, <2>4
<1>8. CASE Save
  <2>1. UNCHANGED <<tree, attempts, touched>> /\ rec' \in {rec, next} /\ pc = "save" /\ pc' \in Idle
    BY <1>8 DEF Save, Forget, ghosts, Idle
  <2> QED BY <2>1 DEF EvidenceInv, BlockedOnEvidence, FailureIsRecorded, Idle
<1>9. CASE Resolve \/ ResetPasses
  <2>1. UNCHANGED <<tree, attempts, touched, pc, next>>
    BY <1>9 DEF Resolve, ResetPasses, ghosts, driver
  <2>2. rec'.state \in {rec.state, "OPERATOR_RESOLVED"}
    <3>1. rec \in Record
      BY DEF LoopInv, TypeOK
    <3>2. CASE Resolve
      BY <3>1, <3>2 DEF Resolve, Spent, Record
    <3>3. CASE ResetPasses
      BY <3>1, <3>3 DEF ResetPasses, Record
    <3> QED BY <1>9, <3>2, <3>3
  <2>3. BlockedOnEvidence'
    BY <2>1, <2>2 DEF EvidenceInv, BlockedOnEvidence
  <2> QED BY <2>1, <2>3 DEF EvidenceInv, FailureIsRecorded
<1>10. CASE WriterWrites \/ Repair \/ Edit \/ ForeignCommit
  <2>1. UNCHANGED <<rec, attempts, pc, next>>
    BY <1>10 DEF WriterWrites, Repair, Edit, ForeignCommit, Dirties, driver
  <2>2. touched' \/ (touched' = touched /\ tree'.head = tree.head)
    BY <1>10 DEF WriterWrites, Repair, Edit, ForeignCommit, Dirties, ghosts, LoopInv, TypeOK
  <2> QED BY <2>1, <2>2 DEF EvidenceInv, BlockedOnEvidence, FailureIsRecorded
<1> QED BY <1>1, <1>2, <1>3, <1>4, <1>5, <1>6, <1>7, <1>8, <1>9, <1>10 DEF Next, Drive

\* A task parked over a failed verification has the failure in its history, about
\* the commit the worktree is at or the one before it, whatever failed to be
\* recorded and however the driver died.
THEOREM BlocksHaveEvidence == Spec => []BlockedOnEvidence
<1>1. Init => EvidenceInv
  BY DEF Init, FirstState, EvidenceInv, BlockedOnEvidence
<1>2. EvidenceInv => BlockedOnEvidence
  BY DEF EvidenceInv
<1> QED BY <1>1, <1>2, EvidenceStep, InvariantHolds, PTL DEF Spec

\* READY_FOR_PR rests on a pass and a review, BLOCKED_VERIFY on a recorded failure.
THEOREM RecordsClaimWhatIsSo == Spec => []ClaimsAreBacked
BY ReadyMeansVerifiedAndReviewed, BlocksHaveEvidence, PTL DEF ClaimsAreBacked

\* The contract refuses nothing a step has computed, and a review is left for
\* whatever is at work.
THEOREM NothingIsDoneInVain == Spec => []NoStepIsInVain
BY NoSaveIsRefused, WorkLeavesAReview, PTL DEF NoStepIsInVain

-----------------------------------------------------------------------------
(***************************************************************************)
(* The reviewer provider gate, for any set of tasks and any clock.         *)
(*                                                                         *)
(* The calls that have not settled form a chain: numbered in the order in  *)
(* which they queued, each awaits the one numbered just before it, the     *)
(* first awaits none, and the tail is the last.  That is what Numbering    *)
(* says of some numbering of the tasks; only the first of the chain can    *)
(* have been called, which is OneReviewer.  Remembered says that the gate  *)
(* remembers any reset that is still ahead of the clock.                   *)
(***************************************************************************)

Unsettled(t) == place[t] \in {"queued", "called"}

Numbering(rank, base) ==
  /\ \A t \in Task : Unsettled(t) =>
       /\ rank[t] > base
       /\ awaits[t] = Nobody <=> rank[t] = base + 1
       /\ awaits[t] # Nobody =>
            Unsettled(awaits[t]) /\ rank[awaits[t]] + 1 = rank[t]
  /\ \A t, u \in Task : Unsettled(t) /\ Unsettled(u) /\ rank[t] = rank[u] => t = u
  /\ tail # Nobody =>
       Unsettled(tail) /\ \A t \in Task : Unsettled(t) => rank[t] <= rank[tail]
  /\ tail = Nobody => \A t \in Task : ~Unsettled(t)

Chain == \E rank \in [Task -> Nat], base \in Nat : Numbering(rank, base)

FirstIsCalled ==
  \A t \in Task : /\ place[t] = "called" => awaits[t] = Nobody
                  /\ ~Unsettled(t) => awaits[t] = Nobody

Remembered ==
  /\ told > clock => exhaustedUntil >= told
  /\ \A t \in Task : asked[t] <= clock

GateInv == GateTypeOK /\ Chain /\ FirstIsCalled /\ Remembered

-----------------------------------------------------------------------------
\* Every reachable state has its type.
THEOREM GateTypesHold == GateSpec => []GateTypeOK
<1> USE NobodyAssumption, ClockAssumption DEF Instants, Never
<1>1. GateInit => GateTypeOK
  BY DEF GateInit, GateTypeOK, Places, Outcomes, Records
<1>2. GateTypeOK /\ [GateNext]_gateVars => GateTypeOK'
  <2> SUFFICES ASSUME GateTypeOK, [GateNext]_gateVars PROVE GateTypeOK'
    OBVIOUS
  <2> USE DEF GateTypeOK, gate, steps, Places, Outcomes, Records
  <2>1. ASSUME NEW t \in Task, Begins(t) PROVE GateTypeOK'
    BY <2>1 DEF Begins
  <2>2. ASSUME NEW t \in Task, Queues(t) PROVE GateTypeOK'
    BY <2>2 DEF Queues, AwaitTail
  <2>3. ASSUME NEW t \in Task, Withholds(t) PROVE GateTypeOK'
    BY <2>3 DEF Withholds, Settles
  <2>4. ASSUME NEW t \in Task, MakesCall(t) PROVE GateTypeOK'
    BY <2>4 DEF MakesCall
  <2>5. ASSUME NEW t \in Task, Reviews(t) PROVE GateTypeOK'
    BY <2>5 DEF Reviews, Settles
  <2>6. ASSUME NEW t \in Task, ReportsLimit(t) PROVE GateTypeOK'
    BY <2>6 DEF ReportsLimit, Settles, Noted
  <2>7. ASSUME NEW t \in Task, Throws(t) PROVE GateTypeOK'
    BY <2>7 DEF Throws, Settles
  <2>8. ASSUME NEW t \in Task, WritesRecord(t) PROVE GateTypeOK'
    <3>1. Written(outcome[t]) \subseteq Records
      BY <2>8 DEF Written
    <3>2. record' \in [Task -> Records]
      BY <2>8, <3>1 DEF WritesRecord
    <3>3. QED
      BY <2>8, <3>2 DEF WritesRecord
  <2>9. CASE Tick
    BY <2>9 DEF Tick
  <2>10. CASE Restart
    BY <2>10 DEF Restart
  <2>11. CASE UNCHANGED gateVars
    BY <2>11 DEF gateVars
  <2>12. QED
    BY <2>1, <2>2, <2>3, <2>4, <2>5, <2>6, <2>7, <2>8, <2>9, <2>10, <2>11
    DEF GateNext, Turn, Answers
<1>3. QED
  BY <1>1, <1>2, PTL DEF GateSpec

-----------------------------------------------------------------------------
\* A step that settles no call and queues none keeps the chain.
LEMMA SameChain ==
  ASSUME GateTypeOK, Chain, FirstIsCalled, UNCHANGED <<tail, awaits>>,
         \A t \in Task : /\ Unsettled(t)' <=> Unsettled(t)
                         /\ place'[t] = "called" => awaits[t] = Nobody
  PROVE  Chain' /\ FirstIsCalled'
<1>1. PICK rank \in [Task -> Nat], base \in Nat : Numbering(rank, base)
  BY DEF Chain
<1>2. Numbering(rank, base)'
  BY <1>1, NobodyAssumption DEF Numbering, GateTypeOK
<1>3. Chain'
  BY <1>2 DEF Chain
<1>4. FirstIsCalled'
  BY DEF FirstIsCalled
<1>5. QED
  BY <1>3, <1>4

\* A call that queues takes the number after the tail's.
LEMMA QueueingExtendsTheChain ==
  ASSUME NEW t \in Task, GateTypeOK, Chain, FirstIsCalled, Queues(t)
  PROVE  Chain' /\ FirstIsCalled'
<1> USE NobodyAssumption
<1>1. PICK rank \in [Task -> Nat], base \in Nat : Numbering(rank, base)
  BY DEF Chain
<1> DEFINE mine == IF tail = Nobody THEN base + 1 ELSE rank[tail] + 1
<1>2. PICK new \in [Task -> Nat] :
        new[t] = mine /\ \A u \in Task : u # t => new[u] = rank[u]
  <2>1. [rank EXCEPT ![t] = mine] \in [Task -> Nat]
    BY DEF GateTypeOK
  <2>2. QED
    BY <2>1
<1>3. /\ ~Unsettled(t) /\ place'[t] = "queued" /\ awaits'[t] = tail /\ tail' = t
      /\ \A u \in Task : u # t => place'[u] = place[u] /\ awaits'[u] = awaits[u]
  BY DEF Queues, AwaitTail, Unsettled, GateTypeOK
<1>4. /\ Unsettled(t)' /\ \A u \in Task : u # t => (Unsettled(u)' <=> Unsettled(u))
  BY <1>3 DEF Unsettled
<1>5. \A u \in Task : Unsettled(u) => rank[u] < mine /\ rank[u] > base
  BY <1>1 DEF Numbering, GateTypeOK
<1>6. tail # Nobody => tail \in Task /\ tail # t /\ Unsettled(tail)
  BY <1>1, <1>3 DEF Numbering, GateTypeOK
<1>7. \A u \in Task : Unsettled(u) /\ awaits[u] # Nobody =>
        awaits[u] \in Task /\ awaits[u] # t /\ Unsettled(awaits[u])
  BY <1>1, <1>3 DEF Numbering, GateTypeOK
<1>8. Numbering(new, base)'
  <2>1. \A u \in Task : Unsettled(u)' =>
          /\ new[u] > base
          /\ awaits'[u] = Nobody <=> new[u] = base + 1
          /\ awaits'[u] # Nobody =>
               place'[awaits'[u]] \in {"queued", "called"} /\ new[awaits'[u]] + 1 = new[u]
    <3> SUFFICES ASSUME NEW u \in Task, Unsettled(u)'
                 PROVE  /\ new[u] > base
                        /\ awaits'[u] = Nobody <=> new[u] = base + 1
                        /\ awaits'[u] # Nobody =>
                             /\ place'[awaits'[u]] \in {"queued", "called"}
                             /\ new[awaits'[u]] + 1 = new[u]
      OBVIOUS
    <3>1. CASE u = t
      BY <3>1, <1>2, <1>3, <1>5, <1>6 DEF Unsettled
    <3>2. CASE u # t
      BY <3>2, <1>1, <1>2, <1>3, <1>4, <1>7 DEF Numbering, Unsettled
    <3>3. QED
      BY <3>1, <3>2
  <2>2. \A u, v \in Task : Unsettled(u)' /\ Unsettled(v)' /\ new[u] = new[v] => u = v
    BY <1>1, <1>2, <1>4, <1>5 DEF Numbering
  <2>3. \A u \in Task : Unsettled(u)' => new[u] <= new[t]
    BY <1>2, <1>4, <1>5
  <2>4. QED
    BY <2>1, <2>2, <2>3, <1>3 DEF Numbering, Unsettled
<1>9. Chain'
  BY <1>2, <1>8 DEF Chain
<1>10. FirstIsCalled'
  BY <1>3, <1>4 DEF FirstIsCalled, Unsettled
<1>11. QED
  BY <1>9, <1>10

\* The call at the head of the chain settles, and the one behind it is first.
LEMMA SettlingShortensTheChain ==
  ASSUME NEW t \in Task, NEW there \in Places \ {"queued", "called"},
         GateTypeOK, Chain, FirstIsCalled, Settles(t), Unsettled(t),
         awaits[t] = Nobody, place' = [place EXCEPT ![t] = there]
  PROVE  Chain' /\ FirstIsCalled'
<1> USE NobodyAssumption
<1>1. PICK rank \in [Task -> Nat], base \in Nat : Numbering(rank, base)
  BY DEF Chain
<1>2. /\ ~Unsettled(t)'
      /\ \A u \in Task : u # t => place'[u] = place[u] /\ (Unsettled(u)' <=> Unsettled(u))
  BY DEF Unsettled, GateTypeOK
<1>3. \A u \in Task : awaits'[u] = IF awaits[u] = t THEN Nobody ELSE awaits[u]
  BY DEF Settles
<1>4. rank[t] = base + 1
  BY <1>1 DEF Numbering
<1>5. \A u \in Task : Unsettled(u) /\ u # t => rank[u] > base + 1 /\ awaits[u] # Nobody
  BY <1>1, <1>4 DEF Numbering
<1>6. Numbering(rank, base + 1)'
  <2>1. \A u \in Task : Unsettled(u)' =>
          /\ rank[u] > base + 1
          /\ awaits'[u] = Nobody <=> rank[u] = base + 2
          /\ awaits'[u] # Nobody =>
               place'[awaits'[u]] \in {"queued", "called"} /\ rank[awaits'[u]] + 1 = rank[u]
    <3> SUFFICES ASSUME NEW u \in Task, Unsettled(u)'
                 PROVE  /\ rank[u] > base + 1
                        /\ awaits'[u] = Nobody <=> rank[u] = base + 2
                        /\ awaits'[u] # Nobody =>
                             /\ place'[awaits'[u]] \in {"queued", "called"}
                             /\ rank[awaits'[u]] + 1 = rank[u]
      OBVIOUS
    <3>1. u # t /\ Unsettled(u) /\ rank[u] > base + 1 /\ awaits[u] # Nobody
      BY <1>2, <1>5
    <3>2. awaits[u] \in Task /\ Unsettled(awaits[u]) /\ rank[awaits[u]] + 1 = rank[u]
      BY <3>1, <1>1 DEF Numbering, GateTypeOK
    <3>3. awaits[u] = t <=> rank[u] = base + 2
      BY <3>2, <1>1, <1>4 DEF Numbering
    <3>4. awaits'[u] # Nobody => awaits'[u] = awaits[u] /\ awaits[u] # t
      BY <1>3
    <3>5. awaits'[u] # Nobody => place'[awaits'[u]] \in {"queued", "called"}
      BY <3>2, <3>4, <1>2 DEF Unsettled
    <3>6. awaits'[u] = Nobody <=> awaits[u] = t
      BY <3>1, <1>3
    <3>7. QED
      BY <3>1, <3>2, <3>3, <3>4, <3>5, <3>6
  <2>2. \A u, v \in Task : Unsettled(u)' /\ Unsettled(v)' /\ rank[u] = rank[v] => u = v
    BY <1>1, <1>2 DEF Numbering
  <2>3. tail # Nobody /\ tail \in Task
    BY <1>1 DEF Numbering, GateTypeOK
  <2>4. CASE tail = t
    <3>1. \A u \in Task : Unsettled(u) => rank[u] <= base + 1
      BY <2>4, <2>3, <1>1, <1>4 DEF Numbering
    <3>2. \A u \in Task : ~Unsettled(u)'
      BY <3>1, <1>2, <1>5
    <3>3. tail' = Nobody
      BY <2>4 DEF Settles
    <3>4. QED
      BY <2>1, <2>2, <3>2, <3>3 DEF Numbering, Unsettled
  <2>5. CASE tail # t
    <3>1. tail' = tail
      BY <2>5 DEF Settles
    <3>2. /\ place'[tail] \in {"queued", "called"}
          /\ \A u \in Task : Unsettled(u)' => rank[u] <= rank[tail]
      BY <2>3, <2>5, <1>1, <1>2 DEF Numbering, Unsettled
    <3>3. QED
      BY <2>1, <2>2, <2>3, <3>1, <3>2 DEF Numbering, Unsettled
  <2>6. QED
    BY <2>4, <2>5
<1>7. Chain'
  BY <1>6 DEF Chain
<1>8. FirstIsCalled'
  BY <1>2, <1>3 DEF FirstIsCalled, Unsettled
<1>9. QED
  BY <1>7, <1>8

\* GateInv is an invariant: a step queues a call, settles the first of the
\* chain, or leaves the chain alone.
LEMMA StepKeepsChain ==
  ASSUME GateTypeOK, Chain, FirstIsCalled, [GateNext]_gateVars
  PROVE  Chain' /\ FirstIsCalled'
<1> USE DEF GateTypeOK, gate, steps, Places
<1>1. ASSUME NEW t \in Task, Begins(t) PROVE Chain' /\ FirstIsCalled'
  <2>1. UNCHANGED <<tail, awaits>> /\ \A u \in Task :
          (Unsettled(u)' <=> Unsettled(u)) /\ (place'[u] = "called" => awaits[u] = Nobody)
    BY <1>1 DEF Begins, Unsettled, FirstIsCalled
  <2>2. QED
    BY <2>1, SameChain
<1>2. ASSUME NEW t \in Task, Queues(t) PROVE Chain' /\ FirstIsCalled'
  BY <1>2, QueueingExtendsTheChain
<1>3. ASSUME NEW t \in Task, Withholds(t) PROVE Chain' /\ FirstIsCalled'
  <2>1. /\ Settles(t) /\ Unsettled(t) /\ awaits[t] = Nobody
        /\ place' = [place EXCEPT ![t] = "recording"]
    BY <1>3 DEF Withholds, Unsettled
  <2>2. QED
    BY <2>1, SettlingShortensTheChain
<1>4. ASSUME NEW t \in Task, MakesCall(t) PROVE Chain' /\ FirstIsCalled'
  <2>1. UNCHANGED <<tail, awaits>> /\ \A u \in Task :
          (Unsettled(u)' <=> Unsettled(u)) /\ (place'[u] = "called" => awaits[u] = Nobody)
    BY <1>4 DEF MakesCall, Unsettled, FirstIsCalled
  <2>2. QED
    BY <2>1, SameChain
<1>5. ASSUME NEW t \in Task, Answers(t) PROVE Chain' /\ FirstIsCalled'
  <2>1. Settles(t) /\ place[t] = "called"
        /\ \E there \in Places \ {"queued", "called"} : place' = [place EXCEPT ![t] = there]
    BY <1>5 DEF Answers, Reviews, ReportsLimit, Throws
  <2>2. Unsettled(t) /\ awaits[t] = Nobody
    BY <2>1 DEF Unsettled, FirstIsCalled
  <2>3. QED
    BY <2>1, <2>2, SettlingShortensTheChain
<1>6. ASSUME NEW t \in Task, WritesRecord(t) PROVE Chain' /\ FirstIsCalled'
  <2>1. UNCHANGED <<tail, awaits>> /\ \A u \in Task :
          (Unsettled(u)' <=> Unsettled(u)) /\ (place'[u] = "called" => awaits[u] = Nobody)
    BY <1>6 DEF WritesRecord, Unsettled, FirstIsCalled
  <2>2. QED
    BY <2>1, SameChain
<1>7. CASE Tick \/ UNCHANGED gateVars
  <2>1. UNCHANGED <<tail, awaits, place>>
    BY <1>7 DEF Tick, gateVars
  <2>2. QED
    BY <2>1, SameChain DEF Unsettled, FirstIsCalled
<1>8. CASE Restart
  <2>1. tail' = Nobody /\ \A u \in Task : ~Unsettled(u)' /\ awaits'[u] = Nobody
    BY <1>8 DEF Restart, Unsettled
  <2>2. PICK rank \in [Task -> Nat] : TRUE
    BY [t \in Task |-> 0] \in [Task -> Nat]
  <2>3. Numbering(rank, 0)'
    BY <2>1 DEF Numbering
  <2>4. QED
    BY <2>1, <2>3 DEF Chain, FirstIsCalled, Unsettled
<1>9. QED
  BY <1>1, <1>2, <1>3, <1>4, <1>5, <1>6, <1>7, <1>8 DEF GateNext, Turn

\* What the gate remembers covers every reset still ahead of the clock.
LEMMA StepKeepsRemembered ==
  ASSUME GateTypeOK, GateTypeOK', Remembered, [GateNext]_gateVars
  PROVE  Remembered'
<1> USE ClockAssumption DEF GateTypeOK, gate, steps, Remembered, Instants, Never
<1>1. ASSUME NEW t \in Task, Begins(t) PROVE Remembered'
  BY <1>1 DEF Begins
<1>2. ASSUME NEW t \in Task, Queues(t) PROVE Remembered'
  BY <1>2 DEF Queues
<1>3. ASSUME NEW t \in Task, Withholds(t) PROVE Remembered'
  BY <1>3 DEF Withholds
<1>4. ASSUME NEW t \in Task, MakesCall(t) PROVE Remembered'
  <2>1. exhaustedUntil <= clock
    BY <1>4 DEF MakesCall, Withheld
  <2>2. told <= clock
    BY <2>1
  <2>3. QED
    BY <1>4, <2>2 DEF MakesCall
<1>5. ASSUME NEW t \in Task, Reviews(t) PROVE Remembered'
  BY <1>5 DEF Reviews
<1>6. ASSUME NEW t \in Task, ReportsLimit(t) PROVE Remembered'
  BY <1>6 DEF ReportsLimit, Noted
<1>7. ASSUME NEW t \in Task, Throws(t) PROVE Remembered'
  BY <1>7 DEF Throws
<1>8. ASSUME NEW t \in Task, WritesRecord(t) PROVE Remembered'
  BY <1>8 DEF WritesRecord
<1>9. CASE Tick
  BY <1>9 DEF Tick
<1>10. CASE Restart
  BY <1>10 DEF Restart
<1>11. CASE UNCHANGED gateVars
  BY <1>11 DEF gateVars
<1>12. QED
  BY <1>1, <1>2, <1>3, <1>4, <1>5, <1>6, <1>7, <1>8, <1>9, <1>10, <1>11
  DEF GateNext, Turn, Answers

LEMMA GateInvHolds == GateSpec => []GateInv
<1>1. GateInit => Chain /\ FirstIsCalled /\ Remembered
  <2> SUFFICES ASSUME GateInit PROVE Chain /\ FirstIsCalled /\ Remembered
    OBVIOUS
  <2>1. PICK rank \in [Task -> Nat] : TRUE
    BY [t \in Task |-> 0] \in [Task -> Nat]
  <2>2. Numbering(rank, 0)
    BY DEF GateInit, Numbering, Unsettled
  <2>3. QED
    BY <2>2 DEF GateInit, Chain, FirstIsCalled, Remembered, Never
<1>2. GateTypeOK /\ GateTypeOK' /\ (Chain /\ FirstIsCalled /\ Remembered) /\ [GateNext]_gateVars
        => (Chain /\ FirstIsCalled /\ Remembered)'
  BY StepKeepsChain, StepKeepsRemembered
<1>3. QED
  BY <1>1, <1>2, GateTypesHold, PTL DEF GateSpec, GateInv

-----------------------------------------------------------------------------
\* At most one reviewer call is in flight: both would be first of the chain.
THEOREM ReviewersAlternate == GateSpec => []OneReviewer
<1>1. GateInv => OneReviewer
  <2> SUFFICES ASSUME GateInv, NEW t \in Task, NEW u \in Task,
                      place[t] = "called", place[u] = "called"
               PROVE  t = u
    BY DEF OneReviewer
  <2>1. PICK rank \in [Task -> Nat], base \in Nat : Numbering(rank, base)
    BY DEF GateInv, Chain
  <2>2. awaits[t] = Nobody /\ awaits[u] = Nobody
    BY DEF GateInv, FirstIsCalled
  <2>3. rank[t] = base + 1 /\ rank[u] = base + 1
    BY <2>1, <2>2 DEF Numbering, Unsettled
  <2>4. QED
    BY <2>1, <2>3 DEF Numbering, Unsettled
<1>2. QED
  BY <1>1, GateInvHolds, PTL

\* No call is made before a reset the process was told of: a call that is not
\* withheld was asked for no earlier than what the gate remembers.
THEOREM ExhaustionIsHeeded == GateSpec => KnownExhaustedIsNotCalled
<1> DEFINE Heeded == \A t \in Task :
             place[t] = "queued" /\ place'[t] = "called" => told <= clock
<1>1. GateInv /\ [GateNext]_gateVars => [Heeded]_gateVars
  <2> SUFFICES ASSUME GateInv, GateNext, NEW t \in Task,
                      place[t] = "queued", place'[t] = "called"
               PROVE  told <= clock
    OBVIOUS
  <2> USE DEF GateInv, GateTypeOK, gate, steps
  <2>1. MakesCall(t)
    <3>1. ASSUME NEW u \in Task, Begins(u) PROVE FALSE
      BY <3>1 DEF Begins
    <3>2. ASSUME NEW u \in Task, Queues(u) PROVE FALSE
      BY <3>2 DEF Queues
    <3>3. ASSUME NEW u \in Task, Withholds(u) PROVE FALSE
      BY <3>3 DEF Withholds
    <3>4. ASSUME NEW u \in Task, Answers(u) PROVE FALSE
      BY <3>4 DEF Answers, Reviews, ReportsLimit, Throws
    <3>5. ASSUME NEW u \in Task, WritesRecord(u) PROVE FALSE
      BY <3>5 DEF WritesRecord
    <3>6. ASSUME NEW u \in Task, MakesCall(u) PROVE u = t
      BY <3>6 DEF MakesCall
    <3>7. ~Tick /\ ~Restart
      BY DEF Tick, Restart
    <3>8. QED
      BY <3>1, <3>2, <3>3, <3>4, <3>5, <3>6, <3>7 DEF GateNext, Turn
  <2>2. exhaustedUntil <= clock
    BY <2>1 DEF MakesCall, Withheld, Remembered, Instants, Never
  <2>3. QED
    BY <2>2, ClockAssumption DEF Remembered, Instants, Never
<1>2. QED
  BY <1>1, GateInvHolds, PTL DEF GateSpec, KnownExhaustedIsNotCalled
=============================================================================
