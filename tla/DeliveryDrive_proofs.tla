------------------------ MODULE DeliveryDrive_proofs ------------------------
(* Proofs about DeliveryDrive for every set of callers, pull requests and  *)
(* profiles.                                                               *)
EXTENDS DeliveryDrive, FiniteSetTheorems, SequenceTheorems, TLAPS

\* The part of the type invariant about the calls.
CallsOK ==
  /\ pc \in [Drives -> Phases] /\ call \in [Drives -> Call]
  /\ leg \in [Drives -> {"first", "recorded", "verified"}] /\ prof \in [Drives -> Profiles]
  /\ seen \in [Drives -> SUBSET Numbers] /\ decision \in [Drives -> Decisions \cup {None}]
  /\ found \in [Drives -> Numbers \cup {None}]
  /\ proof \in [Drives -> {None} \cup [receipt : Numbers, history : Seq(Attempt)]]
  /\ draft \in [Drives -> {None} \cup Seq(Attempt)]

\* What the other calls hold is left alone.
OthersStay(d) ==
  \A e \in Drives \ {d} : /\ pc'[e] = pc[e] /\ found'[e] = found[e] /\ prof'[e] = prof[e]
                         /\ proof'[e] = proof[e] /\ draft'[e] = draft[e]

\* The points at which a call holds something the records will be made of.
Critical == {"receipt", "conclusion", "rename", "make", "run", "load", "attempt"}

\* A call moves to a point at which it holds nothing of the kind.
CallFrame(d) == /\ pc'[d] \notin Critical /\ found'[d] \in {None, found[d]}
                /\ OthersStay(d)

\* The act a call takes first is one of those it names.
LEMMA FirstIsNamed ==
  ASSUME NEW A \in SUBSET Acts, A # {}
  PROVE  FirstOf(A) \in A
<1>1. CASE "observe" \in A
  BY <1>1 DEF FirstOf, Acts
<1>2. CASE "observe" \notin A /\ "publish" \in A
  BY <1>2 DEF FirstOf, Acts
<1>3. CASE A \cap {"observe", "publish"} = {} /\ "create" \in A
  BY <1>3 DEF FirstOf, Acts
<1>4. CASE A \cap {"observe", "publish", "create"} = {} /\ "merge" \in A
  BY <1>4 DEF FirstOf, Acts
<1>5. CASE A \subseteq {"reconcile", "verify", "conclude"} /\ "reconcile" \in A
  BY <1>5 DEF FirstOf, Acts
<1>6. CASE A \subseteq {"verify", "conclude"} /\ "verify" \in A
  BY <1>6 DEF FirstOf, Acts
<1>7. CASE A \subseteq {"conclude"}
  BY <1>7 DEF FirstOf, Acts
<1> QED BY <1>1, <1>2, <1>3, <1>4, <1>5, <1>6, <1>7 DEF Acts

\* A call that returns keeps the types.
LEMMA SettleKeeps ==
  ASSUME CallsOK, NEW d \in Drives, Settle(d)
  PROVE  CallsOK' /\ pc'[d] = "idle" /\ found'[d] = None
BY SMTT(60) DEF CallsOK, Settle, Phases, Call

\* So does one that is done with an act it names.
LEMMA DoneKeeps ==
  ASSUME CallsOK, NEW d \in Drives, NEW act \in Acts, Done(d, act)
  PROVE  /\ CallsOK'
         /\ pc'[d] \in {"idle"} \cup Acts
         /\ found'[d] = None /\ prof' = prof /\ OthersStay(d)
<1>1. CASE call[d].drive \/ call[d].acts \subseteq {act}
  <2>1. Settle(d)
    BY <1>1 DEF Done
  <2>2. CallsOK' /\ pc'[d] = "idle" /\ found'[d] = None
    BY <2>1, SettleKeeps
  <2>3. prof' = prof /\ OthersStay(d)
    BY <2>1 DEF Settle, CallsOK, OthersStay
  <2> QED BY <2>2, <2>3
<1>2. CASE ~(call[d].drive \/ call[d].acts \subseteq {act})
  <2> DEFINE rest == call[d].acts \ {act}
  <2>1. rest \in SUBSET Acts /\ rest # {}
    BY <1>2 DEF CallsOK, Call
  <2>2. FirstOf(rest) \in Acts
    BY <2>1, FirstIsNamed
  <2>3. pc' = [pc EXCEPT ![d] = FirstOf(rest)]
    BY <1>2 DEF Done, Goto
  <2>4. call' \in [Drives -> Call]
    BY <1>2, <2>1 DEF Done, CallsOK, Call
  <2>5. FirstOf(rest) \in Phases
    BY <2>2 DEF Phases, Acts
  <2>6. pc' \in [Drives -> Phases]
    BY <2>3, <2>5 DEF CallsOK
  <2> HIDE DEF rest
  <2> QED BY ZenonT(60), <1>2, <2>2, <2>3, <2>4, <2>6 DEF Done, CallsOK, OthersStay
<1> QED BY <1>1, <1>2


\* The ways in which a call moves without taking anything along.
Moves(d) == \/ \E act \in Acts : Done(d, act)
            \/ Settle(d)
            \/ \E at \in Phases \ Critical : Goto(d, at) /\ UNCHANGED <<memory, calling>>
            \/ Verified(d)

LEMMA MovesKeeps ==
  ASSUME CallsOK, NEW d \in Drives, Moves(d)
  PROVE  CallsOK' /\ CallFrame(d)
<1>1. ASSUME NEW act \in Acts, Done(d, act) PROVE CallsOK' /\ CallFrame(d)
  BY <1>1, DoneKeeps DEF CallFrame, Critical, Acts
<1>2. CASE Settle(d)
  <2>1. CallsOK' /\ pc'[d] = "idle" /\ found'[d] = None
    BY <1>2, SettleKeeps
  <2>2. OthersStay(d)
    BY <1>2 DEF Settle, CallsOK, OthersStay
  <2> QED BY <2>1, <2>2 DEF CallFrame, Critical
<1>3. ASSUME NEW at \in Phases \ Critical, Goto(d, at), UNCHANGED <<memory, calling>>
      PROVE  CallsOK' /\ CallFrame(d)
  <2>1. CallsOK'
    BY <1>3 DEF CallsOK, Goto, memory, calling
  <2>2. CallFrame(d)
    BY <1>3 DEF CallsOK, Goto, memory, calling, CallFrame, OthersStay
  <2> QED BY <2>1, <2>2
<1>4. CASE Verified(d)
  <2>1. CASE ~call[d].drive
    BY <1>1, <1>4, <2>1 DEF Verified, Acts
  <2>2. CASE call[d].drive
    <3>1. CallsOK'
      BY <1>4, <2>2 DEF Verified, CallsOK, Goto, Phases
    <3>2. CallFrame(d)
      BY <1>4, <2>2 DEF Verified, CallsOK, Goto, CallFrame, OthersStay, Critical
    <3> QED BY <3>1, <3>2
  <2> QED BY <2>1, <2>2
<1> QED BY <1>1, <1>2, <1>3, <1>4 DEF Moves

\* The part of the type invariant about the forge, the machine and the records.
WorldOK ==
  /\ ref \in Heads \cup {None} /\ known \in BOOLEAN /\ green \in BOOLEAN
  /\ pulls \in [Numbers -> Pull] /\ checks \in CheckStates
  /\ receipt \in Numbers \cup {None} /\ history \in Seq(Attempt)
  /\ concluded \in Profiles \cup {None}
  /\ lease \in Drives \cup {None} /\ profile \in Profiles
  /\ workspace \in BOOLEAN /\ fetched \in BOOLEAN /\ resolves \in BOOLEAN /\ permitted \in BOOLEAN

\* And about the requests, their audit and the bounds.
EffectsOK ==
  /\ flight \in [Drives -> {None} \cup [kind : Kinds, number : Numbers \cup {0}]]
  /\ audit \in [Drives -> {None, "AUTHORISED", "NOT_DISPATCHED", "DISPATCHED", "DISPATCHED_AT_COMMIT"}]
  /\ sent \in [Drives -> SUBSET Kinds]
  /\ asks \in 0..Asks /\ humans \in 0..HumanMoves /\ faults \in 0..Faults

Typed == CallsOK /\ WorldOK /\ EffectsOK

LEMMA TypeParts == TypeOK <=> Typed
BY DEF TypeOK, Typed, CallsOK, WorldOK, EffectsOK

\* A step that moves one call and leaves the records and the pull requests alone.
Frame(d) == /\ UNCHANGED <<receipt, history, concluded, pulls>>
            /\ lease' = lease \/ (lease = d /\ lease' = None)
            /\ CallFrame(d)

LEMMA FaultKeeps ==
  ASSUME DeliveryAssumption, EffectsOK, Faulty \/ Sound
  PROVE  faults' \in 0..Faults
BY DEF DeliveryAssumption, EffectsOK, Faulty, Sound

LEMMA PublishingKeeps ==
  ASSUME DeliveryAssumption, Typed, NEW d \in Drives, Publishing(d)
  PROVE  Typed' /\ Frame(d)
<1> USE DEF Typed
<1>1. CASE PublishRecheck(d)
  <2>1. Moves(d)
    BY <1>1 DEF PublishRecheck, Moves, Phases, Critical, Acts
  <2>2. WorldOK' /\ UNCHANGED <<receipt, history, concluded, pulls, lease>>
    BY <1>1 DEF PublishRecheck, WorldOK, forge, records, machine
  <2>3. EffectsOK'
    BY <1>1, FaultKeeps DEF PublishRecheck, EffectsOK, Sound
  <2> QED BY <2>1, <2>2, <2>3, MovesKeeps DEF Frame
<1>2. CASE PublishSend(d)
  <2>1. Moves(d)
    BY <1>2 DEF PublishSend, Moves, Phases, Critical, Acts
  <2>2. WorldOK' /\ UNCHANGED <<receipt, history, concluded, pulls, lease>>
    BY <1>2 DEF PublishSend, WorldOK, forge, records, machine
  <2>3. EffectsOK'
    BY <1>2, FaultKeeps DEF PublishSend, EffectsOK, RecordOutcome, Kinds
  <2> QED BY <2>1, <2>2, <2>3, MovesKeeps DEF Frame
<1>3. CASE PublishGrade(d)
  <2>1. Moves(d)
    BY <1>3 DEF PublishGrade, Moves, Acts
  <2>2. WorldOK' /\ UNCHANGED <<receipt, history, concluded, pulls, lease>>
    BY <1>3 DEF PublishGrade, WorldOK, forge, records, machine
  <2>3. EffectsOK'
    BY <1>3 DEF PublishGrade, EffectsOK, RecordOutcome, bounds
  <2> QED BY <2>1, <2>2, <2>3, MovesKeeps DEF Frame
<1> QED BY <1>1, <1>2, <1>3 DEF Publishing

LEMMA CreatingKeeps ==
  ASSUME DeliveryAssumption, Typed, NEW d \in Drives, Creating(d)
  PROVE  Typed' /\ Frame(d)
<1> USE DEF Typed
<1>1. CASE CreateRecheck(d)
  <2>1. Moves(d)
    BY <1>1 DEF CreateRecheck, Moves, Phases, Critical, Acts
  <2>2. WorldOK' /\ UNCHANGED <<receipt, history, concluded, pulls, lease>>
    BY <1>1 DEF CreateRecheck, WorldOK, forge, records, machine
  <2>3. EffectsOK'
    BY <1>1, FaultKeeps DEF CreateRecheck, EffectsOK, Kinds, effects, bounds
  <2> QED BY <2>1, <2>2, <2>3, MovesKeeps DEF Frame
<1>2. CASE CreateSend(d)
  <2>1. Moves(d)
    BY <1>2 DEF CreateSend, Moves, Phases, Critical, Acts
  <2>2. WorldOK' /\ UNCHANGED <<receipt, history, concluded, pulls, lease>>
    BY <1>2 DEF CreateSend, WorldOK, forge, records, machine
  <2>3. EffectsOK'
    BY <1>2, FaultKeeps DEF CreateSend, EffectsOK, Kinds, effects, bounds
  <2> QED BY <2>1, <2>2, <2>3, MovesKeeps DEF Frame
<1>3. CASE CreateGrade(d)
  <2>1. Moves(d)
    BY <1>3 DEF CreateGrade, Moves, Phases, Critical, Acts
  <2>2. WorldOK' /\ UNCHANGED <<receipt, history, concluded, pulls, lease>>
    BY <1>3 DEF CreateGrade, WorldOK, forge, records, machine
  <2>3. EffectsOK'
    BY <1>3, FaultKeeps DEF CreateGrade, EffectsOK, Kinds, effects, bounds
  <2> QED BY <2>1, <2>2, <2>3, MovesKeeps DEF Frame
<1> QED BY <1>1, <1>2, <1>3 DEF Creating

LEMMA MergingKeeps ==
  ASSUME DeliveryAssumption, Typed, NEW d \in Drives, Merging(d)
  PROVE  Typed' /\ Frame(d)
<1> USE DEF Typed
<1>1. CASE MergeRecheck(d)
  <2>1. Moves(d)
    BY <1>1 DEF MergeRecheck, Moves, Phases, Critical, Acts
  <2>2. WorldOK' /\ UNCHANGED <<receipt, history, concluded, pulls, lease>>
    BY <1>1 DEF MergeRecheck, WorldOK, forge, records, machine
  <2>3. EffectsOK'
    BY <1>1, FaultKeeps DEF MergeRecheck, EffectsOK, Kinds, effects, bounds
  <2> QED BY <2>1, <2>2, <2>3, MovesKeeps DEF Frame
<1>2. CASE MergeSend(d)
  <2>1. Moves(d)
    BY <1>2 DEF MergeSend, Moves, Phases, Critical, Acts
  <2>2. WorldOK' /\ UNCHANGED <<receipt, history, concluded, pulls, lease>>
    BY <1>2 DEF MergeSend, WorldOK, forge, records, machine
  <2>3. EffectsOK'
    BY SMTT(60), <1>2, FaultKeeps DEF MergeSend, CallsOK, EffectsOK, Kinds, effects, bounds
  <2> QED BY <2>1, <2>2, <2>3, MovesKeeps DEF Frame
<1>3. CASE MergeGrade(d)
  <2>1. Moves(d)
    BY <1>3 DEF MergeGrade, Moves, Phases, Critical, Acts
  <2>2. WorldOK' /\ UNCHANGED <<receipt, history, concluded, pulls, lease>>
    BY <1>3 DEF MergeGrade, WorldOK, forge, records, machine
  <2>3. EffectsOK'
    BY <1>3, FaultKeeps DEF MergeGrade, EffectsOK, Kinds, effects, bounds
  <2> QED BY <2>1, <2>2, <2>3, MovesKeeps DEF Frame
<1> QED BY <1>1, <1>2, <1>3 DEF Merging

LEMMA ObservingKeeps ==
  ASSUME DeliveryAssumption, Typed, NEW d \in Drives, Observing(d)
  PROVE  Typed' /\ Frame(d)
<1> USE DEF Typed
<1>1. CASE ObservePulls(d)
  <2>1. CallsOK' /\ CallFrame(d)
    <3>1. CASE Done(d, "observe")
      BY <3>1, MovesKeeps DEF Moves, Acts
    <3>2. CASE /\ seen' = [seen EXCEPT ![d] = OpenAtHead] /\ Goto(d, "checks")
               /\ UNCHANGED <<decision, found, proof, draft, calling>>
      <4>1. OpenAtHead \subseteq Numbers
        BY DEF OpenAtHead, AtHead
      <4>2. CallsOK'
        BY <3>2, <4>1 DEF CallsOK, Goto, Phases, calling
      <4>3. CallFrame(d)
        BY <3>2 DEF CallsOK, Goto, CallFrame, OthersStay, Critical, calling
      <4> QED BY <4>2, <4>3
    <3> QED BY <1>1, <3>1, <3>2 DEF ObservePulls
  <2>2. WorldOK' /\ UNCHANGED <<receipt, history, concluded, pulls, lease>>
    BY <1>1 DEF ObservePulls, WorldOK, forge, records, machine
  <2>3. EffectsOK'
    BY <1>1, FaultKeeps DEF ObservePulls, EffectsOK, effects
  <2> QED BY <2>1, <2>2, <2>3 DEF Frame
<1>2. CASE ObserveChecks(d)
  <2> DEFINE decided == Decide(seen[d], checks)
             rest == call[d].acts \ {"observe"}
  <2>1. CallsOK' /\ CallFrame(d)
    <3>1. CASE Settle(d) \/ Done(d, "observe")
      BY <3>1, MovesKeeps DEF Moves, Acts
    <3>2. decided \in Decisions
      BY DEF Decide, Decisions, WorldOK, CheckStates
    <3>3. CASE /\ Answer(d, decided) # "idle"
               /\ decision' = [decision EXCEPT ![d] = decided]
               /\ Goto(d, Answer(d, decided))
               /\ UNCHANGED <<seen, found, proof, draft, calling>>
      <4>1. Answer(d, decided) \in {"idle", "merge", "publish", "create"}
        BY <3>2 DEF Answer
      <4>2. Answer(d, decided) \in Phases \ Critical
        BY <4>1 DEF Phases, Critical
      <4> HIDE DEF decided
      <4>3. CallsOK'
        BY <3>2, <3>3, <4>2 DEF CallsOK, Goto, calling
      <4>4. CallFrame(d)
        BY <3>3, <4>2 DEF CallsOK, Goto, CallFrame, OthersStay, calling
      <4> QED BY <4>3, <4>4
    <3>4. CASE /\ rest # {} /\ decision' = [decision EXCEPT ![d] = decided]
               /\ call' = [call EXCEPT ![d].acts = rest]
               /\ Goto(d, FirstOf(rest))
               /\ UNCHANGED <<seen, found, proof, draft, leg, prof>>
      <4>1. rest \in SUBSET Acts
        BY DEF CallsOK, Call
      <4>2. FirstOf(rest) \in Phases \ Critical
        BY <3>4, <4>1, FirstIsNamed DEF Phases, Critical, Acts
      <4>3. call' \in [Drives -> Call]
        BY <3>4, <4>1 DEF CallsOK, Call
      <4> HIDE DEF decided, rest
      <4>4. CallsOK'
        BY <3>2, <3>4, <4>2, <4>3 DEF CallsOK, Goto
      <4>5. CallFrame(d)
        BY <3>4, <4>2 DEF CallsOK, Goto, CallFrame, OthersStay
      <4> QED BY <4>4, <4>5
    <3>5. ~(call[d].drive \/ call[d].acts \subseteq {"observe"}) => rest # {}
      OBVIOUS
    <3> QED BY <1>2, <3>1, <3>3, <3>4, <3>5 DEF ObserveChecks
  <2>2. WorldOK' /\ UNCHANGED <<receipt, history, concluded, pulls, lease>>
    BY <1>2 DEF ObserveChecks, WorldOK, forge, records, machine
  <2>3. EffectsOK'
    BY <1>2, FaultKeeps DEF ObserveChecks, EffectsOK, effects
  <2> QED BY <2>1, <2>2, <2>3 DEF Frame
<1> QED BY <1>1, <1>2 DEF Observing

----------------------------------------------------------------------------
(* The invariant, and the steps that leave it alone.                       *)

\* Whoever verifies has the lease, and there is a receipt.
HolderHasLease ==
  \A d \in Drives : pc[d] \in {"make", "run", "load", "attempt"} => lease = d /\ receipt # None

\* What a verification is about to write is the history there is and one attempt more.
DraftIsDue ==
  \A d \in Drives :
    /\ pc[d] = "load" => \E v \in Verdicts : draft[d] = <<[profile |-> prof[d], verdict |-> v]>>
    /\ pc[d] = "attempt" =>
         /\ ~HasPass(history, prof[d]) /\ Len(history) < MaxAttempts
         /\ \E v \in Verdicts : draft[d] = Append(history, [profile |-> prof[d], verdict |-> v])

FoundToWrite == \A d \in Drives : pc[d] = "receipt" => found[d] # None

\* What a conclusion is about to be made of passed, and what one about to replace another rests
\* on is still recorded.
Joined == \A d \in Drives :
            /\ pc[d] = "conclusion" =>
                 /\ proof[d] \in [receipt : Numbers, history : Seq(Attempt)]
                 /\ HasPass(proof[d].history, prof[d])
            /\ pc[d] = "rename" => receipt # None /\ HasPass(history, prof[d])

\* Nothing is attempted under a profile after it passed.
PassIsLast ==
  \A i, j \in DOMAIN history : i < j /\ history[i].verdict = "VERIFIED_PASS" =>
                                 history[j].profile # history[i].profile

ConcludedPassed == concluded # None => receipt # None /\ HasPass(history, concluded)

RecordsInv == /\ ReceiptIsTheMerge /\ HolderHasLease /\ DraftIsDue /\ FoundToWrite
              /\ Joined /\ PassIsLast /\ ConcludedPassed
DeliveryInv == Typed /\ RecordsInv

\* What the records promise, one step of it.
PromiseStep == [Promise!Next]_(Promise!vars)

Quiet == UNCHANGED <<MergedHere, receipt, history, concluded>>

LEMMA QuietKeepsPromise == ASSUME Quiet PROVE PromiseStep
BY DEF Quiet, PromiseStep, Promise!vars

LEMMA FrameKeeps ==
  ASSUME DeliveryInv, Typed', NEW d \in Drives, Frame(d)
  PROVE  DeliveryInv' /\ Quiet
<1> USE DEF DeliveryInv, RecordsInv, Frame, CallFrame
<1>1. Quiet
  BY DEF Quiet, MergedHere
<1>2. ReceiptIsTheMerge'
  <2>1. MergedHere' = MergedHere
    BY <1>1 DEF Quiet
  <2>2. \A e \in Drives : found'[e] \in {None, found[e]}
    BY DEF OthersStay
  <2> QED BY <2>1, <2>2 DEF ReceiptIsTheMerge
<1>3. HolderHasLease'
  BY DEF HolderHasLease, Critical, OthersStay
<1>4. DraftIsDue'
  BY DEF DraftIsDue, Critical, OthersStay, HasPass
<1>5. FoundToWrite'
  BY DEF FoundToWrite, Critical, OthersStay
<1>6. Joined'
  BY DEF Joined, Critical, OthersStay, HasPass
<1>7. PassIsLast' /\ ConcludedPassed'
  BY DEF PassIsLast, ConcludedPassed, HasPass
<1> QED BY <1>1, <1>2, <1>3, <1>4, <1>5, <1>6, <1>7

----------------------------------------------------------------------------
(* The receipt.                                                            *)

\* What is observed merged is merged here, and it is the only one there is.
LEMMA ObservedIsTheOne ==
  ASSUME DeliveryAssumption, Typed, NEW n \in MergeObserved
  PROVE  n \in Numbers /\ MergedHere = {n}
<1>1. Cardinality(AtHead) = 1 /\ n \in AtHead
      /\ \A m \in AtHead : pulls[m].st = "merged" /\ pulls[m].base = "intended"
  BY DEF MergeObserved
<1>2. OpenAtHead = {}
  BY <1>1 DEF OpenAtHead
<1>3. MergedHere = AtHead
  BY <1>1 DEF MergedHere, AtHead, Delivered, Typed, WorldOK, Pull
<1>4. \A m \in AtHead : m = n
  <2>1. IsFiniteSet(AtHead)
    BY FS_Subset DEF AtHead, DeliveryAssumption
  <2>2. PICK m : AtHead = {m}
    BY <1>1, <2>1, FS_Singleton
  <2> QED BY <1>1, <2>2
<1> QED BY <1>1, <1>3, <1>4 DEF AtHead

LEMMA RecordingKeeps ==
  ASSUME DeliveryAssumption, DeliveryInv, NEW d \in Drives, Recording(d)
  PROVE  DeliveryInv' /\ PromiseStep
<1> USE DEF Typed
<1>1. CASE Reconcile(d)
  <2>1. WorldOK' /\ UNCHANGED <<receipt, history, concluded, pulls, lease>>
    BY <1>1 DEF Reconcile, DeliveryInv, WorldOK, forge, records, machine
  <2>2. EffectsOK'
    BY <1>1, FaultKeeps DEF Reconcile, DeliveryInv, EffectsOK, effects
  <2>3. CASE Moves(d)
    BY <2>1, <2>2, <2>3, MovesKeeps, FrameKeeps, QuietKeepsPromise DEF DeliveryInv, Frame
  <2>4. CASE /\ leg' = [leg EXCEPT ![d] = "recorded"] /\ Goto(d, "conclude")
             /\ UNCHANGED <<memory, call, prof>>
    <3>1. CallsOK' /\ CallFrame(d)
      BY <2>4 DEF DeliveryInv, CallsOK, Goto, Phases, memory, CallFrame, OthersStay, Critical
    <3> QED BY <2>1, <2>2, <3>1, FrameKeeps, QuietKeepsPromise DEF DeliveryInv, Frame
  <2>5. ASSUME NEW n \in MergeObserved, receipt = None,
               found' = [found EXCEPT ![d] = n], Goto(d, "receipt"),
               UNCHANGED <<seen, decision, proof, draft, calling>>
        PROVE  DeliveryInv' /\ PromiseStep
    <3>1. n \in Numbers /\ MergedHere = {n}
      BY ObservedIsTheOne DEF DeliveryInv
    <3>2. CallsOK'
      BY <2>5, <3>1 DEF DeliveryInv, CallsOK, Goto, Phases, calling
    <3>3. Quiet
      BY <2>1 DEF Quiet, MergedHere
    <3>4. ReceiptIsTheMerge'
      <4>1. MergedHere' = MergedHere
        BY <3>3 DEF Quiet
      <4>2. \A e \in Drives : found'[e] \in {n, found[e]}
        BY <2>5 DEF DeliveryInv, CallsOK
      <4>3. \A e \in Drives : found[e] \in {None, n}
        BY <3>1 DEF DeliveryInv, RecordsInv, ReceiptIsTheMerge
      <4> QED BY <2>1, <2>5, <3>1, <4>1, <4>2, <4>3 DEF ReceiptIsTheMerge
    <3>5. /\ HolderHasLease' /\ DraftIsDue' /\ FoundToWrite'
          /\ Joined' /\ PassIsLast' /\ ConcludedPassed'
      BY <2>1, <2>5, <3>1 DEF HolderHasLease, DraftIsDue, FoundToWrite, Joined, PassIsLast,
         ConcludedPassed, DeliveryInv, RecordsInv, CallsOK, Goto, calling, HasPass, DeliveryAssumption
    <3> QED BY <2>1, <2>2, <3>2, <3>3, <3>4, <3>5, QuietKeepsPromise DEF DeliveryInv, RecordsInv
  <2>6. Unmerged(d) \in {"publish", "idle", "observe"}
    BY DEF Unmerged, Situation
  <2> QED BY <1>1, <2>3, <2>4, <2>5, <2>6 DEF Reconcile, Moves, Phases, Critical, Acts
<1>2. CASE WriteReceipt(d)
  <2>1. UNCHANGED <<ref, known, pulls, checks, green, history, concluded, lease>>
    BY <1>2 DEF WriteReceipt, forge, machine
  <2>2. EffectsOK'
    BY <1>2, FaultKeeps DEF WriteReceipt, DeliveryInv, EffectsOK, effects
  <2>3. CallsOK' /\ CallFrame(d)
    <3>1. CASE Moves(d)
      BY <3>1, MovesKeeps DEF DeliveryInv
    <3>2. CASE /\ leg' = [leg EXCEPT ![d] = "recorded"] /\ Goto(d, "conclude")
               /\ found' = [found EXCEPT ![d] = None]
               /\ UNCHANGED <<seen, decision, proof, draft, call, prof>>
      BY <3>2 DEF DeliveryInv, CallsOK, Goto, Phases, CallFrame, OthersStay, Critical
    <3> QED BY <1>2, <3>1, <3>2 DEF WriteReceipt, Moves, Acts
  <2>4. found[d] \in Numbers
    BY <1>2 DEF WriteReceipt, DeliveryInv, RecordsInv, FoundToWrite, CallsOK
  <2>5. receipt' \in {receipt, found[d]}
    BY <1>2 DEF WriteReceipt
  <2>6. WorldOK'
    BY <1>2, <2>1, <2>4, <2>5 DEF WriteReceipt, DeliveryInv, WorldOK, machine
  <2>7. MergedHere' = MergedHere
    BY <2>1 DEF MergedHere
  <2>8. found[d] \in MergedHere /\ (receipt # None => found[d] = receipt)
    BY <2>4 DEF DeliveryInv, RecordsInv, ReceiptIsTheMerge, DeliveryAssumption
  <2>9. PromiseStep
    BY <2>1, <2>4, <2>5, <2>7, <2>8
       DEF PromiseStep, Promise!vars, Promise!Next, Promise!Record
  <2>10. ReceiptIsTheMerge'
    <3>1. \A e \in Drives : found'[e] \in {None, found[e]}
      BY <2>3 DEF CallFrame, OthersStay
    <3> QED BY <2>5, <2>7, <3>1 DEF DeliveryInv, RecordsInv, ReceiptIsTheMerge
  <2>11. receipt # None => receipt' # None
    BY <2>4, <2>5 DEF DeliveryAssumption
  <2>12. HolderHasLease' /\ FoundToWrite' /\ Joined'
    BY <2>1, <2>3, <2>11 DEF DeliveryInv, RecordsInv, HolderHasLease, FoundToWrite,
       Joined, CallFrame, OthersStay, Critical, HasPass
  <2>14. DraftIsDue'
    BY ZenonT(60), <2>1, <2>3 DEF DeliveryInv, RecordsInv, DraftIsDue, CallFrame, OthersStay, Critical, HasPass
  <2>13. PassIsLast' /\ ConcludedPassed'
    BY <2>1, <2>11 DEF DeliveryInv, RecordsInv, PassIsLast, ConcludedPassed, HasPass
  <2> QED BY <2>2, <2>3, <2>6, <2>9, <2>10, <2>12, <2>13, <2>14 DEF DeliveryInv, RecordsInv
<1> QED BY <1>1, <1>2 DEF Recording

----------------------------------------------------------------------------
(* Verification.                                                           *)

\* A history that gets one attempt more, under a profile that has not passed.
LEMMA AttemptKeeps ==
  ASSUME history \in Seq(Attempt), PassIsLast, NEW p \in Profiles, NEW v \in Verdicts,
         ~HasPass(history, p), history' = Append(history, [profile |-> p, verdict |-> v])
  PROVE  /\ history' \in Seq(Attempt) /\ PassIsLast'
         /\ \A q : HasPass(history, q) => HasPass(history', q)
<1> DEFINE a == [profile |-> p, verdict |-> v]
<1>1. a \in Attempt
  BY DEF Attempt
<1>2. history' \in Seq(Attempt) /\ Len(history') = Len(history) + 1
  BY <1>1
<1>3. \A i \in 1..Len(history) : history'[i] = history[i]
  BY <1>1
<1>4. history'[Len(history) + 1] = a
  BY <1>1
<1>5. DOMAIN history = 1..Len(history) /\ DOMAIN history' = 1..(Len(history) + 1)
      /\ Len(history) \in Nat
  BY <1>2
<1>6. a.profile = p
  OBVIOUS
<1> HIDE DEF a
<1>7. PassIsLast'
  BY <1>3, <1>4, <1>5, <1>6 DEF PassIsLast, HasPass
<1>8. \A q : HasPass(history, q) => HasPass(history', q)
  BY <1>3, <1>5 DEF HasPass
<1> QED BY <1>2, <1>7, <1>8

LEMMA VerifyStartKeeps ==
  ASSUME DeliveryAssumption, DeliveryInv, NEW d \in Drives, VerifyBegin(d) \/ VerifyMake(d)
  PROVE  DeliveryInv' /\ Quiet
<1> USE DEF Typed
<1>1. UNCHANGED <<receipt, history, concluded, pulls>> /\ EffectsOK'
  BY DEF VerifyBegin, VerifyMake, forge, records, DeliveryInv, EffectsOK, effects, bounds
<1>2. WorldOK'
  BY DEF VerifyBegin, VerifyMake, forge, records, DeliveryInv, WorldOK, Verified
<1>3. CASE Moves(d) /\ (lease' = lease \/ (lease = d /\ lease' = None))
  BY <1>1, <1>2, <1>3, MovesKeeps, FrameKeeps DEF DeliveryInv, Frame
<1>4. CASE /\ VerifyBegin(d) /\ LeaseFree /\ receipt # None /\ lease' = d /\ Goto(d, "make")
           /\ UNCHANGED <<memory, calling>>
  <2>1. CallsOK'
    BY <1>4 DEF DeliveryInv, CallsOK, Goto, Phases, memory, calling
  <2>2. Quiet
    BY <1>1 DEF Quiet, MergedHere
  <2>3. ReceiptIsTheMerge'
    BY <1>1, <1>4, <2>2 DEF DeliveryInv, RecordsInv, ReceiptIsTheMerge, Quiet, memory
  <2>4. HolderHasLease'
    BY <1>1, <1>4 DEF DeliveryInv, RecordsInv, HolderHasLease, LeaseFree, DeliveryAssumption,
       CallsOK, Goto
  <2>5. PassIsLast' /\ ConcludedPassed'
    BY <1>1 DEF DeliveryInv, RecordsInv, PassIsLast, ConcludedPassed, HasPass
  <2>6. DraftIsDue'
    BY <1>1, <1>4 DEF DeliveryInv, RecordsInv, DraftIsDue, CallsOK, Goto, memory, calling
  <2>7. FoundToWrite'
    BY <1>1, <1>4 DEF DeliveryInv, RecordsInv, FoundToWrite, CallsOK, Goto, memory, calling
  <2>8. Joined'
    BY <1>1, <1>4 DEF DeliveryInv, RecordsInv, Joined, CallsOK, Goto, memory, calling, HasPass
  <2> QED BY <1>1, <1>2, <2>1, <2>2, <2>3, <2>4, <2>5, <2>6, <2>7, <2>8 DEF DeliveryInv, RecordsInv
<1>5. CASE VerifyMake(d) /\ Goto(d, "run") /\ UNCHANGED <<memory, calling, lease>>
  <2>1. CallsOK'
    BY <1>5 DEF DeliveryInv, CallsOK, Goto, Phases, memory, calling
  <2>2. Quiet
    BY <1>1 DEF Quiet, MergedHere
  <2>3. ReceiptIsTheMerge'
    BY <1>1, <1>5, <2>2 DEF DeliveryInv, RecordsInv, ReceiptIsTheMerge, Quiet, memory
  <2>4. HolderHasLease'
    BY <1>1, <1>5 DEF DeliveryInv, RecordsInv, HolderHasLease, VerifyMake, CallsOK, Goto
  <2>5. PassIsLast' /\ ConcludedPassed'
    BY <1>1 DEF DeliveryInv, RecordsInv, PassIsLast, ConcludedPassed, HasPass
  <2>6. DraftIsDue'
    BY <1>1, <1>5 DEF DeliveryInv, RecordsInv, DraftIsDue, CallsOK, Goto, memory, calling
  <2>7. FoundToWrite'
    BY <1>1, <1>5 DEF DeliveryInv, RecordsInv, FoundToWrite, CallsOK, Goto, memory, calling
  <2>8. Joined'
    BY <1>1, <1>5 DEF DeliveryInv, RecordsInv, Joined, CallsOK, Goto, memory, calling, HasPass
  <2> QED BY <1>1, <1>2, <2>1, <2>2, <2>3, <2>4, <2>5, <2>6, <2>7, <2>8 DEF DeliveryInv, RecordsInv
<1>6. CASE VerifyBegin(d)
  BY <1>3, <1>4, <1>6 DEF VerifyBegin, Moves, Acts
<1>7. CASE VerifyMake(d)
  <2>1. lease = d
    BY <1>7 DEF VerifyMake, DeliveryInv, RecordsInv, HolderHasLease
  <2> QED BY <1>3, <1>5, <1>7, <2>1 DEF VerifyMake, Moves, Acts
<1> QED BY <1>6, <1>7

LEMMA VerifyRunKeeps ==
  ASSUME DeliveryAssumption, DeliveryInv, NEW d \in Drives, VerifyRun(d)
  PROVE  DeliveryInv' /\ Quiet
<1> USE DEF Typed
<1>1. PICK v \in Verdicts : draft' = [draft EXCEPT ![d] = <<[profile |-> prof[d], verdict |-> v]>>]
  BY DEF VerifyRun
<1>2. UNCHANGED <<forge, records, lease, fetched, profile, resolves, permitted,
                  seen, decision, found, proof, calling, effects>> /\ Goto(d, "load")
      /\ workspace' \in {FALSE, workspace}
  BY DEF VerifyRun
<1>3. EffectsOK'
  BY FaultKeeps DEF VerifyRun, DeliveryInv, EffectsOK, effects
<1>4. <<[profile |-> prof[d], verdict |-> v]>> \in Seq(Attempt)
  BY DEF Attempt, DeliveryInv, CallsOK
<1>5. CallsOK' /\ WorldOK'
  BY ZenonT(60), <1>1, <1>2, <1>4 DEF DeliveryInv, CallsOK, WorldOK, Goto, Phases, calling, forge, records
<1>6. Quiet
  BY <1>2 DEF Quiet, MergedHere, forge, records
<1>7. ReceiptIsTheMerge'
  BY <1>2, <1>6 DEF DeliveryInv, RecordsInv, ReceiptIsTheMerge, Quiet
<1>8. HolderHasLease' /\ FoundToWrite' /\ Joined' /\ PassIsLast' /\ ConcludedPassed'
  BY <1>2 DEF VerifyRun, DeliveryInv, RecordsInv, HolderHasLease, FoundToWrite, Joined, PassIsLast,
     ConcludedPassed, CallsOK, Goto, calling, records, HasPass
<1>9. DraftIsDue'
  BY <1>1, <1>2 DEF DeliveryInv, RecordsInv, DraftIsDue, CallsOK, Goto, calling, records, HasPass
<1> QED BY <1>3, <1>5, <1>6, <1>7, <1>8, <1>9 DEF DeliveryInv, RecordsInv

LEMMA VerifyLoadKeeps ==
  ASSUME DeliveryAssumption, DeliveryInv, NEW d \in Drives, VerifyLoad(d)
  PROVE  DeliveryInv' /\ Quiet
<1> USE DEF Typed
<1>1. UNCHANGED <<forge, records, workspace, fetched, profile, resolves, permitted, effects, bounds>>
      /\ pc[d] = "load"
  BY DEF VerifyLoad
<1>2. lease = d
  BY <1>1 DEF DeliveryInv, RecordsInv, HolderHasLease
<1>3. EffectsOK'
  BY <1>1 DEF DeliveryInv, EffectsOK, effects, bounds
<1>4. CASE Verified(d) /\ lease' = None
  <2>1. WorldOK'
    BY <1>1, <1>4 DEF DeliveryInv, WorldOK, forge, records
  <2> QED BY <1>1, <1>2, <1>3, <1>4, <2>1, MovesKeeps, FrameKeeps
          DEF DeliveryInv, Frame, Moves, forge, records
<1>5. CASE /\ ~HasPass(history, prof[d]) /\ ~(Len(history) >= MaxAttempts)
           /\ draft' = [draft EXCEPT ![d] = history \o @] /\ Goto(d, "attempt")
           /\ UNCHANGED <<seen, decision, found, proof, calling, lease>>
  <2>1. PICK v \in Verdicts : draft[d] = <<[profile |-> prof[d], verdict |-> v]>>
    BY <1>1 DEF DeliveryInv, RecordsInv, DraftIsDue
  <2> DEFINE a == [profile |-> prof[d], verdict |-> v]
  <2>2. a \in Attempt /\ history \in Seq(Attempt)
    BY DEF DeliveryInv, CallsOK, WorldOK, Attempt
  <2>3. history \o <<a>> = Append(history, a) /\ Append(history, a) \in Seq(Attempt)
        /\ Len(history) \in Nat
    BY <2>2, AppendIsConcat
  <2>4. draft' = [draft EXCEPT ![d] = Append(history, a)]
    BY <1>5, <2>1, <2>3
  <2>5. CallsOK' /\ WorldOK'
    <3> DEFINE longer == Append(history, a)
    <3>1. longer \in Seq(Attempt)
      BY <2>3
    <3>2. draft' = [draft EXCEPT ![d] = longer]
      BY <2>4
    <3> HIDE DEF longer
    <3>3. draft' \in [Drives -> {None} \cup Seq(Attempt)]
      BY <3>1, <3>2 DEF DeliveryInv, CallsOK
    <3>4. pc' \in [Drives -> Phases]
      BY <1>5 DEF DeliveryInv, CallsOK, Goto, Phases
    <3>5. WorldOK'
      BY <1>1, <1>5 DEF DeliveryInv, WorldOK, forge, records
    <3> QED BY <1>5, <3>3, <3>4, <3>5 DEF DeliveryInv, CallsOK, calling
  <2>6. Quiet
    BY <1>1 DEF Quiet, MergedHere, forge, records
  <2>7. ReceiptIsTheMerge'
    BY <1>1, <1>5, <2>6 DEF DeliveryInv, RecordsInv, ReceiptIsTheMerge, Quiet, records
  <2>8. HolderHasLease' /\ FoundToWrite' /\ Joined' /\ PassIsLast' /\ ConcludedPassed'
    BY <1>1, <1>5 DEF DeliveryInv, RecordsInv, HolderHasLease, FoundToWrite, Joined, PassIsLast,
       ConcludedPassed, CallsOK, Goto, calling, records, HasPass
  <2>9. DraftIsDue'
    <3>1. UNCHANGED <<history, prof>> /\ pc' = [pc EXCEPT ![d] = "attempt"]
      BY <1>1, <1>5 DEF records, calling, Goto
    <3>2. pc'[d] = "attempt" /\ draft'[d] = Append(history, [profile |-> prof[d], verdict |-> v])
      BY <2>4, <3>1 DEF DeliveryInv, CallsOK
    <3>3. Len(history) < MaxAttempts
      BY <1>5, <2>3 DEF DeliveryAssumption
    <3>4. \A e \in Drives \ {d} : pc'[e] = pc[e] /\ draft'[e] = draft[e]
      BY <2>4, <3>1 DEF DeliveryInv, CallsOK
    <3> QED BY ZenonT(60), <1>5, <3>1, <3>2, <3>3, <3>4 DEF DeliveryInv, RecordsInv, DraftIsDue, HasPass
  <2> QED BY <1>3, <2>5, <2>6, <2>7, <2>8, <2>9 DEF DeliveryInv, RecordsInv
<1> QED BY <1>4, <1>5 DEF VerifyLoad

LEMMA WriteAttemptKeeps ==
  ASSUME DeliveryAssumption, DeliveryInv, NEW d \in Drives, WriteAttempt(d)
  PROVE  DeliveryInv' /\ PromiseStep
<1> USE DEF Typed
<1>1. /\ UNCHANGED <<forge, receipt, concluded, workspace, fetched, profile, resolves, permitted, effects>>
      /\ pc[d] = "attempt" /\ lease' = None /\ Verified(d)
  BY DEF WriteAttempt
<1>2. lease = d /\ receipt # None
  BY <1>1 DEF DeliveryInv, RecordsInv, HolderHasLease
<1>3. EffectsOK'
  BY FaultKeeps DEF WriteAttempt, DeliveryInv, EffectsOK, effects
<1>4. CallsOK' /\ CallFrame(d)
  BY <1>1, MovesKeeps DEF DeliveryInv, Moves
<1>5. CASE UNCHANGED history
  <2>1. WorldOK'
    BY <1>1, <1>5 DEF DeliveryInv, WorldOK, forge
  <2> QED BY <1>1, <1>2, <1>3, <1>4, <1>5, <2>1, FrameKeeps, QuietKeepsPromise
          DEF DeliveryInv, Frame, forge
<1>6. CASE history' = draft[d]
  <2>1. /\ ~HasPass(history, prof[d]) /\ Len(history) < MaxAttempts
        /\ \E v \in Verdicts : draft[d] = Append(history, [profile |-> prof[d], verdict |-> v])
    BY <1>1 DEF DeliveryInv, RecordsInv, DraftIsDue
  <2>2. PICK v \in Verdicts : draft[d] = Append(history, [profile |-> prof[d], verdict |-> v])
    BY <2>1
  <2>3. history \in Seq(Attempt) /\ prof[d] \in Profiles
    BY DEF DeliveryInv, WorldOK, CallsOK
  <2>4. /\ history' \in Seq(Attempt) /\ PassIsLast'
        /\ \A q : HasPass(history, q) => HasPass(history', q)
    BY <1>6, <2>1, <2>2, <2>3, AttemptKeeps DEF DeliveryInv, RecordsInv
  <2>5. WorldOK'
    BY <1>1, <2>4 DEF DeliveryInv, WorldOK, forge
  <2>6. MergedHere' = MergedHere
    BY <1>1 DEF MergedHere, forge
  <2>7. ReceiptIsTheMerge'
    <3>1. \A e \in Drives : found'[e] \in {None, found[e]}
      BY <1>4 DEF CallFrame, OthersStay
    <3> QED BY <1>1, <2>6, <3>1 DEF DeliveryInv, RecordsInv, ReceiptIsTheMerge
  <2>8. \A e \in Drives : pc'[e] \notin {"make", "run", "load", "attempt"}
    BY <1>2, <1>4 DEF DeliveryInv, RecordsInv, HolderHasLease, CallFrame, OthersStay, Critical
  <2>9. HolderHasLease' /\ DraftIsDue'
    BY <2>8 DEF HolderHasLease, DraftIsDue
  <2>10. FoundToWrite' /\ Joined'
    <3>1. FoundToWrite'
      BY <1>4 DEF DeliveryInv, RecordsInv, FoundToWrite, CallFrame, OthersStay, Critical
    <3>2. ASSUME NEW e \in Drives, pc'[e] = "conclusion"
          PROVE  /\ proof'[e] \in [receipt : Numbers, history : Seq(Attempt)]
                 /\ HasPass(proof'[e].history, prof'[e])
      <4>1. e # d /\ pc[e] = "conclusion" /\ proof'[e] = proof[e] /\ prof'[e] = prof[e]
        BY <1>4, <3>2 DEF CallFrame, OthersStay, Critical
      <4> QED BY <4>1 DEF DeliveryInv, RecordsInv, Joined
    <3>3. ASSUME NEW e \in Drives, pc'[e] = "rename"
          PROVE  receipt' # None /\ HasPass(history', prof'[e])
      <4>1. e # d /\ pc[e] = "rename" /\ prof'[e] = prof[e]
        BY <1>4, <3>3 DEF CallFrame, OthersStay, Critical
      <4> QED BY <1>1, <2>4, <4>1 DEF DeliveryInv, RecordsInv, Joined
    <3> QED BY <3>1, <3>2, <3>3 DEF Joined, HasPass
  <2>11. ConcludedPassed'
    BY <1>1, <2>4 DEF DeliveryInv, RecordsInv, ConcludedPassed
  <2>12. ~Promise!Passed(prof[d])
    BY <2>1 DEF Promise!Passed, HasPass
  <2>13. Promise!Verify(prof[d], v)
    BY <1>1, <1>2, <1>6, <2>1, <2>2, <2>6, <2>12 DEF Promise!Verify
  <2>14. PromiseStep
    BY <2>3, <2>13 DEF PromiseStep, Promise!Next, Verdicts
  <2> QED BY <1>3, <1>4, <2>4, <2>5, <2>7, <2>9, <2>10, <2>11, <2>14 DEF DeliveryInv, RecordsInv
<1> QED BY <1>5, <1>6 DEF WriteAttempt

LEMMA VerifyingKeeps ==
  ASSUME DeliveryAssumption, DeliveryInv, NEW d \in Drives, Verifying(d)
  PROVE  DeliveryInv' /\ PromiseStep
BY VerifyStartKeeps, VerifyRunKeeps, VerifyLoadKeeps, WriteAttemptKeeps, QuietKeepsPromise DEF Verifying

----------------------------------------------------------------------------
(* Conclusion.                                                             *)

LEMMA ConcludingKeeps ==
  ASSUME DeliveryAssumption, DeliveryInv, NEW d \in Drives, Concluding(d)
  PROVE  DeliveryInv' /\ PromiseStep
<1> USE DEF Typed
<1>1. CASE Conclude(d)
  <2>1. WorldOK' /\ UNCHANGED <<receipt, history, concluded, pulls, lease>>
    BY <1>1 DEF Conclude, DeliveryInv, WorldOK, forge, records, machine
  <2>2. EffectsOK'
    BY <1>1, FaultKeeps DEF Conclude, DeliveryInv, EffectsOK, effects
  <2>3. CASE Moves(d)
    BY <2>1, <2>2, <2>3, MovesKeeps, FrameKeeps, QuietKeepsPromise DEF DeliveryInv, Frame
  <2>4. CASE /\ Stage(prof[d]) = "DELIVERY_CONCLUDED"
             /\ proof' = [proof EXCEPT ![d] = [receipt |-> receipt, history |-> history]]
             /\ Goto(d, "conclusion") /\ UNCHANGED <<seen, decision, found, draft, calling>>
    <3>1. receipt \in Numbers /\ history \in Seq(Attempt) /\ Stands(history, prof[d], "VERIFIED_PASS")
      BY <2>4 DEF DeliveryInv, WorldOK, Stage
    <3>2. HasPass(history, prof[d])
      BY <3>1 DEF Stands, HasPass
    <3>3. CallsOK'
      BY <2>4, <3>1 DEF DeliveryInv, CallsOK, Goto, Phases, calling
    <3>4. Quiet
      BY <2>1 DEF Quiet, MergedHere
    <3>5. ReceiptIsTheMerge'
      BY <2>1, <2>4, <3>4 DEF DeliveryInv, RecordsInv, ReceiptIsTheMerge, Quiet
    <3>6. HolderHasLease' /\ DraftIsDue' /\ FoundToWrite' /\ PassIsLast' /\ ConcludedPassed'
      BY <2>1, <2>4 DEF DeliveryInv, RecordsInv, HolderHasLease, DraftIsDue, FoundToWrite,
         PassIsLast, ConcludedPassed, CallsOK, Goto, calling, HasPass
    <3>7. Joined'
      <4>1. pc' = [pc EXCEPT ![d] = "conclusion"] /\ prof' = prof
        BY <2>4 DEF Goto, calling
      <4>2. proof'[d] = [receipt |-> receipt, history |-> history] /\ proof'[d].history = history
        BY <2>4 DEF DeliveryInv, CallsOK
      <4>3. proof'[d] \in [receipt : Numbers, history : Seq(Attempt)]
        BY <3>1, <4>2
      <4>4. \A e \in Drives \ {d} : proof'[e] = proof[e] /\ pc'[e] = pc[e]
        BY <2>4, <4>1 DEF DeliveryInv, CallsOK
      <4>5. pc'[d] = "conclusion" /\ UNCHANGED <<receipt, history>>
        BY <2>1, <4>1 DEF DeliveryInv, CallsOK
      <4>6. ASSUME NEW e \in Drives \ {d}
            PROVE  /\ pc'[e] = "conclusion" =>
                        /\ proof'[e] \in [receipt : Numbers, history : Seq(Attempt)]
                        /\ HasPass(proof'[e].history, prof'[e])
                   /\ pc'[e] = "rename" => receipt' # None /\ HasPass(history', prof'[e])
        BY <4>1, <4>4, <4>5 DEF DeliveryInv, RecordsInv, Joined
      <4> QED BY <3>2, <4>1, <4>2, <4>3, <4>5, <4>6 DEF Joined, HasPass
    <3> QED BY <2>2, <2>1, <3>3, <3>4, <3>5, <3>6, <3>7, QuietKeepsPromise DEF DeliveryInv, RecordsInv
  <2> QED BY <1>1, <2>3, <2>4 DEF Conclude, Moves, Phases, Critical, Acts
<1>2. CASE RecheckConclusion(d)
  <2>1. WorldOK' /\ UNCHANGED <<receipt, history, concluded, pulls, lease>>
    BY <1>2 DEF RecheckConclusion, DeliveryInv, WorldOK, forge, records, machine
  <2>2. EffectsOK'
    BY <1>2, FaultKeeps DEF RecheckConclusion, DeliveryInv, EffectsOK, effects
  <2>3. CASE Done(d, "conclude")
    <3>1. CallsOK' /\ CallFrame(d)
      BY <2>3, MovesKeeps DEF DeliveryInv, Moves, Acts
    <3> QED BY <2>1, <2>2, <3>1, FrameKeeps, QuietKeepsPromise DEF DeliveryInv, Frame
  <2>4. CASE /\ proof[d] = [receipt |-> receipt, history |-> history]
             /\ Goto(d, "rename") /\ UNCHANGED <<memory, calling>>
    <3>1. pc[d] = "conclusion" /\ pc' = [pc EXCEPT ![d] = "rename"]
          /\ UNCHANGED <<seen, decision, found, proof, draft, call, leg, prof>>
      BY <1>2, <2>4 DEF RecheckConclusion, Goto, memory, calling
    <3>2. proof[d] \in [receipt : Numbers, history : Seq(Attempt)] /\ HasPass(proof[d].history, prof[d])
      BY <3>1 DEF DeliveryInv, RecordsInv, Joined
    <3>3. receipt # None /\ HasPass(history, prof[d])
      <4>1. proof[d].receipt \in Numbers /\ proof[d].receipt = receipt /\ proof[d].history = history
        BY <2>4, <3>2
      <4> QED BY <3>2, <4>1 DEF DeliveryAssumption
    <3>4. CallsOK'
      BY <3>1 DEF DeliveryInv, CallsOK, Phases
    <3>5. Quiet
      BY <2>1 DEF Quiet, MergedHere
    <3>6. ReceiptIsTheMerge'
      BY <2>1, <3>1, <3>5 DEF DeliveryInv, RecordsInv, ReceiptIsTheMerge, Quiet
    <3>7. \A e \in Drives : pc'[e] = IF e = d THEN "rename" ELSE pc[e]
      BY <3>1 DEF DeliveryInv, CallsOK
    <3>8. HolderHasLease' /\ FoundToWrite' /\ PassIsLast' /\ ConcludedPassed'
      BY <2>1, <3>1, <3>7 DEF DeliveryInv, RecordsInv, HolderHasLease, FoundToWrite,
         PassIsLast, ConcludedPassed, HasPass
    <3>9. DraftIsDue'
      <4>1. /\ \A e \in Drives : pc'[e] \in {"load", "attempt"} => pc'[e] = pc[e]
            /\ UNCHANGED <<history, prof, draft>>
        BY <2>1, <3>1, <3>7
      <4> QED BY ZenonT(60), <4>1 DEF DeliveryInv, RecordsInv, DraftIsDue, HasPass
    <3>10. Joined'
      BY <2>1, <3>1, <3>3, <3>7 DEF DeliveryInv, RecordsInv, Joined, HasPass
    <3> QED BY <2>1, <2>2, <3>4, <3>5, <3>6, <3>8, <3>9, <3>10, QuietKeepsPromise
            DEF DeliveryInv, RecordsInv
  <2> QED BY <1>2, <2>3, <2>4 DEF RecheckConclusion
<1>3. CASE WriteConclusion(d)
  <2>1. UNCHANGED <<forge, receipt, history, machine, effects>> /\ pc[d] = "rename"
    BY <1>3 DEF WriteConclusion
  <2>2. EffectsOK'
    BY <1>3, FaultKeeps DEF WriteConclusion, DeliveryInv, EffectsOK, effects
  <2>3. CallsOK' /\ CallFrame(d)
    BY <1>3, MovesKeeps DEF WriteConclusion, DeliveryInv, Moves, Acts
  <2>4. CASE UNCHANGED concluded
    <3>1. WorldOK'
      BY <2>1, <2>4 DEF DeliveryInv, WorldOK, forge, machine
    <3> QED BY <2>1, <2>2, <2>3, <2>4, <3>1, FrameKeeps, QuietKeepsPromise
            DEF DeliveryInv, Frame, forge, machine
  <2>5. CASE concluded' = prof[d]
    <3>1. HasPass(history, prof[d])
      BY <2>1 DEF DeliveryInv, RecordsInv, Joined
    <3>2. receipt # None
      BY <2>1 DEF DeliveryInv, RecordsInv, Joined
    <3>3. prof[d] \in Profiles
      BY DEF DeliveryInv, CallsOK
    <3>4. WorldOK'
      BY <2>1, <2>5, <3>3 DEF DeliveryInv, WorldOK, forge, machine
    <3>5. MergedHere' = MergedHere
      BY <2>1 DEF MergedHere, forge
    <3>6. ReceiptIsTheMerge'
      <4>1. \A e \in Drives : found'[e] \in {None, found[e]}
        BY <2>3 DEF CallFrame, OthersStay
      <4> QED BY <2>1, <3>5, <4>1 DEF DeliveryInv, RecordsInv, ReceiptIsTheMerge
    <3>7. /\ HolderHasLease' /\ FoundToWrite' /\ Joined' /\ PassIsLast'
      BY <2>1, <2>3 DEF DeliveryInv, RecordsInv, HolderHasLease, FoundToWrite, Joined,
         PassIsLast, CallFrame, OthersStay, Critical, HasPass, machine
    <3>11. DraftIsDue'
      BY ZenonT(60), <2>1, <2>3 DEF DeliveryInv, RecordsInv, DraftIsDue, CallFrame, OthersStay, Critical, HasPass
    <3>8. ConcludedPassed'
      BY <2>1, <2>5, <3>1, <3>2 DEF ConcludedPassed, HasPass
    <3>9. Promise!Passed(prof[d])
      <4>1. PICK i \in DOMAIN history : history[i].profile = prof[d] /\ history[i].verdict = "VERIFIED_PASS"
        BY <3>1 DEF HasPass
      <4>2. history[i] \in Attempt
        BY <4>1 DEF DeliveryInv, WorldOK
      <4>3. history[i] = [profile |-> prof[d], verdict |-> "VERIFIED_PASS"]
        BY <4>1, <4>2 DEF Attempt
      <4> QED BY <4>3 DEF Promise!Passed
    <3>10. PromiseStep
      BY <2>1, <2>5, <3>2, <3>3, <3>5, <3>9 DEF PromiseStep, Promise!Next, Promise!Conclude
    <3> QED BY <2>2, <2>3, <3>4, <3>6, <3>7, <3>8, <3>10, <3>11 DEF DeliveryInv, RecordsInv
  <2> QED BY <1>3, <2>4, <2>5 DEF WriteConclusion
<1> QED BY <1>1, <1>2, <1>3 DEF Concluding

----------------------------------------------------------------------------
(* Calls that begin and end, the forge, and the people around it.          *)

LEMMA StartKeeps ==
  ASSUME DeliveryAssumption, DeliveryInv, NEW d \in Drives, NEW c \in Called(d), Start(d, c)
  PROVE  DeliveryInv' /\ PromiseStep
<1> USE DEF Typed
<1>1. c \in Call /\ c.acts # {} /\ c.acts \in SUBSET Acts
  <2>1. FullDrive \in Call /\ FullDrive.acts # {} /\ FullDrive.acts \in SUBSET Acts
    BY DEF FullDrive, Call, Acts
  <2> QED BY <2>1 DEF Called, DeliveryAssumption, Call
<1>2. FirstOf(c.acts) \in Acts
  BY <1>1, FirstIsNamed
<1> DEFINE at == IF c.drive THEN "conclude" ELSE FirstOf(c.acts)
<1>3. at \in Phases \ Critical
  BY <1>2 DEF Acts, Phases, Critical
<1>4. /\ pc' = [pc EXCEPT ![d] = at] /\ call' = [call EXCEPT ![d] = c]
      /\ prof' = [prof EXCEPT ![d] = profile]
      /\ UNCHANGED <<forge, records, machine, memory, leg, flight, humans, faults>>
  BY DEF Start
<1> HIDE DEF at
<1>5. CallsOK'
  BY <1>1, <1>3, <1>4 DEF DeliveryInv, CallsOK, WorldOK, memory
<1>6. CallFrame(d)
  BY <1>3, <1>4 DEF DeliveryInv, CallsOK, CallFrame, OthersStay, memory
<1>7. WorldOK' /\ UNCHANGED <<receipt, history, concluded, pulls, lease>>
  BY <1>4 DEF DeliveryInv, WorldOK, forge, records, machine
<1>8. EffectsOK'
  BY DEF Start, DeliveryInv, EffectsOK, DeliveryAssumption
<1> QED BY <1>5, <1>6, <1>7, <1>8, FrameKeeps, QuietKeepsPromise DEF DeliveryInv, Frame

LEMMA CrashKeeps ==
  ASSUME DeliveryAssumption, DeliveryInv, NEW d \in Drives, Crash(d)
  PROVE  DeliveryInv' /\ PromiseStep
<1> USE DEF Typed
<1>1. CallsOK' /\ CallFrame(d)
  BY MovesKeeps DEF Crash, DeliveryInv, Moves
<1>2. WorldOK' /\ UNCHANGED <<receipt, history, concluded, pulls, lease>>
  BY DEF Crash, DeliveryInv, WorldOK, forge, records, machine
<1>3. EffectsOK'
  BY FaultKeeps DEF Crash, DeliveryInv, EffectsOK, effects
<1> QED BY <1>1, <1>2, <1>3, FrameKeeps, QuietKeepsPromise DEF DeliveryInv, Frame

\* No merge is taken back, and a step merges at most one pull request.
MergesAtMost == \/ MergedHere' = MergedHere
                \/ \E n \in Numbers : MergedHere' = MergedHere \cup {n}

\* Steps of the forge touch no record and no call.
LEMMA ForgeKeeps ==
  ASSUME DeliveryInv, Typed', MergesAtMost,
         UNCHANGED <<records, memory, calling, pc>>,
         lease' = lease \/ (lease' = None /\ \A d \in Drives : pc[d] \in {"make", "run", "load", "attempt"} => lease # d)
  PROVE  DeliveryInv' /\ PromiseStep
<1> USE DEF DeliveryInv, RecordsInv
<1>1. UNCHANGED <<receipt, history, concluded, found, proof, draft, prof, pc>>
  BY DEF records, memory, calling
<1>2. ReceiptIsTheMerge'
  <2>1. MergedHere \subseteq MergedHere'
    BY DEF MergesAtMost
  <2> QED BY <1>1, <2>1 DEF ReceiptIsTheMerge
<1>3. HolderHasLease' /\ DraftIsDue' /\ FoundToWrite' /\ Joined' /\ PassIsLast' /\ ConcludedPassed'
  BY ZenonT(60), <1>1 DEF HolderHasLease, DraftIsDue, FoundToWrite, Joined, PassIsLast, ConcludedPassed, HasPass
<1>4. PromiseStep
  <2>1. CASE MergedHere' = MergedHere
    BY <1>1, <2>1, QuietKeepsPromise DEF Quiet
  <2>2. CASE \E n \in Numbers : MergedHere' = MergedHere \cup {n}
    BY <1>1, <2>2 DEF PromiseStep, Promise!Next, Promise!Merge
  <2> QED BY <2>1, <2>2 DEF MergesAtMost
<1> QED BY <1>2, <1>3, <1>4

\* A pull request that is opened is not merged.
LEMMA OpeningMergesNothing ==
  ASSUME Typed, NEW base \in Bases, Openable(base), NewPull(base)
  PROVE  pulls' \in [Numbers -> Pull] /\ MergedHere' = MergedHere
<1>1. PICK n \in Numbers : /\ pulls[n].st = "none"
                           /\ pulls' = [pulls EXCEPT ![n] = [st |-> "open", base |-> base, head |-> ref]]
  BY DEF NewPull
<1>2. ref \in Heads
  BY DEF Typed, WorldOK, Openable
<1>3. [st |-> "open", base |-> base, head |-> ref] \in Pull
  BY <1>2 DEF Pull
<1>4. pulls' \in [Numbers -> Pull]
  BY <1>1, <1>3 DEF Typed, WorldOK
<1>5. \A m \in Numbers \ {n} : pulls'[m] = pulls[m]
  BY <1>1 DEF Typed, WorldOK
<1>6. pulls[n] # Delivered /\ pulls'[n] # Delivered
  <2>1. pulls'[n].st = "open"
    BY <1>1 DEF Typed, WorldOK
  <2> QED BY <1>1, <2>1 DEF Delivered
<1> QED BY <1>4, <1>5, <1>6 DEF MergedHere

\* The state of a pull request becomes another.
LEMMA TurningMergesOne ==
  ASSUME Typed, NEW n \in Numbers, NEW q \in Pull, pulls[n].st = "open",
         pulls' = [pulls EXCEPT ![n] = q]
  PROVE  pulls' \in [Numbers -> Pull] /\ MergesAtMost
<1>1. pulls' \in [Numbers -> Pull] /\ \A m \in Numbers \ {n} : pulls'[m] = pulls[m]
  BY DEF Typed, WorldOK
<1>2. pulls[n] # Delivered
  BY DEF Delivered
<1> QED BY <1>1, <1>2 DEF MergesAtMost, MergedHere

LEMMA LandKeeps ==
  ASSUME DeliveryAssumption, DeliveryInv, NEW d \in Drives, Land(d)
  PROVE  DeliveryInv' /\ PromiseStep
<1>1. UNCHANGED <<checks, green, records, machine, memory, calling, audit, sent, bounds, pc>>
      /\ flight' = [flight EXCEPT ![d] = None] /\ flight[d] # None
  BY DEF Land
<1>2. flight[d] \in [kind : Kinds, number : Numbers \cup {0}]
  BY <1>1 DEF DeliveryInv, Typed, EffectsOK
<1>3. EffectsOK'
  BY <1>1 DEF DeliveryInv, Typed, EffectsOK, bounds
<1>4. CallsOK'
  BY <1>1 DEF DeliveryInv, Typed, CallsOK, memory, calling
<1>5. /\ pulls' \in [Numbers -> Pull] /\ MergesAtMost
      /\ ref' \in Heads \cup {None} /\ known' \in BOOLEAN
  <2>1. CASE flight[d].kind = "push"
    BY <2>1 DEF Land, PushLands, DeliveryInv, Typed, WorldOK, MergesAtMost, MergedHere, Heads
  <2>2. CASE flight[d].kind = "create"
    <3>1. UNCHANGED <<ref, known>>
      BY <2>2 DEF Land
    <3>2. CASE UNCHANGED pulls
      BY <3>1, <3>2 DEF DeliveryInv, Typed, WorldOK, MergesAtMost, MergedHere
    <3>3. CASE Openable("intended") /\ NewPull("intended")
      BY <3>1, <3>3, OpeningMergesNothing DEF DeliveryInv, Typed, WorldOK, MergesAtMost, Bases
    <3> QED BY <2>2, <3>2, <3>3 DEF Land
  <2>3. CASE flight[d].kind = "merge"
    <3> DEFINE n == flight[d].number
    <3>1. UNCHANGED <<ref, known>> /\ MergeLands(n)
      BY <2>3 DEF Land
    <3>2. CASE UNCHANGED pulls
      BY <3>1, <3>2 DEF DeliveryInv, Typed, WorldOK, MergesAtMost, MergedHere
    <3>3. CASE pulls[n].st = "open" /\ pulls' = [pulls EXCEPT ![n].st = "merged"]
      <4>1. CASE n \in Numbers
        <5>1. pulls' = [pulls EXCEPT ![n] = [pulls[n] EXCEPT !.st = "merged"]]
          BY <3>3
        <5>2. [pulls[n] EXCEPT !.st = "merged"] \in Pull
          BY <4>1 DEF DeliveryInv, Typed, WorldOK, Pull
        <5> QED BY <3>1, <3>3, <4>1, <5>1, <5>2, TurningMergesOne DEF DeliveryInv, Typed, WorldOK
      <4>2. CASE n \notin Numbers
        <5>1. pulls' = pulls
          BY <3>3, <4>2 DEF DeliveryInv, Typed, WorldOK
        <5> QED BY <3>2, <5>1
      <4> QED BY <4>1, <4>2
    <3> QED BY <3>1, <3>2, <3>3 DEF MergeLands
  <2> QED BY <1>2, <2>1, <2>2, <2>3 DEF Kinds
<1>6. WorldOK'
  BY <1>1, <1>5 DEF DeliveryInv, Typed, WorldOK, records, machine
<1> QED BY <1>1, <1>3, <1>4, <1>5, <1>6, ForgeKeeps DEF Typed, machine

LEMMA LoseKeeps ==
  ASSUME DeliveryAssumption, DeliveryInv, NEW d \in Drives, Lose(d)
  PROVE  DeliveryInv' /\ PromiseStep
<1>1. Typed'
  BY ZenonT(60), FaultKeeps DEF Lose, DeliveryInv, Typed, CallsOK, WorldOK, EffectsOK, forge, records, machine,
     memory, calling
<1>2. MergesAtMost
  BY DEF Lose, forge, MergesAtMost, MergedHere
<1> QED BY <1>1, <1>2, ForgeKeeps DEF Lose, machine

\* People and the forge on its own.
LEMMA WorldKeeps ==
  ASSUME DeliveryAssumption, DeliveryInv, World
  PROVE  DeliveryInv' /\ PromiseStep
<1> USE DEF DeliveryInv, Typed
<1>1. UNCHANGED <<records, memory, calling, flight, audit, sent, asks, faults, pc>>
  BY DEF World, RunChecks, Fetch, RecoverLease, HumanPush, DeleteBranch, HumanPull, Rerun, Configure,
     effects, bounds
<1>2. CallsOK'
  BY <1>1 DEF CallsOK, memory, calling
<1>3. humans' \in 0..HumanMoves
  BY DEF World, RunChecks, Fetch, RecoverLease, HumanPush, DeleteBranch, HumanPull, Rerun, Configure,
     Someone, bounds, EffectsOK, DeliveryAssumption
<1>4. EffectsOK'
  BY <1>1, <1>3 DEF EffectsOK
<1>5. CASE RunChecks \/ Fetch \/ RecoverLease \/ Rerun \/ Configure
  <2>1. UNCHANGED <<ref, known, pulls>>
    BY <1>5 DEF RunChecks, Fetch, RecoverLease, Rerun, Configure, forge
  <2>2. WorldOK'
    <3>1. CASE RunChecks \/ Rerun
      BY ZenonT(60), <1>1, <2>1, <3>1 DEF WorldOK, records, RunChecks, Rerun, CheckStates, machine
    <3>2. CASE Fetch \/ RecoverLease
      BY <1>1, <3>2 DEF WorldOK, records, Fetch, RecoverLease, forge
    <3>3. CASE Configure
      <4>1. profile' \in Profiles /\ resolves' \in BOOLEAN /\ permitted' \in BOOLEAN /\ workspace' \in BOOLEAN
        BY <3>3 DEF WorldOK, Configure
      <4> QED BY <3>3, <4>1 DEF WorldOK, Configure, forge, records
    <3> QED BY <1>5, <3>1, <3>2, <3>3
  <2>3. MergesAtMost
    BY <2>1 DEF MergesAtMost, MergedHere
  <2>4. lease' = lease \/ (lease' = None /\ \A d \in Drives : pc[d] \in {"make", "run", "load", "attempt"} => lease # d)
    BY <1>5 DEF RunChecks, Fetch, RecoverLease, Rerun, Configure, machine
  <2> QED BY <1>1, <1>2, <1>4, <2>2, <2>3, <2>4, ForgeKeeps
<1>6. CASE HumanPull \/ DeleteBranch \/ \E h \in Heads : HumanPush(h)
  <2>1. UNCHANGED <<checks, green, machine>> /\ ref' \in Heads \cup {None} /\ known' \in BOOLEAN
    BY <1>6 DEF HumanPull, DeleteBranch, HumanPush, WorldOK
  <2>2. pulls' \in [Numbers -> Pull] /\ MergesAtMost
    <3>1. ASSUME NEW b \in Bases, Openable(b), NewPull(b) PROVE pulls' \in [Numbers -> Pull] /\ MergesAtMost
      BY <3>1, OpeningMergesNothing DEF MergesAtMost
    <3>2. ASSUME NEW n \in Numbers, pulls[n].st = "open", NEW st \in {"closed", "merged"},
                 pulls' = [pulls EXCEPT ![n].st = st]
          PROVE  pulls' \in [Numbers -> Pull] /\ MergesAtMost
      <4>1. pulls' = [pulls EXCEPT ![n] = [pulls[n] EXCEPT !.st = st]]
        BY <3>2
      <4>2. [pulls[n] EXCEPT !.st = st] \in Pull
        BY DEF WorldOK, Pull
      <4> QED BY <3>2, <4>1, <4>2, TurningMergesOne
    <3>3. ASSUME NEW n \in Numbers, pulls[n].st = "open", pulls' = [pulls EXCEPT ![n].base = "another"]
          PROVE  pulls' \in [Numbers -> Pull] /\ MergesAtMost
      <4>1. pulls' = [pulls EXCEPT ![n] = [pulls[n] EXCEPT !.base = "another"]]
        BY <3>3
      <4>2. [pulls[n] EXCEPT !.base = "another"] \in Pull
        BY DEF WorldOK, Pull, Bases
      <4> QED BY <3>3, <4>1, <4>2, TurningMergesOne
    <3>4. CASE HumanPull
      BY <3>1, <3>2, <3>3, <3>4 DEF HumanPull
    <3>5. ASSUME NEW h \in Heads, HumanPush(h) PROVE pulls' \in [Numbers -> Pull] /\ MergesAtMost
      <4>1. \A n \in Numbers : pulls'[n] = IF pulls[n].st = "open" THEN [pulls[n] EXCEPT !.head = h] ELSE pulls[n]
        BY <3>5 DEF HumanPush
      <4>2. \A n \in Numbers : pulls[n] \in Pull /\ [pulls[n] EXCEPT !.head = h] \in Pull
                               /\ [pulls[n] EXCEPT !.head = h].st = pulls[n].st
        BY <3>5 DEF WorldOK, Pull
      <4>3. pulls' \in [Numbers -> Pull]
        BY <3>5, <4>2 DEF HumanPush
      <4>4. \A n \in Numbers : pulls[n].st = "open" => pulls[n] # Delivered /\ pulls'[n] # Delivered
        <5>1. Delivered.st = "merged"
          BY DEF Delivered
        <5> QED BY <4>1, <4>2, <5>1
      <4>5. MergedHere' = MergedHere
        BY <4>1, <4>4 DEF MergedHere
      <4> QED BY <4>3, <4>5 DEF MergesAtMost
    <3>6. CASE DeleteBranch
      <4>1. \A n \in Numbers : pulls'[n] = IF pulls[n].st = "open" THEN [pulls[n] EXCEPT !.st = "closed"] ELSE pulls[n]
        BY <3>6 DEF DeleteBranch
      <4>2. \A n \in Numbers : pulls[n] \in Pull /\ [pulls[n] EXCEPT !.st = "closed"] \in Pull
                               /\ [pulls[n] EXCEPT !.st = "closed"].st = "closed"
        BY DEF WorldOK, Pull
      <4>3. pulls' \in [Numbers -> Pull]
        BY <3>6, <4>2 DEF DeleteBranch
      <4>4. \A n \in Numbers : pulls[n].st = "open" => pulls[n] # Delivered /\ pulls'[n] # Delivered
        <5>1. Delivered.st = "merged"
          BY DEF Delivered
        <5> QED BY <4>1, <4>2, <5>1
      <4>5. MergedHere' = MergedHere
        BY <4>1, <4>4 DEF MergedHere
      <4> QED BY <4>3, <4>5 DEF MergesAtMost
    <3> QED BY <1>6, <3>4, <3>5, <3>6
  <2>3. WorldOK'
    BY <1>1, <2>1, <2>2 DEF WorldOK, records, machine
  <2> QED BY <1>1, <1>2, <1>4, <2>1, <2>2, <2>3, ForgeKeeps DEF machine
<1> QED BY <1>5, <1>6 DEF World

----------------------------------------------------------------------------
(* The theorems.                                                           *)

LEMMA InitHolds == ASSUME DeliveryAssumption, Init PROVE DeliveryInv /\ Promise!Init
<1>1. CallsOK
  BY DEF Init, CallsOK, DeliveryAssumption, Phases, Call, Idle
<1>2. WorldOK
  <2>1. NoPull \in Pull /\ <<>> \in Seq(Attempt)
    BY DEF NoPull, Pull, Bases, Heads
  <2>2. pulls \in [Numbers -> Pull]
    BY <2>1 DEF Init
  <2> QED BY <2>1, <2>2 DEF Init, WorldOK, DeliveryAssumption, CheckStates
<1>3. EffectsOK
  BY DEF Init, EffectsOK, DeliveryAssumption
<1>4. MergedHere = {}
  BY DEF Init, MergedHere, NoPull, Delivered
<1>5. history = <<>> /\ DOMAIN history = {}
  BY DEF Init
<1>6. RecordsInv
  BY <1>5 DEF Init, RecordsInv, ReceiptIsTheMerge, HolderHasLease, DraftIsDue, FoundToWrite, Joined,
     PassIsLast, ConcludedPassed
<1>7. Promise!Init
  BY <1>4 DEF Init, Promise!Init
<1> QED BY <1>1, <1>2, <1>3, <1>6, <1>7 DEF DeliveryInv, Typed

LEMMA StepHolds ==
  ASSUME DeliveryAssumption, DeliveryInv, [Next]_vars
  PROVE  DeliveryInv' /\ PromiseStep
<1>1. CASE UNCHANGED vars
  <2>1. Typed'
    BY <1>1 DEF vars, forge, records, machine, memory, calling, effects, bounds, DeliveryInv, Typed,
       CallsOK, WorldOK, EffectsOK
  <2>2. MergesAtMost
    BY <1>1 DEF vars, forge, MergesAtMost, MergedHere
  <2> QED BY <1>1, <2>1, <2>2, ForgeKeeps DEF vars, machine
<1>2. ASSUME NEW d \in Drives, NEW c \in Called(d), Start(d, c) PROVE DeliveryInv' /\ PromiseStep
  BY <1>2, StartKeeps
<1>3. ASSUME NEW d \in Drives, Step(d) PROVE DeliveryInv' /\ PromiseStep
  <2>1. CASE Publishing(d) \/ Creating(d) \/ Merging(d) \/ Observing(d)
    <3>1. Typed' /\ Frame(d)
      BY <2>1, PublishingKeeps, CreatingKeeps, MergingKeeps, ObservingKeeps DEF DeliveryInv
    <3> QED BY <3>1, FrameKeeps, QuietKeepsPromise
  <2> QED BY <1>3, <2>1, RecordingKeeps, VerifyingKeeps, ConcludingKeeps DEF Step
<1>4. ASSUME NEW d \in Drives, Land(d) \/ Lose(d) \/ Crash(d) PROVE DeliveryInv' /\ PromiseStep
  BY <1>4, LandKeeps, LoseKeeps, CrashKeeps
<1>5. CASE World
  BY <1>5, WorldKeeps
<1> QED BY <1>1, <1>2, <1>3, <1>4, <1>5 DEF Next

\* The invariant holds from the first state on.
LEMMA InvariantHolds == Spec => []DeliveryInv
<1> USE DeliveryAssumption
<1>1. Init => DeliveryInv
  BY InitHolds
<1>2. DeliveryInv /\ [Next]_vars => DeliveryInv'
  BY StepHolds
<1> QED BY <1>1, <1>2, PTL DEF Spec

\* Every variable of a delivery keeps its type (deliver/, cli/delivery-driver.ts).
THEOREM DeliveryTypeCorrect == Spec => []TypeOK
<1>1. DeliveryInv => TypeOK
  BY TypeParts DEF DeliveryInv
<1> QED BY <1>1, InvariantHolds, PTL

\* However many calls write it and whatever people do to the pull requests, the receipt names
\* the one merge there has been (merge-reconciliation-store.ts 467-581).
THEOREM OneMergeIsRecorded == Spec => []ReceiptIsTheMerge
<1>1. DeliveryInv => ReceiptIsTheMerge
  BY DEF DeliveryInv, RecordsInv
<1> QED BY <1>1, InvariantHolds, PTL

\* A pass that nothing was added after still stands.
LEMMA PassStands ==
  ASSUME PassIsLast, NEW p, HasPass(history, p), history \in Seq(Attempt)
  PROVE  Stands(history, p, "VERIFIED_PASS")
<1>1. PICK i \in DOMAIN history : history[i].profile = p /\ history[i].verdict = "VERIFIED_PASS"
  BY DEF HasPass
<1>2. history[i] = [profile |-> p, verdict |-> "VERIFIED_PASS"]
  <2>1. history[i] \in Attempt
    BY <1>1
  <2> QED BY <1>1, <2>1 DEF Attempt
<1>3. \A j \in DOMAIN history : j > i => history[j].profile # p
  BY <1>1 DEF PassIsLast
<1> QED BY <1>2, <1>3 DEF Stands

\* A conclusion rests on a receipt and on a pass that nothing took away
\* (conclude-delivery.ts 443-587, delivery-conclusion-store.ts 316-572).
THEOREM ConclusionsStand == Spec => []ConclusionStands
<1>1. DeliveryInv => ConclusionStands
  BY PassStands DEF DeliveryInv, RecordsInv, ConcludedPassed, ConclusionStands, Typed, WorldOK
<1> QED BY <1>1, InvariantHolds, PTL

\* Callers that crash, repeat each other and write late do what the records promise: every step
\* of theirs is one of DeliveryPromise or changes none of its variables.
THEOREM DeliveryKeepsThePromise == Spec => KeepsThePromise
<1> USE DeliveryAssumption
<1>1. Init => Promise!Init
  BY InitHolds
<1>2. DeliveryInv /\ [Next]_vars => [Promise!Next]_(Promise!vars)
  BY StepHolds DEF PromiseStep
<1> QED BY <1>1, <1>2, InvariantHolds, PTL DEF Spec, KeepsThePromise, Promise!Spec

----------------------------------------------------------------------------
(* What a merge rests on.                                                  *)

\* A decision to merge, a call about to, and a request to merge under way all come after the
\* checks of the task's commit had succeeded.
Backed ==
  /\ checks = "SUCCESS" => green
  /\ \A d \in Drives :
       /\ decision[d] = "MATCHED_CHECKS_SUCCESS" => green
       /\ pc[d] = "readPull" => green
       /\ flight[d] # None /\ flight[d].kind = "merge" => green

\* A step takes no decision to merge, goes to no merge and sends none.
Steady ==
  /\ UNCHANGED <<checks, green>>
  /\ \A d \in Drives :
       /\ decision'[d] = "MATCHED_CHECKS_SUCCESS" => decision[d] = "MATCHED_CHECKS_SUCCESS"
       /\ pc'[d] = "readPull" => pc[d] = "readPull"
       /\ flight'[d] # None /\ flight'[d].kind = "merge" => flight'[d] = flight[d]

LEMMA SteadyBacked == ASSUME Backed, Steady PROVE Backed'
BY DEF Backed, Steady

\* A call that goes on from one step to another, or returns, decides nothing.
LEMMA MovesDecideNothing ==
  ASSUME CallsOK, NEW d \in Drives,
         \/ \E act \in Acts : Done(d, act)
         \/ Settle(d)
         \/ Verified(d)
         \/ \E at \in Phases \ {"readPull"} : Goto(d, at) /\ UNCHANGED decision
  PROVE  \A e \in Drives :
           /\ decision'[e] = "MATCHED_CHECKS_SUCCESS" => decision[e] = "MATCHED_CHECKS_SUCCESS"
           /\ pc'[e] = "readPull" => pc[e] = "readPull"
<1>1. "MATCHED_CHECKS_SUCCESS" # None
  BY NoDecisionIsNone DEF Decisions
<1>2. CASE Settle(d)
  BY <1>1, <1>2 DEF Settle, CallsOK
<1>3. ASSUME NEW at \in Phases \ {"readPull"}, Goto(d, at), UNCHANGED decision
      PROVE  \A e \in Drives :
               /\ decision'[e] = "MATCHED_CHECKS_SUCCESS" => decision[e] = "MATCHED_CHECKS_SUCCESS"
               /\ pc'[e] = "readPull" => pc[e] = "readPull"
  BY <1>3 DEF Goto, CallsOK
<1>4. ASSUME NEW act \in Acts, Done(d, act), ~Settle(d)
      PROVE  \E at \in Phases \ {"readPull"} : Goto(d, at) /\ UNCHANGED decision
  <2> DEFINE rest == call[d].acts \ {act}
  <2>1. rest \in SUBSET Acts /\ rest # {}
    BY <1>4 DEF Done, CallsOK, Call
  <2>2. FirstOf(rest) \in Acts
    BY <2>1, FirstIsNamed
  <2>3. Goto(d, FirstOf(rest)) /\ UNCHANGED decision
    BY <1>4 DEF Done
  <2> HIDE DEF rest
  <2> QED BY <2>2, <2>3 DEF Acts, Phases
<1>5. CASE Verified(d) /\ call[d].drive
  BY <1>3, <1>5 DEF Verified, Phases
<1>6. CASE Verified(d) /\ ~call[d].drive
  BY <1>2, <1>3, <1>4, <1>6 DEF Verified, Acts
<1> QED BY <1>2, <1>3, <1>4, <1>5, <1>6

LEMMA StepBacked ==
  ASSUME Typed, Backed, NEW d \in Drives, Step(d)
  PROVE  Backed'
<1> USE DEF Typed
<1> DEFINE Plain == \/ \E act \in Acts : Done(d, act)
                    \/ Settle(d)
                    \/ Verified(d)
                    \/ \E at \in Phases \ {"readPull"} : Goto(d, at) /\ UNCHANGED decision
<1>1. ASSUME Plain, UNCHANGED <<checks, green>>,
             \A e \in Drives : \/ flight'[e] = flight[e]
                               \/ flight'[e].kind \in {"push", "create"}
      PROVE  Backed'
  <2>1. \A e \in Drives :
          /\ decision'[e] = "MATCHED_CHECKS_SUCCESS" => decision[e] = "MATCHED_CHECKS_SUCCESS"
          /\ pc'[e] = "readPull" => pc[e] = "readPull"
    BY <1>1, MovesDecideNothing
  <2>2. Steady
    BY <1>1, <2>1 DEF Steady
  <2> QED BY <2>2, SteadyBacked
<1>2. CASE Publishing(d)
  <2>1. UNCHANGED <<checks, green>>
    BY <1>2 DEF Publishing, PublishRecheck, PublishSend, PublishGrade, forge
  <2>2. Plain
    BY <1>2 DEF Publishing, PublishRecheck, PublishSend, PublishGrade, Acts, Phases, memory
  <2>3. \A e \in Drives : \/ flight'[e] = flight[e]
                          \/ flight'[e].kind \in {"push", "create"}
    BY <1>2 DEF Publishing, PublishRecheck, PublishSend, PublishGrade, EffectsOK
  <2> HIDE DEF Plain
  <2> QED BY <1>1, <2>1, <2>2, <2>3
<1>3. CASE Creating(d)
  <2>1. UNCHANGED <<checks, green>>
    BY <1>3 DEF Creating, CreateRecheck, CreateSend, CreateGrade, forge
  <2>2. Plain
    BY <1>3 DEF Creating, CreateRecheck, CreateSend, CreateGrade, Acts, Phases, memory
  <2>3. \A e \in Drives : \/ flight'[e] = flight[e]
                          \/ flight'[e].kind \in {"push", "create"}
    BY <1>3 DEF Creating, CreateRecheck, CreateSend, CreateGrade, EffectsOK, effects
  <2> HIDE DEF Plain
  <2> QED BY <1>1, <2>1, <2>2, <2>3
<1>4. CASE MergeRecheck(d)
  <2>1. UNCHANGED <<checks, green, flight>>
    BY <1>4 DEF MergeRecheck, forge, effects
  <2>2. CASE decision[d] = "MATCHED_CHECKS_SUCCESS" /\ Goto(d, "readPull") /\ UNCHANGED decision
    <3>1. green
      BY <2>2 DEF Backed
    <3> QED BY <2>1, <2>2, <3>1 DEF Backed
  <2>3. CASE Done(d, "merge")
    <3>1. Plain
      BY <2>3 DEF Acts
    <3> HIDE DEF Plain
    <3> QED BY <1>1, <2>1, <3>1
  <2> QED BY <1>4, <2>2, <2>3 DEF MergeRecheck, memory
<1>5. CASE MergeSend(d)
  <2>1. green /\ green' /\ UNCHANGED <<checks, green>>
    BY <1>5 DEF MergeSend, forge, Backed
  <2> QED BY <2>1 DEF Backed
<1>6. CASE MergeGrade(d)
  <2>1. Plain /\ UNCHANGED <<checks, green, flight>>
    BY <1>6 DEF MergeGrade, Acts, forge
  <2> HIDE DEF Plain
  <2> QED BY <1>1, <2>1
<1>7. CASE ObservePulls(d)
  <2>1. Plain /\ UNCHANGED <<checks, green, flight>>
    BY <1>7 DEF ObservePulls, Acts, Phases, forge, effects
  <2> HIDE DEF Plain
  <2> QED BY <1>1, <2>1
<1>8. CASE ObserveChecks(d)
  <2> DEFINE decided == Decide(seen[d], checks)
             rest == call[d].acts \ {"observe"}
  <2>1. UNCHANGED <<checks, green, flight>>
    BY <1>8 DEF ObserveChecks, forge, effects
  <2>2. decided = "MATCHED_CHECKS_SUCCESS" => green
    BY DEF Decide, Backed, WorldOK, CheckStates
  <2>3. CASE Settle(d) \/ Done(d, "observe")
    <3>1. Plain
      BY <2>3 DEF Acts
    <3> HIDE DEF Plain
    <3> QED BY <1>1, <2>1, <3>1
  <2>4. ASSUME NEW at \in Phases \ {"readPull"}, Goto(d, at),
               decision' = [decision EXCEPT ![d] = decided]
        PROVE  Backed'
    <3> HIDE DEF decided
    <3> QED BY <2>1, <2>2, <2>4 DEF Backed, Goto, CallsOK
  <2>5. CASE /\ Answer(d, decided) # "idle" /\ decision' = [decision EXCEPT ![d] = decided]
             /\ Goto(d, Answer(d, decided))
    <3>1. Answer(d, decided) \in {"idle", "merge", "publish", "create"}
      BY DEF Answer, Decide, WorldOK, CheckStates
    <3> HIDE DEF decided
    <3> QED BY <2>4, <2>5, <3>1 DEF Phases
  <2>6. CASE /\ rest # {} /\ decision' = [decision EXCEPT ![d] = decided]
             /\ Goto(d, FirstOf(rest))
    <3>1. rest \in SUBSET Acts
      BY DEF CallsOK, Call
    <3>2. FirstOf(rest) \in Acts
      BY <2>6, <3>1, FirstIsNamed
    <3> HIDE DEF decided, rest
    <3> QED BY <2>4, <2>6, <3>2 DEF Phases, Acts
  <2>7. ~(call[d].drive \/ call[d].acts \subseteq {"observe"}) => rest # {}
    OBVIOUS
  <2> QED BY <1>8, <2>3, <2>5, <2>6, <2>7 DEF ObserveChecks
<1>9. CASE Recording(d)
  <2>1. UNCHANGED <<checks, green, flight>>
    BY <1>9 DEF Recording, Reconcile, WriteReceipt, forge, effects
  <2>2. Plain
    <3>1. Unmerged(d) # "idle" => Unmerged(d) \in {"publish", "observe"}
      BY DEF Unmerged, Situation
    <3> QED BY <1>9, <3>1 DEF Recording, Reconcile, WriteReceipt, Acts, Phases, memory
  <2> HIDE DEF Plain
  <2> QED BY <1>1, <2>1, <2>2
<1>10. CASE Verifying(d)
  <2>1. UNCHANGED <<checks, green, flight>>
    BY <1>10 DEF Verifying, VerifyBegin, VerifyMake, VerifyRun, VerifyLoad, WriteAttempt, forge, effects
  <2>2. Plain
    BY <1>10 DEF Verifying, VerifyBegin, VerifyMake, VerifyRun, VerifyLoad, WriteAttempt, Acts, Phases, memory
  <2> HIDE DEF Plain
  <2> QED BY <1>1, <2>1, <2>2
<1>11. CASE Concluding(d)
  <2>1. UNCHANGED <<checks, green, flight>>
    BY <1>11 DEF Concluding, Conclude, RecheckConclusion, WriteConclusion, forge, effects
  <2>2. Plain
    BY <1>11 DEF Concluding, Conclude, RecheckConclusion, WriteConclusion, Acts, Phases, memory
  <2> HIDE DEF Plain
  <2> QED BY <1>1, <2>1, <2>2
<1> QED BY <1>2, <1>3, <1>4, <1>5, <1>6, <1>7, <1>8, <1>9, <1>10, <1>11
        DEF Step, Merging, Observing

LEMMA NextBacked ==
  ASSUME DeliveryAssumption, Typed, Backed, [Next]_vars
  PROVE  Backed'
<1> USE DEF Typed
<1>1. CASE UNCHANGED vars
  BY <1>1 DEF vars, forge, memory, effects, Backed
<1>2. ASSUME NEW d \in Drives, NEW c \in Called(d), Start(d, c) PROVE Backed'
  <2>1. c.acts # {} /\ c.acts \in SUBSET Acts
    <3>1. FullDrive.acts # {} /\ FullDrive.acts \in SUBSET Acts
      BY DEF FullDrive, Acts
    <3> QED BY <3>1 DEF Called, DeliveryAssumption, Call
  <2>2. FirstOf(c.acts) \in Acts
    BY <2>1, FirstIsNamed
  <2> DEFINE at == IF c.drive THEN "conclude" ELSE FirstOf(c.acts)
  <2>3. at # "readPull"
    BY <2>2 DEF Acts
  <2>4. pc' = [pc EXCEPT ![d] = at] /\ UNCHANGED <<checks, green, decision, flight>>
    BY <1>2 DEF Start, forge, memory
  <2> HIDE DEF at
  <2> QED BY <2>3, <2>4 DEF Backed, CallsOK
<1>3. ASSUME NEW d \in Drives, Land(d) \/ Lose(d) PROVE Backed'
  <2>1. /\ UNCHANGED <<checks, green, decision, pc>>
        /\ flight' = [flight EXCEPT ![d] = None]
    BY <1>3 DEF Land, Lose, forge, memory
  <2> QED BY <2>1 DEF Backed, EffectsOK
<1>4. ASSUME NEW d \in Drives, Crash(d) PROVE Backed'
  <2>1. Settle(d) /\ UNCHANGED <<checks, green, flight>>
    BY <1>4 DEF Crash, forge, effects
  <2>2. Steady
    BY <2>1, MovesDecideNothing DEF Steady
  <2> QED BY <2>2, SteadyBacked
<1>5. CASE World
  <2>1. UNCHANGED <<decision, pc, flight>>
    BY <1>5 DEF World, RunChecks, Fetch, RecoverLease, HumanPush, DeleteBranch, HumanPull, Rerun,
       Configure, memory, effects
  <2>2. (checks' = "SUCCESS" => green') /\ (green => green')
    <3>1. CASE RunChecks \/ Rerun
      BY <3>1 DEF RunChecks, Rerun, Backed
    <3>2. CASE \/ Fetch \/ RecoverLease \/ HumanPull \/ DeleteBranch \/ Configure
               \/ \E h \in Heads : HumanPush(h)
      BY <3>2 DEF Fetch, RecoverLease, HumanPull, DeleteBranch, Configure, HumanPush, forge, Backed
    <3> QED BY <1>5, <3>1, <3>2 DEF World
  <2> QED BY <2>1, <2>2 DEF Backed
<1> QED BY <1>1, <1>2, <1>3, <1>4, <1>5, StepBacked DEF Next

\* A merge nobody made by hand, in one step.
MergedChecked ==
  \A n \in Numbers : pulls[n].st = "open" /\ pulls'[n].st = "merged" /\ humans' = humans =>
    green /\ pulls[n].head = "ours"

LEMMA StepMergesChecked ==
  ASSUME DeliveryAssumption, Typed, Backed, [Next]_vars
  PROVE  MergedChecked
<1> USE DEF Typed
<1> SUFFICES ASSUME NEW n \in Numbers, pulls[n].st = "open", pulls'[n].st = "merged",
                    humans' = humans
             PROVE  green /\ pulls[n].head = "ours"
  BY DEF MergedChecked
<1>1. pulls' # pulls
  OBVIOUS
<1>2. ~UNCHANGED vars
  BY <1>1 DEF vars, forge
<1>3. ASSUME NEW d \in Drives, (\E c \in Called(d) : Start(d, c)) \/ Lose(d) \/ Crash(d)
      PROVE  FALSE
  BY <1>1, <1>3 DEF Start, Lose, Crash, forge
<1>4. ASSUME NEW d \in Drives, Step(d) PROVE FALSE
  <2>1. CASE Publishing(d) \/ Creating(d) \/ Merging(d) \/ Observing(d)
    BY <1>1, <2>1, PublishingKeeps, CreatingKeeps, MergingKeeps, ObservingKeeps DEF Frame
  <2>2. CASE Recording(d) \/ Concluding(d)
    BY <1>1, <2>2 DEF Recording, Reconcile, WriteReceipt, Concluding, Conclude, RecheckConclusion, WriteConclusion, forge
  <2>3. CASE Verifying(d)
    BY <1>1, <2>3 DEF Verifying, VerifyBegin, VerifyMake, VerifyRun, VerifyLoad, WriteAttempt, forge
  <2> QED BY <1>4, <2>1, <2>2, <2>3 DEF Step
<1>5. ASSUME NEW d \in Drives, Land(d) PROVE green /\ pulls[n].head = "ours"
  <2>1. flight[d] \in [kind : Kinds, number : Numbers \cup {0}] /\ flight[d] # None
    BY <1>5 DEF Land, EffectsOK
  <2>2. flight[d].kind # "push"
    BY <1>1, <1>5 DEF Land
  <2>3. flight[d].kind # "create"
    <3>1. ASSUME NewPull("intended") PROVE FALSE
      <4>1. PICK m \in Numbers :
              pulls' = [pulls EXCEPT ![m] = [st |-> "open", base |-> "intended", head |-> ref]]
        BY <3>1 DEF NewPull
      <4>2. pulls'[n] = pulls[n] \/ pulls'[n].st = "open"
        BY <4>1 DEF WorldOK
      <4> QED BY <4>2
    <3> QED BY <1>1, <1>5, <3>1 DEF Land
  <2>4. flight[d].kind = "merge"
    BY <2>1, <2>2, <2>3 DEF Kinds
  <2>5. MergeLands(flight[d].number)
    BY <1>5, <2>4 DEF Land
  <2>6. green
    BY <2>1, <2>4 DEF Backed
  <2>7. n = flight[d].number
    BY <1>1, <2>5 DEF MergeLands, WorldOK
  <2> QED BY <1>1, <2>5, <2>6, <2>7 DEF MergeLands
<1>6. ~World
  <2>1. ~(RunChecks \/ Fetch \/ RecoverLease)
    BY <1>1 DEF RunChecks, Fetch, RecoverLease, forge
  <2>2. ~Someone
    BY DEF Someone, EffectsOK, DeliveryAssumption
  <2> QED BY <2>1, <2>2 DEF World, HumanPush, DeleteBranch, HumanPull, Rerun, Configure
<1> QED BY <1>2, <1>3, <1>4, <1>5, <1>6 DEF Next

\* Whatever happens between the decision and the request, and however late the request lands,
\* what it merges is the task's commit, with checks that had succeeded
\* (merge-pull-request.ts 255-288).
THEOREM MergesAreOfTheCheckedCommit == Spec => MergesOnlyTheCheckedCommit
<1> USE DeliveryAssumption
<1>1. Init => Backed
  <2>1. None # "MATCHED_CHECKS_SUCCESS"
    BY NoDecisionIsNone DEF Decisions
  <2> QED BY <2>1 DEF Init, Backed
<1>2. DeliveryInv /\ Backed /\ [Next]_vars => Backed' /\ [MergedChecked]_vars
  BY NextBacked, StepMergesChecked DEF DeliveryInv
<1> QED BY <1>1, <1>2, InvariantHolds, PTL DEF Spec, MergesOnlyTheCheckedCommit, MergedChecked

----------------------------------------------------------------------------
(* What a call that nobody attends sends.                                  *)

\* The points around a request, between the look at the forge and the answer.
Sending == {"readRef", "pushed", "situation", "created", "readPull", "merged"}

\* A call that has published and was not a drive has no publication ahead of it.
Behind(d) == /\ ~call[d].drive /\ "publish" \notin call[d].acts
             /\ pc[d] \notin {"publish", "readRef"}

Reported == {"AUTHORISED", "DISPATCHED", "DISPATCHED_AT_COMMIT"}

\* Only an attended call opens or merges. One that is not has its authorisation on disk when it
\* is about to push, and keeps it once it has pushed, because it never comes to that point again.
AccountedFor(d) ==
  /\ pc[d] \in Sending \ {"readRef", "pushed"} => call[d].attended
  /\ ~call[d].attended =>
       /\ sent[d] \subseteq {"push"}
       /\ pc[d] = "readRef" => audit[d] = "AUTHORISED"
       /\ sent[d] # {} => audit[d] \in Reported /\ (pc[d] \in {"pushed", "idle"} \/ Behind(d))

Accounted == \A d \in Drives : AccountedFor(d)

\* The other calls stay where they are, with what they have sent.
OthersWait(d) ==
  \A e \in Drives \ {d} : /\ pc'[e] = pc[e] /\ call'[e] = call[e]
                          /\ sent'[e] = sent[e] /\ audit'[e] = audit[e]

\* A call goes on, or returns, without coming near a request.
Onward(d) ==
  /\ \A e \in Drives \ {d} : pc'[e] = pc[e] /\ call'[e] = call[e]
  /\ call'[d].attended = call[d].attended /\ pc'[d] \notin Sending
  /\ \/ pc'[d] = "idle" \/ call[d].drive
     \/ /\ ~call'[d].drive /\ call'[d].acts \subseteq call[d].acts
        /\ pc'[d] = "publish" => "publish" \in call'[d].acts

LEMMA SettleOnward ==
  ASSUME CallsOK, NEW d \in Drives, Settle(d)
  PROVE  Onward(d) /\ pc'[d] = "idle"
<1>1. call[d] \in Call
  BY DEF CallsOK
<1> QED BY <1>1 DEF Settle, CallsOK, Call, Onward, Sending

LEMMA DoneOnward ==
  ASSUME CallsOK, NEW d \in Drives, NEW act \in Acts, Done(d, act)
  PROVE  /\ Onward(d)
         /\ pc'[d] = "idle" \/ (~call'[d].drive /\ act \notin call'[d].acts /\ pc'[d] # act)
<1>1. CASE Settle(d)
  BY <1>1, SettleOnward
<1>2. CASE ~(call[d].drive \/ call[d].acts \subseteq {act})
  <2> DEFINE rest == call[d].acts \ {act}
  <2>1. rest \in SUBSET Acts /\ rest # {}
    BY <1>2 DEF CallsOK, Call
  <2>2. FirstOf(rest) \in rest
    BY <2>1, FirstIsNamed
  <2>3. pc' = [pc EXCEPT ![d] = FirstOf(rest)] /\ call' = [call EXCEPT ![d].acts = rest]
    BY <1>2 DEF Done, Goto
  <2>4. call[d] \in Call
    BY DEF CallsOK
  <2>5. /\ call'[d].acts = rest /\ call'[d].drive = call[d].drive
        /\ call'[d].attended = call[d].attended /\ pc'[d] = FirstOf(rest)
        /\ \A e \in Drives \ {d} : pc'[e] = pc[e] /\ call'[e] = call[e]
    BY <2>3, <2>4 DEF CallsOK, Call
  <2>6. act \notin rest /\ rest \subseteq call[d].acts
    OBVIOUS
  <2> HIDE DEF rest
  <2> QED BY <1>2, <2>1, <2>2, <2>5, <2>6 DEF Onward, Sending, Acts
<1> QED BY <1>1, <1>2 DEF Done

LEMMA GotoOnward ==
  ASSUME CallsOK, NEW d \in Drives, NEW at \in Phases \ Sending, Goto(d, at), UNCHANGED call,
         at = "publish" => call[d].drive
  PROVE  Onward(d)
BY DEF Goto, CallsOK, Onward

LEMMA VerifiedOnward ==
  ASSUME CallsOK, NEW d \in Drives, Verified(d)
  PROVE  Onward(d)
<1>1. CASE call[d].drive
  BY <1>1, GotoOnward DEF Verified, Phases, Sending
<1>2. CASE ~call[d].drive
  BY <1>2, DoneOnward DEF Verified, Acts
<1> QED BY <1>1, <1>2

\* Away from a push, a call that has sent something has no publication ahead of it.
LEMMA OnwardAccounted ==
  ASSUME CallsOK, Accounted, NEW d \in Drives, Onward(d), UNCHANGED <<audit, sent>>,
         pc[d] \notin {"idle", "pushed", "publish", "readRef"}
  PROVE  Accounted'
<1>1. ASSUME NEW e \in Drives \ {d} PROVE AccountedFor(e)'
  BY <1>1 DEF Accounted, AccountedFor, Behind, Onward
<1>2. AccountedFor(d)'
  BY DEF Accounted, AccountedFor, Behind, Onward, Sending
<1> QED BY <1>1, <1>2 DEF Accounted

\* An attended call owes no account.
LEMMA AttendedAccounted ==
  ASSUME CallsOK, Accounted, NEW d \in Drives, OthersWait(d), call'[d].attended
  PROVE  Accounted'
<1>1. ASSUME NEW e \in Drives \ {d} PROVE AccountedFor(e)'
  BY <1>1 DEF Accounted, AccountedFor, Behind, OthersWait
<1>2. AccountedFor(d)'
  BY DEF AccountedFor
<1> QED BY <1>1, <1>2 DEF Accounted

\* Neither does one that has sent nothing.
LEMMA UnsentAccounted ==
  ASSUME CallsOK, Accounted, NEW d \in Drives, Onward(d), UNCHANGED sent,
         \A e \in Drives \ {d} : audit'[e] = audit[e], ~call[d].attended => sent[d] = {}
  PROVE  Accounted'
<1>1. ASSUME NEW e \in Drives \ {d} PROVE AccountedFor(e)'
  BY <1>1 DEF Accounted, AccountedFor, Behind, Onward
<1>2. AccountedFor(d)'
  BY DEF Accounted, AccountedFor, Onward, Sending
<1> QED BY <1>1, <1>2 DEF Accounted

LEMMA PublishingAccounted ==
  ASSUME Typed, Accounted, NEW d \in Drives, Publishing(d)
  PROVE  Accounted'
<1> USE DEF Typed
<1>1. CASE PublishRecheck(d)
  <2>1. ~call[d].attended => sent[d] = {}
    BY <1>1 DEF PublishRecheck, Accounted, AccountedFor, Behind
  <2>2. UNCHANGED sent /\ \A e \in Drives \ {d} : audit'[e] = audit[e]
    BY <1>1 DEF PublishRecheck, EffectsOK
  <2>3. CASE Done(d, "publish")
    <3>1. Onward(d)
      BY <2>3, DoneOnward DEF Acts
    <3> QED BY <2>1, <2>2, <3>1, UnsentAccounted
  <2>4. CASE /\ Goto(d, "readRef") /\ UNCHANGED <<memory, calling>>
             /\ audit' = [audit EXCEPT ![d] = IF call[d].attended THEN None ELSE "AUTHORISED"]
    <3>1. /\ pc'[d] = "readRef" /\ UNCHANGED call
          /\ \A e \in Drives \ {d} : pc'[e] = pc[e]
          /\ ~call[d].attended => audit'[d] = "AUTHORISED"
      BY <2>4 DEF Goto, CallsOK, EffectsOK, calling
    <3>2. ASSUME NEW e \in Drives \ {d} PROVE AccountedFor(e)'
      BY <2>2, <3>1, <3>2 DEF Accounted, AccountedFor, Behind
    <3>3. AccountedFor(d)'
      BY <2>1, <2>2, <3>1 DEF AccountedFor, Sending
    <3> QED BY <3>2, <3>3 DEF Accounted
  <2> QED BY <1>1, <2>3, <2>4 DEF PublishRecheck
<1>2. CASE PublishSend(d)
  <2>1. ~call[d].attended => sent[d] = {} /\ audit[d] = "AUTHORISED"
    BY <1>2 DEF PublishSend, Accounted, AccountedFor, Behind
  <2>2. \A e \in Drives \ {d} : audit'[e] = audit[e] /\ sent'[e] = sent[e]
    BY <1>2 DEF PublishSend, RecordOutcome, EffectsOK
  <2>3. CASE /\ sent' = [sent EXCEPT ![d] = @ \cup {"push"}] /\ Goto(d, "pushed")
             /\ UNCHANGED <<memory, calling, audit>>
    <3>1. /\ pc'[d] = "pushed" /\ UNCHANGED <<call, audit>>
          /\ sent'[d] = sent[d] \cup {"push"}
          /\ \A e \in Drives \ {d} : pc'[e] = pc[e]
      BY <2>3 DEF Goto, CallsOK, EffectsOK, calling
    <3>2. ASSUME NEW e \in Drives \ {d} PROVE AccountedFor(e)'
      BY <2>2, <3>1, <3>2 DEF Accounted, AccountedFor, Behind
    <3>3. AccountedFor(d)'
      BY <2>1, <3>1 DEF AccountedFor, Sending, Reported
    <3> QED BY <3>2, <3>3 DEF Accounted
  <2>4. CASE UNCHANGED sent
    <3>1. \/ Done(d, "publish") \/ Settle(d)
          \/ Goto(d, "create") /\ UNCHANGED <<memory, calling>>
          \/ Goto(d, "pushed")
      BY <1>2 DEF PublishSend
    <3>2. CASE Goto(d, "create") /\ UNCHANGED <<memory, calling>>
      <4>1. Onward(d)
        BY <3>2, GotoOnward DEF Phases, Sending, calling
      <4> QED BY <2>1, <2>2, <2>4, <4>1, UnsentAccounted
    <3>3. CASE Done(d, "publish") \/ Settle(d)
      <4>1. Onward(d)
        BY <3>3, DoneOnward, SettleOnward DEF Acts
      <4> QED BY <2>1, <2>2, <2>4, <4>1, UnsentAccounted
    <3>4. CASE ~(Done(d, "publish") \/ Settle(d) \/ (Goto(d, "create") /\ UNCHANGED <<memory, calling>>))
      BY <1>2, <2>3, <3>4 DEF PublishSend
    <3> QED BY <3>2, <3>3, <3>4
  <2> QED BY <1>2, <2>3, <2>4 DEF PublishSend
<1>3. CASE PublishGrade(d)
  <2>1. pc[d] = "pushed" /\ UNCHANGED sent /\ Done(d, "publish")
    BY <1>3 DEF PublishGrade
  <2>2. \A e \in Drives \ {d} : audit'[e] = audit[e]
    BY <1>3 DEF PublishGrade, RecordOutcome, EffectsOK
  <2>3. audit[d] \in Reported => audit'[d] \in Reported
    BY <1>3 DEF PublishGrade, RecordOutcome, EffectsOK, Reported
  <2>4. /\ Onward(d)
        /\ pc'[d] = "idle" \/ (~call'[d].drive /\ "publish" \notin call'[d].acts /\ pc'[d] # "publish")
    BY <2>1, DoneOnward DEF Acts
  <2>5. ASSUME NEW e \in Drives \ {d} PROVE AccountedFor(e)'
    BY <2>1, <2>2, <2>4, <2>5 DEF Accounted, AccountedFor, Behind, Onward
  <2>6. AccountedFor(d)'
    BY <2>1, <2>3, <2>4 DEF Accounted, AccountedFor, Behind, Onward, Sending
  <2> QED BY <2>5, <2>6 DEF Accounted
<1> QED BY <1>1, <1>2, <1>3 DEF Publishing

\* A call opens and merges only while somebody attends it.
LEMMA RequestsAccounted ==
  ASSUME Typed, Accounted, NEW d \in Drives, Creating(d) \/ Merging(d)
  PROVE  Accounted'
<1> USE DEF Typed
<1>1. UNCHANGED audit /\ \A e \in Drives \ {d} : sent'[e] = sent[e]
  BY DEF Creating, CreateRecheck, CreateSend, CreateGrade, Merging, MergeRecheck, MergeSend,
     MergeGrade, EffectsOK, effects
<1>2. pc[d] \notin {"idle", "pushed", "publish", "readRef"}
  BY DEF Creating, CreateRecheck, CreateSend, CreateGrade, Merging, MergeRecheck, MergeSend, MergeGrade
<1>3. CASE UNCHANGED sent /\ \E act \in Acts : Done(d, act)
  BY <1>1, <1>2, <1>3, DoneOnward, OnwardAccounted
<1>4. CASE call[d].attended /\ \E at \in Phases : Goto(d, at) /\ UNCHANGED calling
  <2>1. OthersWait(d) /\ UNCHANGED call
    BY <1>1, <1>4 DEF OthersWait, Goto, CallsOK, calling
  <2> QED BY <1>4, <2>1, AttendedAccounted
<1>5. pc[d] \in {"situation", "readPull"} => call[d].attended
  BY DEF Accounted, AccountedFor, Sending
<1>6. CASE Creating(d)
  BY <1>3, <1>4, <1>5, <1>6 DEF Creating, CreateRecheck, CreateSend, CreateGrade, Acts, Phases, effects
<1>7. CASE Merging(d)
  BY <1>3, <1>4, <1>5, <1>7 DEF Merging, MergeRecheck, MergeSend, MergeGrade, Acts, Phases, effects
<1> QED BY <1>6, <1>7

LEMMA OthersAccounted ==
  ASSUME Typed, Accounted, NEW d \in Drives,
         Observing(d) \/ Recording(d) \/ Verifying(d) \/ Concluding(d)
  PROVE  Accounted'
<1> USE DEF Typed
<1> DEFINE Calm == \/ \E act \in Acts : Done(d, act)
                   \/ Settle(d)
                   \/ Verified(d)
                   \/ \E at \in Phases \ Sending :
                        /\ Goto(d, at) /\ UNCHANGED call
                        /\ at = "publish" => call[d].drive
<1>1. UNCHANGED <<audit, sent>>
  BY DEF Observing, ObservePulls, ObserveChecks, Recording, Reconcile, WriteReceipt, Verifying,
     VerifyBegin, VerifyMake, VerifyRun, VerifyLoad, WriteAttempt, Concluding, Conclude,
     RecheckConclusion, WriteConclusion, effects
<1>2. pc[d] \notin {"idle", "pushed", "publish", "readRef"}
  BY DEF Observing, ObservePulls, ObserveChecks, Recording, Reconcile, WriteReceipt, Verifying,
     VerifyBegin, VerifyMake, VerifyRun, VerifyLoad, WriteAttempt, Concluding, Conclude, RecheckConclusion, WriteConclusion
<1>3. CASE Calm
  <2>1. Onward(d)
    <3>1. ASSUME NEW act \in Acts, Done(d, act) PROVE Onward(d)
      BY <3>1, DoneOnward
    <3>2. ASSUME NEW at \in Phases \ Sending, Goto(d, at), UNCHANGED call,
                 at = "publish" => call[d].drive
          PROVE  Onward(d)
      BY <3>2, GotoOnward
    <3>3. Settle(d) => Onward(d)
      BY SettleOnward
    <3>4. Verified(d) => Onward(d)
      BY VerifiedOnward
    <3> QED BY <1>3, <3>1, <3>2, <3>3, <3>4
  <2> QED BY <1>1, <1>2, <2>1, OnwardAccounted
<1>4. CASE ObservePulls(d)
  <2>1. Calm
    BY <1>4 DEF ObservePulls, Acts, Phases, Sending, calling
  <2> HIDE DEF Calm
  <2> QED BY <1>3, <2>1
<1>5. CASE ObserveChecks(d)
  <2> DEFINE decided == Decide(seen[d], checks)
             rest == call[d].acts \ {"observe"}
  <2>1. CASE Settle(d) \/ Done(d, "observe")
    <3>1. Calm
      BY <2>1 DEF Acts
    <3> HIDE DEF Calm
    <3> QED BY <1>3, <3>1
  <2>2. CASE /\ call[d].drive /\ Answer(d, decided) # "idle"
             /\ Goto(d, Answer(d, decided)) /\ UNCHANGED calling
    <3>1. Answer(d, decided) \in {"idle", "merge", "publish", "create"}
      BY DEF Answer, Decide, WorldOK, CheckStates
    <3> HIDE DEF decided
    <3>2. Calm
      BY <2>2, <3>1 DEF Phases, Sending, calling
    <3> HIDE DEF Calm
    <3> QED BY <1>3, <3>2
  <2>3. CASE /\ ~(call[d].drive \/ call[d].acts \subseteq {"observe"})
             /\ call' = [call EXCEPT ![d].acts = rest] /\ Goto(d, FirstOf(rest))
    <3>1. rest \in SUBSET Acts /\ rest # {}
      BY <2>3 DEF CallsOK, Call
    <3>2. FirstOf(rest) \in rest
      BY <3>1, FirstIsNamed
    <3>3. call[d] \in Call
      BY DEF CallsOK
    <3>4. /\ call'[d].acts = rest /\ call'[d].drive = call[d].drive
          /\ call'[d].attended = call[d].attended /\ pc'[d] = FirstOf(rest)
          /\ \A e \in Drives \ {d} : pc'[e] = pc[e] /\ call'[e] = call[e]
      BY <2>3, <3>3 DEF CallsOK, Call, Goto
    <3>5. rest \subseteq call[d].acts
      OBVIOUS
    <3> HIDE DEF rest
    <3>6. Onward(d)
      BY <2>3, <3>1, <3>2, <3>4, <3>5 DEF Onward, Sending, Acts
    <3> QED BY <1>1, <1>2, <3>6, OnwardAccounted
  <2> HIDE DEF Calm
  <2> QED BY <1>5, <2>1, <2>2, <2>3 DEF ObserveChecks
<1>6. CASE Recording(d)
  <2>1. Unmerged(d) # "idle" => Unmerged(d) \in {"publish", "observe"}
    BY DEF Unmerged, Situation
  <2>2. Calm
    BY <1>6, <2>1 DEF Recording, Reconcile, WriteReceipt, Acts, Phases, Sending, calling
  <2> HIDE DEF Calm
  <2> QED BY <1>3, <2>2
<1>7. CASE Verifying(d)
  <2>1. Calm
    BY <1>7 DEF Verifying, VerifyBegin, VerifyMake, VerifyRun, VerifyLoad, WriteAttempt, Acts, Phases,
       Sending, calling
  <2> HIDE DEF Calm
  <2> QED BY <1>3, <2>1
<1>8. CASE Concluding(d)
  <2>1. Calm
    BY <1>8 DEF Concluding, Conclude, RecheckConclusion, WriteConclusion, Acts, Phases, Sending, calling
  <2> HIDE DEF Calm
  <2> QED BY <1>3, <2>1
<1> QED BY <1>4, <1>5, <1>6, <1>7, <1>8 DEF Observing

LEMMA NextAccounted ==
  ASSUME DeliveryAssumption, Typed, Accounted, [Next]_vars
  PROVE  Accounted'
<1> USE DEF Typed
<1>1. CASE UNCHANGED <<pc, call, sent, audit>>
  BY <1>1 DEF Accounted, AccountedFor, Behind
<1>2. ASSUME NEW d \in Drives, Land(d) \/ Lose(d) PROVE Accounted'
  BY <1>1, <1>2 DEF Land, Lose, calling
<1>3. CASE World
  BY <1>1, <1>3 DEF World, RunChecks, Fetch, RecoverLease, HumanPush, DeleteBranch, HumanPull, Rerun,
     Configure, calling, effects
<1>4. ASSUME NEW d \in Drives, NEW c \in Called(d), Start(d, c) PROVE Accounted'
  <2>1. c.acts # {} /\ c.acts \in SUBSET Acts
    <3>1. FullDrive.acts # {} /\ FullDrive.acts \in SUBSET Acts
      BY DEF FullDrive, Acts
    <3> QED BY <3>1 DEF Called, DeliveryAssumption, Call
  <2>2. FirstOf(c.acts) \in Acts
    BY <2>1, FirstIsNamed
  <2> DEFINE at == IF c.drive THEN "conclude" ELSE FirstOf(c.acts)
  <2>3. at \notin Sending
    BY <2>2 DEF Acts, Sending
  <2>4. pc' = [pc EXCEPT ![d] = at] /\ call' = [call EXCEPT ![d] = c]
        /\ audit' = [audit EXCEPT ![d] = None] /\ sent' = [sent EXCEPT ![d] = {}]
    BY <1>4 DEF Start
  <2> HIDE DEF at
  <2>5. ASSUME NEW e \in Drives \ {d} PROVE AccountedFor(e)'
    BY <2>4, <2>5 DEF Accounted, AccountedFor, Behind, CallsOK, EffectsOK
  <2>6. AccountedFor(d)'
    BY <2>3, <2>4 DEF AccountedFor, Sending, CallsOK, EffectsOK
  <2> QED BY <2>5, <2>6 DEF Accounted
<1>5. ASSUME NEW d \in Drives, Crash(d) PROVE Accounted'
  <2>1. Onward(d) /\ pc'[d] = "idle" /\ UNCHANGED <<sent, audit>>
    BY <1>5, SettleOnward DEF Crash, effects
  <2>2. ASSUME NEW e \in Drives \ {d} PROVE AccountedFor(e)'
    BY <2>1, <2>2 DEF Accounted, AccountedFor, Behind, Onward
  <2>3. AccountedFor(d)'
    BY <2>1 DEF Accounted, AccountedFor, Onward, Sending
  <2> QED BY <2>2, <2>3 DEF Accounted
<1>6. ASSUME NEW d \in Drives, Step(d) PROVE Accounted'
  BY <1>6, PublishingAccounted, RequestsAccounted, OthersAccounted DEF Step
<1>7. CASE UNCHANGED vars
  BY <1>1, <1>7 DEF vars, calling, effects
<1> QED BY <1>2, <1>3, <1>4, <1>5, <1>6, <1>7 DEF Next

\* Whatever it was asked to do and wherever it dies, a call without a person in attendance sends
\* one push and nothing else, with an authorisation on disk that never turns into a report that
\* nothing was sent (delivery-steps.ts 637-777).
THEOREM UnattendedCallsAreAccounted == Spec => []UnattendedIsAccounted
<1> USE DeliveryAssumption
<1>1. Init => Accounted
  BY DEF Init, Accounted, AccountedFor, Sending
<1>2. DeliveryInv /\ Accounted /\ [Next]_vars => Accounted'
  BY NextAccounted DEF DeliveryInv
<1>3. Accounted => UnattendedIsAccounted
  BY DEF Accounted, AccountedFor, UnattendedIsAccounted, Reported
<1> QED BY <1>1, <1>2, <1>3, InvariantHolds, PTL DEF Spec

=============================================================================
