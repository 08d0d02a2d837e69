--------------------------- MODULE DeliveryDrive ---------------------------
(* `agent-loop delivery` takes one finished task from a local commit to a  *)
(* concluded delivery: the work branch is published, a pull request is     *)
(* opened, merged, seen merged, verified where it landed, and concluded.   *)
(* Every call reads the records beside the task and the forge, performs at *)
(* most what it was granted, and is repeated until nothing is left to do.  *)
(* (src/cli/delivery-driver.ts, src/cli/delivery-steps.ts, src/deliver/)   *)
(*                                                                         *)
(* One action stands for the code between two points at which another call,*)
(* the forge or a person can act. A request to the forge is put in flight  *)
(* and lands later, whether or not the call that sent it is still waiting. *)
EXTENDS Integers, Sequences, FiniteSets

CONSTANTS
  None,         \* no value
  Drives,       \* callers of `agent-loop delivery`, each making one call at a time
  Operator,     \* the one that repeats an attended drive with every grant
  Calls,        \* the calls the others make
  Numbers,      \* pull request numbers
  Profiles,     \* digests of verification profiles
  FirstProfile, \* the one the configuration resolves to at first
  MaxAttempts,  \* MAX_VERIFICATION_ATTEMPTS
  Asks,         \* bound on the calls of everybody but the operator
  HumanMoves,   \* bound on what people do to the forge and the configuration
  Faults        \* bound on crashes, lost requests and readings or writes that fail

Kinds == {"push", "create", "merge"}
Acts == {"observe", "publish", "create", "merge", "reconcile", "verify", "conclude"}
Bases == {"intended", "another"}
Heads == {"ours", "other"}                    \* the task's commit, and anything else
CheckStates == {"NO_CHECKS", "PENDING", "SUCCESS", "FAILED"}
Verdicts == {"VERIFIED_PASS", "VERIFIED_FAIL", "VERIFICATION_NOT_ESTABLISHED"}

\* A call: `drive` chooses its own acts within the grants in `acts`; without it the
\* acts named are performed in their fixed order. Without `attended` a publication
\* stands on the operator's declaration.
Call == [drive : BOOLEAN, attended : BOOLEAN, acts : SUBSET Acts]
FullDrive == [drive |-> TRUE, attended |-> TRUE, acts |-> {"publish", "create", "merge"}]

ASSUME DeliveryAssumption ==
  /\ Operator \in Drives /\ FirstProfile \in Profiles
  /\ Calls \subseteq Call /\ \A c \in Calls : c.acts # {}
  /\ Numbers \subseteq Nat \ {0} /\ IsFiniteSet(Numbers)
  /\ MaxAttempts \in Nat \ {0}
  /\ Asks \in Nat /\ HumanMoves \in Nat /\ Faults \in Nat
  /\ None \notin Drives /\ None \notin Profiles /\ None \notin Numbers

VARIABLES
  \* the forge
  ref,          \* what the work branch holds there
  known,        \* the forge resolves the task's commit
  pulls,        \* pull requests by number
  checks,       \* the check state of the task's commit
  green,        \* history: the checks of the task's commit have succeeded once
  flight,       \* per caller: a request that may still reach the forge
  \* the machine
  receipt,      \* merge receipt: the pull request it names
  history,      \* verification attempts on the merge commit of the receipt
  concluded,    \* delivery conclusion: None or the profile it was reached under
  lease,        \* holder of the repository execution lease
  workspace,    \* a verification workspace is on disk
  fetched,      \* the merge commit is in the local repository
  profile,      \* the profile the configuration resolves to
  resolves,     \* the delivery target resolves to this repository
  permitted,    \* the operator's declaration lets the head be published unattended
  \* the calls
  pc, call, leg, prof, seen, decision, found, proof, draft, audit, sent,
  \* bounds
  asks, humans, faults

forge == <<ref, known, pulls, checks, green>>
records == <<receipt, history, concluded>>
machine == <<lease, workspace, fetched, profile, resolves, permitted>>
memory == <<seen, decision, found, proof, draft>>
calling == <<call, leg, prof>>
effects == <<flight, audit, sent>>
bounds == <<asks, humans, faults>>
vars == <<forge, records, machine, memory, calling, effects, bounds, pc>>

----------------------------------------------------------------------------
(* The forge as the code reads it.                                         *)

NoPull == [st |-> "none", base |-> "intended", head |-> "other"]
Pull == [st : {"none", "open", "closed", "merged"}, base : Bases, head : Heads]

AtHead == {n \in Numbers : pulls[n].st # "none" /\ pulls[n].head = "ours"}
OpenAtHead == {n \in AtHead : pulls[n].st = "open"}

\* classifyPullRequestSituation: open ones first, closed ones only when none is open.
Situation == IF OpenAtHead # {} THEN IF Cardinality(OpenAtHead) = 1 THEN "OPEN_ONE" ELSE "OPEN_MANY"
             ELSE IF AtHead # {} THEN "CLOSED_ONLY" ELSE "NONE"

\* decideDelivery over the pull requests seen first and the checks read after them.
Decide(open, state) ==
  IF state = "FAILED" THEN "CHECKS_FAILED"
  ELSE IF Cardinality(open) > 1 THEN "PULL_REQUEST_AMBIGUOUS"
  ELSE IF open = {} THEN "PULL_REQUEST_REQUIRED"
  ELSE CASE state = "PENDING" -> "CHECKS_PENDING"
         [] state = "NO_CHECKS" -> "CHECKS_ABSENT"
         [] state = "SUCCESS" -> "MATCHED_CHECKS_SUCCESS"
Decisions == {"CHECKS_FAILED", "PULL_REQUEST_AMBIGUOUS", "PULL_REQUEST_REQUIRED",
              "CHECKS_PENDING", "CHECKS_ABSENT", "MATCHED_CHECKS_SUCCESS"}
AdmitsCreation == Decisions \ {"CHECKS_FAILED"}

ASSUME NoDecisionIsNone == None \notin Decisions

----------------------------------------------------------------------------
(* The records as the code reads them.                                     *)

Attempt == [profile : Profiles, verdict : Verdicts]

\* hasPassFor
HasPass(h, p) == \E i \in DOMAIN h : h[i].profile = p /\ h[i].verdict = "VERIFIED_PASS"

\* standingVerdictFor: the last attempt under the profile that established anything.
Stands(h, p, v) ==
  \E i \in DOMAIN h : /\ h[i] = [profile |-> p, verdict |-> v]
                      /\ \A j \in DOMAIN h : j > i /\ h[j].profile = p =>
                           h[j].verdict = "VERIFICATION_NOT_ESTABLISHED"

\* concludeDeliveryForTask, up to the proof it mints.
Stage(p) ==
  CASE concluded # None -> "ALREADY_CONCLUDED"
    [] concluded = None /\ receipt = None -> "RECEIPT_ABSENT"
    [] concluded = None /\ receipt # None /\ history = <<>> -> "VERIFICATION_ABSENT"
    [] OTHER -> IF Stands(history, p, "VERIFIED_PASS") THEN "DELIVERY_CONCLUDED"
                ELSE IF Stands(history, p, "VERIFIED_FAIL") THEN "VERIFICATION_NOT_PASSING"
                ELSE "PROFILE_NOT_VERIFIED"

----------------------------------------------------------------------------
(* Moving a call on.                                                       *)

\* driveDelivery's settle: the call returns and its memory goes with it.
Settle(d) ==
  /\ pc' = [pc EXCEPT ![d] = "idle"]
  /\ seen' = [seen EXCEPT ![d] = {}]
  /\ decision' = [decision EXCEPT ![d] = None]
  /\ found' = [found EXCEPT ![d] = None]
  /\ proof' = [proof EXCEPT ![d] = None]
  /\ draft' = [draft EXCEPT ![d] = None]
  /\ call' = [call EXCEPT ![d].acts = {}]
  /\ leg' = [leg EXCEPT ![d] = "first"]
  /\ UNCHANGED prof

Goto(d, at) == pc' = [pc EXCEPT ![d] = at]

FirstOf(acts) ==
  CASE "observe" \in acts -> "observe"
    [] "observe" \notin acts /\ "publish" \in acts -> "publish"
    [] acts \cap {"observe", "publish"} = {} /\ "create" \in acts -> "create"
    [] acts \cap {"observe", "publish", "create"} = {} /\ "merge" \in acts -> "merge"
    [] acts \subseteq {"reconcile", "verify", "conclude"} /\ "reconcile" \in acts -> "reconcile"
    [] acts \subseteq {"verify", "conclude"} /\ "verify" \in acts -> "verify"
    [] acts \subseteq {"conclude"} -> "conclude"

\* A step is over. A drive stops here; a call that named its acts takes the next one,
\* whatever this one came to.
Done(d, act) ==
  IF call[d].drive \/ call[d].acts \subseteq {act} THEN Settle(d)
  ELSE /\ call' = [call EXCEPT ![d].acts = @ \ {act}]
       /\ Goto(d, FirstOf(call[d].acts \ {act}))
       /\ found' = [found EXCEPT ![d] = None]
       /\ proof' = [proof EXCEPT ![d] = None]
       /\ draft' = [draft EXCEPT ![d] = None]
       /\ UNCHANGED <<leg, prof, seen, decision>>

\* mayPerform: what a drive was granted.
MayPerform(d, act) == act \in call[d].acts /\ (call[d].attended \/ act = "publish")

\* A reading is refused, a write fails, a request is lost, or the process dies.
Faulty == faults > 0 /\ faults' = faults - 1
Sound == UNCHANGED faults

Start(d, c) ==
  /\ pc[d] = "idle" /\ flight[d] = None /\ resolves
  /\ IF d = Operator THEN UNCHANGED asks ELSE asks > 0 /\ asks' = asks - 1
  /\ pc' = [pc EXCEPT ![d] = IF c.drive THEN "conclude" ELSE FirstOf(c.acts)]
  /\ call' = [call EXCEPT ![d] = c]
  /\ prof' = [prof EXCEPT ![d] = profile]
  /\ audit' = [audit EXCEPT ![d] = None]
  /\ sent' = [sent EXCEPT ![d] = {}]
  /\ UNCHANGED <<forge, records, machine, memory, leg, flight, humans, faults>>

----------------------------------------------------------------------------
(* Publishing the head.                                                    *)

\* The grant is minted and claimed, and the subject and the authority are resolved
\* again; an unattended publication records its authorisation before anything else.
PublishRecheck(d) ==
  /\ pc[d] = "publish"
  /\ IF resolves /\ (call[d].attended \/ permitted)
     THEN \/ /\ Goto(d, "readRef") /\ Sound
             /\ audit' = [audit EXCEPT ![d] = IF call[d].attended THEN None ELSE "AUTHORISED"]
             /\ UNCHANGED <<memory, calling>>
          \/ /\ ~call[d].attended /\ Faulty          \* PUBLICATION_AUDIT_UNWRITTEN
             /\ Done(d, "publish") /\ UNCHANGED audit
     ELSE Done(d, "publish") /\ Sound /\ UNCHANGED audit
  /\ UNCHANGED <<forge, records, machine, flight, sent, asks, humans>>

\* Mutation: a push without a confirmation is recorded as one that was not sent.
RecordUnconfirmed(d, outcome) ==
  audit' = [audit EXCEPT ![d] = IF @ = None \/ outcome = "DISPATCHED_AT_COMMIT" THEN @
                                ELSE "NOT_DISPATCHED"]

\* recordHeadPublicationOutcome, for the event this call recorded and no other.
RecordOutcome(d, outcome) ==
  audit' = [audit EXCEPT ![d] = IF @ = None THEN None ELSE outcome]

\* publishDeliveryHead: a ref that holds anything is left alone, and an absent one is
\* pushed with the absence as the condition. A drive that finds the head published goes on.
PublishSend(d) ==
  /\ pc[d] = "readRef"
  /\ \/ /\ ref = None /\ Sound
        /\ flight' = [flight EXCEPT ![d] = [kind |-> "push", number |-> 0]]
        /\ sent' = [sent EXCEPT ![d] = @ \cup {"push"}]
        /\ Goto(d, "pushed")
        /\ UNCHANGED <<memory, calling, audit>>
     \/ /\ ref # None /\ Sound
        /\ RecordOutcome(d, "NOT_DISPATCHED")
        /\ IF ref = "ours" /\ call[d].drive /\ decision[d] # None
           THEN IF MayPerform(d, "create")
                THEN Goto(d, "create") /\ UNCHANGED <<memory, calling>>
                ELSE Settle(d)
           ELSE Done(d, "publish")
        /\ UNCHANGED <<flight, sent>>
     \/ /\ Faulty                                   \* REMOTE_STATE_UNKNOWN
        /\ RecordOutcome(d, "NOT_DISPATCHED")
        /\ Done(d, "publish")
        /\ UNCHANGED <<flight, sent>>
  /\ UNCHANGED <<forge, records, machine, asks, humans>>

\* The answer and the reading after it. Without an answer the command was killed by its
\* deadline, and the request may still be under way.
PublishGrade(d) ==
  /\ pc[d] = "pushed"
  /\ RecordOutcome(d, IF ref = "ours" THEN "DISPATCHED_AT_COMMIT" ELSE "DISPATCHED")
  /\ Done(d, "publish")
  /\ UNCHANGED <<forge, records, machine, flight, sent, bounds>>

----------------------------------------------------------------------------
(* Opening the pull request.                                               *)

\* performCreation's gates, the second look at the subject, and the remote head.
CreateRecheck(d) ==
  /\ pc[d] = "create"
  /\ \/ /\ call[d].attended /\ decision[d] \in AdmitsCreation
        /\ resolves /\ ref = "ours" /\ Sound
        /\ Goto(d, "situation") /\ UNCHANGED <<memory, calling>>
     \/ /\ ~(call[d].attended /\ decision[d] \in AdmitsCreation /\ resolves /\ ref = "ours")
        /\ Done(d, "create") /\ Sound
     \/ Faulty /\ Done(d, "create")
  /\ UNCHANGED <<forge, records, machine, effects, asks, humans>>

\* readSituation: any pull request at the head, open or closed, ends it.
CreateSend(d) ==
  /\ pc[d] = "situation"
  /\ \/ /\ Situation = "NONE" /\ Sound
        /\ flight' = [flight EXCEPT ![d] = [kind |-> "create", number |-> 0]]
        /\ sent' = [sent EXCEPT ![d] = @ \cup {"create"}]
        /\ Goto(d, "created")
        /\ UNCHANGED <<memory, calling>>
     \/ /\ Situation # "NONE" /\ Sound
        /\ Done(d, "create") /\ UNCHANGED <<flight, sent>>
     \/ Faulty /\ Done(d, "create") /\ UNCHANGED <<flight, sent>>
  /\ UNCHANGED <<forge, records, machine, audit, asks, humans>>

CreateGrade(d) ==
  /\ pc[d] = "created"
  /\ Done(d, "create")
  /\ UNCHANGED <<forge, records, machine, flight, audit, sent, bounds>>

----------------------------------------------------------------------------
(* Merging.                                                                *)

\* performMerge: only on a decision that the checks of this very commit succeeded, and
\* only the pull request that decision was about; the subject is looked at again.
MergeRecheck(d) ==
  /\ pc[d] = "merge"
  /\ IF call[d].attended /\ decision[d] = "MATCHED_CHECKS_SUCCESS" /\ resolves
     THEN Goto(d, "readPull") /\ UNCHANGED <<memory, calling>>
     ELSE Done(d, "merge")
  /\ UNCHANGED <<forge, records, machine, effects, bounds>>

\* gradeMergePrecondition: open, at the task's commit, into the task's base.
Mergeable(n) == pulls[n] = [st |-> "open", base |-> "intended", head |-> "ours"]

MergeSend(d) ==
  /\ pc[d] = "readPull"
  /\ \/ \E n \in seen[d] :
          /\ Mergeable(n) /\ Sound
          /\ flight' = [flight EXCEPT ![d] = [kind |-> "merge", number |-> n]]
          /\ sent' = [sent EXCEPT ![d] = @ \cup {"merge"}]
          /\ Goto(d, "merged")
          /\ UNCHANGED <<memory, calling>>
     \/ /\ \A n \in seen[d] : ~Mergeable(n)
        /\ Sound /\ Done(d, "merge") /\ UNCHANGED <<flight, sent>>
     \/ Faulty /\ Done(d, "merge") /\ UNCHANGED <<flight, sent>>
  /\ UNCHANGED <<forge, records, machine, audit, asks, humans>>

MergeGrade(d) ==
  /\ pc[d] = "merged"
  /\ Done(d, "merge")
  /\ UNCHANGED <<forge, records, machine, flight, audit, sent, bounds>>

----------------------------------------------------------------------------
(* Observing: the pull requests at the head, then the checks of the commit. *)

ObservePulls(d) ==
  /\ pc[d] = "observe"
  /\ \/ /\ known /\ Sound
        /\ seen' = [seen EXCEPT ![d] = OpenAtHead]
        /\ Goto(d, "checks")
        /\ UNCHANGED <<decision, found, proof, draft, calling>>
     \/ ~known /\ Sound /\ Done(d, "observe")
     \/ Faulty /\ Done(d, "observe")
  /\ UNCHANGED <<forge, records, machine, effects, asks, humans>>

\* What a drive does about a decision: merge on success, wait or stop on the checks and on
\* an ambiguity, and otherwise publish and then open, as far as it was granted.
Answer(d, decided) ==
  CASE decided = "MATCHED_CHECKS_SUCCESS" ->
         IF MayPerform(d, "merge") THEN "merge" ELSE "idle"
    [] decided = "PULL_REQUEST_REQUIRED" ->
         IF MayPerform(d, "publish") THEN "publish"
         ELSE IF MayPerform(d, "create") THEN "create" ELSE "idle"
    [] OTHER -> "idle"

\* The decision, after the subject has been looked at once more.
ObserveChecks(d) ==
  LET decided == Decide(seen[d], checks) IN
  /\ pc[d] = "checks"
  /\ \/ /\ resolves /\ Sound
        /\ IF call[d].drive /\ Answer(d, decided) # "idle"
           THEN /\ decision' = [decision EXCEPT ![d] = decided]
                /\ Goto(d, Answer(d, decided))
                /\ UNCHANGED <<seen, found, proof, draft, calling>>
           ELSE IF call[d].drive \/ call[d].acts \subseteq {"observe"} THEN Settle(d)
           ELSE /\ decision' = [decision EXCEPT ![d] = decided]
                /\ call' = [call EXCEPT ![d].acts = @ \ {"observe"}]
                /\ Goto(d, FirstOf(call[d].acts \ {"observe"}))
                /\ UNCHANGED <<seen, found, proof, draft, leg, prof>>
     \/ ~resolves /\ Sound /\ Done(d, "observe")
     \/ Faulty /\ Done(d, "observe")
  /\ UNCHANGED <<forge, records, machine, effects, asks, humans>>

----------------------------------------------------------------------------
(* Seeing the merge, and the receipt.                                      *)

\* Mutation: where the pull request was merged is not looked at.
MergedAnywhere == IF Situation = "CLOSED_ONLY" /\ Cardinality(AtHead) = 1
                  THEN {n \in AtHead : pulls[n].st = "merged"} ELSE {}

\* observeMergeForDelivery: one closed pull request at the head, merged into the task's base.
MergeObserved == IF /\ Situation = "CLOSED_ONLY" /\ Cardinality(AtHead) = 1
                    /\ \A n \in AtHead : pulls[n].st = "merged" /\ pulls[n].base = "intended"
                 THEN AtHead ELSE {}

\* Mutation: an open pull request is taken for one somebody else will see to.
UnmergedLeavesOpen(d) ==
  IF ~known THEN IF MayPerform(d, "publish") THEN "publish" ELSE "idle"
  ELSE IF Situation = "NONE" THEN "observe" ELSE "idle"

\* Where a drive goes when no merge was seen.
Unmerged(d) ==
  IF ~known THEN IF MayPerform(d, "publish") THEN "publish" ELSE "idle"
  ELSE CASE Situation \in {"NONE", "OPEN_ONE", "OPEN_MANY"} -> "observe"
         [] Situation = "CLOSED_ONLY" ->
              IF Cardinality(AtHead) = 1 /\ \A n \in AtHead : pulls[n].st = "closed"
              THEN "observe" ELSE "idle"

\* performReconciliation: the reading, and in the same breath the receipt on disk. One that
\* names this merge is enough; another is a conflict; only an absent one is to be written,
\* and before it is, the ignore rules are asked.
Reconcile(d) ==
  /\ pc[d] = "reconcile"
  /\ \/ /\ known /\ MergeObserved # {} /\ Sound
        /\ \E n \in MergeObserved :
             IF receipt = None
             THEN /\ found' = [found EXCEPT ![d] = n] /\ Goto(d, "receipt")
                  /\ UNCHANGED <<seen, decision, proof, draft, calling>>
             ELSE IF receipt = n /\ call[d].drive
             THEN /\ leg' = [leg EXCEPT ![d] = "recorded"] /\ Goto(d, "conclude")
                  /\ UNCHANGED <<memory, call, prof>>
             ELSE Done(d, "reconcile")
     \/ /\ ~(known /\ MergeObserved # {}) /\ Sound
        /\ IF call[d].drive /\ Unmerged(d) # "idle"
           THEN Goto(d, Unmerged(d)) /\ UNCHANGED <<memory, calling>>
           ELSE Done(d, "reconcile")
     \/ Faulty /\ Done(d, "reconcile")
  /\ UNCHANGED <<forge, records, machine, effects, asks, humans>>

\* The receipt is written over whatever is there by now.
WriteReceipt(d) ==
  /\ pc[d] = "receipt"
  /\ \/ /\ receipt' = found[d] /\ Sound
        /\ IF call[d].drive
           THEN /\ leg' = [leg EXCEPT ![d] = "recorded"] /\ Goto(d, "conclude")
                /\ found' = [found EXCEPT ![d] = None]
                /\ UNCHANGED <<seen, decision, proof, draft, call, prof>>
           ELSE Done(d, "reconcile")
     \/ Faulty /\ Done(d, "reconcile") /\ UNCHANGED receipt
  /\ UNCHANGED <<forge, history, concluded, machine, effects, asks, humans>>

----------------------------------------------------------------------------
(* Verifying the merge, under the repository execution lease.              *)

\* A verification is over: what a drive does next depends on whether a verdict was sought.
Verified(d) ==
  IF call[d].drive
  THEN /\ leg' = [leg EXCEPT ![d] = "verified"] /\ Goto(d, "conclude")
       /\ draft' = [draft EXCEPT ![d] = None]
       /\ UNCHANGED <<seen, decision, found, proof, call, prof>>
  ELSE Done(d, "verify")

\* acquireExecutionLease, and its mutation: a lease another call holds is taken over.
LeaseTaken == TRUE
LeaseFree == lease = None

\* The lease is taken, the receipt is read, and a merge that passed under this profile is
\* not verified again.
VerifyBegin(d) ==
  /\ pc[d] = "verify"
  /\ \/ /\ ~LeaseFree \/ receipt = None
        /\ Done(d, "verify") /\ UNCHANGED lease
     \/ /\ LeaseFree /\ receipt # None
        /\ IF HasPass(history, prof[d]) THEN Verified(d) /\ UNCHANGED lease
           ELSE /\ lease' = d /\ Goto(d, "make")
                /\ UNCHANGED <<memory, calling>>
  /\ UNCHANGED <<forge, records, workspace, fetched, profile, resolves, permitted, effects, bounds>>

\* createVerificationWorkspace: the merge commit has to be here and the path has to be free.
VerifyMake(d) ==
  /\ pc[d] = "make"
  /\ IF fetched /\ ~workspace
     THEN /\ workspace' = TRUE /\ Goto(d, "run")
          /\ UNCHANGED <<memory, calling, lease>>
     ELSE /\ Done(d, "verify") /\ lease' = None /\ UNCHANGED workspace
  /\ UNCHANGED <<forge, records, fetched, profile, resolves, permitted, effects, bounds>>

\* The commands run, the workspace is removed or refuses to be, and a verdict is minted.
VerifyRun(d) ==
  /\ pc[d] = "run"
  /\ \E v \in Verdicts :
       draft' = [draft EXCEPT ![d] = <<[profile |-> prof[d], verdict |-> v]>>]
  /\ \/ workspace' = FALSE /\ Sound
     \/ UNCHANGED workspace /\ Faulty
  /\ Goto(d, "load")
  /\ UNCHANGED <<forge, records, lease, fetched, profile, resolves, permitted,
                 seen, decision, found, proof, calling, effects, asks, humans>>

\* recordPostMergeVerification up to its ignore questions: nothing is added after a pass
\* under the same profile, nor to a full history.
VerifyLoad(d) ==
  /\ pc[d] = "load"
  /\ IF HasPass(history, prof[d]) \/ Len(history) >= MaxAttempts
     THEN Verified(d) /\ lease' = None
     ELSE /\ draft' = [draft EXCEPT ![d] = history \o @]
          /\ Goto(d, "attempt")
          /\ UNCHANGED <<seen, decision, found, proof, calling, lease>>
  /\ UNCHANGED <<forge, records, workspace, fetched, profile, resolves, permitted, effects, bounds>>

WriteAttempt(d) ==
  /\ pc[d] = "attempt"
  /\ \/ history' = draft[d] /\ Sound
     \/ UNCHANGED history /\ Faulty
  /\ lease' = None
  /\ Verified(d)
  /\ UNCHANGED <<forge, receipt, concluded, workspace, fetched, profile, resolves, permitted,
                 effects, asks, humans>>

----------------------------------------------------------------------------
(* Concluding.                                                             *)

\* askConclusion: the three records are read at once, and the stage they show says what a
\* drive turns to.
Conclude(d) ==
  LET stage == Stage(prof[d])
      open == stage \in {"RECEIPT_ABSENT", "VERIFICATION_ABSENT", "PROFILE_NOT_VERIFIED"} IN
  /\ pc[d] = "conclude"
  /\ \/ /\ stage = "DELIVERY_CONCLUDED" /\ Sound
        /\ proof' = [proof EXCEPT ![d] = [receipt |-> receipt, history |-> history]]
        /\ Goto(d, "conclusion")
        /\ UNCHANGED <<seen, decision, found, draft, calling>>
     \/ /\ stage # "DELIVERY_CONCLUDED" /\ Sound
        /\ IF call[d].drive /\ open /\ leg[d] # "verified"
           THEN /\ Goto(d, IF leg[d] = "first" /\ stage = "RECEIPT_ABSENT"
                           THEN "reconcile" ELSE "verify")
                /\ UNCHANGED <<memory, calling>>
           ELSE Done(d, "conclude")
     \/ Faulty /\ Done(d, "conclude")
  /\ UNCHANGED <<forge, records, machine, effects, asks, humans>>

\* recordDeliveryConclusion after its ignore questions: the receipt and the history have to
\* be the ones the proof joined, and no conclusion may have been written meanwhile.
RecheckConclusion(d) ==
  /\ pc[d] = "conclusion"
  /\ \/ /\ Sound
        /\ IF proof[d] = [receipt |-> receipt, history |-> history] /\ concluded = None
           THEN Goto(d, "rename") /\ UNCHANGED <<memory, calling>>
           ELSE Done(d, "conclude")
     \/ Faulty /\ Done(d, "conclude")
  /\ UNCHANGED <<forge, records, machine, effects, asks, humans>>

\* The directory is made, the bytes are staged and flushed, and the rename replaces whatever
\* stands there by then.
WriteConclusion(d) ==
  /\ pc[d] = "rename"
  /\ \/ concluded' = prof[d] /\ Sound
     \/ UNCHANGED concluded /\ Faulty
  /\ Done(d, "conclude")
  /\ UNCHANGED <<forge, receipt, history, machine, effects, asks, humans>>

----------------------------------------------------------------------------
(* The forge, the people around it, and what goes wrong.                   *)

NewPull(base) ==
  \E n \in Numbers :
    /\ pulls[n].st = "none" /\ \A m \in Numbers : pulls[m].st = "none" => n <= m
    /\ pulls' = [pulls EXCEPT ![n] = [st |-> "open", base |-> base, head |-> ref]]

\* One open pull request for a branch and a base.
Openable(base) ==
  /\ ref # None
  /\ \E n \in Numbers : pulls[n].st = "none"
  /\ \A n \in Numbers : ~(pulls[n].st = "open" /\ pulls[n].base = base)

\* The force-with-lease of the push names an absent ref.
PushLands == IF ref = None THEN ref' = "ours" /\ known' = TRUE ELSE UNCHANGED <<ref, known>>

\* Mutation: the request names no commit.
MergeLandsUnpinned(n) ==
  IF pulls[n].st = "open" THEN pulls' = [pulls EXCEPT ![n].st = "merged"] ELSE UNCHANGED pulls

\* The merge request carries the commit the head has to be at.
MergeLands(n) ==
  IF pulls[n].st = "open" /\ pulls[n].head = "ours"
  THEN pulls' = [pulls EXCEPT ![n].st = "merged"] ELSE UNCHANGED pulls

Land(d) ==
  /\ flight[d] # None
  /\ CASE flight[d].kind = "push" -> PushLands /\ UNCHANGED pulls
       [] flight[d].kind = "create" ->
            /\ IF Openable("intended") THEN NewPull("intended") ELSE UNCHANGED pulls
            /\ UNCHANGED <<ref, known>>
       [] flight[d].kind = "merge" -> MergeLands(flight[d].number) /\ UNCHANGED <<ref, known>>
  /\ flight' = [flight EXCEPT ![d] = None]
  /\ UNCHANGED <<checks, green, records, machine, memory, calling, audit, sent, bounds, pc>>

Lose(d) ==
  /\ flight[d] # None /\ Faulty
  /\ flight' = [flight EXCEPT ![d] = None]
  /\ UNCHANGED <<forge, records, machine, memory, calling, audit, sent, asks, humans, pc>>

\* The process dies; its lease, its workspace and its request stay behind.
Crash(d) ==
  /\ pc[d] # "idle" /\ Faulty
  /\ Settle(d)
  /\ UNCHANGED <<forge, records, machine, effects, asks, humans>>

RunChecks ==
  /\ known
  /\ \/ checks = "NO_CHECKS" /\ checks' = "PENDING" /\ UNCHANGED green
     \/ checks = "PENDING" /\ checks' = "FAILED" /\ UNCHANGED green
     \/ checks = "PENDING" /\ checks' = "SUCCESS" /\ green' = TRUE
  /\ UNCHANGED <<ref, known, pulls, records, machine, memory, calling, effects, bounds, pc>>

\* The operator fetches the base branch, and removes the lease of a process that died.
Fetch ==
  /\ ~fetched /\ \E n \in Numbers : pulls[n].st = "merged"
  /\ fetched' = TRUE
  /\ UNCHANGED <<forge, records, lease, workspace, profile, resolves, permitted, memory,
                 calling, effects, bounds, pc>>

RecoverLease ==
  /\ lease # None /\ pc[lease] \notin {"make", "run", "load", "attempt"}
  /\ lease' = None
  /\ UNCHANGED <<forge, records, workspace, fetched, profile, resolves, permitted, memory,
                 calling, effects, bounds, pc>>

Someone == humans > 0 /\ humans' = humans - 1

HumanPush(h) ==
  /\ Someone /\ ref # h /\ ref' = h
  /\ known' = (known \/ h = "ours")
  /\ pulls' = [n \in Numbers |-> IF pulls[n].st = "open" THEN [pulls[n] EXCEPT !.head = h]
                                ELSE pulls[n]]
  /\ UNCHANGED <<checks, green, records, machine, memory, calling, effects, asks, faults, pc>>

DeleteBranch ==
  /\ Someone /\ ref # None /\ ref' = None
  /\ pulls' = [n \in Numbers |-> IF pulls[n].st = "open" THEN [pulls[n] EXCEPT !.st = "closed"]
                                ELSE pulls[n]]
  /\ UNCHANGED <<known, checks, green, records, machine, memory, calling, effects, asks, faults, pc>>

HumanPull ==
  /\ Someone
  /\ \/ \E b \in Bases : Openable(b) /\ NewPull(b)
     \/ \E n \in Numbers : /\ pulls[n].st = "open"
                           /\ \/ \E st \in {"closed", "merged"} : pulls' = [pulls EXCEPT ![n].st = st]
                              \/ pulls' = [pulls EXCEPT ![n].base = "another"]
  /\ UNCHANGED <<ref, known, checks, green, records, machine, memory, calling, effects, asks, faults, pc>>

Rerun ==
  /\ Someone /\ checks \in {"SUCCESS", "FAILED"} /\ checks' = "PENDING"
  /\ UNCHANGED <<ref, known, pulls, green, records, machine, memory, calling, effects, asks, faults, pc>>

Configure ==
  /\ Someone
  /\ \/ profile' \in Profiles \ {profile} /\ UNCHANGED <<resolves, permitted, workspace>>
     \/ resolves' = ~resolves /\ UNCHANGED <<profile, permitted, workspace>>
     \/ permitted' = ~permitted /\ UNCHANGED <<profile, resolves, workspace>>
     \/ workspace /\ lease = None /\ workspace' = FALSE /\ UNCHANGED <<profile, resolves, permitted>>
  /\ UNCHANGED <<forge, records, lease, fetched, memory, calling, effects, asks, faults, pc>>

----------------------------------------------------------------------------
Idle == [drive |-> FALSE, attended |-> FALSE, acts |-> {}]

Init ==
  /\ ref = None /\ known = FALSE /\ pulls = [n \in Numbers |-> NoPull]
  /\ checks = "NO_CHECKS" /\ green = FALSE
  /\ flight = [d \in Drives |-> None]
  /\ receipt = None /\ history = <<>> /\ concluded = None
  /\ lease = None /\ workspace = FALSE /\ fetched = FALSE
  /\ profile = FirstProfile /\ resolves = TRUE /\ permitted = TRUE
  /\ pc = [d \in Drives |-> "idle"] /\ call = [d \in Drives |-> Idle]
  /\ leg = [d \in Drives |-> "first"] /\ prof = [d \in Drives |-> FirstProfile]
  /\ seen = [d \in Drives |-> {}] /\ decision = [d \in Drives |-> None]
  /\ found = [d \in Drives |-> None] /\ proof = [d \in Drives |-> None]
  /\ draft = [d \in Drives |-> None]
  /\ audit = [d \in Drives |-> None] /\ sent = [d \in Drives |-> {}]
  /\ asks = Asks /\ humans = HumanMoves /\ faults = Faults

Publishing(d) == PublishRecheck(d) \/ PublishSend(d) \/ PublishGrade(d)
Creating(d) == CreateRecheck(d) \/ CreateSend(d) \/ CreateGrade(d)
Merging(d) == MergeRecheck(d) \/ MergeSend(d) \/ MergeGrade(d)
Observing(d) == ObservePulls(d) \/ ObserveChecks(d)
Recording(d) == Reconcile(d) \/ WriteReceipt(d)
Verifying(d) == VerifyBegin(d) \/ VerifyMake(d) \/ VerifyRun(d) \/ VerifyLoad(d) \/ WriteAttempt(d)
Concluding(d) == Conclude(d) \/ RecheckConclusion(d) \/ WriteConclusion(d)

Step(d) == \/ Publishing(d) \/ Creating(d) \/ Merging(d) \/ Observing(d)
           \/ Recording(d) \/ Verifying(d) \/ Concluding(d)

Called(d) == IF d = Operator THEN {FullDrive} ELSE Calls

World == \/ RunChecks \/ Fetch \/ RecoverLease
         \/ (\E h \in Heads : HumanPush(h)) \/ DeleteBranch \/ HumanPull \/ Rerun \/ Configure

Next == \/ \E d \in Drives : \/ \E c \in Called(d) : Start(d, c)
                            \/ Step(d) \/ Land(d) \/ Lose(d) \/ Crash(d)
        \/ World

\* A process that runs goes on, the forge answers, checks end, and the operator asks again,
\* fetches, and recovers the lease of a process that died. Nobody else has to do anything.
Fairness ==
  /\ \A d \in Drives : WF_vars(Step(d)) /\ WF_vars(Land(d))
  /\ WF_vars(Start(Operator, FullDrive))
  /\ WF_vars(RunChecks) /\ WF_vars(Fetch) /\ WF_vars(RecoverLease)

Spec == Init /\ [][Next]_vars /\ Fairness

----------------------------------------------------------------------------
(* Properties.                                                             *)

Phases == {"idle", "conclude", "conclusion", "rename", "reconcile", "receipt", "observe",
           "checks", "publish", "readRef", "pushed", "create", "situation", "created",
           "merge", "readPull", "merged", "verify", "make", "run", "load", "attempt"}

\* Every variable keeps its type: refs and pull requests of the forge, records of the task,
\* and what each call holds.
TypeOK ==
  /\ ref \in Heads \cup {None} /\ known \in BOOLEAN /\ green \in BOOLEAN
  /\ pulls \in [Numbers -> Pull] /\ checks \in CheckStates
  /\ flight \in [Drives -> {None} \cup [kind : Kinds, number : Numbers \cup {0}]]
  /\ receipt \in Numbers \cup {None} /\ history \in Seq(Attempt)
  /\ concluded \in Profiles \cup {None}
  /\ lease \in Drives \cup {None} /\ profile \in Profiles
  /\ workspace \in BOOLEAN /\ fetched \in BOOLEAN /\ resolves \in BOOLEAN /\ permitted \in BOOLEAN
  /\ pc \in [Drives -> Phases] /\ call \in [Drives -> Call]
  /\ leg \in [Drives -> {"first", "recorded", "verified"}] /\ prof \in [Drives -> Profiles]
  /\ seen \in [Drives -> SUBSET Numbers] /\ decision \in [Drives -> Decisions \cup {None}]
  /\ found \in [Drives -> Numbers \cup {None}]
  /\ proof \in [Drives -> {None} \cup [receipt : Numbers, history : Seq(Attempt)]]
  /\ draft \in [Drives -> {None} \cup Seq(Attempt)]
  /\ audit \in [Drives -> {None, "AUTHORISED", "NOT_DISPATCHED", "DISPATCHED", "DISPATCHED_AT_COMMIT"}]
  /\ sent \in [Drives -> SUBSET Kinds]
  /\ asks \in 0..Asks /\ humans \in 0..HumanMoves /\ faults \in 0..Faults

Delivered == [st |-> "merged", base |-> "intended", head |-> "ours"]
MergedHere == {n \in Numbers : pulls[n] = Delivered}

\* A receipt on disk, and one a slower call is about to write over it, name a pull request
\* that was merged at the task's commit into the task's base, and all of them the same one.
\* recordMergeReconciliation writes without looking again (merge-reconciliation-store.ts 467-563).
ReceiptIsTheMerge ==
  LET named == ({receipt} \cup {found[d] : d \in Drives}) \ {None} IN
  \A n \in named : n \in MergedHere /\ \A m \in named : m = n

\* A conclusion on disk rests on a receipt and on a history in which its profile still passes:
\* no later attempt took the pass away (conclude-delivery.ts, delivery-conclusion-store.ts).
ConclusionStands ==
  concluded # None => receipt # None /\ Stands(history, concluded, "VERIFIED_PASS")

\* A push nobody was present for has an authorisation on disk before it is sent, its outcome
\* never says that nothing was sent, and it is all such a call sends (delivery-steps.ts 637-777).
UnattendedIsAccounted ==
  \A d \in Drives : sent[d] # {} /\ ~call[d].attended =>
    /\ sent[d] = {"push"}
    /\ audit[d] \in {"AUTHORISED", "DISPATCHED", "DISPATCHED_AT_COMMIT"}

\* A merge no person made is of the task's own commit, whose checks had succeeded, however the
\* pull request moved between the decision and the merge (merge-pull-request.ts 255-288).
MergesOnlyTheCheckedCommit ==
  [][\A n \in Numbers : pulls[n].st = "open" /\ pulls'[n].st = "merged" /\ humans' = humans =>
       green /\ pulls[n].head = "ours"]_vars

\* What the records promise, whoever writes them.
Promise == INSTANCE DeliveryPromise WITH merged <- MergedHere
KeepsThePromise == Promise!Spec

\* What only a person can clear away: somebody else's commit or pull request, a rejection, a
\* merge elsewhere, red checks, a failed or unrecordable verification, a workspace a crash left.
Obstructed ==
  \/ ref = "other" \/ ~resolves \/ checks = "FAILED"
  \/ Cardinality({n \in Numbers : pulls[n].st # "none"}) > 1
  \/ \E n \in Numbers : pulls[n].st # "none" /\ (pulls[n].st = "closed" \/ pulls[n].base # "intended"
                                                \/ pulls[n].head # "ours")
  \/ Stands(history, profile, "VERIFIED_FAIL") \/ Len(history) >= MaxAttempts
  \/ workspace /\ \A d \in Drives : pc[d] # "run"

\* An operator who keeps asking gets the delivery concluded, unless something keeps coming
\* back that only a person can clear (driveDelivery, repeated).
EventuallyDelivered == []<>Obstructed \/ <>(concluded # None)

============================================================================
