-------------------------- MODULE AttentionOutbox --------------------------
(***************************************************************************)
(* The operator-attention outbox: src/notify/attention-outbox.ts,          *)
(* attention-store.ts, attention-notification.ts, and the observer of      *)
(* src/cli/repositories-command.ts that settles it after every pass.       *)
(*                                                                         *)
(* One directory of the operator's home holds, for each open item, a       *)
(* record and, once an endpoint acknowledged it, an empty delivery         *)
(* receipt.  Nothing locks it.  After a pass over its repositories an      *)
(* invocation derives the items that hold now, links the missing records,  *)
(* reads the directory, removes the records of what is gone (receipt       *)
(* first), and announces the items that carry no receipt.  Invocations     *)
(* overlap, and any of them may die between two of these calls.            *)
(*                                                                         *)
(* A task item is named after the instant its state was entered; a         *)
(* repository item is named after its condition alone, so the same name    *)
(* comes back when the condition does.                                     *)
(***************************************************************************)
EXTENDS Naturals, FiniteSets

CONSTANTS
  Invocations,     \* processes running `agent-loop run --repositories --wait`
  Repos,           \* enlisted repositories, numbered in the order of their roots
  Enlisted,        \* the repositories each invocation drives
  Troubled,        \* the repositories whose runs may meet an attention condition
  Moves,           \* bound: entries of a new task state, of each repository
  MaxAnnounced,    \* MAX_ANNOUNCED_ITEMS_PER_SETTLE
  MaxFaults,       \* bound: crashes, refusals and lost answers
  Counted          \* bound: receptions of one item that are told apart

ASSUME ReposAreNumbers == Repos \subseteq Nat /\ IsFiniteSet(Repos)
ASSUME InvocationsAreFinite == IsFiniteSet(Invocations)
ASSUME EnlistedAreRepos == Enlisted \in [Invocations -> SUBSET Repos]
ASSUME TroubledAreRepos == Troubled \subseteq Repos
ASSUME BoundsAreNumbers ==
  /\ Moves \in [Repos -> Nat] /\ MaxFaults \in Nat
  /\ MaxAnnounced \in Nat \ {0} /\ Counted \in Nat \ {0}

VARIABLES
  tasks,       \* each repository's task: its state and when it was entered
  records,     \* the items with a record in the directory
  receipts,    \* the items with a delivery receipt
  reached,     \* how often the endpoint took an item in its present occurrence
  orphans,     \* items whose receipt outlived the occurrence it was made for
  inv,         \* what each invocation holds in memory
  faults       \* faults so far

vars == <<tasks, records, receipts, reached, orphans, inv, faults>>

-----------------------------------------------------------------------------
(* Items                                                                   *)

\* RUNNING stands for every silent state; WAITING and SPENT are
\* BLOCKED_USAGE_LIMIT before and after its reset has been used up.
TaskStates == {"RUNNING", "BLOCKED_VERIFY", "WAITING", "SPENT"}

TaskItem(r, n) == [repo |-> r, subject |-> "TASK", since |-> n]
RunItem(r) == [repo |-> r, subject |-> "REPOSITORY", since |-> 0]

TaskItems == UNION {{TaskItem(r, n) : n \in 0 .. Moves[r]} : r \in Repos}
RunItems == {RunItem(r) : r \in Repos}
Items == TaskItems \cup RunItems

\* attentionForTaskState: the states that need a person.  A quota block does
\* only once it cannot be waited out any more.
NeedsPerson(state) == state \in {"BLOCKED_VERIFY", "SPENT"}

\* The item a repository's task raises now, if any.
Derived(r) ==
  {TaskItem(r, tasks[r].since) : t \in {x \in {tasks[r]} : NeedsPerson(x.state)}}

\* The items of one repository that hold for invocation p: what its run met,
\* and what the durable task state says.
Holding(p, r) == {RunItem(s) : s \in {r} \cap inv[p].met} \cup Derived(r)

\* compareItems: by repository, and a repository's own item before its task's.
Precedes(a, b) ==
  \/ a.repo < b.repo
  \/ a.repo = b.repo /\ a.subject = "REPOSITORY" /\ b.subject = "TASK"

First(S) == CHOOSE i \in S : \A j \in S \ {i} : ~ Precedes(j, i)

\* The first MaxAnnounced items of S in that order.
Head(S) == {i \in S : Cardinality({j \in S : Precedes(j, i)}) < MaxAnnounced}

-----------------------------------------------------------------------------
(* Invocations                                                             *)

Phases == {"pass", "scan", "write", "discard", "unlink", "push", "mark"}

Resting == [phase |-> "pass", met |-> {}, unread |-> {}, items |-> {},
            settled |-> {}, held |-> {}, queue |-> {}, pending |-> {}, busy |-> {}]

TypeOK ==
  /\ tasks \in [Repos -> [state : TaskStates, since : Nat]]
  /\ \A r \in Repos : tasks[r].since <= Moves[r]
  /\ records \subseteq Items
  /\ receipts \subseteq Items
  /\ reached \in [Items -> 0 .. Counted]
  /\ orphans \subseteq Items
  /\ inv \in [Invocations ->
                [phase : Phases, met : SUBSET Repos, unread : SUBSET Repos,
                 items : SUBSET Items, settled : SUBSET Repos,
                 held : SUBSET Items, queue : SUBSET Items,
                 pending : SUBSET Items, busy : SUBSET Items]]
  /\ \A p \in Invocations :
       (inv[p].busy # {}) <=> (inv[p].phase \in {"unlink", "mark"})
  /\ faults \in 0 .. MaxFaults

Init ==
  /\ tasks = [r \in Repos |-> [state |-> "RUNNING", since |-> 0]]
  /\ records = {} /\ receipts = {} /\ orphans = {}
  /\ reached = [i \in Items |-> 0]
  /\ inv = [p \in Invocations |-> Resting]
  /\ faults = 0

Fault == faults < MaxFaults /\ faults' = faults + 1

Becomes(p, r) == inv' = [inv EXCEPT ![p] = r]
Took(i) == [reached EXCEPT ![i] = IF @ < Counted THEN @ + 1 ELSE @]

\* A coordinator pass ends; its admissions say which repositories met a
\* condition that always needs a person (observePass, attentionForRunCondition).
Pass(p) ==
  /\ inv[p].phase = "pass"
  /\ \E met \in SUBSET (Enlisted[p] \cap Troubled) :
       Becomes(p, [Resting EXCEPT !.phase = "scan", !.met = met,
                                  !.unread = Enlisted[p]])
  /\ UNCHANGED <<tasks, records, receipts, reached, orphans, faults>>

Scanned(p, r, items, settled) ==
  Becomes(p, [inv[p] EXCEPT !.unread = @ \ {r}, !.items = @ \cup items,
                            !.held = @ \cup Holding(p, r),
                            !.settled = @ \cup settled])

NextUnread(p, r) ==
  /\ inv[p].phase = "scan" /\ r \in inv[p].unread
  /\ \A s \in inv[p].unread : r <= s

\* Mutation: a repository counts as settled although its states were not all
\* read.
ScanSettlingAll(p, r) ==
  /\ NextUnread(p, r)
  /\ \/ Scanned(p, r, Holding(p, r), {r}) /\ UNCHANGED faults
     \/ Scanned(p, r, Holding(p, r) \ Derived(r), {r}) /\ Fault
  /\ UNCHANGED <<tasks, records, receipts, reached, orphans>>

\* scanAttention, one repository: the conditions its run met come first and
\* need no disk; the task states follow.  A repository counts as settled only
\* when all of it was read; an absent directory reads as one without tasks.
ScanRepository(p, r) ==
  /\ NextUnread(p, r)
  /\ \/ Scanned(p, r, Holding(p, r), {r}) /\ UNCHANGED faults
     \/ Scanned(p, r, Holding(p, r) \ Derived(r), {}) /\ Fault
  /\ UNCHANGED <<tasks, records, receipts, reached, orphans>>

StartWriting(p) ==
  /\ inv[p].phase = "scan" /\ inv[p].unread = {}
  /\ Becomes(p, [inv[p] EXCEPT !.phase = "write", !.queue = inv[p].items])
  /\ UNCHANGED <<tasks, records, receipts, reached, orphans, faults>>

\* writeAttentionRecord: staged and linked, so the name holds the whole record
\* or nothing; a name already there is the deduplication.
WriteRecord(p, i) ==
  /\ inv[p].phase = "write"
  /\ i \in inv[p].queue /\ i = First(inv[p].queue)
  /\ \/ records' = records \cup {i} /\ UNCHANGED faults
     \/ Fault /\ i \notin records /\ UNCHANGED records
  /\ Becomes(p, [inv[p] EXCEPT !.queue = @ \ {i}])
  /\ UNCHANGED <<tasks, receipts, reached, orphans>>

\* Items that p read to hold no more and that have no record.  No removal is
\* ever going to end such an occurrence, so it is over here, and a receipt made
\* for it stays behind: the removals walk the records.
Over(p) == {i \in RunItems \ (records \cup inv[p].items) : i.repo \in inv[p].settled}

\* The records that settleAttention removes, and what it announces, when the
\* directory lists these records and these receipts.
Listed(p, recs, announced) ==
  /\ inv[p].phase = "write" /\ inv[p].queue = {}
  /\ reached' = [i \in Items |-> IF i \in Over(p) THEN 0 ELSE reached[i]]
  /\ orphans' = orphans \cup (Over(p) \cap receipts)
  /\ Becomes(p, [inv[p] EXCEPT
       !.phase = "discard", !.pending = Head(announced),
       !.queue = {i \in recs \ inv[p].items : i.repo \in inv[p].settled}])
  /\ UNCHANGED <<tasks, records, receipts>>

\* Mutation: what holds is announced whether it was acknowledged or not.
ListUnfiltered(p) ==
  \/ Listed(p, records, inv[p].items) /\ UNCHANGED faults
  \/ Listed(p, {}, inv[p].items) /\ Fault

\* listAttentionRecords and what settleAttention makes of it: the items of
\* this scan without a receipt are pending, the records of settled repositories
\* that no longer hold are to be removed.  A root that cannot be read lists no
\* record and no receipt.
List(p) ==
  \/ Listed(p, records, inv[p].items \ receipts) /\ UNCHANGED faults
  \/ Listed(p, {}, inv[p].items) /\ Fault

\* Mutation: the record goes and its receipt stays.
DiscardNothing(p, i) ==
  /\ inv[p].phase = "discard" /\ i \in inv[p].queue
  /\ Becomes(p, [inv[p] EXCEPT !.phase = "unlink", !.queue = @ \ {i}, !.busy = {i}])
  /\ UNCHANGED <<tasks, records, receipts, reached, orphans, faults>>

\* removeAttentionRecord, first half: the receipt goes before the record, and
\* a receipt that cannot be unlinked does not stop the removal.
DiscardReceipt(p, i) ==
  /\ inv[p].phase = "discard" /\ i \in inv[p].queue
  /\ \/ receipts' = receipts \ {i} /\ orphans' = orphans \ {i} /\ UNCHANGED faults
     \/ i \in receipts /\ orphans' = orphans \cup {i} /\ Fault /\ UNCHANGED receipts
  /\ Becomes(p, [inv[p] EXCEPT !.phase = "unlink", !.queue = @ \ {i},
                               !.busy = {i}])
  /\ UNCHANGED <<tasks, records, reached>>

\* Second half: the record.  Removing a repository item's record ends that
\* occurrence: the next one under its name has reached nobody yet.
RemoveRecord(p, i) ==
  /\ inv[p].phase = "unlink" /\ i \in inv[p].busy
  /\ \/ /\ records' = records \ {i} /\ UNCHANGED faults
        /\ reached' = IF i \in records /\ i \in RunItems
                        THEN [reached EXCEPT ![i] = 0] ELSE reached
     \/ i \in records /\ Fault /\ UNCHANGED <<records, reached>>
  /\ Becomes(p, [inv[p] EXCEPT !.phase = "discard", !.busy = {}])
  /\ UNCHANGED <<tasks, receipts, orphans>>

StartPushing(p) ==
  /\ inv[p].phase = "discard" /\ inv[p].queue = {}
  /\ Becomes(p, [inv[p] EXCEPT !.phase = "push", !.queue = inv[p].pending,
                               !.pending = {}])
  /\ UNCHANGED <<tasks, records, receipts, reached, orphans, faults>>

\* Mutation: a send that was refused or timed out is marked as well.
SendMarked(p, i) ==
  /\ inv[p].phase = "push" /\ i \in inv[p].queue /\ i = First(inv[p].queue)
  /\ \/ reached' = Took(i) /\ UNCHANGED faults
     \/ reached' \in {reached, Took(i)} /\ Fault
  /\ Becomes(p, [inv[p] EXCEPT !.phase = "mark", !.queue = @ \ {i}, !.busy = {i}])
  /\ UNCHANGED <<tasks, records, receipts, orphans>>

\* pushAttentionItems, one item: acknowledged, refused, or taken by an endpoint
\* whose answer came too late.  Only an acknowledgement is marked.
Send(p, i) ==
  /\ inv[p].phase = "push"
  /\ i \in inv[p].queue /\ i = First(inv[p].queue)
  /\ \/ /\ reached' = Took(i) /\ UNCHANGED faults
        /\ Becomes(p, [inv[p] EXCEPT !.phase = "mark", !.queue = @ \ {i},
                                     !.busy = {i}])
     \/ /\ reached' \in {reached, Took(i)} /\ Fault
        /\ Becomes(p, [inv[p] EXCEPT !.queue = @ \ {i}])
  /\ UNCHANGED <<tasks, records, receipts, orphans>>

\* markAttentionDelivered: an exclusive create, whose outcome nobody reads.
MarkDelivered(p, i) ==
  /\ inv[p].phase = "mark" /\ i \in inv[p].busy
  /\ \/ receipts' = receipts \cup {i} /\ UNCHANGED faults
     \/ i \notin receipts /\ Fault /\ UNCHANGED receipts
  /\ Becomes(p, [inv[p] EXCEPT !.phase = "push", !.busy = {}])
  /\ UNCHANGED <<tasks, records, reached, orphans>>

\* The next pass begins; what this settlement held is forgotten, and `met`
\* stays only until the next pass says otherwise.
Finish(p) ==
  /\ inv[p].phase = "push" /\ inv[p].queue = {}
  /\ Becomes(p, [Resting EXCEPT !.met = inv[p].met])
  /\ UNCHANGED <<tasks, records, receipts, reached, orphans, faults>>

\* The process dies; the task scheduler starts the next invocation.
Crash(p) ==
  /\ inv[p].phase # "pass"
  /\ Fault
  /\ Becomes(p, [Resting EXCEPT !.met = inv[p].met])
  /\ UNCHANGED <<tasks, records, receipts, reached, orphans>>

-----------------------------------------------------------------------------
(* The tasks, moved by runs elsewhere                                      *)

\* A transition: the state is entered at a new instant.
EnterState(r, state) ==
  /\ tasks[r].since < Moves[r]
  /\ state # "SPENT"
  /\ tasks' = [tasks EXCEPT ![r] = [state |-> state, since |-> @.since + 1]]
  /\ UNCHANGED <<records, receipts, reached, orphans, inv, faults>>

\* The reset of a quota block passes unused: the same state, read differently.
SpendReset(r) ==
  /\ tasks[r].state = "WAITING"
  /\ tasks' = [tasks EXCEPT ![r].state = "SPENT"]
  /\ UNCHANGED <<records, receipts, reached, orphans, inv, faults>>

-----------------------------------------------------------------------------

Settle(p) ==
  \/ Pass(p) \/ StartWriting(p) \/ List(p) \/ StartPushing(p) \/ Finish(p)
  \/ \E r \in Repos : ScanRepository(p, r)
  \/ \E i \in Items : \/ WriteRecord(p, i) \/ DiscardReceipt(p, i)
                      \/ RemoveRecord(p, i) \/ Send(p, i) \/ MarkDelivered(p, i)

Next ==
  \/ \E p \in Invocations : Settle(p) \/ Crash(p)
  \/ \E r \in Repos : SpendReset(r) \/ \E s \in TaskStates : EnterState(r, s)

Spec == Init /\ [][Next]_vars

\* Every invocation keeps running and a dead one is started again.
FairSpec == Spec /\ \A p \in Invocations : WF_vars(Settle(p))

-----------------------------------------------------------------------------
(* Properties                                                              *)

Owners(i) == {p \in Invocations : i.repo \in Enlisted[p]}

\* An open item that carries a receipt did reach the endpoint in its present
\* occurrence: no left-over receipt of a crashed settlement or of another
\* invocation silences a new one.  The exceptions are the code's own, and each
\* takes a fault: a receipt that could not be unlinked, and one made where the
\* record had been refused, so that no removal ever came by it.
NoneIsSilenced ==
  /\ \A i \in (records \cap receipts) \ orphans : reached[i] > 0
  /\ faults = 0 => orphans = {}

\* An operator hears once: an item only one invocation drives is announced a
\* second time only where a fault explains it.
HeardOnce ==
  \A i \in Items : Cardinality(Owners(i)) <= 1 => reached[i] <= 1 + faults

\* The outbox's own promise: an overlap of two invocations, and a create that
\* did not happen, cost a delayed notification, never a missing one.
NeverMissing == \A i \in records \cap receipts : reached[i] > 0

\* "I could not look" never dismisses anything: a record is removed only by an
\* invocation whose own scan passed over its repository while it did not hold.
DismissedWasGone ==
  [][\A i \in records \ records' :
       \E p \in Invocations :
         /\ i \in inv[p].busy /\ inv[p].phase = "unlink"
         /\ i.repo \in Enlisted[p] /\ i \notin inv[p].held]_vars

\* What holds now: the task states, and the conditions the last pass met.
Standing(i) ==
  \/ i \in Derived(i.repo)
  \/ i \in RunItems /\ \E p \in Invocations : i.repo \in inv[p].met

\* An item that stands for ever is announced in the end, and counts as announced
\* from then on, in that occurrence and not in an earlier one: lost answers,
\* crashes, refused records and removals by another invocation only delay it.
\* What does silence it for good is a receipt that outlived its occurrence.
StandingIsAnnounced ==
  \A i \in Items :
    (<>[]Standing(i)) => <>[](reached[i] > 0 \/ i \in orphans)

=============================================================================
