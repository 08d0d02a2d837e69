----------------------- MODULE AttentionOutbox_proofs -----------------------
(***************************************************************************)
(* Proofs about AttentionOutbox, for every set of invocations and every    *)
(* bound.                                                                  *)
(*                                                                         *)
(* Sound is what one invocation's memory satisfies by itself: it handles   *)
(* only items of repositories it drives, what held during its scan is      *)
(* among its items wherever the repository was settled, and what it is     *)
(* about to remove did not hold.  OutboxInv joins it with the receipts: a  *)
(* receipt means the endpoint took the item in its present occurrence, and *)
(* an invocation that has discarded a receipt finds it still gone when it  *)
(* unlinks the record.  The last holds only where nobody else can mark the *)
(* same item in between, which is the hypothesis SoleOwner.  Recorded says *)
(* that as long as nothing went wrong every receipt has its record beside  *)
(* it, so that a removal comes by both.  HeardInv says what has paid for   *)
(* every hearing of an item one invocation drives.                         *)
(***************************************************************************)
EXTENDS AttentionOutbox, FiniteSetTheorems, TLAPS

Memory ==
  [phase : Phases, met : SUBSET Repos, unread : SUBSET Repos,
   items : SUBSET Items, settled : SUBSET Repos, held : SUBSET Items,
   queue : SUBSET Items, pending : SUBSET Items, busy : SUBSET Items]

\* An item p may handle: of a repository it drives, and a run's item only
\* where runs meet conditions.
Mine(p) ==
  {i \in Items : i.repo \in Enlisted[p] /\ (i \in RunItems => i.repo \in Troubled)}

Sound(p, v) ==
  /\ v \in Memory
  /\ (v.busy # {}) <=> (v.phase \in {"unlink", "mark"})
  /\ v.busy \cap v.queue = {} /\ \A i, j \in v.busy : i = j
  /\ v.met \subseteq Enlisted[p] \cap Troubled
  /\ v.unread \subseteq Enlisted[p] /\ v.settled \subseteq Enlisted[p]
  /\ v.unread \cap v.settled = {}
  /\ v.items \subseteq Mine(p) /\ v.queue \subseteq Mine(p)
  /\ v.pending \subseteq Mine(p) /\ v.busy \subseteq Mine(p)
  /\ \A i \in v.held : i.repo \notin v.unread
  /\ v.phase \in {"scan", "write"} =>
       \A i \in v.held : i.repo \in v.settled => i \in v.items
  /\ v.phase = "write" => v.queue \subseteq v.items
  /\ v.phase = "discard" => v.queue \cap v.held = {}
  /\ v.phase = "unlink" => (v.queue \cup v.busy) \cap v.held = {}

World ==
  /\ tasks \in [Repos -> [state : TaskStates, since : Nat]]
  /\ \A r \in Repos : tasks[r].since <= Moves[r]
  /\ records \subseteq Items /\ receipts \subseteq Items /\ orphans \subseteq Items
  /\ \A i \in records \cap RunItems : i.repo \in Troubled
  /\ reached \in [Items -> 0 .. Counted]
  /\ faults \in 0 .. MaxFaults

Held ==
  /\ World
  /\ inv \in [Invocations -> Memory]
  /\ \A p \in Invocations : Sound(p, inv[p])

Acknowledged ==
  /\ \A i \in receipts \ orphans : reached[i] > 0
  /\ \A p \in Invocations : \A i \in inv[p].busy :
       /\ inv[p].phase = "mark" => reached[i] > 0
       /\ inv[p].phase = "unlink" /\ i \in RunItems => i \notin receipts \ orphans

\* A run's items are written before they are announced, and are not removed
\* while they are among the items of the one invocation that handles them.
Behind(v) ==
  /\ v.phase = "write" => v.items \cap RunItems \subseteq records \cup v.queue
  /\ v.phase \in {"discard", "unlink"} =>
       /\ v.pending \cap RunItems \subseteq records
       /\ v.pending \cap (v.queue \cup v.busy) = {}
  /\ v.phase \in {"push", "mark"} =>
       (v.queue \cup v.busy) \cap RunItems \subseteq records

Recorded ==
  faults = 0 =>
    /\ orphans = {} /\ receipts \cap RunItems \subseteq records
    /\ \A p \in Invocations : Behind(inv[p])

OutboxInv == Held /\ Acknowledged /\ Recorded

\* Nobody but one invocation drives a repository whose runs meet conditions.
SoleOwner ==
  \A r \in Troubled : \A p, q \in Invocations :
    r \in Enlisted[p] /\ r \in Enlisted[q] => p = q

-----------------------------------------------------------------------------

\* Items are typed, and a run's item is no task's.
LEMMA ItemKinds ==
  /\ \A r \in Repos : RunItem(r) \in RunItems /\ RunItem(r) \in Items
  /\ \A r \in Repos, n \in Nat : n <= Moves[r] => TaskItem(r, n) \in TaskItems
  /\ TaskItems \subseteq Items /\ RunItems \subseteq Items
  /\ TaskItems \cap RunItems = {}
  /\ \A i \in Items : i.repo \in Repos
  /\ \A r \in Repos : RunItem(r).repo = r
  /\ \A r \in Repos, n \in Nat : TaskItem(r, n).repo = r
<1>1. \A r \in Repos, n \in Nat : n <= Moves[r] => n \in 0 .. Moves[r]
  BY BoundsAreNumbers
<1>2. \A r \in Repos, n \in Nat : n <= Moves[r] => TaskItem(r, n) \in TaskItems
  BY <1>1 DEF TaskItems
<1>3. \A i \in TaskItems : i.repo \in Repos /\ i.subject = "TASK"
  BY DEF TaskItems, TaskItem
<1>4. \A i \in RunItems : i.repo \in Repos /\ i.subject = "REPOSITORY"
  BY DEF RunItems, RunItem
<1>5. TaskItems \cap RunItems = {}
  BY <1>3, <1>4
<1> QED
  BY <1>2, <1>3, <1>4, <1>5 DEF Items, RunItems, RunItem, TaskItem

\* What holds in a repository is an item of that repository, and a run's item
\* only where this invocation's run met a condition.
LEMMA HoldingIsMine ==
  ASSUME World, NEW p \in Invocations, NEW r \in Enlisted[p],
         inv[p].met \subseteq Enlisted[p] \cap Troubled
  PROVE  /\ Holding(p, r) \subseteq Mine(p)
         /\ \A i \in Holding(p, r) : i.repo = r
<1>1. r \in Repos
  BY EnlistedAreRepos
<1>2. ASSUME NEW i \in Derived(r) PROVE i \in Mine(p) /\ i.repo = r
  <2>1. i = TaskItem(r, tasks[r].since)
    BY DEF Derived
  <2>2. tasks[r].since \in Nat /\ tasks[r].since <= Moves[r]
    BY <1>1 DEF World
  <2> QED
    BY <1>1, <2>1, <2>2, ItemKinds DEF Mine
<1>3. ASSUME NEW i \in {RunItem(s) : s \in {r} \cap inv[p].met}
      PROVE  i \in Mine(p) /\ i.repo = r
  <2>1. i = RunItem(r) /\ r \in Troubled
    BY <1>3
  <2> QED
    BY <1>1, <2>1, ItemKinds DEF Mine
<1> QED
  BY <1>2, <1>3 DEF Holding

\* One invocation's memory changes to a sound one: every memory is sound.
LEMMA MemoryKeeps ==
  ASSUME Held, NEW p \in Invocations, NEW v, Sound(p, v), Becomes(p, v)
  PROVE  /\ inv' \in [Invocations -> Memory]
         /\ \A q \in Invocations : Sound(q, inv'[q])
         /\ inv'[p] = v
         /\ \A q \in Invocations \ {p} : inv'[q] = inv[q]
<1>1. v \in Memory
  BY DEF Sound
<1> QED
  BY <1>1 DEF Held, Becomes

LEMMA TookCounts ==
  ASSUME reached \in [Items -> 0 .. Counted], NEW i \in Items
  PROVE  /\ Took(i) \in [Items -> 0 .. Counted]
         /\ Took(i)[i] > 0
         /\ \A j \in Items : Took(i)[j] >= reached[j]
  BY BoundsAreNumbers DEF Took

LEMMA FaultCounts == ASSUME World, Fault PROVE faults' \in 0 .. MaxFaults
  BY BoundsAreNumbers DEF World, Fault

\* What the listing of p ends is of the repositories p drives.
LEMMA ListCounts ==
  ASSUME Held, NEW p \in Invocations, List(p)
  PROVE  /\ reached' \in [Items -> 0 .. Counted]
         /\ orphans' = orphans \cup (Over(p) \cap receipts)
         /\ \A i \in Items : reached'[i] = IF i \in Over(p) THEN 0 ELSE reached[i]
         /\ Over(p) \subseteq RunItems /\ \A i \in Over(p) : i.repo \in Enlisted[p]
<1>1. /\ reached' = [i \in Items |-> IF i \in Over(p) THEN 0 ELSE reached[i]]
      /\ orphans' = orphans \cup (Over(p) \cap receipts)
  BY DEF List, Listed
<1>2. Over(p) \subseteq RunItems /\ \A i \in Over(p) : i.repo \in Enlisted[p]
  BY DEF Over, Held, Sound
<1>3. reached \in [Items -> 0 .. Counted] /\ Counted \in Nat
  BY BoundsAreNumbers DEF Held, World
<1> HIDE DEF Over
<1>4. reached' \in [Items -> 0 .. Counted]
  BY ONLY <1>1, <1>3
<1> QED
  BY <1>1, <1>2, <1>4

LEMMA HeadIsPart == ASSUME NEW S PROVE Head(S) \subseteq S
  BY DEF Head

-----------------------------------------------------------------------------
(* What each step does to the memories                                     *)

LEMMA PassKeeps ==
  ASSUME Held, NEW p \in Invocations, Pass(p) PROVE Held'
<1>1. PICK met \in SUBSET (Enlisted[p] \cap Troubled) :
        Becomes(p, [Resting EXCEPT !.phase = "scan", !.met = met,
                                   !.unread = Enlisted[p]])
  BY DEF Pass
<1> DEFINE v == [Resting EXCEPT !.phase = "scan", !.met = met,
                                !.unread = Enlisted[p]]
<1>2. Sound(p, v)
  BY EnlistedAreRepos, TroubledAreRepos DEF Sound, Memory, Resting, Phases
<1>3. World'
  BY DEF Held, World, Pass
<1> HIDE DEF v
<1> QED
  BY <1>1, <1>2, <1>3, MemoryKeeps DEF Held, v

LEMMA ScanKeeps ==
  ASSUME Held, NEW p \in Invocations, NEW r \in Repos, ScanRepository(p, r)
  PROVE  Held'
<1>1. r \in Enlisted[p] /\ r \in inv[p].unread /\ inv[p].phase = "scan"
  BY DEF ScanRepository, NextUnread, Held, Sound
<1>2. PICK items \in {Holding(p, r), Holding(p, r) \ Derived(r)},
           settled \in {{r}, {}} :
        /\ Scanned(p, r, items, settled)
        /\ settled = {r} => items = Holding(p, r)
  BY DEF ScanRepository
<1> DEFINE v == [inv[p] EXCEPT !.unread = @ \ {r}, !.items = @ \cup items,
                               !.held = @ \cup Holding(p, r),
                               !.settled = @ \cup settled]
<1>3. Holding(p, r) \subseteq Mine(p) /\ \A i \in Holding(p, r) : i.repo = r
  BY <1>1, HoldingIsMine DEF Held, Sound
<1>4. items \subseteq Holding(p, r)
  OBVIOUS
<1>5. v \in Memory
  <2>1. Mine(p) \subseteq Items
    BY DEF Mine
  <2> QED
    BY <1>3, <1>4, <2>1 DEF Held, Memory
<1>6. \A i \in v.held : i.repo \in v.settled => i \in v.items
  <2>1. ASSUME NEW i \in Holding(p, r), i.repo \in v.settled
        PROVE  i \in v.items
    <3>1. r \in inv[p].settled \cup settled
      BY <1>3, <2>1 DEF Held, Memory
    <3>2. CASE settled = {r}
      BY <1>2, <2>1, <3>2 DEF Held, Memory
    <3>3. CASE settled = {} /\ r \in inv[p].settled
      BY <3>3, <1>1 DEF Held, Sound
    <3> QED
      BY <3>1, <3>2, <3>3
  <2>2. ASSUME NEW i \in inv[p].held, i.repo \in v.settled
        PROVE  i \in v.items
    <3>1. i.repo # r
      BY <1>1 DEF Held, Sound
    <3>2. i.repo \in inv[p].settled
      BY <2>2, <3>1 DEF Held, Memory
    <3> QED
      BY <1>1, <3>2 DEF Held, Sound, Memory
  <2> QED
    BY <2>1, <2>2 DEF Held, Memory
<1>7. Sound(p, v)
  BY <1>1, <1>3, <1>4, <1>5, <1>6 DEF Held, Sound, Memory
<1>8. World'
  BY FaultCounts DEF Held, World, ScanRepository
<1>9. Becomes(p, v)
  BY <1>2 DEF Scanned
<1> HIDE DEF v
<1> QED
  BY <1>7, <1>8, <1>9, MemoryKeeps DEF Held

LEMMA StartWritingKeeps ==
  ASSUME Held, NEW p \in Invocations, StartWriting(p) PROVE Held'
<1> DEFINE v == [inv[p] EXCEPT !.phase = "write", !.queue = inv[p].items]
<1>1. inv[p].phase = "scan"
  BY DEF StartWriting
<1>4. Sound(p, v)
  <2>1. v \in Memory
    BY ZenonT(60) DEF Held, Memory, Phases
  <2>2. v.phase = "write" /\ v.busy = inv[p].busy /\ v.queue = inv[p].items
    BY ZenonT(60) DEF Held, Memory
  <2>3. /\ v.met = inv[p].met /\ v.unread = inv[p].unread
        /\ v.settled = inv[p].settled /\ v.items = inv[p].items
        /\ v.pending = inv[p].pending /\ v.held = inv[p].held
    BY ZenonT(60) DEF Held, Memory
  <2> HIDE DEF v
  <2> QED
    BY <1>1, <2>1, <2>2, <2>3 DEF Held, Sound
<1>2. World'
  BY DEF Held, World, StartWriting
<1>3. Becomes(p, v)
  BY DEF StartWriting
<1> HIDE DEF v
<1> QED
  BY <1>4, <1>2, <1>3, MemoryKeeps DEF Held

LEMMA WriteKeeps ==
  ASSUME Held, NEW p \in Invocations, NEW i \in Items, WriteRecord(p, i)
  PROVE  Held'
<1> DEFINE v == [inv[p] EXCEPT !.queue = @ \ {i}]
<1>1. i \in inv[p].queue /\ inv[p].phase = "write"
  BY DEF WriteRecord
<1>2. Sound(p, v)
  BY <1>1 DEF Held, Sound, Memory
<1>3. i \in RunItems => i.repo \in Troubled
  BY <1>1 DEF Held, Sound, Mine
<1>4. records' \in {records, records \cup {i}}
  BY DEF WriteRecord
<1>5. World'
  <2>1. faults' \in 0 .. MaxFaults
    BY FaultCounts DEF Held, World, WriteRecord
  <2> QED
    BY <1>3, <1>4, <2>1 DEF Held, World, WriteRecord
<1>6. Becomes(p, v)
  BY DEF WriteRecord
<1> HIDE DEF v
<1> QED
  BY <1>2, <1>5, <1>6, MemoryKeeps DEF Held

\* What is about to be removed was not found to hold: the repository was
\* settled, so an item held in it would be among the items.
LEMMA ListKeeps ==
  ASSUME Held, NEW p \in Invocations, List(p) PROVE Held'
<1>1. PICK recs \in {records, {}}, announced \in SUBSET inv[p].items :
        Listed(p, recs, announced)
  BY DEF List
<1> DEFINE v == [inv[p] EXCEPT
              !.phase = "discard", !.pending = Head(announced),
              !.queue = {i \in recs \ inv[p].items : i.repo \in inv[p].settled}]
<1>2. v.queue \subseteq Mine(p)
  BY EnlistedAreRepos DEF Held, World, Sound, Memory, Mine
<1>3. v.pending \subseteq Mine(p)
  BY HeadIsPart DEF Held, Sound, Memory
<1>4. v.queue \cap v.held = {}
  BY <1>1 DEF Held, Sound, Memory, Listed
<1>5. v \in Memory
  <2>1. Mine(p) \subseteq Items
    BY DEF Mine
  <2>2. v.queue \subseteq Items /\ v.pending \subseteq Items
    BY <1>2, <1>3, <2>1
  <2> QED
    BY <2>2 DEF Held, Memory, Phases
<1>6. Sound(p, v)
  <2>1. /\ v.phase = "discard" /\ v.busy = inv[p].busy
        /\ v.met = inv[p].met /\ v.unread = inv[p].unread
        /\ v.settled = inv[p].settled /\ v.items = inv[p].items
        /\ v.held = inv[p].held
    BY ZenonT(60) DEF Held, Memory
  <2>2. inv[p].phase = "write"
    BY <1>1 DEF Listed
  <2> HIDE DEF v
  <2> QED
    BY <1>2, <1>3, <1>4, <1>5, <2>1, <2>2 DEF Held, Sound
<1>7. World'
  <2>1. faults' \in 0 .. MaxFaults
    BY FaultCounts DEF Held, World, List
  <2>2. reached' \in [Items -> 0 .. Counted] /\ orphans' \subseteq Items
    BY ListCounts DEF Held, World
  <2> QED
    BY <1>1, <2>1, <2>2 DEF Held, World, Listed
<1>8. Becomes(p, v)
  BY <1>1 DEF Listed
<1> HIDE DEF v
<1> QED
  BY <1>6, <1>7, <1>8, MemoryKeeps DEF Held

LEMMA DiscardKeeps ==
  ASSUME Held, NEW p \in Invocations, NEW i \in Items, DiscardReceipt(p, i)
  PROVE  Held'
<1> DEFINE v == [inv[p] EXCEPT !.phase = "unlink", !.queue = @ \ {i},
                               !.busy = {i}]
<1>1. i \in inv[p].queue /\ inv[p].phase = "discard"
  BY DEF DiscardReceipt
<1>2. Sound(p, v)
  <2>1. v \in Memory
    <3>1. inv[p] \in Memory
      BY DEF Held
    <3> QED
      BY ZenonT(60), <3>1 DEF Memory, Phases
  <2>2. v.phase = "unlink" /\ v.busy = {i} /\ v.queue = inv[p].queue \ {i}
    BY DEF Held, Memory
  <2>3. /\ v.met = inv[p].met /\ v.unread = inv[p].unread
        /\ v.settled = inv[p].settled /\ v.items = inv[p].items
        /\ v.pending = inv[p].pending /\ v.held = inv[p].held
    BY DEF Held, Memory
  <2> HIDE DEF v
  <2> QED
    BY <1>1, <2>1, <2>2, <2>3 DEF Held, Sound
<1>3. World'
  <2>1. faults' \in 0 .. MaxFaults
    BY FaultCounts DEF Held, World, DiscardReceipt
  <2> QED
    BY <2>1 DEF Held, World, DiscardReceipt
<1>4. Becomes(p, v)
  BY DEF DiscardReceipt
<1> HIDE DEF v
<1> QED
  BY <1>2, <1>3, <1>4, MemoryKeeps DEF Held

LEMMA RemoveKeeps ==
  ASSUME Held, NEW p \in Invocations, NEW i \in Items, RemoveRecord(p, i)
  PROVE  Held'
<1> DEFINE v == [inv[p] EXCEPT !.phase = "discard", !.busy = {}]
<1>1. i \in inv[p].busy /\ inv[p].phase = "unlink"
  BY DEF RemoveRecord
<1>2. Sound(p, v)
  <2>1. v \in Memory
    <3>1. inv[p] \in Memory
      BY DEF Held
    <3> QED
      BY ZenonT(60), <3>1 DEF Memory, Phases
  <2>2. v.phase = "discard" /\ v.busy = {} /\ v.queue = inv[p].queue
    BY DEF Held, Memory
  <2>3. /\ v.met = inv[p].met /\ v.unread = inv[p].unread
        /\ v.settled = inv[p].settled /\ v.items = inv[p].items
        /\ v.pending = inv[p].pending /\ v.held = inv[p].held
    BY DEF Held, Memory
  <2> HIDE DEF v
  <2> QED
    BY <1>1, <2>1, <2>2, <2>3 DEF Held, Sound
<1>3. World'
  <2>1. faults' \in 0 .. MaxFaults
    BY FaultCounts DEF Held, World, RemoveRecord
  <2>2. reached' \in [Items -> 0 .. Counted]
    BY BoundsAreNumbers DEF Held, World, RemoveRecord
  <2> QED
    BY <2>1, <2>2 DEF Held, World, RemoveRecord
<1>4. Becomes(p, v)
  BY DEF RemoveRecord
<1> HIDE DEF v
<1> QED
  BY <1>2, <1>3, <1>4, MemoryKeeps DEF Held

LEMMA StartPushingKeeps ==
  ASSUME Held, NEW p \in Invocations, StartPushing(p) PROVE Held'
<1> DEFINE v == [inv[p] EXCEPT !.phase = "push", !.queue = inv[p].pending,
                               !.pending = {}]
<1>1. inv[p].phase = "discard"
  BY DEF StartPushing
<1>4. Sound(p, v)
  <2>1. v \in Memory
    BY ZenonT(60) DEF Held, Memory, Phases
  <2>2. /\ v.phase = "push" /\ v.busy = inv[p].busy
        /\ v.queue = inv[p].pending /\ v.pending = {}
    BY ZenonT(60) DEF Held, Memory
  <2>3. /\ v.met = inv[p].met /\ v.unread = inv[p].unread
        /\ v.settled = inv[p].settled /\ v.items = inv[p].items
        /\ v.held = inv[p].held
    BY ZenonT(60) DEF Held, Memory
  <2> HIDE DEF v
  <2> QED
    BY <1>1, <2>1, <2>2, <2>3 DEF Held, Sound
<1>2. World'
  BY DEF Held, World, StartPushing
<1>3. Becomes(p, v)
  BY DEF StartPushing
<1> HIDE DEF v
<1> QED
  BY <1>4, <1>2, <1>3, MemoryKeeps DEF Held

LEMMA SendKeeps ==
  ASSUME Held, NEW p \in Invocations, NEW i \in Items, Send(p, i)
  PROVE  Held'
<1>1. i \in inv[p].queue /\ inv[p].phase = "push"
  BY DEF Send
<1>2. PICK v \in {[inv[p] EXCEPT !.phase = "mark", !.queue = @ \ {i},
                                 !.busy = {i}],
                  [inv[p] EXCEPT !.queue = @ \ {i}]} : Becomes(p, v)
  BY DEF Send
<1>3. Sound(p, v)
  <2>1. v \in Memory
    <3>1. inv[p] \in Memory
      BY DEF Held
    <3>2. [inv[p] EXCEPT !.phase = "mark", !.queue = @ \ {i}, !.busy = {i}]
            \in Memory
      BY ONLY ZenonT(60), <3>1, i \in Items DEF Memory, Phases
    <3>3. [inv[p] EXCEPT !.queue = @ \ {i}] \in Memory
      BY ONLY ZenonT(60), <3>1 DEF Memory
    <3> QED
      BY <1>2, <3>2, <3>3
  <2>2. /\ v.queue = inv[p].queue \ {i}
        /\ \/ v.phase = "mark" /\ v.busy = {i}
           \/ v.phase = "push" /\ v.busy = inv[p].busy
    BY <1>1, <1>2 DEF Held, Memory
  <2>3. /\ v.met = inv[p].met /\ v.unread = inv[p].unread
        /\ v.settled = inv[p].settled /\ v.items = inv[p].items
        /\ v.pending = inv[p].pending /\ v.held = inv[p].held
    BY <1>2 DEF Held, Memory
  <2> QED
    BY <1>1, <2>1, <2>2, <2>3 DEF Held, Sound
<1>4. World'
  <2>1. faults' \in 0 .. MaxFaults
    BY FaultCounts DEF Held, World, Send
  <2>2. reached' \in [Items -> 0 .. Counted]
    BY TookCounts DEF Held, World, Send
  <2> QED
    BY <2>1, <2>2 DEF Held, World, Send
<1> QED
  BY <1>2, <1>3, <1>4, MemoryKeeps DEF Held

LEMMA MarkKeeps ==
  ASSUME Held, NEW p \in Invocations, NEW i \in Items, MarkDelivered(p, i)
  PROVE  Held'
<1> DEFINE v == [inv[p] EXCEPT !.phase = "push", !.busy = {}]
<1>1. i \in inv[p].busy /\ inv[p].phase = "mark"
  BY DEF MarkDelivered
<1>2. Sound(p, v)
  <2>1. v \in Memory
    <3>1. inv[p] \in Memory
      BY DEF Held
    <3> QED
      BY ZenonT(60), <3>1 DEF Memory, Phases
  <2>2. v.phase = "push" /\ v.busy = {} /\ v.queue = inv[p].queue
    BY DEF Held, Memory
  <2>3. /\ v.met = inv[p].met /\ v.unread = inv[p].unread
        /\ v.settled = inv[p].settled /\ v.items = inv[p].items
        /\ v.pending = inv[p].pending /\ v.held = inv[p].held
    BY DEF Held, Memory
  <2> HIDE DEF v
  <2> QED
    BY <1>1, <2>1, <2>2, <2>3 DEF Held, Sound
<1>3. World'
  <2>1. faults' \in 0 .. MaxFaults
    BY FaultCounts DEF Held, World, MarkDelivered
  <2> QED
    BY <2>1 DEF Held, World, MarkDelivered
<1>4. Becomes(p, v)
  BY DEF MarkDelivered
<1> HIDE DEF v
<1> QED
  BY <1>2, <1>3, <1>4, MemoryKeeps DEF Held

\* The end of a settlement, and the death of an invocation.
LEMMA RestKeeps ==
  ASSUME Held, NEW p \in Invocations, Finish(p) \/ Crash(p) PROVE Held'
<1> DEFINE v == [Resting EXCEPT !.met = inv[p].met]
<1>1. Sound(p, v)
  BY DEF Held, Sound, Memory, Resting, Phases
<1>2. World'
  BY FaultCounts DEF Held, World, Finish, Crash
<1>3. Becomes(p, v)
  BY DEF Finish, Crash
<1> HIDE DEF v
<1> QED
  BY <1>1, <1>2, <1>3, MemoryKeeps DEF Held

LEMMA TasksKeep ==
  ASSUME Held, NEW r \in Repos,
         SpendReset(r) \/ \E s \in TaskStates : EnterState(r, s)
  PROVE  Held'
<1>1. World'
  <2>1. CASE SpendReset(r)
    BY <2>1 DEF Held, World, SpendReset, TaskStates
  <2>2. ASSUME NEW s \in TaskStates, EnterState(r, s) PROVE World'
    <3>1. Moves[r] \in Nat
      BY BoundsAreNumbers
    <3> QED
      BY <2>2, <3>1 DEF Held, World, EnterState
  <2> QED
    BY <2>1, <2>2
<1>2. inv' = inv
  BY DEF SpendReset, EnterState
<1> QED
  BY <1>1, <1>2 DEF Held

LEMMA InitHeld == Init => Held
<1> SUFFICES ASSUME Init PROVE Held
  OBVIOUS
<1>1. World
  BY BoundsAreNumbers DEF Init, World, TaskStates
<1>2. Resting \in Memory
  BY DEF Resting, Memory, Phases
<1>3. \A p \in Invocations : Sound(p, Resting)
  BY <1>2 DEF Sound, Resting
<1> QED
  BY <1>1, <1>2, <1>3 DEF Init, Held

LEMMA StepHeld == Held /\ [Next]_vars => Held'
<1> SUFFICES ASSUME Held, [Next]_vars PROVE Held'
  OBVIOUS
<1>1. ASSUME NEW p \in Invocations, Settle(p) \/ Crash(p) PROVE Held'
  BY <1>1, PassKeeps, ScanKeeps, StartWritingKeeps, WriteKeeps, ListKeeps,
     DiscardKeeps, RemoveKeeps, StartPushingKeeps, SendKeeps, MarkKeeps,
     RestKeeps DEF Settle
<1>2. CASE UNCHANGED vars
  <2>1. World'
    BY <1>2 DEF Held, World, vars
  <2> QED
    BY <1>2, <2>1 DEF Held, vars
<1> QED
  BY <1>1, <1>2, TasksKeep DEF Next

\* Every component of the outbox and of an invocation's memory keeps its type,
\* and an item is in hand only between the two halves of a removal or of a send.
THEOREM OutboxTypeCorrect == Spec => []TypeOK
<1>1. Held => TypeOK
  BY DEF Held, World, Sound, Memory, TypeOK
<1> QED
  BY <1>1, InitHeld, StepHeld, PTL DEF Spec

\* settleAttention removes a record only after its own scan passed over the
\* repository while the item did not hold; overlap, crashes and unreadable
\* directories included.
THEOREM OutboxDismissesWhatIsGone == Spec => DismissedWasGone
<1> DEFINE Gone == \A i \in records \ records' :
             \E p \in Invocations :
               /\ i \in inv[p].busy /\ inv[p].phase = "unlink"
               /\ i.repo \in Enlisted[p] /\ i \notin inv[p].held
<1>1. Held /\ [Next]_vars => [Gone]_vars
  <2> SUFFICES ASSUME Held, [Next]_vars, NEW i \in records \ records'
               PROVE  \E p \in Invocations :
                        /\ i \in inv[p].busy /\ inv[p].phase = "unlink"
                        /\ i.repo \in Enlisted[p] /\ i \notin inv[p].held
    OBVIOUS
  <2>1. PICK p \in Invocations, j \in Items : RemoveRecord(p, j)
    BY ZenonT(60) DEF Next, Settle, vars, Pass, ScanRepository, StartWriting, WriteRecord,
           List, Listed, DiscardReceipt, StartPushing, Send, MarkDelivered,
           Finish, Crash, SpendReset, EnterState
  <2>2. i = j /\ i \in inv[p].busy /\ inv[p].phase = "unlink"
    BY <2>1 DEF RemoveRecord
  <2> QED
    BY <2>2 DEF Held, Sound, Mine
<1> QED
  BY <1>1, InitHeld, StepHeld, PTL DEF Spec, DismissedWasGone

-----------------------------------------------------------------------------
(* Receipts                                                                *)

\* A step that leaves records, receipts and counts alone, and takes nothing in
\* hand, keeps what the receipts say.
LEMMA QuietKeeps ==
  ASSUME Held, Acknowledged, NEW p \in Invocations, inv'[p].busy = {},
         \A q \in Invocations \ {p} : inv'[q] = inv[q],
         UNCHANGED <<receipts, reached, orphans>>
  PROVE  Acknowledged'
BY DEF Acknowledged

\* Between the two halves of a removal nobody marks a run's item: only its own
\* driver handles it.
LEMMA OneHandles ==
  ASSUME SoleOwner, Held, NEW p \in Invocations, NEW q \in Invocations,
         NEW i \in RunItems, i \in Mine(p), i \in Mine(q)
  PROVE  p = q
  BY DEF SoleOwner, Mine

LEMMA DiscardAcknowledged ==
  ASSUME Held, Acknowledged, NEW p \in Invocations, NEW i \in Items,
         DiscardReceipt(p, i)
  PROVE  Acknowledged'
<1>1. receipts' \ orphans' = (receipts \ orphans) \ {i}
  BY DEF DiscardReceipt
<1>2. inv'[p].busy = {i} /\ inv'[p].phase = "unlink"
  BY DEF DiscardReceipt, Becomes, Held, Memory
<1>3. \A q \in Invocations \ {p} : inv'[q] = inv[q]
  BY DEF DiscardReceipt, Becomes, Held
<1>4. reached' = reached
  BY DEF DiscardReceipt
<1> QED
  BY <1>1, <1>2, <1>3, <1>4 DEF Acknowledged

\* Where the listing ends an occurrence, its receipt becomes an orphan, and no
\* other invocation has the item in hand.
LEMMA ListAcknowledged ==
  ASSUME SoleOwner, Held, Acknowledged, NEW p \in Invocations, List(p)
  PROVE  Acknowledged'
<1>1. inv'[p].busy = {} /\ \A q \in Invocations \ {p} : inv'[q] = inv[q]
  <2>1. PICK recs, announced : Listed(p, recs, announced)
    BY DEF List
  <2> DEFINE gone == {i \in recs \ inv[p].items : i.repo \in inv[p].settled}
  <2>2. inv' = [inv EXCEPT ![p] = [inv[p] EXCEPT
          !.phase = "discard", !.pending = Head(announced), !.queue = gone]]
    BY <2>1 DEF Listed, Becomes
  <2>3. inv[p] \in Memory /\ inv[p].busy = {}
    BY <2>1 DEF Held, Sound, Listed
  <2> HIDE DEF gone
  <2> QED
    BY <2>2, <2>3 DEF Held, Memory
<1>2. receipts' = receipts
  BY DEF List, Listed
<1>3. receipts' \ orphans' \subseteq (receipts \ orphans) \ Over(p)
  BY <1>2, ListCounts
<1>4. ASSUME NEW j \in receipts' \ orphans' PROVE reached'[j] > 0
  <2>1. j \in Items /\ j \notin Over(p) /\ reached[j] > 0
    BY <1>2, <1>3 DEF Acknowledged, Held, World
  <2> QED
    BY <2>1, ListCounts
<1>5. ASSUME NEW q \in Invocations, NEW j \in inv'[q].busy
      PROVE  /\ inv'[q].phase = "mark" => reached'[j] > 0
             /\ inv'[q].phase = "unlink" /\ j \in RunItems
                  => j \notin receipts' \ orphans'
  <2>1. q # p /\ inv'[q] = inv[q] /\ j \in Mine(q) /\ j \in Items
    BY <1>1 DEF Held, Sound, Mine
  <2>2. j \notin Over(p)
    <3>1. j \in Over(p) => j \in RunItems /\ j \in Mine(p)
      BY <2>1, ListCounts DEF Mine
    <3> QED
      BY <2>1, <3>1, OneHandles
  <2>3. reached'[j] = reached[j]
    BY <2>1, <2>2, ListCounts
  <2> QED
    BY <1>3, <2>1, <2>3 DEF Acknowledged
<1> QED
  BY <1>4, <1>5 DEF Acknowledged

LEMMA RemoveAcknowledged ==
  ASSUME SoleOwner, Held, Acknowledged, NEW p \in Invocations, NEW i \in Items,
         RemoveRecord(p, i)
  PROVE  Acknowledged'
<1>1. i \in inv[p].busy /\ inv[p].phase = "unlink" /\ i \in Mine(p)
  BY DEF RemoveRecord, Held, Sound
<1>2. inv'[p].busy = {}
  BY DEF RemoveRecord, Becomes, Held, Memory
<1>3. \A q \in Invocations \ {p} : inv'[q] = inv[q]
  BY DEF RemoveRecord, Becomes, Held
<1>4. UNCHANGED <<receipts, orphans>>
  BY DEF RemoveRecord
<1>5. \A j \in Items : reached'[j] = reached[j] \/ (j = i /\ i \in RunItems)
  BY DEF RemoveRecord, Held, World
<1>6. ASSUME NEW j \in receipts' \ orphans' PROVE reached'[j] > 0
  <2>1. reached[j] > 0 /\ j \in Items
    BY <1>4 DEF Acknowledged, Held, World
  <2>2. ~ (j = i /\ i \in RunItems)
    BY <1>1, <1>4 DEF Acknowledged
  <2> QED
    BY <1>5, <2>1, <2>2
<1>7. ASSUME NEW q \in Invocations, NEW j \in inv'[q].busy
      PROVE  /\ inv'[q].phase = "mark" => reached'[j] > 0
             /\ inv'[q].phase = "unlink" /\ j \in RunItems
                  => j \notin receipts' \ orphans'
  <2>1. q # p /\ inv'[q] = inv[q] /\ j \in Mine(q) /\ j \in Items
    BY <1>2, <1>3 DEF Held, Sound, Mine
  <2>2. ~ (j = i /\ i \in RunItems)
    BY <1>1, <2>1, OneHandles
  <2>3. reached'[j] = reached[j]
    BY <1>5, <2>1, <2>2
  <2> QED
    BY <1>4, <2>1, <2>3 DEF Acknowledged
<1> QED
  BY <1>6, <1>7 DEF Acknowledged

LEMMA SendAcknowledged ==
  ASSUME Held, Acknowledged, NEW p \in Invocations, NEW i \in Items, Send(p, i)
  PROVE  Acknowledged'
<1>1. \A q \in Invocations \ {p} : inv'[q] = inv[q]
  BY DEF Send, Becomes, Held
<1>2. UNCHANGED <<receipts, orphans>>
  BY DEF Send
<1>3. \A j \in Items : reached'[j] >= reached[j]
  BY TookCounts DEF Send, Held, World
<1>4. /\ \A j \in Items : reached[j] \in Nat /\ reached'[j] \in Nat
  BY TookCounts DEF Send, Held, World
<1>5. \/ inv'[p].busy = {i} /\ inv'[p].phase = "mark" /\ reached'[i] > 0
      \/ inv'[p].busy = {}
  <2>1. inv[p].busy = {}
    BY DEF Send, Held, Sound
  <2>2. Took(i)[i] > 0
    BY TookCounts DEF Held, World
  <2> QED
    BY ZenonT(60), <2>1, <2>2 DEF Send, Becomes, Held, Memory
<1>6. \A j \in receipts' \ orphans' : reached'[j] > 0
  BY <1>2, <1>3, <1>4 DEF Acknowledged, Held, World
<1>7. ASSUME NEW q \in Invocations, NEW j \in inv'[q].busy
      PROVE  /\ inv'[q].phase = "mark" => reached'[j] > 0
             /\ inv'[q].phase = "unlink" /\ j \in RunItems
                  => j \notin receipts' \ orphans'
  <2>1. CASE q = p
    BY <1>5, <2>1
  <2>2. CASE q # p
    <3>1. inv'[q] = inv[q] /\ j \in Items
      BY <1>1, <2>2 DEF Held, Memory
    <3> QED
      BY <1>2, <1>3, <1>4, <3>1 DEF Acknowledged
  <2> QED
    BY <2>1, <2>2
<1> QED
  BY <1>6, <1>7 DEF Acknowledged

LEMMA MarkAcknowledged ==
  ASSUME SoleOwner, Held, Acknowledged, NEW p \in Invocations, NEW i \in Items,
         MarkDelivered(p, i)
  PROVE  Acknowledged'
<1>1. i \in inv[p].busy /\ inv[p].phase = "mark" /\ i \in Mine(p)
  BY DEF MarkDelivered, Held, Sound
<1>2. inv'[p].busy = {} /\ \A q \in Invocations \ {p} : inv'[q] = inv[q]
  BY DEF MarkDelivered, Becomes, Held, Memory
<1>3. UNCHANGED <<reached, orphans>> /\ receipts' \subseteq receipts \cup {i}
  BY DEF MarkDelivered
<1>4. \A j \in receipts' \ orphans' : reached'[j] > 0
  BY <1>1, <1>3 DEF Acknowledged
<1>5. ASSUME NEW q \in Invocations, NEW j \in inv'[q].busy
      PROVE  /\ inv'[q].phase = "mark" => reached'[j] > 0
             /\ inv'[q].phase = "unlink" /\ j \in RunItems
                  => j \notin receipts' \ orphans'
  <2>1. q # p /\ inv'[q] = inv[q] /\ j \in Mine(q)
    BY <1>2 DEF Held, Sound
  <2>2. j \in RunItems => j # i
    BY <1>1, <2>1, OneHandles
  <2> QED
    BY <1>3, <2>1, <2>2 DEF Acknowledged
<1> QED
  BY <1>4, <1>5 DEF Acknowledged

LEMMA StepAcknowledged ==
  ASSUME SoleOwner PROVE OutboxInv /\ [Next]_vars => Acknowledged'
<1> SUFFICES ASSUME Held, Acknowledged, [Next]_vars PROVE Acknowledged'
  BY DEF OutboxInv
<1>1. ASSUME NEW p \in Invocations, Pass(p) \/ Finish(p) \/ Crash(p)
      PROVE  Acknowledged'
  <2>1. inv'[p].busy = {} /\ \A q \in Invocations \ {p} : inv'[q] = inv[q]
    BY <1>1 DEF Pass, Finish, Crash, Becomes, Resting, Held
  <2> QED
    BY <1>1, <2>1, QuietKeeps DEF Pass, Finish, Crash
<1>2. ASSUME NEW p \in Invocations,
             \/ StartWriting(p) \/ StartPushing(p)
             \/ \E r \in Repos : ScanRepository(p, r)
             \/ \E i \in Items : WriteRecord(p, i)
      PROVE  Acknowledged'
  <2>1. inv[p].busy = {}
    BY <1>2 DEF Held, Sound, StartWriting, StartPushing,
                ScanRepository, NextUnread, WriteRecord
  <2>2. /\ inv'[p].busy = inv[p].busy
        /\ \A q \in Invocations \ {p} : inv'[q] = inv[q]
    <3>1. inv[p] \in Memory
      BY DEF Held
    <3>2. CASE StartWriting(p)
      BY <3>1, <3>2 DEF Held, Memory, StartWriting, Becomes
    <3>6. CASE StartPushing(p)
      BY <3>1, <3>6 DEF Held, Memory, StartPushing, Becomes
    <3>4. CASE \E r \in Repos : ScanRepository(p, r)
      BY <3>1, <3>4 DEF Held, Memory, ScanRepository, Scanned, Becomes
    <3>5. CASE \E i \in Items : WriteRecord(p, i)
      BY <3>1, <3>5 DEF Held, Memory, WriteRecord, Becomes
    <3> QED
      BY <1>2, <3>2, <3>4, <3>5, <3>6
  <2>3. UNCHANGED <<receipts, reached, orphans>>
    BY <1>2 DEF StartWriting, StartPushing, ScanRepository,
                WriteRecord
  <2> QED
    BY <2>1, <2>2, <2>3, QuietKeeps
<1>3. ASSUME NEW p \in Invocations, NEW i \in Items,
             \/ DiscardReceipt(p, i) \/ RemoveRecord(p, i)
             \/ Send(p, i) \/ MarkDelivered(p, i)
      PROVE  Acknowledged'
  BY <1>3, DiscardAcknowledged, RemoveAcknowledged, SendAcknowledged,
     MarkAcknowledged
<1>4. ASSUME NEW r \in Repos,
             SpendReset(r) \/ \E s \in TaskStates : EnterState(r, s)
      PROVE  Acknowledged'
  BY <1>4 DEF Acknowledged, SpendReset, EnterState
<1>5. CASE UNCHANGED vars
  BY <1>5 DEF Acknowledged, vars
<1> QED
  BY <1>1, <1>2, <1>3, <1>4, <1>5, ListAcknowledged DEF Next, Settle

-----------------------------------------------------------------------------
(* Receipts and their records                                              *)

\* A step of p that takes no record away keeps what is recorded, where it does
\* so for the receipts and for the memory of p.
LEMMA RecordedBy ==
  ASSUME Held, Recorded, NEW p \in Invocations,
         \A q \in Invocations \ {p} : inv'[q] = inv[q],
         records \subseteq records', faults' = faults \/ Fault,
         faults = 0 /\ orphans = {} /\ receipts \cap RunItems \subseteq records
           /\ Behind(inv[p]) /\ faults' = faults
           => /\ orphans' = {} /\ receipts' \cap RunItems \subseteq records'
              /\ Behind(inv[p])'
  PROVE  Recorded'
<1> SUFFICES ASSUME faults' = 0
             PROVE  /\ orphans' = {} /\ receipts' \cap RunItems \subseteq records'
                    /\ \A q \in Invocations : Behind(inv[q])'
  BY DEF Recorded
<1>1. faults = 0 /\ faults' = faults
  BY BoundsAreNumbers DEF Held, World, Fault
<1>2. ASSUME NEW q \in Invocations \ {p} PROVE Behind(inv[q])'
  BY <1>1 DEF Recorded, Behind
<1> QED
  BY <1>1, <1>2 DEF Recorded

\* A settlement begins or ends, its process dies, or it reads a repository.
LEMMA RestRecorded ==
  ASSUME Held, Recorded, NEW p \in Invocations,
         \/ Pass(p) \/ Finish(p) \/ Crash(p)
         \/ \E r \in Repos : ScanRepository(p, r)
  PROVE  Recorded'
<1>1. inv'[p].phase \in {"pass", "scan"} /\ \A q \in Invocations \ {p} : inv'[q] = inv[q]
  <2>1. CASE Pass(p) \/ Finish(p) \/ Crash(p)
    BY ZenonT(60), <2>1 DEF Held, Pass, Finish, Crash, Becomes, Resting
  <2>2. ASSUME NEW r \in Repos, ScanRepository(p, r)
        PROVE  /\ inv'[p].phase = "scan"
               /\ \A q \in Invocations \ {p} : inv'[q] = inv[q]
    <3>1. PICK items, settled : Scanned(p, r, items, settled)
      BY <2>2 DEF ScanRepository
    <3>2. inv[p] \in Memory /\ inv[p].phase = "scan"
      BY <2>2 DEF Held, ScanRepository, NextUnread
    <3> QED
      BY <3>1, <3>2 DEF Held, Memory, Scanned, Becomes
  <2> QED
    BY <2>1, <2>2
<1>2. UNCHANGED <<records, receipts, orphans>> /\ (faults' = faults \/ Fault)
  BY DEF Pass, Finish, Crash, ScanRepository
<1>3. Behind(inv[p])'
  BY <1>1 DEF Behind
<1> QED
  BY <1>1, <1>2, <1>3, RecordedBy

LEMMA StartRecorded ==
  ASSUME Held, Recorded, NEW p \in Invocations, StartWriting(p) \/ StartPushing(p)
  PROVE  Recorded'
<1>1. UNCHANGED <<records, receipts, orphans, faults>>
  BY DEF StartWriting, StartPushing
<1>2. inv[p] \in Memory /\ inv[p].busy = {}
  BY DEF Held, Sound, StartWriting, StartPushing
<1>3. \A q \in Invocations \ {p} : inv'[q] = inv[q]
  BY DEF Held, StartWriting, StartPushing, Becomes
<1>4. Behind(inv[p]) => Behind(inv[p])'
  <2>1. CASE StartWriting(p)
    <3>1. /\ inv'[p].phase = "write" /\ inv'[p].items = inv[p].items
          /\ inv'[p].queue = inv[p].items
      BY <1>2, <2>1 DEF Held, Memory, StartWriting, Becomes
    <3> QED
      BY <3>1 DEF Behind
  <2>2. CASE StartPushing(p)
    <3>1. /\ inv'[p].phase = "push" /\ inv'[p].busy = {}
          /\ inv'[p].queue = inv[p].pending /\ inv[p].phase = "discard"
      BY <1>2, <2>2 DEF Held, Memory, StartPushing, Becomes
    <3> QED
      BY <1>1, <3>1 DEF Behind
  <2> QED
    BY <2>1, <2>2
<1> QED
  BY <1>1, <1>3, <1>4, RecordedBy

LEMMA WriteRecorded ==
  ASSUME Held, Recorded, NEW p \in Invocations, NEW i \in Items, WriteRecord(p, i)
  PROVE  Recorded'
<1>1. /\ inv[p] \in Memory /\ inv[p].phase = "write"
      /\ \A q \in Invocations \ {p} : inv'[q] = inv[q]
  BY DEF Held, WriteRecord, Becomes
<1>2. /\ inv'[p].phase = "write" /\ inv'[p].items = inv[p].items
      /\ inv'[p].queue = inv[p].queue \ {i}
  BY <1>1 DEF Held, Memory, WriteRecord, Becomes
<1>3. UNCHANGED <<receipts, orphans>> /\ (faults' = faults \/ Fault)
  BY DEF WriteRecord
<1>4. records \subseteq records' /\ (records' = records \cup {i} \/ Fault)
  BY DEF WriteRecord
<1>5. ~ (Fault /\ faults = 0 /\ faults' = faults)
  BY DEF Fault
<1>6. Behind(inv[p]) /\ records' = records \cup {i} => Behind(inv[p])'
  BY <1>1, <1>2 DEF Behind
<1> QED
  BY <1>1, <1>3, <1>4, <1>5, <1>6, RecordedBy

\* Where no fault hid the directory and none refused a record, every item of
\* the scan has its record, so no occurrence ends without one.
LEMMA ListRecorded ==
  ASSUME Held, Recorded, NEW p \in Invocations, List(p)
  PROVE  Recorded'
<1>1. PICK recs \in {records, {}}, announced \in SUBSET inv[p].items :
        Listed(p, recs, announced)
  BY DEF List
<1> DEFINE gone == {j \in recs \ inv[p].items : j.repo \in inv[p].settled}
<1>2. inv' = [inv EXCEPT ![p] = [inv[p] EXCEPT
        !.phase = "discard", !.pending = Head(announced), !.queue = gone]]
  BY <1>1 DEF Listed, Becomes
<1>3. gone \cap inv[p].items = {}
  OBVIOUS
<1>4. /\ inv[p] \in Memory /\ inv[p].phase = "write" /\ inv[p].queue = {}
      /\ inv[p].busy = {}
  BY <1>1 DEF Held, Sound, Listed
<1> HIDE DEF gone
<1>5. /\ inv'[p].phase = "discard" /\ inv'[p].queue = gone
      /\ inv'[p].pending = Head(announced) /\ inv'[p].busy = {}
      /\ \A q \in Invocations \ {p} : inv'[q] = inv[q]
  BY <1>2, <1>4 DEF Held, Memory
<1>6. UNCHANGED <<records, receipts>> /\ (faults' = faults \/ Fault)
  BY <1>1 DEF List, Listed
<1>7. Behind(inv[p]) => Behind(inv[p])'
  <2>1. Head(announced) \subseteq inv[p].items
    BY HeadIsPart
  <2> QED
    BY <1>3, <1>4, <1>5, <1>6, <2>1 DEF Behind
<1>8. receipts \cap RunItems \subseteq records => Over(p) \cap receipts = {}
  BY DEF Over
<1>9. orphans' = orphans \cup (Over(p) \cap receipts)
  BY ListCounts
<1> QED
  BY <1>5, <1>6, <1>7, <1>8, <1>9, RecordedBy

LEMMA DiscardRecorded ==
  ASSUME Held, Recorded, NEW p \in Invocations, NEW i \in Items, DiscardReceipt(p, i)
  PROVE  Recorded'
<1>1. /\ inv[p] \in Memory /\ inv[p].phase = "discard" /\ i \in inv[p].queue
      /\ \A q \in Invocations \ {p} : inv'[q] = inv[q]
  BY DEF Held, DiscardReceipt, Becomes
<1>2. /\ inv'[p].phase = "unlink" /\ inv'[p].busy = {i}
      /\ inv'[p].queue = inv[p].queue \ {i} /\ inv'[p].pending = inv[p].pending
  BY <1>1 DEF Held, Memory, DiscardReceipt, Becomes
<1>3. /\ records' = records /\ receipts' \subseteq receipts
      /\ \/ orphans' = orphans \ {i} /\ faults' = faults
         \/ Fault
  BY DEF DiscardReceipt
<1>4. ~ (Fault /\ faults = 0 /\ faults' = faults)
  BY DEF Fault
<1>5. Behind(inv[p]) => Behind(inv[p])'
  BY <1>1, <1>2, <1>3 DEF Behind
<1> QED
  BY <1>1, <1>3, <1>4, <1>5, RecordedBy

\* The record that goes is nobody's to announce, and its receipt went before.
LEMMA RemoveRecorded ==
  ASSUME SoleOwner, Held, Acknowledged, Recorded, NEW p \in Invocations,
         NEW i \in Items, RemoveRecord(p, i)
  PROVE  Recorded'
<1>1. /\ inv[p] \in Memory /\ inv[p].phase = "unlink" /\ inv[p].busy = {i}
      /\ i \in Mine(p) /\ \A q \in Invocations \ {p} : inv'[q] = inv[q]
  BY DEF Held, Sound, RemoveRecord, Becomes
<1>2. /\ inv'[p].phase = "discard" /\ inv'[p].busy = {}
      /\ inv'[p].queue = inv[p].queue /\ inv'[p].pending = inv[p].pending
  BY <1>1 DEF Held, Memory, RemoveRecord, Becomes
<1>3. UNCHANGED <<receipts, orphans>> /\ records \ {i} \subseteq records'
  BY DEF RemoveRecord
<1> SUFFICES ASSUME faults' = 0
             PROVE  /\ orphans' = {} /\ receipts' \cap RunItems \subseteq records'
                    /\ \A q \in Invocations : Behind(inv[q])'
  BY DEF Recorded
<1>4. faults = 0
  BY BoundsAreNumbers DEF Held, World, RemoveRecord, Fault
<1>5. /\ orphans = {} /\ receipts \cap RunItems \subseteq records
      /\ \A q \in Invocations : Behind(inv[q])
  BY <1>4 DEF Recorded
<1>6. i \in RunItems => i \notin receipts
  BY <1>1, <1>5 DEF Acknowledged
<1>7. Behind(inv[p])'
  BY <1>1, <1>2, <1>3, <1>5 DEF Behind
<1>8. ASSUME NEW q \in Invocations \ {p} PROVE Behind(inv[q])'
  <2>1. i \in RunItems => i \notin Mine(q)
    BY <1>1, OneHandles
  <2>2. /\ inv[q].items \subseteq Mine(q) /\ inv[q].queue \subseteq Mine(q)
        /\ inv[q].pending \subseteq Mine(q) /\ inv[q].busy \subseteq Mine(q)
    BY DEF Held, Sound
  <2>3. Behind(inv[q]) /\ inv'[q] = inv[q]
    BY <1>1, <1>5
  <2> QED
    BY <1>3, <2>1, <2>2, <2>3 DEF Behind
<1> QED
  BY <1>3, <1>5, <1>6, <1>7, <1>8

LEMMA SendRecorded ==
  ASSUME Held, Recorded, NEW p \in Invocations, NEW i \in Items,
         Send(p, i) \/ MarkDelivered(p, i)
  PROVE  Recorded'
<1>1. inv[p] \in Memory /\ \A q \in Invocations \ {p} : inv'[q] = inv[q]
  BY DEF Held, Send, MarkDelivered, Becomes
<1>2. /\ UNCHANGED <<records, orphans>> /\ (faults' = faults \/ Fault)
  BY DEF Send, MarkDelivered
<1>3. CASE Send(p, i)
  <2>1. inv[p].phase = "push" /\ inv[p].busy = {} /\ i \in inv[p].queue
    BY <1>3 DEF Send, Held, Sound
  <2>2. PICK v \in {[inv[p] EXCEPT !.phase = "mark", !.queue = @ \ {i},
                                   !.busy = {i}],
                    [inv[p] EXCEPT !.queue = @ \ {i}]} : Becomes(p, v)
    BY <1>3 DEF Send
  <2>3. /\ v.phase \in {"push", "mark"} /\ v.queue = inv[p].queue \ {i}
        /\ v.busy \subseteq {i}
    BY <1>1, <2>1, <2>2 DEF Memory
  <2>4. inv'[p] = v
    BY <2>2 DEF Held, Becomes
  <2>5. Behind(inv[p]) => Behind(inv[p])'
    BY <1>2, <2>1, <2>3, <2>4 DEF Behind
  <2>6. receipts' = receipts
    BY <1>3 DEF Send
  <2> QED
    BY <1>1, <1>2, <2>5, <2>6, RecordedBy
<1>4. CASE MarkDelivered(p, i)
  <2>1. inv[p].phase = "mark" /\ i \in inv[p].busy
    BY <1>4 DEF MarkDelivered
  <2>2. /\ inv'[p].phase = "push" /\ inv'[p].busy = {}
        /\ inv'[p].queue = inv[p].queue
    BY <1>1, <1>4 DEF Held, Memory, MarkDelivered, Becomes
  <2>3. Behind(inv[p]) =>
          Behind(inv[p])' /\ (i \in RunItems => i \in records)
    BY <1>2, <2>1, <2>2 DEF Behind
  <2>4. receipts' \subseteq receipts \cup {i}
    BY <1>4 DEF MarkDelivered
  <2> QED
    BY <1>1, <1>2, <2>3, <2>4, RecordedBy
<1> QED
  BY <1>3, <1>4

LEMMA StepRecorded ==
  ASSUME SoleOwner PROVE OutboxInv /\ [Next]_vars => Recorded'
<1> SUFFICES ASSUME Held, Acknowledged, Recorded, [Next]_vars PROVE Recorded'
  BY DEF OutboxInv
<1>1. ASSUME NEW p \in Invocations, Settle(p) \/ Crash(p) PROVE Recorded'
  BY <1>1, RestRecorded, StartRecorded, WriteRecorded, ListRecorded,
     DiscardRecorded, RemoveRecorded, SendRecorded DEF Settle
<1>2. ASSUME NEW r \in Repos,
             SpendReset(r) \/ \E s \in TaskStates : EnterState(r, s)
      PROVE  Recorded'
  BY <1>2 DEF Recorded, Behind, SpendReset, EnterState
<1>3. CASE UNCHANGED vars
  BY <1>3 DEF Recorded, Behind, vars
<1> QED
  BY <1>1, <1>2, <1>3 DEF Next

\* An open item with a receipt reached the endpoint in its present occurrence,
\* unless the receipt outlived an earlier one, which takes a fault; wherever
\* one invocation alone drives the repositories whose runs meet conditions.
THEOREM OutboxSilencesNothing ==
  ASSUME SoleOwner PROVE Spec => []NoneIsSilenced
<1>1. Init => OutboxInv
  <2> SUFFICES ASSUME Init PROVE OutboxInv
    OBVIOUS
  <2>1. Acknowledged
    BY DEF Init, Acknowledged, Resting
  <2>2. Recorded
    BY DEF Init, Recorded, Behind, Resting
  <2> QED
    BY <2>1, <2>2, InitHeld DEF OutboxInv
<1>2. OutboxInv /\ [Next]_vars => OutboxInv'
  BY StepHeld, StepAcknowledged, StepRecorded DEF OutboxInv
<1>3. OutboxInv => NoneIsSilenced
  BY DEF OutboxInv, Acknowledged, Recorded, NoneIsSilenced
<1> QED
  BY <1>1, <1>2, <1>3, PTL DEF Spec

-----------------------------------------------------------------------------
(* An operator hears once                                                  *)

\* Only p drives the repository of i.
Alone(p, i) == Owners(i) = {p}

\* A task's item is past once its task has entered another state: it cannot
\* come to hold again, since the new one bears a later instant.
Past(i) == i \in TaskItems /\ i.since < tasks[i.repo].since

\* A task's item that was recorded, or found to hold, holds now or is past.
Known ==
  \A i \in TaskItems :
    (i \in records \/ \E p \in Invocations : i \in inv[p].items)
      => Past(i) \/ i \in Derived(i.repo)

\* What the sole driver p of item i may rely on.  A hearing that no receipt
\* shows, and that is not just being marked or ended, is explained by a fault;
\* and so is every hearing of an item that p is going to announce.  What p is
\* going to remove has a record, and will not hold again under its name.
Explained(p, i) ==
  /\ reached[i] <= 1 + faults
  /\ i \notin receipts \cup inv[p].busy /\ ~ Past(i) => reached[i] <= faults
  /\ inv[p].phase \in {"scan", "write"} =>
       /\ i \in inv[p].items \ receipts => reached[i] <= faults
       /\ i \in (records \cap TaskItems) \ inv[p].items
            /\ i.repo \in inv[p].settled => Past(i)
  /\ inv[p].phase \in {"discard", "unlink"} =>
       /\ i \in inv[p].pending => reached[i] <= faults
       /\ i \in inv[p].queue \cup inv[p].busy =>
            i \in records /\ (i \in TaskItems => Past(i))
  /\ inv[p].phase \in {"push", "mark"} /\ i \in inv[p].queue =>
       reached[i] <= faults

HeardInv ==
  /\ Held /\ Known
  /\ \A i \in Items : Owners(i) = {} => reached[i] = 0
  /\ \A i \in Items, p \in Invocations : Alone(p, i) => Explained(p, i)

\* The step of an invocation leaves an item it does not drive alone.
LEMMA OthersLeave ==
  ASSUME Held, NEW q \in Invocations, Settle(q) \/ Crash(q),
         NEW i \in Items, i.repo \notin Enlisted[q]
  PROVE  /\ reached'[i] = reached[i]
         /\ i \in records' <=> i \in records
         /\ i \in receipts' <=> i \in receipts
<1>1. i \notin Mine(q)
  BY DEF Mine
<1>2. ASSUME NEW j \in Items,
             \/ WriteRecord(q, j) \/ DiscardReceipt(q, j) \/ RemoveRecord(q, j)
             \/ Send(q, j) \/ MarkDelivered(q, j)
      PROVE  j # i
  BY <1>1, <1>2 DEF Held, Sound, WriteRecord, DiscardReceipt, RemoveRecord, Send,
     MarkDelivered
<1>3. CASE \/ Pass(q) \/ StartWriting(q) \/ StartPushing(q)
           \/ Finish(q) \/ Crash(q) \/ \E r \in Repos : ScanRepository(q, r)
  BY <1>3 DEF Pass, StartWriting, StartPushing, Finish, Crash, ScanRepository
<1>6. CASE List(q)
  <2>1. UNCHANGED <<records, receipts>>
    BY <1>6 DEF List, Listed
  <2> QED
    BY <1>6, <2>1, ListCounts
<1>4. ASSUME NEW j \in Items, WriteRecord(q, j) \/ DiscardReceipt(q, j) \/ MarkDelivered(q, j)
      PROVE  /\ reached'[i] = reached[i]
             /\ i \in records' <=> i \in records
             /\ i \in receipts' <=> i \in receipts
  BY <1>2, <1>4 DEF WriteRecord, DiscardReceipt, MarkDelivered
<1>5. ASSUME NEW j \in Items, RemoveRecord(q, j) \/ Send(q, j)
      PROVE  /\ reached'[i] = reached[i]
             /\ i \in records' <=> i \in records
             /\ i \in receipts' <=> i \in receipts
  BY <1>2, <1>5 DEF Held, World, RemoveRecord, Send, Took
<1> QED
  BY <1>3, <1>4, <1>5, <1>6 DEF Settle

\* No step takes a fault back, and one that is not a task's leaves the tasks.
LEMMA StepFaults ==
  ASSUME Held, NEW p \in Invocations, Settle(p) \/ Crash(p)
  PROVE  /\ faults \in Nat /\ faults' \in Nat /\ faults' >= faults
         /\ tasks' = tasks
         /\ \A q \in Invocations \ {p} : inv'[q] = inv[q]
<1>1. faults' = faults \/ Fault
  BY DEF Settle, Pass, ScanRepository, StartWriting, WriteRecord, List,
     DiscardReceipt, RemoveRecord, StartPushing, Send, MarkDelivered, Finish,
     Crash
<1>2. tasks' = tasks
  BY ZenonT(60) DEF Settle, Pass, ScanRepository, StartWriting, WriteRecord,
     List, Listed, DiscardReceipt, RemoveRecord, StartPushing, Send,
     MarkDelivered, Finish, Crash
<1>3. \E v : Becomes(p, v)
  BY ZenonT(60) DEF Settle, Pass, ScanRepository, Scanned, StartWriting,
     WriteRecord, List, Listed, DiscardReceipt, RemoveRecord, StartPushing,
     Send, MarkDelivered, Finish, Crash
<1> QED
  BY <1>1, <1>2, <1>3, BoundsAreNumbers DEF Held, World, Fault, Becomes

\* An invocation takes up what holds in a repository it reads, and records
\* what it has taken up.
LEMMA TakenUp ==
  ASSUME Held, NEW p \in Invocations, Settle(p) \/ Crash(p), NEW i \in TaskItems
  PROVE  /\ i \in records' => i \in records \/ i \in inv[p].items
         /\ i \in inv'[p].items => i \in inv[p].items \/ i \in Derived(i.repo)
<1>1. inv[p] \in Memory /\ i \notin RunItems
  BY ItemKinds DEF Held
<1>2. i \in records' => i \in records \/ i \in inv[p].items
  <2>1. ASSUME NEW j \in Items, WriteRecord(p, j) PROVE j \in inv[p].items
    BY <2>1 DEF Held, Sound, WriteRecord
  <2>2. \/ records' \subseteq records
        \/ \E j \in Items : WriteRecord(p, j) /\ records' \subseteq records \cup {j}
    BY ZenonT(60) DEF Settle, Pass, ScanRepository, StartWriting, WriteRecord,
       List, Listed, DiscardReceipt, RemoveRecord, StartPushing, Send,
       MarkDelivered, Finish, Crash
  <2> QED
    BY <2>1, <2>2
<1>3. CASE \/ Pass(p) \/ Finish(p) \/ Crash(p)
  <2>1. inv'[p].items = {}
    BY <1>3 DEF Held, Pass, Finish, Crash, Becomes, Resting
  <2> QED
    BY <1>2, <2>1
<1>4. ASSUME NEW r \in Repos, ScanRepository(p, r)
      PROVE  i \in inv'[p].items => i \in inv[p].items \/ i \in Derived(i.repo)
  <2>1. r \in Enlisted[p] /\ inv[p].met \subseteq Enlisted[p] \cap Troubled
    BY <1>4 DEF ScanRepository, NextUnread, Held, Sound
  <2>2. PICK items \in SUBSET Holding(p, r), settled \in {{r}, {}} :
          Scanned(p, r, items, settled)
    BY <1>4 DEF ScanRepository
  <2>3. inv'[p].items = inv[p].items \cup items
    BY <1>1, <2>2 DEF Held, Memory, Scanned, Becomes
  <2>4. i \in items => i \in Derived(r) /\ i.repo = r
    <3>1. \A j \in {RunItem(s) : s \in {r} \cap inv[p].met} : j \in RunItems
      BY <1>4, ItemKinds
    <3> QED
      BY <1>1, <2>1, <3>1, HoldingIsMine DEF Held, Holding
  <2> QED
    BY <2>3, <2>4
<1>5. CASE List(p)
  <2>1. PICK recs, announced : Listed(p, recs, announced)
    BY <1>5 DEF List
  <2> DEFINE gone == {j \in recs \ inv[p].items : j.repo \in inv[p].settled}
  <2>2. inv' = [inv EXCEPT ![p] = [inv[p] EXCEPT
          !.phase = "discard", !.pending = Head(announced), !.queue = gone]]
    BY <2>1 DEF Listed, Becomes
  <2> HIDE DEF gone
  <2>3. inv'[p].items = inv[p].items
    BY <1>1, <2>2 DEF Held, Memory
  <2> QED
    BY <1>2, <2>3
<1>6. CASE StartWriting(p) \/ StartPushing(p)
  <2>1. CASE StartWriting(p)
    BY ZenonT(60), <1>1, <2>1 DEF Held, Memory, StartWriting, Becomes
  <2>2. CASE StartPushing(p)
    BY ZenonT(60), <1>1, <2>2 DEF Held, Memory, StartPushing, Becomes
  <2> QED
    BY <1>2, <1>6, <2>1, <2>2
<1>7. ASSUME NEW j \in Items,
             \/ WriteRecord(p, j) \/ DiscardReceipt(p, j) \/ RemoveRecord(p, j)
             \/ Send(p, j) \/ MarkDelivered(p, j)
      PROVE  inv'[p].items = inv[p].items
  <2>1. CASE WriteRecord(p, j)
    BY ZenonT(60), <1>1, <2>1 DEF Held, Memory, WriteRecord, Becomes
  <2>2. CASE Send(p, j)
    <3>1. CASE Becomes(p, [inv[p] EXCEPT !.phase = "mark", !.queue = @ \ {j},
                                         !.busy = {j}])
      BY ZenonT(60), <1>1, <3>1 DEF Held, Memory, Becomes
    <3>2. CASE Becomes(p, [inv[p] EXCEPT !.queue = @ \ {j}])
      BY ZenonT(60), <1>1, <3>2 DEF Held, Memory, Becomes
    <3> QED
      BY <2>2, <3>1, <3>2 DEF Send
  <2>3. CASE MarkDelivered(p, j)
    BY ZenonT(60), <1>1, <2>3 DEF Held, Memory, MarkDelivered, Becomes
  <2>4. CASE DiscardReceipt(p, j)
    BY ZenonT(60), <1>1, <2>4 DEF Held, Memory, DiscardReceipt, Becomes
  <2>5. CASE RemoveRecord(p, j)
    BY ZenonT(60), <1>1, <2>5 DEF Held, Memory, RemoveRecord, Becomes
  <2> QED
    BY <1>7, <2>1, <2>2, <2>3, <2>4, <2>5
<1> QED
  BY <1>2, <1>3, <1>4, <1>5, <1>6, <1>7 DEF Settle

LEMMA StepKnown == Held /\ Known /\ [Next]_vars => Known'
<1> SUFFICES ASSUME Held, Known, [Next]_vars PROVE Known'
  OBVIOUS
<1>1. ASSUME NEW p \in Invocations, Settle(p) \/ Crash(p) PROVE Known'
  <2> SUFFICES ASSUME NEW i \in TaskItems,
                      i \in records' \/ \E q \in Invocations : i \in inv'[q].items
               PROVE  Past(i)' \/ i \in Derived(i.repo)'
    BY DEF Known
  <2>1. tasks' = tasks /\ \A q \in Invocations \ {p} : inv'[q] = inv[q]
    BY <1>1, StepFaults
  <2>2. \/ i \in records \/ \E q \in Invocations : i \in inv[q].items
        \/ i \in Derived(i.repo)
    BY <1>1, <2>1, TakenUp
  <2>3. Past(i) \/ i \in Derived(i.repo)
    BY <2>2 DEF Known
  <2> QED
    BY <2>1, <2>3 DEF Past, Derived
<1>2. ASSUME NEW r \in Repos, SpendReset(r) \/ \E s \in TaskStates : EnterState(r, s)
      PROVE  Known'
  <2> SUFFICES ASSUME NEW i \in TaskItems,
                      i \in records' \/ \E q \in Invocations : i \in inv'[q].items
               PROVE  Past(i)' \/ i \in Derived(i.repo)'
    BY DEF Known
  <2>1. Past(i) \/ i \in Derived(i.repo)
    BY <1>2 DEF Known, SpendReset, EnterState
  <2>2. i.repo \in Repos /\ i.since \in Nat
    BY BoundsAreNumbers DEF TaskItems, TaskItem
  <2>3. tasks \in [Repos -> [state : TaskStates, since : Nat]]
    BY DEF Held, World
  <2>4. i \in Derived(i.repo) => i.since = tasks[i.repo].since /\ NeedsPerson(tasks[i.repo].state)
    BY DEF Derived, TaskItem
  <2>5. CASE SpendReset(r)
    <3>1. tasks'[i.repo].since = tasks[i.repo].since
      BY <2>2, <2>3, <2>5 DEF SpendReset
    <3>2. CASE Past(i)
      BY <3>1, <3>2 DEF Past
    <3>3. CASE i \in Derived(i.repo)
      <4>1. i.repo # r
        BY <2>4, <2>5, <3>3 DEF SpendReset, NeedsPerson
      <4>2. tasks'[i.repo] = tasks[i.repo]
        BY <2>2, <2>3, <2>5, <4>1 DEF SpendReset
      <4> QED
        BY <3>3, <4>2 DEF Derived
    <3> QED
      BY <2>1, <3>2, <3>3
  <2>6. ASSUME NEW s \in TaskStates, EnterState(r, s)
        PROVE  Past(i)' \/ i \in Derived(i.repo)'
    <3>1. CASE i.repo = r
      <4>1. tasks'[r].since = tasks[r].since + 1
        BY <2>3, <2>6 DEF EnterState
      <4>2. i.since <= tasks[r].since /\ tasks[r].since \in Nat
        BY <2>1, <2>3, <2>4, <3>1, <2>2 DEF Past
      <4>3. i.since < tasks'[r].since
        BY <2>2, <4>1, <4>2
      <4> QED
        BY <3>1, <4>3 DEF Past
    <3>2. CASE i.repo # r
      <4>1. tasks'[i.repo] = tasks[i.repo]
        BY <2>2, <2>3, <2>6, <3>2 DEF EnterState
      <4> QED
        BY <2>1, <4>1 DEF Past, Derived
    <3> QED
      BY <3>1, <3>2
  <2> QED
    BY <1>2, <2>5, <2>6
<1>3. CASE UNCHANGED vars
  BY <1>3 DEF Known, Past, Derived, vars
<1> QED
  BY <1>1, <1>2, <1>3 DEF Next

-----------------------------------------------------------------------------
(* What each step of the sole driver keeps explained                       *)

\* A settlement begins or ends, or its process dies.
LEMMA RestExplained ==
  ASSUME Held, NEW p \in Invocations, NEW i \in Items, Explained(p, i),
         Pass(p) \/ Finish(p) \/ Crash(p)
  PROVE  Explained(p, i)'
<1>1. /\ inv'[p].phase \in {"pass", "scan"} /\ inv'[p].items = {}
      /\ inv'[p].settled = {} /\ inv'[p].busy = {}
  <2>1. CASE Pass(p)
    BY ZenonT(60), <2>1 DEF Held, Pass, Becomes, Resting
  <2>2. CASE Finish(p)
    BY ZenonT(60), <2>2 DEF Held, Finish, Becomes, Resting
  <2>3. CASE Crash(p)
    BY ZenonT(60), <2>3 DEF Held, Crash, Becomes, Resting
  <2> QED
    BY <2>1, <2>2, <2>3
<1>2. UNCHANGED <<records, receipts, reached, tasks>>
  BY DEF Pass, Finish, Crash
<1>3. reached[i] \in Nat /\ faults \in Nat
  BY BoundsAreNumbers DEF Held, World
<1>4. \/ inv[p].busy = {} /\ faults' = faults
      \/ faults' = faults + 1
  BY DEF Held, Sound, Pass, Finish, Crash, Fault
<1> QED
  BY <1>1, <1>2, <1>3, <1>4 DEF Explained, Past

LEMMA ScanExplained ==
  ASSUME Held, Known, NEW p \in Invocations, NEW i \in Items, Explained(p, i),
         NEW r \in Repos, ScanRepository(p, r)
  PROVE  Explained(p, i)'
<1>1. inv[p].phase = "scan" /\ r \in Enlisted[p] /\ inv[p].busy = {}
  BY DEF ScanRepository, NextUnread, Held, Sound
<1>2. PICK items \in {Holding(p, r), Holding(p, r) \ Derived(r)},
           settled \in {{r}, {}} :
        /\ Scanned(p, r, items, settled)
        /\ settled = {r} => items = Holding(p, r)
  BY DEF ScanRepository
<1>3. /\ inv'[p].phase = "scan" /\ inv'[p].busy = {}
      /\ inv'[p].items = inv[p].items \cup items
      /\ inv'[p].settled = inv[p].settled \cup settled
  BY <1>1, <1>2 DEF Held, Memory, Scanned, Becomes
<1>4. UNCHANGED <<records, receipts, reached, tasks>>
  BY DEF ScanRepository
<1>5. /\ reached[i] \in Nat /\ faults \in Nat
      /\ faults' = faults \/ faults' = faults + 1
  BY BoundsAreNumbers DEF Held, World, ScanRepository, Fault
<1>6. i \in Derived(i.repo) => ~ Past(i)
  <2>1. i.repo \in Repos
    BY ItemKinds
  <2> QED
    BY <2>1 DEF Derived, TaskItem, Past, Held, World
<1>7. i \in Holding(p, r) => ~ Past(i)
  <2>1. i \in Holding(p, r) => i.repo = r
    BY <1>1, HoldingIsMine DEF Held, Sound
  <2>2. \A s \in {r} \cap inv[p].met : RunItem(s) \notin TaskItems
    BY ItemKinds
  <2> QED
    BY <1>6, <2>1, <2>2 DEF Holding, Past
<1>8. i \in inv'[p].items \ receipts => reached[i] <= faults
  BY <1>1, <1>3, <1>7 DEF Explained
<1>9. i \in (records \cap TaskItems) \ inv'[p].items /\ i.repo \in inv'[p].settled
        => Past(i)
  <2> SUFFICES ASSUME i \in (records \cap TaskItems) \ inv'[p].items,
                      i.repo \in inv'[p].settled
               PROVE  Past(i)
    OBVIOUS
  <2>1. CASE i.repo \in inv[p].settled
    BY <1>1, <1>3, <2>1 DEF Explained
  <2>2. CASE settled = {r} /\ i.repo = r
    BY <1>2, <1>3, <2>2 DEF Known, Holding
  <2> QED
    BY <1>2, <1>3, <2>1, <2>2
<1> QED
  BY <1>1, <1>3, <1>4, <1>5, <1>8, <1>9 DEF Explained, Past

LEMMA StartExplained ==
  ASSUME Held, NEW p \in Invocations, NEW i \in Items, Explained(p, i),
         StartWriting(p) \/ StartPushing(p)
  PROVE  Explained(p, i)'
<1>1. UNCHANGED <<records, receipts, reached, tasks, faults>>
  BY DEF StartWriting, StartPushing
<1>2. inv[p] \in Memory /\ inv[p].busy = {}
  BY DEF Held, Sound, StartWriting, StartPushing
<1>3. CASE StartWriting(p)
  <2>1. /\ inv[p].phase = "scan" /\ inv'[p].phase = "write"
        /\ inv'[p].items = inv[p].items /\ inv'[p].settled = inv[p].settled
        /\ inv'[p].busy = {}
    BY <1>2, <1>3 DEF Held, Memory, StartWriting, Becomes
  <2> QED
    BY <1>1, <1>2, <2>1 DEF Explained, Past
<1>4. CASE StartPushing(p)
  <2>1. /\ inv[p].phase = "discard" /\ inv'[p].phase = "push"
        /\ inv'[p].queue = inv[p].pending /\ inv'[p].busy = {}
    BY <1>2, <1>4 DEF Held, Memory, StartPushing, Becomes
  <2> QED
    BY <1>1, <1>2, <2>1 DEF Explained, Past
<1> QED
  BY <1>3, <1>4

LEMMA WriteExplained ==
  ASSUME Held, NEW p \in Invocations, NEW i \in Items, Explained(p, i),
         NEW j \in Items, WriteRecord(p, j)
  PROVE  Explained(p, i)'
<1>1. /\ inv[p].phase = "write" /\ inv[p].busy = {}
      /\ j \in inv[p].items
  BY DEF WriteRecord, Held, Sound
<1>2. /\ inv'[p].phase = "write" /\ inv'[p].busy = {}
      /\ inv'[p].items = inv[p].items /\ inv'[p].settled = inv[p].settled
  BY <1>1 DEF Held, Memory, WriteRecord, Becomes
<1>3. UNCHANGED <<receipts, reached, tasks>> /\ records' \subseteq records \cup {j}
  BY DEF WriteRecord
<1>4. /\ reached[i] \in Nat /\ faults \in Nat
      /\ faults' = faults \/ faults' = faults + 1
  BY BoundsAreNumbers DEF Held, World, WriteRecord, Fault
<1> QED
  BY <1>1, <1>2, <1>3, <1>4 DEF Explained, Past

\* What is removed was recorded and not found, so a task's item is past; what
\* is announced carries no receipt, or a fault hid the directory.
LEMMA ListExplained ==
  ASSUME Held, NEW p \in Invocations, NEW i \in Items, Explained(p, i), List(p)
  PROVE  Explained(p, i)'
<1>1. PICK recs \in {records, {}}, announced \in SUBSET inv[p].items :
        /\ Listed(p, recs, announced)
        /\ \/ announced = inv[p].items \ receipts /\ faults' = faults
           \/ announced = inv[p].items /\ Fault
  BY DEF List
<1>2. inv[p].phase = "write" /\ inv[p].busy = {}
  BY <1>1 DEF Held, Sound, Listed
<1> DEFINE gone == {j \in recs \ inv[p].items : j.repo \in inv[p].settled}
<1>3. inv' = [inv EXCEPT ![p] = [inv[p] EXCEPT
        !.phase = "discard", !.pending = Head(announced), !.queue = gone]]
  BY <1>1 DEF Listed, Becomes
<1>4. i \in gone => i \in records /\ (i \in TaskItems => Past(i))
  BY <1>2 DEF Explained
<1> HIDE DEF gone
<1>5. /\ inv'[p].phase = "discard" /\ inv'[p].busy = {}
      /\ inv'[p].queue = gone /\ inv'[p].pending = Head(announced)
  BY <1>2, <1>3 DEF Held, Memory
<1>6. UNCHANGED <<records, receipts, tasks>>
  BY <1>1 DEF Listed
<1>7. /\ reached[i] \in Nat /\ faults \in Nat
      /\ faults' = faults \/ faults' = faults + 1
      /\ reached'[i] \in Nat /\ reached'[i] <= reached[i]
  BY <1>1, ListCounts, BoundsAreNumbers DEF Held, World, Fault
<1>8. i \in Head(announced) => reached[i] <= faults'
  <2>1. i \in Head(announced) => i \in announced
    BY HeadIsPart
  <2> QED
    BY <1>1, <1>2, <1>7, <2>1 DEF Explained, Fault
<1> QED
  BY <1>2, <1>4, <1>5, <1>6, <1>7, <1>8 DEF Explained, Past

LEMMA DiscardExplained ==
  ASSUME Held, NEW p \in Invocations, NEW i \in Items, Explained(p, i),
         NEW j \in Items, DiscardReceipt(p, j)
  PROVE  Explained(p, i)'
<1>1. inv[p].phase = "discard" /\ inv[p].busy = {} /\ j \in inv[p].queue
  BY DEF DiscardReceipt, Held, Sound
<1>2. /\ inv'[p].phase = "unlink" /\ inv'[p].busy = {j}
      /\ inv'[p].queue = inv[p].queue \ {j} /\ inv'[p].pending = inv[p].pending
  BY <1>1 DEF Held, Memory, DiscardReceipt, Becomes
<1>3. UNCHANGED <<records, reached, tasks>> /\ receipts \ {j} \subseteq receipts'
  BY DEF DiscardReceipt
<1>4. /\ reached[i] \in Nat /\ faults \in Nat
      /\ faults' = faults \/ faults' = faults + 1
  BY BoundsAreNumbers DEF Held, World, DiscardReceipt, Fault
<1> QED
  BY <1>1, <1>2, <1>3, <1>4 DEF Explained, Past

\* The second half ends the hearing of a run's item with its record; a task's
\* item is past by then.
LEMMA RemoveExplained ==
  ASSUME Held, NEW p \in Invocations, NEW i \in Items, Explained(p, i),
         NEW j \in Items, RemoveRecord(p, j)
  PROVE  Explained(p, i)'
<1>1. /\ inv[p].phase = "unlink" /\ inv[p].busy = {j} /\ j \notin inv[p].queue
  BY DEF RemoveRecord, Held, Sound
<1>2. /\ inv'[p].phase = "discard" /\ inv'[p].busy = {}
      /\ inv'[p].queue = inv[p].queue /\ inv'[p].pending = inv[p].pending
  BY DEF Held, Memory, RemoveRecord, Becomes
<1>3. UNCHANGED <<receipts, tasks>> /\ records \ {j} \subseteq records'
  BY DEF RemoveRecord
<1>4. /\ reached[i] \in Nat /\ faults \in Nat
      /\ faults' = faults \/ faults' = faults + 1
  BY BoundsAreNumbers DEF Held, World, RemoveRecord, Fault
<1>5. reached'[i] \in {0, reached[i]}
  BY DEF Held, World, RemoveRecord
<1>6. CASE i # j
  BY <1>1, <1>2, <1>3, <1>4, <1>5, <1>6 DEF Explained, Past
<1>7. CASE i = j
  <2>1. i \in records /\ (i \in TaskItems => Past(i))
    BY <1>1, <1>7 DEF Explained
  <2>2. reached'[i] = 0 \/ faults' = faults + 1 \/ Past(i)
    <3>1. CASE i \in TaskItems
      BY <2>1, <3>1
    <3>2. CASE i \in RunItems
      BY <1>7, <2>1, <3>2 DEF Held, World, RemoveRecord, Fault
    <3> QED
      BY <3>1, <3>2 DEF Items
  <2> QED
    BY <1>1, <1>2, <1>3, <1>4, <1>5, <1>7, <2>2 DEF Explained, Past
<1> QED
  BY <1>6, <1>7

LEMMA SendExplained ==
  ASSUME Held, NEW p \in Invocations, NEW i \in Items, Explained(p, i),
         NEW j \in Items, Send(p, j)
  PROVE  Explained(p, i)'
<1>1. inv[p].phase = "push" /\ inv[p].busy = {} /\ j \in inv[p].queue
  BY DEF Send, Held, Sound
<1>2. UNCHANGED <<records, receipts, tasks>>
  BY DEF Send
<1>3. /\ reached[i] \in Nat /\ faults \in Nat
      /\ faults' = faults \/ faults' = faults + 1
  BY BoundsAreNumbers DEF Held, World, Send, Fault
<1>4. /\ inv'[p].queue = inv[p].queue \ {j}
      /\ \/ inv'[p].phase = "mark" /\ inv'[p].busy = {j}
         \/ inv'[p].phase = "push" /\ inv'[p].busy = {} /\ faults' = faults + 1
  <2>1. CASE Becomes(p, [inv[p] EXCEPT !.phase = "mark", !.queue = @ \ {j},
                                       !.busy = {j}])
    BY ZenonT(60), <2>1 DEF Held, Memory, Becomes
  <2>2. CASE Becomes(p, [inv[p] EXCEPT !.queue = @ \ {j}]) /\ Fault
    BY ZenonT(60), <1>1, <2>2 DEF Held, Memory, Becomes, Fault
  <2> QED
    BY <2>1, <2>2 DEF Send
<1>5. \/ reached'[i] = reached[i]
      \/ i = j /\ reached'[i] = reached[i] + 1
  BY DEF Held, World, Send, Took
<1> QED
  BY <1>1, <1>2, <1>3, <1>4, <1>5 DEF Explained, Past

LEMMA MarkExplained ==
  ASSUME Held, NEW p \in Invocations, NEW i \in Items, Explained(p, i),
         NEW j \in Items, MarkDelivered(p, j)
  PROVE  Explained(p, i)'
<1>1. inv[p].phase = "mark" /\ inv[p].busy = {j}
  BY DEF MarkDelivered, Held, Sound
<1>2. /\ inv'[p].phase = "push" /\ inv'[p].busy = {}
      /\ inv'[p].queue = inv[p].queue
  BY DEF Held, Memory, MarkDelivered, Becomes
<1>3. UNCHANGED <<records, reached, tasks>> /\ receipts \subseteq receipts'
  BY DEF MarkDelivered
<1>4. /\ reached[i] \in Nat /\ faults \in Nat
      /\ \/ faults' = faults /\ j \in receipts'
         \/ faults' = faults + 1
  BY BoundsAreNumbers DEF Held, World, MarkDelivered, Fault
<1> QED
  BY <1>1, <1>2, <1>3, <1>4 DEF Explained, Past

\* The sole driver's own step, whichever it is.
LEMMA DriverExplained ==
  ASSUME Held, Known, NEW p \in Invocations, Settle(p) \/ Crash(p),
         NEW i \in Items, Explained(p, i)
  PROVE  Explained(p, i)'
BY RestExplained, ScanExplained, StartExplained, WriteExplained, ListExplained,
   DiscardExplained, RemoveExplained, SendExplained, MarkExplained DEF Settle

\* Another's step leaves the item, and may only add to the faults.
LEMMA OtherExplained ==
  ASSUME Held, NEW p \in Invocations, NEW q \in Invocations \ {p},
         Settle(q) \/ Crash(q), NEW i \in Items, Alone(p, i), Explained(p, i)
  PROVE  Explained(p, i)'
<1>1. i.repo \notin Enlisted[q]
  BY DEF Alone, Owners
<1>2. /\ reached'[i] = reached[i]
      /\ i \in records' <=> i \in records
      /\ i \in receipts' <=> i \in receipts
  BY <1>1, OthersLeave
<1>3. /\ faults \in Nat /\ faults' \in Nat /\ faults' >= faults
      /\ tasks' = tasks /\ inv'[p] = inv[p]
  BY StepFaults
<1>4. reached[i] \in Nat
  BY DEF Held, World
<1> QED
  BY <1>2, <1>3, <1>4 DEF Explained, Past

LEMMA TasksExplained ==
  ASSUME Held, NEW p \in Invocations, NEW i \in Items, Explained(p, i),
         NEW r \in Repos, SpendReset(r) \/ \E s \in TaskStates : EnterState(r, s)
  PROVE  Explained(p, i)'
<1>1. UNCHANGED <<records, receipts, reached, orphans, inv, faults>>
  BY DEF SpendReset, EnterState
<1>2. Past(i) => Past(i)'
  <2>1. tasks \in [Repos -> [state : TaskStates, since : Nat]] /\ i.repo \in Repos
    BY ItemKinds DEF Held, World
  <2>2. tasks'[i.repo].since \in {tasks[i.repo].since, tasks[i.repo].since + 1}
    BY <2>1 DEF SpendReset, EnterState
  <2>3. i \in TaskItems => i.since \in Nat
    BY BoundsAreNumbers DEF TaskItems, TaskItem
  <2> QED
    BY <2>1, <2>2, <2>3 DEF Past
<1> QED
  BY <1>1, <1>2 DEF Explained

LEMMA StepHeard == HeardInv /\ [Next]_vars => HeardInv'
<1> SUFFICES ASSUME HeardInv, [Next]_vars PROVE HeardInv'
  OBVIOUS
<1>1. Held' /\ Known'
  BY StepHeld, StepKnown DEF HeardInv
<1>2. ASSUME NEW i \in Items, Owners(i) = {} PROVE reached'[i] = 0
  <2>1. reached[i] = 0
    BY <1>2 DEF HeardInv
  <2>2. ASSUME NEW q \in Invocations, Settle(q) \/ Crash(q) PROVE reached'[i] = 0
    BY <1>2, <2>1, <2>2, OthersLeave DEF HeardInv, Owners
  <2>3. CASE \/ UNCHANGED vars
             \/ \E r \in Repos : SpendReset(r) \/ \E s \in TaskStates : EnterState(r, s)
    BY <2>1, <2>3 DEF vars, SpendReset, EnterState
  <2> QED
    BY <2>2, <2>3 DEF Next
<1>3. ASSUME NEW i \in Items, NEW p \in Invocations, Alone(p, i)
      PROVE  Explained(p, i)'
  <2>1. Explained(p, i) /\ Held /\ Known
    BY <1>3 DEF HeardInv
  <2>2. ASSUME NEW q \in Invocations, Settle(q) \/ Crash(q) PROVE Explained(p, i)'
    <3>1. CASE q = p
      BY <2>1, <2>2, <3>1, DriverExplained
    <3>2. CASE q # p
      BY <1>3, <2>1, <2>2, <3>2, OtherExplained
    <3> QED
      BY <3>1, <3>2
  <2>3. CASE UNCHANGED vars
    BY <2>1, <2>3 DEF Explained, Past, vars
  <2> QED
    BY <2>1, <2>2, <2>3, TasksExplained DEF Next
<1> QED
  BY <1>1, <1>2, <1>3 DEF HeardInv, Alone, Owners

\* At most one driver means none, or one alone.
LEMMA OneOrNone ==
  ASSUME NEW i \in Items, Cardinality(Owners(i)) <= 1
  PROVE  Owners(i) = {} \/ \E p \in Invocations : Alone(p, i)
<1>1. IsFiniteSet(Owners(i))
  BY InvocationsAreFinite, FS_Subset DEF Owners
<1>2. ASSUME NEW p \in Owners(i), NEW q \in Owners(i) PROVE p = q
  <2>1. {p, q} \subseteq Owners(i)
    OBVIOUS
  <2>2. Cardinality({p, q}) <= Cardinality(Owners(i)) /\ Cardinality({p, q}) \in Nat
    BY <1>1, <2>1, FS_Subset, FS_CardinalityType
  <2>3. p # q => Cardinality({p, q}) = 2
    <3>1. Cardinality({p}) = 1 /\ IsFiniteSet({p})
      BY FS_Singleton
    <3>2. {p, q} = {p} \cup {q}
      OBVIOUS
    <3> QED
      BY <3>1, <3>2, FS_AddElement
  <2>4. Cardinality(Owners(i)) \in Nat
    BY <1>1, FS_CardinalityType
  <2> QED
    BY <2>2, <2>3, <2>4
<1>3. Owners(i) \subseteq Invocations
  BY DEF Owners
<1>4. ASSUME NEW p \in Owners(i) PROVE Alone(p, i)
  BY <1>2 DEF Alone
<1> QED
  BY <1>3, <1>4

\* The operator hears of an item once, and once more for each fault at most,
\* wherever one invocation drives its repository: crashes between a send and
\* its mark, late answers, unreadable directories and receipts that cannot be
\* removed included.
THEOREM OutboxAnnouncesOnce == Spec => []HeardOnce
<1>1. Init => HeardInv
  <2> SUFFICES ASSUME Init PROVE HeardInv
    OBVIOUS
  <2>1. Known
    BY DEF Init, Known, Resting
  <2>2. \A i \in Items : reached[i] = 0
    BY DEF Init
  <2>3. ASSUME NEW i \in Items, NEW p \in Invocations PROVE Explained(p, i)
    BY <2>2 DEF Init, Explained, Resting
  <2> QED
    BY <2>1, <2>2, <2>3, InitHeld DEF HeardInv
<1>2. HeardInv => HeardOnce
  <2> SUFFICES ASSUME HeardInv, NEW i \in Items, Cardinality(Owners(i)) <= 1
               PROVE  reached[i] <= 1 + faults
    BY DEF HeardOnce
  <2>1. faults \in Nat
    BY BoundsAreNumbers DEF HeardInv, Held, World
  <2> QED
    BY <2>1, OneOrNone DEF HeardInv, Explained
<1> QED
  BY <1>1, <1>2, StepHeard, PTL DEF Spec

=============================================================================
