------------------------ MODULE LaunchLedger_proofs -------------------------
(***************************************************************************)
(* What is proved of the launch ledger for every set of launches, every       *)
(* number of leases and every limit (module LaunchLedger): the type            *)
(* invariant, that a launch without a record is beside a file that licenses     *)
(* nothing, and that a recovery never removes a lease over a running process.   *)
(*                                                                         *)
(* The second part is about the command whose launch such a record names       *)
(* (module OwnedCommand): a record that was closed is of a launch that is over. *)
(***************************************************************************)
EXTENDS LaunchLedger, OwnedCommand, SequenceTheorems, TLAPS

LEMMA NoEntries == <<>> \in Seq(EntryType)
  BY EmptySeq

LEMMA NoEpoch == 0 \in 0..MaxEpochs
  BY LedgerAssumption

LEMMA UnlinkType ==
  ASSUME Unlink
  PROVE  /\ book' \in 0..MaxEpochs /\ complete' \in BOOLEAN
         /\ entries' \in Seq(EntryType) /\ open' \in SUBSET OpenType /\ next' \in Nat \ {0}
<1>1. entries' \in Seq(EntryType)
  BY NoEntries DEF Unlink
<1>2. open' \in SUBSET OpenType
  BY DEF Unlink
<1>3. book' \in 0..MaxEpochs /\ complete' \in BOOLEAN
  BY NoEpoch DEF Unlink
<1>4. next' \in Nat \ {0}
  BY DEF Unlink
<1> QED BY <1>1, <1>2, <1>3, <1>4

\* Rewriting one generation keeps the history a sequence of entries.
LEMMA MarkedEntriesType ==
  ASSUME TypeOK, NEW l \in Launch, NEW from, NEW to \in EntryType
  PROVE  MarkedEntries(l, from, to) \in Seq(EntryType)
<1>1. entries \in Seq(EntryType) /\ Len(entries) \in Nat
  BY LenProperties DEF TypeOK, EntryType
<1>2. MarkedEntries(l, from, to) \in [1..Len(entries) -> EntryType]
  BY <1>1, ElementOfSeq DEF MarkedEntries
<1> QED BY <1>1, <1>2, SeqDef

LEMMA MarkedOpenType ==
  ASSUME TypeOK, NEW l \in Launch
  PROVE  MarkedOpen(l) \in SUBSET OpenType
  BY DEF TypeOK, MarkedOpen, SlotIn, OpenType

LEMMA SettleType ==
  ASSUME TypeOK, NEW l \in Launch, SettleSlot(l)
  PROVE  /\ book' \in 0..MaxEpochs /\ complete' \in BOOLEAN
         /\ entries' \in Seq(EntryType) /\ open' \in SUBSET OpenType /\ next' \in Nat \ {0}
  BY DEF TypeOK, SettleSlot, SlotIn, Publish, KeepFile, file, OpenType

LEMMA AfterType ==
  ASSUME TypeOK, NEW l \in Launch, NEW last \in Calls
  PROVE  After(l, last) \in [Launch -> Calls]
  BY DEF TypeOK, After, Calls

LEMMA TypeInductive ==
  ASSUME TypeOK, [Next]_vars
  PROVE  TypeOK'
<1> USE DEF file, named
<1>1. CASE Acquire
  <2>1. epoch' \in 0..MaxEpochs /\ lease' \in 0..MaxEpochs
    BY <1>1, LedgerAssumption DEF Acquire, TypeOK
  <2>2. entries' \in Seq(EntryType)
    BY <1>1, NoEntries DEF Acquire, KeepFile, TypeOK
  <2>3. /\ book' \in 0..MaxEpochs /\ complete' \in BOOLEAN
        /\ open' \in SUBSET OpenType /\ next' \in Nat \ {0}
    <3>1. \/ book' = epoch' /\ complete' = TRUE /\ open' = {} /\ next' = 1
          \/ UNCHANGED <<book, complete, open, next>>
      BY <1>1 DEF Acquire, KeepFile
    <3>2. /\ book \in 0..MaxEpochs /\ complete \in BOOLEAN
          /\ open \in SUBSET OpenType /\ next \in Nat \ {0}
      BY DEF TypeOK
    <3>3. CASE book' = epoch' /\ complete' = TRUE /\ open' = {} /\ next' = 1
      BY <2>1, <3>3
    <3>4. CASE UNCHANGED <<book, complete, open, next>>
      BY <3>2, <3>4
    <3> QED BY <3>1, <3>3, <3>4
  <2> QED BY <1>1, <2>1, <2>2, <2>3 DEF Acquire, TypeOK
<1>2. CASE Release
  BY <1>2, NoEpoch DEF Release, TypeOK
<1>3. CASE Crash
  BY <1>3 DEF Crash, TypeOK, Calls
<1>4. ASSUME NEW l \in Launch, OpenGeneration(l) PROVE TypeOK'
  <2>1. PICK got \in Reads(epoch) :
          LET prior == IF got THEN entries ELSE <<>>
          IN \/ /\ Publish(StaysComplete(got), Append(prior, PendingEntry),
                           IF got THEN open ELSE {}, IF got THEN next ELSE 1)
                /\ gen' = [gen EXCEPT ![l] = Len(prior) + 1]
                /\ call' = [call EXCEPT ![l] = "opened"]
             \/ Unlink /\ call' = [call EXCEPT ![l] = "opened"] /\ UNCHANGED gen
             \/ KeepFile /\ call' = [call EXCEPT ![l] = "over"] /\ UNCHANGED gen
    BY <1>4 DEF OpenGeneration
  <2>2. got \in BOOLEAN
    BY LedgerAssumption DEF Reads, Extendable
  <2>3. (IF got THEN entries ELSE <<>>) \in Seq(EntryType)
    BY NoEntries DEF TypeOK
  <2>4. PendingEntry \in EntryType
    BY DEF PendingEntry, EntryType
  <2>5. /\ Append(IF got THEN entries ELSE <<>>, PendingEntry) \in Seq(EntryType)
        /\ Len(IF got THEN entries ELSE <<>>) \in Nat
    BY <2>3, <2>4, AppendProperties, LenProperties
  <2>6. /\ book' \in 0..MaxEpochs /\ complete' \in BOOLEAN
        /\ entries' \in Seq(EntryType) /\ open' \in SUBSET OpenType /\ next' \in Nat \ {0}
        /\ call' \in [Launch -> Calls] /\ gen' \in [Launch -> Nat]
    <3>1. CASE Unlink /\ call' = [call EXCEPT ![l] = "opened"] /\ UNCHANGED gen
      BY <3>1, UnlinkType DEF TypeOK, Calls
    <3>2. CASE KeepFile /\ call' = [call EXCEPT ![l] = "over"] /\ UNCHANGED gen
      BY <3>2 DEF KeepFile, TypeOK, Calls
    <3> DEFINE prior == IF got THEN entries ELSE <<>>
    <3>3. CASE /\ Publish(StaysComplete(got), Append(prior, PendingEntry),
                          IF got THEN open ELSE {}, IF got THEN next ELSE 1)
               /\ gen' = [gen EXCEPT ![l] = Len(prior) + 1]
               /\ call' = [call EXCEPT ![l] = "opened"]
      <4> HIDE DEF prior
      <4>1. Append(prior, PendingEntry) \in Seq(EntryType) /\ Len(prior) \in Nat
        BY <2>5 DEF prior
      <4> QED BY <2>2, <3>3, <4>1 DEF Publish, StaysComplete, TypeOK, Calls
    <3> QED BY <2>1, <3>1, <3>2, <3>3
  <2> QED BY <1>4, <2>6 DEF OpenGeneration, TypeOK
<1>5. ASSUME NEW l \in Launch, Announce(l) PROVE TypeOK'
  BY <1>5 DEF Announce, Starting, Proceed, Publish, TypeOK, Calls, OpenType
<1>6. ASSUME NEW l \in Launch, AnnounceDiscards(l) PROVE TypeOK'
  BY <1>6, UnlinkType DEF AnnounceDiscards, Starting, Proceed, TypeOK, Calls
<1>7. ASSUME NEW l \in Launch, Unaccounted(l) PROVE TypeOK'
  BY <1>7 DEF Unaccounted, Starting, Proceed, TypeOK, Calls
<1>8. ASSUME NEW l \in Launch, AnnounceRefused(l) PROVE TypeOK'
  BY <1>8, AfterType DEF AnnounceRefused, Starting, TypeOK, Calls
<1>9. ASSUME NEW l \in Launch, Spawn(l) PROVE TypeOK'
  BY <1>9 DEF Spawn, TypeOK, Calls, Trees
<1>10. ASSUME NEW l \in Launch, SeeEstablished(l) PROVE TypeOK'
  <2>1. MarkedEntries(l, {"PENDING"}, [state |-> "ESTABLISHED", by |-> l]) \in Seq(EntryType)
    BY MarkedEntriesType DEF EntryType
  <2>2. MarkedOpen(l) \in SUBSET OpenType
    BY MarkedOpenType
  <2>3. /\ book' \in 0..MaxEpochs /\ complete' \in BOOLEAN
        /\ entries' \in Seq(EntryType) /\ open' \in SUBSET OpenType /\ next' \in Nat \ {0}
    BY <1>10, <2>1, <2>2 DEF SeeEstablished, Publish, KeepFile, TypeOK
  <2> QED BY <1>10, <2>3 DEF SeeEstablished, TypeOK, Calls
<1>11. ASSUME NEW l \in Launch, NothingRan(l) PROVE TypeOK'
  BY <1>11, SettleType, AfterType DEF NothingRan, TypeOK, Calls
<1>12. ASSUME NEW l \in Launch, EndProved(l) PROVE TypeOK'
  BY <1>12, SettleType, AfterType DEF EndProved, TypeOK, Calls, Trees
<1>13. ASSUME NEW l \in Launch, EndUnproved(l) PROVE TypeOK'
  BY <1>13, AfterType DEF EndUnproved, LeaveSlot, KeepFile, TypeOK, Calls
<1>14. ASSUME NEW l \in Launch, EstablishTimeout(l) PROVE TypeOK'
  BY <1>14, AfterType DEF EstablishTimeout, LeaveSlot, KeepFile, Killed, TypeOK, Calls, Trees
<1>15. ASSUME NEW l \in Launch, Confirm(l) PROVE TypeOK'
  <2>1. MarkedEntries(l, {"PENDING", "ESTABLISHED"}, [state |-> "CONTAINED", by |-> l])
          \in Seq(EntryType)
    BY MarkedEntriesType DEF EntryType
  <2> QED BY <1>15, <2>1 DEF Confirm, Publish, KeepFile, TypeOK, Calls
<1>16. ASSUME NEW l \in Launch, Withdraw(l) PROVE TypeOK'
  <2>1. MarkedEntries(l, {"ESTABLISHED"}, PendingEntry) \in Seq(EntryType)
    BY MarkedEntriesType DEF PendingEntry, EntryType
  <2> QED BY <1>16, <2>1, UnlinkType DEF Withdraw, Publish, KeepFile, TypeOK, Calls
<1>17. ASSUME NEW l \in Launch, Processes(l) PROVE TypeOK'
  BY <1>17 DEF Processes, TargetStarts, ChildExits, TreeEnds, HelperDies, OwnerWatch, Becomes,
               Killed, TypeOK, Trees
<1>18. CASE Recovery
  BY <1>18, LedgerAssumption DEF Recovery, AssessLease, AssessSafe, AssessUnsafe, Recover, TypeOK
<1>19. CASE UNCHANGED vars
  BY <1>19 DEF vars, TypeOK
<1> QED
  BY <1>1, <1>2, <1>3, <1>4, <1>5, <1>6, <1>7, <1>8, <1>9, <1>10, <1>11, <1>12, <1>13,
     <1>14, <1>15, <1>16, <1>17, <1>18, <1>19 DEF Next, Owner

LEMMA InitType ==
  ASSUME Init
  PROVE  TypeOK
<1>1. entries \in Seq(EntryType)
  BY NoEntries DEF Init
<1>2. epoch \in 0..MaxEpochs /\ lease \in 0..MaxEpochs /\ book \in 0..MaxEpochs
  BY NoEpoch DEF Init
<1>3. running = FALSE /\ boundary \in BOOLEAN /\ accounted = FALSE /\ complete = FALSE
  BY Zenon DEF Init
<1>4. open = {} /\ next = 1
  BY Zenon DEF Init
<1>5. open \in SUBSET OpenType /\ next \in Nat \ {0}
  BY <1>4
<1>6. /\ call \in [Launch -> Calls] /\ tree \in [Launch -> Trees]
      /\ of \in [Launch -> 0..MaxEpochs]
      /\ gen \in [Launch -> Nat] /\ slot \in [Launch -> Nat]
      /\ rec \in [at : {"idle", "leased", "safe"}, epoch : 0..MaxEpochs]
  BY NoEpoch DEF Init, Calls, Trees
<1> QED BY <1>1, <1>2, <1>3, <1>5, <1>6 DEF TypeOK

(***************************************************************************)
(* Every variable keeps its type (module LaunchLedger, TypeOK).               *)
(***************************************************************************)
THEOREM LedgerTypeCorrect == Spec => []TypeOK
<1>1. Init => TypeOK
  BY InitType
<1>2. TypeOK /\ [Next]_vars => TypeOK'
  BY TypeInductive
<1> QED BY <1>1, <1>2, PTL DEF Spec

-----------------------------------------------------------------------------
(***************************************************************************)
(* The inductive invariant.  A launch keeps a record of its own for as long    *)
(* as it may run, unless the file that would hold it has stopped being           *)
(* complete, and nothing makes a file complete again within its epoch.         *)
(***************************************************************************)
CallOrder ==
  /\ lease <= epoch
  /\ running => epoch # 0
  /\ \A l \in Launch :
       /\ of[l] <= epoch
       /\ call[l] = "idle" => of[l] = 0
       /\ of[l] = 0 => call[l] = "idle" /\ tree[l] = "none"
       /\ call[l] \in {"idle", "opened"} => slot[l] = 0
       /\ call[l] \in {"idle", "opened", "announced"} => tree[l] = "none"

Full(e) == e # 0 /\ book = e /\ complete

OneSlotEach ==
  /\ \A o \in open : 0 < o.slot /\ o.slot < next
  /\ \A l \in Launch : Full(of[l]) => slot[l] < next
  /\ \A l, k \in Launch :
       Full(of[l]) /\ of[l] = of[k] /\ slot[l] = slot[k] /\ slot[l] # 0 => l = k

EvictedIsNotFull == running /\ ~accounted => ~Full(epoch)

MayRun(l) == tree[l] \in AliveTrees \/ (Mine(l) /\ call[l] = "announced")

RecordOf(o, l) == o.slot = slot[l] /\ (o.state = "ANNOUNCED" \/ o.by = l)

MayRunIsRecorded ==
  \A l \in Launch : Full(of[l]) /\ MayRun(l) => \E o \in open : RecordOf(o, l)

UnslottedIsNotFull ==
  \A l \in Launch :
    slot[l] = 0 /\ (tree[l] # "none" \/ (Mine(l) /\ call[l] = "announced")) => ~Full(of[l])

RecoveryIsBehind ==
  /\ rec.at # "idle" =>
       rec.epoch # 0 /\ rec.epoch <= epoch /\ (rec.epoch = epoch => ~running)
  /\ SafeMeansQuiet

LedgerInv ==
  /\ TypeOK /\ CallOrder /\ OneSlotEach /\ EvictedIsNotFull
  /\ MayRunIsRecorded /\ UnslottedIsNotFull /\ RecoveryIsBehind

\* What each way of writing the file does to the parts the argument speaks of.
LEMMA UnlinkEffect ==
  ASSUME Unlink
  PROVE  book' = 0 /\ open' = {}
  BY Zenon DEF Unlink

LEMMA AcquireEffect ==
  ASSUME Acquire
  PROVE  /\ ~running /\ epoch' = epoch + 1 /\ lease' = epoch + 1 /\ running' /\ accounted'
         /\ \/ book' = epoch + 1 /\ open' = {}
            \/ UNCHANGED <<book, complete, open, next>>
         /\ UNCHANGED <<call, of, slot, tree, rec>>
<1>1. \/ book' = epoch + 1 /\ open' = {}
      \/ UNCHANGED <<book, complete, open, next>>
  BY Zenon DEF Acquire, KeepFile, file
<1> QED BY <1>1 DEF Acquire

LEMMA OpenGenerationEffect ==
  ASSUME TypeOK, NEW l \in Launch, OpenGeneration(l)
  PROVE  /\ call[l] = "idle" /\ running
         /\ \/ book' = epoch /\ complete' /\ book = epoch /\ complete /\ UNCHANGED <<open, next>>
            \/ book' = epoch /\ ~complete' /\ UNCHANGED <<open, next>>
            \/ book' = epoch /\ ~complete' /\ open' = {} /\ next' = 1
            \/ book' = 0 /\ open' = {}
            \/ UNCHANGED <<book, complete, open, next>>
         /\ call' \in {[call EXCEPT ![l] = "opened"], [call EXCEPT ![l] = "over"]}
         /\ of' = [of EXCEPT ![l] = epoch]
         /\ UNCHANGED <<epoch, lease, running, accounted, slot, tree, rec>>
<1>1. PICK got \in Reads(epoch) :
        LET prior == IF got THEN entries ELSE <<>>
        IN \/ /\ Publish(StaysComplete(got), Append(prior, PendingEntry),
                         IF got THEN open ELSE {}, IF got THEN next ELSE 1)
              /\ call' = [call EXCEPT ![l] = "opened"]
           \/ Unlink /\ call' = [call EXCEPT ![l] = "opened"]
           \/ KeepFile /\ call' = [call EXCEPT ![l] = "over"]
  BY DEF OpenGeneration
<1>2. got \in BOOLEAN /\ (got => book = epoch)
  BY LedgerAssumption DEF Reads, Extendable
<1> DEFINE es == Append(IF got THEN entries ELSE <<>>, PendingEntry)
<1>3. \/ /\ Publish(StaysComplete(got), es, IF got THEN open ELSE {}, IF got THEN next ELSE 1)
         /\ call' = [call EXCEPT ![l] = "opened"]
      \/ Unlink /\ call' = [call EXCEPT ![l] = "opened"]
      \/ KeepFile /\ call' = [call EXCEPT ![l] = "over"]
  BY <1>1
<1> HIDE DEF es
<1>4. \/ book' = epoch /\ complete' /\ book = epoch /\ complete /\ UNCHANGED <<open, next>>
      \/ book' = epoch /\ ~complete' /\ UNCHANGED <<open, next>>
      \/ book' = epoch /\ ~complete' /\ open' = {} /\ next' = 1
      \/ book' = 0 /\ open' = {}
      \/ UNCHANGED <<book, complete, open, next>>
  <2>1. CASE Publish(StaysComplete(got), es, IF got THEN open ELSE {}, IF got THEN next ELSE 1)
    BY <1>2, <2>1 DEF Publish, StaysComplete, TypeOK
  <2>2. CASE Unlink
    BY <2>2, UnlinkEffect
  <2>3. CASE KeepFile
    BY <2>3 DEF KeepFile, file
  <2> QED BY <1>3, <2>1, <2>2, <2>3
<1>5. call' \in {[call EXCEPT ![l] = "opened"], [call EXCEPT ![l] = "over"]}
  BY <1>3
<1> QED BY <1>4, <1>5 DEF OpenGeneration, named

\* Nothing but the launch's own slot leaves the register while the file stays full.
LEMMA SettleEffect ==
  ASSUME TypeOK, NEW l \in Launch, SettleSlot(l)
  PROVE  /\ UNCHANGED <<book, complete, next>>
         /\ open' = open \/ book = epoch
         /\ open' \subseteq open
         /\ \A o \in open : o \notin open' => o.slot = slot[l]
  BY DEF TypeOK, SettleSlot, SlotIn, Publish, KeepFile, file, MayRewrite, Extendable

LEMMA SeeEstablishedEffect ==
  ASSUME TypeOK, NEW l \in Launch, SeeEstablished(l)
  PROVE  /\ UNCHANGED <<book, complete, next>>
         /\ open' = open \/ (open' = MarkedOpen(l) /\ book = epoch)
  BY DEF TypeOK, SeeEstablished, Publish, KeepFile, file, MayRewrite, Extendable

LEMMA ConfirmEffect ==
  ASSUME TypeOK, NEW l \in Launch, Confirm(l)
  PROVE  UNCHANGED <<book, complete, open, next>>
  BY DEF TypeOK, Confirm, Publish, KeepFile, file, MayRewrite, Extendable

LEMMA WithdrawEffect ==
  ASSUME TypeOK, NEW l \in Launch, Withdraw(l)
  PROVE  \/ UNCHANGED <<book, complete, open, next>>
         \/ book' = 0 /\ open' = {}
<1> DEFINE es == MarkedEntries(l, {"ESTABLISHED"}, PendingEntry)
<1>1. \/ Withdrawable(l) /\ Publish(complete, es, open, next)
      \/ Unlink
      \/ KeepFile
  BY DEF Withdraw
<1> HIDE DEF es
<1>2. CASE Withdrawable(l) /\ Publish(complete, es, open, next)
  BY <1>2 DEF Withdrawable, Extendable, Publish
<1>3. CASE Unlink
  BY <1>3, UnlinkEffect
<1>4. CASE KeepFile
  BY <1>4 DEF KeepFile, file
<1> QED BY <1>1, <1>2, <1>3, <1>4

\* A launch that may have been started only moves towards its end.
Wanes ==
  \A k \in Launch :
    /\ tree'[k] \in AliveTrees => tree[k] \in AliveTrees
    /\ (tree'[k] = "none") <=> (tree[k] = "none")

Later(l) ==
  \/ SeeEstablished(l) \/ NothingRan(l) \/ EndProved(l) \/ EndUnproved(l)
  \/ EstablishTimeout(l) \/ Confirm(l) \/ Withdraw(l)

LEMMA LaterCalls ==
  ASSUME TypeOK, NEW l \in Launch, Later(l)
  PROVE  /\ UNCHANGED <<epoch, lease, running, accounted, of, slot, rec>>
         /\ Mine(l) /\ call[l] \notin {"idle", "opened"} /\ call' \in [Launch -> Calls]
         /\ \A k \in Launch : k # l => call'[k] = call[k]
         /\ call'[l] \notin {"idle", "opened", "announced"}
<1> USE DEF TypeOK, Calls, named, After, Mine
<1>1. CASE SeeEstablished(l)
  BY <1>1 DEF SeeEstablished
<1>2. CASE NothingRan(l)
  BY <1>2 DEF NothingRan
<1>3. CASE EndProved(l)
  BY <1>3 DEF EndProved
<1>4. CASE EndUnproved(l)
  BY <1>4 DEF EndUnproved
<1>5. CASE EstablishTimeout(l)
  BY <1>5 DEF EstablishTimeout
<1>6. CASE Confirm(l)
  <2>1. call' \in {[call EXCEPT ![l] = "over"], [call EXCEPT ![l] = "unproved"]}
    BY <1>6 DEF Confirm
  <2> QED BY <1>6, <2>1 DEF Confirm
<1>7. CASE Withdraw(l)
  <2>1. call' \in {[call EXCEPT ![l] = "over"], [call EXCEPT ![l] = "stuck"]}
    BY <1>7 DEF Withdraw
  <2> QED BY <1>7, <2>1 DEF Withdraw
<1> QED BY <1>1, <1>2, <1>3, <1>4, <1>5, <1>6, <1>7 DEF Later

LEMMA LaterTrees ==
  ASSUME TypeOK, NEW l \in Launch, Later(l)
  PROVE  Wanes
<1> USE DEF TypeOK, Wanes, AliveTrees, Killed, Trees
<1>1. CASE EndProved(l)
  BY <1>1 DEF EndProved
<1>2. CASE EstablishTimeout(l)
  BY <1>2 DEF EstablishTimeout
<1>3. CASE UNCHANGED tree
  BY <1>3
<1> QED BY <1>1, <1>2, <1>3
        DEF Later, SeeEstablished, NothingRan, EndUnproved, Confirm, Withdraw

LEMMA LaterFile ==
  ASSUME TypeOK, CallOrder, NEW l \in Launch, Later(l)
  PROVE  \/ UNCHANGED <<book, complete, open, next>>
         \/ UNCHANGED <<book, complete, next>> /\ open' = MarkedOpen(l) /\ book = epoch
         \/ /\ UNCHANGED <<book, complete, next>> /\ book = epoch
            /\ open' \subseteq open
            /\ \A o \in open : o \notin open' => o.slot = slot[l]
            /\ tree'[l] \notin AliveTrees
         \/ book' = 0 /\ open' = {}
<1>1. CASE SeeEstablished(l)
  BY <1>1, SeeEstablishedEffect
<1>2. CASE NothingRan(l)
  <2>1. tree'[l] \notin AliveTrees
    BY <1>2 DEF NothingRan, CallOrder, AliveTrees
  <2> QED BY <1>2, <2>1, SettleEffect DEF NothingRan
<1>3. CASE EndProved(l)
  <2>1. tree'[l] \notin AliveTrees
    BY <1>3 DEF EndProved, AliveTrees, TypeOK
  <2> QED BY <1>3, <2>1, SettleEffect DEF EndProved
<1>4. CASE EndUnproved(l) \/ EstablishTimeout(l)
  BY <1>4 DEF EndUnproved, EstablishTimeout, LeaveSlot, KeepFile, file
<1>5. CASE Confirm(l)
  BY <1>5, ConfirmEffect
<1>6. CASE Withdraw(l)
  BY <1>6, WithdrawEffect
<1> QED BY <1>1, <1>2, <1>3, <1>4, <1>5, <1>6 DEF Later

LEMMA ProcessEffect ==
  ASSUME TypeOK, NEW l \in Launch, Processes(l)
  PROVE  Wanes /\ UNCHANGED <<named, accounted, file, call, of, gen, slot, rec>>
  BY DEF TypeOK, Processes, TargetStarts, ChildExits, TreeEnds, HelperDies, OwnerWatch,
         Becomes, Killed, Wanes, AliveTrees, Trees

\* The steps of the relation, in the groups the proofs below take them in.
LEMMA NextGroups ==
  ASSUME [Next]_vars
  PROVE  \/ Acquire \/ Release \/ Crash
         \/ \E l \in Launch : OpenGeneration(l) \/ Announce(l) \/ AnnounceDiscards(l)
                                \/ Unaccounted(l) \/ AnnounceRefused(l) \/ Spawn(l)
                                \/ Later(l) \/ Processes(l)
         \/ Recovery
         \/ UNCHANGED vars
  BY DEF Next, Owner, Later

LEMMA AnnounceEffect ==
  ASSUME NEW l \in Launch, Announce(l)
  PROVE  /\ running /\ book = epoch /\ complete
         /\ (call[l] = "opened" /\ of[l] = epoch) \/ call[l] = "idle"
         /\ book' = book /\ complete' = complete
         /\ open' = open \cup {[slot |-> next, state |-> "ANNOUNCED", by |-> NoLaunch]}
         /\ next' = next + 1
         /\ call' = [call EXCEPT ![l] = "announced"]
         /\ of' = [of EXCEPT ![l] = epoch]
         /\ slot' = [slot EXCEPT ![l] = next]
         /\ UNCHANGED <<epoch, lease, running, accounted, tree, rec>>
  BY LedgerAssumption DEF Announce, Starting, Proceed, Publish, Reads, Extendable, named

LEMMA RecoveryEffect ==
  ASSUME TypeOK, Recovery
  PROVE  /\ UNCHANGED <<epoch, running, accounted, book, complete, open, next, call, of, slot, tree>>
         /\ lease' \in {lease, 0}
  BY DEF TypeOK, Recovery, AssessLease, AssessSafe, AssessUnsafe, Recover, named, file

LEMMA ProcessKeeps ==
  ASSUME TypeOK, NEW l \in Launch, Processes(l)
  PROVE  /\ UNCHANGED <<epoch, lease, running, accounted, book, complete, open, next>>
         /\ UNCHANGED <<call, of, slot, rec>>
  BY ProcessEffect DEF named, file

\* What the argument uses of the type invariant.
Types ==
  /\ epoch \in Nat /\ lease \in Nat /\ book \in Nat /\ next \in Nat \ {0}
  /\ running \in BOOLEAN /\ accounted \in BOOLEAN /\ complete \in BOOLEAN
  /\ open \in SUBSET OpenType
  /\ call \in [Launch -> Calls] /\ of \in [Launch -> Nat]
  /\ slot \in [Launch -> Nat] /\ tree \in [Launch -> Trees]

LEMMA TypesHold ==
  ASSUME TypeOK
  PROVE  Types
  BY LedgerAssumption DEF TypeOK, Types

\* A launch that was recorded, and whose record is still there, is recorded.
LEMMA KeepsRecord ==
  ASSUME MayRunIsRecorded, NEW k \in Launch, Full(of[k]), MayRun(k),
         of'[k] = of[k], slot'[k] = slot[k],
         \A o \in open : RecordOf(o, k) => o \in open'
  PROVE  \E o \in open' : RecordOf(o, k)'
<1>1. PICK o \in open : RecordOf(o, k)
  BY DEF MayRunIsRecorded
<1>2. o \in open' /\ RecordOf(o, k)'
  BY <1>1 DEF RecordOf
<1> QED BY <1>2


LEMMA CallOrderStep ==
  ASSUME TypeOK, TypeOK', CallOrder, [Next]_vars
  PROVE  CallOrder'
<1>a. Types /\ Types'
  BY LedgerAssumption DEF TypeOK, Types
<1> USE DEF Types, CallOrder, Calls, Mine
<1>1. CASE Acquire
  BY <1>a, <1>1, AcquireEffect
<1>2. CASE Release
  BY <1>a, <1>2 DEF Release, file, named
<1>3. CASE Crash
  BY <1>a, <1>3 DEF Crash, file, named
<1>4. ASSUME NEW l \in Launch, OpenGeneration(l) PROVE CallOrder'
  BY <1>a, <1>4, OpenGenerationEffect
<1>5. ASSUME NEW l \in Launch, Announce(l) PROVE CallOrder'
  BY <1>a, <1>5, AnnounceEffect
<1>6. ASSUME NEW l \in Launch, AnnounceDiscards(l) PROVE CallOrder'
  BY <1>a, <1>6, UnlinkEffect DEF AnnounceDiscards, Starting, Proceed, named
<1>7. ASSUME NEW l \in Launch, Unaccounted(l) PROVE CallOrder'
  BY <1>a, <1>7 DEF Unaccounted, Starting, Proceed, file, named
<1>8. ASSUME NEW l \in Launch, AnnounceRefused(l) PROVE CallOrder'
  BY <1>a, <1>8 DEF AnnounceRefused, Starting, After, file, named
<1>9. ASSUME NEW l \in Launch, Spawn(l) PROVE CallOrder'
  BY <1>a, <1>9 DEF Spawn, file, named
<1>10. ASSUME NEW l \in Launch, Later(l) PROVE CallOrder'
  BY <1>a, <1>10, LaterCalls, LaterTrees, LaterFile DEF Wanes
<1>11. ASSUME NEW l \in Launch, Processes(l) PROVE CallOrder'
  BY <1>a, <1>11, ProcessEffect, ProcessKeeps DEF Wanes
<1>12. CASE Recovery
  BY <1>a, <1>12, RecoveryEffect
<1>13. CASE UNCHANGED vars
  BY <1>a, <1>13 DEF vars, file, named
<1> QED BY <1>1, <1>2, <1>3, <1>4, <1>5, <1>6, <1>7, <1>8, <1>9,
           <1>10, <1>11, <1>12, <1>13, NextGroups

LEMMA EvictedIsNotFullStep ==
  ASSUME TypeOK, TypeOK', CallOrder, EvictedIsNotFull, [Next]_vars
  PROVE  EvictedIsNotFull'
<1>a. Types /\ Types'
  BY LedgerAssumption DEF TypeOK, Types
<1> USE DEF Types, CallOrder, EvictedIsNotFull, Full
<1>1. CASE Acquire
  BY <1>a, <1>1, AcquireEffect
<1>2. CASE Release
  BY <1>a, <1>2 DEF Release, file, named
<1>3. CASE Crash
  BY <1>a, <1>3 DEF Crash, file, named
<1>4. ASSUME NEW l \in Launch, OpenGeneration(l) PROVE EvictedIsNotFull'
  BY <1>a, <1>4, OpenGenerationEffect
<1>5. ASSUME NEW l \in Launch, Announce(l) PROVE EvictedIsNotFull'
  BY <1>a, <1>5, AnnounceEffect
<1>6. ASSUME NEW l \in Launch, AnnounceDiscards(l) PROVE EvictedIsNotFull'
  BY <1>a, <1>6, UnlinkEffect DEF AnnounceDiscards, Starting, Proceed, named
<1>7. ASSUME NEW l \in Launch, Unaccounted(l) PROVE EvictedIsNotFull'
  BY <1>a, <1>7 DEF Unaccounted, Starting, Proceed, file, named
<1>8. ASSUME NEW l \in Launch, AnnounceRefused(l) PROVE EvictedIsNotFull'
  BY <1>a, <1>8 DEF AnnounceRefused, Starting, After, file, named
<1>9. ASSUME NEW l \in Launch, Spawn(l) PROVE EvictedIsNotFull'
  BY <1>a, <1>9 DEF Spawn, file, named
<1>10. ASSUME NEW l \in Launch, Later(l) PROVE EvictedIsNotFull'
  BY <1>a, <1>10, LaterCalls, LaterTrees, LaterFile DEF Wanes
<1>11. ASSUME NEW l \in Launch, Processes(l) PROVE EvictedIsNotFull'
  BY <1>a, <1>11, ProcessEffect, ProcessKeeps DEF Wanes
<1>12. CASE Recovery
  BY <1>a, <1>12, RecoveryEffect
<1>13. CASE UNCHANGED vars
  BY <1>a, <1>13 DEF vars, file, named
<1> QED BY <1>1, <1>2, <1>3, <1>4, <1>5, <1>6, <1>7, <1>8, <1>9,
           <1>10, <1>11, <1>12, <1>13, NextGroups

LEMMA UnslottedIsNotFullStep ==
  ASSUME TypeOK, TypeOK', CallOrder, EvictedIsNotFull, UnslottedIsNotFull, [Next]_vars
  PROVE  UnslottedIsNotFull'
<1>a. Types /\ Types'
  BY LedgerAssumption DEF TypeOK, Types
<1> USE DEF Types, CallOrder, EvictedIsNotFull, UnslottedIsNotFull, Full, Calls, Mine
<1>1. CASE Acquire
  BY <1>a, <1>1, AcquireEffect
<1>2. CASE Release
  BY <1>a, <1>2 DEF Release, file, named
<1>3. CASE Crash
  BY <1>a, <1>3 DEF Crash, file, named
<1>4. ASSUME NEW l \in Launch, OpenGeneration(l) PROVE UnslottedIsNotFull'
  BY <1>a, <1>4, OpenGenerationEffect
<1>5. ASSUME NEW l \in Launch, Announce(l) PROVE UnslottedIsNotFull'
  BY <1>a, <1>5, AnnounceEffect
<1>6. ASSUME NEW l \in Launch, AnnounceDiscards(l) PROVE UnslottedIsNotFull'
  BY <1>a, <1>6, UnlinkEffect DEF AnnounceDiscards, Starting, Proceed, named
<1>7. ASSUME NEW l \in Launch, Unaccounted(l) PROVE UnslottedIsNotFull'
  BY <1>a, <1>7 DEF Unaccounted, Starting, Proceed, file, named
<1>8. ASSUME NEW l \in Launch, AnnounceRefused(l) PROVE UnslottedIsNotFull'
  BY <1>a, <1>8 DEF AnnounceRefused, Starting, After, file, named
<1>9. ASSUME NEW l \in Launch, Spawn(l) PROVE UnslottedIsNotFull'
  BY <1>a, <1>9 DEF Spawn, file, named
<1>10. ASSUME NEW l \in Launch, Later(l) PROVE UnslottedIsNotFull'
  BY <1>a, <1>10, LaterCalls, LaterTrees, LaterFile DEF Wanes
<1>11. ASSUME NEW l \in Launch, Processes(l) PROVE UnslottedIsNotFull'
  BY <1>a, <1>11, ProcessEffect, ProcessKeeps DEF Wanes
<1>12. CASE Recovery
  BY <1>a, <1>12, RecoveryEffect
<1>13. CASE UNCHANGED vars
  BY <1>a, <1>13 DEF vars, file, named
<1> QED BY <1>1, <1>2, <1>3, <1>4, <1>5, <1>6, <1>7, <1>8, <1>9,
           <1>10, <1>11, <1>12, <1>13, NextGroups

LEMMA OneSlotEachStep ==
  ASSUME TypeOK, TypeOK', CallOrder, OneSlotEach, [Next]_vars
  PROVE  OneSlotEach'
<1>a. Types /\ Types'
  BY LedgerAssumption DEF TypeOK, Types
<1> USE DEF Types, CallOrder, OneSlotEach, Full, MarkedOpen, SlotIn, OpenType
<1>1. CASE Acquire
  BY <1>a, <1>1, AcquireEffect
<1>2. CASE Release
  BY <1>a, <1>2 DEF Release, file, named
<1>3. CASE Crash
  BY <1>a, <1>3 DEF Crash, file, named
<1>4. ASSUME NEW l \in Launch, OpenGeneration(l) PROVE OneSlotEach'
  BY <1>a, <1>4, OpenGenerationEffect
<1>5. ASSUME NEW l \in Launch, Announce(l) PROVE OneSlotEach'
  BY <1>a, <1>5, AnnounceEffect
<1>6. ASSUME NEW l \in Launch, AnnounceDiscards(l) PROVE OneSlotEach'
  BY <1>a, <1>6, UnlinkEffect DEF AnnounceDiscards, Starting, Proceed, named
<1>7. ASSUME NEW l \in Launch, Unaccounted(l) PROVE OneSlotEach'
  BY <1>a, <1>7 DEF Unaccounted, Starting, Proceed, file, named
<1>8. ASSUME NEW l \in Launch, AnnounceRefused(l) PROVE OneSlotEach'
  BY <1>a, <1>8 DEF AnnounceRefused, Starting, After, file, named
<1>9. ASSUME NEW l \in Launch, Spawn(l) PROVE OneSlotEach'
  BY <1>a, <1>9 DEF Spawn, file, named
<1>10. ASSUME NEW l \in Launch, Later(l) PROVE OneSlotEach'
  BY <1>a, <1>10, LaterCalls, LaterTrees, LaterFile DEF Wanes
<1>11. ASSUME NEW l \in Launch, Processes(l) PROVE OneSlotEach'
  BY <1>a, <1>11, ProcessEffect, ProcessKeeps DEF Wanes
<1>12. CASE Recovery
  BY <1>a, <1>12, RecoveryEffect
<1>13. CASE UNCHANGED vars
  BY <1>a, <1>13 DEF vars, file, named
<1> QED BY <1>1, <1>2, <1>3, <1>4, <1>5, <1>6, <1>7, <1>8, <1>9,
           <1>10, <1>11, <1>12, <1>13, NextGroups

LEMMA MayRunIsRecordedStep ==
  ASSUME TypeOK, TypeOK', CallOrder, EvictedIsNotFull, OneSlotEach, MayRunIsRecorded, [Next]_vars
  PROVE  MayRunIsRecorded'
<1>a. Types /\ Types'
  BY LedgerAssumption DEF TypeOK, Types
<1> USE DEF Types
<1>1. CASE Acquire
  <2> SUFFICES ASSUME NEW k \in Launch, Full(of[k])', MayRun(k)'
               PROVE  \E o \in open' : RecordOf(o, k)'
    BY DEF MayRunIsRecorded

  <2>1. UNCHANGED <<book, complete, open, next, of, slot>> /\ Full(of[k])
    <3>1. of[k] <= epoch /\ of'[k] = of[k] /\ book' = of[k] /\ complete' /\ of[k] # 0
      BY <1>1, AcquireEffect DEF Full, CallOrder
    <3>2. of[k] # epoch + 1
      BY <1>a, <3>1
    <3>3. UNCHANGED <<book, complete, open, next, of, slot>>
      BY <1>1, AcquireEffect, <3>1, <3>2
    <3> QED BY <3>1, <3>3 DEF Full
  <2>2. MayRun(k)
    BY <1>a, <1>1, <2>1, AcquireEffect DEF MayRun, Mine, CallOrder
  <2> QED BY <2>1, <2>2, KeepsRecord
<1>2. CASE Release
  <2> SUFFICES ASSUME NEW k \in Launch, Full(of[k])', MayRun(k)'
               PROVE  \E o \in open' : RecordOf(o, k)'
    BY DEF MayRunIsRecorded

  <2> QED BY <1>a, <1>2, KeepsRecord DEF Release, file, named, Full, MayRun, Mine
<1>3. CASE Crash
  <2> SUFFICES ASSUME NEW k \in Launch, Full(of[k])', MayRun(k)'
               PROVE  \E o \in open' : RecordOf(o, k)'
    BY DEF MayRunIsRecorded

  <2> QED BY <1>a, <1>3, KeepsRecord DEF Crash, file, named, Full, MayRun, Mine
<1>4. ASSUME NEW l \in Launch, OpenGeneration(l) PROVE MayRunIsRecorded'
  <2> SUFFICES ASSUME NEW k \in Launch, Full(of[k])', MayRun(k)'
               PROVE  \E o \in open' : RecordOf(o, k)'
    BY DEF MayRunIsRecorded

  <2>1. k # l
    BY <1>a, <1>4, OpenGenerationEffect DEF MayRun, Mine, CallOrder, AliveTrees, Calls
  <2>2. UNCHANGED open /\ Full(of[k]) /\ MayRun(k) /\ of'[k] = of[k] /\ slot'[k] = slot[k]
    BY <1>a, <1>4, <2>1, OpenGenerationEffect DEF Full, MayRun, Mine
  <2> QED BY <2>2, KeepsRecord
<1>5. ASSUME NEW l \in Launch, Announce(l) PROVE MayRunIsRecorded'
  <2> SUFFICES ASSUME NEW k \in Launch, Full(of[k])', MayRun(k)'
               PROVE  \E o \in open' : RecordOf(o, k)'
    BY DEF MayRunIsRecorded

  <2>1. CASE k = l
    <3>1. PICK o \in open' : o = [slot |-> next, state |-> "ANNOUNCED", by |-> NoLaunch]
      BY <1>5, AnnounceEffect
    <3>2. slot'[k] = next
      BY <1>a, <1>5, <2>1, AnnounceEffect
    <3>3. RecordOf(o, k)'
      BY <3>1, <3>2 DEF RecordOf
    <3> QED BY <3>3
  <2>2. CASE k # l
    <3>1. Full(of[k]) /\ MayRun(k) /\ of'[k] = of[k] /\ slot'[k] = slot[k] /\ open \subseteq open'
      BY ZenonT(60), <1>a, <1>5, <2>2, AnnounceEffect DEF Full, MayRun, Mine
    <3> QED BY <3>1, KeepsRecord
  <2> QED BY <2>1, <2>2
<1>6. ASSUME NEW l \in Launch, AnnounceDiscards(l) PROVE MayRunIsRecorded'
  <2> SUFFICES ASSUME NEW k \in Launch, Full(of[k])', MayRun(k)'
               PROVE  \E o \in open' : RecordOf(o, k)'
    BY DEF MayRunIsRecorded

  <2>1. of'[k] # 0
    BY DEF Full
  <2> QED BY <1>6, <2>1, UnlinkEffect DEF AnnounceDiscards, Full
<1>7. ASSUME NEW l \in Launch, Unaccounted(l) PROVE MayRunIsRecorded'
  <2> SUFFICES ASSUME NEW k \in Launch, Full(of[k])', MayRun(k)'
               PROVE  \E o \in open' : RecordOf(o, k)'
    BY DEF MayRunIsRecorded

  <2>1. k # l
    BY <1>a, <1>7 DEF Unaccounted, Starting, file, named, Full, EvictedIsNotFull
  <2> QED BY <1>a, <1>7, <2>1, KeepsRecord
          DEF Unaccounted, Starting, Proceed, file, named, Full, MayRun, Mine
<1>8. ASSUME NEW l \in Launch, AnnounceRefused(l) PROVE MayRunIsRecorded'
  <2> SUFFICES ASSUME NEW k \in Launch, Full(of[k])', MayRun(k)'
               PROVE  \E o \in open' : RecordOf(o, k)'
    BY DEF MayRunIsRecorded

  <2>1. k # l
    BY <1>a, <1>8 DEF AnnounceRefused, Starting, After, file, named, MayRun, Mine, CallOrder, AliveTrees
  <2> QED BY <1>a, <1>8, <2>1, KeepsRecord
          DEF AnnounceRefused, Starting, After, file, named, Full, MayRun, Mine
<1>9. ASSUME NEW l \in Launch, Spawn(l) PROVE MayRunIsRecorded'
  <2> SUFFICES ASSUME NEW k \in Launch, Full(of[k])', MayRun(k)'
               PROVE  \E o \in open' : RecordOf(o, k)'
    BY DEF MayRunIsRecorded

  <2> QED BY <1>a, <1>9, KeepsRecord DEF Spawn, file, named, Full, MayRun, Mine, AliveTrees
<1>10. ASSUME NEW l \in Launch, Later(l) PROVE MayRunIsRecorded'
  <2> SUFFICES ASSUME NEW k \in Launch, Full(of[k])', MayRun(k)'
               PROVE  \E o \in open' : RecordOf(o, k)'
    BY DEF MayRunIsRecorded

  <2>1. Full(of[k]) /\ of'[k] = of[k] /\ slot'[k] = slot[k] /\ book' = book /\ complete' = complete
    BY <1>a, <1>10, LaterCalls, LaterFile DEF Full
  <2>2. MayRun(k)
    BY <1>a, <1>10, LaterCalls, LaterTrees DEF Wanes, MayRun, Mine
  <2>3. CASE UNCHANGED open
    BY <2>1, <2>2, <2>3, KeepsRecord
  <2>4. CASE open' = MarkedOpen(l) /\ book = epoch
    <3>1. PICK o \in open : RecordOf(o, k)
      BY <2>1, <2>2 DEF MayRunIsRecorded
    <3>2. CASE o \in open'
      <4>1. RecordOf(o, k)'
        BY <2>1, <3>1 DEF RecordOf
      <4> QED BY <3>2, <4>1
    <3>3. CASE o \notin open'
      <4> DEFINE m == [slot |-> slot[l], state |-> "ESTABLISHED", by |-> l]
      <4>1. o.slot = slot[l] /\ o \in SlotIn(l, open, {"ANNOUNCED"})
        BY <2>4, <3>3 DEF MarkedOpen, SlotIn
      <4>2. o.slot = slot[k] /\ 0 < o.slot
        BY <3>1 DEF RecordOf, OneSlotEach
      <4>3. of[l] = of[k]
        BY <2>1, <2>4, LaterCalls, <1>10 DEF Full, Mine
      <4>4. k = l
        <5>1. Full(of[l]) /\ of[l] = of[k] /\ slot[l] = slot[k] /\ slot[l] # 0
          BY <1>a, <2>1, <4>1, <4>2, <4>3 DEF OpenType
        <5> QED BY <5>1 DEF OneSlotEach
      <4>5. m \in open' /\ m.slot = slot'[k] /\ m.by = k
        BY <2>1, <2>4, <4>1, <4>4 DEF MarkedOpen
      <4> QED BY <4>5 DEF RecordOf
    <3> QED BY <3>2, <3>3
  <2>5. CASE /\ book = epoch /\ open' \subseteq open
             /\ \A o \in open : o \notin open' => o.slot = slot[l]
             /\ tree'[l] \notin AliveTrees
    <3>1. PICK o \in open : RecordOf(o, k)
      BY <2>1, <2>2 DEF MayRunIsRecorded
    <3>2. k # l
      BY <1>10, <2>5, LaterCalls DEF MayRun, Mine
    <3>3. of[l] = of[k]
      BY <2>1, <2>5, LaterCalls, <1>10 DEF Full, Mine
    <3>4. o.slot = slot[k] /\ 0 < o.slot
      BY <3>1 DEF RecordOf, OneSlotEach
    <3>5. o.slot # slot[l]
      BY <1>a, <2>1, <3>2, <3>3, <3>4 DEF OneSlotEach
    <3>6. o \in open' /\ RecordOf(o, k)'
      BY <2>1, <2>5, <3>1, <3>5 DEF RecordOf
    <3> QED BY <3>6
  <2> QED BY <1>a, <1>10, <2>1, <2>3, <2>4, <2>5, LaterFile DEF Full
<1>11. ASSUME NEW l \in Launch, Processes(l) PROVE MayRunIsRecorded'
  <2> SUFFICES ASSUME NEW k \in Launch, Full(of[k])', MayRun(k)'
               PROVE  \E o \in open' : RecordOf(o, k)'
    BY DEF MayRunIsRecorded

  <2>1. MayRun(k)
    BY <1>a, <1>11, ProcessEffect, ProcessKeeps DEF Wanes, MayRun, Mine
  <2> QED BY <1>a, <1>11, <2>1, ProcessKeeps, KeepsRecord DEF Full
<1>12. CASE Recovery
  <2> SUFFICES ASSUME NEW k \in Launch, Full(of[k])', MayRun(k)'
               PROVE  \E o \in open' : RecordOf(o, k)'
    BY DEF MayRunIsRecorded

  <2> QED BY <1>a, <1>12, RecoveryEffect, KeepsRecord DEF Full, MayRun, Mine
<1>13. CASE UNCHANGED vars
  <2> SUFFICES ASSUME NEW k \in Launch, Full(of[k])', MayRun(k)'
               PROVE  \E o \in open' : RecordOf(o, k)'
    BY DEF MayRunIsRecorded

  <2> QED BY <1>13, KeepsRecord DEF vars, file, named, Full, MayRun, Mine
<1> QED BY <1>1, <1>2, <1>3, <1>4, <1>5, <1>6, <1>7, <1>8, <1>9,
           <1>10, <1>11, <1>12, <1>13, NextGroups

LEMMA RecoveryIsBehindStep ==
  ASSUME TypeOK, TypeOK', CallOrder, MayRunIsRecorded, RecoveryIsBehind, [Next]_vars
  PROVE  RecoveryIsBehind'
<1>a. Types /\ Types'
  BY LedgerAssumption DEF TypeOK, Types
<1> USE DEF Types, CallOrder, RecoveryIsBehind, SafeMeansQuiet, Calls, Mine, AliveTrees
<1>1. CASE Acquire
  <2>1. /\ rec' = rec /\ epoch' = epoch + 1 /\ of' = of /\ tree' = tree
        /\ (rec.at # "idle" => rec.epoch # 0 /\ rec.epoch <= epoch)
        /\ (rec.at = "safe" => \A l \in Launch : of[l] = rec.epoch => tree[l] \notin AliveTrees)
    BY <1>1, AcquireEffect
  <2>2. rec.epoch \in Nat /\ epoch \in Nat
    BY <1>a, LedgerAssumption DEF TypeOK
  <2> QED BY <2>1, <2>2
<1>2. CASE Release
  BY <1>a, <1>2 DEF Release, file, named
<1>3. CASE Crash
  BY <1>a, <1>3 DEF Crash, file, named
<1>4. ASSUME NEW l \in Launch, OpenGeneration(l) PROVE RecoveryIsBehind'
  BY <1>a, <1>4, OpenGenerationEffect
<1>5. ASSUME NEW l \in Launch, Announce(l) PROVE RecoveryIsBehind'
  BY <1>a, <1>5, AnnounceEffect
<1>6. ASSUME NEW l \in Launch, AnnounceDiscards(l) PROVE RecoveryIsBehind'
  BY <1>a, <1>6, UnlinkEffect DEF AnnounceDiscards, Starting, Proceed, named
<1>7. ASSUME NEW l \in Launch, Unaccounted(l) PROVE RecoveryIsBehind'
  BY <1>a, <1>7 DEF Unaccounted, Starting, Proceed, file, named
<1>8. ASSUME NEW l \in Launch, AnnounceRefused(l) PROVE RecoveryIsBehind'
  BY <1>a, <1>8 DEF AnnounceRefused, Starting, After, file, named
<1>9. ASSUME NEW l \in Launch, Spawn(l) PROVE RecoveryIsBehind'
  BY <1>a, <1>9 DEF Spawn, file, named
<1>10. ASSUME NEW l \in Launch, Later(l) PROVE RecoveryIsBehind'
  BY <1>a, <1>10, LaterCalls, LaterTrees, LaterFile DEF Wanes
<1>11. ASSUME NEW l \in Launch, Processes(l) PROVE RecoveryIsBehind'
  BY <1>a, <1>11, ProcessEffect, ProcessKeeps DEF Wanes
<1>12. CASE Recovery
  <2>1. UNCHANGED <<epoch, running, of, tree>>
    BY <1>12, RecoveryEffect
  <2>2. CASE AssessLease
    BY <1>a, <2>1, <2>2 DEF AssessLease
  <2>3. CASE AssessSafe
    <3>1. rec.at = "leased" /\ rec'.at = "safe" /\ rec'.epoch = rec.epoch
      BY <2>3 DEF AssessSafe, TypeOK
    <3>2. Full(rec.epoch) /\ \A o \in open : o.state = "ESTABLISHED"
      <4>1. rec.epoch # 0
        BY <3>1
      <4>2. book = rec.epoch /\ complete
        BY <2>3, <4>1 DEF AssessSafe, Licensing, History
      <4>3. \A o \in open : o.state # "ANNOUNCED"
        BY <2>3, <4>2 DEF AssessSafe, Licensing, Register
      <4> QED BY <1>a, <4>1, <4>2, <4>3 DEF Full, OpenType
    <3>3. ASSUME NEW l \in Launch, of[l] = rec.epoch, tree[l] \in AliveTrees PROVE FALSE
      <4>1. PICK o \in open : RecordOf(o, l)
        BY <3>2, <3>3 DEF MayRunIsRecorded, MayRun
      <4>2. o.by = l
        BY <3>2, <4>1 DEF RecordOf
      <4>3. l \in Named
        BY <4>1, <4>2 DEF Named
      <4> QED BY <2>3, <3>3, <4>3 DEF AssessSafe, Quiet
    <3> QED BY <2>1, <3>1, <3>3
  <2>4. CASE AssessUnsafe
    BY <2>4 DEF AssessUnsafe
  <2>5. CASE Recover
    BY <2>5 DEF Recover
  <2> QED BY <1>12, <2>2, <2>3, <2>4, <2>5 DEF Recovery
<1>13. CASE UNCHANGED vars
  BY <1>a, <1>13 DEF vars, file, named
<1> QED BY <1>1, <1>2, <1>3, <1>4, <1>5, <1>6, <1>7, <1>8, <1>9,
           <1>10, <1>11, <1>12, <1>13, NextGroups


LEMMA InitInv ==
  ASSUME Init
  PROVE  LedgerInv
<1>1. /\ epoch = 0 /\ lease = 0 /\ running = FALSE /\ book = 0 /\ open = {}
      /\ call = [l \in Launch |-> "idle"] /\ of = [l \in Launch |-> 0]
      /\ slot = [l \in Launch |-> 0] /\ tree = [l \in Launch |-> "none"]
      /\ rec = [at |-> "idle", epoch |-> 0]
  BY Zenon DEF Init
<1>2. CallOrder /\ OneSlotEach /\ EvictedIsNotFull
  BY <1>1 DEF CallOrder, OneSlotEach, EvictedIsNotFull, Full
<1>3. MayRunIsRecorded /\ UnslottedIsNotFull /\ RecoveryIsBehind
  BY <1>1 DEF MayRunIsRecorded, UnslottedIsNotFull, RecoveryIsBehind, SafeMeansQuiet, Full
<1> QED BY <1>2, <1>3, InitType DEF LedgerInv

LEMMA InvInductive ==
  ASSUME LedgerInv, [Next]_vars
  PROVE  LedgerInv'
<1>1. TypeOK'
  BY TypeInductive DEF LedgerInv
<1> QED BY <1>1, CallOrderStep, EvictedIsNotFullStep, UnslottedIsNotFullStep, OneSlotEachStep,
           MayRunIsRecordedStep, RecoveryIsBehindStep DEF LedgerInv

(***************************************************************************)
(* The inductive invariant holds of every state a behaviour reaches.         *)
(***************************************************************************)
LEMMA LedgerInvariant == Spec => []LedgerInv
<1>1. Init => LedgerInv
  BY InitInv
<1>2. LedgerInv /\ [Next]_vars => LedgerInv'
  BY InvInductive
<1> QED BY <1>1, <1>2, PTL DEF Spec

(***************************************************************************)
(* For every set of launches and every limit: a recovery that has decided a   *)
(* lease may be removed removes it over nothing that still runs (module        *)
(* LaunchLedger, SafeMeansQuiet).                                           *)
(***************************************************************************)
THEOREM RecoveryRemovesNothingRunning == Spec => []SafeMeansQuiet
<1>1. LedgerInv => SafeMeansQuiet
  BY DEF LedgerInv, RecoveryIsBehind
<1> QED BY <1>1, LedgerInvariant, PTL

(***************************************************************************)
(* For every set of launches and every limit: a launch the register has no    *)
(* slot for is never beside a file that licenses the removal of its lease     *)
(* (module LaunchLedger, UnrecordedIsNeverLicensed).                          *)
(***************************************************************************)
THEOREM UnrecordedLicensesNothing == Spec => []UnrecordedIsNeverLicensed
<1>1. ASSUME LedgerInv PROVE UnrecordedIsNeverLicensed
  <2> SUFFICES ASSUME NEW l \in Launch, Unrecorded(l), Licensing(of[l])
               PROVE  FALSE
    BY DEF UnrecordedIsNeverLicensed
  <2>1. ~Full(of[l])
    BY <1>1 DEF LedgerInv, UnslottedIsNotFull, Unrecorded
  <2>2. of[l] # 0 /\ book = of[l] /\ complete
    BY DEF Unrecorded, Licensing, History
  <2> QED BY <2>1, <2>2 DEF Full
<1>2. LedgerInv => UnrecordedIsNeverLicensed
  BY <1>1
<1> QED BY <1>2, LedgerInvariant, PTL

-----------------------------------------------------------------------------
(***************************************************************************)
(* The owned command.  The invariant follows the evidence from the target to *)
(* the record: what the main thread's place says of the target               *)
(* (TargetFollows), what the lines the helper gathered say of it              *)
(* (NotesTell), what a reader may conclude from the lines that were           *)
(* published (StatusTells) and what the call has concluded (CallFollows).     *)
(***************************************************************************)
Started == {"runs", "exited", "killed"}

\* The place of the main thread and the target.
TargetFollows ==
  /\ lostOwner => owner = "gone" /\ gate = "watcher"
  /\ main # "gone" => exit = "none"
  /\ main \in {"absent", "begins", "armed"} => target = "none"
  /\ main = "assigns" => target = "suspended" /\ gate = "main" /\ mode = "SUSPENDED"
  /\ target = "suspended" => main = "assigns" \/ (main = "gone" /\ exit = "killed")
  /\ main = "created" /\ mode = "JOBLIST" => target \in Started
  /\ main = "created" /\ mode = "SUSPENDED" => target \in {"held", "killed"}
  /\ main = "resumes" => target \in {"held", "killed"}
  /\ main \in {"created", "resumes", "owned", "waits"} /\ target = "killed" => lostOwner
  /\ main = "gone" => target \notin {"held", "runs"} /\ ~kin
  /\ kin \/ target = "runs" => ran
  /\ target \in {"none", "suspended", "held"} => ~ran

\* The lines the helper has gathered, and the target.
NotesTell ==
  /\ main = "absent" => notes = {}
  /\ main \in {"begins", "armed"} => notes \subseteq {"nonce", "ownerLoss"}
  /\ main = "created" /\ mode = "JOBLIST" => "targetStarted" \in notes
  /\ main = "resumes" => "verifiedInJob" \in notes
  /\ ran => "targetStarted" \in notes
  /\ main \in {"owned", "waits", "ends"} =>
       {"verifiedInJob", "targetStarted"} \subseteq notes /\ target \in Started
  /\ "OK" \in notes =>
       {"verifiedInJob", "targetStarted"} \subseteq notes /\ target \in Started
  /\ main \in {"waits", "ends"} \/ pump # "off" => "OK" \in notes
  /\ pump = "off" \/ main \in {"waits", "ends", "refuses", "gone"}
  /\ "targetStarted" \in notes => target \in Started
  /\ "FAILED" \in notes => main \in {"refuses", "gone"}
  /\ "FAILED" \in notes /\ "targetStarted" \notin notes => target \in {"none", "killed"}
  /\ "childExit" \in notes => target = "exited" \/ lostOwner

\* The lines that were published, and those that were gathered.
StatusTells ==
  /\ status \subseteq notes
  /\ "OK" \in status => {"verifiedInJob", "targetStarted"} \subseteq status
  /\ "FAILED" \in status /\ "targetStarted" \notin status => "targetStarted" \notin notes
  /\ owner = "alive" /\ status # {} => "OK" \in status \/ "FAILED" \in status

\* The payload on its way.
StdinTells ==
  /\ handed <= payload /\ forwarded <= handed
  /\ localWrite = "COMPLETED" => handed = payload /\ input # "open"
  /\ "EOF_FORWARDED" \in notes => pump = "done" /\ forwarded = handed /\ input # "open"

\* Nothing was started, and nothing will be.
Untouched ==
  main = "absent" \/ ("FAILED" \in notes /\ "targetStarted" \notin notes)

\* The call, and what it has concluded.
CallFollows ==
  /\ main = "absent" => stage \in {"idle", "returned"}
  /\ stage = "idle" => main = "absent"
  /\ stage \in {"idle", "starting"} => termination = "NONE" /\ kill = "none"
  /\ stage # "returned" => result = NoResult /\ account \in {"none", "open", "proved"}
  /\ stage = "runs" => "OK" \in status
  /\ stage = "runs" /\ termination = "NONE" => ~aborted /\ ~over
  /\ stage = "idle" => ~aborted /\ ~over /\ ending = Unended
  /\ ending # Unended => ending.kind \in Kinds
  /\ ending.kind \in {"EXITED", "TERMINATED"} => main = "gone" /\ "OK" \in notes
  /\ ending.kind = "EXITED" => target = "exited"
  /\ stage = "starting" /\ ending.kind = "REFUSED" /\ ending.started = "NO" => Untouched
  /\ account = "closed" => Untouched \/ (main = "gone" /\ "OK" \in notes)
  /\ account = "closed" /\ result.started = "NO" => Untouched
  /\ result.outcome = "COMPLETED" => stage = "returned" /\ target = "exited" /\ ~aborted /\ ~over
  /\ result.stdin = "DELIVERED" => localWrite = "COMPLETED" /\ "EOF_FORWARDED" \in notes

HelperInv == TargetFollows /\ NotesTell /\ StatusTells /\ StdinTells
OwnedInv == CommandTypeOK /\ HelperInv /\ CallFollows

USE DEF Keys, Places, Targets, Exits, Stages, Reasons, Kinds, Answers, Outcomes,
        Deliveries, Endings, Results, Started, helperVars, job, pipe, callVars

----------------------------------------------------------------------------
(* What is read off a status *)

\* classifyBoundaryEnding is total, and what each of its answers rests on.
LEMMA EndingsRest ==
  ASSUME NEW s \in SUBSET Keys, NEW x \in Exits, NEW asked \in BOOLEAN,
         NEW e, e = BoundaryEnding(s, x, asked)
  PROVE  /\ e \in [kind : Kinds, started : Answers]
         /\ e.kind \in {"EXITED", "TERMINATED"} => ReportsOwned(s)
         /\ e.kind = "EXITED" => "childExit" \in s /\ "ownerLoss" \notin s /\ ~asked
         /\ e.kind = "REFUSED" /\ e.started = "NO" =>
              s # {} /\ ~ReportsOwned(s) /\ "targetStarted" \notin s
<1>1. CASE s = {} BY <1>1 DEF BoundaryEnding, Ending, ReportsOwned
<1>2. CASE s # {} /\ ~ReportsOwned(s) BY <1>2 DEF BoundaryEnding, Ending, StartedBy
<1>3. CASE s # {} /\ ReportsOwned(s) /\ asked BY <1>3 DEF BoundaryEnding, Ending
<1>4. CASE s # {} /\ ReportsOwned(s) /\ ~asked BY <1>4 DEF BoundaryEnding, Ending
<1>5. QED BY <1>1, <1>2, <1>3, <1>4

\* A status that a living owner reads and that names no start is the word of a
\* helper that refused before it started anything.
LEMMA UnstartedIsUntouched ==
  ASSUME OwnedInv, owner = "alive", status # {}, ~ReportsOwned(status),
         "targetStarted" \notin status
  PROVE  Untouched
BY DEF OwnedInv, HelperInv, StatusTells, Untouched, ReportsOwned

\* Nothing of an untouched launch, or of one whose helper is gone, is left.
LEMMA OverIsOver ==
  ASSUME OwnedInv
  PROVE  /\ Untouched => ~ran /\ ~TreeLives
         /\ main = "gone" /\ "OK" \in notes => ~TreeLives
BY DEF OwnedInv, CommandTypeOK, HelperTypeOK, HelperInv, TargetFollows, NotesTell, Untouched, TreeLives

----------------------------------------------------------------------------
(* The steps of the helper *)

\* WriteStatus keeps the lines to the keys, and counts a fault once.
LEMMA PublishesTypes ==
  ASSUME NEW lines \in SUBSET Keys, HelperTypeOK, Publishes(lines) \/ PublishesAfterFault(lines)
  PROVE  notes' \subseteq Keys /\ status' \subseteq Keys /\ faults' \in 0..MaxFaults
<1>1. faults \in Nat /\ MaxFaults \in Nat BY FaultsAssumption DEF HelperTypeOK
<1>2. CASE Publishes(lines)
  <2>1. CASE status' = lines /\ UNCHANGED faults
    BY <1>2, <2>1 DEF HelperTypeOK, Publishes
  <2>2. CASE UNCHANGED status /\ Fault
    BY <1>1, <1>2, <2>2 DEF HelperTypeOK, Publishes, Fault
  <2>3. QED BY <1>2, <2>1, <2>2 DEF Publishes
<1>3. CASE PublishesAfterFault(lines)
  BY <1>1, <1>3
  DEF HelperTypeOK, PublishesAfterFault, Fault
<1>4. QED BY <1>2, <1>3

\* Every step of the helper, its pump and the target keeps the invariant.
LEMMA HelperKeeps ==
  ASSUME OwnedInv, HelperNext, UNCHANGED callVars
  PROVE  OwnedInv'
<1> USE DEF OwnedInv, CommandTypeOK, HelperInv
<1>0. CallTypeOK' BY DEF CallTypeOK
<1>1. CASE Arms
  <2>1. HelperTypeOK'
    BY <1>1, FaultsAssumption, ChunksAssumption
    DEF HelperTypeOK, StdinTells, CallTypeOK, Arms
  <2>2. TargetFollows'
    BY <1>1, ModesAssumption
    DEF HelperTypeOK, TargetFollows, NotesTell, Arms
  <2>3. NotesTell'
    BY <1>1, ModesAssumption
    DEF HelperTypeOK, TargetFollows, NotesTell, Arms
  <2>4. StatusTells' BY <1>1 DEF HelperTypeOK, NotesTell, StatusTells, Arms
  <2>5. StdinTells'
    BY <1>1, ChunksAssumption
    DEF HelperTypeOK, CallTypeOK, NotesTell, StdinTells, Arms
  <2>6. CallFollows'
    BY <1>1
    DEF HelperTypeOK, TargetFollows, NotesTell, StatusTells, CallFollows, Untouched,
        Arms
  <2>7. QED BY <1>0, <2>1, <2>2, <2>3, <2>4, <2>5, <2>6
<1>2. CASE FindsNoOwner
  <2>1. HelperTypeOK'
    <3>1. notes \cup {"nonce", "FAILED"} \in SUBSET Keys BY DEF HelperTypeOK
    <3>2. Publishes(notes \cup {"nonce", "FAILED"}) BY <1>2 DEF FindsNoOwner
    <3>3. notes' \subseteq Keys /\ status' \subseteq Keys /\ faults' \in 0..MaxFaults
      BY <3>1, <3>2, PublishesTypes
    <3>4. QED BY <1>2, <3>3 DEF HelperTypeOK, FindsNoOwner, Refuses
  <2>2. TargetFollows'
    BY <1>2, ModesAssumption
    DEF HelperTypeOK, TargetFollows, NotesTell, FindsNoOwner, Refuses, Publishes,
        Fault
  <2>3. NotesTell'
    BY <1>2, ModesAssumption
    DEF HelperTypeOK, TargetFollows, NotesTell, FindsNoOwner, Refuses, Publishes,
        Fault
  <2>4. StatusTells'
    BY <1>2
    DEF HelperTypeOK, NotesTell, StatusTells, FindsNoOwner, Refuses, Publishes, Fault
  <2>5. StdinTells'
    BY <1>2, ChunksAssumption
    DEF HelperTypeOK, CallTypeOK, NotesTell, StdinTells, FindsNoOwner, Refuses,
        Publishes, Fault
  <2>6. CallFollows'
    BY <1>2
    DEF HelperTypeOK, TargetFollows, NotesTell, StatusTells, CallFollows, Untouched,
        FindsNoOwner, Refuses, Publishes, Fault
  <2>7. QED BY <1>0, <2>1, <2>2, <2>3, <2>4, <2>5, <2>6
<1>3. CASE RefusesToBegin
  <2>1. HelperTypeOK'
    <3>1. notes \cup {"nonce", "FAILED"} \in SUBSET Keys BY DEF HelperTypeOK
    <3>2. PublishesAfterFault(notes \cup {"nonce", "FAILED"})
      BY <1>3
      DEF RefusesToBegin
    <3>3. notes' \subseteq Keys /\ status' \subseteq Keys /\ faults' \in 0..MaxFaults
      BY <3>1, <3>2, PublishesTypes
    <3>4. QED BY <1>3, <3>3 DEF HelperTypeOK, RefusesToBegin, Refuses
  <2>2. TargetFollows'
    BY <1>3, ModesAssumption
    DEF HelperTypeOK, TargetFollows, NotesTell, RefusesToBegin, Refuses,
        PublishesAfterFault, Fault
  <2>3. NotesTell'
    BY <1>3, ModesAssumption
    DEF HelperTypeOK, TargetFollows, NotesTell, RefusesToBegin, Refuses,
        PublishesAfterFault, Fault
  <2>4. StatusTells'
    BY <1>3
    DEF HelperTypeOK, NotesTell, StatusTells, RefusesToBegin, Refuses,
        PublishesAfterFault, Fault
  <2>5. StdinTells'
    BY <1>3, ChunksAssumption
    DEF HelperTypeOK, CallTypeOK, NotesTell, StdinTells, RefusesToBegin, Refuses,
        PublishesAfterFault, Fault
  <2>6. CallFollows'
    BY <1>3
    DEF HelperTypeOK, TargetFollows, NotesTell, StatusTells, CallFollows, Untouched,
        RefusesToBegin, Refuses, PublishesAfterFault, Fault
  <2>7. QED BY <1>0, <2>1, <2>2, <2>3, <2>4, <2>5, <2>6
<1>4. CASE Creates
  <2>1. HelperTypeOK'
    BY ZenonT(60), <1>4, FaultsAssumption, ChunksAssumption
    DEF HelperTypeOK, StdinTells, CallTypeOK, Creates
  <2>2. TargetFollows'
    BY <1>4, ModesAssumption
    DEF HelperTypeOK, TargetFollows, NotesTell, Creates
  <2>3. NotesTell'
    BY <1>4, ModesAssumption
    DEF HelperTypeOK, TargetFollows, NotesTell, Creates
  <2>4. StatusTells' BY <1>4 DEF HelperTypeOK, NotesTell, StatusTells, Creates
  <2>5. StdinTells'
    BY <1>4, ChunksAssumption
    DEF HelperTypeOK, CallTypeOK, NotesTell, StdinTells, Creates
  <2>6. CallFollows'
    BY <1>4
    DEF HelperTypeOK, TargetFollows, NotesTell, StatusTells, CallFollows, Untouched,
        Creates
  <2>7. QED BY <1>0, <2>1, <2>2, <2>3, <2>4, <2>5, <2>6
<1>5. CASE RefusesToCreate
  <2>1. HelperTypeOK'
    <3>1. notes \cup {"FAILED"} \in SUBSET Keys BY DEF HelperTypeOK
    <3>2. PublishesAfterFault(notes \cup {"FAILED"}) BY <1>5 DEF RefusesToCreate
    <3>3. notes' \subseteq Keys /\ status' \subseteq Keys /\ faults' \in 0..MaxFaults
      BY <3>1, <3>2, PublishesTypes
    <3>4. QED BY <1>5, <3>3 DEF HelperTypeOK, RefusesToCreate, Refuses
  <2>2. TargetFollows'
    BY <1>5, ModesAssumption
    DEF HelperTypeOK, TargetFollows, NotesTell, RefusesToCreate, Refuses,
        PublishesAfterFault, Fault
  <2>3. NotesTell'
    BY <1>5, ModesAssumption
    DEF HelperTypeOK, TargetFollows, NotesTell, RefusesToCreate, Refuses,
        PublishesAfterFault, Fault
  <2>4. StatusTells'
    BY <1>5
    DEF HelperTypeOK, NotesTell, StatusTells, RefusesToCreate, Refuses,
        PublishesAfterFault, Fault
  <2>5. StdinTells'
    BY <1>5, ChunksAssumption
    DEF HelperTypeOK, CallTypeOK, NotesTell, StdinTells, RefusesToCreate, Refuses,
        PublishesAfterFault, Fault
  <2>6. CallFollows'
    BY <1>5
    DEF HelperTypeOK, TargetFollows, NotesTell, StatusTells, CallFollows, Untouched,
        RefusesToCreate, Refuses, PublishesAfterFault, Fault
  <2>7. QED BY <1>0, <2>1, <2>2, <2>3, <2>4, <2>5, <2>6
<1>6. CASE Assigns
  <2>1. HelperTypeOK'
    BY <1>6, FaultsAssumption, ChunksAssumption
    DEF HelperTypeOK, StdinTells, CallTypeOK, Assigns
  <2>2. TargetFollows'
    BY <1>6, ModesAssumption
    DEF HelperTypeOK, TargetFollows, NotesTell, Assigns
  <2>3. NotesTell'
    BY <1>6, ModesAssumption
    DEF HelperTypeOK, TargetFollows, NotesTell, Assigns
  <2>4. StatusTells' BY <1>6 DEF HelperTypeOK, NotesTell, StatusTells, Assigns
  <2>5. StdinTells'
    BY <1>6, ChunksAssumption
    DEF HelperTypeOK, CallTypeOK, NotesTell, StdinTells, Assigns
  <2>6. CallFollows'
    BY <1>6
    DEF HelperTypeOK, TargetFollows, NotesTell, StatusTells, CallFollows, Untouched,
        Assigns
  <2>7. QED BY <1>0, <2>1, <2>2, <2>3, <2>4, <2>5, <2>6
<1>7. CASE RefusesToAssign
  <2>1. HelperTypeOK'
    <3>1. notes \cup {"FAILED"} \in SUBSET Keys BY DEF HelperTypeOK
    <3>2. PublishesAfterFault(notes \cup {"FAILED"}) BY <1>7 DEF RefusesToAssign
    <3>3. notes' \subseteq Keys /\ status' \subseteq Keys /\ faults' \in 0..MaxFaults
      BY <3>1, <3>2, PublishesTypes
    <3>4. QED BY <1>7, <3>3 DEF HelperTypeOK, RefusesToAssign, Refuses
  <2>2. TargetFollows'
    BY <1>7, ModesAssumption
    DEF HelperTypeOK, TargetFollows, NotesTell, RefusesToAssign, Refuses,
        PublishesAfterFault, Fault
  <2>3. NotesTell'
    BY <1>7, ModesAssumption
    DEF HelperTypeOK, TargetFollows, NotesTell, RefusesToAssign, Refuses,
        PublishesAfterFault, Fault
  <2>4. StatusTells'
    BY <1>7
    DEF HelperTypeOK, NotesTell, StatusTells, RefusesToAssign, Refuses,
        PublishesAfterFault, Fault
  <2>5. StdinTells'
    BY <1>7, ChunksAssumption
    DEF HelperTypeOK, CallTypeOK, NotesTell, StdinTells, RefusesToAssign, Refuses,
        PublishesAfterFault, Fault
  <2>6. CallFollows'
    BY <1>7
    DEF HelperTypeOK, TargetFollows, NotesTell, StatusTells, CallFollows, Untouched,
        RefusesToAssign, Refuses, PublishesAfterFault, Fault
  <2>7. QED BY <1>0, <2>1, <2>2, <2>3, <2>4, <2>5, <2>6
<1>8. CASE Verifies
  <2>1. HelperTypeOK'
    BY <1>8, FaultsAssumption, ChunksAssumption
    DEF HelperTypeOK, StdinTells, CallTypeOK, Verifies
  <2>2. TargetFollows'
    BY <1>8, ModesAssumption
    DEF HelperTypeOK, TargetFollows, NotesTell, Verifies
  <2>3. NotesTell'
    BY <1>8, ModesAssumption
    DEF HelperTypeOK, TargetFollows, NotesTell, Verifies
  <2>4. StatusTells' BY <1>8 DEF HelperTypeOK, NotesTell, StatusTells, Verifies
  <2>5. StdinTells'
    BY <1>8, ChunksAssumption
    DEF HelperTypeOK, CallTypeOK, NotesTell, StdinTells, Verifies
  <2>6. CallFollows'
    BY <1>8
    DEF HelperTypeOK, TargetFollows, NotesTell, StatusTells, CallFollows, Untouched,
        Verifies
  <2>7. QED BY <1>0, <2>1, <2>2, <2>3, <2>4, <2>5, <2>6
<1>9. CASE RefusesToVerify
  <2>1. HelperTypeOK'
    <3>1. notes \cup {"FAILED"} \in SUBSET Keys BY DEF HelperTypeOK
    <3>2. PublishesAfterFault(notes \cup {"FAILED"}) BY <1>9 DEF RefusesToVerify
    <3>3. notes' \subseteq Keys /\ status' \subseteq Keys /\ faults' \in 0..MaxFaults
      BY <3>1, <3>2, PublishesTypes
    <3>4. QED BY <1>9, <3>3 DEF HelperTypeOK, RefusesToVerify, Refuses, JobEnds
  <2>2. TargetFollows'
    BY <1>9, ModesAssumption
    DEF HelperTypeOK, TargetFollows, NotesTell, RefusesToVerify, Refuses, JobEnds,
        PublishesAfterFault, Fault
  <2>3. NotesTell'
    BY <1>9, ModesAssumption
    DEF HelperTypeOK, TargetFollows, NotesTell, RefusesToVerify, Refuses, JobEnds,
        PublishesAfterFault, Fault
  <2>4. StatusTells'
    BY <1>9
    DEF HelperTypeOK, NotesTell, StatusTells, RefusesToVerify, Refuses, JobEnds,
        PublishesAfterFault, Fault
  <2>5. StdinTells'
    BY <1>9, ChunksAssumption
    DEF HelperTypeOK, CallTypeOK, NotesTell, StdinTells, RefusesToVerify, Refuses,
        JobEnds, PublishesAfterFault, Fault
  <2>6. CallFollows'
    BY <1>9
    DEF HelperTypeOK, TargetFollows, NotesTell, StatusTells, CallFollows, Untouched,
        RefusesToVerify, Refuses, JobEnds, PublishesAfterFault, Fault
  <2>7. QED BY <1>0, <2>1, <2>2, <2>3, <2>4, <2>5, <2>6
<1>10. CASE Resumes
  <2>1. HelperTypeOK'
    BY <1>10, FaultsAssumption, ChunksAssumption
    DEF HelperTypeOK, StdinTells, CallTypeOK, Resumes
  <2>2. TargetFollows'
    BY <1>10, ModesAssumption
    DEF HelperTypeOK, TargetFollows, NotesTell, Resumes
  <2>3. NotesTell'
    BY <1>10, ModesAssumption
    DEF HelperTypeOK, TargetFollows, NotesTell, Resumes
  <2>4. StatusTells' BY <1>10 DEF HelperTypeOK, NotesTell, StatusTells, Resumes
  <2>5. StdinTells'
    BY <1>10, ChunksAssumption
    DEF HelperTypeOK, CallTypeOK, NotesTell, StdinTells, Resumes
  <2>6. CallFollows'
    BY <1>10
    DEF HelperTypeOK, TargetFollows, NotesTell, StatusTells, CallFollows, Untouched,
        Resumes
  <2>7. QED BY <1>0, <2>1, <2>2, <2>3, <2>4, <2>5, <2>6
<1>11. CASE RefusesToResume
  <2>1. HelperTypeOK'
    <3>1. notes \cup {"FAILED"} \in SUBSET Keys BY DEF HelperTypeOK
    <3>2. PublishesAfterFault(notes \cup {"FAILED"}) BY <1>11 DEF RefusesToResume
    <3>3. notes' \subseteq Keys /\ status' \subseteq Keys /\ faults' \in 0..MaxFaults
      BY <3>1, <3>2, PublishesTypes
    <3>4. QED BY <1>11, <3>3 DEF HelperTypeOK, RefusesToResume, Refuses, JobEnds
  <2>2. TargetFollows'
    BY <1>11, ModesAssumption
    DEF HelperTypeOK, TargetFollows, NotesTell, RefusesToResume, Refuses, JobEnds,
        PublishesAfterFault, Fault
  <2>3. NotesTell'
    BY <1>11, ModesAssumption
    DEF HelperTypeOK, TargetFollows, NotesTell, RefusesToResume, Refuses, JobEnds,
        PublishesAfterFault, Fault
  <2>4. StatusTells'
    BY <1>11
    DEF HelperTypeOK, NotesTell, StatusTells, RefusesToResume, Refuses, JobEnds,
        PublishesAfterFault, Fault
  <2>5. StdinTells'
    BY <1>11, ChunksAssumption
    DEF HelperTypeOK, CallTypeOK, NotesTell, StdinTells, RefusesToResume, Refuses,
        JobEnds, PublishesAfterFault, Fault
  <2>6. CallFollows'
    BY <1>11
    DEF HelperTypeOK, TargetFollows, NotesTell, StatusTells, CallFollows, Untouched,
        RefusesToResume, Refuses, JobEnds, PublishesAfterFault, Fault
  <2>7. QED BY <1>0, <2>1, <2>2, <2>3, <2>4, <2>5, <2>6
<1>12. CASE ReportsOwnership
  <2>1. HelperTypeOK'
    <3>1. notes \cup {"OK"} \in SUBSET Keys BY DEF HelperTypeOK
    <3>2. Publishes(notes \cup {"OK"}) BY <1>12 DEF ReportsOwnership
    <3>3. notes' \subseteq Keys /\ status' \subseteq Keys /\ faults' \in 0..MaxFaults
      BY <3>1, <3>2, PublishesTypes
    <3>4. QED BY <1>12, <3>3 DEF HelperTypeOK, ReportsOwnership
  <2>2. TargetFollows'
    BY <1>12, ModesAssumption
    DEF HelperTypeOK, TargetFollows, NotesTell, ReportsOwnership, Publishes, Fault
  <2>3. NotesTell'
    BY <1>12, ModesAssumption
    DEF HelperTypeOK, TargetFollows, NotesTell, ReportsOwnership, Publishes, Fault
  <2>4. StatusTells'
    BY <1>12
    DEF HelperTypeOK, NotesTell, StatusTells, ReportsOwnership, Publishes, Fault
  <2>5. StdinTells'
    BY <1>12, ChunksAssumption
    DEF HelperTypeOK, CallTypeOK, NotesTell, StdinTells, ReportsOwnership, Publishes,
        Fault
  <2>6. CallFollows'
    BY <1>12
    DEF HelperTypeOK, TargetFollows, NotesTell, StatusTells, CallFollows, Untouched,
        ReportsOwnership, Publishes, Fault
  <2>7. QED BY <1>0, <2>1, <2>2, <2>3, <2>4, <2>5, <2>6
<1>13. CASE ObservesExit
  <2>1. HelperTypeOK'
    <3>1. notes \cup (EndNotes \cup {"childExit"}) \in SUBSET Keys
      BY DEF HelperTypeOK, EndNotes
    <3>2. Publishes(notes \cup (EndNotes \cup {"childExit"}))
      BY <1>13
      DEF ObservesExit
    <3>3. notes' \subseteq Keys /\ status' \subseteq Keys /\ faults' \in 0..MaxFaults
      BY <3>1, <3>2, PublishesTypes
    <3>4. QED BY <1>13, <3>3 DEF HelperTypeOK, ObservesExit
  <2>2. TargetFollows'
    BY <1>13, ModesAssumption
    DEF HelperTypeOK, TargetFollows, NotesTell, ObservesExit, Publishes, EndNotes,
        Fault
  <2>3. NotesTell'
    BY <1>13, ModesAssumption
    DEF HelperTypeOK, TargetFollows, NotesTell, ObservesExit, Publishes, EndNotes,
        Fault
  <2>4. StatusTells'
    BY <1>13
    DEF HelperTypeOK, NotesTell, StatusTells, ObservesExit, Publishes, EndNotes, Fault
  <2>5. StdinTells'
    BY <1>13, ChunksAssumption
    DEF HelperTypeOK, CallTypeOK, NotesTell, StdinTells, ObservesExit, Publishes,
        EndNotes, Fault
  <2>6. CallFollows'
    BY <1>13
    DEF HelperTypeOK, TargetFollows, NotesTell, StatusTells, CallFollows, Untouched,
        ObservesExit, Publishes, EndNotes, Fault
  <2>7. QED BY <1>0, <2>1, <2>2, <2>3, <2>4, <2>5, <2>6
<1>14. CASE MissesExit
  <2>1. HelperTypeOK'
    <3>1. notes \cup (EndNotes \cup {"childExitUnobservable"}) \in SUBSET Keys
      BY DEF HelperTypeOK, EndNotes
    <3>2. PublishesAfterFault(notes \cup (EndNotes \cup {"childExitUnobservable"}))
      BY <1>14
      DEF MissesExit
    <3>3. notes' \subseteq Keys /\ status' \subseteq Keys /\ faults' \in 0..MaxFaults
      BY <3>1, <3>2, PublishesTypes
    <3>4. QED BY <1>14, <3>3 DEF HelperTypeOK, MissesExit
  <2>2. TargetFollows'
    BY <1>14, ModesAssumption
    DEF HelperTypeOK, TargetFollows, NotesTell, MissesExit, PublishesAfterFault,
        EndNotes, Fault
  <2>3. NotesTell'
    BY <1>14, ModesAssumption
    DEF HelperTypeOK, TargetFollows, NotesTell, MissesExit, PublishesAfterFault,
        EndNotes, Fault
  <2>4. StatusTells'
    BY <1>14
    DEF HelperTypeOK, NotesTell, StatusTells, MissesExit, PublishesAfterFault,
        EndNotes, Fault
  <2>5. StdinTells'
    BY <1>14, ChunksAssumption
    DEF HelperTypeOK, CallTypeOK, NotesTell, StdinTells, MissesExit,
        PublishesAfterFault, EndNotes, Fault
  <2>6. CallFollows'
    BY <1>14
    DEF HelperTypeOK, TargetFollows, NotesTell, StatusTells, CallFollows, Untouched,
        MissesExit, PublishesAfterFault, EndNotes, Fault
  <2>7. QED BY <1>0, <2>1, <2>2, <2>3, <2>4, <2>5, <2>6
<1>15. CASE Breaks
  <2>1. HelperTypeOK'
    <3>1. notes \cup {"FAILED"} \in SUBSET Keys BY DEF HelperTypeOK
    <3>2. PublishesAfterFault(notes \cup {"FAILED"}) BY <1>15 DEF Breaks
    <3>3. notes' \subseteq Keys /\ status' \subseteq Keys /\ faults' \in 0..MaxFaults
      BY <3>1, <3>2, PublishesTypes
    <3>4. QED BY <1>15, <3>3 DEF HelperTypeOK, Breaks, Refuses
  <2>2. TargetFollows'
    BY <1>15, ModesAssumption
    DEF HelperTypeOK, TargetFollows, NotesTell, Breaks, Refuses, PublishesAfterFault,
        Fault
  <2>3. NotesTell'
    BY <1>15, ModesAssumption
    DEF HelperTypeOK, TargetFollows, NotesTell, Breaks, Refuses, PublishesAfterFault,
        Fault
  <2>4. StatusTells'
    BY <1>15
    DEF HelperTypeOK, NotesTell, StatusTells, Breaks, Refuses, PublishesAfterFault,
        Fault
  <2>5. StdinTells'
    BY <1>15, ChunksAssumption
    DEF HelperTypeOK, CallTypeOK, NotesTell, StdinTells, Breaks, Refuses,
        PublishesAfterFault, Fault
  <2>6. CallFollows'
    BY <1>15
    DEF HelperTypeOK, TargetFollows, NotesTell, StatusTells, CallFollows, Untouched,
        Breaks, Refuses, PublishesAfterFault, Fault
  <2>7. QED BY <1>0, <2>1, <2>2, <2>3, <2>4, <2>5, <2>6
<1>16. CASE Ends
  <2>1. HelperTypeOK'
    BY ZenonT(60), <1>16, FaultsAssumption, ChunksAssumption
    DEF HelperTypeOK, StdinTells, CallTypeOK, Ends, HandleCloses, JobEnds
  <2>2. TargetFollows'
    BY <1>16, ModesAssumption
    DEF HelperTypeOK, TargetFollows, NotesTell, Ends, HandleCloses, JobEnds
  <2>3. NotesTell'
    BY <1>16, ModesAssumption
    DEF HelperTypeOK, TargetFollows, NotesTell, Ends, HandleCloses, JobEnds
  <2>4. StatusTells'
    BY <1>16
    DEF HelperTypeOK, NotesTell, StatusTells, Ends, HandleCloses, JobEnds
  <2>5. StdinTells'
    BY <1>16, ChunksAssumption
    DEF HelperTypeOK, CallTypeOK, NotesTell, StdinTells, Ends, HandleCloses, JobEnds
  <2>6. CallFollows'
    BY <1>16
    DEF HelperTypeOK, TargetFollows, NotesTell, StatusTells, CallFollows, Untouched,
        Ends, HandleCloses, JobEnds
  <2>7. QED BY <1>0, <2>1, <2>2, <2>3, <2>4, <2>5, <2>6
<1>17. CASE TerminatesForOwner
  <2>1. HelperTypeOK'
    <3>1. notes \cup {"ownerLoss"} \in SUBSET Keys BY DEF HelperTypeOK
    <3>2. Publishes(notes \cup {"ownerLoss"}) BY <1>17 DEF TerminatesForOwner
    <3>3. notes' \subseteq Keys /\ status' \subseteq Keys /\ faults' \in 0..MaxFaults
      BY <3>1, <3>2, PublishesTypes
    <3>4. QED
      BY <1>17, <3>3
      DEF HelperTypeOK, TerminatesForOwner, Watching, Helping, JobEnds
  <2>2. TargetFollows'
    BY <1>17, ModesAssumption
    DEF HelperTypeOK, TargetFollows, NotesTell, TerminatesForOwner, Watching, Helping,
        JobEnds, Publishes, Fault
  <2>3. NotesTell'
    BY <1>17, ModesAssumption
    DEF HelperTypeOK, TargetFollows, NotesTell, TerminatesForOwner, Watching, Helping,
        JobEnds, Publishes, Fault
  <2>4. StatusTells'
    BY <1>17
    DEF HelperTypeOK, NotesTell, StatusTells, TerminatesForOwner, Watching, Helping,
        JobEnds, Publishes, Fault
  <2>5. StdinTells'
    BY <1>17, ChunksAssumption
    DEF HelperTypeOK, CallTypeOK, NotesTell, StdinTells, TerminatesForOwner, Watching,
        Helping, JobEnds, Publishes, Fault
  <2>6. CallFollows'
    BY <1>17
    DEF HelperTypeOK, TargetFollows, NotesTell, StatusTells, CallFollows, Untouched,
        TerminatesForOwner, Watching, Helping, JobEnds, Publishes, Fault
  <2>7. QED BY <1>0, <2>1, <2>2, <2>3, <2>4, <2>5, <2>6
<1>18. CASE LeavesWithOwner
  <2>1. HelperTypeOK'
    BY <1>18, FaultsAssumption, ChunksAssumption
    DEF HelperTypeOK, StdinTells, CallTypeOK, LeavesWithOwner, Helping, HandleCloses,
        JobEnds
  <2>2. TargetFollows'
    BY <1>18, ModesAssumption
    DEF HelperTypeOK, TargetFollows, NotesTell, LeavesWithOwner, Helping,
        HandleCloses, JobEnds
  <2>3. NotesTell'
    BY <1>18, ModesAssumption
    DEF HelperTypeOK, TargetFollows, NotesTell, LeavesWithOwner, Helping,
        HandleCloses, JobEnds
  <2>4. StatusTells'
    BY <1>18
    DEF HelperTypeOK, NotesTell, StatusTells, LeavesWithOwner, Helping, HandleCloses,
        JobEnds
  <2>5. StdinTells'
    BY <1>18, ChunksAssumption
    DEF HelperTypeOK, CallTypeOK, NotesTell, StdinTells, LeavesWithOwner, Helping,
        HandleCloses, JobEnds
  <2>6. CallFollows'
    BY <1>18
    DEF HelperTypeOK, TargetFollows, NotesTell, StatusTells, CallFollows, Untouched,
        LeavesWithOwner, Helping, HandleCloses, JobEnds
  <2>7. QED BY <1>0, <2>1, <2>2, <2>3, <2>4, <2>5, <2>6
<1>19. CASE Forwards
  <2>1. HelperTypeOK'
    BY <1>19, FaultsAssumption, ChunksAssumption
    DEF HelperTypeOK, StdinTells, CallTypeOK, Forwards, Pumping, Helping
  <2>2. TargetFollows'
    BY <1>19, ModesAssumption
    DEF HelperTypeOK, TargetFollows, NotesTell, Forwards, Pumping, Helping
  <2>3. NotesTell'
    BY <1>19, ModesAssumption
    DEF HelperTypeOK, TargetFollows, NotesTell, Forwards, Pumping, Helping
  <2>4. StatusTells'
    BY <1>19
    DEF HelperTypeOK, NotesTell, StatusTells, Forwards, Pumping, Helping
  <2>5. StdinTells'
    BY <1>19, ChunksAssumption
    DEF HelperTypeOK, CallTypeOK, NotesTell, StdinTells, Forwards, Pumping, Helping
  <2>6. CallFollows'
    BY <1>19
    DEF HelperTypeOK, TargetFollows, NotesTell, StatusTells, CallFollows, Untouched,
        Forwards, Pumping, Helping
  <2>7. QED BY <1>0, <2>1, <2>2, <2>3, <2>4, <2>5, <2>6
<1>20. CASE FindsNoReader
  <2>1. HelperTypeOK'
    <3>1. notes \cup {"BROKEN_PIPE"} \in SUBSET Keys BY DEF HelperTypeOK
    <3>2. Publishes(notes \cup {"BROKEN_PIPE"}) BY <1>20 DEF FindsNoReader, PumpStops
    <3>3. notes' \subseteq Keys /\ status' \subseteq Keys /\ faults' \in 0..MaxFaults
      BY <3>1, <3>2, PublishesTypes
    <3>4. QED
      BY <1>20, <3>3
      DEF HelperTypeOK, FindsNoReader, Pumping, Helping, PumpStops
  <2>2. TargetFollows'
    BY <1>20, ModesAssumption
    DEF HelperTypeOK, TargetFollows, NotesTell, FindsNoReader, Pumping, Helping,
        PumpStops, Publishes, Fault
  <2>3. NotesTell'
    BY <1>20, ModesAssumption
    DEF HelperTypeOK, TargetFollows, NotesTell, FindsNoReader, Pumping, Helping,
        PumpStops, Publishes, Fault
  <2>4. StatusTells'
    BY <1>20
    DEF HelperTypeOK, NotesTell, StatusTells, FindsNoReader, Pumping, Helping,
        PumpStops, Publishes, Fault
  <2>5. StdinTells'
    BY <1>20, ChunksAssumption
    DEF HelperTypeOK, CallTypeOK, NotesTell, StdinTells, FindsNoReader, Pumping,
        Helping, PumpStops, Publishes, Fault
  <2>6. CallFollows'
    BY <1>20
    DEF HelperTypeOK, TargetFollows, NotesTell, StatusTells, CallFollows, Untouched,
        FindsNoReader, Pumping, Helping, PumpStops, Publishes, Fault
  <2>7. QED BY <1>0, <2>1, <2>2, <2>3, <2>4, <2>5, <2>6
<1>21. CASE ForwardsEnd
  <2>1. HelperTypeOK'
    <3>1. notes \cup {"EOF_FORWARDED"} \in SUBSET Keys BY DEF HelperTypeOK
    <3>2. Publishes(notes \cup {"EOF_FORWARDED"}) BY <1>21 DEF ForwardsEnd, PumpStops
    <3>3. notes' \subseteq Keys /\ status' \subseteq Keys /\ faults' \in 0..MaxFaults
      BY <3>1, <3>2, PublishesTypes
    <3>4. QED
      BY <1>21, <3>3
      DEF HelperTypeOK, ForwardsEnd, Pumping, Helping, PumpStops
  <2>2. TargetFollows'
    BY <1>21, ModesAssumption
    DEF HelperTypeOK, TargetFollows, NotesTell, ForwardsEnd, Pumping, Helping,
        PumpStops, Publishes, Fault
  <2>3. NotesTell'
    BY <1>21, ModesAssumption
    DEF HelperTypeOK, TargetFollows, NotesTell, ForwardsEnd, Pumping, Helping,
        PumpStops, Publishes, Fault
  <2>4. StatusTells'
    BY <1>21
    DEF HelperTypeOK, NotesTell, StatusTells, ForwardsEnd, Pumping, Helping,
        PumpStops, Publishes, Fault
  <2>5. StdinTells'
    BY <1>21, ChunksAssumption
    DEF HelperTypeOK, CallTypeOK, NotesTell, StdinTells, ForwardsEnd, Pumping,
        Helping, PumpStops, Publishes, Fault
  <2>6. CallFollows'
    BY <1>21
    DEF HelperTypeOK, TargetFollows, NotesTell, StatusTells, CallFollows, Untouched,
        ForwardsEnd, Pumping, Helping, PumpStops, Publishes, Fault
  <2>7. QED BY <1>0, <2>1, <2>2, <2>3, <2>4, <2>5, <2>6
<1>22. CASE LosesSource
  <2>1. HelperTypeOK'
    <3>1. notes \cup {"SOURCE_READ_FAILED"} \in SUBSET Keys BY DEF HelperTypeOK
    <3>2. PublishesAfterFault(notes \cup {"SOURCE_READ_FAILED"})
      BY <1>22
      DEF LosesSource
    <3>3. notes' \subseteq Keys /\ status' \subseteq Keys /\ faults' \in 0..MaxFaults
      BY <3>1, <3>2, PublishesTypes
    <3>4. QED BY <1>22, <3>3 DEF HelperTypeOK, LosesSource, Pumping, Helping
  <2>2. TargetFollows'
    BY <1>22, ModesAssumption
    DEF HelperTypeOK, TargetFollows, NotesTell, LosesSource, Pumping, Helping,
        PublishesAfterFault, Fault
  <2>3. NotesTell'
    BY <1>22, ModesAssumption
    DEF HelperTypeOK, TargetFollows, NotesTell, LosesSource, Pumping, Helping,
        PublishesAfterFault, Fault
  <2>4. StatusTells'
    BY <1>22
    DEF HelperTypeOK, NotesTell, StatusTells, LosesSource, Pumping, Helping,
        PublishesAfterFault, Fault
  <2>5. StdinTells'
    BY <1>22, ChunksAssumption
    DEF HelperTypeOK, CallTypeOK, NotesTell, StdinTells, LosesSource, Pumping,
        Helping, PublishesAfterFault, Fault
  <2>6. CallFollows'
    BY <1>22
    DEF HelperTypeOK, TargetFollows, NotesTell, StatusTells, CallFollows, Untouched,
        LosesSource, Pumping, Helping, PublishesAfterFault, Fault
  <2>7. QED BY <1>0, <2>1, <2>2, <2>3, <2>4, <2>5, <2>6
<1>23. CASE Forks
  <2>1. HelperTypeOK'
    BY <1>23, FaultsAssumption, ChunksAssumption
    DEF HelperTypeOK, StdinTells, CallTypeOK, Forks
  <2>2. TargetFollows'
    BY <1>23, ModesAssumption
    DEF HelperTypeOK, TargetFollows, NotesTell, Forks
  <2>3. NotesTell'
    BY <1>23, ModesAssumption
    DEF HelperTypeOK, TargetFollows, NotesTell, Forks
  <2>4. StatusTells' BY <1>23 DEF HelperTypeOK, NotesTell, StatusTells, Forks
  <2>5. StdinTells'
    BY <1>23, ChunksAssumption
    DEF HelperTypeOK, CallTypeOK, NotesTell, StdinTells, Forks
  <2>6. CallFollows'
    BY <1>23
    DEF HelperTypeOK, TargetFollows, NotesTell, StatusTells, CallFollows, Untouched,
        Forks
  <2>7. QED BY <1>0, <2>1, <2>2, <2>3, <2>4, <2>5, <2>6
<1>24. CASE Exited
  <2>1. HelperTypeOK'
    BY <1>24, FaultsAssumption, ChunksAssumption
    DEF HelperTypeOK, StdinTells, CallTypeOK, Exited
  <2>2. TargetFollows'
    BY <1>24, ModesAssumption
    DEF HelperTypeOK, TargetFollows, NotesTell, Exited
  <2>3. NotesTell'
    BY <1>24, ModesAssumption
    DEF HelperTypeOK, TargetFollows, NotesTell, Exited
  <2>4. StatusTells' BY <1>24 DEF HelperTypeOK, NotesTell, StatusTells, Exited
  <2>5. StdinTells'
    BY <1>24, ChunksAssumption
    DEF HelperTypeOK, CallTypeOK, NotesTell, StdinTells, Exited
  <2>6. CallFollows'
    BY <1>24
    DEF HelperTypeOK, TargetFollows, NotesTell, StatusTells, CallFollows, Untouched,
        Exited
  <2>7. QED BY <1>0, <2>1, <2>2, <2>3, <2>4, <2>5, <2>6
<1>25. QED
  BY <1>1, <1>2, <1>3, <1>4, <1>5, <1>6, <1>7, <1>8, <1>9, <1>10, <1>11, <1>12, <1>13,
     <1>14, <1>15, <1>16, <1>17, <1>18, <1>19, <1>20, <1>21, <1>22, <1>23, <1>24
  DEF HelperNext, Advances, GivesUp, Watches, Pumps, TreeSteps
----------------------------------------------------------------------------
(* The steps of the call, and the deaths *)

LEMMA FaultCounts ==
  ASSUME HelperTypeOK, Fault
  PROVE  faults' \in 0..MaxFaults
BY FaultsAssumption DEF HelperTypeOK, Fault

\* Most steps of the call leave the helper and the payload alone.
LEMMA HelperStandsStill ==
  ASSUME HelperInv,
         UNCHANGED <<owner, mode, main, gate, lostOwner, exit, job, notes, status, pipe,
                     payload, localWrite>>
  PROVE  HelperInv'
BY DEF HelperInv, TargetFollows, NotesTell, StatusTells, StdinTells

\* What asking for the end of the run may do.
LEMMA KillsTypes ==
  ASSUME OwnedInv, Kills
  PROVE  /\ kill' \in {"sent", "failed"} /\ faults' \in 0..MaxFaults
         /\ ending' = ending \/ ending' = Ending("REFUSED", "NO")
         /\ ending' \in Endings
<1> USE DEF OwnedInv, CommandTypeOK
<1>1. CASE kill' = "sent" /\ UNCHANGED <<ending, faults>>
  BY <1>1 DEF CallTypeOK, HelperTypeOK
<1>2. CASE Helping /\ kill' = "failed" /\ ending' = Ending("REFUSED", "NO") /\ Fault
  BY <1>2, FaultCounts DEF Ending
<1>3. QED BY <1>1, <1>2 DEF Kills

LEMMA TerminatesTypes ==
  ASSUME OwnedInv, NEW reason \in Reasons, Terminates(reason)
  PROVE  /\ termination' \in Reasons
         /\ kill' \in {"none", "sent", "failed", "ignored"} /\ faults' \in 0..MaxFaults
         /\ ending' = ending \/ ending' = Ending("REFUSED", "NO")
         /\ ending' \in Endings
<1> USE DEF OwnedInv, CommandTypeOK
<1>1. CASE termination = "NONE" BY <1>1, KillsTypes DEF Terminates
<1>2. CASE termination # "NONE" BY <1>2 DEF Terminates, CallTypeOK, HelperTypeOK
<1>3. QED BY <1>1, <1>2

\* What a call leaves that never saw its launch established.
LEMMA ReturnsUnestablished ==
  ASSUME CallTypeOK, NEW outcome \in Outcomes \ {"COMPLETED"}, NEW started \in Answers,
         NEW r, r = Unestablished(outcome, started)
  PROVE  /\ r \in Results
         /\ r.started = started /\ r.outcome = outcome /\ r.stdin # "DELIVERED"
         /\ AccountedFor(r) <=> started = "NO"
BY DEF CallTypeOK, Unestablished, StdinDelivery, AccountedFor

\* What an established call leaves.
LEMMA ReturnsEstablished ==
  ASSUME CallTypeOK, NEW outcome \in Outcomes, NEW started \in {"YES", "UNKNOWN"},
         NEW s \in SUBSET Keys, NEW r, r = Established(outcome, started, s)
  PROVE  /\ r \in Results
         /\ r.outcome = outcome /\ r.started # "NO"
         /\ r.stdin = "DELIVERED" => localWrite = "COMPLETED" /\ "EOF_FORWARDED" \in s
         /\ AccountedFor(r) <=> outcome \in Attestable
<1>1. payload \in 0..Chunks BY DEF CallTypeOK
<1>2. /\ StdinDelivery(TRUE, s) \in Deliveries
      /\ StdinDelivery(TRUE, s) = "DELIVERED" => localWrite = "COMPLETED" /\ "EOF_FORWARDED" \in s
  BY <1>1 DEF StdinDelivery
<1>3. (outcome \in Attestable) \in BOOLEAN OBVIOUS
<1>4. r = [outcome |-> outcome, started |-> started, contained |-> outcome \in Attestable,
           stdin |-> StdinDelivery(TRUE, s)]
  BY DEF Established
<1>5. /\ r.outcome = outcome /\ r.started = started
      /\ r.contained = (outcome \in Attestable) /\ r.stdin = StdinDelivery(TRUE, s)
  BY <1>4
<1>6. AccountedFor(r) <=> outcome \in Attestable BY <1>5 DEF AccountedFor
<1>7. QED BY <1>2, <1>3, <1>4, <1>5, <1>6

\* Every turn of the owner, and every death, keeps the invariant.
LEMMA CallKeeps ==
  ASSUME OwnedInv, Launches \/ Turns \/ Callbacks \/ Hands \/ Deaths
  PROVE  OwnedInv'
<1> USE DEF OwnedInv, CommandTypeOK, HelperInv, Acting, Running, Listening
<1>1. CASE NeverLaunches
  <2>0. stage' = "returned" /\ UNCHANGED account /\ result' = Unestablished("LAUNCH_REFUSED", "NO")
    BY <1>1 DEF NeverLaunches
  <2>r. /\ result' \in Results
        /\ result'.outcome = "LAUNCH_REFUSED" /\ result'.stdin # "DELIVERED"
    BY <2>0, ReturnsUnestablished
  <2>1. HelperTypeOK'
    BY <1>1, <2>r, ChunksAssumption
    DEF HelperTypeOK, StdinTells, CallTypeOK, NeverLaunches
  <2>2. CallTypeOK' BY <1>1, <2>r DEF CallTypeOK, NeverLaunches
  <2>3. HelperInv' BY <1>1, HelperStandsStill DEF NeverLaunches
  <2>6. CallFollows'
    BY <1>1, <2>r
    DEF HelperTypeOK, CallTypeOK, TargetFollows, NotesTell, StatusTells, CallFollows,
        Untouched, NeverLaunches
  <2>7. QED BY <2>1, <2>2, <2>3, <2>6
<1>2. CASE FailsToStart
  <2>0. \E outcome \in Outcomes \ {"COMPLETED"}, started \in Answers :
          Returns(Unestablished(outcome, started)) /\ (started = "NO" => Untouched)
    BY <1>2 DEF FailsToStart, CallFollows, Untouched
  <2>r. /\ result' \in Results
        /\ stage' = "returned" /\ result'.outcome # "COMPLETED" /\ result'.stdin # "DELIVERED"
        /\ account' \in {"closed", "left"} /\ (account' = "closed" \/ result'.started = "NO" => Untouched)
    BY <2>0, ReturnsUnestablished DEF Returns
  <2>1. HelperTypeOK'
    BY <1>2, <2>r, ChunksAssumption
    DEF HelperTypeOK, StdinTells, CallTypeOK, FailsToStart
  <2>2. CallTypeOK' BY <1>2, <2>r DEF CallTypeOK, FailsToStart
  <2>3. HelperInv' BY <1>2, HelperStandsStill DEF FailsToStart
  <2>6. CallFollows'
    BY <1>2, <2>r
    DEF HelperTypeOK, CallTypeOK, TargetFollows, NotesTell, StatusTells, CallFollows,
        Untouched, FailsToStart
  <2>7. QED BY <2>1, <2>2, <2>3, <2>6
<1>3. CASE Starts
  <2>1. HelperTypeOK'
    BY <1>3, ChunksAssumption
    DEF HelperTypeOK, StdinTells, CallTypeOK, Starts
  <2>2. CallTypeOK' BY <1>3 DEF CallTypeOK, Starts
  <2>3. TargetFollows' /\ NotesTell'
    BY <1>3
    DEF CallFollows, HelperTypeOK, TargetFollows, NotesTell, Starts
  <2>4. StatusTells' BY <1>3 DEF HelperTypeOK, NotesTell, StatusTells, Starts
  <2>5. StdinTells'
    BY <1>3, ChunksAssumption
    DEF HelperTypeOK, CallTypeOK, NotesTell, StdinTells, Starts
  <2>6. CallFollows'
    BY <1>3
    DEF HelperTypeOK, CallTypeOK, TargetFollows, NotesTell, StatusTells, CallFollows,
        Untouched, Starts, Ending, Unended
  <2>7. QED BY <2>1, <2>2, <2>3, <2>4, <2>5, <2>6
<1>4. CASE Establishes
  <2>r. /\ termination' \in Reasons \/ UNCHANGED <<termination, kill, ending, faults>>
        /\ kill' \in {"none", "sent", "failed", "ignored"} /\ faults' \in 0..MaxFaults
        /\ ending' = ending \/ ending' = Ending("REFUSED", "NO")
        /\ ending' \in Endings
    BY <1>4, TerminatesTypes DEF Establishes, CallTypeOK, HelperTypeOK
  <2>s. termination' = "NONE" => ~aborted /\ ~over
    BY <1>4, TerminatesTypes DEF Establishes
  <2>1. HelperTypeOK'
    BY <1>4, <2>r, ChunksAssumption
    DEF HelperTypeOK, StdinTells, CallTypeOK, Establishes
  <2>2. CallTypeOK' BY <1>4, <2>r DEF CallTypeOK, Establishes
  <2>3. HelperInv' BY <1>4, HelperStandsStill DEF Establishes
  <2>6. CallFollows'
    BY <1>4, <2>r, <2>s
    DEF HelperTypeOK, CallTypeOK, TargetFollows, NotesTell, StatusTells, CallFollows,
        Untouched, Establishes, ReportsOwned, NoResult, Ending, Unended
  <2>7. QED BY <2>1, <2>2, <2>3, <2>6
<1>5. CASE FindsItGone
  <2>0. \E outcome \in Outcomes \ {"COMPLETED"}, started \in Answers :
          Returns(Unestablished(outcome, started)) /\ (started = "NO" => Untouched)
    <3>1. CASE ending.kind = "REFUSED"
      BY <1>5, <3>1 DEF FindsItGone, Refusal, CallTypeOK, CallFollows, Untouched
    <3>2. CASE ending.kind # "REFUSED"
      BY <1>5, <3>2 DEF FindsItGone
    <3>3. QED BY <3>1, <3>2
  <2>r. /\ result' \in Results
        /\ stage' = "returned" /\ result'.outcome # "COMPLETED" /\ result'.stdin # "DELIVERED"
        /\ account' \in {"closed", "left"} /\ (account' = "closed" \/ result'.started = "NO" => Untouched)
    BY <2>0, ReturnsUnestablished DEF Returns
  <2>1. HelperTypeOK'
    BY <1>5, <2>r, ChunksAssumption
    DEF HelperTypeOK, StdinTells, CallTypeOK, FindsItGone
  <2>2. CallTypeOK' BY <1>5, <2>r DEF CallTypeOK, FindsItGone
  <2>3. HelperInv' BY <1>5, HelperStandsStill DEF FindsItGone
  <2>6. CallFollows'
    BY <1>5, <2>r
    DEF HelperTypeOK, CallTypeOK, TargetFollows, NotesTell, StatusTells, CallFollows,
        Untouched, FindsItGone
  <2>7. QED BY <2>1, <2>2, <2>3, <2>6
<1>6. CASE Abandons
  <2>r. /\ kill' \in {"sent", "failed"} /\ faults' \in 0..MaxFaults
        /\ ending' = ending \/ ending' = Ending("REFUSED", "NO")
        /\ ending' \in Endings
    BY <1>6, KillsTypes DEF Abandons
  <2>1. HelperTypeOK'
    BY <1>6, <2>r, ChunksAssumption
    DEF HelperTypeOK, StdinTells, CallTypeOK, Abandons
  <2>2. CallTypeOK' BY <1>6, <2>r DEF CallTypeOK, Abandons
  <2>3. HelperInv' BY <1>6, HelperStandsStill DEF Abandons
  <2>6. CallFollows'
    BY <1>6, <2>r
    DEF HelperTypeOK, CallTypeOK, TargetFollows, NotesTell, StatusTells, CallFollows,
        Untouched, Abandons, Ending, Unended
  <2>7. QED BY <2>1, <2>2, <2>3, <2>6
<1>7. CASE Abandoned
  <2>0. \E outcome \in Outcomes \ {"COMPLETED"}, started \in Answers :
          Returns(Unestablished(outcome, started)) /\ (started = "NO" => Untouched)
    <3>1. status \in SUBSET Keys /\ "none" \in Exits BY DEF HelperTypeOK
    <3>2. BoundaryEnding(status, "none", FALSE) \in [kind : Kinds, started : Answers]
      BY <3>1, EndingsRest
    <3>3. CASE BoundaryEnding(status, "none", FALSE).kind = "REFUSED"
      <4>1. BoundaryEnding(status, "none", FALSE).started = "NO" => Untouched
        BY <1>7, <3>1, <3>3, EndingsRest, UnstartedIsUntouched DEF Abandoned
      <4>2. QED BY <1>7, <3>2, <3>3, <4>1 DEF Abandoned, Refusal
    <3>4. CASE BoundaryEnding(status, "none", FALSE).kind # "REFUSED"
      BY <1>7, <3>4 DEF Abandoned, Refusal
    <3>5. QED BY <3>3, <3>4
  <2>r. /\ result' \in Results
        /\ stage' = "returned" /\ result'.outcome # "COMPLETED" /\ result'.stdin # "DELIVERED"
        /\ account' \in {"closed", "left"} /\ (account' = "closed" \/ result'.started = "NO" => Untouched)
    BY <2>0, ReturnsUnestablished DEF Returns
  <2>1. HelperTypeOK'
    BY <1>7, <2>r, ChunksAssumption
    DEF HelperTypeOK, StdinTells, CallTypeOK, Abandoned
  <2>2. CallTypeOK' BY <1>7, <2>r DEF CallTypeOK, Abandoned
  <2>3. HelperInv' BY <1>7, HelperStandsStill DEF Abandoned
  <2>6. CallFollows'
    BY <1>7, <2>r
    DEF HelperTypeOK, CallTypeOK, TargetFollows, NotesTell, StatusTells, CallFollows,
        Untouched, Abandoned
  <2>7. QED BY <2>1, <2>2, <2>3, <2>6
<1>8. CASE Closes
  <2>0. status \in SUBSET Keys /\ exit \in Exits /\ (kill # "none") \in BOOLEAN
    BY DEF HelperTypeOK
  <2>a. ending' = BoundaryEnding(status, exit, kill # "none") BY <1>8 DEF Closes
  <2>r. /\ ending' \in [kind : Kinds, started : Answers]
        /\ ending'.kind \in {"EXITED", "TERMINATED"} => "OK" \in status
        /\ ending'.kind = "EXITED" => "childExit" \in status
        /\ ending'.kind = "REFUSED" /\ ending'.started = "NO" => Untouched
    <3>1. /\ ending' \in [kind : Kinds, started : Answers]
          /\ ending'.kind \in {"EXITED", "TERMINATED"} => ReportsOwned(status)
          /\ ending'.kind = "EXITED" => "childExit" \in status
          /\ ending'.kind = "REFUSED" /\ ending'.started = "NO" =>
               status # {} /\ ~ReportsOwned(status) /\ "targetStarted" \notin status
      BY <2>0, <2>a, EndingsRest
    <3>2. ending'.kind = "REFUSED" /\ ending'.started = "NO" => Untouched
      BY <1>8, <3>1, UnstartedIsUntouched DEF Closes
    <3>3. QED BY <3>1, <3>2 DEF ReportsOwned
  <2>1. HelperTypeOK'
    BY <1>8, <2>r, ChunksAssumption
    DEF HelperTypeOK, StdinTells, CallTypeOK, Closes
  <2>2. CallTypeOK' BY <1>8, <2>r DEF CallTypeOK, Closes
  <2>3. HelperInv' BY <1>8, HelperStandsStill DEF Closes
  <2>6. CallFollows'
    BY <1>8, <2>r
    DEF HelperTypeOK, CallTypeOK, TargetFollows, NotesTell, StatusTells, CallFollows,
        Untouched, Closes, Ending, Unended
  <2>7. QED BY <2>1, <2>2, <2>3, <2>6
<1>9. CASE Settles
  <2>0. PICK outcome \in Outcomes, started \in {"YES", "UNKNOWN"}, s \in SUBSET Keys :
          /\ Returns(Established(outcome, started, s)) /\ s \subseteq status
          /\ outcome \in Attestable => main = "gone" /\ "OK" \in notes
          /\ outcome = "COMPLETED" => target = "exited" /\ termination = "NONE"
    <3> DEFINE s == IF kill = "failed" THEN {} ELSE status
    <3>1. s \in SUBSET Keys /\ s \subseteq status BY DEF HelperTypeOK
    <3>2. Returns(Settled(ending, s)) BY <1>9 DEF Settles
    <3> HIDE DEF s
    <3>3. CASE ending.kind \in {"REFUSED", "LOST"}
      BY <3>1, <3>2, <3>3 DEF Settled, Attestable
    <3>4. CASE ending.kind \in {"TERMINATED", "EXITED"} /\ termination # "NONE"
      BY <3>1, <3>2, <3>4 DEF Settled, TerminationOutcome, CallTypeOK, CallFollows
    <3>5. CASE ending.kind = "EXITED" /\ termination = "NONE"
      BY <3>1, <3>2, <3>5 DEF Settled, CallFollows
    <3>6. CASE ending.kind = "TERMINATED" /\ termination = "NONE"
      BY <3>1, <3>2, <3>6 DEF Settled, Attestable
    <3>7. QED BY <1>9, <3>3, <3>4, <3>5, <3>6 DEF Settles, CallFollows
  <2>r. /\ result' \in Results
        /\ stage' = "returned" /\ result'.started # "NO"
        /\ result'.outcome = "COMPLETED" => target = "exited" /\ termination = "NONE"
        /\ result'.stdin = "DELIVERED" => localWrite = "COMPLETED" /\ "EOF_FORWARDED" \in status
        /\ account' \in {"closed", "left"}
        /\ account' = "closed" => main = "gone" /\ "OK" \in notes
    BY <2>0, ReturnsEstablished DEF Returns
  <2>1. HelperTypeOK'
    BY <1>9, <2>r, ChunksAssumption
    DEF HelperTypeOK, StdinTells, CallTypeOK, Settles
  <2>2. CallTypeOK' BY <1>9, <2>r DEF CallTypeOK, Settles
  <2>3. HelperInv' BY <1>9, HelperStandsStill DEF Settles
  <2>6. CallFollows'
    BY <1>9, <2>r
    DEF HelperTypeOK, CallTypeOK, TargetFollows, NotesTell, StatusTells, CallFollows,
        Untouched, Settles, Ending, Unended
  <2>7. QED BY <2>1, <2>2, <2>3, <2>6
<1>10. CASE GraceExpires
  <2>0. Returns(Established("BOUNDARY_LOST", "YES", {})) BY <1>10 DEF GraceExpires
  <2>r. /\ result' \in Results
        /\ stage' = "returned" /\ result'.outcome # "COMPLETED" /\ result'.stdin # "DELIVERED"
        /\ account' = "left"
    BY <2>0, ReturnsEstablished DEF Returns, Attestable
  <2>1. HelperTypeOK'
    BY <1>10, <2>r, ChunksAssumption
    DEF HelperTypeOK, StdinTells, CallTypeOK, GraceExpires
  <2>2. CallTypeOK' BY <1>10, <2>r DEF CallTypeOK, GraceExpires
  <2>3. HelperInv' BY <1>10, HelperStandsStill DEF GraceExpires
  <2>6. CallFollows'
    BY <1>10, <2>r
    DEF HelperTypeOK, CallTypeOK, TargetFollows, NotesTell, StatusTells, CallFollows,
        Untouched, GraceExpires
  <2>7. QED BY <2>1, <2>2, <2>3, <2>6
<1>11. CASE TimesOut
  <2>r. /\ termination' \in Reasons \/ UNCHANGED <<termination, kill, ending, faults>>
        /\ kill' \in {"none", "sent", "failed", "ignored"} /\ faults' \in 0..MaxFaults
        /\ ending' = ending \/ ending' = Ending("REFUSED", "NO")
        /\ ending' \in Endings
    BY <1>11, TerminatesTypes DEF TimesOut, CallTypeOK, HelperTypeOK
  <2>1. HelperTypeOK'
    BY <1>11, <2>r, ChunksAssumption
    DEF HelperTypeOK, StdinTells, CallTypeOK, TimesOut
  <2>2. CallTypeOK' BY <1>11, <2>r DEF CallTypeOK, TimesOut
  <2>3. HelperInv' BY <1>11, HelperStandsStill DEF TimesOut
  <2>6. CallFollows'
    BY <1>11, <2>r
    DEF HelperTypeOK, CallTypeOK, TargetFollows, NotesTell, StatusTells, CallFollows,
        Untouched, TimesOut, NoResult, Ending, Unended
  <2>7. QED BY <2>1, <2>2, <2>3, <2>6
<1>12. CASE Aborts
  <2>r. /\ termination' \in Reasons \/ UNCHANGED <<termination, kill, ending, faults>>
        /\ kill' \in {"none", "sent", "failed", "ignored"} /\ faults' \in 0..MaxFaults
        /\ ending' = ending \/ ending' = Ending("REFUSED", "NO")
        /\ ending' \in Endings
    BY <1>12, TerminatesTypes DEF Aborts, CallTypeOK, HelperTypeOK
  <2>s. /\ stage = "runs" => termination' # "NONE"
        /\ stage # "runs" => UNCHANGED <<termination, kill, ending>>
    BY <1>12, TerminatesTypes DEF Aborts
  <2>1. HelperTypeOK'
    BY <1>12, <2>r, ChunksAssumption
    DEF HelperTypeOK, StdinTells, CallTypeOK, Aborts
  <2>2. CallTypeOK' BY <1>12, <2>r DEF CallTypeOK, Aborts
  <2>3. HelperInv' BY <1>12, HelperStandsStill DEF Aborts
  <2>6. CallFollows'
    BY <1>12, <2>r, <2>s
    DEF HelperTypeOK, CallTypeOK, TargetFollows, NotesTell, StatusTells, CallFollows,
        Untouched, Aborts, NoResult, Ending, Unended
  <2>7. QED BY <2>1, <2>2, <2>3, <2>6
<1>13. CASE Exceeds
  <2>r. /\ termination' \in Reasons \/ UNCHANGED <<termination, kill, ending, faults>>
        /\ kill' \in {"none", "sent", "failed", "ignored"} /\ faults' \in 0..MaxFaults
        /\ ending' = ending \/ ending' = Ending("REFUSED", "NO")
        /\ ending' \in Endings
    BY <1>13, TerminatesTypes DEF Exceeds, CallTypeOK, HelperTypeOK
  <2>s. /\ stage = "runs" => termination' # "NONE"
        /\ stage # "runs" => UNCHANGED <<termination, kill, ending>>
    BY <1>13, TerminatesTypes DEF Exceeds
  <2>1. HelperTypeOK'
    BY <1>13, <2>r, ChunksAssumption
    DEF HelperTypeOK, StdinTells, CallTypeOK, Exceeds
  <2>2. CallTypeOK' BY <1>13, <2>r DEF CallTypeOK, Exceeds
  <2>3. HelperInv' BY <1>13, HelperStandsStill DEF Exceeds
  <2>6. CallFollows'
    BY <1>13, <2>r, <2>s
    DEF HelperTypeOK, CallTypeOK, TargetFollows, NotesTell, StatusTells, CallFollows,
        Untouched, Exceeds, NoResult, Ending, Unended
  <2>7. QED BY <2>1, <2>2, <2>3, <2>6
<1>14. CASE HandsPiece
  <2>1. HelperTypeOK'
    BY <1>14, ChunksAssumption
    DEF HelperTypeOK, StdinTells, CallTypeOK, HandsPiece
  <2>2. CallTypeOK' BY <1>14 DEF CallTypeOK, HandsPiece
  <2>3. TargetFollows' /\ NotesTell'
    BY <1>14
    DEF HelperTypeOK, TargetFollows, NotesTell, HandsPiece
  <2>4. StatusTells' BY <1>14 DEF HelperTypeOK, NotesTell, StatusTells, HandsPiece
  <2>5. StdinTells'
    BY <1>14, ChunksAssumption
    DEF HelperTypeOK, CallTypeOK, NotesTell, StdinTells, HandsPiece
  <2>6. CallFollows'
    BY <1>14
    DEF HelperTypeOK, CallTypeOK, TargetFollows, NotesTell, StatusTells, CallFollows,
        Untouched, HandsPiece
  <2>7. QED BY <2>1, <2>2, <2>3, <2>4, <2>5, <2>6
<1>15. CASE HandsEnd
  <2>1. HelperTypeOK'
    BY <1>15, ChunksAssumption
    DEF HelperTypeOK, StdinTells, CallTypeOK, HandsEnd
  <2>2. CallTypeOK' BY <1>15 DEF CallTypeOK, HandsEnd
  <2>3. TargetFollows' /\ NotesTell'
    BY <1>15
    DEF HelperTypeOK, TargetFollows, NotesTell, HandsEnd
  <2>4. StatusTells' BY <1>15 DEF HelperTypeOK, NotesTell, StatusTells, HandsEnd
  <2>5. StdinTells'
    BY <1>15, ChunksAssumption
    DEF HelperTypeOK, CallTypeOK, NotesTell, StdinTells, HandsEnd
  <2>6. CallFollows'
    BY <1>15
    DEF HelperTypeOK, CallTypeOK, TargetFollows, NotesTell, StatusTells, CallFollows,
        Untouched, HandsEnd
  <2>7. QED BY <2>1, <2>2, <2>3, <2>4, <2>5, <2>6
<1>16. CASE HandFails
  <2>1. HelperTypeOK'
    BY <1>16, FaultCounts, ChunksAssumption
    DEF HelperTypeOK, StdinTells, CallTypeOK, HandFails
  <2>2. CallTypeOK' BY <1>16, FaultCounts DEF CallTypeOK, HandFails
  <2>3. TargetFollows' /\ NotesTell'
    BY <1>16
    DEF HelperTypeOK, TargetFollows, NotesTell, HandFails
  <2>4. StatusTells' BY <1>16 DEF HelperTypeOK, NotesTell, StatusTells, HandFails
  <2>5. StdinTells'
    BY <1>16, ChunksAssumption
    DEF HelperTypeOK, CallTypeOK, NotesTell, StdinTells, HandFails
  <2>6. CallFollows'
    BY <1>16, FaultCounts
    DEF HelperTypeOK, CallTypeOK, TargetFollows, NotesTell, StatusTells, CallFollows,
        Untouched, HandFails, NoResult
  <2>7. QED BY <2>1, <2>2, <2>3, <2>4, <2>5, <2>6
<1>17. CASE KillTakes
  <2>1. HelperTypeOK'
    BY <1>17, ChunksAssumption
    DEF HelperTypeOK, StdinTells, CallTypeOK, KillTakes, Dies, Helping, HandleCloses,
        JobEnds
  <2>2. CallTypeOK'
    BY <1>17
    DEF CallTypeOK, KillTakes, Dies, Helping, HandleCloses, JobEnds
  <2>3. TargetFollows' /\ NotesTell'
    BY <1>17
    DEF HelperTypeOK, TargetFollows, NotesTell, KillTakes, Dies, Helping,
        HandleCloses, JobEnds
  <2>4. StatusTells'
    BY <1>17
    DEF HelperTypeOK, NotesTell, StatusTells, KillTakes, Dies, Helping, HandleCloses,
        JobEnds
  <2>5. StdinTells'
    BY <1>17, ChunksAssumption
    DEF HelperTypeOK, CallTypeOK, NotesTell, StdinTells, KillTakes, Dies, Helping,
        HandleCloses, JobEnds
  <2>6. CallFollows'
    BY <1>17
    DEF HelperTypeOK, CallTypeOK, TargetFollows, NotesTell, StatusTells, CallFollows,
        Untouched, KillTakes, Dies, Helping, HandleCloses, JobEnds
  <2>7. QED BY <2>1, <2>2, <2>3, <2>4, <2>5, <2>6
<1>18. CASE KillIsIgnored
  <2>1. HelperTypeOK'
    BY <1>18, FaultCounts, ChunksAssumption
    DEF HelperTypeOK, StdinTells, CallTypeOK, KillIsIgnored
  <2>2. CallTypeOK' BY <1>18, FaultCounts DEF CallTypeOK, KillIsIgnored
  <2>3. HelperInv' BY <1>18, HelperStandsStill DEF KillIsIgnored
  <2>6. CallFollows'
    BY <1>18, FaultCounts
    DEF HelperTypeOK, CallTypeOK, TargetFollows, NotesTell, StatusTells, CallFollows,
        Untouched, KillIsIgnored
  <2>7. QED BY <2>1, <2>2, <2>3, <2>6
<1>19. CASE KilledByOther
  <2>1. HelperTypeOK'
    BY <1>19, FaultCounts, ChunksAssumption
    DEF HelperTypeOK, StdinTells, CallTypeOK, KilledByOther, Dies, Helping,
        HandleCloses, JobEnds
  <2>2. CallTypeOK'
    BY <1>19, FaultCounts
    DEF CallTypeOK, KilledByOther, Dies, Helping, HandleCloses, JobEnds
  <2>3. TargetFollows' /\ NotesTell'
    BY <1>19
    DEF HelperTypeOK, TargetFollows, NotesTell, KilledByOther, Dies, Helping,
        HandleCloses, JobEnds
  <2>4. StatusTells'
    BY <1>19
    DEF HelperTypeOK, NotesTell, StatusTells, KilledByOther, Dies, Helping,
        HandleCloses, JobEnds
  <2>5. StdinTells'
    BY <1>19, ChunksAssumption
    DEF HelperTypeOK, CallTypeOK, NotesTell, StdinTells, KilledByOther, Dies, Helping,
        HandleCloses, JobEnds
  <2>6. CallFollows'
    BY <1>19, FaultCounts
    DEF HelperTypeOK, CallTypeOK, TargetFollows, NotesTell, StatusTells, CallFollows,
        Untouched, KilledByOther, Dies, Helping, HandleCloses, JobEnds
  <2>7. QED BY <2>1, <2>2, <2>3, <2>4, <2>5, <2>6
<1>20. CASE OwnerDies
  <2>1. HelperTypeOK'
    BY <1>20, ChunksAssumption
    DEF HelperTypeOK, StdinTells, CallTypeOK, OwnerDies
  <2>2. CallTypeOK' BY <1>20 DEF CallTypeOK, OwnerDies
  <2>3. TargetFollows' /\ NotesTell'
    BY <1>20
    DEF HelperTypeOK, TargetFollows, NotesTell, OwnerDies
  <2>4. StatusTells' BY <1>20 DEF HelperTypeOK, NotesTell, StatusTells, OwnerDies
  <2>5. StdinTells'
    BY <1>20, ChunksAssumption
    DEF HelperTypeOK, CallTypeOK, NotesTell, StdinTells, OwnerDies
  <2>6. CallFollows'
    BY <1>20
    DEF HelperTypeOK, CallTypeOK, TargetFollows, NotesTell, StatusTells, CallFollows,
        Untouched, OwnerDies
  <2>7. QED BY <2>1, <2>2, <2>3, <2>4, <2>5, <2>6
<1>21. CASE KilledWithOwner
  <2>1. HelperTypeOK'
    BY <1>21, ChunksAssumption
    DEF HelperTypeOK, StdinTells, CallTypeOK, KilledWithOwner, Dies, Helping,
        HandleCloses, JobEnds
  <2>2. CallTypeOK'
    BY <1>21
    DEF CallTypeOK, KilledWithOwner, Dies, Helping, HandleCloses, JobEnds
  <2>3. TargetFollows' /\ NotesTell'
    BY <1>21
    DEF HelperTypeOK, TargetFollows, NotesTell, KilledWithOwner, Dies, Helping,
        HandleCloses, JobEnds
  <2>4. StatusTells'
    BY <1>21
    DEF HelperTypeOK, NotesTell, StatusTells, KilledWithOwner, Dies, Helping,
        HandleCloses, JobEnds
  <2>5. StdinTells'
    BY <1>21, ChunksAssumption
    DEF HelperTypeOK, CallTypeOK, NotesTell, StdinTells, KilledWithOwner, Dies,
        Helping, HandleCloses, JobEnds
  <2>6. CallFollows'
    BY <1>21
    DEF HelperTypeOK, CallTypeOK, TargetFollows, NotesTell, StatusTells, CallFollows,
        Untouched, KilledWithOwner, Dies, Helping, HandleCloses, JobEnds
  <2>7. QED BY <2>1, <2>2, <2>3, <2>4, <2>5, <2>6
<1>22. QED
  BY <1>1, <1>2, <1>3, <1>4, <1>5, <1>6, <1>7, <1>8, <1>9, <1>10, <1>11, <1>12, <1>13,
     <1>14, <1>15, <1>16, <1>17, <1>18, <1>19, <1>20, <1>21
  DEF Launches, Turns, Callbacks, Hands, Deaths

----------------------------------------------------------------------------
(* The theorems *)

\* A call that has not begun satisfies the invariant, and every step keeps it.
LEMMA OwnedInit == CommandInit => OwnedInv
<1> SUFFICES ASSUME CommandInit PROVE OwnedInv OBVIOUS
<1> USE DEF CommandInit, HelperInit
<1>1. CommandTypeOK
  <2>1. HelperTypeOK
    <3>1. 0 \in 0..Chunks /\ 0 \in 0..MaxFaults BY ChunksAssumption, FaultsAssumption
    <3>2. handed \in 0..Chunks /\ forwarded \in 0..Chunks /\ faults \in 0..MaxFaults
      BY <3>1
    <3>3. notes \subseteq Keys /\ status \subseteq Keys OBVIOUS
    <3>4. lostOwner \in BOOLEAN /\ kin \in BOOLEAN /\ ran \in BOOLEAN OBVIOUS
    <3>5. QED BY <3>2, <3>3, <3>4 DEF HelperTypeOK
  <2>2. CallTypeOK BY ChunksAssumption DEF CallTypeOK, Unended, Ending, NoResult
  <2>3. QED BY <2>1, <2>2 DEF CommandTypeOK
<1>2. HelperInv
  BY ChunksAssumption DEF HelperInv, TargetFollows, NotesTell, StatusTells, StdinTells
<1>3. CallFollows BY DEF CallFollows, Unended, Ending, NoResult
<1>4. QED BY <1>1, <1>2, <1>3 DEF OwnedInv

LEMMA OwnedStep == OwnedInv /\ [CommandNext]_commandVars => OwnedInv'
<1> SUFFICES ASSUME OwnedInv, [CommandNext]_commandVars PROVE OwnedInv' OBVIOUS
<1>1. CASE Launches \/ Turns \/ Callbacks \/ Hands \/ Deaths BY <1>1, CallKeeps
<1>2. CASE HelperNext /\ UNCHANGED callVars BY <1>2, HelperKeeps
<1>3. CASE UNCHANGED commandVars
  BY <1>3 DEF commandVars, OwnedInv, CommandTypeOK, HelperTypeOK, CallTypeOK, HelperInv, TargetFollows,
              NotesTell, StatusTells, StdinTells, CallFollows, Untouched
<1>4. QED BY <1>1, <1>2, <1>3 DEF CommandNext

LEMMA OwnedInvHolds == CommandSpec => []OwnedInv
BY OwnedInit, OwnedStep, PTL DEF CommandSpec

\* Every reachable state of the helper and of the call has its type.
THEOREM OwnedTypesHold == CommandSpec => []CommandTypeOK
<1>1. OwnedInv => CommandTypeOK BY DEF OwnedInv
<1>2. QED BY <1>1, OwnedInvHolds, PTL

\* A closed owned-launch record describes a launch that is over, whatever
\* failed: doctor/exec.ts endingWasAccountedFor.
THEOREM ClosedRecordsAreOver == CommandSpec => []ClosedRecordIsOver
<1>1. OwnedInv => ClosedRecordIsOver
  BY OverIsOver DEF OwnedInv, CallFollows, ClosedRecordIsOver
<1>2. QED BY <1>1, OwnedInvHolds, PTL

\* What is reported as completed ended by itself and unasked: runOwnedCommand.
THEOREM CompletionsAreReal == CommandSpec => []CompletedMeansCompleted
<1>1. OwnedInv => CompletedMeansCompleted
  BY DEF OwnedInv, CallFollows, CompletedMeansCompleted
<1>2. QED BY <1>1, OwnedInvHolds, PTL

\* What is reported as delivered arrived as a whole: classifyStdinDelivery.
THEOREM DeliveriesAreWhole == CommandSpec => []DeliveredIsWhole
<1>1. OwnedInv => DeliveredIsWhole
  BY DEF OwnedInv, HelperInv, CallFollows, StdinTells, DeliveredIsWhole
<1>2. QED BY <1>1, OwnedInvHolds, PTL

\* A helper that ends by itself leaves nothing of the tree: the watcher of
\* AoLaunch.cs and the gate it shares with the main thread.
THEOREM NobodyIsStranded == CommandSpec => []NothingIsStranded
<1>1. OwnedInv => NothingIsStranded
  BY DEF OwnedInv, CommandTypeOK, HelperTypeOK, HelperInv, TargetFollows, NothingIsStranded, TreeLives
<1>2. QED BY <1>1, OwnedInvHolds, PTL
=============================================================================
