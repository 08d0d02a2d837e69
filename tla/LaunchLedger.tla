---------------------------- MODULE LaunchLedger ----------------------------
(***************************************************************************)
(* The launch ledger beside an execution lease: what a stale-lease recovery  *)
(* reads to decide whether anything a dead run started can still be running. *)
(* One companion file holds the history of writer launches (src/src/lease/   *)
(* writer-launch-ledger.ts) and the register of open owned launches          *)
(* (src/src/lease/owned-launch-register.ts); the functions that publish it    *)
(* are in src/src/lease/execution-lease.ts, its callers in                   *)
(* src/src/doctor/exec.ts and src/src/loop/leased-spawns.ts, and the          *)
(* processes it speaks of are made by the native helper of src/native.       *)
(*                                                                         *)
(* Epoch e is the e-th lease taken in the repository; its nonce is e.  The    *)
(* owner is one single-threaded process, so a function without an await is     *)
(* one step; it may die between any two.  Nobody takes the lease of an owner    *)
(* that runs (module ExecutionLease says when).  An attestation is the launch *)
(* it was minted for: helper, child and digest are one identity.             *)
(***************************************************************************)
EXTENDS Naturals, Sequences, FiniteSets

CONSTANTS
  Launch,       \* the processes the owners start, each at most once
  Writers,      \* those that are launches of the contained writer
  NoLaunch,     \* no attestation
  MaxEpochs,    \* bound: leases taken in this repository
  MaxEntries,   \* MAX_WRITER_LAUNCH_ENTRIES
  MaxOpen,      \* MAX_OPEN_OWNED_LAUNCHES
  IoMayFail     \* a read, a rename or an unlink may be refused

ASSUME LedgerAssumption ==
  /\ Writers \subseteq Launch
  /\ NoLaunch \notin Launch
  /\ MaxEpochs \in Nat /\ MaxEntries \in Nat /\ MaxOpen \in Nat
  /\ IoMayFail \in BOOLEAN

Trees == {"none", "up", "running", "lingers", "gone", "lost", "aborted"}
AliveTrees == {"up", "running", "lingers"}
Calls == {"idle", "opened", "announced", "spawned", "established",
          "proved", "unproved", "stuck", "over"}

VARIABLES
  epoch,      \* leases taken so far; the last one is the current epoch
  lease,      \* the epoch the lease file names, or 0
  running,    \* the owner of the current epoch is alive
  boundary,   \* launches pass through the native helper (Windows)
  accounted,  \* the owner's accountant is installed
  book,       \* the epoch the companion file is bound to, or 0: no file
  complete,   \* its historyComplete
  entries,    \* its writer launches, by generation
  open,       \* its open owned launches
  next,       \* its nextSlot
  call,       \* where the owner's call of each launch is
  of,         \* the epoch each launch belongs to, or 0
  gen,        \* the generation it was given, or 0
  slot,       \* the slot it was given, or 0
  tree,       \* the processes of each launch
  rec         \* a recovery: where it is, and the lease it read

file  == <<book, complete, entries, open, next>>
named == <<epoch, lease, running, boundary>>
vars  == <<named, accounted, file, call, of, gen, slot, tree, rec>>

Mine(l) == of[l] = epoch /\ running
InFlight(l) == of[l] = epoch /\ call[l] \notin {"idle", "stuck", "over"}

\* heldLeaseFor: the name holds the record of the owner's evidence.
Held == lease = epoch

-----------------------------------------------------------------------------
(***************************************************************************)
(* What the file says to a reader that knows the lease.                      *)
(***************************************************************************)
Extendable(e) == book = e

HasState(s) == \E i \in 1..Len(entries) : entries[i].state = s

History(e) ==
  IF book = 0 THEN "ABSENT"
  ELSE IF book # e THEN "NOT_THIS_LEASE"
  ELSE IF ~complete THEN "HISTORY_INCOMPLETE"
  ELSE IF HasState("PENDING") THEN "LAUNCH_UNPROVEN"
  ELSE IF HasState("ESTABLISHED") THEN "LAUNCHES_CONTAINED_SOME_UNENDED"
  ELSE "ALL_LAUNCHES_CONTAINED"

Register(e) ==
  IF book # e \/ ~complete THEN "REGISTER_NOT_READABLE"
  ELSE IF \E o \in open : o.state = "ANNOUNCED" THEN "OWNED_LAUNCH_UNPROVEN"
  ELSE IF open # {} THEN "OWNED_LAUNCHES_OPEN_UNENDED"
  ELSE "NO_OWNED_LAUNCH_OPEN"

\* The readings under which only probed processes stand between a lease and its removal.
Licensing(e) ==
  /\ History(e) \in {"ALL_LAUNCHES_CONTAINED", "LAUNCHES_CONTAINED_SOME_UNENDED"}
  /\ Register(e) \in {"NO_OWNED_LAUNCH_OPEN", "OWNED_LAUNCHES_OPEN_UNENDED"}

\* The launches it names whose helper and child a recovery must probe.
Named ==
  {l \in Launch :
     \/ \E i \in 1..Len(entries) : entries[i].state = "ESTABLISHED" /\ entries[i].by = l
     \/ \E o \in open : o.by = l}

\* A refused read looks like a file that is not this lease's.
Reads(e) == IF IoMayFail THEN {FALSE, Extendable(e)} ELSE {Extendable(e)}

-----------------------------------------------------------------------------

Init ==
  /\ epoch = 0 /\ lease = 0 /\ running = FALSE
  /\ boundary \in BOOLEAN
  /\ accounted = FALSE
  /\ book = 0 /\ complete = FALSE /\ entries = <<>> /\ open = {} /\ next = 1
  /\ call = [l \in Launch |-> "idle"]
  /\ of = [l \in Launch |-> 0]
  /\ gen = [l \in Launch |-> 0]
  /\ slot = [l \in Launch |-> 0]
  /\ tree = [l \in Launch |-> "none"]
  /\ rec = [at |-> "idle", epoch |-> 0]

\* publishCompanionRecord: the whole file is replaced by one rename.
Publish(c, es, os, n) ==
  /\ book' = epoch /\ complete' = c /\ entries' = es /\ open' = os /\ next' = n

\* The unlink of a discard.
Unlink == book' = 0 /\ complete' = FALSE /\ entries' = <<>> /\ open' = {} /\ next' = 1

KeepFile == UNCHANGED file

(***************************************************************************)
(* A fresh lease opens an empty, complete history.  A failed publication is  *)
(* ignored: the file of the previous lease then stays.                       *)
(***************************************************************************)
Acquire ==
  /\ lease = 0 /\ ~running /\ epoch < MaxEpochs
  /\ epoch' = epoch + 1 /\ lease' = epoch + 1 /\ running' = TRUE
  /\ accounted' = TRUE
  /\ \/ book' = epoch + 1 /\ complete' = TRUE /\ entries' = <<>> /\ open' = {} /\ next' = 1
     \/ IoMayFail /\ KeepFile
  /\ UNCHANGED <<boundary, call, of, gen, slot, tree, rec>>

\* The accountant leaves with the lease; a launch nobody awaits is not waited for.
Release ==
  /\ running /\ Held
  /\ \A l \in Launch : ~InFlight(l)
  /\ lease' = 0 /\ running' = FALSE /\ accounted' = FALSE
  /\ UNCHANGED <<epoch, boundary, file, call, of, gen, slot, tree, rec>>

Crash ==
  /\ running
  /\ running' = FALSE /\ accounted' = FALSE
  /\ call' = [l \in Launch |-> IF of[l] = epoch THEN "over" ELSE call[l]]
  /\ UNCHANGED <<epoch, lease, boundary, file, of, gen, slot, tree, rec>>

-----------------------------------------------------------------------------
(***************************************************************************)
(* beginWriterLaunch, as leasedAgent calls it: a history that cannot be       *)
(* extended is rebuilt and says so; one that cannot be written is removed;    *)
(* one that cannot be removed refuses the launch.                            *)
(***************************************************************************)
PendingEntry == [state |-> "PENDING", by |-> NoLaunch]

StaysCompleteRebuilt(got) == TRUE
StaysComplete(got) == got /\ complete

OpenGeneration(w) ==
  /\ w \in Writers /\ call[w] = "idle"
  /\ running /\ Held
  /\ \A v \in Writers : ~InFlight(v)
  /\ \E got \in Reads(epoch) :
       LET prior == IF got THEN entries ELSE <<>>
       IN \/ /\ Len(prior) < MaxEntries
             /\ Publish(StaysComplete(got), Append(prior, PendingEntry),
                        IF got THEN open ELSE {}, IF got THEN next ELSE 1)
             /\ gen' = [gen EXCEPT ![w] = Len(prior) + 1]
             /\ call' = [call EXCEPT ![w] = "opened"]
          \/ /\ Len(prior) >= MaxEntries \/ IoMayFail
             /\ Unlink
             /\ call' = [call EXCEPT ![w] = "opened"]
             /\ UNCHANGED gen
          \/ /\ IoMayFail /\ book # 0
             /\ KeepFile
             /\ call' = [call EXCEPT ![w] = "over"]
             /\ UNCHANGED gen
  /\ of' = [of EXCEPT ![w] = epoch]
  /\ UNCHANGED <<named, accounted, slot, tree, rec>>

\* Where a call goes once its process is answered for: only a generation is recorded.
After(l, ending) == [call EXCEPT ![l] = IF gen[l] = 0 THEN "over" ELSE ending]

(***************************************************************************)
(* openOwnedLaunch and the accountant's announcement, before the spawn.       *)
(* EPOCH_ENDED drops the accountant and lets the launch go on unrecorded.     *)
(***************************************************************************)
Starting(l) ==
  /\ running
  /\ \/ l \in Writers /\ call[l] = "opened" /\ of[l] = epoch
     \/ l \notin Writers /\ call[l] = "idle"
  /\ of' = [of EXCEPT ![l] = epoch]

Proceed(l) == call' = [call EXCEPT ![l] = "announced"]

Announce(l) ==
  /\ Starting(l)
  /\ accounted /\ Held
  /\ \E got \in Reads(epoch) :
       /\ got /\ complete /\ Cardinality(open) < MaxOpen
       /\ Publish(complete, entries,
                  open \cup {[slot |-> next, state |-> "ANNOUNCED", by |-> NoLaunch]},
                  next + 1)
  /\ slot' = [slot EXCEPT ![l] = next]
  /\ Proceed(l)
  /\ UNCHANGED <<named, accounted, gen, tree, rec>>

\* REGISTER_DISCARDED, the one announcement that ends the epoch of a lease still held.
AnnounceDiscards(l) ==
  /\ Starting(l)
  /\ accounted /\ Held
  /\ IoMayFail \/ ~Extendable(epoch) \/ ~complete \/ Cardinality(open) >= MaxOpen
  /\ Unlink
  /\ accounted' = FALSE
  /\ Proceed(l)
  /\ UNCHANGED <<named, gen, slot, tree, rec>>

Unaccounted(l) ==
  /\ Starting(l)
  /\ ~accounted
  /\ Proceed(l)
  /\ UNCHANGED <<named, accounted, file, gen, slot, tree, rec>>

\* LAUNCH_MUST_NOT_START and the answers that leave the question open.
AnnounceRefused(l) ==
  /\ Starting(l)
  /\ accounted /\ IoMayFail
  /\ call' = After(l, "unproved")
  /\ UNCHANGED <<named, accounted, file, gen, slot, tree, rec>>

-----------------------------------------------------------------------------
(***************************************************************************)
(* The processes.  Behind the boundary a helper creates the target inside a   *)
(* job that dies with it, and watches its owner; elsewhere nothing bounds     *)
(* the tree.                                                                 *)
(***************************************************************************)
Spawn(l) ==
  /\ Mine(l) /\ call[l] = "announced"
  /\ call' = [call EXCEPT ![l] = "spawned"]
  /\ tree' = [tree EXCEPT ![l] = IF boundary THEN "up" ELSE "running"]
  /\ UNCHANGED <<named, accounted, file, of, gen, slot, rec>>

Becomes(l, t) ==
  /\ tree' = [tree EXCEPT ![l] = t]
  /\ UNCHANGED <<named, accounted, file, call, of, gen, slot, rec>>

TargetStarts(l) == tree[l] = "up" /\ Becomes(l, "running")

\* The child exits; what it left behind ends with its job, or by itself.
ChildExits(l) == tree[l] = "running" /\ \E t \in {"lingers", "gone"} : Becomes(l, t)

TreeEnds(l) == tree[l] = "lingers" /\ Becomes(l, "gone")

\* The helper fails or is killed, and the job goes with it.
Killed(t) == IF t = "up" THEN "aborted" ELSE "lost"

HelperDies(l) ==
  /\ boundary /\ tree[l] \in AliveTrees
  /\ Becomes(l, Killed(tree[l]))

OwnerWatchAtStart(l) ==
  /\ boundary /\ tree[l] = "up"
  /\ of[l] < epoch \/ ~running
  /\ Becomes(l, "aborted")

OwnerWatch(l) ==
  /\ boundary /\ tree[l] \in AliveTrees
  /\ of[l] < epoch \/ ~running
  /\ Becomes(l, Killed(tree[l]))

-----------------------------------------------------------------------------
\* The slot a launch was given, when the file a call reads still has it.
SlotIn(l, os, states) == {o \in os : o.slot = slot[l] /\ o.state \in states}

MayRewrite == Held /\ Extendable(epoch)

\* attestOwnedLaunchEstablished and then attestWriterLaunchEstablished; either may fail.
MarkedOpen(l) ==
  (open \ SlotIn(l, open, {"ANNOUNCED"})) \cup
    {[slot |-> slot[l], state |-> "ESTABLISHED", by |-> l] :
       o \in SlotIn(l, open, {"ANNOUNCED"})}

MarkedEntries(l, from, to) ==
  [i \in 1..Len(entries) |->
     IF i = gen[l] /\ entries[i].state \in from THEN to ELSE entries[i]]

SeeEstablished(l) ==
  /\ Mine(l) /\ boundary /\ call[l] = "spawned"
  /\ tree[l] \in {"running", "lingers", "gone", "lost"}
  /\ call' = [call EXCEPT ![l] = "established"]
  /\ IF MayRewrite
     THEN \E os \in {IF complete THEN MarkedOpen(l) ELSE open} \cup (IF IoMayFail THEN {open} ELSE {}),
             es \in {MarkedEntries(l, {"PENDING"}, [state |-> "ESTABLISHED", by |-> l])}
                      \cup (IF IoMayFail THEN {entries} ELSE {}) :
            Publish(complete, es, os, next)
     ELSE KeepFile
  /\ UNCHANGED <<named, accounted, of, gen, slot, tree, rec>>

(***************************************************************************)
(* The ending.  A record is closed only for an ending the boundary accounted   *)
(* for, or for a launch that created nothing; every other stays open.         *)
(***************************************************************************)
SettleSlot(l) ==
  IF MayRewrite
  THEN \E os \in {IF complete THEN open \ SlotIn(l, open, {"ANNOUNCED", "ESTABLISHED"}) ELSE open}
                   \cup (IF IoMayFail THEN {open} ELSE {}) :
         Publish(complete, entries, os, next)
  ELSE KeepFile

\* SPAWN_FAILED, and a helper that refused before it started a target.
NothingRan(l) ==
  /\ Mine(l)
  /\ \/ call[l] = "announced"
     \/ call[l] = "spawned" /\ tree[l] = "aborted"
  /\ SettleSlot(l)
  /\ call' = After(l, "unproved")
  /\ UNCHANGED <<named, accounted, of, gen, slot, tree, rec>>

\* COMPLETED, or a timeout or output limit whose termination was observed.
EndProved(l) ==
  /\ Mine(l) /\ boundary /\ call[l] = "established"
  /\ tree[l] \in {"running", "lingers", "gone"}
  /\ tree' = [tree EXCEPT ![l] = "gone"]
  /\ SettleSlot(l)
  /\ call' = After(l, "proved")
  /\ UNCHANGED <<named, accounted, of, gen, slot, rec>>

LeaveSlot(l) == KeepFile

\* A lost boundary, a termination nobody confirmed, and every ending without a boundary.
EndUnproved(l) ==
  /\ Mine(l)
  /\ \/ boundary /\ call[l] = "established"
     \/ boundary /\ call[l] = "spawned" /\ tree[l] = "aborted"
     \/ ~boundary /\ call[l] = "spawned"
  /\ LeaveSlot(l)
  /\ call' = After(l, "unproved")
  /\ UNCHANGED <<named, accounted, of, gen, slot, tree, rec>>

\* BOUNDARY_NOT_ESTABLISHED_IN_TIME: the helper is killed and its close awaited.
EstablishTimeout(l) ==
  /\ Mine(l) /\ boundary /\ call[l] = "spawned"
  /\ tree[l] \in AliveTrees
  /\ tree' = [tree EXCEPT ![l] = Killed(tree[l])]
  /\ LeaveSlot(l)
  /\ call' = After(l, "unproved")
  /\ UNCHANGED <<named, accounted, of, gen, slot, rec>>

-----------------------------------------------------------------------------
(***************************************************************************)
(* leasedAgent after the process: the generation is confirmed, or its          *)
(* establishment is withdrawn before anything else of the run starts.          *)
(***************************************************************************)
GenerationOpen(l) ==
  /\ gen[l] <= Len(entries)
  /\ \/ entries[gen[l]].state = "PENDING"
     \/ entries[gen[l]].state = "ESTABLISHED" /\ entries[gen[l]].by = l

Confirm(l) ==
  /\ Mine(l) /\ call[l] = "proved"
  /\ \/ /\ MayRewrite /\ GenerationOpen(l)
        /\ Publish(complete, MarkedEntries(l, {"PENDING", "ESTABLISHED"},
                                           [state |-> "CONTAINED", by |-> l]), open, next)
        /\ call' = [call EXCEPT ![l] = "over"]
     \/ /\ IoMayFail \/ ~MayRewrite \/ ~GenerationOpen(l)
        /\ KeepFile
        /\ call' = [call EXCEPT ![l] = "unproved"]
  /\ UNCHANGED <<named, accounted, of, gen, slot, tree, rec>>

Withdrawable(l) ==
  Held /\ Extendable(epoch) /\ gen[l] <= Len(entries) /\ entries[gen[l]].state # "CONTAINED"

Withdraw(l) ==
  /\ Mine(l) /\ call[l] = "unproved"
  /\ \/ /\ Withdrawable(l)
        /\ Publish(complete, MarkedEntries(l, {"ESTABLISHED"}, PendingEntry), open, next)
        /\ call' = [call EXCEPT ![l] = "over"]
     \/ /\ Withdrawable(l) /\ IoMayFail
        /\ Unlink
        /\ call' = [call EXCEPT ![l] = "over"]
     \/ /\ Held /\ (IoMayFail \/ ~Withdrawable(l))
        /\ KeepFile
        /\ call' = [call EXCEPT ![l] = "stuck"]
  /\ UNCHANGED <<named, accounted, of, gen, slot, tree, rec>>

-----------------------------------------------------------------------------
(***************************************************************************)
(* recoverStaleLease: the lease is read, then its ledger, then the processes  *)
(* the ledger names are probed; the lease is removed if it is still the one     *)
(* that was read.                                                            *)
(***************************************************************************)
AssessLease ==
  /\ rec.at = "idle"
  /\ lease # 0 /\ ~running
  /\ rec' = [at |-> "leased", epoch |-> lease]
  /\ UNCHANGED <<named, accounted, file, call, of, gen, slot, tree>>

Quiet(ls) == \A l \in ls : tree[l] \notin AliveTrees

AssessSafe ==
  /\ rec.at = "leased"
  /\ Licensing(rec.epoch)
  /\ Quiet(Named)
  /\ rec' = [rec EXCEPT !.at = "safe"]
  /\ UNCHANGED <<named, accounted, file, call, of, gen, slot, tree>>

AssessUnsafe ==
  /\ rec.at = "leased"
  /\ ~Licensing(rec.epoch) \/ ~Quiet(Named) \/ IoMayFail
  /\ rec' = [at |-> "idle", epoch |-> 0]
  /\ UNCHANGED <<named, accounted, file, call, of, gen, slot, tree>>

Recover ==
  /\ rec.at = "safe"
  /\ lease' = IF lease = rec.epoch THEN 0 ELSE lease
  /\ rec' = [at |-> "idle", epoch |-> 0]
  /\ UNCHANGED <<epoch, running, boundary, accounted, file, call, of, gen, slot, tree>>

-----------------------------------------------------------------------------

Processes(l) ==
  TargetStarts(l) \/ ChildExits(l) \/ TreeEnds(l) \/ HelperDies(l) \/ OwnerWatch(l)

Owner(l) ==
  \/ OpenGeneration(l)
  \/ Announce(l) \/ AnnounceDiscards(l) \/ Unaccounted(l) \/ AnnounceRefused(l)
  \/ Spawn(l) \/ SeeEstablished(l)
  \/ NothingRan(l) \/ EndProved(l) \/ EndUnproved(l) \/ EstablishTimeout(l)
  \/ Confirm(l) \/ Withdraw(l)

Recovery == AssessLease \/ AssessSafe \/ AssessUnsafe \/ Recover

Next ==
  \/ Acquire \/ Release \/ Crash
  \/ \E l \in Launch : Owner(l) \/ Processes(l)
  \/ Recovery

Spec == Init /\ [][Next]_vars

(***************************************************************************)
(* The helper's watcher thread waits on the owner's handle, and a recovery is  *)
(* tried again by every invocation that meets the lease; a read it needs is     *)
(* not refused for ever.                                                     *)
(***************************************************************************)
FairSpec ==
  /\ Spec
  /\ \A l \in Launch : WF_vars(OwnerWatch(l))
  /\ WF_vars(AssessLease) /\ SF_vars(AssessSafe) /\ WF_vars(AssessUnsafe) /\ WF_vars(Recover)

-----------------------------------------------------------------------------

EntryType == [state : {"PENDING", "ESTABLISHED", "CONTAINED"}, by : Launch \cup {NoLaunch}]
OpenType == [slot : Nat, state : {"ANNOUNCED", "ESTABLISHED"}, by : Launch \cup {NoLaunch}]

TypeOK ==
  /\ epoch \in 0..MaxEpochs
  /\ lease \in 0..MaxEpochs
  /\ running \in BOOLEAN /\ boundary \in BOOLEAN /\ accounted \in BOOLEAN
  /\ book \in 0..MaxEpochs
  /\ complete \in BOOLEAN
  /\ entries \in Seq(EntryType)
  /\ open \in SUBSET OpenType
  /\ next \in Nat \ {0}
  /\ call \in [Launch -> Calls]
  /\ of \in [Launch -> 0..MaxEpochs]
  /\ gen \in [Launch -> Nat]
  /\ slot \in [Launch -> Nat]
  /\ tree \in [Launch -> Trees]
  /\ rec \in [at : {"idle", "leased", "safe"}, epoch : 0..MaxEpochs]

(***************************************************************************)
(* A recovery that is about to remove a lease removes nothing from under a     *)
(* running process: nothing the dead owner started in that epoch is alive,      *)
(* whatever died, failed or was discarded between announcement and ending       *)
(* (assessStaleLeaseRecoveryBound, endingWasAccountedFor).                     *)
(***************************************************************************)
SafeMeansQuiet ==
  rec.at = "safe" => \A l \in Launch : of[l] = rec.epoch => tree[l] \notin AliveTrees

(***************************************************************************)
(* A launch that went ahead without a record did so beside a file that        *)
(* licenses no recovery, then and later (the rule ANNOUNCEMENT_DISPOSITION    *)
(* states; a rebuilt history never becomes complete again).                  *)
(***************************************************************************)
Unrecorded(l) == of[l] # 0 /\ slot[l] = 0 /\ tree[l] # "none"

UnrecordedIsNeverLicensed ==
  \A l \in Launch : Unrecorded(l) => ~Licensing(of[l])

(***************************************************************************)
(* The lease of an owner that died while its file licenses a recovery is       *)
(* recovered: the processes it names end by themselves or with their owner.    *)
(***************************************************************************)
LicensedIsRecovered ==
  \A e \in 1..MaxEpochs :
    (epoch = e /\ lease = e /\ ~running /\ Licensing(e)) ~> (lease # e)
=============================================================================
