--------------------------- MODULE ExecutionLease ---------------------------
(***************************************************************************)
(* The repository execution lease of src/src/lease/execution-lease.ts: one  *)
(* file in the Git common directory that says which orchestrator process    *)
(* may produce effects in a repository.  Several processes acquire it, act   *)
(* under it, release it, die holding it, and recover the lease of a process  *)
(* that died.                                                               *)
(*                                                                         *)
(* A file is an object of the file system: its identity is the process that *)
(* created it and a per-process number.  The record an acquisition writes   *)
(* carries a fresh 32-byte nonce, so the identity of the object it is first  *)
(* written to stands for that nonce; a copy of a record is another object    *)
(* with the same content.  Every step is one system call of the code that    *)
(* another process can observe; work on a name only the caller knows (the    *)
(* staged file, the discarded quarantine) is folded into the visible call.   *)
(***************************************************************************)
EXTENDS Naturals, FiniteSets

CONSTANTS
  Proc,         \* the orchestrator processes of one host
  Recoverers,   \* those whose invocation carries the stale-lease grant
  MaxFiles,     \* bound: files one process creates over its life
  LinkRefused,  \* the processes whose links may be refused for a reason other than EEXIST
  IoMayFail,    \* a rename, read, write or unlink may be refused
  None,         \* no file
  Blank         \* the content of a file whose record is not written

ASSUME LeaseAssumption ==
  /\ Recoverers \subseteq Proc
  /\ MaxFiles \in Nat
  /\ LinkRefused \subseteq Proc
  /\ IoMayFail \in BOOLEAN
  /\ None # Blank
  /\ None \notin Proc \X (1..MaxFiles)
  /\ Blank \notin Proc \X (1..MaxFiles)

File  == Proc \X (1..MaxFiles)
Owner(n) == n[1]

Phases == {"idle", "refused", "assess", "held", "effect", "stopped",
           "detach", "inspect", "discard", "restore", "copying", "dead"}

VARIABLES
  lease,    \* the object at the lease name, or None
  content,  \* the record in each object
  made,     \* how many objects each process has created
  kept,     \* the quarantine files that were left behind
  aside,    \* the object a process has detached and is deciding about
  seen,     \* what it read there
  want,     \* the nonce its removal predicate accepts
  ev,       \* the nonce its lease evidence carries
  pc,       \* where it is
  told      \* what its last refused acquisition was answered

vars == <<lease, content, made, kept, aside, seen, want, ev, pc, told>>

Alive(p) == pc[p] # "dead"

\* verifyExecutionLeaseHeldFor: the name holds the record of this evidence.
HeldBy(p) == lease # None /\ content[lease] = ev[p]

Fresh(p) == <<p, made[p] + 1>>

-----------------------------------------------------------------------------

Init ==
  /\ lease = None
  /\ content = [f \in File |-> Blank]
  /\ made = [p \in Proc |-> 0]
  /\ kept = {}
  /\ aside = [p \in Proc |-> None]
  /\ seen = [p \in Proc |-> None]
  /\ want = [p \in Proc |-> None]
  /\ ev = [p \in Proc |-> None]
  /\ pc = [p \in Proc |-> "idle"]
  /\ told = [p \in Proc |-> "nothing"]

\* The end of a removal, whatever its outcome: the caller has spent its evidence.
Conclude(p) ==
  /\ aside' = [aside EXCEPT ![p] = None]
  /\ seen' = [seen EXCEPT ![p] = None]
  /\ want' = [want EXCEPT ![p] = None]
  /\ ev' = [ev EXCEPT ![p] = None]
  /\ pc' = [pc EXCEPT ![p] = "idle"]
  /\ UNCHANGED told

(***************************************************************************)
(* Acquisition.  The record is staged whole under a private name and linked  *)
(* onto the lease name, which succeeds only when the name is free.           *)
(***************************************************************************)
Acquire(p) ==
  /\ pc[p] = "idle"
  /\ made[p] < MaxFiles
  /\ lease = None
  /\ lease' = Fresh(p)
  /\ content' = [content EXCEPT ![Fresh(p)] = Fresh(p)]
  /\ made' = [made EXCEPT ![p] = @ + 1]
  /\ ev' = [ev EXCEPT ![p] = Fresh(p)]
  /\ pc' = [pc EXCEPT ![p] = "held"]
  /\ UNCHANGED <<kept, aside, seen, want, told>>

\* The link answered EEXIST.
Collide(p) ==
  /\ pc[p] = "idle"
  /\ made[p] < MaxFiles
  /\ lease # None
  /\ pc' = [pc EXCEPT ![p] = "refused"]
  /\ UNCHANGED <<lease, content, made, kept, aside, seen, want, ev, told>>

(***************************************************************************)
(* refusalForExistingLease reads the name again to say which refusal the     *)
(* collision earns.  A probe of a process that runs may be answered          *)
(* UNDETERMINED, and the pid of a dead one may belong to a stranger.          *)
(***************************************************************************)
Diagnose(p) ==
  /\ pc[p] = "refused"
  /\ \E answer \in {"LEASE_HELD", "STALE_LEASE_RECOVERY_UNSAFE"} :
       /\ answer = "LEASE_HELD" => lease # None /\ content[lease] # Blank
       /\ told' = [told EXCEPT ![p] = answer]
       /\ pc' = [pc EXCEPT ![p] =
                   IF answer = "STALE_LEASE_RECOVERY_UNSAFE" /\ p \in Recoverers
                   THEN "assess" ELSE "idle"]
  /\ UNCHANGED <<lease, content, made, kept, aside, seen, want, ev>>

-----------------------------------------------------------------------------

\* A checkpoint before an effect: the lease must still be this run's.
Checkpoint(p) ==
  /\ pc[p] = "held"
  /\ HeldBy(p)
  /\ pc' = [pc EXCEPT ![p] = "effect"]
  /\ UNCHANGED <<lease, content, made, kept, aside, seen, want, ev, told>>

CheckpointRefused(p) ==
  /\ pc[p] = "held"
  /\ ~HeldBy(p) \/ IoMayFail
  /\ pc' = [pc EXCEPT ![p] = "stopped"]
  /\ UNCHANGED <<lease, content, made, kept, aside, seen, want, ev, told>>

EndEffect(p) ==
  /\ pc[p] = "effect"
  /\ pc' = [pc EXCEPT ![p] = "held"]
  /\ UNCHANGED <<lease, content, made, kept, aside, seen, want, ev, told>>

\* releaseRepositoryExecutionLease verifies first; only a held lease is removed.
BeginRelease(p) ==
  /\ pc[p] \in {"held", "stopped"}
  /\ HeldBy(p)
  /\ want' = [want EXCEPT ![p] = ev[p]]
  /\ pc' = [pc EXCEPT ![p] = "detach"]
  /\ UNCHANGED <<lease, content, made, kept, aside, seen, ev, told>>

ReleaseRefused(p) ==
  /\ pc[p] \in {"held", "stopped"}
  /\ ~HeldBy(p) \/ IoMayFail
  /\ Conclude(p)
  /\ UNCHANGED <<lease, content, made, kept>>

(***************************************************************************)
(* assessStaleLeaseRecoveryBound as recoverStaleLease calls it.  SAFE needs  *)
(* a record that parses and an owner that is observed not to exist; the       *)
(* launch history, which can only add a refusal, is module LaunchLedger.      *)
(***************************************************************************)
AssessAnyOwner(p) ==
  /\ pc[p] = "assess"
  /\ lease # None
  /\ content[lease] # Blank
  /\ want' = [want EXCEPT ![p] = content[lease]]
  /\ pc' = [pc EXCEPT ![p] = "detach"]
  /\ UNCHANGED <<lease, content, made, kept, aside, seen, ev, told>>

AssessSafe(p) ==
  /\ pc[p] = "assess"
  /\ lease # None
  /\ content[lease] # Blank
  /\ ~Alive(Owner(content[lease]))
  /\ want' = [want EXCEPT ![p] = content[lease]]
  /\ pc' = [pc EXCEPT ![p] = "detach"]
  /\ UNCHANGED <<lease, content, made, kept, aside, seen, ev, told>>

AssessUnsafe(p) ==
  /\ pc[p] = "assess"
  /\ pc' = [pc EXCEPT ![p] = "idle"]
  /\ UNCHANGED <<lease, content, made, kept, aside, seen, want, ev, told>>

-----------------------------------------------------------------------------
(***************************************************************************)
(* removeVerifiedLease: detach whatever is at the name, look at it, delete    *)
(* it only when it is what the predicate accepts, otherwise put it back       *)
(* without ever overwriting the name.                                        *)
(***************************************************************************)
Detach(p) ==
  /\ pc[p] = "detach"
  /\ lease # None
  /\ aside' = [aside EXCEPT ![p] = lease]
  /\ lease' = None
  /\ pc' = [pc EXCEPT ![p] = "inspect"]
  /\ UNCHANGED <<content, made, kept, seen, want, ev, told>>

\* ABSENT, and DETACH_FAILED when the rename itself is refused.
DetachNothing(p) ==
  /\ pc[p] = "detach"
  /\ lease = None \/ IoMayFail
  /\ Conclude(p)
  /\ UNCHANGED <<lease, content, made, kept>>

\* The removal predicate of both callers: the record's nonce is the one verified.
MatchesAnything(p, bytes) == bytes # None
Matches(p, bytes) == bytes = want[p]

Inspect(p) ==
  /\ pc[p] = "inspect"
  /\ \E bytes \in {content[aside[p]]} \cup (IF IoMayFail THEN {None} ELSE {}) :
       /\ seen' = [seen EXCEPT ![p] = bytes]
       /\ pc' = [pc EXCEPT ![p] = IF Matches(p, bytes) THEN "discard" ELSE "restore"]
  /\ UNCHANGED <<lease, content, made, kept, aside, want, ev, told>>

\* REMOVED.  The unlink is best effort; a file it leaves is read by nobody.
Discard(p) ==
  /\ pc[p] = "discard"
  /\ kept' \in {kept} \cup (IF IoMayFail THEN {kept \cup {aside[p]}} ELSE {})
  /\ Conclude(p)
  /\ UNCHANGED <<lease, content, made>>

\* CHANGED and UNIDENTIFIABLE: the link put the detached object back.
Relink(p) ==
  /\ pc[p] = "restore"
  /\ lease = None
  /\ lease' = aside[p]
  /\ Conclude(p)
  /\ UNCHANGED <<content, made, kept>>

\* The name was taken meanwhile, or no restore was possible: the object is kept.
DiscardQuarantined(p) ==
  /\ pc[p] = "restore"
  /\ lease # None \/ (p \in LinkRefused /\ (seen[p] = None \/ IoMayFail))
  /\ Conclude(p)
  /\ UNCHANGED <<lease, content, made, kept>>

KeepQuarantined(p) ==
  /\ pc[p] = "restore"
  /\ lease # None \/ (p \in LinkRefused /\ (seen[p] = None \/ IoMayFail))
  /\ kept' = kept \cup {aside[p]}
  /\ Conclude(p)
  /\ UNCHANGED <<lease, content, made>>

(***************************************************************************)
(* putBack's second mechanism: the link was refused, so the record is         *)
(* written anew with an exclusive create.  The create and the write are two   *)
(* system calls, and between them the name holds a file without a record.     *)
(***************************************************************************)
CreateCopy(p) ==
  /\ pc[p] = "restore"
  /\ p \in LinkRefused
  /\ seen[p] # None
  /\ lease = None
  /\ made[p] < MaxFiles
  /\ lease' = Fresh(p)
  /\ made' = [made EXCEPT ![p] = @ + 1]
  /\ pc' = [pc EXCEPT ![p] = "copying"]
  /\ UNCHANGED <<content, kept, aside, seen, want, ev, told>>

WriteCopy(p) ==
  /\ pc[p] = "copying"
  /\ content' = [content EXCEPT ![<<p, made[p]>>] = seen[p]]
  /\ Conclude(p)
  /\ UNCHANGED <<lease, made, kept>>

WriteCopyFails(p) ==
  /\ pc[p] = "copying"
  /\ IoMayFail
  /\ kept' = kept \cup {aside[p]}
  /\ Conclude(p)
  /\ UNCHANGED <<lease, content, made>>

\* The process dies between two calls; what it had detached stays in quarantine.
Crash(p) ==
  /\ Alive(p)
  /\ kept' = IF aside[p] = None THEN kept ELSE kept \cup {aside[p]}
  /\ aside' = [aside EXCEPT ![p] = None]
  /\ seen' = [seen EXCEPT ![p] = None]
  /\ want' = [want EXCEPT ![p] = None]
  /\ ev' = [ev EXCEPT ![p] = None]
  /\ pc' = [pc EXCEPT ![p] = "dead"]
  /\ UNCHANGED <<lease, content, made, told>>

Removal(p) ==
  \/ Detach(p) \/ DetachNothing(p) \/ Inspect(p) \/ Discard(p) \/ Relink(p)
  \/ KeepQuarantined(p) \/ CreateCopy(p) \/ WriteCopy(p) \/ WriteCopyFails(p)

Next ==
  \E p \in Proc :
    \/ Acquire(p) \/ Collide(p) \/ Diagnose(p)
    \/ Checkpoint(p) \/ CheckpointRefused(p) \/ EndEffect(p) \/ BeginRelease(p) \/ ReleaseRefused(p)
    \/ AssessSafe(p) \/ AssessUnsafe(p)
    \/ Removal(p)
    \/ Crash(p)

Spec == Init /\ [][Next]_vars

-----------------------------------------------------------------------------

TypeOK ==
  /\ lease \in File \cup {None}
  /\ content \in [File -> File \cup {Blank}]
  /\ made \in [Proc -> 0..MaxFiles]
  /\ kept \in SUBSET File
  /\ aside \in [Proc -> File \cup {None}]
  /\ seen \in [Proc -> File \cup {Blank, None}]
  /\ want \in [Proc -> File \cup {None}]
  /\ ev \in [Proc -> File \cup {None}]
  /\ pc \in [Proc -> Phases]
  /\ told \in [Proc -> {"nothing", "LEASE_HELD", "STALE_LEASE_RECOVERY_UNSAFE"}]

\* The files of the administrative directory that a record can be found in.
Stored == (({lease} \cup {aside[p] : p \in Proc}) \ {None}) \cup kept
OnRecord(n) == \E f \in Stored : content[f] = n

(***************************************************************************)
(* While a process runs under a lease it has not removed itself, its record   *)
(* is in a file: at the lease name, detached by a removal that will look at    *)
(* it, or kept in quarantine.  No release and no recovery of somebody else's   *)
(* lease destroys it (the rule of removeVerifiedLease).                       *)
(***************************************************************************)
LiveRecordKept ==
  \A p \in Proc : ev[p] # None /\ pc[p] # "discard" => OnRecord(ev[p])

(***************************************************************************)
(* A record leaves the directory only because its owner removes it or its     *)
(* owner is dead: no race of recoveries and releases deletes the lease of a    *)
(* running process, not even of one that has given it up unread.               *)
(***************************************************************************)
NoForeignDestruction ==
  [][\A n \in File :
       OnRecord(n) /\ ~(OnRecord(n))' =>
         ~Alive(Owner(n)) \/ (pc[Owner(n)] = "discard" /\ want[Owner(n)] = n)]_vars

\* Only a process that has been refused an acquisition goes on to a recovery.
OneMayHaveRecovered ==
  \A p, q \in Recoverers : told[p] # "nothing" /\ told[q] # "nothing" => p = q

(***************************************************************************)
(* At most one process is inside an effect it checked the lease for, through  *)
(* releases, crashes and the recoveries of one process: it takes a second     *)
(* process that was refused and may recover to make two effects overlap.      *)
(***************************************************************************)
ExclusiveEffects ==
  OneMayHaveRecovered =>
    \A p, q \in Proc : pc[p] = "effect" /\ pc[q] = "effect" => p = q

(***************************************************************************)
(* Recoveries that race can displace a running writer, and so can a release    *)
(* whose own lease was displaced after it was verified; then two effects        *)
(* overlap.  Of two that do, one is no longer confirmed by the lease name, so   *)
(* its next checkpoint stops it, and its record is not lost: it is in           *)
(* quarantine, or a removal that is still deciding holds it (the residual that   *)
(* removeVerifiedLease documents).                                             *)
(***************************************************************************)
DisplacedIsStoppedAndKept ==
  \A p, q \in Proc :
    pc[p] = "effect" /\ pc[q] = "effect" /\ p # q =>
      \E d \in {p, q} :
        /\ ~HeldBy(d)
        /\ \/ \E f \in kept : content[f] = ev[d]
           \/ \E r \in Proc : aside[r] # None /\ content[aside[r]] = ev[d]
=============================================================================
