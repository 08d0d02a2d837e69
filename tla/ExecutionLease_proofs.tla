----------------------- MODULE ExecutionLease_proofs -----------------------
(***************************************************************************)
(* What is proved of the repository execution lease for every set of         *)
(* processes and every number of files (module ExecutionLease):              *)
(*   - the type invariant;                                                   *)
(*   - until a second process may have recovered a stale lease, the lease     *)
(*     excludes: two effects never overlap (ExclusiveEffects);                *)
(*   - with any number of them, on a file system whose links are not refused,  *)
(*     the record of a running process is never lost (LiveRecordKept) and no   *)
(*     removal destroys somebody else's lease (NoForeignDestruction).          *)
(***************************************************************************)
EXTENDS ExecutionLease, TLAPS

LEMMA FreshIsAFile ==
  ASSUME TypeOK, NEW p \in Proc, made[p] < MaxFiles
  PROVE  /\ Fresh(p) \in File
         /\ Owner(Fresh(p)) = p
         /\ Fresh(p)[2] = made[p] + 1
         /\ Fresh(p) # None /\ Fresh(p) # Blank
  BY LeaseAssumption DEF TypeOK, Fresh, File, Owner

LEMMA OwnerIsAProcess == \A f \in File : Owner(f) \in Proc
  BY DEF File, Owner

LEMMA FilesAreFiles == None \notin File /\ Blank \notin File /\ None # Blank
  BY LeaseAssumption DEF File

\* TypeOK is not inductive alone: a removal that decides has an object in its
\* hands, and one that copies a record has read it.
InHand ==
  \A p \in Proc :
    /\ pc[p] \in {"inspect", "discard", "restore", "copying"} => aside[p] # None
    /\ pc[p] = "copying" => seen[p] # None /\ made[p] \in 1..MaxFiles

TypeInv == TypeOK /\ InHand

\* Giving up, refusing and reading keep every variable in its type.
LEMMA ConcludeType ==
  ASSUME TypeOK, NEW p \in Proc, Conclude(p)
  PROVE  /\ aside' \in [Proc -> File \cup {None}]
         /\ seen' \in [Proc -> File \cup {Blank, None}]
         /\ want' \in [Proc -> File \cup {None}]
         /\ ev' \in [Proc -> File \cup {None}]
         /\ pc' \in [Proc -> Phases]
         /\ told' \in [Proc -> {"nothing", "LEASE_HELD", "STALE_LEASE_RECOVERY_UNSAFE"}]
  BY DEF TypeOK, Conclude, Phases

LEMMA ConcludeInHand ==
  ASSUME TypeInv, NEW p \in Proc, Conclude(p), UNCHANGED made
  PROVE  InHand'
  BY DEF TypeInv, TypeOK, InHand, Conclude

LEMMA TypeInvInductive ==
  ASSUME TypeInv, [Next]_vars
  PROVE  TypeInv'
<1>1. ASSUME NEW p \in Proc, Acquire(p) PROVE TypeInv'
  <2>1. Fresh(p) \in File /\ made[p] + 1 \in 1..MaxFiles
    BY <1>1, FreshIsAFile, LeaseAssumption DEF Acquire, TypeInv, TypeOK
  <2> QED BY <1>1, <2>1, FilesAreFiles DEF Acquire, TypeInv, TypeOK, InHand, Phases
<1>2. ASSUME NEW p \in Proc, Collide(p) PROVE TypeInv'
  BY <1>2 DEF Collide, TypeInv, TypeOK, InHand, Phases
<1>3. ASSUME NEW p \in Proc, Diagnose(p) PROVE TypeInv'
  BY <1>3 DEF Diagnose, TypeInv, TypeOK, InHand, Phases
<1>4. ASSUME NEW p \in Proc, Checkpoint(p) PROVE TypeInv'
  BY <1>4 DEF Checkpoint, TypeInv, TypeOK, InHand, Phases
<1>5. ASSUME NEW p \in Proc, CheckpointRefused(p) PROVE TypeInv'
  BY <1>5 DEF CheckpointRefused, TypeInv, TypeOK, InHand, Phases
<1>6. ASSUME NEW p \in Proc, EndEffect(p) PROVE TypeInv'
  BY <1>6 DEF EndEffect, TypeInv, TypeOK, InHand, Phases
<1>7. ASSUME NEW p \in Proc, BeginRelease(p) PROVE TypeInv'
  BY <1>7 DEF BeginRelease, TypeInv, TypeOK, InHand, Phases
<1>8. ASSUME NEW p \in Proc, ReleaseRefused(p) PROVE TypeInv'
  BY <1>8, ConcludeType, ConcludeInHand DEF ReleaseRefused, TypeInv, TypeOK
<1>9. ASSUME NEW p \in Proc, AssessSafe(p) PROVE TypeInv'
  BY <1>9 DEF AssessSafe, TypeInv, TypeOK, InHand, Phases
<1>10. ASSUME NEW p \in Proc, AssessUnsafe(p) PROVE TypeInv'
  BY <1>10 DEF AssessUnsafe, TypeInv, TypeOK, InHand, Phases
<1>11. ASSUME NEW p \in Proc, Detach(p) PROVE TypeInv'
  BY <1>11 DEF Detach, TypeInv, TypeOK, InHand, Phases
<1>12. ASSUME NEW p \in Proc, DetachNothing(p) PROVE TypeInv'
  BY <1>12, ConcludeType, ConcludeInHand DEF DetachNothing, TypeInv, TypeOK
<1>13. ASSUME NEW p \in Proc, Inspect(p) PROVE TypeInv'
  BY <1>13, FilesAreFiles DEF Inspect, TypeInv, TypeOK, InHand, Phases
<1>14. ASSUME NEW p \in Proc, Discard(p) PROVE TypeInv'
  <2>1. pc[p] \in {"inspect", "discard", "restore", "copying"} /\ Conclude(p) /\ UNCHANGED made
    BY <1>14 DEF Discard
  <2>2. aside[p] \in File
    BY <2>1 DEF TypeInv, TypeOK, InHand
  <2> QED BY <1>14, <2>1, <2>2, ConcludeType, ConcludeInHand DEF Discard, TypeInv, TypeOK
<1>15. ASSUME NEW p \in Proc, Relink(p) PROVE TypeInv'
  BY <1>15, ConcludeType, ConcludeInHand DEF Relink, TypeInv, TypeOK
<1>16. ASSUME NEW p \in Proc, KeepQuarantined(p) PROVE TypeInv'
  <2>1. pc[p] \in {"inspect", "discard", "restore", "copying"} /\ Conclude(p) /\ UNCHANGED made
    BY <1>16 DEF KeepQuarantined
  <2>2. aside[p] \in File
    BY <2>1 DEF TypeInv, TypeOK, InHand
  <2> QED BY <1>16, <2>1, <2>2, ConcludeType, ConcludeInHand DEF KeepQuarantined, TypeInv, TypeOK
<1>17. ASSUME NEW p \in Proc, CreateCopy(p) PROVE TypeInv'
  <2>1. Fresh(p) \in File /\ made[p] + 1 \in 1..MaxFiles
    BY <1>17, FreshIsAFile, LeaseAssumption DEF CreateCopy, TypeInv, TypeOK
  <2> QED BY <1>17, <2>1, FilesAreFiles DEF CreateCopy, TypeInv, TypeOK, InHand, Phases
<1>18. ASSUME NEW p \in Proc, WriteCopy(p) PROVE TypeInv'
  <2>1. <<p, made[p]>> \in File /\ seen[p] \in File \cup {Blank}
    BY <1>18 DEF WriteCopy, TypeInv, TypeOK, InHand, File
  <2> QED BY <1>18, <2>1, ConcludeType, ConcludeInHand DEF WriteCopy, TypeInv, TypeOK
<1>19. ASSUME NEW p \in Proc, WriteCopyFails(p) PROVE TypeInv'
  <2>1. pc[p] \in {"inspect", "discard", "restore", "copying"} /\ Conclude(p) /\ UNCHANGED made
    BY <1>19 DEF WriteCopyFails
  <2>2. aside[p] \in File
    BY <2>1 DEF TypeInv, TypeOK, InHand
  <2> QED BY <1>19, <2>1, <2>2, ConcludeType, ConcludeInHand DEF WriteCopyFails, TypeInv, TypeOK
<1>20. ASSUME NEW p \in Proc, Crash(p) PROVE TypeInv'
  BY <1>20 DEF Crash, TypeInv, TypeOK, InHand, Phases
<1>21. CASE UNCHANGED vars
  BY <1>21 DEF vars, TypeInv, TypeOK, InHand
<1> QED
  BY <1>1, <1>2, <1>3, <1>4, <1>5, <1>6, <1>7, <1>8, <1>9, <1>10, <1>11,
     <1>12, <1>13, <1>14, <1>15, <1>16, <1>17, <1>18, <1>19, <1>20, <1>21 DEF Next, Removal

(***************************************************************************)
(* Every variable keeps its type (module ExecutionLease, TypeOK).             *)
(***************************************************************************)
THEOREM TypeCorrect == Spec => []TypeOK
<1>1. Init => TypeInv
  BY LeaseAssumption DEF Init, TypeInv, TypeOK, InHand, Phases
<1>2. TypeInv /\ [Next]_vars => TypeInv'
  BY TypeInvInductive
<1>3. TypeInv => TypeOK
  BY DEF TypeInv
<1> QED BY <1>1, <1>2, <1>3, PTL DEF Spec

-----------------------------------------------------------------------------
(***************************************************************************)
(* One recoverer.  The invariant says where the lease is while a process       *)
(* believes anything about it: under the name from the acquisition until its  *)
(* owner, or the only recoverer of a dead owner, detaches it.  It holds as    *)
(* long as OneMayHaveRecovered does, which no step makes true again.           *)
(***************************************************************************)

\* A file exists once its creator has counted it.
Made(f) == f[2] <= made[f[1]]

\* A record is where it was first written, whole: no copy has been made.
Originals == \A f \in File : Made(f) => content[f] = f

\* What a removal is entitled to take: its own lease, or that of a dead process.
MayTake(p, n) ==
  /\ n \in File /\ Made(n)
  /\ \/ ev[p] = n
     \/ /\ ev[p] = None /\ ~Alive(Owner(n))
        /\ p \in Recoverers /\ told[p] # "nothing"

Holding(p) ==
  /\ ev[p] # None => Owner(ev[p]) = p
  /\ pc[p] \in {"idle", "refused", "assess", "dead"} => ev[p] = None
  /\ pc[p] = "assess" => p \in Recoverers /\ told[p] # "nothing"
  /\ pc[p] \in {"held", "effect", "stopped"} => ev[p] # None /\ lease = ev[p]
  /\ pc[p] = "detach" => lease = want[p] /\ MayTake(p, want[p])
  /\ pc[p] \in {"inspect", "discard", "restore"} =>
       aside[p] = want[p] /\ MayTake(p, want[p])
  /\ pc[p] = "restore" => seen[p] = None
  /\ pc[p] # "copying"

LeaseInv ==
  /\ TypeInv
  /\ Originals
  /\ lease # None => Made(lease)
  /\ \A p \in Proc : Holding(p)

\* An acquisition makes exactly one file, which did not exist before.
LEMMA AcquireMakes ==
  ASSUME TypeInv, NEW p \in Proc, Acquire(p)
  PROVE  /\ Fresh(p) \in File /\ Fresh(p) # None /\ Owner(Fresh(p)) = p
         /\ ~Made(Fresh(p))
         /\ \A f \in File : Made(f)' <=> Made(f) \/ f = Fresh(p)
<1>1. /\ Fresh(p) \in File /\ Owner(Fresh(p)) = p /\ Fresh(p)[1] = p
      /\ Fresh(p)[2] = made[p] + 1 /\ Fresh(p) # None
  BY FreshIsAFile DEF Acquire, TypeInv, Owner
<1>2. ASSUME NEW f \in File PROVE Made(f)' <=> Made(f) \/ f = Fresh(p)
  <2>1. f[1] \in Proc /\ f[2] \in Nat /\ f = <<f[1], f[2]>>
    BY LeaseAssumption DEF File
  <2>2. made \in [Proc -> Nat] /\ made' = [made EXCEPT ![p] = @ + 1]
    BY DEF Acquire, TypeInv, TypeOK
  <2>3. CASE f[1] # p
    BY <1>1, <2>1, <2>2, <2>3 DEF Made
  <2>4. CASE f[1] = p
    <3>1. Made(f)' <=> f[2] <= made[p] + 1
      BY <2>1, <2>2, <2>4 DEF Made
    <3>2. f = Fresh(p) <=> f[2] = made[p] + 1
      BY <2>1, <2>4 DEF Fresh
    <3> QED BY <2>1, <2>2, <2>4, <3>1, <3>2 DEF Made
  <2> QED BY <2>3, <2>4
<1>3. ~Made(Fresh(p))
  BY <1>1 DEF TypeInv, TypeOK, Made
<1> QED BY <1>1, <1>2, <1>3

LEMMA LeaseInvInductive ==
  ASSUME OneMayHaveRecovered, LeaseInv, TypeInv', [Next]_vars
  PROVE  LeaseInv'
<1>1. ASSUME NEW p \in Proc, Acquire(p) PROVE LeaseInv'
  <2>1. TypeInv
    BY DEF LeaseInv
  <2>2. Originals' /\ (lease # None => Made(lease))'
    BY <1>1, <2>1, AcquireMakes DEF Acquire, LeaseInv, TypeInv, TypeOK, Originals
  <2>3. ASSUME NEW q \in Proc PROVE Holding(q)'
    <3>1. Holding(q)
      BY DEF LeaseInv
    <3>2. CASE q = p
      BY <1>1, <2>1, <3>1, <3>2, AcquireMakes DEF Acquire, TypeInv, TypeOK, Holding
    <3>3. CASE q # p
      <4>1. pc[q] \notin {"held", "effect", "stopped", "detach"}
        BY <1>1, <3>1, FilesAreFiles DEF Acquire, Holding, MayTake
      <4>2. \A n \in File : MayTake(q, n) => MayTake(q, n)'
        BY <1>1, <2>1, <3>3, AcquireMakes, OwnerIsAProcess
        DEF Acquire, MayTake, TypeInv, TypeOK, Alive
      <4> QED
        BY <1>1, <2>1, <3>1, <3>3, <4>1, <4>2 DEF Acquire, Holding, TypeInv, TypeOK, MayTake
    <3> QED BY <3>2, <3>3
  <2> QED BY <2>2, <2>3 DEF LeaseInv
<1>2. ASSUME NEW p \in Proc, Collide(p) PROVE LeaseInv'
   BY <1>2 DEF Collide, LeaseInv, Originals, Made, MayTake, Holding, Alive
<1>3. ASSUME NEW p \in Proc, Diagnose(p) PROVE LeaseInv'
  BY <1>3 DEF Diagnose, LeaseInv, TypeInv, TypeOK, Originals, Made, MayTake, Holding,
     Alive
<1>4. ASSUME NEW p \in Proc, Checkpoint(p) PROVE LeaseInv'
   BY <1>4 DEF Checkpoint, LeaseInv, Originals, Made, MayTake, Holding, Alive
<1>5. ASSUME NEW p \in Proc, CheckpointRefused(p) PROVE LeaseInv'
   BY <1>5 DEF CheckpointRefused, LeaseInv, Originals, Made, MayTake, Holding, Alive
<1>6. ASSUME NEW p \in Proc, EndEffect(p) PROVE LeaseInv'
   BY <1>6 DEF EndEffect, LeaseInv, Originals, Made, MayTake, Holding, Alive
<1>7. ASSUME NEW p \in Proc, BeginRelease(p) PROVE LeaseInv'
  BY <1>7 DEF BeginRelease, LeaseInv, TypeInv, TypeOK, Originals, Made, MayTake, Holding,
     Alive
<1>8. ASSUME NEW p \in Proc, ReleaseRefused(p) PROVE LeaseInv'
  BY <1>8 DEF ReleaseRefused, LeaseInv, TypeInv, TypeOK, Originals, Made, MayTake,
     Holding, Alive, Conclude
<1>9. ASSUME NEW p \in Proc, AssessSafe(p) PROVE LeaseInv'
  BY <1>9 DEF AssessSafe, LeaseInv, TypeInv, TypeOK, Originals, Made, MayTake, Holding,
     Alive
<1>10. ASSUME NEW p \in Proc, AssessUnsafe(p) PROVE LeaseInv'
   BY <1>10 DEF AssessUnsafe, LeaseInv, Originals, Made, MayTake, Holding, Alive
<1>11. ASSUME NEW p \in Proc, Detach(p) PROVE LeaseInv'
  BY <1>11 DEF Detach, LeaseInv, TypeInv, TypeOK, Originals, Made, MayTake, Holding,
     OneMayHaveRecovered, Alive
<1>12. ASSUME NEW p \in Proc, DetachNothing(p) PROVE LeaseInv'
  BY <1>12 DEF DetachNothing, LeaseInv, TypeInv, TypeOK, Originals, Made, MayTake,
     Holding, Alive, Conclude
<1>13. ASSUME NEW p \in Proc, Inspect(p) PROVE LeaseInv'
  BY <1>13 DEF Inspect, LeaseInv, TypeInv, TypeOK, Originals, Made, MayTake, Holding,
     Alive, Matches
<1>14. ASSUME NEW p \in Proc, Discard(p) PROVE LeaseInv'
  BY <1>14 DEF Discard, LeaseInv, TypeInv, TypeOK, Originals, Made, MayTake, Holding,
     Alive, Conclude
<1>15. ASSUME NEW p \in Proc, Relink(p) PROVE LeaseInv'
  BY <1>15, LeaseAssumption DEF Relink, LeaseInv, TypeInv, TypeOK, Originals, Made,
     MayTake, Holding, Alive, File, Conclude
<1>16. ASSUME NEW p \in Proc, KeepQuarantined(p) PROVE LeaseInv'
  BY <1>16 DEF KeepQuarantined, LeaseInv, TypeInv, TypeOK, Originals, Made, MayTake,
     Holding, Alive, Conclude
<1>17. ASSUME NEW p \in Proc, CreateCopy(p) PROVE LeaseInv'
   BY <1>17 DEF CreateCopy, LeaseInv, Holding
<1>18. ASSUME NEW p \in Proc, WriteCopy(p) PROVE LeaseInv'
   BY <1>18 DEF WriteCopy, LeaseInv, Holding
<1>19. ASSUME NEW p \in Proc, WriteCopyFails(p) PROVE LeaseInv'
   BY <1>19 DEF WriteCopyFails, LeaseInv, Holding
<1>20. ASSUME NEW p \in Proc, Crash(p) PROVE LeaseInv'
   BY <1>20 DEF Crash, LeaseInv, TypeInv, TypeOK, Originals, Made, MayTake, Holding, Alive
<1>21. CASE UNCHANGED vars
  BY <1>21 DEF vars, LeaseInv, Originals, Made, MayTake, Holding, Alive
<1> QED
  BY <1>1, <1>2, <1>3, <1>4, <1>5, <1>6, <1>7, <1>8, <1>9, <1>10, <1>11,
     <1>12, <1>13, <1>14, <1>15, <1>16, <1>17, <1>18, <1>19, <1>20, <1>21 DEF Next, Removal

\* A process that was once refused stays one that was.
LEMMA RefusalIsRemembered ==
  ASSUME TypeInv, [Next]_vars, NEW p \in Recoverers, told[p] # "nothing"
  PROVE  told'[p] # "nothing"
<1>1. told' = told \/ \E q \in Proc : Diagnose(q)
  BY DEF Next, Removal, Acquire, Collide, Checkpoint, CheckpointRefused, EndEffect,
     BeginRelease, ReleaseRefused, AssessSafe, AssessUnsafe, Detach, DetachNothing, Inspect,
     Discard, Relink, KeepQuarantined, CreateCopy, WriteCopy, WriteCopyFails, Crash,
     Conclude, vars
<1>2. p \in Proc
  BY LeaseAssumption
<1> QED BY <1>1, <1>2 DEF Diagnose, TypeInv, TypeOK

(***************************************************************************)
(* Until a second process may have recovered, no two are inside an effect     *)
(* they checked the lease for (ExclusiveEffects;                              *)
(* acquireRepositoryExecutionLease, removeVerifiedLease, recoverStaleLease),   *)
(* whatever files and links fail.                                             *)
(***************************************************************************)
THEOREM EffectsExclude == Spec => []ExclusiveEffects
<1> DEFINE Guarded == TypeInv /\ (OneMayHaveRecovered => LeaseInv)
<1>1. Init => LeaseInv
  <2>1. Init => TypeInv
    BY LeaseAssumption DEF Init, TypeInv, TypeOK, InHand, Phases
  <2>2. ASSUME Init, NEW f \in File PROVE ~Made(f)
    BY <2>2, LeaseAssumption DEF Init, Made, File
  <2>3. Init => \A p \in Proc : Holding(p)
    BY DEF Init, Holding
  <2> QED BY <2>1, <2>2, <2>3 DEF Init, LeaseInv, Originals
<1>2. Init => Guarded
  BY <1>1 DEF LeaseInv
<1>3. ASSUME Guarded, [Next]_vars PROVE Guarded'
  <2>1. OneMayHaveRecovered' => OneMayHaveRecovered
    BY <1>3, RefusalIsRemembered DEF OneMayHaveRecovered
  <2> QED BY <1>3, <2>1, TypeInvInductive, LeaseInvInductive
<1>4. Guarded => ExclusiveEffects
  BY DEF LeaseInv, Holding, ExclusiveEffects
<1> QED BY <1>2, <1>3, <1>4, PTL DEF Spec

-----------------------------------------------------------------------------
(***************************************************************************)
(* Any number of recoverers.  Effects may now overlap (how far is what         *)
(* DisplacedIsStoppedAndKept says), but where links are not refused, so that   *)
(* putBack never copies a record, no removal destroys a record it may not.     *)
(* The invariant ties what a process has detached to what it may take.         *)
(***************************************************************************)
NoCopies == LinkRefused = {}

Entitled(p, n) == n = ev[p] \/ ~Alive(Owner(n))

Removing(p) ==
  /\ ev[p] # None => Owner(ev[p]) = p /\ Made(ev[p]) /\ Alive(p)
  /\ pc[p] \in {"held", "effect", "stopped"} => ev[p] # None
  /\ pc[p] \notin {"inspect", "discard", "restore"} => aside[p] = None
  /\ pc[p] \in {"detach", "inspect", "discard"} => want[p] # None /\ Entitled(p, want[p])
  /\ pc[p] = "discard" => aside[p] = want[p]
  /\ pc[p] # "copying"

RecordInv ==
  /\ TypeInv
  /\ Originals
  /\ \A f \in Stored : Made(f)
  /\ \A p \in Proc : Removing(p)
  /\ \A p \in Proc : ev[p] # None /\ pc[p] # "discard" => ev[p] \in Stored

\* Giving up with nothing detached leaves every file where it was.
LEMMA NothingInHand ==
  ASSUME TypeInv, NEW p \in Proc, aside[p] = None, Conclude(p), UNCHANGED <<lease, kept>>
  PROVE  Stored' = Stored
<1>1. aside' = aside
  BY DEF Conclude, TypeInv, TypeOK
<1> QED BY <1>1 DEF Stored

LEMMA RecordInvInductive ==
  ASSUME NoCopies, RecordInv, TypeInv', [Next]_vars
  PROVE  RecordInv'
<1>1. ASSUME NEW p \in Proc, Acquire(p) PROVE RecordInv'
  <2>1. TypeInv /\ Stored \subseteq File
    BY DEF RecordInv, TypeInv, TypeOK, Stored
  <2>2. Stored' = Stored \cup {Fresh(p)}
    BY <1>1, <2>1, AcquireMakes DEF Acquire, Stored
  <2>3. Originals' /\ (\A f \in Stored : Made(f))'
    BY ZenonT(60), <1>1, <2>1, <2>2, AcquireMakes DEF Acquire, RecordInv, TypeInv, TypeOK, Originals
  <2>4. ASSUME NEW q \in Proc
        PROVE Removing(q)' /\ (ev[q] # None /\ pc[q] # "discard" => ev[q] \in Stored)'
    <3>1. Removing(q) /\ (ev[q] # None /\ pc[q] # "discard" => ev[q] \in Stored)
      BY DEF RecordInv
    <3>2. CASE q = p
      BY <1>1, <2>1, <2>2, <3>1, <3>2, AcquireMakes
      DEF Acquire, TypeInv, TypeOK, Removing, Alive
    <3>3. CASE q # p
      <4>1. \A n \in File : Made(n) => Made(n)'
        BY <1>1, <2>1, AcquireMakes
      <4>2. \A n \in File : Entitled(q, n) => Entitled(q, n)'
        BY <1>1, <2>1, <3>3, OwnerIsAProcess DEF Acquire, Entitled, Alive, TypeInv, TypeOK
      <4> QED
        BY <1>1, <2>1, <2>2, <3>1, <3>3, <4>1, <4>2
        DEF Acquire, Removing, Alive, TypeInv, TypeOK
    <3> QED BY <3>2, <3>3
  <2> QED BY <2>3, <2>4 DEF RecordInv
<1>2. ASSUME NEW p \in Proc, Collide(p) PROVE RecordInv'
   BY <1>2 DEF Collide, RecordInv, Originals, Made, Entitled, Removing, Stored, Alive
<1>3. ASSUME NEW p \in Proc, Diagnose(p) PROVE RecordInv'
   BY <1>3 DEF Diagnose, RecordInv, Originals, Made, Entitled, Removing, Stored, Alive
<1>4. ASSUME NEW p \in Proc, Checkpoint(p) PROVE RecordInv'
   BY <1>4 DEF Checkpoint, RecordInv, Originals, Made, Entitled, Removing, Stored, Alive
<1>5. ASSUME NEW p \in Proc, CheckpointRefused(p) PROVE RecordInv'
  BY <1>5 DEF CheckpointRefused, RecordInv, Originals, Made, Entitled, Removing, Stored,
     Alive
<1>6. ASSUME NEW p \in Proc, EndEffect(p) PROVE RecordInv'
   BY <1>6 DEF EndEffect, RecordInv, Originals, Made, Entitled, Removing, Stored, Alive
<1>7. ASSUME NEW p \in Proc, BeginRelease(p) PROVE RecordInv'
  BY <1>7 DEF BeginRelease, RecordInv, TypeInv, TypeOK, Originals, Made, Entitled,
     Removing, Stored, Alive, HeldBy
<1>8. ASSUME NEW p \in Proc, ReleaseRefused(p) PROVE RecordInv'
  <2>1. Stored' = Stored /\ UNCHANGED made
    BY <1>8, NothingInHand DEF ReleaseRefused, RecordInv, Removing
  <2>2. ASSUME NEW q \in Proc
        PROVE Removing(q)' /\ (ev[q] # None /\ pc[q] # "discard" => ev[q] \in Stored)'
    <3>1. Removing(q) /\ (ev[q] # None /\ pc[q] # "discard" => ev[q] \in Stored)
      BY DEF RecordInv
    <3>2. \A n \in File : q # p /\ Entitled(q, n) => Entitled(q, n)'
      BY <1>8, OwnerIsAProcess
      DEF ReleaseRefused, Conclude, Entitled, Alive, RecordInv, TypeInv, TypeOK
    <3> QED
      BY <1>8, <2>1, <3>1, <3>2
      DEF ReleaseRefused, Conclude, Removing, Made, Alive, RecordInv, TypeInv, TypeOK
  <2> QED BY <1>8, <2>1, <2>2 DEF ReleaseRefused, RecordInv, Originals, Made
<1>9. ASSUME NEW p \in Proc, AssessSafe(p) PROVE RecordInv'
  BY <1>9 DEF AssessSafe, RecordInv, TypeInv, TypeOK, Originals, Made, Entitled, Removing,
     Stored, Alive
<1>10. ASSUME NEW p \in Proc, AssessUnsafe(p) PROVE RecordInv'
   BY <1>10 DEF AssessUnsafe, RecordInv, Originals, Made, Entitled, Removing, Stored, Alive
<1>11. ASSUME NEW p \in Proc, Detach(p) PROVE RecordInv'
  BY <1>11 DEF Detach, RecordInv, TypeInv, TypeOK, Originals, Made, Entitled, Removing,
     Stored, Alive
<1>12. ASSUME NEW p \in Proc, DetachNothing(p) PROVE RecordInv'
  <2>1. Stored' = Stored /\ UNCHANGED made
    BY <1>12, NothingInHand DEF DetachNothing, RecordInv, Removing
  <2>2. ASSUME NEW q \in Proc
        PROVE Removing(q)' /\ (ev[q] # None /\ pc[q] # "discard" => ev[q] \in Stored)'
    <3>1. Removing(q) /\ (ev[q] # None /\ pc[q] # "discard" => ev[q] \in Stored)
      BY DEF RecordInv
    <3>2. \A n \in File : q # p /\ Entitled(q, n) => Entitled(q, n)'
      BY <1>12, OwnerIsAProcess
      DEF DetachNothing, Conclude, Entitled, Alive, RecordInv, TypeInv, TypeOK
    <3> QED
      BY <1>12, <2>1, <3>1, <3>2
      DEF DetachNothing, Conclude, Removing, Made, Alive, RecordInv, TypeInv, TypeOK
  <2> QED BY <1>12, <2>1, <2>2 DEF DetachNothing, RecordInv, Originals, Made
<1>13. ASSUME NEW p \in Proc, Inspect(p) PROVE RecordInv'
  BY <1>13 DEF Inspect, RecordInv, TypeInv, TypeOK, InHand, Originals, Made, Entitled,
     Removing, Stored, Alive, Matches
<1>14. ASSUME NEW p \in Proc, Discard(p) PROVE RecordInv'
  BY <1>14 DEF Discard, RecordInv, TypeInv, TypeOK, Originals, Made, Entitled, Removing,
     Stored, Alive, Fresh, Conclude, Matches
<1>15. ASSUME NEW p \in Proc, Relink(p) PROVE RecordInv'
  BY <1>15 DEF Relink, RecordInv, TypeInv, TypeOK, Originals, Made, Entitled, Removing,
     Stored, Alive, Conclude
<1>16. ASSUME NEW p \in Proc, KeepQuarantined(p) PROVE RecordInv'
  BY <1>16 DEF KeepQuarantined, RecordInv, TypeInv, TypeOK, InHand, Originals, Made,
     Entitled, Removing, Stored, Alive, Conclude
<1>17. ASSUME NEW p \in Proc, CreateCopy(p) PROVE RecordInv'
   BY <1>17 DEF CreateCopy, NoCopies
<1>18. ASSUME NEW p \in Proc, WriteCopy(p) PROVE RecordInv'
   BY <1>18 DEF WriteCopy, RecordInv, Removing
<1>19. ASSUME NEW p \in Proc, WriteCopyFails(p) PROVE RecordInv'
   BY <1>19 DEF WriteCopyFails, RecordInv, Removing
<1>20. ASSUME NEW p \in Proc, Crash(p) PROVE RecordInv'
  BY <1>20, FilesAreFiles DEF Crash, RecordInv, TypeInv, TypeOK, Originals, Made,
     Entitled, Removing, Stored, Alive
<1>21. CASE UNCHANGED vars
  BY <1>21 DEF vars, RecordInv, Originals, Made, Entitled, Removing, Stored, Alive
<1> QED
  BY <1>1, <1>2, <1>3, <1>4, <1>5, <1>6, <1>7, <1>8, <1>9, <1>10, <1>11,
     <1>12, <1>13, <1>14, <1>15, <1>16, <1>17, <1>18, <1>19, <1>20, <1>21 DEF Next, Removal

LEMMA RecordInvInit == Init => RecordInv
<1>1. Init => TypeInv
  BY LeaseAssumption DEF Init, TypeInv, TypeOK, InHand, Phases
<1>2. ASSUME Init, NEW f \in File PROVE ~Made(f)
  BY <1>2, LeaseAssumption DEF Init, Made, File
<1>3. Init => Stored = {}
  BY DEF Init, Stored
<1> QED BY <1>1, <1>2, <1>3 DEF Init, RecordInv, Originals, Removing

LEMMA RecordInvAlways == NoCopies => (Spec => []RecordInv)
<1> SUFFICES ASSUME NoCopies PROVE Spec => []RecordInv
  OBVIOUS
<1>1. RecordInv /\ [Next]_vars => RecordInv'
  BY TypeInvInductive, RecordInvInductive DEF RecordInv
<1> QED BY <1>1, RecordInvInit, PTL DEF Spec

(***************************************************************************)
(* While a process runs under a lease it has not removed itself, its record   *)
(* is in a file, however many recoveries race (LiveRecordKept).               *)
(***************************************************************************)
THEOREM LiveRecordIsKept == NoCopies => (Spec => []LiveRecordKept)
<1> SUFFICES ASSUME NoCopies PROVE Spec => []LiveRecordKept
  OBVIOUS
<1>1. RecordInv => LiveRecordKept
  BY DEF RecordInv, Removing, LiveRecordKept, OnRecord, Originals, TypeInv, TypeOK
<1> QED BY <1>1, RecordInvAlways, PTL

\* No other step takes a file away.
LEMMA OnlyDiscardRemoves ==
  ASSUME NoCopies, RecordInv, [Next]_vars, ~(Stored \subseteq Stored')
  PROVE  \E p \in Proc : Discard(p)
<1>1. TypeInv /\ \A p \in Proc : Removing(p)
  BY DEF RecordInv
<1>2. ASSUME NEW p \in Proc,
             \/ Collide(p) \/ Diagnose(p) \/ Checkpoint(p) \/ CheckpointRefused(p) \/ EndEffect(p)
             \/ BeginRelease(p) \/ AssessSafe(p) \/ AssessUnsafe(p) \/ Inspect(p)
      PROVE FALSE
  BY <1>2 DEF Collide, Diagnose, Checkpoint, CheckpointRefused, EndEffect, BeginRelease,
              AssessSafe, AssessUnsafe, Inspect, Stored
<1>3. ASSUME NEW p \in Proc, ReleaseRefused(p) \/ DetachNothing(p) PROVE FALSE
  BY <1>1, <1>3, NothingInHand DEF ReleaseRefused, DetachNothing, Removing
<1>4. ASSUME NEW p \in Proc, Acquire(p) PROVE FALSE
  BY <1>4 DEF Acquire, Stored
<1>5. ASSUME NEW p \in Proc, Detach(p) PROVE FALSE
  BY <1>1, <1>5 DEF Detach, Stored, Removing, TypeInv, TypeOK
<1>6. ASSUME NEW p \in Proc, Relink(p) PROVE FALSE
  BY <1>1, <1>6 DEF Relink, Conclude, Stored, TypeInv, TypeOK
<1>7. ASSUME NEW p \in Proc, KeepQuarantined(p) \/ Crash(p) PROVE FALSE
  BY <1>1, <1>7 DEF KeepQuarantined, Crash, Conclude, Stored, TypeInv, TypeOK
<1>8. ASSUME NEW p \in Proc, CreateCopy(p) \/ WriteCopy(p) \/ WriteCopyFails(p) PROVE FALSE
  BY <1>1, <1>8 DEF CreateCopy, WriteCopy, WriteCopyFails, Removing, NoCopies
<1>9. CASE UNCHANGED vars
  BY <1>9 DEF vars, Stored
<1> QED
  BY <1>2, <1>3, <1>4, <1>5, <1>6, <1>7, <1>8, <1>9 DEF Next, Removal

(***************************************************************************)
(* removeVerifiedLease destroys a record only for its owner, or after its      *)
(* owner's death (NoForeignDestruction).                                     *)
(***************************************************************************)
THEOREM NoRecordIsDestroyed == NoCopies => (Spec => NoForeignDestruction)
<1> SUFFICES ASSUME NoCopies PROVE Spec => NoForeignDestruction
  OBVIOUS
<1> DEFINE Gone(n) == OnRecord(n) /\ ~(OnRecord(n))'
           Allowed(n) == ~Alive(Owner(n)) \/ (pc[Owner(n)] = "discard" /\ want[Owner(n)] = n)
<1>1. ASSUME RecordInv, RecordInv', [Next]_vars, NEW n \in File, Gone(n) PROVE Allowed(n)
  <2>1. n \in Stored /\ n \notin Stored'
    BY <1>1 DEF RecordInv, OnRecord, Originals, Stored, TypeInv, TypeOK
  <2>2. PICK p \in Proc : Discard(p)
    BY <1>1, <2>1, OnlyDiscardRemoves
  <2>3. n = aside[p] /\ Removing(p)
    BY <1>1, <2>1, <2>2 DEF Discard, Conclude, Stored, RecordInv, TypeInv, TypeOK
  <2> QED BY <2>2, <2>3 DEF Discard, Removing, Entitled
<1>2. RecordInv /\ RecordInv' /\ [Next]_vars => [\A n \in File : Gone(n) => Allowed(n)]_vars
  BY <1>1
<1> QED BY <1>2, RecordInvAlways, PTL DEF Spec, NoForeignDestruction

(***************************************************************************)
(* However far recoveries and releases displace running writers, the lease     *)
(* name confirms at most one of those that overlap in an effect, and the        *)
(* record of every other one is in quarantine or in the hands of a removal that  *)
(* still decides (DisplacedIsStoppedAndKept).                                 *)
(***************************************************************************)
THEOREM DisplacedIsStopped == NoCopies => (Spec => []DisplacedIsStoppedAndKept)
<1> SUFFICES ASSUME NoCopies PROVE Spec => []DisplacedIsStoppedAndKept
  OBVIOUS
<1>1. RecordInv => DisplacedIsStoppedAndKept
  <2> SUFFICES ASSUME RecordInv, NEW p \in Proc, NEW q \in Proc,
                      pc[p] = "effect", pc[q] = "effect", p # q
               PROVE  \E d \in {p, q} :
                        /\ ~HeldBy(d)
                        /\ \/ \E f \in kept : content[f] = ev[d]
                           \/ \E r \in Proc : aside[r] # None /\ content[aside[r]] = ev[d]
    BY DEF DisplacedIsStoppedAndKept
  <2>1. \A d \in {p, q} : ev[d] # None /\ Owner(ev[d]) = d /\ ev[d] \in Stored
    BY DEF RecordInv, Removing
  <2>2. PICK d \in {p, q} : ev[d] # lease
    BY <2>1
  <2>3. ev[d] \in kept \/ \E r \in Proc : aside[r] # None /\ aside[r] = ev[d]
    BY <2>1, <2>2 DEF Stored
  <2>4. \A f \in Stored : content[f] = f
    BY DEF RecordInv, Originals, Stored, TypeInv, TypeOK
  <2>5. ~HeldBy(d)
    BY <2>1, <2>2, <2>4 DEF HeldBy, Stored
  <2> QED BY <2>1, <2>3, <2>4, <2>5
<1> QED BY <1>1, RecordInvAlways, PTL
=============================================================================
