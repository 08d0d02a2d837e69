---------------------------- MODULE LaunchHelper ----------------------------
(***************************************************************************)
(* The native launch helper (native/ao-launch/AoLaunch.cs) and what the    *)
(* kernel does for it.  The helper makes a job that ends its members with  *)
(* its last handle, starts the target in it, and reports what it knows in  *)
(* a status file it replaces as a whole.  Three of its threads matter: the *)
(* main one, the watcher of the owner process, and the pump that forwards  *)
(* standard input.  The main thread and the watcher share _ownershipGate.  *)
(*                                                                         *)
(* The helper may be killed between any two of its steps; what the kernel  *)
(* then does to the job is part of that step.  What the owner, an          *)
(* orchestrator process, does is in module OwnedCommand.                   *)
(***************************************************************************)
EXTENDS Naturals

CONSTANTS Modes,        \* the launch modes a request may name
          Chunks,       \* how many pieces a payload for standard input has
          MaxFaults     \* how many calls may fail, helpers be killed and so on

ASSUME ModesAssumption == Modes \subseteq {"JOBLIST", "SUSPENDED"}
ASSUME ChunksAssumption == Chunks \in Nat
ASSUME FaultsAssumption == MaxFaults \in Nat

\* Where the main thread stands.  "absent": never started; "gone": no more.
Places == {"absent", "begins", "armed", "assigns", "created", "resumes",
           "owned", "waits", "refuses", "ends", "gone"}

\* The process the request names.  "suspended": created and in no job yet;
\* "held": in the job, no instruction executed; "exited": it ended by itself.
Targets == {"none", "suspended", "held", "runs", "exited", "killed"}

\* The keys of a status that a reader acts on.
Keys == {"nonce", "targetStarted", "verifiedInJob", "OK", "FAILED", "childExit",
         "childExitUnobservable", "ownerLoss", "EOF_FORWARDED", "BROKEN_PIPE",
         "SOURCE_READ_FAILED"}

Exits == {"none", "killed", "refused", "ownerLost", "observed"}

VARIABLES
  owner,       \* the process the launch is coupled to: "alive" or "gone"
  mode,
  main,
  gate,        \* who holds _ownershipGate: "free", "main" or "watcher"
  lostOwner,   \* _terminatedByOwnerLoss
  exit,        \* how the helper ended
  target,
  kin,         \* the target has living descendants; they are in its job
  ran,         \* an instruction of the target has been executed
  notes,       \* _status, the lines gathered so far
  status,      \* the status file: {} until the first publication
  handed,      \* pieces of the payload in the helper's standard input
  input,       \* the owner's end of it: "open", "ended" or "broken"
  forwarded,   \* pieces the pump has passed to the target
  pump,        \* "off", "reads" or "done"
  faults

job == <<target, kin, ran>>
pipe == <<handed, input, forwarded, pump>>
helperVars == <<owner, mode, main, gate, lostOwner, exit, job, notes, status,
                pipe, faults>>

HelperInit ==
  /\ owner = "alive"
  /\ mode \in Modes
  /\ main = "absent"
  /\ gate = "free"
  /\ lostOwner = FALSE
  /\ exit = "none"
  /\ target = "none"
  /\ kin = FALSE
  /\ ran = FALSE
  /\ notes = {}
  /\ status = {}
  /\ handed = 0
  /\ input = "open"
  /\ forwarded = 0
  /\ pump = "off"
  /\ faults = 0

Helping == main \notin {"absent", "gone"}
Fault == faults < MaxFaults /\ faults' = faults + 1

\* WriteStatus: the whole list replaces the file, unless a reader that holds
\* it open outlasts every attempt or the directory cannot be written.
Publishes(lines) ==
  /\ notes' = lines
  /\ \/ status' = lines /\ UNCHANGED faults
     \/ UNCHANGED status /\ Fault

PublishesAfterFault(lines) ==
  /\ notes' = lines
  /\ Fault
  /\ status' \in {status, lines}

\* TerminateJobObject: every member ends.
JobEnds ==
  /\ target' = IF target \in {"held", "runs"} THEN "killed" ELSE target
  /\ kin' = FALSE
  /\ UNCHANGED ran

\* The helper ends, and with it the only handle to its job.
HandleCloses == JobEnds

----------------------------------------------------------------------------
(* The main thread *)

\* A refusal: whatever was created inside the job is terminated first.
Refuses ==
  /\ main' = "refuses"
  /\ UNCHANGED <<owner, mode, lostOwner, exit, pipe>>

\* The request is read, the job made and configured, the watch armed.
Arms ==
  /\ main = "begins"
  /\ owner = "alive"
  /\ main' = "armed"
  /\ notes' = notes \cup {"nonce"}
  /\ UNCHANGED <<owner, mode, gate, lostOwner, exit, job, status, pipe, faults>>

\* The owner was gone before the watch could be armed.
FindsNoOwner ==
  /\ main = "begins"
  /\ owner = "gone"
  /\ Refuses
  /\ Publishes(notes \cup {"nonce", "FAILED"})
  /\ UNCHANGED <<gate, job>>

\* The request is invalid, or the job cannot be made.
RefusesToBegin ==
  /\ main = "begins"
  /\ Refuses
  /\ PublishesAfterFault(notes \cup {"nonce", "FAILED"})
  /\ UNCHANGED <<gate, job>>

\* CreateTarget, under the gate.  In JOBLIST mode the process is a member of
\* the job from its first instruction, and noted as started before the gate
\* opens; in SUSPENDED mode it waits to be assigned, and the gate stays shut.
Creates ==
  /\ main = "armed" /\ gate = "free" /\ ~lostOwner
  /\ \/ /\ mode = "JOBLIST"
        /\ main' = "created" /\ target' = "runs" /\ ran' = TRUE
        /\ notes' = notes \cup {"targetStarted"}
        /\ UNCHANGED gate
     \/ /\ mode = "SUSPENDED"
        /\ main' = "assigns" /\ target' = "suspended" /\ gate' = "main"
        /\ UNCHANGED <<ran, notes>>
  /\ UNCHANGED <<owner, mode, lostOwner, exit, kin, status, pipe, faults>>

\* A pipe, an attribute or the process itself cannot be made.
RefusesToCreate ==
  /\ main = "armed"
  /\ Refuses
  /\ PublishesAfterFault(notes \cup {"FAILED"})
  /\ UNCHANGED <<gate, job>>

Assigns ==
  /\ main = "assigns"
  /\ main' = "created" /\ target' = "held" /\ gate' = "free"
  /\ UNCHANGED <<owner, mode, lostOwner, exit, kin, ran, notes, status, pipe, faults>>

\* The process cannot be brought into the job: it is ended by its handle.
RefusesToAssign ==
  /\ main = "assigns"
  /\ Refuses
  /\ target' = "killed" /\ gate' = "free"
  /\ PublishesAfterFault(notes \cup {"FAILED"})
  /\ UNCHANGED <<kin, ran>>

\* IsProcessInJob says yes.
Verifies ==
  /\ main = "created"
  /\ main' = IF mode = "JOBLIST" THEN "owned" ELSE "resumes"
  /\ notes' = notes \cup {"verifiedInJob"}
  /\ UNCHANGED <<owner, mode, gate, lostOwner, exit, job, status, pipe, faults>>

RefusesToVerify ==
  /\ main = "created"
  /\ Refuses
  /\ JobEnds
  /\ PublishesAfterFault(notes \cup {"FAILED"})
  /\ UNCHANGED gate

\* The target's first instruction and the note of it are one step under the
\* gate.
Resumes ==
  /\ main = "resumes" /\ gate = "free" /\ target = "held"
  /\ main' = "owned" /\ target' = "runs" /\ ran' = TRUE
  /\ notes' = notes \cup {"targetStarted"}
  /\ UNCHANGED <<owner, mode, gate, lostOwner, exit, kin, status, pipe, faults>>

RefusesToResume ==
  /\ main = "resumes" /\ gate = "free"
  /\ Refuses
  /\ JobEnds
  /\ PublishesAfterFault(notes \cup {"FAILED"})
  /\ UNCHANGED gate

\* Ownership is reported before a byte of output, and the pumps start.
ReportsOwnership ==
  /\ main = "owned"
  /\ main' = "waits"
  /\ Publishes(notes \cup {"OK"})
  /\ pump' = "reads"
  /\ UNCHANGED <<owner, mode, gate, lostOwner, exit, job, handed, input, forwarded>>

EndNotes == IF lostOwner THEN {"ownerLoss"} ELSE {}

\* The wait for the target is satisfied, and its exit code was read.
ObservesExit ==
  /\ main = "waits" /\ target \in {"exited", "killed"}
  /\ main' = "ends"
  /\ Publishes(notes \cup EndNotes \cup {"childExit"})
  /\ UNCHANGED <<owner, mode, gate, lostOwner, exit, job, pipe>>

\* The wait or the reading of the exit code fails: no exit code is reported.
MissesExit ==
  /\ main = "waits"
  /\ main' = "ends"
  /\ PublishesAfterFault(notes \cup EndNotes \cup {"childExitUnobservable"})
  /\ UNCHANGED <<owner, mode, gate, lostOwner, exit, job, pipe>>

\* An exception nobody expected, after ownership was established.
Breaks ==
  /\ main \in {"owned", "waits"}
  /\ Refuses
  /\ PublishesAfterFault(notes \cup {"FAILED"})
  /\ UNCHANGED <<gate, job>>

\* The main thread returns, which ends the process and every other thread.
Ends ==
  /\ main \in {"refuses", "ends"}
  /\ main' = "gone"
  /\ exit' = IF main = "refuses" THEN "refused"
             ELSE IF lostOwner THEN "ownerLost" ELSE "observed"
  /\ HandleCloses
  /\ UNCHANGED <<owner, mode, gate, lostOwner, notes, status, pipe, faults>>

\* The process is killed: by its owner, by the job the owner's runtime keeps
\* its children in, or by anybody else.
Dies ==
  /\ Helping
  /\ main' = "gone"
  /\ exit' = "killed"
  /\ HandleCloses
  /\ UNCHANGED <<owner, mode, gate, lostOwner, notes, status, pipe>>

----------------------------------------------------------------------------
(* The watcher of the owner *)

Watching == Helping /\ main # "begins" /\ owner = "gone"

\* Mutation: the watcher does not wait for the gate.
TerminatesUngated ==
  /\ Watching /\ ~lostOwner
  /\ lostOwner' = TRUE
  /\ JobEnds
  /\ Publishes(notes \cup {"ownerLoss"})
  /\ UNCHANGED <<owner, mode, main, gate, exit, pipe>>

\* The owner has ended: the job is terminated and that is published, with
\* the gate held from here to the exit.
TerminatesForOwner ==
  /\ Watching /\ gate = "free"
  /\ gate' = "watcher"
  /\ lostOwner' = TRUE
  /\ JobEnds
  /\ Publishes(notes \cup {"ownerLoss"})
  /\ UNCHANGED <<owner, mode, main, exit, pipe>>

LeavesWithOwner ==
  /\ Helping /\ lostOwner
  /\ main' = "gone"
  /\ exit' = "ownerLost"
  /\ HandleCloses
  /\ UNCHANGED <<owner, mode, gate, lostOwner, notes, status, pipe, faults>>

----------------------------------------------------------------------------
(* The pump of standard input, and the target *)

Pumping == Helping /\ pump = "reads"
PumpStops(line) ==
  /\ pump' = "done"
  /\ Publishes(notes \cup {line})
  /\ UNCHANGED <<owner, mode, main, gate, lostOwner, exit, job, handed, input, forwarded>>

Forwards ==
  /\ Pumping /\ forwarded < handed /\ (target = "runs" \/ kin)
  /\ forwarded' = forwarded + 1
  /\ UNCHANGED <<owner, mode, main, gate, lostOwner, exit, job, notes, status,
                 handed, input, pump, faults>>

\* Nobody reads any more: the target closed its end, or is gone.
FindsNoReader == Pumping /\ forwarded < handed /\ PumpStops("BROKEN_PIPE")

\* The end of the stream the helper was handed, wherever that was.
ForwardsEnd ==
  /\ Pumping /\ forwarded = handed /\ input # "open"
  /\ PumpStops("EOF_FORWARDED")

LosesSource ==
  /\ Pumping
  /\ pump' = "done"
  /\ PublishesAfterFault(notes \cup {"SOURCE_READ_FAILED"})
  /\ UNCHANGED <<owner, mode, main, gate, lostOwner, exit, job, handed, input, forwarded>>

\* The target starts processes of its own, and ends.
Forks ==
  /\ target = "runs" /\ ~kin
  /\ kin' = TRUE
  /\ UNCHANGED <<owner, mode, main, gate, lostOwner, exit, target, ran, notes,
                 status, pipe, faults>>

Exited ==
  /\ target = "runs"
  /\ target' = "exited"
  /\ UNCHANGED <<owner, mode, main, gate, lostOwner, exit, kin, ran, notes,
                 status, pipe, faults>>

\* What the main thread does of itself, and where it gives up.
Advances ==
  \/ Arms \/ FindsNoOwner \/ Creates \/ Assigns \/ Verifies \/ Resumes
  \/ ReportsOwnership \/ ObservesExit \/ Ends
GivesUp ==
  \/ RefusesToBegin \/ RefusesToCreate \/ RefusesToAssign \/ RefusesToVerify
  \/ RefusesToResume \/ MissesExit \/ Breaks
Watches == TerminatesForOwner \/ LeavesWithOwner
Pumps == Forwards \/ FindsNoReader \/ ForwardsEnd \/ LosesSource
TreeSteps == Forks \/ Exited

HelperNext == Advances \/ GivesUp \/ Watches \/ Pumps \/ TreeSteps

HelperTypeOK ==
  /\ owner \in {"alive", "gone"} /\ mode \in Modes
  /\ main \in Places /\ gate \in {"free", "main", "watcher"}
  /\ lostOwner \in BOOLEAN /\ exit \in Exits
  /\ target \in Targets /\ kin \in BOOLEAN /\ ran \in BOOLEAN
  /\ notes \subseteq Keys /\ status \subseteq Keys
  /\ handed \in 0..Chunks /\ forwarded \in 0..Chunks
  /\ input \in {"open", "ended", "broken"} /\ pump \in {"off", "reads", "done"}
  /\ faults \in 0..MaxFaults
=============================================================================
