---------------------------- MODULE OwnedCommand ----------------------------
(***************************************************************************)
(* One command that an orchestrator process runs through the launch        *)
(* helper: runCommand of doctor/exec.ts on Windows, runOwnedCommand of     *)
(* boundary/owned-command.ts and startOwnedProcess beneath it.  The helper *)
(* and the target are in LaunchHelper; what this process knows of them it  *)
(* reads in the status file and from the helper's 'close' event.           *)
(*                                                                         *)
(* An action is one turn of the event loop.  The owned-launch record that  *)
(* is opened before the launch is what a later recovery of the lease acts  *)
(* on (module LaunchLedger): it is closed only on a result that accounts   *)
(* for the whole tree.                                                     *)
(***************************************************************************)
EXTENDS LaunchHelper

VARIABLES
  payload,       \* pieces of options.stdin; 0: none was configured
  stopsAtLimit,  \* options.terminateOnOutputLimit
  stage,         \* "abandons": the helper did not report in time
  aborted,       \* the caller's signal
  over,          \* more output than the budget, and that is to end the run
  termination,   \* why runOwnedCommand asked the boundary to end the run
  kill,          \* what became of helper.kill
  ending,        \* how the boundary ended, once that is classified
  localWrite,    \* what became of handing the payload to the helper
  result,
  account        \* the owned-launch record; "proved": it names the processes

callVars == <<payload, stopsAtLimit, stage, aborted, over, termination, kill,
              ending, localWrite, result, account>>
commandVars == <<helperVars, callVars>>

Stages == {"idle", "starting", "abandons", "runs", "returned"}
Reasons == {"CALLER", "TIMEOUT", "LIMIT"}
Kinds == {"REFUSED", "LOST", "TERMINATED", "EXITED"}
Answers == {"NO", "YES", "UNKNOWN"}
Outcomes == {"COMPLETED", "TIMED_OUT", "OUTPUT_LIMIT_EXCEEDED",
             "TERMINATED_BY_CALLER", "LAUNCH_REFUSED", "BOUNDARY_LOST"}

Deliveries == {"NOT_REQUESTED", "FAILED", "DELIVERED", "UNCONFIRMED"}
Endings == [kind : Kinds \cup {"none"}, started : Answers]
Results == [outcome : Outcomes \cup {"none"}, started : Answers, contained : BOOLEAN,
            stdin : Deliveries \cup {"none"}]

Ending(kind, started) == [kind |-> kind, started |-> started]
Unended == Ending("none", "UNKNOWN")
NoResult == [outcome |-> "none", started |-> "UNKNOWN", contained |-> FALSE,
             stdin |-> "none"]

CommandInit ==
  /\ HelperInit
  /\ payload \in 0..Chunks
  /\ stopsAtLimit \in BOOLEAN
  /\ stage = "idle"
  /\ aborted = FALSE
  /\ over = FALSE
  /\ termination = "NONE"
  /\ kill = "none"
  /\ ending = Unended
  /\ localWrite = "PENDING"
  /\ result = NoResult
  /\ account = "none"

Acting == owner = "alive"
Running == Acting /\ stage = "runs"

\* The run goes on: its ending, once classified, is settled in the same turn.
Listening == Running /\ ending = Unended

----------------------------------------------------------------------------
(* What is concluded from what was read *)

\* The condition under which startOwnedProcess answers "established".
ReportsOwned(s) == {"OK", "verifiedInJob"} \subseteq s /\ "FAILED" \notin s

StartedBy(s) == IF s = {} THEN "UNKNOWN"
                ELSE IF "targetStarted" \in s THEN "YES" ELSE "NO"

\* classifyBoundaryEnding: s is the status, x how the helper ended, and asked
\* whether this process asked for the end.
BoundaryEnding(s, x, asked) ==
  CASE s = {} -> Ending(IF x = "refused" THEN "REFUSED" ELSE "LOST", "UNKNOWN")
    [] s # {} /\ ~ReportsOwned(s) -> Ending("REFUSED", StartedBy(s))
    [] ReportsOwned(s) /\ asked -> Ending("TERMINATED", "YES")
    [] ReportsOwned(s) /\ ~asked ->
         IF "ownerLoss" \in s \/ x = "ownerLost" \/ "childExit" \notin s
         THEN Ending("LOST", "UNKNOWN") ELSE Ending("EXITED", "YES")

\* Mutation: the helper's end-of-file is taken for the delivery.
StdinForwarded(established, s) ==
  IF payload = 0 THEN "NOT_REQUESTED"
  ELSE IF ~established \/ s \cap {"BROKEN_PIPE", "SOURCE_READ_FAILED"} # {} THEN "FAILED"
  ELSE IF "EOF_FORWARDED" \in s THEN "DELIVERED" ELSE "UNCONFIRMED"

\* classifyStdinDelivery: the whole payload was handed over here, and its end
\* was forwarded there.
StdinDelivery(established, s) ==
  IF payload = 0 THEN "NOT_REQUESTED"
  ELSE IF ~established \/ s \cap {"BROKEN_PIPE", "SOURCE_READ_FAILED"} # {} THEN "FAILED"
  ELSE IF "EOF_FORWARDED" \in s /\ localWrite = "COMPLETED" THEN "DELIVERED" ELSE "UNCONFIRMED"

TerminationOutcome(reason) ==
  CASE reason = "CALLER" -> "TERMINATED_BY_CALLER"
    [] reason = "TIMEOUT" -> "TIMED_OUT"
    [] reason = "LIMIT" -> "OUTPUT_LIMIT_EXCEEDED"

\* The outcomes of an established run whose helper was seen to close.
Attestable == {"COMPLETED", "TIMED_OUT", "OUTPUT_LIMIT_EXCEEDED"}

Unestablished(outcome, started) ==
  [outcome |-> outcome, started |-> started, contained |-> FALSE,
   stdin |-> StdinDelivery(FALSE, {})]

Established(outcome, started, s) ==
  [outcome |-> outcome, started |-> started, contained |-> outcome \in Attestable,
   stdin |-> StdinDelivery(TRUE, s)]

\* classifyOwnedCommand, of an established run.
Settled(e, s) ==
  IF e.kind \in {"REFUSED", "LOST"} THEN Established("BOUNDARY_LOST", "UNKNOWN", s)
  ELSE IF termination # "NONE" THEN Established(TerminationOutcome(termination), "YES", s)
  ELSE IF e.kind = "EXITED" THEN Established("COMPLETED", "YES", s)
  ELSE Established("BOUNDARY_LOST", "UNKNOWN", s)

\* Mutation: a result that says how the command ended accounts for it.
ExplainedFor(r) == r.outcome # "LAUNCH_REFUSED" \/ r.started = "NO"

\* endingWasAccountedFor.
AccountedFor(r) == r.started = "NO" \/ r.contained

Returns(r) ==
  /\ stage' = "returned"
  /\ result' = r
  /\ account' = IF AccountedFor(r) THEN "closed" ELSE "left"

----------------------------------------------------------------------------
(* Starting, and the wait for the report of ownership *)

\* The command is not found, or no record could be opened for it.
NeverLaunches ==
  /\ Acting /\ stage = "idle"
  /\ stage' = "returned"
  /\ result' = Unestablished("LAUNCH_REFUSED", "NO")
  /\ UNCHANGED <<helperVars, payload, stopsAtLimit, aborted, over, termination,
                 kill, ending, localWrite, account>>

\* The helper is missing or could not be spawned: nothing was created.  A
\* throw out of the start is no evidence of that.
FailsToStart ==
  /\ Acting /\ stage = "idle"
  /\ \E started \in {"NO", "UNKNOWN"} : Returns(Unestablished("LAUNCH_REFUSED", started))
  /\ UNCHANGED <<helperVars, payload, stopsAtLimit, aborted, over, termination,
                 kill, ending, localWrite>>

Starts ==
  /\ Acting /\ stage = "idle"
  /\ stage' = "starting" /\ account' = "open" /\ main' = "begins"
  /\ UNCHANGED <<owner, mode, gate, lostOwner, exit, job, notes, status, pipe,
                 faults, payload, stopsAtLimit, aborted, over, termination,
                 kill, ending, localWrite, result>>

\* helper.kill: asked for, or refused with an 'error' event that is taken for
\* the end of the helper.
Kills ==
  \/ kill' = "sent" /\ UNCHANGED <<ending, faults>>
  \/ Helping /\ kill' = "failed" /\ ending' = Ending("REFUSED", "NO") /\ Fault

\* terminate: the first reason stands.
Terminates(reason) ==
  IF termination = "NONE"
  THEN termination' = reason /\ Kills
  ELSE UNCHANGED <<termination, kill, ending, faults>>

\* Mutation: the signal is read before the launch and listened to after it.
EstablishesDeaf ==
  /\ Acting /\ stage = "starting" /\ ReportsOwned(status)
  /\ stage' = "runs" /\ account' = "proved"
  /\ \/ over /\ Terminates("LIMIT")
     \/ ~over /\ Terminates("TIMEOUT")
     \/ ~over /\ UNCHANGED <<termination, kill, ending, faults>>
  /\ UNCHANGED <<owner, mode, main, gate, lostOwner, exit, job, notes, status,
                 pipe, payload, stopsAtLimit, aborted, over, localWrite, result>>

\* A poll finds ownership reported, which may be after the helper's end.  The
\* record is told the processes, and what happened during the launch is now
\* acted on: the output first, then the signal, then the deadline.
Establishes ==
  /\ Acting /\ stage = "starting" /\ ReportsOwned(status)
  /\ stage' = "runs" /\ account' = "proved"
  /\ \/ over /\ Terminates("LIMIT")
     \/ ~over /\ aborted /\ Terminates("CALLER")
     \/ ~over /\ ~aborted /\ Terminates("TIMEOUT")
     \/ ~over /\ ~aborted /\ UNCHANGED <<termination, kill, ending, faults>>
  /\ UNCHANGED <<owner, mode, main, gate, lostOwner, exit, job, notes, status,
                 pipe, payload, stopsAtLimit, aborted, over, localWrite, result>>

\* A refusal is answered as what the caller did about it, if anything.
Refusal(started, late) ==
  Unestablished(IF aborted THEN "TERMINATED_BY_CALLER"
                ELSE IF late THEN "TIMED_OUT" ELSE "LAUNCH_REFUSED", started)

\* A poll finds the helper gone without that report.
FindsItGone ==
  /\ Acting /\ stage = "starting" /\ ~ReportsOwned(status) /\ ending # Unended
  /\ Returns(IF ending.kind = "REFUSED" THEN Refusal(ending.started, FALSE)
             ELSE Unestablished("BOUNDARY_LOST", "UNKNOWN"))
  /\ UNCHANGED <<helperVars, payload, stopsAtLimit, aborted, over, termination,
                 kill, ending, localWrite>>

\* The time for the report is up: the helper is killed, and its end awaited.
Abandons ==
  /\ Acting /\ stage = "starting" /\ ~ReportsOwned(status) /\ ending = Unended
  /\ stage' = "abandons"
  /\ Kills
  /\ UNCHANGED <<owner, mode, main, gate, lostOwner, exit, job, notes, status,
                 pipe, payload, stopsAtLimit, aborted, over, termination,
                 localWrite, result, account>>

\* What was started is taken from the status, if that holds a refusal.
Abandoned ==
  /\ Acting /\ stage = "abandons" /\ ending # Unended
  /\ LET e == BoundaryEnding(status, "none", FALSE)
         started == IF e.kind = "REFUSED" THEN e.started ELSE "UNKNOWN"
     IN \E late \in BOOLEAN : Returns(Refusal(started, late))
  /\ UNCHANGED <<helperVars, payload, stopsAtLimit, aborted, over, termination,
                 kill, ending, localWrite>>

----------------------------------------------------------------------------
(* The run *)

\* The helper's 'close' event: the ending is classified once, here.
Closes ==
  /\ Acting /\ stage \in {"starting", "abandons", "runs"}
  /\ main = "gone" /\ ending = Unended
  /\ ending' = BoundaryEnding(status, exit, kill # "none")
  /\ UNCHANGED <<helperVars, payload, stopsAtLimit, stage, aborted, over,
                 termination, kill, localWrite, result, account>>

\* An ending that denies the ownership that was established is no ending: the
\* kill is asked for once more.
Settles ==
  /\ Running /\ ending # Unended
  /\ Returns(Settled(ending, IF kill = "failed" THEN {} ELSE status))
  /\ kill' \in IF ending.kind = "REFUSED" THEN {"sent", kill} ELSE {kill}
  /\ UNCHANGED <<helperVars, payload, stopsAtLimit, aborted, over, termination,
                 ending, localWrite>>

\* Mutation: only the timeout arms the timer of the grace.
GraceExpiresOfTimeout ==
  /\ Listening /\ termination = "TIMEOUT"
  /\ Returns(Established("BOUNDARY_LOST", "YES", {}))
  /\ UNCHANGED <<helperVars, payload, stopsAtLimit, aborted, over, termination,
                 kill, ending, localWrite>>

\* The helper did not close within the grace that follows a termination.
GraceExpires ==
  /\ Listening /\ termination # "NONE"
  /\ Returns(Established("BOUNDARY_LOST", "YES", {}))
  /\ UNCHANGED <<helperVars, payload, stopsAtLimit, aborted, over, termination,
                 kill, ending, localWrite>>

TimesOut ==
  /\ Listening /\ termination = "NONE"
  /\ Terminates("TIMEOUT")
  /\ UNCHANGED <<owner, mode, main, gate, lostOwner, exit, job, notes, status,
                 pipe, payload, stopsAtLimit, stage, aborted, over, localWrite,
                 result, account>>

\* Before there is anything to terminate the reason is only remembered.
Aborts ==
  /\ ~aborted
  /\ aborted' = TRUE
  /\ \/ /\ Acting /\ stage \in {"starting", "abandons"}
        /\ UNCHANGED <<termination, kill, ending, faults>>
     \/ Listening /\ Terminates("CALLER")
  /\ UNCHANGED <<owner, mode, main, gate, lostOwner, exit, job, notes, status,
                 pipe, payload, stopsAtLimit, stage, over, localWrite, result,
                 account>>

\* Output is read from the spawn on, and none comes before ownership.
Exceeds ==
  /\ ~over /\ stopsAtLimit /\ ran /\ pump # "off"
  /\ over' = TRUE
  /\ \/ /\ Acting /\ stage = "starting"
        /\ UNCHANGED <<termination, kill, ending, faults>>
     \/ Listening /\ Terminates("LIMIT")
  /\ UNCHANGED <<owner, mode, main, gate, lostOwner, exit, job, notes, status,
                 pipe, payload, stopsAtLimit, stage, aborted, localWrite, result,
                 account>>

HandsPiece ==
  /\ Listening /\ main # "gone" /\ input = "open" /\ handed < payload
  /\ handed' = handed + 1
  /\ UNCHANGED <<owner, mode, main, gate, lostOwner, exit, job, notes, status,
                 input, forwarded, pump, faults, callVars>>

HandsEnd ==
  /\ Listening /\ main # "gone" /\ input = "open" /\ handed = payload
  /\ input' = "ended" /\ localWrite' = "COMPLETED"
  /\ UNCHANGED <<owner, mode, main, gate, lostOwner, exit, job, notes, status,
                 handed, forwarded, pump, faults, payload, stopsAtLimit, stage,
                 aborted, over, termination, kill, ending, result, account>>

\* The stream is destroyed, and the helper reads an end where it was cut off.
HandFails ==
  /\ Listening /\ input = "open"
  /\ \/ main = "gone" /\ UNCHANGED faults
     \/ main # "gone" /\ Fault
  /\ input' = "broken" /\ localWrite' = "FAILED"
  /\ UNCHANGED <<owner, mode, main, gate, lostOwner, exit, job, notes, status,
                 handed, forwarded, pump, payload, stopsAtLimit, stage, aborted,
                 over, termination, kill, ending, result, account>>

----------------------------------------------------------------------------
(* The ends of the two processes *)

KillTakes ==
  /\ kill = "sent" /\ Dies
  /\ UNCHANGED <<faults, callVars>>

\* A process the kernel cannot finish: the kill is accepted and has no effect.
KillIsIgnored ==
  /\ kill = "sent" /\ Helping /\ Fault
  /\ kill' = "ignored"
  /\ UNCHANGED <<owner, mode, main, gate, lostOwner, exit, job, notes, status,
                 pipe, payload, stopsAtLimit, stage, aborted, over, termination,
                 ending, localWrite, result, account>>

KilledByOther == Dies /\ Fault /\ UNCHANGED callVars

OwnerDies ==
  /\ Acting /\ stage # "idle"
  /\ owner' = "gone"
  /\ input' = IF input = "open" THEN "broken" ELSE input
  /\ UNCHANGED <<mode, main, gate, lostOwner, exit, job, notes, status, handed,
                 forwarded, pump, faults, callVars>>

\* The runtime keeps its children in a job of its own, which ends with it.
KilledWithOwner == owner = "gone" /\ Dies /\ UNCHANGED <<faults, callVars>>

Turns ==
  \/ Establishes \/ FindsItGone \/ Abandons \/ Abandoned
  \/ Closes \/ Settles \/ GraceExpires \/ TimesOut
Launches == NeverLaunches \/ FailsToStart \/ Starts
Callbacks == Aborts \/ Exceeds
Hands == HandsPiece \/ HandsEnd \/ HandFails
Deaths == KillTakes \/ KillIsIgnored \/ KilledByOther \/ OwnerDies \/ KilledWithOwner

CommandNext == Launches \/ Turns \/ Callbacks \/ Hands \/ Deaths \/ (HelperNext /\ UNCHANGED callVars)
CommandSpec == CommandInit /\ [][CommandNext]_commandVars

\* What the event loop and its timers, the kernel and the helper's two threads
\* do in the end: the target may run for ever, and nothing has to fail.
CommandFairSpec ==
  /\ CommandSpec
  /\ WF_commandVars(Turns)
  /\ WF_commandVars(KillTakes)
  /\ WF_commandVars(Advances /\ UNCHANGED callVars)
  /\ WF_commandVars(Watches /\ UNCHANGED callVars)

----------------------------------------------------------------------------
(* Properties *)

CallTypeOK ==
  /\ payload \in 0..Chunks /\ stopsAtLimit \in BOOLEAN
  /\ stage \in Stages /\ aborted \in BOOLEAN /\ over \in BOOLEAN
  /\ termination \in Reasons \cup {"NONE"}
  /\ kill \in {"none", "sent", "failed", "ignored"}
  /\ ending \in Endings
  /\ localWrite \in {"PENDING", "COMPLETED", "FAILED"}
  /\ result \in Results
  /\ account \in {"none", "open", "proved", "closed", "left"}

CommandTypeOK == HelperTypeOK /\ CallTypeOK

TreeLives == target \in {"suspended", "held", "runs"} \/ kin

\* A record that is closed describes a launch that is over: none of its
\* processes is left, and where the result says that nothing was started,
\* nothing ever ran.  A recovery of the lease trusts both (the closing at
\* doctor/exec.ts endingWasAccountedFor).
ClosedRecordIsOver ==
  account = "closed" => ~TreeLives /\ (result.started = "NO" => ~ran)

\* A command that is reported as completed ended by itself, and nobody had
\* asked for its end before: neither the caller, at whatever moment of the
\* launch, nor the bound on its output.
CompletedMeansCompleted ==
  result.outcome = "COMPLETED" => target = "exited" /\ ~aborted /\ ~over

\* Standard input that is reported as delivered reached the target's pipe as a
\* whole, although neither side of the helper can see that alone.
DeliveredIsWhole == result.stdin = "DELIVERED" => forwarded = payload

\* A helper that ends in a way it chose leaves nobody behind, not even a target
\* created and not yet in the job: the watcher waits for _ownershipGate.
NothingIsStranded ==
  exit \in {"refused", "ownerLost", "observed"} => ~TreeLives

\* Every call returns while its process lives.  The exception is a helper that
\* ignores its kill before ownership: that wait has no grace (the await of
\* helperClosed in startOwnedProcess).
EveryCallReturns ==
  stage # "idle" ~> stage = "returned" \/ owner = "gone"
                    \/ (stage = "abandons" /\ kill = "ignored")

\* When the process that runs a command dies, so does everything the command
\* started.  The exception is documented: a helper killed between the creation
\* of a suspended target and its assignment leaves it, suspended.
TreeDiesWithItsOwner ==
  owner = "gone" ~> ~TreeLives \/ (target = "suspended" /\ exit = "killed")
=============================================================================
