---------------------------- MODULE ReviewerGate ----------------------------
(***************************************************************************)
(* The reviewer provider gate: one operator's subscription window, shared  *)
(* by every repository one process drives.  A review step reads the clock, *)
(* observes its worktree, and queues a call behind every call that has not *)
(* settled (`previous.then(call, call)`); when its turn comes it asks      *)
(* whether the provider is known to be exhausted, and is either withheld   *)
(* or runs the reviewer, which may report an exhaustion and its reset.     *)
(* Afterwards the step writes what happened to the task's record.          *)
(*                                                                         *)
(* The gate is memory of the process and is lost with it; the records are  *)
(* durable.  A step is the run of one task up to its next await, so it is  *)
(* atomic: nothing else runs in the event loop meanwhile.                  *)
(***************************************************************************)
EXTENDS Naturals

CONSTANTS Task,         \* the tasks the process drives, one per repository
          Nobody,
          MaxClock      \* instants are 1 .. MaxClock

ASSUME NobodyAssumption == Nobody \notin Task
ASSUME ClockAssumption == MaxClock \in Nat \ {0}

Instants == 1 .. MaxClock
Never == 0                     \* no instant: nothing named, nothing remembered

\* Where the drive of a task stands in its review step.
Places == {"away", "observing", "queued", "called", "recording"}

\* What came of a call.  A reviewer that threw reaches no record: the drive
\* that made the call ends with it.
Outcomes == {"none", "withheld", "limited", "failed", "reviewed"}

Records == {"REVIEWING", "BLOCKED_USAGE_LIMIT", "HUMAN_DECISION_REQUIRED",
            "READY_FOR_PR"}

VARIABLES
  clock,
  tail,             \* the call queued last, Nobody once that one has settled
  exhaustedUntil,   \* the reset the gate remembers
  place,            \* where each drive is
  asked,            \* the `now` each step was given
  awaits,           \* the unsettled call each queued call awaits
  outcome,          \* what came of each call
  record,           \* the state each task's record names
  told              \* the latest reset reported to this process

gate == <<tail, exhaustedUntil>>
steps == <<place, asked, awaits, outcome>>
gateVars == <<clock, gate, steps, record, told>>

GateInit ==
  /\ clock = 1
  /\ tail = Nobody
  /\ exhaustedUntil = Never
  /\ place = [t \in Task |-> "away"]
  /\ asked = [t \in Task |-> Never]
  /\ awaits = [t \in Task |-> Nobody]
  /\ outcome = [t \in Task |-> "none"]
  /\ record = [t \in Task |-> "REVIEWING"]
  /\ told = Never

\* A step of a task under review starts: the driver reads the clock, and the
\* step awaits the observation of the worktree.
Begins(t) ==
  /\ place[t] = "away"
  /\ record[t] = "REVIEWING"
  /\ place' = [place EXCEPT ![t] = "observing"]
  /\ asked' = [asked EXCEPT ![t] = clock]
  /\ UNCHANGED <<clock, gate, awaits, outcome, record, told>>

\* Mutation: wait for the call in flight, not for the last queued.
AwaitInFlight(t) ==
  /\ awaits' = [awaits EXCEPT ![t] =
       IF \E u \in Task : place[u] = "called"
         THEN CHOOSE u \in Task : place[u] = "called" ELSE Nobody]
  /\ tail' = t

\* runExclusively: the call is chained to the tail and becomes the tail.
AwaitTail(t) ==
  /\ awaits' = [awaits EXCEPT ![t] = tail]
  /\ tail' = t

Queues(t) ==
  /\ place[t] = "observing"
  /\ AwaitTail(t)
  /\ place' = [place EXCEPT ![t] = "queued"]
  /\ UNCHANGED <<clock, exhaustedUntil, asked, outcome, record, told>>

\* The call of t settles, by a value or by a rejection alike, and releases
\* the one chained to it.
Settles(t) ==
  /\ awaits' = [u \in Task |-> IF awaits[u] = t THEN Nobody ELSE awaits[u]]
  /\ tail' = IF tail = t THEN Nobody ELSE tail

\* availability: is the provider known to be exhausted at the step's `now`?
Withheld(t) == asked[t] < exhaustedUntil

\* Mutation: the refusal that quotes the reset also forgets it.
WithholdsOnce(t) ==
  /\ place[t] = "queued"
  /\ awaits[t] = Nobody
  /\ Withheld(t)
  /\ Settles(t)
  /\ place' = [place EXCEPT ![t] = "recording"]
  /\ outcome' = [outcome EXCEPT ![t] = "withheld"]
  /\ exhaustedUntil' = Never
  /\ UNCHANGED <<clock, asked, record, told>>

\* The turn of t, and the provider is known to be exhausted.
Withholds(t) ==
  /\ place[t] = "queued"
  /\ awaits[t] = Nobody
  /\ Withheld(t)
  /\ Settles(t)
  /\ place' = [place EXCEPT ![t] = "recording"]
  /\ outcome' = [outcome EXCEPT ![t] = "withheld"]
  /\ UNCHANGED <<clock, exhaustedUntil, asked, record, told>>

\* The turn of t, and nothing speaks against the call.  A reset that is not
\* after `now` is forgotten.
MakesCall(t) ==
  /\ place[t] = "queued"
  /\ awaits[t] = Nobody
  /\ ~Withheld(t)
  /\ place' = [place EXCEPT ![t] = "called"]
  /\ exhaustedUntil' = Never
  /\ UNCHANGED <<clock, tail, asked, awaits, outcome, record, told>>

\* noteExhausted: the later of the remembered and the new reset; a refusal
\* that names no instant is remembered as nothing.
Noted(until) == IF until > exhaustedUntil THEN until ELSE exhaustedUntil

\* The reviewer ends with a verdict, or with a failure other than a quota.
Reviews(t) ==
  /\ place[t] = "called"
  /\ Settles(t)
  /\ place' = [place EXCEPT ![t] = "recording"]
  /\ \E o \in {"reviewed", "failed"} : outcome' = [outcome EXCEPT ![t] = o]
  /\ UNCHANGED <<clock, exhaustedUntil, asked, record, told>>

\* The reviewer reports its quota exhausted, until an instant or without one.
\* The instant is derived from what the provider wrote, whatever that was.
ReportsLimit(t) ==
  \E until \in Instants \cup {Never} :
    /\ place[t] = "called"
    /\ Settles(t)
    /\ place' = [place EXCEPT ![t] = "recording"]
    /\ outcome' = [outcome EXCEPT ![t] = "limited"]
    /\ exhaustedUntil' = Noted(until)
    /\ told' = IF until > told THEN until ELSE told
    /\ UNCHANGED <<clock, asked, record>>

\* Mutation: the chain goes on only where a call resolved.
ThrowsStranding(t) ==
  /\ place[t] = "called"
  /\ place' = [place EXCEPT ![t] = "away"]
  /\ asked' = [asked EXCEPT ![t] = Never]
  /\ UNCHANGED <<clock, gate, awaits, outcome, record, told>>

\* The call rejects; the rejection reaches the driver and ends the drive.
Throws(t) ==
  /\ place[t] = "called"
  /\ Settles(t)
  /\ place' = [place EXCEPT ![t] = "away"]
  /\ asked' = [asked EXCEPT ![t] = Never]
  /\ UNCHANGED <<clock, exhaustedUntil, outcome, record, told>>

\* What the step writes.  A review with findings goes on to a remediation and
\* comes back to another review; at the budget it is a person's.
Written(o) ==
  CASE o \in {"withheld", "limited"} -> {"BLOCKED_USAGE_LIMIT"}
    [] o = "reviewed" -> {"READY_FOR_PR", "REVIEWING", "HUMAN_DECISION_REQUIRED"}
    [] OTHER -> {"HUMAN_DECISION_REQUIRED"}

\* A refused write leaves the record as it was and ends the drive.
WritesRecord(t) ==
  /\ place[t] = "recording"
  /\ \/ \E s \in Written(outcome[t]) : record' = [record EXCEPT ![t] = s]
     \/ UNCHANGED record
  /\ place' = [place EXCEPT ![t] = "away"]
  /\ asked' = [asked EXCEPT ![t] = Never]
  /\ outcome' = [outcome EXCEPT ![t] = "none"]
  /\ UNCHANGED <<clock, gate, awaits, told>>

Tick ==
  /\ clock < MaxClock
  /\ clock' = clock + 1
  /\ UNCHANGED <<gate, steps, record, told>>

\* The process dies and another starts: a fresh gate knows nothing, and the
\* drives start again from the records.
Restart ==
  /\ tail' = Nobody
  /\ exhaustedUntil' = Never
  /\ place' = [t \in Task |-> "away"]
  /\ asked' = [t \in Task |-> Never]
  /\ awaits' = [t \in Task |-> Nobody]
  /\ outcome' = [t \in Task |-> "none"]
  /\ told' = Never
  /\ UNCHANGED <<clock, record>>

Turn(t) == Withholds(t) \/ MakesCall(t)
Answers(t) == Reviews(t) \/ ReportsLimit(t) \/ Throws(t)

GateNext ==
  \/ \E t \in Task : Begins(t) \/ Queues(t) \/ Turn(t) \/ Answers(t)
                     \/ WritesRecord(t)
  \/ Tick
  \/ Restart

GateSpec == GateInit /\ [][GateNext]_gateVars

\* The event loop runs what is ready to run, and the launch boundary ends a
\* reviewer that does not end by itself.
GateFairSpec ==
  GateSpec /\ \A t \in Task : WF_gateVars(Turn(t)) /\ WF_gateVars(Answers(t))

-----------------------------------------------------------------------------
GateTypeOK ==
  /\ clock \in Instants
  /\ tail \in Task \cup {Nobody}
  /\ exhaustedUntil \in Instants \cup {Never}
  /\ place \in [Task -> Places]
  /\ asked \in [Task -> Instants \cup {Never}]
  /\ awaits \in [Task -> Task \cup {Nobody}]
  /\ outcome \in [Task -> Outcomes]
  /\ record \in [Task -> Records]
  /\ told \in Instants \cup {Never}

\* At most one reviewer call is in flight, whatever calls were queued,
\* settled, rejected or withheld before it.
OneReviewer ==
  \A t, u \in Task : place[t] = "called" /\ place[u] = "called" => t = u

\* A call is not made before a reset the provider has named to this process,
\* however long the call waited and whatever it was told when it queued.
KnownExhaustedIsNotCalled ==
  [][\A t \in Task : place[t] = "queued" /\ place'[t] = "called" => told <= clock]_gateVars

\* Every queued call gets its turn, though calls before it fail, throw or are
\* withheld.
EveryTurnComes == \A t \in Task : place[t] = "queued" ~> place[t] # "queued"
=============================================================================
