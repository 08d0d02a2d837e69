--------------------------- MODULE TaskWorkspace ---------------------------
(***************************************************************************)
(* The workspace of one task: how a start creates or adopts its branch and *)
(* its worktree and writes the first record, and how `agent-loop release`  *)
(* gives them back (src/run/start-task.ts, release-workspace.ts,           *)
(* src/worktree/prepare-workspace.ts, adopt-workspace.ts,                  *)
(* remove-workspace.ts).                                                   *)
(*                                                                         *)
(* Every change to the repository is a Git command in a process of its     *)
(* own, and every question is one too.  The lease is read again in the     *)
(* same turn in which a command is sent or the record is written; between  *)
(* two turns the lease may be lost, the process may die while its command  *)
(* goes on, and a successor may start the same task.                       *)
(***************************************************************************)
EXTENDS Integers

CONSTANTS
  Proc,        \* processes that start or release the task
  MaxMain,     \* bound: commits the default branch gains
  MaxFaults,   \* bound: crashes, lost leases, refusals, edits by hand
  None

ASSUME BoundsAreNumbers == MaxMain \in Nat /\ MaxFaults \in Nat
ASSUME NoneIsNobody == None \notin Proc /\ None \notin Int

VARIABLES
  main,       \* the tip of the default branch
  branch,     \* the tip of the task's branch, or None
  tree,       \* what is at the task's worktree path
  record,     \* the base of the task's first durable state, or None
  holder,     \* the process whose lease is on disk, or None
  pc,         \* the turn each process takes next
  call,       \* what it was asked to do, and the commit it pinned
  cmd,        \* the Git command it sent and how far that has come
  overtaken,  \* the lease has moved while a command of its holder was running
  faults      \* faults so far

world == <<main, branch, tree>>
vars  == <<world, record, holder, pc, call, cmd, overtaken, faults>>

-----------------------------------------------------------------------------
(* The repository                                                          *)

\* The commits of the default branch are numbered; a chained task is built on
\* the result of a sibling, and work is whatever was committed on top.
Chained == -1
Worked  == -2
Base    == {Chained} \cup 0 .. MaxMain

\* A worktree of the task's branch as Git reads it: at its commit, with content
\* Git ignores, not (yet) checked out in full, or with work in it.
Linked  == {"pristine", "ignored", "partial", "dirty"}
Clean   == {"pristine", "ignored"}           \* `git status` lists no ignored file
Trees   == Linked \cup {"absent", "broken"}  \* broken: a path or a registration alone

Merged(c) == c \in 0 .. main

NoCmd == [does |-> "none", base |-> None, at |-> "none"]
Sent(what, base) == [does |-> what, base |-> base, at |-> "sent"]
Active(p) == cmd[p].at \in {"sent", "midway"}

NoCall == [job |-> "none", kind |-> "none", want |-> None]

\* The commit a start pins now: the tip it reads, or the one it was given.
BaseOf(p) == IF call[p].kind = "chained" THEN Chained ELSE main

-----------------------------------------------------------------------------
(* One turn of a process                                                   *)

Held(p) == holder = p

Goto(p, turn) == pc' = [pc EXCEPT ![p] = turn]

\* The call answers, and its lease is given back.
Ends(p) ==
  /\ pc' = [pc EXCEPT ![p] = "idle"]
  /\ call' = [call EXCEPT ![p] = NoCall]
  /\ holder' = IF holder = p THEN None ELSE holder

\* Something a call asks about is refused or cannot be answered.
Refusal(p) ==
  /\ faults < MaxFaults /\ faults' = faults + 1
  /\ Ends(p)
  /\ UNCHANGED <<world, record, cmd, overtaken>>

Stops(p) ==
  /\ Ends(p)
  /\ UNCHANGED <<world, record, cmd, overtaken, faults>>

Continues(p, turn) ==
  /\ Goto(p, turn)
  /\ UNCHANGED <<world, record, holder, call, cmd, overtaken, faults>>

Pins(p, turn) ==
  /\ call' = [call EXCEPT ![p].want = BaseOf(p)]
  /\ Goto(p, turn)
  /\ UNCHANGED <<world, record, holder, cmd, overtaken, faults>>

Sends(p, what, turn) ==
  /\ cmd' = [cmd EXCEPT ![p] = Sent(what, call[p].want)]
  /\ Goto(p, turn)
  /\ UNCHANGED <<world, record, holder, call, overtaken, faults>>

Idle(p) == pc[p] = "idle" /\ cmd[p] = NoCmd

Begin(p, job, kind) ==
  /\ Idle(p) /\ holder = None
  /\ job = "release" => kind = "tip"
  /\ holder' = p
  /\ call' = [call EXCEPT ![p] = [job |-> job, kind |-> kind, want |-> None]]
  /\ Goto(p, "entry")
  /\ UNCHANGED <<world, record, cmd, overtaken, faults>>

\* The first gate, the plan, and whether the task has a record: one turn.
Entry(p) ==
  /\ pc[p] = "entry"
  /\ \/ ~Held(p) /\ Stops(p)
     \/ Held(p) /\ Refusal(p)
     \/ Held(p) /\ call[p].job = "release" /\ Continues(p, "assess")
     \/ Held(p) /\ call[p].job = "start" /\ record # None /\ Continues(p, "driving")
     \/ Held(p) /\ call[p].job = "start" /\ record = None /\ Continues(p, "ask")

\* checkRuntimeIgnored and the preflight of the agents take seconds; the gate after
\* them is in the turn that begins to prepare.
Ask(p) ==
  /\ pc[p] = "ask"
  /\ \/ Refusal(p)
     \/ ~Held(p) /\ Stops(p)
     \/ Held(p) /\ Continues(p, "preflight")

SourcePreflight(p) ==
  /\ pc[p] = "preflight"
  /\ Refusal(p) \/ Pins(p, "branch")

\* Mutation: a branch in the way is refused, whoever left it.
AskBranchRefusing(p) ==
  /\ pc[p] = "branch"
  /\ \/ Refusal(p)
     \/ branch # None /\ Stops(p)
     \/ branch = None /\ Continues(p, "path")

\* detectCollisions: the branch first, then the path and the registry.
AskBranch(p) ==
  /\ pc[p] = "branch"
  /\ \/ Refusal(p)
     \/ branch # None /\ Continues(p, "assess")
     \/ branch = None /\ Continues(p, "path")

AskPath(p) ==
  /\ pc[p] = "path"
  /\ \/ Refusal(p)
     \/ tree # "absent" /\ Continues(p, "assess")
     \/ tree = "absent" /\ Continues(p, "create")

Create(p) ==
  /\ pc[p] = "create"
  /\ \/ ~Held(p) /\ Stops(p)
     \/ Held(p) /\ Refusal(p)
     \/ Held(p) /\ Sends(p, "add", "adding")

Answered(p, at) == cmd[p].at = at

AddAnswered(p) ==
  /\ pc[p] = "adding"
  /\ cmd' = [cmd EXCEPT ![p] = NoCmd]
  /\ \/ Answered(p, "done") /\ Goto(p, "verify") /\ UNCHANGED <<holder, call>>
     \/ Answered(p, "failed") /\ Ends(p)
  /\ UNCHANGED <<world, record, overtaken, faults>>

\* verifyWorkspaceMatches, asked of what is there now.
Matches(p) == tree \in Clean /\ branch = call[p].want

Verify(p) ==
  /\ pc[p] = "verify"
  /\ \/ Matches(p) /\ Continues(p, "record")
     \/ ~Matches(p) /\ Continues(p, "undo")
     \/ /\ faults < MaxFaults /\ faults' = faults + 1     \* a probe goes unanswered
        /\ Goto(p, "undo")
        /\ UNCHANGED <<world, record, holder, call, cmd, overtaken>>

-----------------------------------------------------------------------------
(* rollBack: each of its two commands behind a gate of its own             *)

\* Mutation: the caller's gate is thought to be enough.
UndoUngated(p) == pc[p] = "undo" /\ Sends(p, "remove", "unmaking")

Undo(p) ==
  /\ pc[p] = "undo"
  /\ \/ ~Held(p) /\ Stops(p)
     \/ Held(p) /\ Sends(p, "remove", "unmaking")

\* What follows a removal that was answered, here and in removeTaskWorkspace.
AfterRemoval(p, turn) ==
  \/ /\ Answered(p, "done") /\ Held(p)
     /\ cmd' = [cmd EXCEPT ![p] = Sent("delete", call[p].want)]
     /\ Goto(p, turn)
     /\ UNCHANGED <<world, record, holder, call, overtaken, faults>>
  \/ /\ Answered(p, "failed") \/ (Answered(p, "done") /\ ~Held(p))
     /\ cmd' = [cmd EXCEPT ![p] = NoCmd]
     /\ Ends(p)
     /\ UNCHANGED <<world, record, overtaken, faults>>

AfterDeletion(p) ==
  /\ Answered(p, "done") \/ Answered(p, "failed")
  /\ cmd' = [cmd EXCEPT ![p] = NoCmd]
  /\ Ends(p)
  /\ UNCHANGED <<world, record, overtaken, faults>>

Unmade(p)  == pc[p] = "unmaking" /\ AfterRemoval(p, "unnaming")
Unnamed(p) == pc[p] = "unnaming" /\ AfterDeletion(p)

-----------------------------------------------------------------------------
(* assessWorkspaceAdoption, and the first durable write                    *)

\* The record is read first, then the base a fresh start would pin, once more.
Assess(p) ==
  /\ pc[p] = "assess"
  /\ \/ Refusal(p)
     \/ record # None /\ Stops(p)
     \/ record = None /\ Pins(p, "match")

Match(p) ==
  /\ pc[p] = "match"
  /\ \/ Refusal(p)
     \/ ~Matches(p) /\ Stops(p)
     \/ Matches(p) /\ Continues(p, IF call[p].job = "start" THEN "record" ELSE "ignored")

\* The last gate and the write that expects no record are one turn.
Record(p) ==
  /\ pc[p] = "record"
  /\ \/ (~Held(p) \/ record # None) /\ Stops(p)
     \/ Held(p) /\ Refusal(p)
     \/ /\ Held(p) /\ record = None
        /\ record' = call[p].want
        /\ Goto(p, "driving")
        /\ UNCHANGED <<world, holder, call, cmd, overtaken, faults>>

-----------------------------------------------------------------------------
(* releaseTaskWorkspace and removeTaskWorkspace                            *)

AskIgnored(p) ==
  /\ pc[p] = "ignored"
  /\ \/ Refusal(p)
     \/ (tree = "ignored" \/ ~Held(p)) /\ Stops(p)
     \/ tree # "ignored" /\ Held(p) /\ Continues(p, "owned")

\* Three proofs, one after the other: Git registers the worktree with this branch
\* (which is all there may be of it), it is clean, the base has all it has.
AskOwned(p) ==
  /\ pc[p] = "owned"
  /\ \/ Refusal(p)
     \/ tree \notin Linked /\ Stops(p)
     \/ tree # "absent" /\ Continues(p, "clean")

AskClean(p) ==
  /\ pc[p] = "clean"
  /\ \/ Refusal(p)
     \/ tree \notin Clean /\ Stops(p)
     \/ tree \in Clean /\ Continues(p, "merged")

AskMerged(p) ==
  /\ pc[p] = "merged"
  /\ \/ Refusal(p)
     \/ ~Merged(branch) /\ Stops(p)
     \/ Merged(branch) /\ Continues(p, "remove")

Remove(p) ==
  /\ pc[p] = "remove"
  /\ \/ ~Held(p) /\ Stops(p)
     \/ Held(p) /\ Sends(p, "remove", "removing")

Removed(p) == pc[p] = "removing" /\ AfterRemoval(p, "deleting")
Deleted(p) == pc[p] = "deleting" /\ AfterDeletion(p)

-----------------------------------------------------------------------------
(* The task is driven: a writer works, the call returns                    *)

\* Files are changed in the worktree, ignored ones too, or all there is is committed.
EditsOrCommits ==
  \/ tree # "dirty" /\ tree' \in {"dirty", "ignored"} /\ UNCHANGED branch
  \/ tree' = "pristine" /\ branch' = Worked

Work(p) ==
  /\ pc[p] = "driving" /\ tree \in Linked
  /\ EditsOrCommits
  /\ UNCHANGED <<main, record, holder, pc, call, cmd, overtaken, faults>>

Return(p) == pc[p] = "driving" /\ Stops(p)

Turn(p) ==
  \/ Entry(p) \/ Ask(p) \/ SourcePreflight(p) \/ AskBranch(p) \/ AskPath(p)
  \/ Create(p) \/ AddAnswered(p) \/ Verify(p) \/ Undo(p) \/ Unmade(p) \/ Unnamed(p)
  \/ Assess(p) \/ Match(p) \/ Record(p)
  \/ AskIgnored(p) \/ AskOwned(p) \/ AskClean(p) \/ AskMerged(p) \/ Remove(p) \/ Removed(p) \/ Deleted(p)
  \/ Return(p)

-----------------------------------------------------------------------------
(* Git                                                                     *)

Reaches(p, at) == cmd' = [cmd EXCEPT ![p].at = at]

\* `worktree add -b` makes the branch, then the checkout.
AddStarts(p) ==
  /\ cmd[p].does = "add" /\ cmd[p].at = "sent"
  /\ IF branch = None /\ tree = "absent"
     THEN branch' = cmd[p].base /\ tree' = "partial" /\ Reaches(p, "midway")
     ELSE UNCHANGED <<branch, tree>> /\ Reaches(p, "failed")
  /\ UNCHANGED <<main, record, holder, pc, call, overtaken, faults>>

\* A checkout may differ from its commit as soon as it is made (line endings).
AddEnds(p) ==
  /\ cmd[p].does = "add" /\ cmd[p].at = "midway"
  /\ IF tree = "partial"
     THEN /\ Reaches(p, "done")
          /\ \/ tree' = "pristine" /\ UNCHANGED faults
             \/ faults < MaxFaults /\ faults' = faults + 1 /\ UNCHANGED tree
     ELSE Reaches(p, "failed") /\ UNCHANGED <<tree, faults>>
  /\ UNCHANGED <<main, branch, record, holder, pc, call, overtaken>>

\* Mutation: `worktree remove --force`.
RemovableForced == tree \in Linked

\* `worktree remove` and `branch -d`, never forced.
Removable == tree \in Clean
Deletable == branch # None /\ tree = "absent" /\ Merged(branch)

RemoveLands(p) ==
  /\ cmd[p].does = "remove" /\ cmd[p].at = "sent"
  /\ IF Removable
     THEN tree' = "absent" /\ Reaches(p, "done")
     ELSE UNCHANGED tree /\ Reaches(p, "failed")
  /\ UNCHANGED <<main, branch, record, holder, pc, call, overtaken, faults>>

DeleteLands(p) ==
  /\ cmd[p].does = "delete" /\ cmd[p].at = "sent"
  /\ IF Deletable
     THEN branch' = None /\ Reaches(p, "done")
     ELSE UNCHANGED branch /\ Reaches(p, "failed")
  /\ UNCHANGED <<main, tree, record, holder, pc, call, overtaken, faults>>

\* Where a command that is killed may have come to.
Interrupted(p) ==
  CASE cmd[p].at = "midway"                     -> {"partial", "broken", "absent"}
    [] cmd[p].does = "remove" /\ Removable      -> {tree, "broken"}
    [] OTHER                                    -> {tree}

\* A deadline, an output limit or the end of its process; or only the answer is lost.
Killed(p) ==
  /\ cmd[p].at \in {"sent", "midway", "done"}
  /\ IF pc[p] = "dead" THEN UNCHANGED faults ELSE faults < MaxFaults /\ faults' = faults + 1
  /\ IF cmd[p].at = "midway" /\ tree # "partial"
     THEN UNCHANGED tree
     ELSE tree' \in (IF Answered(p, "done") THEN {tree} ELSE Interrupted(p))
  /\ Reaches(p, "failed")
  /\ UNCHANGED <<main, branch, record, holder, pc, call, overtaken>>

Git(p) == AddStarts(p) \/ AddEnds(p) \/ RemoveLands(p) \/ DeleteLands(p)

-----------------------------------------------------------------------------
(* What happens around them                                                *)

Crash(p) ==
  /\ pc[p] \notin {"idle", "dead"}
  /\ faults < MaxFaults /\ faults' = faults + 1
  /\ Goto(p, "dead")
  /\ call' = [call EXCEPT ![p] = NoCall]
  /\ UNCHANGED <<world, record, holder, cmd, overtaken>>

LeaseMoves ==
  /\ holder' = None
  /\ overtaken' = (overtaken \/ \E p \in Proc : holder = p /\ Active(p))
  /\ UNCHANGED <<world, record, pc, call, cmd>>

\* `recoverStaleLease` of a dead owner; the loss of a live one's lease
\* (module ExecutionLease) is a fault.
Recover == /\ \E p \in Proc : holder = p /\ pc[p] = "dead"
           /\ LeaseMoves /\ UNCHANGED faults

LoseLease == /\ \E p \in Proc : holder = p /\ pc[p] # "dead"
             /\ faults < MaxFaults /\ faults' = faults + 1
             /\ LeaseMoves

\* Another process takes the place of one that is gone, command and all.
Forgotten(p) ==
  /\ pc[p] = "dead" /\ holder # p /\ ~Active(p)
  /\ Goto(p, "idle")
  /\ cmd' = [cmd EXCEPT ![p] = NoCmd]
  /\ UNCHANGED <<world, record, holder, call, overtaken, faults>>

MainAdvances ==
  /\ main < MaxMain /\ main' = main + 1
  /\ UNCHANGED <<branch, tree, record, holder, pc, call, cmd, overtaken, faults>>

\* A person edits or commits in a workspace no record accounts for.
PersonEdits ==
  /\ record = None /\ tree \in Linked
  /\ faults < MaxFaults /\ faults' = faults + 1
  /\ EditsOrCommits
  /\ UNCHANGED <<main, record, holder, pc, call, cmd, overtaken>>

\* A person clears what is in the way of a start while nothing runs.
PersonClears ==
  /\ record = None /\ holder = None /\ \A p \in Proc : ~Active(p)
  /\ branch # None \/ tree # "absent"
  /\ branch' = None /\ tree' = "absent"
  /\ UNCHANGED <<main, record, holder, pc, call, cmd, overtaken, faults>>

-----------------------------------------------------------------------------
Init ==
  /\ main = 0 /\ branch = None /\ tree = "absent" /\ record = None
  /\ holder = None
  /\ pc = [p \in Proc |-> "idle"]
  /\ call = [p \in Proc |-> NoCall]
  /\ cmd = [p \in Proc |-> NoCmd]
  /\ overtaken = FALSE /\ faults = 0

Next ==
  \/ \E p \in Proc :
       \/ \E job \in {"start", "release"}, kind \in {"tip", "chained"} : Begin(p, job, kind)
       \/ Turn(p) \/ Work(p) \/ Git(p) \/ Killed(p) \/ Crash(p) \/ Forgotten(p)
  \/ Recover \/ LoseLease \/ MainAdvances \/ PersonEdits \/ PersonClears

Spec == Init /\ [][Next]_vars

\* A process takes its turns and Git ends (runGitCommand gives it a deadline), a dead
\* owner's lease is recovered, and somebody keeps starting the task.
FairSpec ==
  /\ Spec
  /\ \A p \in Proc : /\ WF_vars(Turn(p)) /\ WF_vars(Git(p)) /\ WF_vars(Forgotten(p))
                     /\ SF_vars(Begin(p, "start", "tip"))
  /\ WF_vars(Recover)

-----------------------------------------------------------------------------
Turns == {"idle", "dead", "entry", "ask", "preflight", "branch", "path", "create", "adding",
          "verify", "undo", "unmaking", "unnaming", "assess", "match", "record",
          "ignored", "owned", "clean", "merged", "remove", "removing", "deleting", "driving"}
Tips  == Base \cup {Worked, None}
Calls == [job : {"none", "start", "release"}, kind : {"none", "tip", "chained"},
          want : Base \cup {None}]
Cmds  == [does : {"none", "add", "remove", "delete"}, base : Base \cup {None},
          at : {"none", "sent", "midway", "done", "failed"}]

\* Types: what a record names as its base is a commit a start may pin.
TypeOK ==
  /\ main \in 0 .. MaxMain
  /\ branch \in Tips
  /\ tree \in Trees
  /\ record \in Base \cup {None}
  /\ holder \in Proc \cup {None}
  /\ pc \in [Proc -> Turns]
  /\ call \in [Proc -> Calls]
  /\ cmd \in [Proc -> Cmds]
  /\ overtaken \in BOOLEAN
  /\ faults \in 0 .. MaxFaults

(***************************************************************************)
(* A task that has a record has its branch and its worktree: no start that  *)
(* undoes, no release and no crashed predecessor takes them away, wherever   *)
(* in their waits the lease was lost, as long as it did not move while one   *)
(* of its holder's own commands was running ("the gate that matters is the   *)
(* one nearest the effect", prepare-workspace.ts, remove-workspace.ts).      *)
(***************************************************************************)
RecordedWorkspaceStands ==
  record # None /\ ~overtaken => tree \in Linked /\ branch # None

(***************************************************************************)
(* Not even a command that was overtaken destroys a commit the default       *)
(* branch lacks or a file Git can see ("Nothing unsaved may be destroyed",   *)
(* remove-workspace.ts).                                                    *)
(***************************************************************************)
NoWorkIsLost ==
  [][\/ PersonClears
     \/ /\ branch = Worked => branch' = Worked
        /\ tree = "dirty" => (tree' = "dirty" \/ branch' = Worked)]_vars

\* What a start from the default branch refuses and only a person can clear.
Obstructed ==
  /\ branch # None \/ tree # "absent"
  /\ ~(tree \in Clean /\ branch = main)

(***************************************************************************)
(* A task that is started again and again is started: a crash between the    *)
(* workspace and the record, wherever it falls, is taken up by a later start *)
(* or leaves something only a person may clear.                             *)
(***************************************************************************)
EventuallyStarted == <>(record # None \/ []Obstructed)
=============================================================================
