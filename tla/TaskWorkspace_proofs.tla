------------------------ MODULE TaskWorkspace_proofs ------------------------
(***************************************************************************)
(* Proofs about TaskWorkspace, for every set of processes and every bound. *)
(*                                                                         *)
(* The workspace of a recorded task stands because whoever may change it   *)
(* holds the lease and knows that there is no record: a command that runs  *)
(* is the holder's (or the lease moved while it ran, which is what         *)
(* `overtaken` remembers), the holder read that there was no record and    *)
(* only it could have written one, and the workspace that is about to be   *)
(* recorded is there.                                                      *)
(***************************************************************************)
EXTENDS TaskWorkspace, TLAPS

\* The turns in which a process has read that the task has no record.
Unrecorded == {"ask", "preflight", "branch", "path", "create", "adding", "verify", "undo",
               "unmaking", "unnaming", "match", "record", "ignored", "owned", "clean",
               "merged", "remove", "removing", "deleting"}

\* Those in which it waits for a command, and those that know the pinned commit.
Waiting == {"adding", "unmaking", "unnaming", "removing", "deleting"}
Pinned  == {"branch", "path", "create", "adding", "verify", "match", "record"}

CommandsAreTheHolders ==
  ~overtaken => \A p \in Proc : Active(p) =>
    Held(p) /\ record = None /\ pc[p] \in Waiting \cup {"dead"}

HolderKnowsNoRecord ==
  \A p \in Proc : Held(p) /\ pc[p] \in Unrecorded => record = None

BaseIsPinned ==
  \A p \in Proc : pc[p] \in Pinned => call[p].want \in Base

IsThere == tree \in Linked /\ branch # None

ReadyIsThere ==
  ~overtaken => \A p \in Proc : Held(p) /\ pc[p] = "record" => IsThere

WorkspaceInv ==
  /\ TypeOK
  /\ CommandsAreTheHolders /\ HolderKnowsNoRecord /\ BaseIsPinned /\ ReadyIsThere
  /\ RecordedWorkspaceStands

USE BoundsAreNumbers, NoneIsNobody

-----------------------------------------------------------------------------
(* Types                                                                   *)

LEMMA ConstantsTyped ==
  /\ NoCall \in Calls /\ NoCmd \in Cmds
  /\ 0 \in Base /\ Base \subseteq Tips /\ Worked \in Tips /\ None \in Tips
  /\ Linked \subseteq Trees /\ "absent" \in Trees
  BY DEF NoCall, Calls, NoCmd, Cmds, Base, Tips, Trees

LEMMA InitTypes == Init => TypeOK
<1> SUFFICES ASSUME Init PROVE TypeOK
  OBVIOUS
<1>1. pc \in [Proc -> Turns]
  BY DEF Init, Turns
<1>2. main \in 0 .. MaxMain /\ faults \in 0 .. MaxFaults
  BY DEF Init
<1>. QED BY <1>1, <1>2, ConstantsTyped DEF Init, TypeOK

LEMMA BaseType ==
  ASSUME TypeOK, NEW p \in Proc PROVE BaseOf(p) \in Base
  BY DEF TypeOK, BaseOf, Base

LEMMA GotoType ==
  ASSUME TypeOK, NEW p \in Proc, NEW turn \in Turns, Goto(p, turn)
  PROVE  pc' \in [Proc -> Turns]
  BY DEF TypeOK, Goto

LEMMA FaultType == TypeOK /\ faults < MaxFaults => faults + 1 \in 0 .. MaxFaults
  BY DEF TypeOK

LEMMA AnswerType ==
  ASSUME TypeOK, NEW p \in Proc, cmd' = [cmd EXCEPT ![p] = NoCmd]
  PROVE  cmd' \in [Proc -> Cmds]
  BY ConstantsTyped DEF TypeOK

LEMMA SentType ==
  ASSUME TypeOK, NEW p \in Proc, NEW what \in {"add", "remove", "delete"}
  PROVE  Sent(what, call[p].want) \in Cmds
<1>1. call[p].want \in Base \cup {None}
  BY DEF TypeOK, Calls
<1>. QED BY <1>1 DEF Sent, Cmds

LEMMA PinnedType ==
  ASSUME TypeOK, NEW p \in Proc PROVE [call EXCEPT ![p].want = BaseOf(p)] \in [Proc -> Calls]
  BY BaseType DEF TypeOK, Calls

LEMMA EndsTypes ==
  ASSUME TypeOK, NEW p \in Proc, Ends(p)
  PROVE  /\ pc' \in [Proc -> Turns] /\ call' \in [Proc -> Calls]
         /\ holder' \in Proc \cup {None}
<1>1. "idle" \in Turns
  BY DEF Turns
<1>. QED BY <1>1, ConstantsTyped DEF TypeOK, Ends

LEMMA StopsTypes ==
  ASSUME TypeOK, NEW p \in Proc, Stops(p) PROVE TypeOK'
  BY EndsTypes DEF Stops, world, TypeOK

LEMMA RefusalTypes ==
  ASSUME TypeOK, NEW p \in Proc, Refusal(p) PROVE TypeOK'
  BY EndsTypes, FaultType DEF Refusal, world, TypeOK

LEMMA ContinuesTypes ==
  ASSUME TypeOK, NEW p \in Proc, NEW turn \in Turns, Continues(p, turn) PROVE TypeOK'
  BY GotoType DEF Continues, world, TypeOK

LEMMA PinsTypes ==
  ASSUME TypeOK, NEW p \in Proc, NEW turn \in Turns, Pins(p, turn) PROVE TypeOK'
  BY GotoType, PinnedType DEF Pins, world, TypeOK

LEMMA SendsTypes ==
  ASSUME TypeOK, NEW p \in Proc, NEW turn \in Turns, NEW what \in {"add", "remove", "delete"},
         Sends(p, what, turn)
  PROVE  TypeOK'
  BY GotoType, SentType DEF Sends, world, TypeOK

LEMMA AfterRemovalTypes ==
  ASSUME TypeOK, NEW p \in Proc, NEW turn \in Turns, AfterRemoval(p, turn) PROVE TypeOK'
<1>1. ASSUME cmd' = [cmd EXCEPT ![p] = Sent("delete", call[p].want)], Goto(p, turn),
             UNCHANGED <<world, record, holder, call, overtaken, faults>>
      PROVE  TypeOK'
  BY <1>1, GotoType, SentType DEF world, TypeOK
<1>2. ASSUME cmd' = [cmd EXCEPT ![p] = NoCmd], Ends(p),
             UNCHANGED <<world, record, overtaken, faults>>
      PROVE  TypeOK'
  BY <1>2, EndsTypes, AnswerType DEF world, TypeOK
<1>. QED BY <1>1, <1>2 DEF AfterRemoval

LEMMA AfterDeletionTypes ==
  ASSUME TypeOK, NEW p \in Proc, AfterDeletion(p) PROVE TypeOK'
  BY EndsTypes, AnswerType DEF AfterDeletion, world, TypeOK

LEMMA TurnTypes ==
  ASSUME TypeOK, NEW p \in Proc, Turn(p) PROVE TypeOK'
<1> USE StopsTypes, RefusalTypes, ContinuesTypes, SendsTypes
<1>0. \A t \in Unrecorded \cup {"entry", "assess", "driving", "undo"} : t \in Turns
  BY DEF Turns, Unrecorded
<1>1. CASE Entry(p) BY <1>0, <1>1 DEF Entry, Unrecorded
<1>2. CASE Ask(p) BY <1>0, <1>2 DEF Ask, Unrecorded
<1>3. CASE SourcePreflight(p) BY <1>0, <1>3, PinsTypes DEF SourcePreflight, Unrecorded
<1>4. CASE AskBranch(p) BY <1>0, <1>4 DEF AskBranch, Unrecorded
<1>5. CASE AskPath(p) BY <1>0, <1>5 DEF AskPath, Unrecorded
<1>6. CASE Create(p) BY <1>0, <1>6 DEF Create, Unrecorded
<1>7. CASE AddAnswered(p)
  <2>1. ASSUME Goto(p, "verify"), UNCHANGED <<holder, call>> PROVE TypeOK'
    BY <1>0, <1>7, <2>1, GotoType, AnswerType DEF AddAnswered, world, TypeOK, Unrecorded
  <2>2. ASSUME Ends(p) PROVE TypeOK'
    BY <1>7, <2>2, EndsTypes, AnswerType DEF AddAnswered, world, TypeOK
  <2>. QED BY <1>7, <2>1, <2>2 DEF AddAnswered
<1>8. CASE Verify(p)
  <2>1. ASSUME faults < MaxFaults, faults' = faults + 1, Goto(p, "undo"),
               UNCHANGED <<world, record, holder, call, cmd, overtaken>>
        PROVE  TypeOK'
    BY <1>0, <2>1, GotoType, FaultType DEF world, TypeOK
  <2>. QED BY <1>0, <1>8, <2>1 DEF Verify, Unrecorded
<1>9. CASE Undo(p) BY <1>0, <1>9 DEF Undo, Unrecorded
<1>10. CASE Unmade(p) BY <1>0, <1>10, AfterRemovalTypes DEF Unmade, Unrecorded
<1>11. CASE Unnamed(p) BY <1>11, AfterDeletionTypes DEF Unnamed
<1>12. CASE Assess(p) BY <1>0, <1>12, PinsTypes DEF Assess, Unrecorded
<1>13. CASE Match(p) BY <1>0, <1>13 DEF Match, Unrecorded
<1>14. CASE Record(p)
  <2>1. ASSUME record' = call[p].want, Goto(p, "driving"),
               UNCHANGED <<world, holder, call, cmd, overtaken, faults>>
        PROVE  TypeOK'
    <3>1. record' \in Base \cup {None}
      BY <2>1 DEF TypeOK, Calls
    <3>. QED BY <1>0, <2>1, <3>1, GotoType DEF world, TypeOK
  <2>. QED BY <1>14, <2>1 DEF Record
<1>15. CASE AskIgnored(p) BY <1>0, <1>15 DEF AskIgnored, Unrecorded
<1>16. CASE AskOwned(p) \/ AskClean(p) \/ AskMerged(p)
  BY <1>0, <1>16 DEF AskOwned, AskClean, AskMerged, Unrecorded
<1>17. CASE Remove(p) BY <1>0, <1>17 DEF Remove, Unrecorded
<1>18. CASE Removed(p) BY <1>0, <1>18, AfterRemovalTypes DEF Removed, Unrecorded
<1>19. CASE Deleted(p) BY <1>19, AfterDeletionTypes DEF Deleted
<1>20. CASE Return(p) BY <1>20 DEF Return
<1>. QED
  BY <1>1, <1>2, <1>3, <1>4, <1>5, <1>6, <1>7, <1>8, <1>9, <1>10, <1>11, <1>12, <1>13,
     <1>14, <1>15, <1>16, <1>17, <1>18, <1>19, <1>20 DEF Turn

LEMMA ReachesType ==
  ASSUME TypeOK, NEW p \in Proc, NEW at \in {"midway", "done", "failed"}, Reaches(p, at)
  PROVE  cmd' \in [Proc -> Cmds]
  BY DEF TypeOK, Reaches, Cmds

LEMMA GitTypes ==
  ASSUME TypeOK, NEW p \in Proc, Git(p) PROVE TypeOK'
<1>1. cmd[p].base \in Tips
  BY ConstantsTyped DEF TypeOK, Cmds
<1>2. {"partial", "pristine", "absent"} \subseteq Trees
  BY DEF Trees, Linked
<1>3. CASE AddStarts(p) BY <1>1, <1>2, <1>3, ReachesType DEF AddStarts, TypeOK
<1>4. CASE AddEnds(p) BY <1>2, <1>4, ReachesType, FaultType DEF AddEnds, TypeOK
<1>5. CASE RemoveLands(p) BY <1>2, <1>5, ReachesType DEF RemoveLands, TypeOK
<1>6. CASE DeleteLands(p) BY <1>6, ReachesType, ConstantsTyped DEF DeleteLands, TypeOK
<1>. QED BY <1>3, <1>4, <1>5, <1>6 DEF Git

LEMMA KilledTypes ==
  ASSUME TypeOK, NEW p \in Proc, Killed(p) PROVE TypeOK'
<1>1. Interrupted(p) \subseteq Trees
  BY DEF Interrupted, Trees, Linked, TypeOK
<1>2. tree' \in Trees
  BY <1>1 DEF Killed, TypeOK
<1>3. faults' \in 0 .. MaxFaults
  BY FaultType DEF Killed, TypeOK
<1>. QED BY <1>2, <1>3, ReachesType DEF Killed, TypeOK

LEMMA AroundTypes ==
  ASSUME TypeOK, Recover \/ LoseLease \/ MainAdvances \/ PersonEdits \/ PersonClears
  PROVE  TypeOK'
<1> USE DEF TypeOK, Tips, Base, Trees, Linked, world
<1>1. CASE Recover BY <1>1 DEF Recover, LeaseMoves
<1>2. CASE LoseLease BY <1>2 DEF LoseLease, LeaseMoves
<1>3. CASE MainAdvances BY <1>3 DEF MainAdvances
<1>4. CASE PersonEdits BY <1>4 DEF PersonEdits, EditsOrCommits
<1>5. CASE PersonClears BY <1>5 DEF PersonClears
<1>. QED BY <1>1, <1>2, <1>3, <1>4, <1>5

LEMMA NextTypes == TypeOK /\ [Next]_vars => TypeOK'
<1> SUFFICES ASSUME TypeOK, [Next]_vars PROVE TypeOK'
  OBVIOUS
<1>0. {"entry", "dead", "idle"} \subseteq Turns
  BY DEF Turns
<1>1. ASSUME NEW p \in Proc, NEW job \in {"start", "release"}, NEW kind \in {"tip", "chained"},
             Begin(p, job, kind)
      PROVE  TypeOK'
  <2>1. [job |-> job, kind |-> kind, want |-> None] \in Calls
    BY DEF Calls
  <2>2. pc' \in [Proc -> Turns]
    BY <1>0, <1>1, GotoType DEF Begin
  <2>3. call' \in [Proc -> Calls]
    BY <1>1, <2>1 DEF Begin, TypeOK
  <2>. QED BY <1>1, <2>2, <2>3 DEF Begin, TypeOK, world
<1>2. ASSUME NEW p \in Proc, Work(p) PROVE TypeOK'
  BY <1>2 DEF Work, EditsOrCommits, TypeOK, Trees, Linked, Tips
<1>3. ASSUME NEW p \in Proc, Crash(p) PROVE TypeOK'
  BY <1>0, <1>3, GotoType, FaultType, ConstantsTyped DEF Crash, TypeOK, world
<1>4. ASSUME NEW p \in Proc, Forgotten(p) PROVE TypeOK'
  BY <1>0, <1>4, GotoType, AnswerType DEF Forgotten, TypeOK, world
<1>5. CASE UNCHANGED vars
  BY <1>5 DEF vars, world, TypeOK
<1>. QED
  BY <1>1, <1>2, <1>3, <1>4, <1>5, TurnTypes, GitTypes, KilledTypes, AroundTypes DEF Next

(***************************************************************************)
(* TypeOK is invariant: whatever happened before, what a start pins, sends  *)
(* and records as its base is a commit a start may pin, never the work that *)
(* was found on the branch (startAgainstPlan, assessWorkspaceAdoption).     *)
(***************************************************************************)
THEOREM TypesHold == Spec => []TypeOK
  BY InitTypes, NextTypes, PTL DEF Spec

-----------------------------------------------------------------------------
(* The workspace of a recorded task                                        *)

\* What a turn leaves alone when it only moves on or ends.
Quiet(p) ==
  /\ UNCHANGED <<tree, branch, record, cmd>>
  /\ overtaken' = overtaken
  /\ holder' \in {holder, IF holder = p THEN None ELSE holder}
  /\ \A q \in Proc : q # p => pc'[q] = pc[q] /\ call'[q] = call[q]

\* A quiet turn of a process that waits for nothing keeps the invariant when
\* the turn it goes to knows what that turn has to know.
LEMMA QuietKeeps ==
  ASSUME WorkspaceInv, TypeOK', NEW p \in Proc, Quiet(p),
         pc[p] \notin Waiting \cup {"dead"},
         holder' = p /\ pc'[p] \in Unrecorded => record = None,
         pc'[p] \in Pinned => call'[p].want \in Base,
         holder' = p /\ pc'[p] = "record" /\ ~overtaken => IsThere
  PROVE  WorkspaceInv'
<1> USE DEF WorkspaceInv, Quiet
<1>1. \A q \in Proc : Active(q)' <=> Active(q)
  BY DEF Active
<1>2. ~overtaken => ~Active(p)
  BY DEF CommandsAreTheHolders
<1>3. \A q \in Proc : q # p => (Held(q)' <=> Held(q))
  BY NoneIsNobody DEF Held
<1>4. CommandsAreTheHolders'
  BY <1>1, <1>2, <1>3 DEF CommandsAreTheHolders
<1>5. HolderKnowsNoRecord'
  BY <1>3 DEF HolderKnowsNoRecord, Held
<1>6. BaseIsPinned'
  BY DEF BaseIsPinned
<1>7. ReadyIsThere'
  BY <1>3 DEF ReadyIsThere, Held, IsThere
<1>8. RecordedWorkspaceStands'
  BY DEF RecordedWorkspaceStands
<1>. QED BY <1>4, <1>5, <1>6, <1>7, <1>8

LEMMA EndingKeeps ==
  ASSUME WorkspaceInv, TypeOK', NEW p \in Proc, Ends(p),
         UNCHANGED <<world, record, cmd, overtaken>>, pc[p] \notin Waiting \cup {"dead"}
  PROVE  WorkspaceInv'
<1>1. Quiet(p)
  BY DEF Ends, Quiet, world, WorkspaceInv, TypeOK
<1>2. pc'[p] = "idle"
  BY DEF Ends, WorkspaceInv, TypeOK
<1>. QED BY <1>1, <1>2, QuietKeeps DEF Unrecorded, Pinned

LEMMA MovingKeeps ==
  ASSUME WorkspaceInv, TypeOK', NEW p \in Proc, NEW turn, Goto(p, turn),
         UNCHANGED <<world, record, holder, call, cmd, overtaken>>,
         pc[p] \notin Waiting \cup {"dead"},
         Held(p) /\ turn \in Unrecorded => record = None,
         turn \in Pinned => pc[p] \in Pinned,
         Held(p) /\ turn = "record" /\ ~overtaken => IsThere
  PROVE  WorkspaceInv'
<1>1. Quiet(p)
  BY DEF Goto, Quiet, world, WorkspaceInv, TypeOK
<1>2. pc'[p] = turn
  BY DEF Goto, WorkspaceInv, TypeOK
<1>3. turn \in Pinned => call'[p].want \in Base
  BY DEF WorkspaceInv, BaseIsPinned
<1>. QED BY <1>1, <1>2, <1>3, QuietKeeps DEF Held

LEMMA PinningKeeps ==
  ASSUME WorkspaceInv, TypeOK', NEW p \in Proc, NEW turn, Pins(p, turn),
         pc[p] \notin Waiting \cup {"dead"}, turn # "record",
         Held(p) /\ turn \in Unrecorded => record = None
  PROVE  WorkspaceInv'
<1>1. Quiet(p)
  BY DEF Pins, Goto, Quiet, world, WorkspaceInv, TypeOK
<1>2. pc'[p] = turn
  BY DEF Pins, Goto, WorkspaceInv, TypeOK
<1>3. call'[p].want \in Base
  BY BaseType DEF Pins, WorkspaceInv, TypeOK, Calls
<1>4. holder' = holder
  BY DEF Pins
<1>. QED BY <1>1, <1>2, <1>3, <1>4, QuietKeeps DEF Held

\* A command is sent by the holder, who knows that there is no record.
LEMMA SendingKeeps ==
  ASSUME WorkspaceInv, TypeOK', NEW p \in Proc, NEW turn \in Waiting, NEW what, Held(p),
         pc[p] \in Unrecorded, cmd' = [cmd EXCEPT ![p] = Sent(what, call[p].want)],
         Goto(p, turn), UNCHANGED <<world, record, holder, call, overtaken>>,
         turn \in Pinned => pc[p] \in Pinned
  PROVE  WorkspaceInv'
<1> USE DEF WorkspaceInv
<1>1. record = None
  BY DEF HolderKnowsNoRecord
<1>2. pc'[p] = turn /\ \A q \in Proc : q # p => pc'[q] = pc[q]
  BY DEF Goto, TypeOK
<1>3. \A q \in Proc : q # p => (Active(q)' <=> Active(q))
  BY DEF Active, TypeOK
<1>4. CommandsAreTheHolders'
  BY <1>1, <1>2, <1>3 DEF CommandsAreTheHolders, Held
<1>5. HolderKnowsNoRecord'
  BY <1>1 DEF HolderKnowsNoRecord
<1>6. BaseIsPinned'
  BY <1>2 DEF BaseIsPinned
<1>7. ReadyIsThere'
  BY <1>2 DEF ReadyIsThere, Held, IsThere, Waiting, world
<1>8. RecordedWorkspaceStands'
  BY <1>1, NoneIsNobody DEF RecordedWorkspaceStands
<1>. QED BY <1>4, <1>5, <1>6, <1>7, <1>8

\* An answer is received: the command is over, and nothing else is known better.
LEMMA AnsweringKeeps ==
  ASSUME WorkspaceInv, TypeOK', NEW p \in Proc, cmd' = [cmd EXCEPT ![p] = NoCmd],
         UNCHANGED <<world, record, overtaken>>, pc[p] \in Waiting,
         \/ Ends(p)
         \/ pc[p] = "adding" /\ Goto(p, "verify") /\ UNCHANGED <<holder, call>>
  PROVE  WorkspaceInv'
<1> USE DEF WorkspaceInv, world
<1>1. /\ pc'[p] \in {"idle", "verify"}
      /\ \A q \in Proc : q # p => pc'[q] = pc[q] /\ call'[q] = call[q]
  BY DEF Ends, Goto, TypeOK
<1>2. \A q \in Proc : q # p => (Held(q)' <=> Held(q))
  BY NoneIsNobody DEF Ends, Held
<1>3. ~Active(p)' /\ \A q \in Proc : q # p => (Active(q)' <=> Active(q))
  BY DEF Active, NoCmd, TypeOK
<1>4. Held(p)' /\ pc'[p] = "verify" => Held(p)
  BY DEF Held, Ends, TypeOK
<1>5. CommandsAreTheHolders'
  BY <1>1, <1>2, <1>3 DEF CommandsAreTheHolders
<1>6. HolderKnowsNoRecord'
  BY <1>1, <1>2, <1>4 DEF HolderKnowsNoRecord, Unrecorded, Waiting
<1>7. BaseIsPinned'
  <2>1. pc'[p] = "verify" => call'[p] = call[p] /\ pc[p] = "adding"
    BY DEF Ends, TypeOK
  <2>. QED BY <1>1, <2>1 DEF BaseIsPinned, Pinned
<1>8. ReadyIsThere'
  BY <1>1, <1>2 DEF ReadyIsThere, IsThere
<1>9. RecordedWorkspaceStands'
  BY DEF RecordedWorkspaceStands
<1>. QED BY <1>5, <1>6, <1>7, <1>8, <1>9

LEMMA StopsKeeps ==
  ASSUME WorkspaceInv, TypeOK', NEW p \in Proc, Stops(p), pc[p] \notin Waiting \cup {"dead"}
  PROVE  WorkspaceInv'
  BY EndingKeeps DEF Stops

LEMMA RefusalKeeps ==
  ASSUME WorkspaceInv, TypeOK', NEW p \in Proc, Refusal(p), pc[p] \notin Waiting \cup {"dead"}
  PROVE  WorkspaceInv'
  BY EndingKeeps DEF Refusal

\* A turn that has already read that there is no record moves on to another one.
LEMMA GoingOnKeeps ==
  ASSUME WorkspaceInv, TypeOK', NEW p \in Proc, NEW turn, Continues(p, turn),
         pc[p] \in Unrecorded \ Waiting, turn \in Pinned => pc[p] \in Pinned,
         turn # "record"
  PROVE  WorkspaceInv'
<1>1. Held(p) => record = None
  BY DEF WorkspaceInv, HolderKnowsNoRecord
<1>. QED BY <1>1, MovingKeeps DEF Continues, Unrecorded

LEMMA MatchedIsThere ==
  ASSUME WorkspaceInv, NEW p \in Proc, pc[p] \in Pinned, Matches(p) PROVE IsThere
<1>1. None \notin Base
  BY NoneIsNobody DEF Base, Chained
<1>2. call[p].want \in Base
  BY DEF WorkspaceInv, BaseIsPinned
<1>3. Clean \subseteq Linked
  BY DEF Clean, Linked
<1>. QED BY <1>1, <1>2, <1>3 DEF Matches, IsThere

LEMMA RecordKeeps ==
  ASSUME WorkspaceInv, TypeOK', NEW p \in Proc, Record(p) PROVE WorkspaceInv'
<1>1. ASSUME Held(p), record = None, record' = call[p].want, Goto(p, "driving"),
             UNCHANGED <<world, holder, call, cmd, overtaken, faults>>, pc[p] = "record"
      PROVE  WorkspaceInv'
  <2> USE <1>1 DEF WorkspaceInv
  <2>1. pc'[p] = "driving" /\ \A q \in Proc : q # p => pc'[q] = pc[q]
    BY DEF Goto, TypeOK
  <2>2. \A q \in Proc : (Held(q)' <=> q = p) /\ (Held(q) <=> q = p)
    BY DEF Held
  <2>3. ~overtaken => \A q \in Proc : ~Active(q)
    BY <2>2 DEF CommandsAreTheHolders, Waiting
  <2>4. CommandsAreTheHolders'
    BY <2>3 DEF CommandsAreTheHolders, Active
  <2>5. HolderKnowsNoRecord'
    BY <2>1, <2>2 DEF HolderKnowsNoRecord, Unrecorded
  <2>6. BaseIsPinned'
    BY <2>1 DEF BaseIsPinned, Pinned
  <2>7. ReadyIsThere'
    BY <2>1, <2>2 DEF ReadyIsThere
  <2>8. ~overtaken => IsThere
    BY DEF ReadyIsThere
  <2>9. RecordedWorkspaceStands'
    BY <2>8 DEF RecordedWorkspaceStands, IsThere, world
  <2>. QED BY <2>4, <2>5, <2>6, <2>7, <2>9
<1>2. pc[p] = "record" /\ pc[p] \notin Waiting \cup {"dead"}
  BY DEF Record, Waiting
<1>. QED BY <1>1, <1>2, StopsKeeps, RefusalKeeps DEF Record

LEMMA TurnKeeps ==
  ASSUME WorkspaceInv, NEW p \in Proc, Turn(p) PROVE WorkspaceInv'
<1>0. TypeOK'
  BY TurnTypes DEF WorkspaceInv
<1> USE <1>0, StopsKeeps, RefusalKeeps, GoingOnKeeps
<1>1. CASE Entry(p)
  <2>1. ASSUME NEW turn \in {"assess", "driving", "ask"}, Continues(p, turn), pc[p] = "entry",
               turn = "ask" => record = None
        PROVE  WorkspaceInv'
    BY <2>1, MovingKeeps DEF Continues, Unrecorded, Waiting, Pinned
  <2>. QED BY <1>1, <2>1 DEF Entry, Waiting
<1>2. CASE Ask(p) BY <1>2 DEF Ask, Waiting, Unrecorded, Pinned
<1>3. CASE SourcePreflight(p)
  <2>1. Held(p) => record = None
    BY <1>3 DEF SourcePreflight, WorkspaceInv, HolderKnowsNoRecord, Unrecorded
  <2>. QED BY <1>3, <2>1, PinningKeeps DEF SourcePreflight, Waiting
<1>4. CASE AskBranch(p) BY <1>4 DEF AskBranch, Waiting, Unrecorded, Pinned
<1>5. CASE AskPath(p) BY <1>5 DEF AskPath, Waiting, Unrecorded, Pinned
<1>6. CASE Create(p)
  <2>1. CASE Held(p) /\ Sends(p, "add", "adding")
    BY <1>6, <2>1, SendingKeeps DEF Create, Sends, Waiting, Unrecorded, Pinned
  <2>. QED BY <1>6, <2>1 DEF Create, Waiting
<1>7. CASE AddAnswered(p) BY <1>7, AnsweringKeeps DEF AddAnswered, Waiting
<1>8. CASE Verify(p)
  <2>1. pc[p] = "verify"
    BY <1>8 DEF Verify
  <2>2. Held(p) => record = None
    BY <2>1 DEF WorkspaceInv, HolderKnowsNoRecord, Unrecorded
  <2>3. CASE Matches(p) /\ Continues(p, "record")
    BY <2>1, <2>2, <2>3, MatchedIsThere, MovingKeeps DEF Continues, Waiting, Pinned
  <2>4. CASE Continues(p, "undo")
    BY <2>1, <2>4 DEF Waiting, Unrecorded, Pinned
  <2>5. CASE Goto(p, "undo") /\ UNCHANGED <<world, record, holder, call, cmd, overtaken>>
    BY <2>1, <2>2, <2>5, MovingKeeps DEF Waiting, Pinned
  <2>. QED BY <1>8, <2>3, <2>4, <2>5 DEF Verify
<1>9. CASE Undo(p)
  <2>1. CASE Held(p) /\ Sends(p, "remove", "unmaking")
    BY <1>9, <2>1, SendingKeeps DEF Undo, Sends, Waiting, Unrecorded, Pinned
  <2>. QED BY <1>9, <2>1 DEF Undo, Waiting
<1>10. ASSUME NEW turn \in {"unnaming", "deleting"}, AfterRemoval(p, turn),
              pc[p] \in {"unmaking", "removing"}
       PROVE  WorkspaceInv'
  <2>1. CASE Held(p) /\ cmd' = [cmd EXCEPT ![p] = Sent("delete", call[p].want)]
                     /\ Goto(p, turn) /\ UNCHANGED <<world, record, holder, call, overtaken>>
    BY <1>10, <2>1, SendingKeeps DEF Waiting, Unrecorded, Pinned
  <2>2. CASE cmd' = [cmd EXCEPT ![p] = NoCmd] /\ Ends(p) /\ UNCHANGED <<world, record, overtaken>>
    BY <1>10, <2>2, AnsweringKeeps DEF Waiting
  <2>. QED BY <1>10, <2>1, <2>2 DEF AfterRemoval
<1>11. ASSUME AfterDeletion(p), pc[p] \in {"unnaming", "deleting"} PROVE WorkspaceInv'
  BY <1>11, AnsweringKeeps DEF AfterDeletion, Waiting
<1>12. CASE Assess(p)
  <2>1. CASE record = None /\ Pins(p, "match")
    BY <1>12, <2>1, PinningKeeps DEF Assess, Waiting
  <2>. QED BY <1>12, <2>1 DEF Assess, Waiting
<1>13. CASE Match(p)
  <2>1. pc[p] = "match"
    BY <1>13 DEF Match
  <2>2. Held(p) => record = None
    BY <2>1 DEF WorkspaceInv, HolderKnowsNoRecord, Unrecorded
  <2>3. CASE Matches(p) /\ Continues(p, "record")
    BY <2>1, <2>2, <2>3, MatchedIsThere, MovingKeeps DEF Continues, Waiting, Pinned
  <2>4. CASE Continues(p, "ignored")
    BY <2>1, <2>4 DEF Waiting, Unrecorded, Pinned
  <2>. QED BY <1>13, <2>1, <2>3, <2>4 DEF Match, Waiting
<1>14. CASE Record(p) BY <1>14, RecordKeeps
<1>15. CASE AskIgnored(p) BY <1>15 DEF AskIgnored, Waiting, Unrecorded, Pinned
<1>16. CASE AskOwned(p) \/ AskClean(p) \/ AskMerged(p)
  BY <1>16 DEF AskOwned, AskClean, AskMerged, Waiting, Unrecorded, Pinned
<1>17. CASE Remove(p)
  <2>1. CASE Held(p) /\ Sends(p, "remove", "removing")
    BY <1>17, <2>1, SendingKeeps DEF Remove, Sends, Waiting, Unrecorded, Pinned
  <2>. QED BY <1>17, <2>1 DEF Remove, Waiting
<1>18. CASE Return(p) BY <1>18 DEF Return, Waiting
<1>. QED
  BY <1>1, <1>2, <1>3, <1>4, <1>5, <1>6, <1>7, <1>8, <1>9, <1>10, <1>11, <1>12, <1>13,
     <1>14, <1>15, <1>16, <1>17, <1>18 DEF Turn, Unmade, Unnamed, Removed, Deleted

\* Git changes a workspace only for the holder, who waits and knows of no record.
LEMMA WorldKeeps ==
  ASSUME WorkspaceInv, TypeOK', NEW p \in Proc, Active(p),
         NEW at \in {"midway", "done", "failed"}, Reaches(p, at),
         UNCHANGED <<main, record, holder, pc, call, overtaken>>
  PROVE  WorkspaceInv'
<1> USE DEF WorkspaceInv
<1>1. \A q \in Proc : Active(q)' => Active(q)
  BY DEF Active, Reaches, TypeOK
<1>2. CommandsAreTheHolders'
  BY <1>1 DEF CommandsAreTheHolders, Held
<1>3. HolderKnowsNoRecord'
  BY DEF HolderKnowsNoRecord, Held
<1>4. BaseIsPinned'
  BY DEF BaseIsPinned
<1>5. ReadyIsThere'
  BY DEF ReadyIsThere, CommandsAreTheHolders, Held, Waiting
<1>6. RecordedWorkspaceStands'
  BY DEF RecordedWorkspaceStands, CommandsAreTheHolders
<1>. QED BY <1>2, <1>3, <1>4, <1>5, <1>6

LEMMA GitKeeps ==
  ASSUME WorkspaceInv, NEW p \in Proc, Git(p) PROVE WorkspaceInv'
<1>1. TypeOK'
  BY GitTypes DEF WorkspaceInv
<1>. QED
  BY <1>1, WorldKeeps DEF Git, AddStarts, AddEnds, RemoveLands, DeleteLands, Active

\* Whoever works in a workspace leaves one there.
LEMMA WorkspaceStaysKeeps ==
  ASSUME WorkspaceInv, TypeOK', IsThere => IsThere',
         UNCHANGED <<record, holder, pc, call, overtaken>>,
         \A q \in Proc : Active(q)' => Active(q)
  PROVE  WorkspaceInv'
<1> USE DEF WorkspaceInv
<1>1. CommandsAreTheHolders' BY DEF CommandsAreTheHolders, Held
<1>2. HolderKnowsNoRecord' BY DEF HolderKnowsNoRecord, Held
<1>3. BaseIsPinned' BY DEF BaseIsPinned
<1>4. ReadyIsThere' BY DEF ReadyIsThere, Held
<1>5. RecordedWorkspaceStands' BY DEF RecordedWorkspaceStands, IsThere
<1>. QED BY <1>1, <1>2, <1>3, <1>4, <1>5

LEMMA KilledKeeps ==
  ASSUME WorkspaceInv, NEW p \in Proc, Killed(p) PROVE WorkspaceInv'
<1>1. TypeOK'
  BY KilledTypes DEF WorkspaceInv
<1>2. CASE Active(p)
  BY <1>1, <1>2, WorldKeeps DEF Killed
<1>3. CASE ~Active(p)
  <2>1. cmd[p].at = "done"
    BY <1>3 DEF Killed, Active
  <2>2. tree' = tree /\ branch' = branch
    BY <2>1 DEF Killed, Answered
  <2>3. \A q \in Proc : Active(q)' => Active(q)
    BY DEF Killed, Reaches, Active, WorkspaceInv, TypeOK
  <2>. QED BY <1>1, <2>2, <2>3, WorkspaceStaysKeeps DEF Killed, IsThere
<1>. QED BY <1>2, <1>3

LEMMA EditingKeeps ==
  ASSUME WorkspaceInv, TypeOK', tree \in Linked, EditsOrCommits,
         UNCHANGED <<main, record, holder, pc, call, cmd, overtaken>>
  PROVE  WorkspaceInv'
<1>1. IsThere => IsThere'
  BY NoneIsNobody DEF EditsOrCommits, IsThere, Linked, Worked
<1>2. \A q \in Proc : Active(q)' => Active(q)
  BY DEF Active
<1>. QED BY <1>1, <1>2, WorkspaceStaysKeeps

LEMMA LeaseMovesKeeps ==
  ASSUME WorkspaceInv, TypeOK', LeaseMoves PROVE WorkspaceInv'
<1> USE DEF WorkspaceInv, LeaseMoves
<1>1. \A q \in Proc : ~Held(q)'
  BY NoneIsNobody DEF Held
<1>2. \A q \in Proc : Active(q)' <=> Active(q)
  BY DEF Active
<1>3. CommandsAreTheHolders'
  BY <1>1, <1>2 DEF CommandsAreTheHolders, Held
<1>4. HolderKnowsNoRecord' BY <1>1 DEF HolderKnowsNoRecord
<1>5. BaseIsPinned' BY DEF BaseIsPinned
<1>6. ReadyIsThere' BY <1>1 DEF ReadyIsThere
<1>7. RecordedWorkspaceStands' BY DEF RecordedWorkspaceStands, world
<1>. QED BY <1>3, <1>4, <1>5, <1>6, <1>7

LEMMA PersonClearsKeeps ==
  ASSUME WorkspaceInv, TypeOK', PersonClears PROVE WorkspaceInv'
<1> USE DEF WorkspaceInv, PersonClears
<1>1. \A q \in Proc : ~Active(q)' /\ ~Held(q)'
  BY NoneIsNobody DEF Active, Held
<1>2. CommandsAreTheHolders' BY <1>1 DEF CommandsAreTheHolders
<1>3. HolderKnowsNoRecord' BY <1>1 DEF HolderKnowsNoRecord
<1>4. BaseIsPinned' BY DEF BaseIsPinned
<1>5. ReadyIsThere' BY <1>1 DEF ReadyIsThere
<1>6. RecordedWorkspaceStands' BY DEF RecordedWorkspaceStands
<1>. QED BY <1>2, <1>3, <1>4, <1>5, <1>6

LEMMA BeginKeeps ==
  ASSUME WorkspaceInv, TypeOK', NEW p \in Proc, NEW job, NEW kind, Begin(p, job, kind)
  PROVE  WorkspaceInv'
<1> USE DEF WorkspaceInv, Begin
<1>1. \A q \in Proc : Active(q)' <=> Active(q)
  BY DEF Active
<1>2. \A q \in Proc : ~Held(q) /\ (Held(q)' => q = p)
  BY NoneIsNobody DEF Held
<1>3. /\ pc'[p] = "entry"
      /\ \A q \in Proc : q # p => pc'[q] = pc[q] /\ call'[q] = call[q]
  BY DEF Goto, TypeOK
<1>4. CommandsAreTheHolders'
  BY <1>1, <1>2 DEF CommandsAreTheHolders
<1>5. HolderKnowsNoRecord' BY <1>2, <1>3 DEF HolderKnowsNoRecord, Unrecorded
<1>6. BaseIsPinned' BY <1>3 DEF BaseIsPinned, Pinned
<1>7. ReadyIsThere' BY <1>2, <1>3 DEF ReadyIsThere
<1>8. RecordedWorkspaceStands' BY DEF RecordedWorkspaceStands, world
<1>. QED BY <1>4, <1>5, <1>6, <1>7, <1>8

\* A process dies where it stands, or another takes the place of a dead one.
LEMMA TurnedAwayKeeps ==
  ASSUME WorkspaceInv, TypeOK', NEW p \in Proc, NEW turn \in {"dead", "idle"}, Goto(p, turn),
         UNCHANGED <<world, record, holder, overtaken>>,
         \A q \in Proc : Active(q)' => Active(q),
         Active(p)' => turn = "dead",
         \A q \in Proc : q # p => call'[q] = call[q]
  PROVE  WorkspaceInv'
<1> USE DEF WorkspaceInv
<1>1. pc'[p] = turn /\ \A q \in Proc : q # p => pc'[q] = pc[q]
  BY DEF Goto, TypeOK
<1>2. CommandsAreTheHolders' BY <1>1 DEF CommandsAreTheHolders, Held
<1>3. HolderKnowsNoRecord' BY <1>1 DEF HolderKnowsNoRecord, Held, Unrecorded
<1>4. BaseIsPinned' BY <1>1 DEF BaseIsPinned, Pinned
<1>5. ReadyIsThere' BY <1>1 DEF ReadyIsThere, Held, IsThere, world
<1>6. RecordedWorkspaceStands' BY DEF RecordedWorkspaceStands, world
<1>. QED BY <1>2, <1>3, <1>4, <1>5, <1>6

LEMMA CrashKeeps ==
  ASSUME WorkspaceInv, TypeOK', NEW p \in Proc, Crash(p) PROVE WorkspaceInv'
  BY TurnedAwayKeeps DEF Crash, Active, WorkspaceInv, TypeOK

LEMMA ForgottenKeeps ==
  ASSUME WorkspaceInv, TypeOK', NEW p \in Proc, Forgotten(p) PROVE WorkspaceInv'
<1>1. ~Active(p)' /\ \A q \in Proc : Active(q)' => Active(q)
  BY DEF Forgotten, Active, NoCmd, WorkspaceInv, TypeOK
<1>. QED BY <1>1, TurnedAwayKeeps DEF Forgotten

LEMMA InitWorkspace == Init => WorkspaceInv
<1> SUFFICES ASSUME Init PROVE WorkspaceInv
  OBVIOUS
<1>1. TypeOK
  BY InitTypes
<1>2. \A p \in Proc : ~Active(p) /\ ~Held(p) /\ pc[p] = "idle"
  BY NoneIsNobody DEF Init, Active, Held, NoCmd
<1>. QED
  BY <1>1, <1>2 DEF Init, WorkspaceInv, CommandsAreTheHolders, HolderKnowsNoRecord,
                   BaseIsPinned, Pinned, ReadyIsThere, RecordedWorkspaceStands

LEMMA NextWorkspace == WorkspaceInv /\ [Next]_vars => WorkspaceInv'
<1> SUFFICES ASSUME WorkspaceInv, [Next]_vars PROVE WorkspaceInv'
  OBVIOUS
<1>1. TypeOK'
  BY NextTypes DEF WorkspaceInv
<1>2. ASSUME NEW p \in Proc, Work(p) PROVE WorkspaceInv'
  BY <1>1, <1>2, EditingKeeps DEF Work
<1>3. CASE PersonEdits
  BY <1>1, <1>3, EditingKeeps DEF PersonEdits
<1>4. CASE Recover \/ LoseLease
  BY <1>1, <1>4, LeaseMovesKeeps DEF Recover, LoseLease
<1>5. CASE MainAdvances \/ UNCHANGED vars
  BY <1>1, <1>5, WorkspaceStaysKeeps DEF MainAdvances, vars, world, IsThere, Active
<1>. QED
  BY <1>1, <1>2, <1>3, <1>4, <1>5, BeginKeeps, TurnKeeps, GitKeeps, KilledKeeps, CrashKeeps,
     ForgottenKeeps, PersonClearsKeeps DEF Next

(***************************************************************************)
(* RecordedWorkspaceStands is invariant: the gates nearest the effects are  *)
(* enough to keep the workspace of a recorded task, unless the lease moves  *)
(* while a command of its holder is already running (rollBack,              *)
(* removeTaskWorkspace, startAgainstPlan).                                  *)
(***************************************************************************)
THEOREM WorkspacesStand == Spec => []RecordedWorkspaceStands
<1>1. WorkspaceInv => RecordedWorkspaceStands
  BY DEF WorkspaceInv
<1>. QED BY <1>1, InitWorkspace, NextWorkspace, PTL DEF Spec

-----------------------------------------------------------------------------
(* Work is never lost                                                      *)

KeepsWork ==
  \/ PersonClears
  \/ /\ branch = Worked => branch' = Worked
     /\ tree = "dirty" => (tree' = "dirty" \/ branch' = Worked)

LEMMA WorkIsNoBase == Worked \notin Base /\ Worked # None /\ ~Merged(Worked)
  BY NoneIsNobody DEF Worked, Base, Chained, Merged

LEMMA GitKeepsWork ==
  ASSUME NEW p \in Proc, Git(p) PROVE KeepsWork
<1>1. CASE AddStarts(p) BY <1>1, WorkIsNoBase DEF AddStarts, KeepsWork
<1>2. CASE AddEnds(p) BY <1>2 DEF AddEnds, KeepsWork
<1>3. CASE RemoveLands(p) BY <1>3 DEF RemoveLands, Removable, Clean, KeepsWork
<1>4. CASE DeleteLands(p) BY <1>4, WorkIsNoBase DEF DeleteLands, Deletable, KeepsWork
<1>. QED BY <1>1, <1>2, <1>3, <1>4 DEF Git

LEMMA KilledKeepsWork ==
  ASSUME NEW p \in Proc, Killed(p) PROVE KeepsWork
<1>1. tree = "dirty" => tree' = "dirty"
  <2>1. CASE cmd[p].at = "midway"
    BY <2>1 DEF Killed, Answered
  <2>2. CASE cmd[p].at # "midway" /\ tree = "dirty"
    <3>1. Interrupted(p) = {tree}
      BY <2>2 DEF Interrupted, Removable, Clean
    <3>. QED BY <2>2, <3>1 DEF Killed
  <2>. QED BY <2>1, <2>2
<1>. QED BY <1>1 DEF Killed, KeepsWork

LEMMA TurnKeepsWork ==
  ASSUME NEW p \in Proc, Turn(p) PROVE KeepsWork
<1>1. UNCHANGED world
  BY DEF Turn, Entry, Ask, SourcePreflight, AskBranch, AskPath, Create, AddAnswered, Verify,
         Undo, Unmade, Unnamed, Assess, Match, Record, AskIgnored, AskOwned, AskClean,
         AskMerged, Remove, Removed, Deleted, Return, Stops, Refusal, Continues, Pins, Sends, AfterRemoval, AfterDeletion
<1>. QED BY <1>1 DEF KeepsWork, world

LEMMA NextKeepsWork == [Next]_vars => KeepsWork \/ UNCHANGED vars
<1> SUFFICES ASSUME Next PROVE KeepsWork
  OBVIOUS
<1>1. ASSUME EditsOrCommits PROVE KeepsWork
  BY <1>1 DEF EditsOrCommits, KeepsWork
<1>2. ASSUME UNCHANGED <<branch, tree>> PROVE KeepsWork
  BY <1>2 DEF KeepsWork
<1>3. CASE \E p \in Proc : \E job \in {"start", "release"}, kind \in {"tip", "chained"} :
             Begin(p, job, kind)
  BY <1>2, <1>3 DEF Begin, world
<1>4. CASE \E p \in Proc : Work(p) \/ Crash(p) \/ Forgotten(p)
  BY <1>1, <1>2, <1>4 DEF Work, Crash, Forgotten, world
<1>5. CASE Recover \/ LoseLease \/ MainAdvances \/ PersonEdits
  BY <1>1, <1>2, <1>5 DEF Recover, LoseLease, LeaseMoves, MainAdvances, PersonEdits, world
<1>. QED
  BY <1>3, <1>4, <1>5, TurnKeepsWork, GitKeepsWork, KilledKeepsWork DEF Next, KeepsWork

(***************************************************************************)
(* NoWorkIsLost holds of every step, whatever was overtaken: no command is  *)
(* ever forced, so what Git refuses to discard stays (rollBack,             *)
(* removeTaskWorkspace), whoever sent the command and however late.         *)
(***************************************************************************)
THEOREM WorkIsKept == Spec => NoWorkIsLost
  BY NextKeepsWork, PTL DEF Spec, NoWorkIsLost, KeepsWork

=============================================================================
