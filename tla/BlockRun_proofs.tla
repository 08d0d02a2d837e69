--------------------------- MODULE BlockRun_proofs ---------------------------
(***************************************************************************)
(* Proofs about BlockRun, for every set of members, every roadmap and every   *)
(* bound.                                                                   *)
(*                                                                         *)
(* The ledger is right because a disposition is written only when every entry  *)
(* of the successor is proved by a record, and because, under the lease, only   *)
(* the member that is being driven changes, whose entry claims no more than    *)
(* that it is active (BlockInv).  A dependent member starts on the right        *)
(* commit because the results of its dependencies all have one origin: the     *)
(* last of them contains the others, and its own record was built on them       *)
(* (ChainInv).                                                              *)
(***************************************************************************)
EXTENDS BlockRun, FiniteSetTheorems, TLAPS

\* Where the run is, and what the ledger then says of the member it is about.
Position ==
  /\ pc \in {"start", "save", "activate", "drive", "record", "after"} => now \in Tasks
  /\ pc \in {"start", "save"} => Planned(now) /\ (Frozen(now) # {} => Maxima(now) # {})
  /\ pc = "save" => worktree[now] \in Commit
  /\ pc \in {"drive", "record"} => ledger.active = now
  /\ pc \in {"check", "force", "start", "save", "activate", "after"} => ledger.active = None
  /\ pc = "record" => told \in {"SETTLED", "BLOCKED", "RESOLVED"}

\* An entry that claims nothing, and one that claims the task is done.
Entries ==
  /\ \A t \in Tasks : Planned(t) => ledger.task[t] = NoClaim
  /\ \A t \in Tasks : Settled(t) =>
       /\ record[t].state \in {"READY", "UNUSABLE"}
       /\ ledger.task[t].base = record[t].base
       /\ ledger.task[t].result = record[t].head

\* A reason that claims progress is true of the records as it is reported.
ReasonTrue ==
  outcome' # outcome =>
    /\ outcome' = "COMPLETE" => \A t \in Tasks :
         /\ record[t].state \in {"READY", "RESOLVED"}
         /\ record[t].state = "READY" => ledger.task[t].result = record[t].head
    /\ outcome' = "TASK_BLOCKED" => \E t \in Tasks : record[t].state = "BLOCKED"

\* A driver's saves are bounded; the operator's resolution is one more.
Saves == \A t \in Tasks : record[t].state \in InFlight => record[t].rev <= MaxSaves

BlockInv ==
  TypeOK /\ Saves /\ Position /\ Entries /\ LedgerHoldsUnderLease

-----------------------------------------------------------------------------
(* Types                                                                   *)

States == InFlight \cup {"NONE", "READY", "RESOLVED", "UNUSABLE"}
Records == [state : States, rev : 0..MaxSaves + 1, base : Commit, head : Commit]
Ledgers == [task : [Tasks -> Entry], active : Tasks \cup {None},
            stop : StopReasons \cup {"NONE"}]
Places == {"off", "check", "force", "start", "save", "activate", "drive", "record", "after"}

WorldTyped ==
  /\ record \in [Tasks -> Records]
  /\ worktree \in [Tasks -> Commit \cup {None}]
  /\ main \in 0..MaxMain

LedgerTyped ==
  /\ ledger \in Ledgers
  /\ \A t \in Tasks : ledger.active = t <=> ledger.task[t].disp = "ACTIVE"

RunTyped ==
  /\ reading \in Readings /\ runBase \in 0..MaxMain /\ runs \in 0..MaxRuns
  /\ held \in BOOLEAN /\ stepped \in BOOLEAN
  /\ pc \in Places /\ now \in Tasks \cup {None}
  /\ told \in Dispositions /\ outcome \in Ends

LEMMA TypesSplit == TypeOK <=> WorldTyped /\ LedgerTyped /\ RunTyped
  BY DEF TypeOK, WorldTyped, LedgerTyped, RunTyped, Records, States, Ledgers, Places

LEMMA TypesSplitNext == TypeOK' <=> WorldTyped' /\ LedgerTyped' /\ RunTyped'
  BY DEF TypeOK, WorldTyped, LedgerTyped, RunTyped, Records, States, Ledgers, Places

LEMMA NoneIsApart == None \notin Tasks /\ None \notin Commit
  BY BlockAssumption

LEMMA Bounds == MaxMain \in Nat /\ MaxSaves \in Nat /\ MaxSaves >= 1 /\ MaxRuns \in Nat
<1>1. MaxSaves \in Nat \ {0}
  BY BlockAssumption
<1> QED BY <1>1, BlockAssumption

LEMMA RootTyped == Root \in Commit
  BY Bounds DEF Root, Commit

LEMMA NothingClaimed == NoClaim \in Entry
  BY Bounds DEF NoClaim, Entry, Dispositions

-----------------------------------------------------------------------------
(* The first of some members, in the order the operator named them          *)

LEMMA LeastIndex ==
  ASSUME NEW T, T \subseteq Nat, T # {}
  PROVE  \E x \in T : \A y \in T : ~(y < x)
<1> DEFINE R == {ss \in Nat \X Nat : ss[1] < ss[2]}
<1>1. IsWellFoundedOn(R, Nat)
  BY NatLessThanWellFounded DEF OpToRel
<1>2. \E x \in T : \A y \in T : ~(<<y, x>> \in R)
  <2> HIDE DEF R
  <2> QED BY <1>1, WFMin
<1> QED BY <1>2

LEMMA EveryMemberIsNamed ==
  ASSUME NEW t \in Tasks
  PROVE  \E i \in 1..Len(Order) : Order[i] = t
<1> SUFFICES ASSUME \A i \in 1..Len(Order) : Order[i] # t PROVE FALSE
  OBVIOUS
<1> DEFINE Named == {i \in 1..Len(Order) : Order[i] = t}
<1>1. Named = {}
  OBVIOUS
<1>2. Cardinality(Named) = 1
  BY BlockAssumption
<1>3. Cardinality({}) = 0
  BY FS_EmptySet
<1>4. Cardinality(Named) = Cardinality({})
  BY <1>1
<1> HIDE DEF Named
<1> QED BY <1>2, <1>3, <1>4

LEMMA FirstIsOne ==
  ASSUME NEW S, S \subseteq Tasks, S # {}
  PROVE  First(S) \in S
<1> DEFINE T == {i \in 1..Len(Order) : Order[i] \in S}
           Is(i) == Order[i] \in S /\ \A j \in 1..(i - 1) : Order[j] \notin S
<1>0. Len(Order) \in Nat
  <2>1. Order \in Seq(Tasks)
    BY BlockAssumption
  <2> QED BY <2>1
<1>1. T \subseteq Nat /\ T # {}
  <2>1. PICK t \in S : TRUE
    OBVIOUS
  <2>2. PICK i \in 1..Len(Order) : Order[i] = t
    BY <2>1, EveryMemberIsNamed
  <2> QED BY <1>0, <2>1, <2>2
<1>2. PICK i \in T : \A j \in T : ~(j < i)
  <2> HIDE DEF T
  <2> QED BY <1>1, LeastIndex
<1>3. i \in 1..Len(Order) /\ Is(i)
  <2>1. ASSUME NEW j \in 1..(i - 1) PROVE Order[j] \notin S
    <3>1. j \in 1..Len(Order) /\ j < i
      BY <1>0, <1>2
    <3> QED BY <1>2, <3>1
  <2> QED BY <1>2, <2>1
<1>4. First(S) = Order[CHOOSE k \in 1..Len(Order) : Is(k)]
  BY DEF First
<1>5. (CHOOSE k \in 1..Len(Order) : Is(k)) \in 1..Len(Order) /\ Is(CHOOSE k \in 1..Len(Order) : Is(k))
  <2> HIDE DEF Is
  <2> QED BY <1>3
<1> QED BY <1>4, <1>5

-----------------------------------------------------------------------------
(* Entries and what proves them                                            *)

LEMMA ClaimTyped ==
  ASSUME WorldTyped, NEW t \in Tasks, NEW disp \in Dispositions
  PROVE  Claim(t, disp) \in Entry /\ Claim(t, disp).disp = disp
<1>1. record[t] \in Records
  BY DEF WorldTyped
<1>2. record[t].rev \in 0..MaxSaves + 1 /\ record[t].base \in Commit /\ record[t].head \in Commit
  BY <1>1 DEF Records
<1>3. 0 \in 0..MaxSaves + 1
  BY Bounds
<1> QED BY <1>2, <1>3 DEF Claim, Entry

LEMMA MovedTyped ==
  ASSUME WorldTyped, LedgerTyped, NEW t \in Tasks, NEW disp \in Dispositions,
         disp = "ACTIVE" => ledger.active = None,
         ledger' = Moved(t, disp)
  PROVE  /\ LedgerTyped'
         /\ ledger'.task = [ledger.task EXCEPT ![t] = Claim(t, disp)]
         /\ ledger'.active = IF disp = "ACTIVE" THEN t
                             ELSE IF ledger.active = t THEN None ELSE ledger.active
<1> DEFINE active == IF disp = "ACTIVE" THEN t
                     ELSE IF ledger.active = t THEN None ELSE ledger.active
<1>1. ledger \in Ledgers
  BY DEF LedgerTyped
<1>2. /\ ledger.task \in [Tasks -> Entry] /\ ledger.active \in Tasks \cup {None}
      /\ ledger.stop \in StopReasons \cup {"NONE"}
      /\ ledger = [task |-> ledger.task, active |-> ledger.active, stop |-> ledger.stop]
  BY <1>1 DEF Ledgers
<1>3. /\ ledger'.task = [ledger.task EXCEPT ![t] = Claim(t, disp)]
      /\ ledger'.active = active
      /\ ledger'.stop = ledger.stop
      /\ ledger' = [task |-> ledger'.task, active |-> ledger'.active, stop |-> ledger'.stop]
  BY <1>1 DEF Moved, Ledgers
<1>4. Claim(t, disp) \in Entry /\ Claim(t, disp).disp = disp
  BY ClaimTyped
<1>5. ledger'.task \in [Tasks -> Entry]
  BY <1>2, <1>3, <1>4
<1>6. active \in Tasks \cup {None}
  BY <1>2
<1>7. ledger' \in Ledgers
  BY <1>2, <1>3, <1>5, <1>6 DEF Ledgers
<1>8. ASSUME NEW u \in Tasks
      PROVE  ledger'.active = u <=> ledger'.task[u].disp = "ACTIVE"
  <2>1. ledger.active = u <=> ledger.task[u].disp = "ACTIVE"
    BY DEF LedgerTyped
  <2>2. u # None
    BY NoneIsApart
  <2>3. ledger'.task[u].disp = IF u = t THEN disp ELSE ledger.task[u].disp
    BY <1>2, <1>3, <1>4
  <2> QED BY <1>3, <2>1, <2>2, <2>3, NoneIsApart
<1> QED BY <1>3, <1>7, <1>8 DEF LedgerTyped

\* A disposition that was recorded: every entry of the new ledger is proved.
LEMMA RecordedHolds ==
  ASSUME WorldTyped, LedgerTyped, Entries, NEW t \in Tasks, NEW disp \in Dispositions \ {"PLANNED"},
         disp = "ACTIVE" => ledger.active = None,
         Grade(t, disp) = "RECORDED", ledger' = Moved(t, disp), record' = record
  PROVE  Entries' /\ Unproven(ledger.task)' = {} /\ Supports(t, disp)
<1>1. Supports(t, disp) /\ Unproven(Moved(t, disp).task) = {}
  BY DEF Grade
<1>2. Unproven(ledger.task)' = {}
  BY <1>1 DEF Unproven, Proved, Supports, Claim
<1>3. ledger'.task = [ledger.task EXCEPT ![t] = Claim(t, disp)]
  BY MovedTyped
<1>4. ledger.task \in [Tasks -> Entry]
  BY DEF LedgerTyped, Ledgers
<1>5. Claim(t, disp).disp = disp
  BY ClaimTyped
<1>6. ASSUME NEW u \in Tasks, Planned(u)' PROVE ledger'.task[u] = NoClaim
  <2>1. u # t
    BY <1>3, <1>4, <1>5, <1>6 DEF Planned
  <2>2. ledger'.task[u] = ledger.task[u]
    BY <1>3, <1>4, <2>1
  <2> QED BY <1>6, <2>2 DEF Planned, Entries
<1>7. ASSUME NEW u \in Tasks, Settled(u)'
      PROVE  /\ record'[u].state \in {"READY", "UNUSABLE"}
             /\ ledger'.task[u].base = record'[u].base
             /\ ledger'.task[u].result = record'[u].head
  <2>1. CASE u = t
    <3>1. disp = "SETTLED"
      BY <1>3, <1>4, <1>5, <1>7, <2>1 DEF Settled
    <3>2. record[t].state = "READY"
      BY <1>1, <3>1 DEF Supports
    <3>3. ledger'.task[t] = Claim(t, "SETTLED")
      BY <1>3, <1>4, <3>1
    <3> QED BY <2>1, <3>2, <3>3 DEF Claim
  <2>2. CASE u # t
    <3>1. ledger'.task[u] = ledger.task[u]
      BY <1>3, <1>4, <2>2
    <3> QED BY <1>7, <3>1 DEF Settled, Entries
  <2> QED BY <2>1, <2>2
<1> QED BY <1>1, <1>2, <1>6, <1>7 DEF Entries

\* The ledger's entries are what they were, and so are the records.
LEMMA ClaimsStand ==
  ASSUME Entries, ledger'.task = ledger.task, record' = record
  PROVE  Entries' /\ Unproven(ledger.task)' = Unproven(ledger.task)
<1>1. Entries'
  BY DEF Entries, Planned, Settled
<1>2. Unproven(ledger.task)' = Unproven(ledger.task)
  BY DEF Unproven, Proved, Supports, Claim
<1> QED BY <1>1, <1>2

-----------------------------------------------------------------------------
(* How a run goes on and how it ends                                        *)

\* The run goes on, and neither its ledger nor a record has changed.
LEMMA WalkKeeps ==
  ASSUME BlockInv, pc # "off",
         record' = record, main' = main, ledger' = ledger, UNCHANGED once,
         held' = held, outcome' = outcome,
         worktree' \in [Tasks -> Commit \cup {None}],
         pc' \in Places, now' \in Tasks \cup {None}, told' \in Dispositions,
         stepped' \in BOOLEAN, Position'
  PROVE  BlockInv'
<1> USE DEF BlockInv
<1>1. TypeOK'
  BY TypesSplit, TypesSplitNext DEF WorldTyped, LedgerTyped, RunTyped, once
<1>2. Saves'
  BY DEF Saves
<1>3. Entries' /\ Unproven(ledger.task)' = Unproven(ledger.task)
  BY ClaimsStand
<1>4. LedgerHoldsUnderLease'
  BY <1>3 DEF LedgerHoldsUnderLease
<1> QED BY <1>1, <1>2, <1>3, <1>4

\* The run is over: only the reason may have been written to its ledger.
LEMMA EndKeeps ==
  ASSUME BlockInv, NEW how \in Ends, End(how), UNCHANGED world,
         ledger' \in Ledgers, ledger'.task = ledger.task, ledger'.active = ledger.active
  PROVE  BlockInv'
<1> USE DEF BlockInv
<1>1. TypeOK'
  <2>1. WorldTyped'
    BY TypesSplit DEF WorldTyped, world
  <2>2. LedgerTyped'
    BY TypesSplit DEF LedgerTyped
  <2>3. RunTyped'
    BY TypesSplit DEF RunTyped, End, once, Places, Dispositions
  <2> QED BY <2>1, <2>2, <2>3, TypesSplitNext
<1>2. Saves'
  BY DEF Saves, world
<1>3. Position'
  BY DEF Position, End
<1>4. Entries'
  BY ClaimsStand DEF world
<1>5. LedgerHoldsUnderLease'
  BY DEF LedgerHoldsUnderLease, End
<1> QED BY <1>1, <1>2, <1>3, <1>4, <1>5

LEMMA EndPlain ==
  ASSUME BlockInv, NEW how \in Ends, End(how), UNCHANGED <<world, ledger>>
  PROVE  BlockInv'
<1>1. ledger' \in Ledgers /\ ledger'.task = ledger.task /\ ledger'.active = ledger.active
  BY TypesSplit DEF BlockInv, LedgerTyped
<1>2. UNCHANGED world
  OBVIOUS
<1> QED BY <1>1, <1>2, EndKeeps

\* Whether the reason is written or refused, the run ends and no entry changes.
LEMMA StopKeeps ==
  ASSUME BlockInv, NEW reason \in StopReasons, Stop(reason)
  PROVE  BlockInv'
<1>1. LedgerTyped /\ ledger \in Ledgers
  BY TypesSplit DEF BlockInv, LedgerTyped
<1>2. UNCHANGED world
  BY DEF Stop
<1>3. CASE UNCHANGED ledger /\ End("DURABLE_WRITE_FAILED")
  <2>1. "DURABLE_WRITE_FAILED" \in Ends
    BY DEF Ends
  <2> QED BY <1>2, <1>3, <2>1, EndPlain
<1>4. CASE ledger' = [ledger EXCEPT !.stop = reason] /\ End(reason)
  <2>1. ledger' \in Ledgers /\ ledger'.task = ledger.task /\ ledger'.active = ledger.active
    BY <1>1, <1>4 DEF Ledgers
  <2>2. reason \in Ends
    BY DEF Ends
  <2> QED BY <1>2, <1>4, <2>1, <2>2, EndKeeps
<1> QED BY <1>3, <1>4 DEF Stop

\* A disposition is written to the ledger, and nothing else changes.
LEMMA WriteKeeps ==
  ASSUME BlockInv, NEW t \in Tasks, NEW disp \in Dispositions \ {"PLANNED"}, pc # "off",
         disp = "ACTIVE" => ledger.active = None,
         Grade(t, disp) = "RECORDED", ledger' = Moved(t, disp),
         UNCHANGED <<world, once, held, outcome, now, told, stepped>>, pc' \in Places,
         Position'
  PROVE  BlockInv'
<1> USE DEF BlockInv
<1>1. WorldTyped /\ LedgerTyped /\ RunTyped
  BY TypesSplit
<1>2. LedgerTyped'
  BY <1>1, MovedTyped
<1>3. Entries' /\ Unproven(ledger.task)' = {}
  BY <1>1, RecordedHolds DEF world
<1>4. TypeOK'
  <2>1. WorldTyped'
    BY <1>1 DEF WorldTyped, world
  <2>2. RunTyped'
    BY <1>1 DEF RunTyped, once
  <2> QED BY <1>2, <2>1, <2>2, TypesSplitNext
<1>5. Saves'
  BY DEF Saves, world
<1>6. LedgerHoldsUnderLease'
  BY <1>3 DEF LedgerHoldsUnderLease
<1> QED BY <1>3, <1>4, <1>5, <1>6

\* One record changes: it is damaged, or it is not of a finished task and, under
\* the lease, still proves what its entry claims.
LEMMA RecordKeeps ==
  ASSUME BlockInv, NEW t \in Tasks, NEW r \in Records, record' = [record EXCEPT ![t] = r],
         worktree' \in [Tasks -> Commit \cup {None}],
         UNCHANGED <<main, ledger, once, held, outcome, now, told>>,
         pc' \in Places, stepped' \in BOOLEAN, Position',
         r.state \in InFlight => r.rev <= MaxSaves,
         \/ r.state = "UNUSABLE" /\ r.base = record[t].base /\ r.head = record[t].head
         \/ /\ record[t].state \notin {"READY", "UNUSABLE"}
            /\ held => Proved(t, ledger.task[t])'
  PROVE  BlockInv'
<1> USE DEF BlockInv
<1>1. WorldTyped /\ LedgerTyped /\ RunTyped
  BY TypesSplit
<1>2. record'[t] = r /\ \A u \in Tasks : u # t => record'[u] = record[u]
  BY <1>1 DEF WorldTyped
<1>3. TypeOK'
  <2>1. WorldTyped'
    BY <1>1 DEF WorldTyped
  <2>2. LedgerTyped'
    BY <1>1 DEF LedgerTyped
  <2>3. RunTyped'
    BY <1>1 DEF RunTyped, once
  <2> QED BY <2>1, <2>2, <2>3, TypesSplitNext
<1>4. Saves'
  BY <1>2 DEF Saves
<1>5. Entries'
  <2>1. \A u \in Tasks : Planned(u)' => ledger'.task[u] = NoClaim
    BY DEF Entries, Planned
  <2>2. ASSUME NEW u \in Tasks, Settled(u)'
        PROVE  /\ record'[u].state \in {"READY", "UNUSABLE"}
               /\ ledger'.task[u].base = record'[u].base
               /\ ledger'.task[u].result = record'[u].head
    <3>1. Settled(u)
      BY <2>2 DEF Settled
    <3>2. /\ record[u].state \in {"READY", "UNUSABLE"}
          /\ ledger.task[u].base = record[u].base /\ ledger.task[u].result = record[u].head
      BY <3>1 DEF Entries
    <3> QED BY <1>2, <3>2
  <2> QED BY <2>1, <2>2 DEF Entries
<1>6. LedgerHoldsUnderLease'
  <2> SUFFICES ASSUME held, NEW u \in Tasks, ~Proved(u, ledger.task[u])'
               PROVE  record'[u].state = "UNUSABLE"
    BY DEF LedgerHoldsUnderLease, Unproven
  <2>1. CASE u = t
    BY <1>2, <2>1
  <2>2. CASE u # t
    <3>1. record'[u] = record[u]
      BY <1>2, <2>2
    <3>2. ~Proved(u, ledger.task[u])
      BY <3>1 DEF Proved, Supports, Claim
    <3> QED BY <3>1, <3>2 DEF LedgerHoldsUnderLease, Unproven
  <2> QED BY <2>1, <2>2
<1> QED BY <1>3, <1>4, <1>5, <1>6

\* What a save makes of a record that may still be saved.
LEMMA SavedRecord ==
  ASSUME WorldTyped, NEW t \in Tasks, NEW state \in {"WORK", "BLOCKED", "READY", "RESOLVED"},
         record[t].rev <= MaxSaves, Saved(t, state)
  PROVE  \E r \in Records :
           /\ record' = [record EXCEPT ![t] = r]
           /\ r.state = state /\ r.rev = record[t].rev + 1 /\ r.base = record[t].base
           /\ r.head = IF state = "READY" THEN With(record[t].base, t)
                       ELSE record[t].head
<1> DEFINE head == IF state = "READY" THEN With(record[t].base, t)
                   ELSE record[t].head
           r == [state |-> state, rev |-> record[t].rev + 1, base |-> record[t].base, head |-> head]
<1>1. record[t] \in Records
  BY DEF WorldTyped
<1>2. record[t].rev \in 0..MaxSaves + 1 /\ record[t].base \in Commit /\ record[t].head \in Commit
  BY <1>1 DEF Records
<1>3. record[t].rev + 1 \in 0..MaxSaves + 1
  BY <1>2, Bounds
<1>4. head \in Commit
  <2>1. With(record[t].base, t) \in Commit
    BY <1>2 DEF Commit, With
  <2> QED BY <1>2, <2>1
<1>5. r \in Records
  <2>1. state \in States
    BY DEF States, InFlight
  <2> HIDE DEF head
  <2> QED BY <1>2, <1>3, <1>4, <2>1 DEF Records
<1>6. record' = [record EXCEPT ![t] = r]
  <2>1. record \in [Tasks -> Records]
    BY DEF WorldTyped
  <2> HIDE DEF WorldTyped
  <2> QED BY <2>1, Zenon DEF Saved
<1> QED BY <1>5, <1>6

-----------------------------------------------------------------------------
(* The steps of a run                                                      *)

LEMMA InitKeeps == Init => BlockInv
<1> SUFFICES ASSUME Init PROVE BlockInv
  OBVIOUS
<1>1. WorldTyped
  <2>1. PICK old \in SUBSET Legacy :
          record = [t \in Tasks |-> [state |-> IF t \in old THEN "READY" ELSE "NONE",
                                     rev |-> IF t \in old THEN 1 ELSE 0,
                                     base |-> Root, head |-> Root]]
    BY DEF Init
  <2>2. record \in [Tasks -> Records]
    BY <2>1, Bounds, RootTyped DEF Records, States
  <2> QED BY <2>2, Bounds DEF Init, WorldTyped
<1>2. LedgerTyped
  <2>1. ledger \in Ledgers
    BY NothingClaimed DEF Init, Ledgers
  <2>2. \A t \in Tasks : ledger.active # t /\ ledger.task[t].disp # "ACTIVE"
    BY NoneIsApart DEF Init, NoClaim
  <2> QED BY <2>1, <2>2 DEF LedgerTyped
<1>3. RunTyped
  <2>1. runBase \in 0..MaxMain /\ runs \in 0..MaxRuns
    BY Bounds DEF Init
  <2>2. pc \in Places /\ told \in Dispositions /\ outcome \in Ends
    BY DEF Init, Places, Dispositions, Ends
  <2>3. reading \in Readings /\ now = None /\ held = FALSE /\ stepped = FALSE
    BY DEF Init
  <2> QED BY <2>1, <2>2, <2>3 DEF RunTyped
<1>4. Saves
  BY Bounds DEF Init, Saves, InFlight
<1>5. Position /\ LedgerHoldsUnderLease
  BY DEF Init, Position, LedgerHoldsUnderLease
<1>6. Entries
  BY DEF Init, Entries, Planned, Settled, NoClaim
<1> QED BY <1>1, <1>2, <1>3, <1>4, <1>5, <1>6, TypesSplit DEF BlockInv

LEMMA StartRunKeeps == ASSUME BlockInv, StartRun PROVE BlockInv'
<1> USE DEF StartRun
<1>1. WorldTyped /\ LedgerTyped /\ RunTyped
  BY TypesSplit DEF BlockInv
<1>2. WorldTyped'
  BY <1>1 DEF WorldTyped
<1>3. LedgerTyped'
  <2>1. ledger' \in Ledgers
    BY NothingClaimed DEF Ledgers
  <2>2. \A t \in Tasks : ledger'.active # t /\ ledger'.task[t].disp # "ACTIVE"
    BY NoneIsApart DEF NoClaim
  <2> QED BY <2>1, <2>2 DEF LedgerTyped
<1>4. RunTyped'
  BY <1>1, Bounds DEF WorldTyped, RunTyped, Places, Ends, Roadmaps
<1>5. Saves'
  BY DEF BlockInv, Saves
<1>6. Position'
  BY DEF Position
<1>7. Entries' /\ LedgerHoldsUnderLease'
  <2>1. \A t \in Tasks : ledger'.task[t] = NoClaim
    OBVIOUS
  <2> QED BY <2>1 DEF Entries, Planned, Settled, NoClaim, LedgerHoldsUnderLease, Unproven, Proved
<1> QED BY <1>2, <1>3, <1>4, <1>5, <1>6, <1>7, TypesSplitNext DEF BlockInv

LEMMA EndsAreTyped ==
  /\ {"LEASE_AUTHORITY_UNCERTAIN", "DURABLE_WRITE_FAILED", "RECONCILIATION_UNRESOLVED",
      "RUN_GATE_REFUSED", "CRASHED"} \subseteq Ends
  /\ {"STATE_UNUSABLE", "LEDGER_DIVERGED", "ACTIVE_TASK_UNRESOLVED"} \subseteq StopReasons
  BY DEF Ends, StopReasons

LEMMA EndReasonTyped == EndReason \in StopReasons
  BY DEF EndReason, StopReasons

\* The roadmap is read once, when the run starts.
LEMMA DependenciesStand ==
  ASSUME reading' = reading
  PROVE  Frozen(now)' = Frozen(now') /\ Maxima(now)' = Maxima(now')
<1>1. Frozen(now)' = Frozen(now')
  BY DEF Frozen
<1>2. Maxima(now)' = {c \in Frozen(now') : Frozen(now') \ {c} \subseteq Frozen(c)}
  BY <1>1 DEF Maxima, Frozen
<1> QED BY <1>1, <1>2 DEF Maxima

\* Choosing a member, or finding that there is none.
LEMMA ChoosingKeeps ==
  ASSUME BlockInv, LeaseUncertain \/ RecordsAgree \/ RecordsDiverge \/ Choose \/ NothingLeft
  PROVE  BlockInv'
<1>1. WorldTyped /\ LedgerTyped /\ RunTyped
  BY TypesSplit DEF BlockInv
<1>2. CASE LeaseUncertain
  BY <1>2, EndPlain, EndsAreTyped DEF LeaseUncertain, world
<1>3. CASE RecordsAgree
  <2>1. Position'
    BY <1>3 DEF BlockInv, RecordsAgree, Goto, Position
  <2> QED BY <1>1, <1>3, <2>1, WalkKeeps
          DEF RecordsAgree, Goto, WorldTyped, RunTyped, Places, once
<1>4. CASE RecordsDiverge
  BY <1>4, StopKeeps, EndsAreTyped DEF RecordsDiverge
<1>5. CASE Choose
  <2>1. /\ Choices \subseteq Tasks /\ Choices # {}
        /\ \A t \in Choices : Planned(t) /\ (Frozen(t) # {} => Maxima(t) # {})
    BY <1>5, FS_EmptySet DEF Choose, Choices
  <2>2. now' \in Choices
    BY <1>5, <2>1, FirstIsOne DEF Choose
  <2>3. Frozen(now)' # {} => Maxima(now)' # {}
    BY <1>5, <2>1, <2>2, DependenciesStand DEF Choose
  <2>4. /\ pc' = "start" /\ pc = "force" /\ ledger' = ledger /\ outcome' = outcome
        /\ now' \in Tasks /\ Planned(now')
    BY <1>5, <2>1, <2>2 DEF Choose, Goto
  <2>5. Position'
    BY <2>3, <2>4 DEF BlockInv, Position, Planned
  <2> QED BY <1>1, <1>5, <2>1, <2>2, <2>5, WalkKeeps
          DEF Choose, Goto, WorldTyped, RunTyped, Places, once
<1>6. CASE NothingLeft
  BY <1>6, StopKeeps, EndReasonTyped DEF NothingLeft
<1> QED BY <1>2, <1>3, <1>4, <1>5, <1>6

LEMMA ForceKeeps == ASSUME BlockInv, ApplyForced PROVE BlockInv'
<1> DEFINE t == First(Ahead)
<1>1. WorldTyped /\ LedgerTyped /\ RunTyped /\ Position
  BY TypesSplit DEF BlockInv
<1>2. t \in Tasks
  <2>1. Ahead \subseteq Tasks /\ Ahead # {}
    BY DEF ApplyForced, Ahead
  <2> QED BY <2>1, FirstIsOne
<1>3. pc = "force" /\ ledger.active = None
  BY <1>1 DEF ApplyForced, Position
<1> HIDE DEF t
<1>4. CASE /\ Grade(t, "SETTLED") = "RECORDED" /\ ledger' = Moved(t, "SETTLED")
           /\ Goto("force")
           /\ UNCHANGED <<record, worktree, main, reading, runBase, now, told, stepped, runs>>
  <2>1. ledger'.active = None
    BY <1>1, <1>2, <1>3, <1>4, MovedTyped DEF Dispositions
  <2>2. Position'
    BY <1>1, <1>3, <1>4, <2>1 DEF Position, Goto
  <2>3. "SETTLED" \in Dispositions \ {"PLANNED"} /\ "force" \in Places
    BY DEF Dispositions, Places
  <2>4. UNCHANGED <<world, once, held, outcome, now, told, stepped>> /\ pc' = "force"
    BY <1>4 DEF world, once, Goto
  <2> QED BY <1>2, <1>3, <1>4, <2>2, <2>3, <2>4, WriteKeeps
<1>5. CASE End("DURABLE_WRITE_FAILED") /\ UNCHANGED <<world, ledger>>
  BY <1>5, EndPlain, EndsAreTyped
<1>6. CASE Stop("STATE_UNUSABLE")
  BY <1>6, StopKeeps, EndsAreTyped
<1>7. CASE End("RECONCILIATION_UNRESOLVED") /\ UNCHANGED <<world, ledger>>
  BY <1>7, EndPlain, EndsAreTyped
<1>8. \/ /\ Grade(t, "SETTLED") = "RECORDED" /\ ledger' = Moved(t, "SETTLED")
         /\ Goto("force")
         /\ UNCHANGED <<record, worktree, main, reading, runBase, now, told, stepped, runs>>
      \/ End("DURABLE_WRITE_FAILED") /\ UNCHANGED <<world, ledger>>
      \/ Stop("STATE_UNUSABLE")
      \/ End("RECONCILIATION_UNRESOLVED") /\ UNCHANGED <<world, ledger>>
  BY DEF ApplyForced, t
<1> QED BY <1>4, <1>5, <1>6, <1>7, <1>8

\* A write about the member the run is at, whatever comes of it.
LEMMA WritingKeeps ==
  ASSUME BlockInv, NEW disp \in Dispositions \ {"PLANNED"}, NEW then \in {"drive", "after"},
         Write(disp, then), now \in Tasks, pc # "off", disp = "ACTIVE" => ledger.active = None,
         IF then = "drive" THEN disp = "ACTIVE" ELSE disp # "ACTIVE" /\ ledger.active = now
  PROVE  BlockInv'
<1>1. WorldTyped /\ LedgerTyped /\ RunTyped /\ Position
  BY TypesSplit DEF BlockInv
<1>2. CASE /\ Grade(now, disp) = "RECORDED" /\ ledger' = Moved(now, disp) /\ Goto(then)
           /\ UNCHANGED <<record, worktree, main, reading, runBase, now, told, stepped, runs>>
  <2>1. ledger'.active = IF then = "drive" THEN now ELSE None
    BY <1>1, <1>2, MovedTyped
  <2>2. Position'
    BY <1>1, <1>2, <2>1 DEF Position, Goto
  <2>3. UNCHANGED <<world, once, held, outcome, now, told, stepped>> /\ pc' \in Places
    BY <1>2 DEF world, once, Goto, Places
  <2> QED BY <1>2, <2>2, <2>3, WriteKeeps
<1>3. CASE End("DURABLE_WRITE_FAILED") /\ UNCHANGED <<world, ledger>>
  BY <1>3, EndPlain, EndsAreTyped
<1>4. CASE Stop("STATE_UNUSABLE")
  BY <1>4, StopKeeps, EndsAreTyped
<1>5. CASE Stop("ACTIVE_TASK_UNRESOLVED")
  BY <1>5, StopKeeps, EndsAreTyped
<1> QED BY <1>2, <1>3, <1>4, <1>5 DEF Write

LEMMA RecordingKeeps == ASSUME BlockInv, Activate \/ Record PROVE BlockInv'
<1>1. CASE Activate
  <2>1. Write("ACTIVE", "drive") /\ now \in Tasks /\ ledger.active = None /\ pc # "off"
    BY <1>1 DEF BlockInv, Position, Activate
  <2> QED BY <2>1, WritingKeeps DEF Dispositions
<1>2. CASE Record
  <2>1. /\ Write(told, "after") /\ now \in Tasks /\ ledger.active = now /\ pc # "off"
        /\ told \in {"SETTLED", "BLOCKED", "RESOLVED"}
    BY <1>2 DEF BlockInv, Position, Record
  <2>2. told \in Dispositions \ {"PLANNED"} /\ told # "ACTIVE"
    BY <2>1 DEF Dispositions
  <2> QED BY <2>1, <2>2, WritingKeeps
<1> QED BY <1>1, <1>2

\* A chained member starts on a commit.
LEMMA BaseTyped ==
  ASSUME WorldTyped, LedgerTyped, RunTyped, Entries, Frozen(now) # {} => ChainProven,
         Frozen(now) # {} => Maxima(now) # {}
  PROVE  Base \in Commit
<1>1. CASE Frozen(now) = {}
  <2>1. runBase \in 0..MaxMain
    BY DEF RunTyped
  <2> QED BY <1>1, <2>1 DEF Base, Commit
<1>2. CASE Frozen(now) # {}
  <2>1. PICK c \in Frozen(now) : Candidate = ledger.task[c].result
    BY <1>2 DEF Candidate, Maxima
  <2>2. c \in Tasks /\ Settled(c)
    BY <1>2, <2>1 DEF ChainProven, Frozen
  <2>3. Candidate = record[c].head
    BY <2>1, <2>2 DEF Entries
  <2> QED BY <1>2, <2>2, <2>3 DEF Base, WorldTyped, Records
<1> QED BY <1>1, <1>2

\* Starting a member.
LEMMA StartingKeeps ==
  ASSUME BlockInv, StartRefused \/ AlreadyStarted \/ StartUnusable \/ Prepare
  PROVE  BlockInv'
<1>1. WorldTyped /\ LedgerTyped /\ RunTyped /\ Position
  BY TypesSplit DEF BlockInv
<1>2. CASE StartRefused
  BY <1>2, EndPlain, EndsAreTyped DEF StartRefused, world
<1>3. CASE AlreadyStarted
  <2>1. Position'
    BY <1>1, <1>3 DEF AlreadyStarted, MayStart, Goto, Position, Planned, Frozen, Maxima
  <2> QED BY <1>1, <1>3, <2>1, WalkKeeps
          DEF AlreadyStarted, MayStart, Goto, WorldTyped, RunTyped, Places, once
<1>4. CASE StartUnusable
  BY <1>4, StopKeeps, EndsAreTyped DEF StartUnusable
<1>5. CASE Prepare
  <2>2. now \in Tasks /\ worktree'[now] = Base /\ worktree' = [worktree EXCEPT ![now] = Base]
    BY <1>1, <1>5 DEF Prepare, MayStart, Position, WorldTyped
  <2>3. Base \in Commit
    BY <1>1, <1>5, BaseTyped DEF BlockInv, Prepare, MayStart, Position
  <2>4. worktree' \in [Tasks -> Commit \cup {None}]
    BY <1>1, <2>2, <2>3 DEF WorldTyped
  <2>5. Frozen(now)' # {} => Maxima(now)' # {}
    BY <1>1, <1>5, DependenciesStand DEF Prepare, MayStart, Position
  <2>6. /\ pc = "start" /\ pc' = "save" /\ ledger' = ledger /\ outcome' = outcome /\ now' = now
        /\ worktree'[now] \in Commit
    BY <1>5, <2>2, <2>3 DEF Prepare, MayStart, Goto
  <2>7. Position'
    BY <1>1, <2>2, <2>5, <2>6 DEF Position, Planned
  <2> QED BY <1>1, <1>5, <2>4, <2>7, WalkKeeps
          DEF Prepare, MayStart, Goto, RunTyped, Places, once
<1> QED BY <1>2, <1>3, <1>4, <1>5

\* The first record of a member: its entry claims nothing yet.
LEMMA SaveFirstKeeps == ASSUME BlockInv, SaveFirst PROVE BlockInv'
<1>1. WorldTyped /\ LedgerTyped /\ RunTyped /\ Position /\ Entries
  BY TypesSplit DEF BlockInv
<1>2. pc = "save" /\ held /\ now \in Tasks /\ Planned(now) /\ worktree[now] \in Commit
  BY <1>1 DEF SaveFirst, Position
<1>3. CASE End("RUN_GATE_REFUSED") /\ UNCHANGED <<world, ledger>>
  BY <1>3, EndPlain, EndsAreTyped
<1>4. CASE /\ record[now].state = "NONE"
           /\ record' = [record EXCEPT ![now] =
                [state |-> "WORK", rev |-> 1, base |-> worktree[now], head |-> worktree[now]]]
           /\ Goto("activate")
           /\ UNCHANGED <<worktree, main, ledger, reading, runBase, now, told, stepped, runs>>
  <2> DEFINE r == [state |-> "WORK", rev |-> 1, base |-> worktree[now], head |-> worktree[now]]
  <2>1. r \in Records /\ r.rev <= MaxSaves
    BY <1>2, Bounds DEF Records, States, InFlight
  <2>2. Proved(now, ledger.task[now])'
    <3>1. ledger'.task[now'] = NoClaim
      BY <1>1, <1>2, <1>4 DEF Entries
    <3> QED BY <3>1 DEF Proved, NoClaim
  <2>3. Position'
    BY <1>1, <1>2, <1>4 DEF Position, Goto
  <2>4. /\ UNCHANGED <<main, ledger, once, held, outcome, now, told, stepped>>
        /\ worktree' = worktree /\ pc' = "activate"
    BY <1>4 DEF once, Goto
  <2>5. worktree' \in [Tasks -> Commit \cup {None}] /\ pc' \in Places /\ stepped' \in BOOLEAN
    BY <1>1, <2>4 DEF WorldTyped, RunTyped, Places
  <2>6. record' = [record EXCEPT ![now] = r]
    BY <1>4
  <2>7. now' = now
    BY <2>4
  <2>8. record[now].state \notin {"READY", "UNUSABLE"} /\ (held => Proved(now, ledger.task[now])')
    BY <1>4, <2>2
  <2> HIDE DEF r
  <2> QED BY <1>2, <2>1, <2>2, <2>3, <2>4, <2>5, <2>6, <2>7, <2>8, RecordKeeps
<1> QED BY <1>3, <1>4 DEF SaveFirst

\* A save of the member that is driven: its entry says no more than that.
LEMMA WorkKeeps == ASSUME BlockInv, Work PROVE BlockInv'
<1>1. WorldTyped /\ LedgerTyped /\ RunTyped /\ Position /\ Entries
  BY TypesSplit DEF BlockInv
<1>2. /\ pc = "drive" /\ held /\ now \in Tasks /\ ledger.active = now
      /\ record[now].state \in {"WORK", "BLOCKED"} /\ record[now].rev <= MaxSaves
  BY <1>1 DEF Work, Position, CanWork, InFlight, BlockInv, Saves
<1>3. PICK state \in {"WORK", "BLOCKED", "READY"} : Saved(now, state)
  BY DEF Work, InFlight
<1>4. PICK r \in Records :
        /\ record' = [record EXCEPT ![now] = r]
        /\ r.state = state /\ r.rev = record[now].rev + 1 /\ r.base = record[now].base
  BY <1>1, <1>2, <1>3, SavedRecord
<1>5. r.rev <= MaxSaves
  <2>1. record[now].rev < MaxSaves
    BY DEF Work, CanWork
  <2>2. record[now].rev \in 0..MaxSaves + 1
    BY <1>1, <1>2 DEF WorldTyped, Records
  <2> QED BY <1>4, <2>1, <2>2, Bounds
<1>6. Proved(now, ledger.task[now])'
  <2>1. ledger.task[now].disp = "ACTIVE"
    BY <1>1, <1>2 DEF LedgerTyped
  <2>2. Proved(now, ledger.task[now])
    BY <1>2 DEF BlockInv, LedgerHoldsUnderLease, Unproven
  <2>3. ledger.task[now] = Claim(now, "ACTIVE")
    BY <2>1, <2>2 DEF Proved, NoClaim
  <2>4. record'[now].base = record[now].base /\ record'[now].state = state
    BY <1>1, <1>2, <1>4 DEF WorldTyped
  <2>5. ledger' = ledger /\ now' = now
    BY DEF Work
  <2>6. Claim(now, "ACTIVE")' = Claim(now, "ACTIVE")
    BY <2>4, <2>5 DEF Claim
  <2>7. Supports(now, "ACTIVE")'
    BY <2>4, <2>5 DEF Supports
  <2>8. (ledger.task[now])' = Claim(now, "ACTIVE")' /\ Claim(now, "ACTIVE")'.disp = "ACTIVE"
    BY <2>3, <2>5, <2>6 DEF Claim
  <2> QED BY <2>1, <2>5, <2>7, <2>8 DEF Proved
<1>7. Position'
  BY <1>1 DEF Work, Position
<1>8. /\ UNCHANGED <<main, ledger, once, held, outcome, now, told>> /\ now' = now
      /\ worktree' \in [Tasks -> Commit \cup {None}] /\ pc' \in Places /\ stepped' \in BOOLEAN
  BY <1>1 DEF Work, once, WorldTyped, RunTyped, Places
<1>9. record[now].state \notin {"READY", "UNUSABLE"} /\ (held => Proved(now, ledger.task[now])')
  BY <1>2, <1>6
<1> QED BY <1>2, <1>4, <1>5, <1>7, <1>8, <1>9, RecordKeeps

\* What the driver answers, and what the run does next.
LEMMA DrivingKeeps ==
  ASSUME BlockInv,
         RunReturns \/ Continue \/ Unresolved \/ NextMember \/ FailureStops \/ Crash
  PROVE  BlockInv'
<1>1. WorldTyped /\ LedgerTyped /\ RunTyped /\ Position
  BY TypesSplit DEF BlockInv
<1>2. CASE RunReturns
  <2>1. told' \in {"SETTLED", "BLOCKED", "RESOLVED"}
    BY <1>2 DEF RunReturns
  <2>2. Position'
    BY <1>1, <1>2, <2>1 DEF RunReturns, Goto, Position
  <2> QED BY <1>1, <1>2, <2>1, <2>2, WalkKeeps
          DEF RunReturns, Goto, WorldTyped, RunTyped, Places, Dispositions, once
<1>3. CASE Continue
  <2>1. Position'
    BY <1>1, <1>3 DEF Continue, Position
  <2> QED BY <1>1, <1>3, <2>1, WalkKeeps DEF Continue, WorldTyped, RunTyped, Places, once
<1>4. CASE Unresolved
  BY <1>4, StopKeeps, EndsAreTyped DEF Unresolved
<1>5. CASE NextMember
  <2>1. Position'
    BY <1>1, <1>5 DEF NextMember, Goto, Position
  <2> QED BY <1>1, <1>5, <2>1, WalkKeeps
          DEF NextMember, Goto, WorldTyped, RunTyped, Places, Dispositions, once
<1>6. CASE FailureStops
  BY <1>6, StopKeeps, EndReasonTyped DEF FailureStops
<1>7. CASE Crash
  BY <1>7, EndPlain, EndsAreTyped DEF Crash, world
<1> QED BY <1>2, <1>3, <1>4, <1>5, <1>6, <1>7

-----------------------------------------------------------------------------
(* The steps of everybody else                                              *)

LEMMA LoseLeaseKeeps == ASSUME BlockInv, LoseLease PROVE BlockInv'
<1> USE DEF LoseLease
<1>1. TypeOK'
  BY TypesSplit, TypesSplitNext DEF BlockInv, WorldTyped, LedgerTyped, RunTyped
<1>2. Saves' /\ LedgerHoldsUnderLease'
  BY DEF BlockInv, Saves, LedgerHoldsUnderLease
<1>3. Position'
  <2>1. Frozen(now)' # {} /\ Frozen(now) # {} /\ Maxima(now) # {} => Maxima(now)' # {}
    BY DependenciesStand
  <2>2. Frozen(now)' = Frozen(now)
    BY DependenciesStand
  <2> QED BY <2>1, <2>2 DEF BlockInv, Position, Planned
<1>4. Entries'
  BY ClaimsStand DEF BlockInv
<1> QED BY <1>1, <1>2, <1>3, <1>4 DEF BlockInv

LEMMA MainAdvancesKeeps == ASSUME BlockInv, MainAdvances PROVE BlockInv'
<1> USE DEF MainAdvances, rest
<1>1. TypeOK'
  <2>1. main' \in 0..MaxMain
    BY TypesSplit, Bounds DEF BlockInv, WorldTyped
  <2> QED BY <2>1, TypesSplit, TypesSplitNext DEF BlockInv, WorldTyped, LedgerTyped, RunTyped
<1>2. Saves'
  BY DEF BlockInv, Saves
<1>3. Position'
  <2>1. Frozen(now)' = Frozen(now) /\ Maxima(now)' = Maxima(now)
    BY DependenciesStand
  <2> QED BY <2>1 DEF BlockInv, Position, Planned
<1>4. Entries' /\ LedgerHoldsUnderLease'
  BY ClaimsStand DEF BlockInv, LedgerHoldsUnderLease
<1> QED BY <1>1, <1>2, <1>3, <1>4 DEF BlockInv

\* A record changes under somebody else's hands.
LEMMA OthersRecordKeeps ==
  ASSUME BlockInv, NEW t \in Tasks, OtherStart(t) \/ OtherDrive(t) \/ Resolve(t) \/ Damage(t)
  PROVE  BlockInv'
<1>1. WorldTyped /\ LedgerTyped /\ RunTyped /\ Position /\ Saves
  BY TypesSplit DEF BlockInv
<1>2. UNCHANGED <<main, rest>>
  BY DEF OtherStart, OtherDrive, Resolve, Damage
<1>3. /\ UNCHANGED <<main, ledger, once, held, outcome, now, told, stepped>> /\ pc' = pc
      /\ pc' \in Places /\ stepped' \in BOOLEAN
  BY <1>1, <1>2 DEF rest, once, RunTyped
<1>4. ASSUME \/ worktree' = worktree
             \/ \E c \in Commit : worktree' = [worktree EXCEPT ![t] = c]
      PROVE  worktree' \in [Tasks -> Commit \cup {None}] /\ Position'
  <2>1. worktree' \in [Tasks -> Commit \cup {None}]
    BY <1>1, <1>4 DEF WorldTyped
  <2>2. \A u \in Tasks : worktree[u] \in Commit => worktree'[u] \in Commit
    BY <1>1, <1>4 DEF WorldTyped
  <2>3. Frozen(now)' = Frozen(now) /\ Maxima(now)' = Maxima(now)
    BY <1>3, DependenciesStand DEF once
  <2> QED BY <1>1, <1>3, <2>1, <2>2, <2>3 DEF Position, Planned
<1>5. CASE OtherStart(t)
  <2> DEFINE c == [main |-> main, work |-> {}]
             r == [state |-> "WORK", rev |-> 1, base |-> c, head |-> c]
  <2>1. c \in Commit
    BY <1>1 DEF WorldTyped, Commit
  <2>2. r \in Records /\ r.rev <= MaxSaves
    BY <2>1, Bounds DEF Records, States, InFlight
  <2>3. worktree' = [worktree EXCEPT ![t] = c] /\ worktree'[t] = c
    BY <1>1, <1>5 DEF OtherStart, WorldTyped
  <2>4. record' = [record EXCEPT ![t] = r]
    BY <1>5, <2>3 DEF OtherStart
  <2>5. worktree' \in [Tasks -> Commit \cup {None}] /\ Position'
    BY <1>4, <2>1, <2>3
  <2>6. record[t].state = "NONE" /\ ~held
    BY <1>5 DEF OtherStart
  <2> HIDE DEF r
  <2> QED BY <1>3, <2>2, <2>4, <2>5, <2>6, RecordKeeps
<1>6. CASE OtherDrive(t) \/ Resolve(t)
  <2>1. PICK state \in {"WORK", "BLOCKED", "READY", "RESOLVED"} :
          Saved(t, state) /\ (state \in InFlight => record[t].rev < MaxSaves)
    BY <1>6 DEF OtherDrive, Resolve, InFlight, CanWork
  <2>2. record[t].state \in InFlight /\ ~held /\ worktree' = worktree
    BY <1>6 DEF OtherDrive, Resolve, CanWork, InFlight
  <2>3. record[t].rev <= MaxSaves /\ record[t].rev \in 0..MaxSaves + 1
    BY <1>1, <2>2 DEF Saves, WorldTyped, Records
  <2>4. PICK r \in Records : /\ record' = [record EXCEPT ![t] = r]
                             /\ r.state = state /\ r.rev = record[t].rev + 1
    BY <1>1, <2>1, <2>3, SavedRecord
  <2>5. r.state \in InFlight => r.rev <= MaxSaves
    BY <2>1, <2>3, <2>4, Bounds
  <2>6. record[t].state \notin {"READY", "UNUSABLE"}
    BY <2>2 DEF InFlight
  <2>7. worktree' \in [Tasks -> Commit \cup {None}] /\ Position'
    BY <1>4, <2>2
  <2> QED BY <1>3, <2>2, <2>4, <2>5, <2>6, <2>7, RecordKeeps
<1>7. CASE Damage(t)
  <2> DEFINE r == [record[t] EXCEPT !.state = "UNUSABLE"]
  <2>1. record[t] \in Records /\ record \in [Tasks -> Records]
    BY <1>1 DEF WorldTyped
  <2>2. /\ r \in Records /\ r.state = "UNUSABLE"
        /\ r.base = record[t].base /\ r.head = record[t].head
    BY <2>1 DEF Records, States
  <2>3. record' = [record EXCEPT ![t] = r]
    BY <1>7, <2>1 DEF Damage
  <2>4. r.state \notin InFlight
    BY <2>2 DEF InFlight
  <2>5. worktree' \in [Tasks -> Commit \cup {None}] /\ Position'
    BY <1>4, <1>7 DEF Damage
  <2> HIDE DEF r
  <2> QED BY <1>3, <2>2, <2>3, <2>4, <2>5, RecordKeeps
<1> QED BY <1>5, <1>6, <1>7

LEMMA StandingKeeps == ASSUME BlockInv, UNCHANGED vars PROVE BlockInv'
<1> USE DEF vars
<1>1. TypeOK'
  BY TypesSplit, TypesSplitNext DEF BlockInv, WorldTyped, LedgerTyped, RunTyped
<1>2. Saves' /\ LedgerHoldsUnderLease' /\ Entries'
  BY ClaimsStand DEF BlockInv, Saves, LedgerHoldsUnderLease
<1>3. Position'
  <2>1. Frozen(now)' = Frozen(now) /\ Maxima(now)' = Maxima(now)
    BY DependenciesStand
  <2> QED BY <2>1 DEF BlockInv, Position, Planned
<1> QED BY <1>1, <1>2, <1>3 DEF BlockInv

LEMMA StepKeeps == BlockInv /\ [Next]_vars => BlockInv'
<1> SUFFICES ASSUME BlockInv, [Next]_vars PROVE BlockInv'
  OBVIOUS
<1>1. CASE StartRun
  BY <1>1, StartRunKeeps
<1>2. CASE Runner
  BY <1>2, ChoosingKeeps, ForceKeeps, StartingKeeps, SaveFirstKeeps, RecordingKeeps,
     WorkKeeps, DrivingKeeps DEF Runner
<1>3. CASE Crash
  BY <1>3, DrivingKeeps
<1>4. CASE Others
  BY <1>4, LoseLeaseKeeps, MainAdvancesKeeps, OthersRecordKeeps DEF Others
<1>5. CASE UNCHANGED vars
  BY <1>5, StandingKeeps
<1> QED BY <1>1, <1>2, <1>3, <1>4, <1>5 DEF Next

LEMMA BlockInvHolds == Spec => []BlockInv
<1> QED BY InitKeeps, StepKeeps, PTL DEF Spec

-----------------------------------------------------------------------------
(***************************************************************************)
(* On what a dependent member is built, as long as the roadmap is not edited   *)
(* between the runs and does not call a dependency of a member done before the  *)
(* block has delivered it.                                                   *)
(***************************************************************************)
OneRoadmap ==
  /\ ~PlanMayChange
  /\ \A r \in Readings, t \in Tasks : r.deps[t] \cap r.done = {}

\* The record is of work that was started by a run or by hand.
Built(t) ==
  \/ record[t].state \in {"WORK", "BLOCKED", "RESOLVED"}
  \/ record[t].head # record[t].base

\* A result is its base with the member's own work.
Commits ==
  /\ runBase <= main
  /\ \A t \in Tasks :
       /\ record[t].base.main <= main
       /\ held => record[t].base.main <= runBase
       /\ record[t].head \in {record[t].base, With(record[t].base, t)}

\* What was built has its dependencies' work in it, and they have its origin.
Chained(t) ==
  Built(t) =>
    /\ Frozen(t) \subseteq record[t].base.work
    /\ \A d \in Frozen(t) : record[d].state # "NONE" /\ record[d].base.main = record[t].base.main

Starting ==
  /\ pc = "start" /\ held => record[now].state # "READY"
  /\ pc = "save" /\ held => worktree[now] = Base /\ (Frozen(now) # {} => ChainProven)

Driving ==
  pc \in {"activate", "drive", "record"} =>
    /\ record[now].state # "NONE"
    /\ Frozen(now) # {} => /\ record[now].base.main = runBase
                           /\ Frozen(now) \subseteq record[now].base.work

ChainInv == Commits /\ (\A t \in Tasks : Chained(t)) /\ Starting /\ Driving

LEMMA OnesOwnRoadmap ==
  ASSUME OneRoadmap, NEW r, r \in Roadmaps
  PROVE  r = reading
  BY DEF OneRoadmap, Roadmaps

LEMMA FrozenStands ==
  ASSUME reading' = reading
  PROVE  \A t \in Tasks : Frozen(t)' = Frozen(t) /\ Frozen(t) \subseteq Tasks \ {t}
  BY DEF Frozen

\* A member that depends on nothing has nothing frozen.
LEMMA NothingFrozen ==
  ASSUME NEW t \in Tasks, reading.deps[t] = {}
  PROVE  Frozen(t) = {}
<1> SUFFICES ASSUME NEW d \in Frozen(t) PROVE FALSE
  OBVIOUS
<1>1. \A S \in SUBSET Tasks :
        reading.deps[t] \subseteq S /\ (\A u \in S : reading.deps[u] \subseteq S) => d \in S
  BY DEF Frozen
<1>2. {} \in SUBSET Tasks /\ reading.deps[t] \subseteq {} /\ \A u \in {} : reading.deps[u] \subseteq {}
  OBVIOUS
<1>3. d \in {}
  BY <1>1, <1>2
<1> QED BY <1>3

LEMMA CommitsTyped ==
  ASSUME BlockInv, NEW t \in Tasks
  PROVE  /\ record[t].base.main \in Nat /\ record[t].head.main \in Nat
         /\ record[t].base \in Commit /\ record[t].state \in States
         /\ With(record[t].base, t).main = record[t].base.main
         /\ t \in With(record[t].base, t).work
         /\ runBase \in Nat /\ main \in Nat
<1>1. record[t] \in Records
  BY TypesSplit DEF BlockInv, WorldTyped
<1>2. record[t].base \in Commit /\ record[t].head \in Commit /\ record[t].state \in States
  BY <1>1 DEF Records
<1>3. runBase \in 0..MaxMain /\ main \in 0..MaxMain
  BY TypesSplit DEF BlockInv, WorldTyped, RunTyped
<1> QED BY <1>2, <1>3, Bounds DEF Commit, With

(***************************************************************************)
(* The base of a dependent member: the result of the dependency above all the  *)
(* others has the work of each, and every one of them began where this run did. *)
(***************************************************************************)
LEMMA ChainedBase ==
  ASSUME BlockInv, Commits, \A t \in Tasks : Chained(t), held,
         now \in Tasks, Frozen(now) # {}, Maxima(now) # {}, ChainProven
  PROVE  /\ Base.main = runBase
         /\ Frozen(now) \subseteq Base.work
         /\ \A d \in Frozen(now) : record[d].state # "NONE" /\ record[d].base.main = runBase
<1>1. PICK c \in Maxima(now) : Candidate = ledger.task[c].result
  BY DEF Candidate
<1>2. c \in Frozen(now) /\ Frozen(now) \ {c} \subseteq Frozen(c) /\ Frozen(now) \subseteq Tasks
  BY <1>1 DEF Maxima, Frozen
<1>3. ASSUME NEW d \in Frozen(now)
      PROVE  /\ record[d].state # "NONE" /\ Built(d)
             /\ ledger.task[d].result = record[d].head
             /\ record[d].head.main = record[d].base.main /\ d \in record[d].head.work
  <2>1. d \in Tasks
    BY <1>2
  <2>2. Settled(d) /\ ledger.task[d].result # ledger.task[d].base
    BY DEF ChainProven
  <2>3. /\ record[d].state \in {"READY", "UNUSABLE"}
        /\ ledger.task[d].base = record[d].base /\ ledger.task[d].result = record[d].head
    BY <2>1, <2>2 DEF BlockInv, Entries
  <2>4. record[d].head = With(record[d].base, d)
    BY <2>1, <2>2, <2>3 DEF Commits
  <2> QED BY <2>1, <2>2, <2>3, <2>4, CommitsTyped DEF Built
<1>4. Base = record[c].head
  BY <1>1, <1>2, <1>3 DEF Base
<1>5. record[c].base.main = runBase /\ Base.main = runBase
  <2>1. runBase <= Candidate.main
    BY DEF ChainProven, Contains
  <2>2. record[c].base.main <= runBase
    BY <1>2 DEF Commits
  <2> QED BY <1>1, <1>2, <1>3, <1>4, <2>1, <2>2, CommitsTyped
<1>6. ASSUME NEW d \in Frozen(now) PROVE d \in Base.work
  <2>1. Contains(Candidate, ledger.task[d].result)
    BY DEF ChainProven
  <2> QED BY <1>1, <1>2, <1>3, <1>4, <2>1 DEF Contains
<1>7. ASSUME NEW d \in Frozen(now) PROVE record[d].base.main = runBase
  <2>1. CASE d = c
    BY <1>5, <2>1
  <2>2. CASE d # c
    <3>1. d \in Frozen(c) /\ c \in Tasks /\ Built(c)
      BY <1>2, <1>3, <2>2
    <3> QED BY <1>5, <3>1 DEF Chained
  <2> QED BY <2>1, <2>2
<1> QED BY <1>3, <1>5, <1>6, <1>7

\* No record changes, and the lease is not gained.
LEMMA ChainStands ==
  ASSUME BlockInv, ChainInv, record' = record, reading' = reading, runBase' = runBase,
         main' \in Nat, main <= main', held' => held
  PROVE  Commits' /\ \A t \in Tasks : Chained(t)'
<1>1. Commits'
  <2>1. runBase <= main /\ runBase \in Nat /\ main \in Nat
    BY TypesSplit, Bounds DEF BlockInv, WorldTyped, RunTyped, ChainInv, Commits
  <2>2. runBase' <= main'
    BY <2>1
  <2>3. ASSUME NEW t \in Tasks
        PROVE  /\ record'[t].base.main <= main'
               /\ held' => record'[t].base.main <= runBase'
               /\ record'[t].head \in {record'[t].base, With(record'[t].base, t)}
    <3>1. /\ record[t].base.main <= main /\ (held => record[t].base.main <= runBase)
          /\ record[t].head \in {record[t].base, With(record[t].base, t)}
      BY DEF ChainInv, Commits
    <3>2. record[t].base.main \in Nat
      BY CommitsTyped
    <3> QED BY <2>1, <3>1, <3>2
  <2> QED BY <2>2, <2>3 DEF Commits
<1>2. ASSUME NEW t \in Tasks PROVE Chained(t)'
  <2>1. Frozen(t)' = Frozen(t)
    BY FrozenStands
  <2>2. Chained(t)
    BY DEF ChainInv
  <2> QED BY <2>1, <2>2 DEF Chained, Built
<1> QED BY <1>1, <1>2

\* One record changes, and its commits are in order.
LEMMA ChainRecord ==
  ASSUME BlockInv, ChainInv, NEW t \in Tasks, NEW r \in Records,
         record' = [record EXCEPT ![t] = r], UNCHANGED <<reading, runBase, main, held>>,
         r.base.main <= main, held => r.base.main <= runBase,
         r.head \in {r.base, With(r.base, t)}, r.state # "NONE",
         \/ record[t].state = "NONE" /\ Chained(t)'
         \/ /\ record[t].state # "NONE" /\ r.base = record[t].base
            /\ Built(t)' => Built(t)
  PROVE  Commits' /\ \A u \in Tasks : Chained(u)'
<1>1. record'[t] = r /\ \A u \in Tasks : u # t => record'[u] = record[u]
  BY TypesSplit DEF BlockInv, WorldTyped
<1>2. Commits'
  BY <1>1 DEF ChainInv, Commits
<1>3. \A u \in Tasks : Frozen(u)' = Frozen(u) /\ Frozen(u) \subseteq Tasks
  BY FrozenStands
<1>4. CASE record[t].state = "NONE" /\ Chained(t)'
  <2>1. ASSUME NEW u \in Tasks, u # t PROVE Chained(u)'
    <3> SUFFICES ASSUME Built(u)'
                 PROVE  /\ Frozen(u) \subseteq record[u].base.work
                        /\ \A d \in Frozen(u) : /\ record'[d].state # "NONE"
                                                /\ record'[d].base.main = record[u].base.main
      BY <1>1, <1>3, <2>1 DEF Chained
    <3>1. Built(u)
      BY <1>1, <2>1 DEF Built
    <3>2. /\ Frozen(u) \subseteq record[u].base.work
          /\ \A d \in Frozen(u) : record[d].state # "NONE" /\ record[d].base.main = record[u].base.main
      BY <3>1 DEF ChainInv, Chained
    <3>3. \A d \in Frozen(u) : record'[d] = record[d]
      BY <1>1, <1>3, <1>4, <3>2
    <3> QED BY <3>2, <3>3
  <2> QED BY <1>2, <1>4, <2>1
<1>5. CASE record[t].state # "NONE" /\ r.base = record[t].base /\ (Built(t)' => Built(t))
  <2>1. \A u \in Tasks : record'[u].base = record[u].base
    BY <1>1, <1>5
  <2>2. \A u \in Tasks : record[u].state # "NONE" => record'[u].state # "NONE"
    BY <1>1
  <2>3. \A u \in Tasks : Built(u)' => Built(u)
    BY <1>1, <1>5 DEF Built
  <2>4. ASSUME NEW u \in Tasks PROVE Chained(u)'
    <3> SUFFICES ASSUME Built(u)'
                 PROVE  /\ Frozen(u) \subseteq record'[u].base.work
                        /\ \A d \in Frozen(u) : /\ record'[d].state # "NONE"
                                                /\ record'[d].base.main = record'[u].base.main
      BY <1>3 DEF Chained
    <3>1. /\ Frozen(u) \subseteq record[u].base.work
          /\ \A d \in Frozen(u) : record[d].state # "NONE" /\ record[d].base.main = record[u].base.main
      BY <2>3 DEF ChainInv, Chained
    <3> QED BY <1>3, <2>1, <2>2, <3>1
  <2> QED BY <1>2, <2>4
<1> QED BY <1>2, <1>4, <1>5

\* The run ends, or goes where nothing is asked of the member it is about.
LEMMA ChainElsewhere ==
  ASSUME BlockInv, ChainInv, pc' \in {"off", "check", "force", "after"},
         record' = record, reading' = reading, runBase' = runBase, main' = main, held' => held
  PROVE  ChainInv'
<1>1. main' \in Nat /\ main <= main'
  BY TypesSplit, Bounds DEF BlockInv, WorldTyped
<1>2. Commits' /\ \A t \in Tasks : Chained(t)'
  BY <1>1, ChainStands
<1>3. Starting' /\ Driving'
  BY DEF Starting, Driving
<1> QED BY <1>2, <1>3 DEF ChainInv

LEMMA EndsElsewhere ==
  ASSUME BlockInv, ChainInv, NEW how, End(how), UNCHANGED world
  PROVE  ChainInv'
<1>1. /\ pc' = "off" /\ record' = record /\ main' = main
      /\ reading' = reading /\ runBase' = runBase /\ held' = FALSE
  BY DEF End, once, world
<1> QED BY <1>1, ChainElsewhere

LEMMA StopsElsewhere ==
  ASSUME BlockInv, ChainInv, NEW reason, Stop(reason)
  PROVE  ChainInv'
<1>1. UNCHANGED world /\ \E how \in {reason, "DURABLE_WRITE_FAILED"} : End(how)
  BY DEF Stop
<1> QED BY <1>1, EndsElsewhere

LEMMA ChainInit == Init => ChainInv
<1> SUFFICES ASSUME Init PROVE ChainInv
  OBVIOUS
<1>1. \A t \in Tasks : /\ record[t].base = Root /\ record[t].head = Root
                       /\ record[t].state \in {"NONE", "READY"}
  BY DEF Init
<1>2. Commits
  BY <1>1 DEF Init, Commits, Root
<1>3. \A t \in Tasks : Chained(t)
  BY <1>1 DEF Chained, Built
<1> QED BY <1>2, <1>3 DEF Init, ChainInv, Starting, Driving

LEMMA ChainStartRun == ASSUME OneRoadmap, BlockInv, ChainInv, StartRun PROVE ChainInv'
<1>1. reading' = reading
  BY OnesOwnRoadmap DEF StartRun
<1>2. record' = record /\ main' = main /\ runBase' = main /\ pc' = "check"
  BY DEF StartRun
<1>3. Commits'
  <2>1. main <= main
    BY TypesSplit, Bounds DEF BlockInv, WorldTyped
  <2> QED BY <1>2, <2>1 DEF ChainInv, Commits
<1>4. ASSUME NEW t \in Tasks PROVE Chained(t)'
  <2>1. Frozen(t)' = Frozen(t) /\ Chained(t)
    BY <1>1, FrozenStands DEF ChainInv
  <2> QED BY <1>2, <2>1 DEF Chained, Built
<1> QED BY <1>2, <1>3, <1>4 DEF ChainInv, Starting, Driving

\* The steps of a run after which no member is being started or driven.
LEMMA ChainPassing ==
  ASSUME BlockInv, ChainInv,
         \/ LeaseUncertain \/ RecordsAgree \/ RecordsDiverge \/ ApplyForced \/ NothingLeft
         \/ StartRefused \/ StartUnusable \/ Unresolved \/ NextMember \/ FailureStops \/ Crash
  PROVE  ChainInv'
<1>1. CASE LeaseUncertain \/ StartRefused \/ Crash
  BY <1>1, EndsElsewhere DEF LeaseUncertain, StartRefused, Crash, world
<1>2. CASE RecordsDiverge \/ NothingLeft \/ StartUnusable \/ Unresolved \/ FailureStops
  BY <1>2, StopsElsewhere DEF RecordsDiverge, NothingLeft, StartUnusable, Unresolved, FailureStops
<1>3. CASE RecordsAgree \/ NextMember
  BY <1>3, ChainElsewhere DEF RecordsAgree, NextMember, Goto
<1>4. CASE ApplyForced
  <2>1. \/ /\ Goto("force")
           /\ UNCHANGED <<record, worktree, main, reading, runBase, now, told, stepped, runs>>
        \/ End("DURABLE_WRITE_FAILED") /\ UNCHANGED <<world, ledger>>
        \/ Stop("STATE_UNUSABLE")
        \/ End("RECONCILIATION_UNRESOLVED") /\ UNCHANGED <<world, ledger>>
    BY <1>4 DEF ApplyForced
  <2>2. CASE /\ Goto("force")
             /\ UNCHANGED <<record, worktree, main, reading, runBase, now, told, stepped, runs>>
    BY <2>2, ChainElsewhere DEF Goto
  <2> QED BY <2>1, <2>2, EndsElsewhere, StopsElsewhere
<1> QED BY <1>1, <1>2, <1>3, <1>4

\* A member that is chosen has no finished record.
LEMMA ChainChoose == ASSUME BlockInv, ChainInv, Choose PROVE ChainInv'
<1>1. /\ record' = record /\ main' = main /\ reading' = reading /\ runBase' = runBase
      /\ held' = held /\ pc' = "start"
  BY DEF Choose, Goto
<1>2. Commits' /\ \A t \in Tasks : Chained(t)'
  <2>1. main' \in Nat /\ main <= main'
    BY <1>1, TypesSplit, Bounds DEF BlockInv, WorldTyped
  <2> QED BY <1>1, <2>1, ChainStands
<1>3. now' \in Choices
  <2>1. Choices \subseteq Tasks
    BY DEF Choices
  <2> QED BY <2>1, FirstIsOne DEF Choose
<1>4. record[now'].state # "READY"
  BY <1>3 DEF Choose, Ahead, Choices
<1> QED BY <1>1, <1>2, <1>4 DEF ChainInv, Starting, Driving

\* The step that makes the worktree, and the one that finds there is a record.
LEMMA ChainMayStart == ASSUME BlockInv, ChainInv, Prepare \/ AlreadyStarted PROVE ChainInv'
<1>1. /\ record' = record /\ main' = main /\ reading' = reading /\ runBase' = runBase
      /\ held' = held /\ held /\ ledger' = ledger /\ now' = now /\ pc = "start"
  BY DEF Prepare, AlreadyStarted, MayStart, Goto
<1>2. Commits' /\ \A t \in Tasks : Chained(t)'
  <2>1. main' \in Nat /\ main <= main'
    BY <1>1, TypesSplit, Bounds DEF BlockInv, WorldTyped
  <2> QED BY <1>1, <2>1, ChainStands
<1>3. now \in Tasks /\ (Frozen(now) # {} => Maxima(now) # {})
  BY <1>1 DEF BlockInv, Position
<1>4. Frozen(now) # {} => ChainProven
  BY DEF Prepare, AlreadyStarted, MayStart
<1>5. CASE Prepare
  <2>1. worktree'[now] = Base /\ pc' = "save"
    BY <1>3, <1>5, TypesSplit DEF Prepare, Goto, BlockInv, WorldTyped
  <2>2. Base' = Base /\ Frozen(now)' = Frozen(now)
    BY <1>1 DEF Base, Candidate, Maxima, Frozen
  <2>3. ChainProven' = ChainProven
    BY <1>1 DEF ChainProven, Candidate, Maxima, Frozen, Settled, Anchors, Roots
  <2>4. Starting'
    BY <1>1, <1>4, <2>1, <2>2, <2>3 DEF Starting
  <2> QED BY <1>2, <2>1, <2>4 DEF ChainInv, Driving
<1>6. CASE AlreadyStarted
  <2>1. pc' = "activate" /\ record[now].state \notin {"NONE", "UNUSABLE"}
    BY <1>6 DEF AlreadyStarted, Goto
  <2>2. Built(now)
    <3>1. record[now].state # "READY" /\ record[now].state \in States
      BY <1>1, <1>3, CommitsTyped DEF ChainInv, Starting
    <3> QED BY <2>1, <3>1 DEF Built, States, InFlight
  <2>3. ASSUME Frozen(now) # {}
        PROVE  record[now].base.main = runBase /\ Frozen(now) \subseteq record[now].base.work
    <3>1. \A d \in Frozen(now) : record[d].base.main = runBase
      BY <1>1, <1>3, <1>4, <2>3, ChainedBase DEF ChainInv
    <3>2. /\ Frozen(now) \subseteq record[now].base.work
          /\ \A d \in Frozen(now) : record[d].base.main = record[now].base.main
      BY <1>3, <2>2 DEF ChainInv, Chained
    <3> QED BY <2>3, <3>1, <3>2
  <2>4. Frozen(now)' = Frozen(now)
    BY <1>1 DEF Frozen
  <2>5. Driving'
    BY <1>1, <2>1, <2>3, <2>4 DEF Driving
  <2> QED BY <1>2, <2>1, <2>5 DEF ChainInv, Starting
<1> QED BY <1>5, <1>6

\* The first record is created on the commit that was proved.
LEMMA ChainSaveFirst == ASSUME BlockInv, ChainInv, SaveFirst PROVE ChainInv'
<1>1. CASE End("RUN_GATE_REFUSED") /\ UNCHANGED <<world, ledger>>
  BY <1>1, EndsElsewhere
<1>2. CASE /\ record[now].state = "NONE"
           /\ record' = [record EXCEPT ![now] =
                [state |-> "WORK", rev |-> 1, base |-> worktree[now], head |-> worktree[now]]]
           /\ Goto("activate")
           /\ UNCHANGED <<worktree, main, ledger, reading, runBase, now, told, stepped, runs>>
  <2> DEFINE r == [state |-> "WORK", rev |-> 1, base |-> worktree[now], head |-> worktree[now]]
  <2>1. /\ pc = "save" /\ held /\ now \in Tasks /\ worktree[now] \in Commit
        /\ Frozen(now) # {} => Maxima(now) # {}
    BY DEF SaveFirst, BlockInv, Position
  <2>2. worktree[now] = Base /\ (Frozen(now) # {} => ChainProven)
    BY <2>1 DEF ChainInv, Starting
  <2>3. Base.main = runBase
    <3>1. CASE Frozen(now) = {}
      BY <3>1 DEF Base
    <3>2. CASE Frozen(now) # {}
      BY <2>1, <2>2, <3>2, ChainedBase DEF ChainInv
    <3> QED BY <3>1, <3>2
  <2>4. ASSUME Frozen(now) # {}
        PROVE  /\ Frozen(now) \subseteq Base.work
               /\ \A d \in Frozen(now) : record[d].state # "NONE" /\ record[d].base.main = runBase
    BY <2>1, <2>2, <2>4, ChainedBase DEF ChainInv
  <2>5. r \in Records /\ r.base = Base /\ r.head = Base /\ r.state = "WORK"
    BY <2>1, <2>2, Bounds DEF Records, States, InFlight
  <2>6. /\ record' = [record EXCEPT ![now] = r] /\ pc' = "activate" /\ now' = now
        /\ UNCHANGED <<reading, runBase, main, held>>
    BY <1>2 DEF Goto
  <2> HIDE DEF r
  <2>7. record'[now] = r /\ \A u \in Tasks : u # now => record'[u] = record[u]
    BY <2>1, <2>6, TypesSplit DEF BlockInv, WorldTyped
  <2>8. \A t \in Tasks : Frozen(t)' = Frozen(t) /\ Frozen(t) \subseteq Tasks \ {t}
    BY <2>6, FrozenStands
  <2>9. PICK t \in Tasks : t = now
    BY <2>1
  <2>10. Chained(t)'
    <3>1. Frozen(t)' = Frozen(now) /\ Frozen(now) \subseteq Tasks \ {now}
      BY <2>8, <2>9
    <3>2. \A d \in Frozen(now) : record'[d] = record[d]
      BY <2>7, <3>1
    <3>3. record'[t].base = Base
      BY <2>5, <2>7, <2>9
    <3>4. Frozen(t)' \subseteq record'[t].base.work
      BY <2>4, <3>1, <3>3
    <3>5. \A d \in Frozen(t)' : record'[d].state # "NONE" /\ record'[d].base.main = record'[t].base.main
      BY <2>3, <2>4, <3>1, <3>2, <3>3
    <3> QED BY <3>4, <3>5 DEF Chained
  <2>11. Commits' /\ \A u \in Tasks : Chained(u)'
    <3>1. r.base.main <= main /\ r.base.main <= runBase
      <4>1. runBase <= main /\ runBase \in Nat
        BY <2>9, CommitsTyped DEF ChainInv, Commits
      <4> QED BY <2>3, <2>5, <4>1
    <3>2. record' = [record EXCEPT ![t] = r] /\ record[t].state = "NONE"
      BY <1>2, <2>6, <2>9
    <3> QED BY <2>5, <2>6, <2>10, <3>1, <3>2, ChainRecord
  <2>12. Driving'
    <3>1. record'[now'].state = "WORK" /\ record'[now'].base = Base
      BY <2>5, <2>6, <2>7
    <3>2. Frozen(now)' = Frozen(now)
      BY <2>6 DEF Frozen
    <3> QED BY <2>3, <2>4, <2>6, <3>1, <3>2 DEF Driving
  <2>13. Starting'
    BY <2>6 DEF Starting
  <2> QED BY <2>11, <2>12, <2>13 DEF ChainInv
<1> QED BY <1>1, <1>2 DEF SaveFirst

\* The steps of a run with the member it drives, except for the driver's saves.
LEMMA ChainActive ==
  ASSUME BlockInv, ChainInv, Activate \/ RunReturns \/ Continue \/ Record
  PROVE  ChainInv'
<1>1. ASSUME /\ pc \in {"activate", "drive", "record"} /\ pc' \in {"drive", "record", "after"}
             /\ UNCHANGED <<record, main, reading, runBase, held, now>>
      PROVE  ChainInv'
  <2>1. Commits' /\ \A t \in Tasks : Chained(t)'
    <3>1. main' \in Nat /\ main <= main'
      BY <1>1, TypesSplit, Bounds DEF BlockInv, WorldTyped
    <3> QED BY <1>1, <3>1, ChainStands
  <2>2. Frozen(now)' = Frozen(now)
    BY <1>1 DEF Frozen
  <2>3. Driving'
    BY <1>1, <2>2 DEF ChainInv, Driving
  <2> QED BY <1>1, <2>1, <2>3 DEF ChainInv, Starting
<1>2. CASE RunReturns \/ Continue
  BY <1>1, <1>2 DEF RunReturns, Continue, Goto
<1>3. ASSUME NEW disp, NEW then \in {"drive", "after"}, Write(disp, then),
             pc \in {"activate", "record"}
      PROVE  ChainInv'
  <2>1. CASE /\ Goto(then)
             /\ UNCHANGED <<record, worktree, main, reading, runBase, now, told, stepped, runs>>
    BY <1>1, <1>3, <2>1 DEF Goto
  <2>2. CASE End("DURABLE_WRITE_FAILED") /\ UNCHANGED <<world, ledger>>
    BY <2>2, EndsElsewhere
  <2>3. CASE Stop("STATE_UNUSABLE") \/ Stop("ACTIVE_TASK_UNRESOLVED")
    BY <2>3, StopsElsewhere
  <2> QED BY <1>3, <2>1, <2>2, <2>3 DEF Write
<1> QED BY <1>2, <1>3 DEF Activate, Record

\* A record that exists changes, and keeps its base.
LEMMA ChainTouch ==
  ASSUME BlockInv, ChainInv, NEW t \in Tasks, NEW r \in Records,
         record' = [record EXCEPT ![t] = r],
         UNCHANGED <<worktree, main, ledger, reading, runBase, held, pc, now>>,
         record[t].state # "NONE", r.state # "NONE", r.base = record[t].base,
         r.head \in {r.base, With(r.base, t)}, Built(t)' => Built(t),
         pc = "start" /\ held => r.state # "READY"
  PROVE  ChainInv'
<1>1. record'[t] = r /\ \A u \in Tasks : u # t => record'[u] = record[u]
  BY TypesSplit DEF BlockInv, WorldTyped
<1>2. Commits' /\ \A u \in Tasks : Chained(u)'
  <2>1. r.base.main <= main /\ (held => r.base.main <= runBase)
    BY DEF ChainInv, Commits
  <2> QED BY <2>1, ChainRecord
<1>3. Frozen(now)' = Frozen(now) /\ Maxima(now)' = Maxima(now)
  BY DependenciesStand
<1>4. Starting'
  <2>1. ASSUME pc = "start", held PROVE record'[now].state # "READY"
    <3>1. now \in Tasks
      BY <2>1 DEF BlockInv, Position
    <3> QED BY <1>1, <2>1, <3>1 DEF ChainInv, Starting
  <2>2. Base' = Base
    BY <1>3 DEF Base, Candidate
  <2>3. ChainProven' = ChainProven
    BY <1>3 DEF ChainProven, Candidate, Settled, Anchors, Roots, Frozen
  <2> QED BY <1>3, <2>1, <2>2, <2>3 DEF ChainInv, Starting
<1>5. Driving'
  <2> SUFFICES ASSUME pc \in {"activate", "drive", "record"}
               PROVE  /\ record'[now].state # "NONE"
                      /\ Frozen(now) # {} => /\ record'[now].base.main = runBase
                                             /\ Frozen(now) \subseteq record'[now].base.work
    BY <1>3 DEF Driving
  <2>1. now \in Tasks
    BY DEF BlockInv, Position
  <2>2. /\ record[now].state # "NONE"
        /\ Frozen(now) # {} => /\ record[now].base.main = runBase
                               /\ Frozen(now) \subseteq record[now].base.work
    BY DEF ChainInv, Driving
  <2>3. record'[now].base = record[now].base /\ record'[now].state # "NONE"
    BY <1>1, <2>1, <2>2
  <2> QED BY <2>2, <2>3
<1> QED BY <1>2, <1>4, <1>5 DEF ChainInv

LEMMA ChainSaved ==
  ASSUME BlockInv, ChainInv, NEW t \in Tasks, NEW state \in {"WORK", "BLOCKED", "READY", "RESOLVED"},
         record[t].state \in InFlight, Saved(t, state), pc = "start" => ~held,
         UNCHANGED <<worktree, main, ledger, reading, runBase, held, pc, now>>
  PROVE  ChainInv'
<1>1. WorldTyped /\ record[t].rev <= MaxSaves
  BY TypesSplit DEF BlockInv, Saves
<1>2. PICK r \in Records :
        /\ record' = [record EXCEPT ![t] = r]
        /\ r.state = state /\ r.base = record[t].base
        /\ r.head = IF state = "READY" THEN With(record[t].base, t) ELSE record[t].head
  BY <1>1, SavedRecord
<1>3. r.head \in {r.base, With(r.base, t)}
  BY <1>2 DEF ChainInv, Commits
<1>4. Built(t) /\ record[t].state # "NONE"
  BY DEF Built, InFlight
<1>5. r.state # "NONE" /\ (pc = "start" /\ held => r.state # "READY")
  BY <1>2
<1>6. r.base = record[t].base /\ record' = [record EXCEPT ![t] = r]
  BY <1>2
<1> HIDE DEF Built
<1>7. Built(t)' => Built(t)
  BY <1>4
<1> QED BY <1>3, <1>4, <1>5, <1>6, <1>7, ChainTouch

LEMMA ChainDamage ==
  ASSUME BlockInv, ChainInv, NEW t \in Tasks, Damage(t)
  PROVE  ChainInv'
<1> DEFINE r == [record[t] EXCEPT !.state = "UNUSABLE"]
<1>1. record[t] \in Records /\ record \in [Tasks -> Records]
  BY TypesSplit DEF BlockInv, WorldTyped
<1>2. /\ r \in Records /\ r.state = "UNUSABLE"
      /\ r.base = record[t].base /\ r.head = record[t].head
  BY <1>1 DEF Records, States
<1>3. record' = [record EXCEPT ![t] = r] /\ record[t].state # "NONE"
  BY <1>1 DEF Damage
<1>4. Built(t)' => Built(t)
  <2>1. record'[t] = r
    BY <1>1, <1>3
  <2> HIDE DEF r
  <2> QED BY <1>2, <2>1 DEF Built
<1>5. r.head \in {r.base, With(r.base, t)}
  BY <1>2 DEF ChainInv, Commits
<1>6. UNCHANGED <<worktree, main, ledger, reading, runBase, held, pc, now>>
  BY DEF Damage, rest
<1> HIDE DEF r
<1> QED BY <1>2, <1>3, <1>4, <1>5, <1>6, ChainTouch

\* A start by hand is of a member that depends on nothing.
LEMMA ChainOtherStart ==
  ASSUME OneRoadmap, BlockInv, ChainInv, NEW t \in Tasks, OtherStart(t)
  PROVE  ChainInv'
<1> DEFINE c == [main |-> main, work |-> {}]
           r == [state |-> "WORK", rev |-> 1, base |-> c, head |-> c]
<1>1. WorldTyped /\ ~held /\ record[t].state = "NONE"
  BY TypesSplit DEF BlockInv, OtherStart
<1>2. worktree'[t] = c
  BY <1>1 DEF OtherStart, WorldTyped
<1>3. record' = [record EXCEPT ![t] = r]
  BY <1>2 DEF OtherStart
<1>4. c \in Commit /\ main \in Nat
  BY <1>1, Bounds DEF WorldTyped, Commit
<1>5. r \in Records /\ r.base = c /\ r.head = c /\ r.state = "WORK" /\ c.main = main
  BY <1>4, Bounds DEF Records, States, InFlight
<1>6. UNCHANGED <<main, ledger, reading, runBase, held, pc, now>>
  BY DEF OtherStart, rest
<1>7. reading.deps[t] = {}
  <2>1. PICK ro \in Roadmaps : ro.deps[t] \subseteq ro.done
    BY DEF OtherStart
  <2>2. ro = reading /\ reading \in Readings
    BY <2>1, OnesOwnRoadmap, TypesSplit DEF BlockInv, RunTyped
  <2> QED BY <2>1, <2>2 DEF OneRoadmap
<1>8. Chained(t)'
  <2>1. Frozen(t)' = Frozen(t) /\ Frozen(t) = {}
    BY <1>6, <1>7, FrozenStands, NothingFrozen
  <2> QED BY <2>1 DEF Chained
<1> HIDE DEF r, c
<1>9. Commits' /\ \A u \in Tasks : Chained(u)'
  <2>1. r.base.main <= main /\ r.head \in {r.base, With(r.base, t)} /\ r.state # "NONE"
    BY <1>4, <1>5
  <2> QED BY <1>1, <1>3, <1>5, <1>6, <1>8, <2>1, ChainRecord
<1>10. Frozen(now)' = Frozen(now)
  BY <1>6, DependenciesStand
<1>11. Driving'
  <2> SUFFICES ASSUME pc \in {"activate", "drive", "record"} PROVE record'[now] = record[now]
    BY <1>6, <1>10 DEF ChainInv, Driving
  <2>1. now \in Tasks /\ now # t
    BY <1>1 DEF BlockInv, Position, ChainInv, Driving
  <2> QED BY <1>1, <1>3, <2>1 DEF WorldTyped
<1>12. Starting'
  BY <1>1, <1>6 DEF Starting
<1> QED BY <1>9, <1>11, <1>12 DEF ChainInv

LEMMA ChainSteps ==
  ASSUME BlockInv, ChainInv, Work \/ \E t \in Tasks : OtherDrive(t) \/ Resolve(t)
  PROVE  ChainInv'
<1>1. CASE Work
  <2>1. now \in Tasks /\ pc = "drive" /\ record[now].state \in InFlight
    BY <1>1 DEF Work, CanWork, BlockInv, Position
  <2>2. PICK state \in {"WORK", "BLOCKED", "READY"} : Saved(now, state)
    BY <1>1 DEF Work, InFlight
  <2>3. UNCHANGED <<worktree, main, ledger, reading, runBase, held, pc, now>>
    BY <1>1 DEF Work
  <2> QED BY <2>1, <2>2, <2>3, ChainSaved
<1>2. ASSUME NEW t \in Tasks, OtherDrive(t) \/ Resolve(t) PROVE ChainInv'
  <2>1. PICK state \in {"WORK", "BLOCKED", "READY", "RESOLVED"} : Saved(t, state)
    BY <1>2 DEF OtherDrive, Resolve, InFlight
  <2>2. /\ record[t].state \in InFlight /\ ~held
        /\ UNCHANGED <<worktree, main, ledger, reading, runBase, held, pc, now>>
    BY <1>2 DEF OtherDrive, Resolve, CanWork, InFlight, rest
  <2> QED BY <2>1, <2>2, ChainSaved
<1> QED BY <1>1, <1>2

LEMMA ChainLeaseAndMain ==
  ASSUME BlockInv, ChainInv, LoseLease \/ MainAdvances \/ UNCHANGED vars
  PROVE  ChainInv'
<1>1. /\ UNCHANGED <<record, worktree, ledger, reading, runBase, pc, now>>
      /\ main' \in Nat /\ main <= main' /\ (held' => held)
  <2>1. main \in Nat
    BY TypesSplit, Bounds DEF BlockInv, WorldTyped
  <2> QED BY <2>1 DEF LoseLease, MainAdvances, rest, vars
<1>2. Commits' /\ \A t \in Tasks : Chained(t)'
  BY <1>1, ChainStands
<1>3. Frozen(now)' = Frozen(now) /\ Maxima(now)' = Maxima(now)
  BY <1>1, DependenciesStand
<1>4. Base' = Base
  BY <1>1, <1>3 DEF Base, Candidate
<1>5. ChainProven' = ChainProven
  BY <1>1, <1>3 DEF ChainProven, Candidate, Settled, Anchors, Roots, Frozen
<1>6. Starting'
  BY <1>1, <1>3, <1>4, <1>5 DEF ChainInv, Starting
<1>7. Driving'
  BY <1>1, <1>3 DEF ChainInv, Driving
<1> QED BY <1>2, <1>6, <1>7 DEF ChainInv

LEMMA ChainStep == OneRoadmap /\ BlockInv /\ ChainInv /\ [Next]_vars => ChainInv'
<1> SUFFICES ASSUME OneRoadmap, BlockInv, ChainInv, [Next]_vars PROVE ChainInv'
  OBVIOUS
<1>1. CASE StartRun
  BY <1>1, ChainStartRun
<1>2. CASE Runner \/ Crash
  BY <1>2, ChainPassing, ChainChoose, ChainMayStart, ChainSaveFirst, ChainActive, ChainSteps
  DEF Runner
<1>3. CASE Others
  BY <1>3, ChainLeaseAndMain, ChainOtherStart, ChainSteps, ChainDamage DEF Others
<1>4. CASE UNCHANGED vars
  BY <1>4, ChainLeaseAndMain
<1> QED BY <1>1, <1>2, <1>3, <1>4 DEF Next

LEMMA ChainInvHolds == Spec => [](OneRoadmap => ChainInv)
<1>1. Init => (OneRoadmap => ChainInv)
  BY ChainInit
<1>2. BlockInv /\ (OneRoadmap => ChainInv) /\ [Next]_vars => (OneRoadmap => ChainInv)'
  BY ChainStep DEF OneRoadmap
<1> QED BY <1>1, <1>2, BlockInvHolds, PTL DEF Spec

-----------------------------------------------------------------------------
(* The theorems                                                            *)

\* Every reachable state of the runner, its ledger and the records has its type.
THEOREM BlockTypesHold == Spec => []TypeOK
<1>1. BlockInv => TypeOK
  BY DEF BlockInv
<1> QED BY <1>1, BlockInvHolds, PTL

\* Under the lease nothing the run has written is contradicted by a readable record:
\* recordingResultFor and the proof of every entry before a write of block-ledger.ts.
THEOREM LedgerIsTrue == Spec => []LedgerHoldsUnderLease
<1>1. BlockInv => LedgerHoldsUnderLease
  BY DEF BlockInv
<1> QED BY <1>1, BlockInvHolds, PTL

(***************************************************************************)
(* COMPLETE and TASK_BLOCKED are true of the records at the moment they are     *)
(* reported: no other step reports them, and stopBlockRun proves every entry    *)
(* of the ledger once more before it writes one of them.                       *)
(***************************************************************************)
LEMMA StopIsTrue ==
  ASSUME BlockInv, Stop(EndReason)
  PROVE  ReasonTrue
<1>1. CASE outcome' = "DURABLE_WRITE_FAILED"
  BY <1>1 DEF ReasonTrue
<1>2. CASE /\ ~(EndReason \in ProgressClaiming /\ (ledger.active # None \/ Unproven(ledger.task) # {}))
           /\ outcome' = EndReason
  <2>1. ASSUME EndReason \in ProgressClaiming, NEW t \in Tasks, ledger.task[t].disp # "PLANNED"
        PROVE  /\ Supports(t, ledger.task[t].disp)
               /\ ledger.task[t] = Claim(t, ledger.task[t].disp)
    BY <1>2, <2>1 DEF Unproven, Proved, NoClaim
  <2>2. CASE outcome' = "COMPLETE"
    <3>1. \A t \in Tasks : ledger.task[t].disp = "SETTLED"
      BY <1>2, <2>2 DEF EndReason
    <3>2. EndReason \in ProgressClaiming
      BY <1>2, <2>2 DEF ProgressClaiming
    <3>3. ASSUME NEW t \in Tasks
          PROVE  record[t].state = "READY" /\ ledger.task[t].result = record[t].head
      <4>1. Supports(t, "SETTLED") /\ ledger.task[t] = Claim(t, "SETTLED")
        BY <2>1, <3>1, <3>2
      <4> QED BY <4>1 DEF Supports, Claim
    <3> QED BY <2>2, <3>3 DEF ReasonTrue
  <2>3. CASE outcome' = "TASK_BLOCKED"
    <3>1. PICK t \in Tasks : ledger.task[t].disp = "BLOCKED"
      BY <1>2, <2>3 DEF EndReason
    <3>2. EndReason \in ProgressClaiming
      BY <1>2, <2>3 DEF ProgressClaiming
    <3>3. record[t].state = "BLOCKED"
      <4>1. Supports(t, "BLOCKED")
        BY <2>1, <3>1, <3>2
      <4> QED BY <4>1 DEF Supports
    <3> QED BY <2>3, <3>3 DEF ReasonTrue
  <2> QED BY <2>2, <2>3 DEF ReasonTrue
<1> QED BY <1>1, <1>2 DEF Stop, End

LEMMA OtherStopIsTrue ==
  ASSUME NEW reason, reason \notin ProgressClaiming, Stop(reason)
  PROVE  ReasonTrue
  BY DEF Stop, End, ProgressClaiming, ReasonTrue

LEMMA StepReports == BlockInv /\ [Next]_vars => ReasonTrue
<1> SUFFICES ASSUME BlockInv, [Next]_vars PROVE ReasonTrue
  OBVIOUS
<1>1. CASE NothingLeft \/ FailureStops
  BY <1>1, StopIsTrue DEF NothingLeft, FailureStops
<1>2. CASE RecordsDiverge
  BY <1>2, OtherStopIsTrue DEF RecordsDiverge, ProgressClaiming
<1>3. CASE ApplyForced
  <2>1. CASE Stop("STATE_UNUSABLE")
    BY <2>1, OtherStopIsTrue DEF ProgressClaiming
  <2>2. CASE outcome' \in {outcome, "DURABLE_WRITE_FAILED", "RECONCILIATION_UNRESOLVED"}
    BY <2>2 DEF ReasonTrue
  <2> QED BY <1>3, <2>1, <2>2 DEF ApplyForced, Goto, End
<1>4. CASE StartUnusable \/ Unresolved
  BY <1>4, OtherStopIsTrue DEF StartUnusable, Unresolved, ProgressClaiming
<1>5. CASE Activate \/ Record
  <2>1. PICK disp, then : Write(disp, then)
    BY <1>5 DEF Activate, Record
  <2>2. CASE Stop("STATE_UNUSABLE") \/ Stop("ACTIVE_TASK_UNRESOLVED")
    BY <2>2, OtherStopIsTrue DEF ProgressClaiming
  <2>3. CASE outcome' \in {outcome, "DURABLE_WRITE_FAILED"}
    BY <2>3 DEF ReasonTrue
  <2> QED BY <2>1, <2>2, <2>3 DEF Write, Goto, End
<1>6. CASE LeaseUncertain \/ StartRefused \/ SaveFirst \/ Crash
  <2>1. outcome' \in {outcome, "LEASE_AUTHORITY_UNCERTAIN", "RUN_GATE_REFUSED", "CRASHED"}
    BY <1>6 DEF LeaseUncertain, StartRefused, SaveFirst, Crash, Goto, End
  <2> QED BY <2>1 DEF ReasonTrue
<1>7. CASE StartRun
  BY <1>7 DEF StartRun, ReasonTrue
<1>8. CASE \/ RecordsAgree \/ Choose \/ AlreadyStarted \/ Prepare \/ Work \/ RunReturns
           \/ Continue \/ NextMember \/ Others \/ UNCHANGED vars
  <2>1. outcome' = outcome
    BY <1>8 DEF RecordsAgree, Choose, AlreadyStarted, Prepare, Work, RunReturns, Continue,
       NextMember, Goto, Others, LoseLease, MainAdvances, OtherStart, OtherDrive, Resolve,
       Damage, rest, vars
  <2> QED BY <2>1 DEF ReasonTrue
<1> QED BY <1>1, <1>2, <1>3, <1>4, <1>5, <1>6, <1>7, <1>8 DEF Next, Runner

THEOREM ReasonsAreTrue == Spec => ReasonIsTrueOfTheRecords
<1>1. BlockInv /\ [Next]_vars => [ReasonTrue]_vars
  BY StepReports
<1>2. ReasonIsTrueOfTheRecords <=> [][ReasonTrue]_vars
  BY DEF ReasonIsTrueOfTheRecords, ReasonTrue
<1> QED BY <1>1, <1>2, BlockInvHolds, PTL DEF Spec

\* A dependent member is driven on the work of its dependencies (proveChainBase),
\* for any number of members, runs and advances, where the roadmap is not edited.
THEOREM DependentsAreBuiltOnDependencies == Spec => [](OneRoadmap => BuiltOnDependencies)
<1>1. (OneRoadmap => ChainInv) => (OneRoadmap => BuiltOnDependencies)
  BY DEF ChainInv, Driving, BuiltOnDependencies
<1> QED BY <1>1, ChainInvHolds, PTL
=============================================================================
