-------------------------- MODULE DeliveryPromise --------------------------
(* What the records beside a task promise about its delivery, whoever      *)
(* writes them and in however many calls: the receipt names the one merge  *)
(* of this delivery there has been, attempts are only added, never after a *)
(* pass under the same profile, and a conclusion is only ever reached over *)
(* a pass. None of these is taken back. A conclusion may be reached again, *)
(* under another profile that passed: nothing locks it, and of two calls   *)
(* that both found none written, the second rename wins.                   *)
(* (src/deliver/merge-reconciliation.ts, post-merge-verification.ts,       *)
(* delivery-conclusion.ts)                                                 *)
EXTENDS Integers, Sequences

CONSTANTS None, Numbers, Profiles, MaxAttempts

VARIABLES
  merged,     \* pull requests merged at the task's commit into the task's base
  receipt, history, concluded

vars == <<merged, receipt, history, concluded>>

Passed(p) == \E i \in DOMAIN history : history[i] = [profile |-> p, verdict |-> "VERIFIED_PASS"]

Init == merged = {} /\ receipt = None /\ history = <<>> /\ concluded = None

Merge(n) == /\ merged' = merged \cup {n}
            /\ UNCHANGED <<receipt, history, concluded>>

Record(n) == /\ receipt = None /\ n \in merged
             /\ receipt' = n
             /\ UNCHANGED <<merged, history, concluded>>

Verify(p, v) == /\ receipt # None /\ ~Passed(p) /\ Len(history) < MaxAttempts
                /\ history' = Append(history, [profile |-> p, verdict |-> v])
                /\ UNCHANGED <<merged, receipt, concluded>>

Conclude(p) == /\ receipt # None /\ Passed(p)
               /\ concluded' = p
               /\ UNCHANGED <<merged, receipt, history>>

Next == \/ \E n \in Numbers : Merge(n) \/ Record(n)
        \/ \E p \in Profiles : \/ Conclude(p)
                               \/ \E v \in {"VERIFIED_PASS", "VERIFIED_FAIL",
                                            "VERIFICATION_NOT_ESTABLISHED"} : Verify(p, v)

Spec == Init /\ [][Next]_vars
============================================================================
