----------------------------- MODULE MCBlockRun -----------------------------
\* Model-checking instances of BlockRun: a root, a member that depends on it, and
\* a member that depends on that one, on nothing, or on a task outside the block.
EXTENDS BlockRun, TLC

CONSTANTS a, b, c
MCTasks == {a, b, c}
MCOrder == <<a, b, c>>
MCDamageable == {b}
MCLegacy == {c}
Relation(bs, cs) == a :> {} @@ b :> bs @@ c :> cs
Plan(bs, cs) == [deps |-> Relation(bs, cs), done |-> {}, outside |-> {}]

Waits == [deps |-> Relation({a}, {}), done |-> {}, outside |-> {c}]

Plans == {Plan({a}, {b}), Plan({a}, {}), Plan({}, {}), Plan({}, {a, b}), Waits}
=============================================================================
