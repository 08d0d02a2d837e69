------------------------- MODULE MCAttentionOutbox -------------------------
(* Two invocations share the second repository; only the first drives the   *)
(* first one, whose runs may meet a condition.  Or both drive one.          *)
EXTENDS AttentionOutbox, TLC

CONSTANTS i1, i2

MCInvocations == {i1, i2}
MCMoves == <<0, 1>>
MCStill == <<0>>
MCBoth == (i1 :> {1}) @@ (i2 :> {1})
MCEnlisted == (i1 :> {1, 2}) @@ (i2 :> {2})

=============================================================================
