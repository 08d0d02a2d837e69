--------------------------- MODULE MCReviewerGate ---------------------------
\* Three repositories reviewed through one gate: one call in flight, one that
\* waits for it, and one that waits for the waiting one.
EXTENDS ReviewerGate

CONSTANTS a, b, c
MCTask == {a, b, c}
=============================================================================
