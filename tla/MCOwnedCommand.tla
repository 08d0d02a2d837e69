--------------------------- MODULE MCOwnedCommand ---------------------------
\* A model-checking instance of OwnedCommand.  One piece of input tells none
\* from the whole, and two faults meet in every pair that matters: a refusal
\* and the loss of its report, a status not written and a kill that is ignored.
EXTENDS OwnedCommand

BothModes == {"JOBLIST", "SUSPENDED"}
=============================================================================
