--------------------------- MODULE MCRecurringRuns ---------------------------
EXTENDS RecurringRunsProperties
=============================================================================
