-------------------------- MODULE MCSeedOrchestrator --------------------------
\* Model checking of SeedOrchestrator.
EXTENDS SeedOrchestrator
=============================================================================
