----------------------------- MODULE MCScheduler -----------------------------
EXTENDS SchedulerProperties
==============================================================================
