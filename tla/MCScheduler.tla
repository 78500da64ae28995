---------------------------- MODULE MCScheduler ----------------------------
EXTENDS Scheduler

\* Every controller registers every job.
Everywhere == [c \in Controller |-> Job]
=============================================================================
