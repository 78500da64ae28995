---------------------------- MODULE MCWorkerAuth ----------------------------
(* The instance of WorkerAuth for TLC is in the configuration: keys are    *)
(* used in one fixed order, which replaces a symmetry set.                 *)
EXTENDS WorkerAuth

\* Bound: two rotations of the roots overlap only before the worker connects.
\* From then on one of them is enough to move the roots under the credentials
\* that are being stored.
OneRotatorOnceLinked ==
    (\A r \in Rotator : rotate[r].pc # "idle") => links = 0

=============================================================================
