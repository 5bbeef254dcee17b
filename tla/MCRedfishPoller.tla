-------------------------- MODULE MCRedfishPoller --------------------------
(***************************************************************************)
(* Small instances of RedfishPoller for TLC.                               *)
(***************************************************************************)
EXTENDS RedfishPoller, TLC

\* Requests, clients and Locks are only told apart by what they do.
Names == Permutations(Requests) \cup Permutations(Clients) \cup Permutations(Locks)

\* What the clients depend on: no step of theirs reads a poll status, but for
\* the choice between "later" and "backoff", which both become "due".
ClientView ==
    <<active, loop, view, [t \in Targets |-> IF sched[t] = "backoff" THEN "later" ELSE sched[t]],
      poll, clients, phase>>
=============================================================================
