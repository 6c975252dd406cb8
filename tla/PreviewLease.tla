---------------------------- MODULE PreviewLease ----------------------------
(***************************************************************************)
(* What Local Preview promises, without requests, queues or Workers: each  *)
(* compilation has one lease, a run has a runtime only while it holds the  *)
(* lease of a compilation, and a lease ends only when its holder's runtime *)
(* is down.  A run that gave its lease up never gets one again.            *)
(***************************************************************************)
CONSTANTS Runs, Compilations, None

VARIABLES
  holder,   \* the run that holds each compilation's lease, or None
  live,     \* runs with a runtime
  ended     \* runs that gave their lease up

vars == <<holder, live, ended>>

Holds(r) == \E c \in Compilations : holder[c] = r

Init ==
  /\ holder = [c \in Compilations |-> None]
  /\ live = {}
  /\ ended = {}

Acquire(c, r) ==
  /\ holder[c] = None
  /\ ~Holds(r) /\ r \notin ended
  /\ holder' = [holder EXCEPT ![c] = r]
  /\ UNCHANGED <<live, ended>>

Launch(r) ==
  /\ Holds(r)
  /\ live' = live \cup {r}
  /\ UNCHANGED <<holder, ended>>

TakeDown(r) ==
  /\ live' = live \ {r}
  /\ UNCHANGED <<holder, ended>>

Release(c, r) ==
  /\ holder[c] = r
  /\ r \notin live
  /\ holder' = [holder EXCEPT ![c] = None]
  /\ ended' = ended \cup {r}
  /\ UNCHANGED live

Next ==
  \/ \E c \in Compilations, r \in Runs : Acquire(c, r) \/ Release(c, r)
  \/ \E r \in Runs : Launch(r) \/ TakeDown(r)

Spec == Init /\ [][Next]_vars
=============================================================================
