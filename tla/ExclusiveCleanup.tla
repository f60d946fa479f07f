--------------------------- MODULE ExclusiveCleanup ---------------------------
(***************************************************************************)
(* What the lease table and the cleanup guard are there for: on one host,  *)
(* cleanup preserves the worktrees of active runs (docs/SETUP.md) and the  *)
(* runs stay below the configured limit.  It is a readers-writer lock: a   *)
(* review enters, below the limit, only while nothing is being removed;    *)
(* a removal starts only when nobody reviews and nothing else is being     *)
(* removed.  Reviews may leave together: the process they run in dies.     *)
(***************************************************************************)
EXTENDS Naturals, FiniteSets

CONSTANTS Workers, Procs, MaxRuns

VARIABLES
  reviewing,  \* reviews in progress under a lease that still holds
  removing    \* processes that remove a worktree under a guard that still holds

ExclusionInit == reviewing = {} /\ removing = {}

Enter(w) ==
  /\ removing = {}
  /\ w \notin reviewing
  /\ Cardinality(reviewing) < MaxRuns
  /\ reviewing' = reviewing \cup {w}
  /\ UNCHANGED removing

Leave ==
  /\ reviewing' \in SUBSET reviewing
  /\ UNCHANGED removing

Remove(p) ==
  /\ reviewing = {} /\ removing = {}
  /\ removing' = {p}
  /\ UNCHANGED reviewing

EndOfRemoval ==
  /\ removing' = {}
  /\ UNCHANGED reviewing

ExclusionNext ==
  \/ \E w \in Workers : Enter(w)
  \/ \E p \in Procs : Remove(p)
  \/ Leave
  \/ EndOfRemoval

ExclusionSpec == ExclusionInit /\ [][ExclusionNext]_<<reviewing, removing>>
==============================================================================
