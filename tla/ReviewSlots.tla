----------------------------- MODULE ReviewSlots -----------------------------
(***************************************************************************)
(* What the queue is for (tests/state.test.ts: it "leases bounded queue    *)
(* jobs by provider org repo"): reviews of distinct heads in slots.  A     *)
(* job takes a slot only while it is unsettled, nobody reviews its head    *)
(* and the global, provider, organisation and repository limits leave      *)
(* room; jobs let go of their slots in any number; and a posted or retired *)
(* job remains so.  Nothing is promised of a job that was taken from the   *)
(* runner that reviews it.                                                 *)
(***************************************************************************)
EXTENDS Naturals, FiniteSets

CONSTANTS
  Jobs,
  Repo, Org, Provider,  \* of each head
  MaxActive, MaxProvider, MaxOrg, MaxRepo

VARIABLES
  head,       \* of each job
  reviewing,  \* jobs under review by the runner that leased them
  outcome,    \* of each job: open, posted or retired
  taken       \* jobs taken from their runner, or written over

SlotsInit ==
  /\ reviewing = {}
  /\ outcome = [j \in Jobs |-> "open"]
  /\ taken = {}

InUse(f, h) == Cardinality({j \in reviewing : f[head[j]] = f[h]})

Take(j) ==
  /\ j \notin reviewing \cup taken
  /\ outcome[j] = "open"
  /\ \A k \in reviewing : head[k] # head[j]
  /\ Cardinality(reviewing) < MaxActive
  /\ InUse(Provider, head[j]) < MaxProvider
  /\ InUse(Org, head[j]) < MaxOrg
  /\ InUse(Repo, head[j]) < MaxRepo
  /\ reviewing' = reviewing \cup {j}
  /\ UNCHANGED <<head, outcome, taken>>

LetGo ==
  /\ taken \subseteq taken'
  /\ reviewing' \subseteq reviewing \ taken'
  /\ \A j \in reviewing : head'[j] = head[j]
  /\ \A j \in Jobs \ taken' : outcome[j] # "open" => outcome'[j] = outcome[j]

SlotsNext == LetGo \/ \E j \in Jobs : Take(j)

SlotsSpec == SlotsInit /\ [][SlotsNext]_<<head, reviewing, outcome, taken>>
==============================================================================
