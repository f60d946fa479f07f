----------------------------- MODULE Entitlement -----------------------------
(***************************************************************************)
(* What the license service promises of a subscription's entitlement       *)
(* (services/license-api/docs/subscription-lifecycle.md): it is issued     *)
(* once; from then on its time is only ever extended; its key is handed    *)
(* out only while it is active; and once it is revoked nothing changes it. *)
(***************************************************************************)
EXTENDS Naturals

CONSTANT Subs
VARIABLES status, expires, redeemed

entitlement == <<status, expires, redeemed>>

EntitlementInit ==
  /\ status = [s \in Subs |-> "none"]
  /\ expires = [s \in Subs |-> 0]
  /\ redeemed = [s \in Subs |-> FALSE]

\* The new expiry is one of times.
SetExpiry(s, times) ==
  /\ expires'[s] \in times
  /\ expires' = [expires EXCEPT ![s] = expires'[s]]

Issue(s) ==
  /\ status[s] = "none"
  /\ status' = [status EXCEPT ![s] = "active"]
  /\ SetExpiry(s, Nat)
  /\ UNCHANGED redeemed

Extend(s) ==
  /\ status[s] = "active"
  /\ SetExpiry(s, Nat \ 0..expires[s])
  /\ UNCHANGED <<status, redeemed>>

HandOut(s) ==
  /\ status[s] = "active"
  /\ redeemed' = [redeemed EXCEPT ![s] = TRUE]
  /\ UNCHANGED <<status, expires>>

\* Its time ends where the provider says, or where the administrator found it.
Revoke(s) ==
  /\ status[s] = "active"
  /\ status' = [status EXCEPT ![s] = "revoked"]
  /\ SetExpiry(s, Nat)
  /\ UNCHANGED redeemed

EntitlementNext == \E s \in Subs : Issue(s) \/ Extend(s) \/ HandOut(s) \/ Revoke(s)

EntitlementSpec == EntitlementInit /\ [][EntitlementNext]_entitlement
==============================================================================
