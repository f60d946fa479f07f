------------------------ MODULE MCAuthorizationLedger ------------------------
(***************************************************************************)
(* TLC's instance of AuthorizationLedger.  Workers and requests are        *)
(* symmetric.  View leaves out what no later step and no property reads:   *)
(* how an ordinary review was started, once it holds the claim; the look   *)
(* at the comment that LookUpAgain repeats; what was posted, once it is    *)
(* recorded; and why a job that never runs again and was not refused ended.*)
(***************************************************************************)
EXTENDS AuthorizationLedger, TLC

Symmetry == Permutations(Workers) \cup Permutations(Requests)

Kind(w) == IF pc[w] # "working" /\ run[w].cmd \in Ordinary THEN "daemon" ELSE run[w].cmd

Known(w) ==
  CASE pc[w] = "claimed"  -> <<>>
    [] pc[w] = "settling" -> <<run[w].keep = "verified">>
    [] OTHER -> [run[w] EXCEPT !.cmd = NoRequest]

View ==
  <<storeVars, event, unsure, ledger, pc, public, lost,
    [c \in Requests |-> IF job[c] = "ignored" THEN "ended" ELSE job[c]],
    [w \in Workers |-> <<Kind(w), Known(w)>>]>>
==============================================================================
