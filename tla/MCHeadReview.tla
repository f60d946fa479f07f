----------------------------- MODULE MCHeadReview -----------------------------
\* TLC's instance of HeadReview: workers and revisions are symmetric.
EXTENDS HeadReview, TLC

Symmetry == Permutations(Workers) \cup Permutations(Revs)

\* Only dry runs and approved transitions are told apart by their revision,
\* and until they have posted; past the claim only the kinds that end in
\* another way matter; what a worker read matters where it is acted upon.
\* No guard, write or property reads more of an invocation.
View ==
  <<storeVars, pc, retiring, history,
    [w \in Workers |->
       <<IF \/ pc[w] \in {"checked", "working", "claimed"}
            \/ kind[w] \in {"retry"} \cup DirectKinds
           THEN kind[w] ELSE "none",
         IF pc[w] \in {"working", "claimed"} /\ kind[w] \in DryKinds \cup {"approved"}
           THEN wrev[w] ELSE NoRev,
         IF \/ pc[w] \in {"writing", "deferring"}
            \/ kind[w] = "retry" /\ pc[w] \notin {"failing", "throttled"}
           THEN seen[w] ELSE "none">>]>>
==============================================================================
