---------------------------- MODULE MCReviewQueue ----------------------------
\* TLC's instances of ReviewQueue: a pull request of the bot's own repository
\* and one of another, in one organisation and of one provider.
EXTENDS ReviewQueue, TLC

CONSTANTS h1, h2, repoA, repoB, org, zai

MCRepo == [h \in Heads |-> IF h = h1 THEN repoA ELSE repoB]
MCOrg == [h \in Heads |-> org]
MCOneProvider == [h \in Heads |-> zai]

MCAutoClass == [h \in Heads |-> IF h = h1 THEN "self" ELSE "background"]

Symmetry == Permutations(Runners)

\* Nothing is promised of jobs that were taken from those who worked on them:
\* once all of them were, there is nothing left to check.
NotAllTaken == overridden # JobIds
==============================================================================
