--------------------------- MODULE MCEnrichmentLane ---------------------------
\* TLC's instances of EnrichmentLane.  The first edit of an issue changes what
\* the bot says of it, and the second takes that back.
EXTENDS EnrichmentLane

MCBody == [v \in 0..MaxEdits |-> IF v = 1 THEN "after" ELSE "before"]
==============================================================================
