------------------------ MODULE MCSubscriptionLicense ------------------------
\* TLC's instance of SubscriptionLicense: workers are symmetric.
EXTENDS SubscriptionLicense, TLC

Symmetry == Permutations(Workers)
==============================================================================
