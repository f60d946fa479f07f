--------------------------- MODULE MCCommandIntake ---------------------------
(***************************************************************************)
(* CommandIntake for TLC: one process, an owner and a guest, two comments  *)
(* and two heads.                                                          *)
(***************************************************************************)
EXTENDS CommandIntake

\* To keep the graph small: nothing fails where both an owner and a guest write.
SameAuthorOrNoFailure == By(Guests) = {} \/ By(Owners) = {} \/ failures = 0

==============================================================================
