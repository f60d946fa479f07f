---------------------------- MODULE CommandService ----------------------------
(***************************************************************************)
(* What the commands of a pull request can count on, whoever scans, works, *)
(* fails or dies (docs/maintainer-commands.md, and the comment on the      *)
(* cooldown in scheduler.ts): a command that was carried out stays carried *)
(* out; those of an author outside the trusted ones are carried out within *)
(* the author's windows; only a review command leads to a review, after it *)
(* was recorded, and to one.                                               *)
(***************************************************************************)
EXTENDS Naturals, Sequences, FiniteSets

CONSTANTS
  Comments,
  Authors,
  Actions,
  Guests  \* authors that are rate limited

VARIABLES
  thread,   \* the commands in the order they were written (external)
  carried,  \* the commands carried out
  reviews,  \* of each command: the reviews it led to
  opened    \* of each guest: the windows opened

ServiceInit ==
  /\ thread = <<>>
  /\ carried = {}
  /\ reviews = [c \in Comments |-> 0]
  /\ opened = [g \in Guests |-> 0]

Write ==
  /\ \E author \in Authors, action \in Actions :
       thread' = Append(thread, [by |-> author, action |-> action])
  /\ UNCHANGED <<carried, reviews, opened>>

Open(g) ==
  /\ opened' = [opened EXCEPT ![g] = @ + 1]
  /\ UNCHANGED <<thread, carried, reviews>>

CarriedFor(g) == {c \in carried : thread[c].by = g}

CarryOut(c) ==
  /\ c \in 1..Len(thread)
  /\ c \notin carried
  /\ \A g \in Guests : thread[c].by = g => Cardinality(CarriedFor(g)) < opened[g]
  /\ carried' = carried \cup {c}
  /\ UNCHANGED <<thread, reviews, opened>>

Review(c) ==
  /\ c \in carried
  /\ thread[c].action = "review"
  /\ reviews[c] = 0
  /\ reviews' = [reviews EXCEPT ![c] = 1]
  /\ UNCHANGED <<thread, carried, opened>>

ServiceNext ==
  \/ Write
  \/ \E g \in Guests : Open(g)
  \/ \E c \in Comments : CarryOut(c) \/ Review(c)

ServiceSpec == ServiceInit /\ [][ServiceNext]_<<thread, carried, reviews, opened>>
==============================================================================
