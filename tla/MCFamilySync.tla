--------------------------- MODULE MCFamilySync ---------------------------
(***************************************************************************)
(* Scenarios for FamilySync.  Messages are numbered by age; c1 is the      *)
(* primary person, c2 a dependent.                                         *)
(***************************************************************************)
EXTENDS FamilySync, TLC

CONSTANTS c1, c2

MCTimestamp == [m \in Message |-> m]

\* The account and the primary person change once.
MCAccountOf == [m \in Message |-> IF m = 1 THEN "a" ELSE "b"]

\* The dependent is added by message 2 and stays.
MCGrowingPeople ==
  [m \in Message |-> [c \in Contact |->
     IF c = c1 THEN MCAccountOf[m] ELSE IF m = 1 THEN NoData ELSE "a"]]

\* The dependent leaves with message 3 and stays away.
MCLeavingPeople ==
  [m \in Message |-> [c \in Contact |->
     IF c = c1 THEN MCAccountOf[m] ELSE IF m >= 3 THEN NoData ELSE "a"]]

\* The dependent leaves with message 2 and comes back with message 3.
MCReturningPeople ==
  [m \in Message |-> [c \in Contact |->
     IF c = c1 THEN MCAccountOf[m] ELSE IF m = 2 THEN NoData ELSE "a"]]

\* Every message carries the same people.
MCUnchangedPeople == [m \in Message |-> [c \in Contact |-> "a"]]

Symmetry == Permutations(Worker)
===========================================================================
