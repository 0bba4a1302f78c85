---------------------------- MODULE OnceDelivery ----------------------------
(***************************************************************************)
(* What the indication stream promises its clients: whatever is raised is  *)
(* owed to them until it is told, and it is told at most once, however     *)
(* often connections break and are made again in between.  Nothing is said *)
(* about the order: an indication whose delivery failed is owed again.     *)
(***************************************************************************)
EXTENDS Naturals

VARIABLES
  owed,  \* raised and not yet told; numbered in the order of the raising
  told   \* told to a client

Init == owed = {} /\ told = {}

Raise(i) ==
  /\ \A j \in owed \cup told : j < i
  /\ owed' = owed \cup {i}
  /\ told' = told

Tell(i) ==
  /\ i \in owed
  /\ owed' = owed \ {i}
  /\ told' = told \cup {i}

Next == \/ \E i \in owed' \ owed : Raise(i)
        \/ \E i \in owed : Tell(i)

Spec == Init /\ [][Next]_<<owed, told>>
=============================================================================
