------------------------------ MODULE SlotQueue ------------------------------
(***************************************************************************)
(* What the object manager promises about one type of transfer: transfers  *)
(* wait, take one of N slots in the order of their arrival, and give the   *)
(* slot up at most once and for good.  Transfers are numbered in the order *)
(* in which they arrive.                                                   *)
(***************************************************************************)
EXTENDS Integers, FiniteSets

CONSTANTS Ids,    \* the transfers, numbers
          N       \* how many of them may hold a slot at a time

VARIABLES waiting,    \* queued, holding no slot yet
          holding,    \* holding a slot
          released    \* gave their slot up

vars == <<waiting, holding, released>>

Init == waiting = {} /\ holding = {} /\ released = {}

(* New transfers arrive behind every known one. *)
Enqueue(S) ==
  /\ \A i \in S, j \in waiting \cup holding \cup released : j < i
  /\ waiting' = waiting \cup S
  /\ UNCHANGED <<holding, released>>

(* The oldest waiting transfers take free slots. *)
Take(S) ==
  /\ \A i \in S, j \in waiting \ S : i < j
  /\ Cardinality(holding \cup S) <= N
  /\ waiting' = waiting \ S
  /\ holding' = holding \cup S
  /\ UNCHANGED released

Release(i) ==
  /\ holding' = holding \ {i}
  /\ released' = released \cup {i}
  /\ UNCHANGED waiting

Next == \/ \E S \in SUBSET Ids : Enqueue(S)
        \/ \E S \in SUBSET waiting : Take(S)
        \/ \E i \in holding : Release(i)

Spec == Init /\ [][Next]_vars
=============================================================================
