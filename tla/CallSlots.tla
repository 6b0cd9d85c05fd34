----------------------------- MODULE CallSlots -----------------------------
(***************************************************************************)
(* What the outbound dialer promises of a campaign's max_concurrent: a     *)
(* pool of Size call slots.  A call takes a slot at most once, while one   *)
(* is free, and gives it back once; several calls may end at a time.       *)
(***************************************************************************)
EXTENDS Integers, FiniteSets

CONSTANTS Slot,   \* the calls that may ever be made
          Size    \* how many may be made at a time

VARIABLES held,   \* calls that hold a slot
          used    \* calls that have ever taken one

Init == held = {} /\ used = {}

Acquire(s) ==
  /\ s \in Slot \ used
  /\ Cardinality(held) < Size
  /\ held' = held \cup {s}
  /\ used' = used \cup {s}

Release(S) ==
  /\ S # {}
  /\ held' = held \ S
  /\ UNCHANGED used

Next ==
  \/ \E s \in Slot : Acquire(s)
  \/ \E S \in SUBSET held : Release(S)

Spec == Init /\ [][Next]_<<held, used>>
=============================================================================
