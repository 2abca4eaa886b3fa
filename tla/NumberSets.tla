----------------------------- MODULE NumberSets -----------------------------
(***************************************************************************)
(* What set.h promises: sets of numbers below a maximum size fixed when    *)
(* the set is created, with the usual operations between sets of the same  *)
(* maximum size.                                                           *)
(***************************************************************************)
EXTENDS Integers

CONSTANTS
  Handles,   \* the set variables of a client
  Sizes,     \* maximum sizes it creates sets with
  FullSizes  \* those it creates full sets with

Undefined == [size |-> -1, members |-> {}]

VARIABLE contents  \* a size and the members, for each handle

Set(n, m) == [size |-> n, members |-> m]
Compatible(a, b) == contents[a].size = contents[b].size /\ contents[a].size >= 0

Init == contents = [h \in Handles |-> Undefined]

Put(h, s) == contents' = [contents EXCEPT ![h] = s]

Create(h) == \/ \E n \in Sizes : Put(h, Set(n, {}))
             \/ \E n \in FullSizes : Put(h, Set(n, 0 .. n - 1))

Change(h) ==
  \E e \in 0 .. contents[h].size - 1 :
    \/ Put(h, Set(contents[h].size, contents[h].members \cup {e}))
    \/ Put(h, Set(contents[h].size, contents[h].members \ {e}))

Combine(h, a, b) ==
  /\ Compatible(a, b)
  /\ \/ Put(h, Set(contents[a].size, contents[a].members \cup contents[b].members))
     \/ Put(h, Set(contents[a].size, contents[a].members \cap contents[b].members))
     \/ Put(h, Set(contents[a].size, contents[a].members \ contents[b].members))
     \/ Put(h, contents[a])

Next == \E h \in Handles : \/ Create(h)
                          \/ Change(h)
                          \/ \E a, b \in Handles : Combine(h, a, b)

Spec == Init /\ [][Next]_contents
=============================================================================
