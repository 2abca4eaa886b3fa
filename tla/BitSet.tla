------------------------------- MODULE BitSet -------------------------------
(***************************************************************************)
(* The bit sets of set.c.  A mask is a function from partitions to words,  *)
(* and a word the set of its bit positions that are 1, so that the bitwise *)
(* operators are the operations on sets of positions.  Clients combine     *)
(* sets of one maximum size only and number elements below it.             *)
(***************************************************************************)
EXTENDS Integers

CONSTANTS
  Handles,            \* the set variables of a client
  Sizes,              \* maximum sizes it creates sets with
  FullSizes,          \* those it creates full sets with
  BITS_PER_PARTITION  \* 32 in the code

VARIABLE sets  \* max_size and mask of each handle; a NULL mask has max_size -1

Bits == 0 .. BITS_PER_PARTITION - 1
Undefined == [max_size |-> -1, mask |-> <<>>]

num_partitions(n) == (n + BITS_PER_PARTITION - 1) \div BITS_PER_PARTITION
Partitions(s) == 0 .. num_partitions(s.max_size) - 1
partition(e) == e \div BITS_PER_PARTITION
pos_in_partition(e) == e % BITS_PER_PARTITION

is_set_undefined(s) == s.max_size = -1

create_empty_set(n) == [max_size |-> n, mask |-> [i \in 0 .. num_partitions(n) - 1 |-> {}]]

\* Wrong on purpose: the last partition is filled like the others.
full_words(n) == [max_size |-> n, mask |-> [i \in 0 .. num_partitions(n) - 1 |-> Bits]]

\* All ones but in the last partition, which is shifted left max_size % 32
\* times with a trailing 1.
create_full_set(n) ==
  [max_size |-> n,
   mask |-> [i \in 0 .. num_partitions(n) - 1 |->
               IF i < num_partitions(n) - 1 THEN Bits ELSE 0 .. (n % BITS_PER_PARTITION) - 1]]

add_to_set(e, s) ==
  [s EXCEPT !.mask[partition(e)] = @ \cup {pos_in_partition(e)}]
remove_from_set(e, s) ==
  [s EXCEPT !.mask[partition(e)] = @ \ {pos_in_partition(e)}]

\* Wrong on purpose: only the first partition is compared.
first_words_equal(s, t) ==
  ~is_set_undefined(s) /\ ~is_set_undefined(t) /\ s.mask[0] = t.mask[0]

are_set_equals(s, t) ==
  ~is_set_undefined(s) /\ ~is_set_undefined(t) /\ \A i \in Partitions(s) : s.mask[i] = t.mask[i]

unify_sets(s, t) == [s EXCEPT !.mask = [i \in Partitions(s) |-> s.mask[i] \cup t.mask[i]]]
intersect_sets(s, t) == [s EXCEPT !.mask = [i \in Partitions(s) |-> s.mask[i] \cap t.mask[i]]]
diff_sets(s, t) == [s EXCEPT !.mask = [i \in Partitions(s) |-> s.mask[i] \ t.mask[i]]]
clone_set(s) == unify_sets(create_empty_set(s.max_size), s)

is_set_empty(s) == \A i \in Partitions(s) : s.mask[i] = {}
does_elto_belong_to_set(e, s) ==
  ~is_set_undefined(s) /\ pos_in_partition(e) \in s.mask[partition(e)]

-----------------------------------------------------------------------------
InitSets == sets = [h \in Handles |-> Undefined]

Put(h, s) == sets' = [sets EXCEPT ![h] = s]
Defined(h) == ~is_set_undefined(sets[h])
Elements(h) == 0 .. sets[h].max_size - 1

Create(h) == \/ \E n \in Sizes : Put(h, create_empty_set(n))
             \/ \E n \in FullSizes : Put(h, create_full_set(n))

Change(h) == \E e \in Elements(h) : \/ Put(h, add_to_set(e, sets[h]))
                                    \/ Put(h, remove_from_set(e, sets[h]))

Combine(h, a, b) ==
  /\ Defined(a) /\ Defined(b) /\ sets[a].max_size = sets[b].max_size
  /\ \/ Put(h, unify_sets(sets[a], sets[b]))
     \/ Put(h, intersect_sets(sets[a], sets[b]))
     \/ Put(h, diff_sets(sets[a], sets[b]))
     \/ Put(h, clone_set(sets[a]))

NextSets == \E h \in Handles : \/ Create(h)
                          \/ Change(h)
                          \/ \E a, b \in Handles : Combine(h, a, b)

SetsSpec == InitSets /\ [][NextSets]_sets

-----------------------------------------------------------------------------
\* The numbers in a set.
members(s) ==
  {BITS_PER_PARTITION * q[1] + q[2] : q \in {p \in Partitions(s) \X Bits : p[2] \in s.mask[p[1]]}}

\* What a client has in each handle.
View(s) == [size |-> s.max_size, members |-> members(s)]
Contents == [h \in Handles |-> View(sets[h])]

Promised == INSTANCE NumberSets WITH contents <- Contents

\* Every operation of set.c, in any order, does to the numbers in a set what
\* set.h promises.
ImplementsNumberSets == Promised!Spec

\* Whatever calls made the sets, the queries tell the numbers in them: they
\* compare whole words, so that no bit beyond max_size may ever be set.
QueriesExact ==
  \A a, b \in Handles :
    /\ \A e \in Elements(a) : does_elto_belong_to_set(e, sets[a]) <=> e \in members(sets[a])
    /\ Defined(a) =>
         (is_set_empty(sets[a]) <=> \A e \in Elements(a) : e \notin members(sets[a]))
    /\ sets[a].max_size = sets[b].max_size =>
         (are_set_equals(sets[a], sets[b]) <=>
            /\ Defined(a)
            /\ \A e \in Elements(a) : e \in members(sets[a]) <=> e \in members(sets[b]))
=============================================================================
