-------------------------------- MODULE Lists --------------------------------
(* Operators on lists that the modules of the edge and of the cloud share: what
   Python writes as sorting and as comprehensions with a condition.  They are
   defined by counting and not by recursion, as SelectSeq and SortSeq are, so that
   the provers can expand them. *)
EXTENDS Naturals, Sequences, FiniteSets

\* The list itself: a concatenation makes TLC compute its elements once.
Listed(list) == <<>> \o list

\* The elements of a set in a strict total order.
Sorted(S, before(_, _)) ==
    Listed([k \in 1 .. Cardinality(S) |->
              CHOOSE x \in S : Cardinality({y \in S : before(y, x)}) = k - 1])

\* A set of numbers, upwards.
Upwards(S) == Sorted(S, <)

\* The elements at some positions of a list, in their order.
Picked(list, positions) ==
    LET at == Upwards(positions)
    IN Listed([k \in DOMAIN at |-> list[at[k]]])

\* What a list of lists of at most one element contains.
Made(lists) ==
    LET made == Picked(lists, {k \in DOMAIN lists : lists[k] # <<>>})
    IN Listed([k \in DOMAIN made |-> made[k][1]])

\* One function over another, as a dict that is updated with another one.
Over(f, g) ==
    [x \in (DOMAIN f) \cup DOMAIN g |-> IF x \in DOMAIN f THEN f[x] ELSE g[x]]
==============================================================================
