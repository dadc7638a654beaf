---------------------------- MODULE MCPageStores ----------------------------
(***************************************************************************)
(* PageStores for TLC on two stacks of stores: an encrypted image of two    *)
(* pages under a front cache of one, and a plain image of three pages       *)
(* without cache, where bulk calls meet unsorted lists, a repeated page,    *)
(* gaps and a page out of range.                                            *)
(***************************************************************************)
EXTENDS PageStores, TLC

Sealed == [pages |-> 2, encrypted |-> TRUE, cached |-> 1,
           requests |-> {<<0>>, <<1, 0>>, <<0, 2>>, <<1, 0, 1>>},
           paths    |-> {<<<<0, 1>>, <<0>>>>}]

Plain == [pages |-> 3, encrypted |-> FALSE, cached |-> 0,
          requests |-> {<<2, 1, 2>>, <<0, 3>>},
          paths    |-> {<<<<2, 0>>, <<1>>>>}]

SealedAndPlain == {Sealed, Plain}

\* No action looks at the last reply: states that differ in nothing else have
\* the same steps, and the step properties are checked on every step.
WithoutReply == <<stack, file, unsynced, cached, dirty, mode, next>>

ValueSymmetry == Permutations(Values)
=============================================================================
