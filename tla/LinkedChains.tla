---------------------------- MODULE LinkedChains ----------------------------
(***************************************************************************)
(* What Rx::LinkedList promises (Lists.hpp): each list head names a        *)
(* sequence of elements; Link(Before) puts the element at the front of the *)
(* list whose head Before is, and Unlink takes it out of whatever list it  *)
(* is in, in constant time, and is "safe to call even if the element is   *)
(* not linked".  `call` records the last call, so that an implementation   *)
(* that leaves the lists as they were on a call does not implement this.   *)
(***************************************************************************)
EXTENDS Sequences, SequencesExt

CONSTANTS Nodes, Heads

VARIABLES
    lists,  \* head -> the elements of its list, first first
    call    \* the last call: <<name, node, head>>

InSomeList(n) == \E h \in Heads : n \in ToSet(lists[h])

Link(n, h) ==
    /\ ~InSomeList(n)
    /\ lists' = [lists EXCEPT ![h] = <<n>> \o @]
    /\ call' = <<"Link", n, h>>

Unlink(n) ==
    /\ lists' = [h \in Heads |-> SelectSeq(lists[h], LAMBDA m : m # n)]
    /\ call' = <<"Unlink", n>>

Init ==
    /\ lists = [h \in Heads |-> <<>>]
    /\ call = <<"init">>

Next ==
    \/ \E n \in Nodes, h \in Heads : Link(n, h)
    \/ \E n \in Nodes : Unlink(n)

Spec == Init /\ [][Next]_<<lists, call>>

=============================================================================
