----------------------------- MODULE LinkedList -----------------------------
(***************************************************************************)
(* Rx::LinkedList<ElementType> (Lists.hpp): an intrusive singly linked     *)
(* list with constant-time removal.  Each element holds _nextLink, the     *)
(* next element, and _prevLink, the address of the LinkedList* that points *)
(* at it: the list's head pointer, or the _nextLink of the element before. *)
(*                                                                         *)
(* A LinkedList* variable is a slot: a head pointer <<"head", h>> of the   *)
(* client, or an element's _nextLink <<"next", n>>.  link gives each       *)
(* slot's contents and prevLink each element's _prevLink.  Link(Before)    *)
(* takes the head pointer by reference; the class exposes no _nextLink by  *)
(* reference, so Before is always a head.                                  *)
(***************************************************************************)
EXTENDS Naturals, FiniteSets, Sequences, SequencesExt

CONSTANTS Nodes, Heads, Null

VARIABLES
    link,      \* slot -> the element it points at, or Null
    prevLink,  \* element -> the slot that points at it (_prevLink), or Null
    call       \* the last call, for the refinement

vars == <<link, prevLink, call>>

HeadSlot(h) == <<"head", h>>
NextSlot(n) == <<"next", n>>
Slots == {HeadSlot(h) : h \in Heads} \cup {NextSlot(n) : n \in Nodes}

\* IsLinked(): `_prevLink != nullptr`.
IsLinked(n) == prevLink[n] # Null

\* The elements an iterator visits from a slot, following GetNextLink()
\* until nullptr; cut off after as many steps as there are elements, so
\* that a cycle shows as a sequence longer than Nodes.
RECURSIVE WalkFrom(_, _)
WalkFrom(x, k) ==
    IF x = Null \/ k = 0 THEN <<>> ELSE <<x>> \o WalkFrom(link[NextSlot(x)], k - 1)

Walk(h) == WalkFrom(link[HeadSlot(h)], Cardinality(Nodes) + 1)

\* Variant: Unlink without `_nextLink->_prevLink = _prevLink`.
Unlink_keepsNextPrev(n) ==
    LET nx == link[NextSlot(n)]
        pv == prevLink[n]
        l1 == IF pv # Null THEN [link EXCEPT ![pv] = nx] ELSE link
    IN  /\ prevLink' = [prevLink EXCEPT ![n] = Null]
        /\ link' = [l1 EXCEPT ![NextSlot(n)] = Null]
        /\ call' = <<"Unlink", n>>

\* Unlink(): the next element's _prevLink takes ours, the slot pointing at
\* us takes our _nextLink, and both our links are cleared, in that order.
Unlink(n) ==
    LET nx == link[NextSlot(n)]
        pv == prevLink[n]
        p1 == IF nx # Null THEN [prevLink EXCEPT ![nx] = pv] ELSE prevLink
        l1 == IF pv # Null THEN [link EXCEPT ![pv] = nx] ELSE link
    IN  /\ prevLink' = [p1 EXCEPT ![n] = Null]
        /\ link' = [l1 EXCEPT ![NextSlot(n)] = Null]
        /\ call' = <<"Unlink", n>>

\* Variant: Link with its three assignments after the test in the order
\* `_prevLink = &Before; Before = this; _nextLink = Before;`.
Link_headFirst(n, h) ==
    LET b  == link[HeadSlot(h)]
        p1 == IF b # Null THEN [prevLink EXCEPT ![b] = NextSlot(n)] ELSE prevLink
        l1 == [link EXCEPT ![HeadSlot(h)] = n]
    IN  /\ ~IsLinked(n)
        /\ prevLink' = [p1 EXCEPT ![n] = HeadSlot(h)]
        /\ link' = [l1 EXCEPT ![NextSlot(n)] = l1[HeadSlot(h)]]
        /\ call' = <<"Link", n, h>>

\* Link(Before): the old first element's _prevLink becomes our _nextLink's
\* address, we point at it, our _prevLink is &Before, and Before points at
\* us.  Linking an element that is already linked is the caller's error:
\* the code does not check IsLinked().
Link(n, h) ==
    LET b  == link[HeadSlot(h)]
        p1 == IF b # Null THEN [prevLink EXCEPT ![b] = NextSlot(n)] ELSE prevLink
        l1 == [link EXCEPT ![NextSlot(n)] = b]
    IN  /\ ~IsLinked(n)
        /\ prevLink' = [p1 EXCEPT ![n] = HeadSlot(h)]
        /\ link' = [l1 EXCEPT ![HeadSlot(h)] = n]
        /\ call' = <<"Link", n, h>>

\* The default constructor: both links nullptr; the client's heads start
\* empty.
Init ==
    /\ link = [s \in Slots |-> Null]
    /\ prevLink = [n \in Nodes |-> Null]
    /\ call = <<"init">>

Next ==
    \/ \E n \in Nodes, h \in Heads : Link(n, h)
    \/ \E n \in Nodes : Unlink(n)

Spec == Init /\ [][Next]_vars

-----------------------------------------------------------------------------
(* Properties.                                                             *)

TypeOK ==
    /\ link \in [Slots -> Nodes \cup {Null}]
    /\ prevLink \in [Nodes -> Slots \cup {Null}]

\* The links stay consistent through any sequence of Link and Unlink
\* calls, repeated Unlinks included: every list from a head ends within
\* the elements and no element is in two lists; each slot that points at
\* an element is that element's _prevLink, and the other way round; an
\* unlinked element points at nothing.
WellLinked ==
    /\ \A h \in Heads : Len(Walk(h)) <= Cardinality(Nodes)
    /\ \A s \in Slots : link[s] # Null => prevLink[link[s]] = s
    /\ \A n \in Nodes :
          /\ IsLinked(n) => link[prevLink[n]] = n
          /\ ~IsLinked(n) => link[NextSlot(n)] = Null
          /\ IsLinked(n) <=> \E h \in Heads : n \in ToSet(Walk(h))

\* The lists, as an iterator from each head sees them, change as
\* LinkedChains says: Link puts the element in front of its head's list,
\* Unlink takes it out of the list it is in.
Abstract == INSTANCE LinkedChains WITH lists <- [h \in Heads |-> Walk(h)]
LinkedRefinement == Abstract!Spec

=============================================================================
