--------------------------- MODULE DoubleLinkedList ---------------------------
(***************************************************************************)
(* Rx::DoubleLinkedList<ElementType> (Lists.hpp): a list of heap Nodes     *)
(* with _next/_prev pointers, a head, a tail and a size.                   *)
(*                                                                         *)
(* Nodes are the node addresses.  A node is "free" (never allocated, or    *)
(* deleted), "in" the list, or "out": allocated but not in the list, as    *)
(* erase(node, false) leaves it.  The ElementType overloads of push_front, *)
(* addObject and insert take a free address through `new Node(value)`;    *)
(* the Node* overloads may also be handed an out node back.  Each call is  *)
(* one step: the list is single-threaded.                                  *)
(***************************************************************************)
EXTENDS Naturals, Sequences, SequencesExt

CONSTANTS Nodes, Values, Null

ASSUME Null \notin Nodes

VARIABLES
    head,    \* _headNode
    tail,    \* _tailNode
    size,    \* _size
    next,    \* next[n]: n->_next
    prev,    \* prev[n]: n->_prev
    value,   \* value[n]: n->_value (Null before the first construction)
    nstate,  \* "free", "in" or "out"
    call     \* the last call and its arguments (history)

vars == <<head, tail, size, next, prev, value, nstate, call>>

-----------------------------------------------------------------------------

\* The nodes reached from n through _next, at most k of them.
RECURSIVE Walk(_, _)
Walk(n, k) == IF n = Null \/ k = 0 THEN <<>> ELSE <<n>> \o Walk(next[n], k - 1)

\* The list as the loops of clear() and findNode see it.  One more step
\* than there are nodes shows a cycle.
Chain == Walk(head, Cardinality(Nodes) + 1)

\* A node a call can add: a free address `new Node(InElement)` takes, or an
\* out node with the value it holds.
Takeable(n, v) == nstate[n] = "free" \/ (nstate[n] = "out" /\ v = value[n])

\* The links once n is constructed: Node(InValue) nulls _next and _prev.
Links(n) ==
    IF nstate[n] = "free"
    THEN [nx |-> [next EXCEPT ![n] = Null], pv |-> [prev EXCEPT ![n] = Null]]
    ELSE [nx |-> next, pv |-> prev]

\* setListSize(NewListSize)
setListSize(s) == size' = s

\* push_front(Node *NewNode), on links L.
pushFront(n, L) ==
    /\ IF head # Null
       THEN /\ next' = [L.nx EXCEPT ![n] = head]
            /\ prev' = [L.pv EXCEPT ![head] = n]
            /\ UNCHANGED tail
       ELSE next' = L.nx /\ prev' = L.pv /\ tail' = n
    /\ head' = n
    /\ setListSize(size + 1)

\* addObject(Node *NewNode), on links L.
addObject(n, L) ==
    /\ IF tail # Null
       THEN /\ next' = [L.nx EXCEPT ![tail] = n]
            /\ prev' = [L.pv EXCEPT ![n] = tail]
            /\ UNCHANGED head
       ELSE next' = L.nx /\ prev' = L.pv /\ head' = n
    /\ tail' = n
    /\ setListSize(size + 1)

\* insert(NewNode, NodeToInsertBefore), on links L: at the head for nullptr
\* or the head node, else between NodeToInsertBefore->_prev and it.
insert(n, b, L) ==
    IF b = Null \/ b = head
    THEN pushFront(n, L)
    ELSE /\ next' = [L.nx EXCEPT ![n] = b, ![prev[b]] = n]
         /\ prev' = [L.pv EXCEPT ![n] = prev[b], ![b] = n]
         /\ setListSize(size + 1)
         /\ UNCHANGED <<head, tail>>

\* The public calls that add a node: the node is constructed (or handed
\* back) with value v, linked by op, and is in the list.
Add(n, v, op(_), c) ==
    /\ Takeable(n, v)
    /\ op(Links(n))
    /\ value' = [value EXCEPT ![n] = v]
    /\ nstate' = [nstate EXCEPT ![n] = "in"]
    /\ call' = c

PushFront(n, v) == Add(n, v, LAMBDA L : pushFront(n, L), <<"push_front", n, v>>)
AddObject(n, v) == Add(n, v, LAMBDA L : addObject(n, L), <<"addObject", n, v>>)
Insert(n, v, b) ==
    /\ b \in {Null} \cup {m \in Nodes : nstate[m] = "in"}
    /\ Add(n, v, LAMBDA L : insert(n, b, L), <<"insert", n, v, b>>)

\* clear(): delete every node from the head on (~Node nulls its links).
clear ==
    LET gone == ToSet(Chain)
    IN  /\ next' = [m \in Nodes |-> IF m \in gone THEN Null ELSE next[m]]
        /\ prev' = [m \in Nodes |-> IF m \in gone THEN Null ELSE prev[m]]
        /\ nstate' = [m \in Nodes |-> IF m \in gone THEN "free" ELSE nstate[m]]
        /\ head' = Null /\ tail' = Null
        /\ setListSize(0)

\* Variant: a node erased without being deleted keeps its links (lines
\* 419 and 440 left out).
erase_keepsLinks(n, del) ==
    IF size = 1
    THEN IF del THEN clear
         ELSE /\ head' = Null /\ tail' = Null /\ setListSize(0)
              /\ UNCHANGED <<next, prev>>
              /\ nstate' = [nstate EXCEPT ![n] = "out"]
    ELSE LET nx == next[n]
             pv == prev[n]
             bypass ==
                CASE n = head -> [h |-> nx, t |-> tail,
                                  nx |-> next, pv |-> [prev EXCEPT ![nx] = Null]]
                  [] n = tail -> [h |-> head, t |-> pv,
                                  nx |-> [next EXCEPT ![pv] = Null], pv |-> prev]
                  [] OTHER    -> [h |-> head, t |-> tail,
                                  nx |-> [next EXCEPT ![pv] = nx],
                                  pv |-> [prev EXCEPT ![nx] = pv]]
         IN  /\ head' = bypass.h /\ tail' = bypass.t
             /\ next' = IF del THEN [bypass.nx EXCEPT ![n] = Null] ELSE bypass.nx
             /\ prev' = IF del THEN [bypass.pv EXCEPT ![n] = Null] ELSE bypass.pv
             /\ nstate' = [nstate EXCEPT ![n] = IF del THEN "free" ELSE "out"]
             /\ setListSize(size - 1)

\* erase(nodeToRemove, shouldDeleteNode) for a node of the list: a single
\* node goes through clear() or is unhooked by hand; otherwise the head,
\* the tail or an inner node is bypassed.  The node is deleted (~Node
\* nulls its links) or, kept, has its links nulled.
erase(n, del) ==
    IF size = 1
    THEN IF del THEN clear
         ELSE /\ head' = Null /\ tail' = Null /\ setListSize(0)
              /\ next' = [next EXCEPT ![n] = Null]
              /\ prev' = [prev EXCEPT ![n] = Null]
              /\ nstate' = [nstate EXCEPT ![n] = "out"]
    ELSE LET nx == next[n]
             pv == prev[n]
             bypass ==
                CASE n = head -> [h |-> nx, t |-> tail,
                                  nx |-> next, pv |-> [prev EXCEPT ![nx] = Null]]
                  [] n = tail -> [h |-> head, t |-> pv,
                                  nx |-> [next EXCEPT ![pv] = Null], pv |-> prev]
                  [] OTHER    -> [h |-> head, t |-> tail,
                                  nx |-> [next EXCEPT ![pv] = nx],
                                  pv |-> [prev EXCEPT ![nx] = pv]]
         IN  /\ head' = bypass.h /\ tail' = bypass.t
             /\ next' = [bypass.nx EXCEPT ![n] = Null]
             /\ prev' = [bypass.pv EXCEPT ![n] = Null]
             /\ nstate' = [nstate EXCEPT ![n] = IF del THEN "free" ELSE "out"]
             /\ setListSize(size - 1)

\* Variant: the loop has no `break`, and runs on to nullptr.
findNode_noBreak(v) == Null

\* findNode(InElement): the first node from the head holding the value.
findNode(v) ==
    LET s == SelectInSeq(Chain, LAMBDA m : value[m] = v)
    IN  IF s = 0 THEN Null ELSE Chain[s]

Erase(n, del) ==
    /\ nstate[n] = "in"
    /\ erase(n, del)
    /\ call' = <<"erase", n>>
    /\ UNCHANGED value

\* erase(const ElementType &): erase(findNode(InElement)), which does
\* nothing for nullptr.
EraseValue(v) ==
    /\ LET n == findNode(v)
       IN  IF n = Null THEN UNCHANGED <<head, tail, size, next, prev, nstate>>
           ELSE erase(n, TRUE)
    /\ call' = <<"eraseValue", v>>
    /\ UNCHANGED value

Clear ==
    /\ clear
    /\ call' = <<"clear">>
    /\ UNCHANGED value

\* DoubleLinkedList(): empty; no node allocated yet.
Init ==
    /\ head = Null /\ tail = Null /\ size = 0
    /\ next = [n \in Nodes |-> Null] /\ prev = [n \in Nodes |-> Null]
    /\ value = [n \in Nodes |-> Null]
    /\ nstate = [n \in Nodes |-> "free"]
    /\ call = <<"init">>

Next ==
    \/ \E n \in Nodes, v \in Values :
          \/ PushFront(n, v)
          \/ AddObject(n, v)
          \/ \E b \in Nodes \cup {Null} : Insert(n, v, b)
    \/ \E n \in Nodes, del \in BOOLEAN : Erase(n, del)
    \/ \E v \in Values : EraseValue(v)
    \/ Clear

Spec == Init /\ [][Next]_vars

-----------------------------------------------------------------------------
(* Properties.                                                             *)

\* After any sequence of calls the links form one list: from the head the
\* _next pointers reach _size distinct nodes, exactly those in the list,
\* and stop at _tailNode; every _prev points back along the same path; and
\* every node outside the list has null links, which push_front and
\* addObject rely on when it is added again.
WellLinked ==
    /\ Len(Chain) = size
    /\ ToSet(Chain) = {n \in Nodes : nstate[n] = "in"}
    /\ tail = IF Chain = <<>> THEN Null ELSE Last(Chain)
    /\ \A i \in 1..Len(Chain) :
          prev[Chain[i]] = IF i = 1 THEN Null ELSE Chain[i - 1]
    /\ \A n \in Nodes : nstate[n] # "in" => next[n] = Null /\ prev[n] = Null

\* The list implements the sequence its operations promise (ListSequence):
\* each call changes the sequence of nodes from the head as its comment
\* says.
Abstract == INSTANCE ListSequence WITH lst <- Chain, val <- value
ListRefinement == Abstract!Spec

=============================================================================
