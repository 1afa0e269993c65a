----------------------------- MODULE ListSequence -----------------------------
(***************************************************************************)
(* What Rx::DoubleLinkedList promises (Lists.hpp): the list is a sequence  *)
(* of nodes, each carrying a value; every call changes it as its comment   *)
(* says.  `call` records the last call and its arguments, so that an       *)
(* implementation that changes the sequence in some other way (an element  *)
(* put in the wrong place, the wrong one erased) does not implement this.  *)
(***************************************************************************)
EXTENDS Naturals, Sequences, SequencesExt

CONSTANTS Nodes, Values, Null

VARIABLES
    lst,    \* the nodes of the list, head first
    val,    \* the value each node carries (Null before it is constructed)
    call    \* the last call: <<name, arguments>>

IndexOf(n) == CHOOSE i \in 1..Len(lst) : lst[i] = n

\* A node that is not in the list may be added, with the value it holds.
Fresh(n) == n \notin ToSet(lst)

PushFront(n, v) ==
    /\ Fresh(n)
    /\ lst' = <<n>> \o lst
    /\ val' = [val EXCEPT ![n] = v]
    /\ call' = <<"push_front", n, v>>

AddObject(n, v) ==
    /\ Fresh(n)
    /\ lst' = Append(lst, n)
    /\ val' = [val EXCEPT ![n] = v]
    /\ call' = <<"addObject", n, v>>

\* insert(NewNode, NodeToInsertBefore): before that node; nullptr means at
\* the head.
Insert(n, v, b) ==
    /\ Fresh(n)
    /\ b = Null \/ b \in ToSet(lst)
    /\ lst' = IF b = Null THEN <<n>> \o lst ELSE InsertAt(lst, IndexOf(b), n)
    /\ val' = [val EXCEPT ![n] = v]
    /\ call' = <<"insert", n, v, b>>

\* erase(nodeToRemove): the node leaves the list.
Erase(n) ==
    /\ n \in ToSet(lst)
    /\ lst' = RemoveAt(lst, IndexOf(n))
    /\ call' = <<"erase", n>>
    /\ UNCHANGED val

\* erase(InElement): the first node carrying the value leaves the list, if
\* there is one.
EraseValue(v) ==
    /\ lst' = RemoveFirstMatch(lst, LAMBDA n : val[n] = v)
    /\ call' = <<"eraseValue", v>>
    /\ UNCHANGED val

Clear ==
    /\ lst' = <<>>
    /\ call' = <<"clear">>
    /\ UNCHANGED val

Init ==
    /\ lst = <<>>
    /\ val = [n \in Nodes |-> Null]
    /\ call = <<"init">>

Next ==
    \/ \E n \in Nodes, v \in Values :
          PushFront(n, v) \/ AddObject(n, v) \/ \E b \in Nodes \cup {Null} : Insert(n, v, b)
    \/ \E n \in Nodes : Erase(n)
    \/ \E v \in Values : EraseValue(v)
    \/ Clear

Spec == Init /\ [][Next]_<<lst, val, call>>

=============================================================================
