------------------------------ MODULE OrderedSet ------------------------------
(***************************************************************************)
(* Rx::OrderedSet<T> (OrderedSet.hpp): an Array<T> _array (a std::vector)  *)
(* beside a Set<T> _set (a std::set ordered by std::less), which are meant *)
(* to hold the same elements.  An ordered set is the record                *)
(* [arr |-> the array, set |-> the set].  Elements are integers: for the   *)
(* SharedRef elements KeyValueObserverInterface stores, the object         *)
(* addresses that SharedRef's operator< and operator== compare.  Iterator  *)
(* positions are the code's 0-based _index, with EndIndex -1.              *)
(*                                                                         *)
(* _set is a Set<T>, the std::set specialisation: its erase(element)      *)
(* (Set.hpp) erases the one element std::find finds.                       *)
(***************************************************************************)
EXTENDS Integers, SequencesExt

EndIndex == -1

Empty == [arr |-> <<>>, set |-> {}]

\* size(): `_array.size()` after `RxCheck(size == _set.size())`.
SizeAgrees(s) == Len(s.arr) = Cardinality(s.set)

\* Set<T>::erase(const T &): `erase(std::find(begin(), end(), element))`
\* removes e.  When e is absent that is std::set::erase(end()), undefined;
\* the model leaves the set as it is.
SetErase(S, e) == S \ {e}

\* begin(): BeginIndex when size() > 0, else end().
begin(s) == IF Len(s.arr) > 0 THEN 0 ELSE EndIndex

\* The iterator's operator bool: not at EndIndex, and `size && size > _index`.
valid(s, i) == i # EndIndex /\ Len(s.arr) > i

\* The prefix operator++: EndIndex stays, the last position goes to
\* EndIndex, any other advances.
next(s, i) == IF i = EndIndex \/ i + 1 = Len(s.arr) THEN EndIndex ELSE i + 1

\* addObject: append to _array and insert into _set, with no check that the
\* element is already there.
addObject(s, e) == [arr |-> Append(s.arr, e), set |-> s.set \cup {e}]

\* find(Predicate), where M is the set of elements the predicate accepts:
\* the least matching element of _set, then its position in _array.  The
\* `RxCheck(arrayIt != _array.end())` is findFound; when it does not hold
\* the position is _array.size().
findHit(s, M) == s.set \cap M

findFound(s, M) == findHit(s, M) = {} \/ Min(findHit(s, M)) \in ToSet(s.arr)

find(s, M) ==
    IF findHit(s, M) = {} THEN EndIndex
    ELSE LET j == SelectInSeq(s.arr, LAMBDA x : x = Min(findHit(s, M)))
         IN  IF j = 0 THEN Len(s.arr) ELSE j - 1

\* erase(const_iterator &it), it valid: `auto &value = *it` is a reference
\* into _array.  _array.erase(position) moves the later elements down, so
\* value now refers to the element after the erased one, and
\* _set.erase(value) removes that element and every greater one.  When the
\* erased element was the last, the slot is destroyed and value reads the
\* destroyed SharedRef, whose Object pointer ~SharedRef leaves as it was:
\* the erased element itself.
eraseAt(s, i) ==
    IF ~valid(s, i) THEN s
    ELSE LET a == RemoveAt(s.arr, i + 1)
             v == IF i + 1 <= Len(a) THEN a[i + 1] ELSE s.arr[i + 1]
         IN  [arr |-> a, set |-> SetErase(s.set, v)]

=============================================================================
