--------------------------------- MODULE KVO ---------------------------------
(***************************************************************************)
(* The observer registry of Rx::KeyValueObserverInterface                 *)
(* (KeyValueObserverInterface.hpp, src/KeyValueObserverInterface.cpp).    *)
(*                                                                         *)
(* _observersInfo maps a key to an OrderedSet of KVOPairs; a KVOPair holds *)
(* the observer, its notifyKind, and the flags _enabled and _initialized   *)
(* and the _KVOCallState the will/did calls move.  Every block that holds  *)
(* _observerLock is one step: addObserver (which holds the lock across     *)
(* its removeObserver and its Initialize will/did), removeObserver, and    *)
(* the two short blocks at the start of _will/_didChangeValueForKey and    *)
(* _getObservers.  What runs after _getObservers has released the lock is *)
(* split into steps: its copy_if over the set, one element per step, and   *)
(* the notification loop, one pair per step, with the isEnabled test and   *)
(* receiveObserverNotify as two steps.                                     *)
(*                                                                         *)
(* Keys, observers and the context are model values; a value of a key is   *)
(* not: whether _newValue != _oldValue is a free choice.  A client thread  *)
(* calls willChangeValueForKey(k) and then didChangeValueForKey(k), and    *)
(* addObserver / removeObserver outside or between those two calls;        *)
(* keyPathsForValuesAffectingValueForKey keeps its default (empty) body,  *)
(* and a call of receiveObserverNotify is recorded, not run.  The empty    *)
(* second loop of _getObservers (lines 113-118) only reads the set and is  *)
(* left out.                                                               *)
(*                                                                         *)
(* Each set is an OrderedSet (module OrderedSet) of KVOPairRefs, that is   *)
(* of pair addresses: SharedRef compares by address, and MakeShareable     *)
(* may return any address no live pair has.  Every size(), operator* and   *)
(* find of an OrderedSet checks, with RxCheck (an assert), that _array and *)
(* _set agree; a failed check aborts the process (failed), after which     *)
(* nothing more happens.                                                   *)
(***************************************************************************)
EXTENDS Integers, Sequences, Bitwise

CONSTANTS
    Threads,    \* client threads
    Observers,  \* observer objects (KeyValueObserverInterfaceParamRef)
    Keys,       \* observed keys
    Kinds,      \* notifyKind arguments passed to addObserver
    MaxPairs,   \* bound on the KVOPairs alive at once (their addresses)
    NoEntry     \* _observersInfo has no entry for the key

OS == INSTANCE OrderedSet

\* Change::Kind.
New == 1
Initialize == 4

End == OS!EndIndex

Addrs == 1..MaxPairs

ASSUME Kinds \subseteq 0..7 /\ MaxPairs \in Nat

\* The contents of an address no pair lives at.
NoPair == [obs |-> NoEntry, kind |-> 0, enabled |-> FALSE,
           callState |-> "Default", initialized |-> FALSE]

VARIABLES
    info,        \* _observersInfo: key -> OrderedSet of pair addresses, or NoEntry
    pair,        \* the KVOPair at each address
    th,          \* each thread's call and where it is inside it
    notice,      \* the <<observer, key>> receiveObserverNotify was called for
                 \* in the last step
    subscribed,  \* history: the <<observer, key>> whose last call was an add
    failed       \* an RxCheck failed and the process aborted

vars == <<info, pair, th, notice, subscribed, failed>>

\* intact: no other thread has written the set this thread walks since
\* it released the lock (history, for UnlockedIterationSafe).
Idle == [op |-> "idle", key |-> NoEntry, stage |-> "none", intact |-> TRUE,
         idx |-> 0, matched |-> <<>>, j |-> 0]

-----------------------------------------------------------------------------
(* Helpers.                                                                *)

HasEntry(k) == info[k] # NoEntry

\* The pairs of the key's _array, which iteration and the destructor see.
PairsOf(k) == IF HasEntry(k) THEN OS!ToSet(info[k].arr) ELSE {}

Registered(o, k) == \E a \in PairsOf(k) : pair[a].obs = o

\* A pair lives while a SharedRef holds it: a set's _array or _set, or a
\* thread's matched copy, in the registry r and threads thv.
HeldIn(a, r, thv) ==
    \/ \E k \in Keys : r[k] # NoEntry /\ (a \in OS!ToSet(r[k].arr) \/ a \in r[k].set)
    \/ \E t \in Threads : a \in OS!ToSet(thv[t].matched)

Held(a) == HeldIn(a, info, th)

\* The last SharedRef to a pair gone, the pair is destroyed: its address
\* holds nothing any more.
Release(ps, r, thv) == [a \in Addrs |-> IF HeldIn(a, r, thv) THEN ps[a] ELSE NoPair]

\* KVOPair::operator== against removeObserver's target, whose kind is
\* Change::Kind::All (~0): same observer and `_notifyKind & All`, which is
\* _notifyKind, non-zero.  It does not look at _enabled.
MatchesTarget(a, o) == pair[a].obs = o /\ (pair[a].kind & 7) # 0

\* A write to the set of key k: every thread walking it loses it.
Touch(thv, k) ==
    [t \in Threads |-> IF thv[t].stage = "iter" /\ thv[t].key = k
                       THEN [thv[t] EXCEPT !.intact = FALSE] ELSE thv[t]]

\* removeObserver(o, k) on the registry r and pairs ps, under the lock:
\* find the pair equal to KVOPair(observer, All), disable it, erase it,
\* and erase the map entry once the set is empty.  ok is whether the
\* RxChecks of find, operator*, erase and isEmpty held.
removeObserver(r, ps, o, k) ==
    IF r[k] = NoEntry THEN [info |-> r, pair |-> ps, ok |-> TRUE]
    ELSE LET s  == r[k]
             M  == {a \in Addrs : MatchesTarget(a, o)}
             i  == OS!find(s, M)
         IN  IF i = End THEN [info |-> r, pair |-> ps, ok |-> TRUE]
             ELSE IF ~(OS!findFound(s, M) /\ OS!SizeAgrees(s) /\ OS!valid(s, i))
             THEN [info |-> r, pair |-> ps, ok |-> FALSE]
             ELSE LET s2 == OS!eraseAt(s, i)
                  IN  [info |-> [r EXCEPT ![k] = IF s2.arr = <<>> THEN NoEntry ELSE s2],
                       pair |-> [ps EXCEPT ![s.arr[i + 1]].enabled = FALSE],
                       ok   |-> OS!SizeAgrees(s2)]

\* The pair state after _will/_didChangeValueForKey(k, Initialize) ran
\* under addObserver's lock on the enabled pairs of the set: each goes
\* WillChange, DidChange and back to Default, and an Initialize observer
\* not yet initialized becomes initialized.
InitializeRound(ps, ids) ==
    [a \in Addrs |->
        IF a \in ids /\ ps[a].enabled
        THEN [ps[a] EXCEPT !.callState = "Default",
                           !.initialized = @ \/ (ps[a].kind & Initialize) # 0]
        ELSE ps[a]]

-----------------------------------------------------------------------------
(* addObserver and removeObserver, each one step under _observerLock.     *)

\* addObserver: find or insert the key's set; removeObserver(observer, key);
\* make the pair, enable it and add it through the iterator `it` found at
\* the start; then the Initialize will/did.  When removeObserver took the
\* last pair out of the set it erased the map entry, and `it` is dangling:
\* the addObject goes into a freed set and the map keeps no entry.
AddObserver(t, o, k, kind) ==
    /\ th[t].op \in {"idle", "between"}
    /\ \E a \in {x \in Addrs : ~Held(x)} :
       LET r0   == IF HasEntry(k) THEN info ELSE [info EXCEPT ![k] = OS!Empty]
           rm   == removeObserver(r0, pair, o, k)
           ps   == [rm.pair EXCEPT ![a] = [obs |-> o, kind |-> kind, enabled |-> TRUE,
                                          callState |-> "Default", initialized |-> FALSE]]
           live == rm.info[k] # NoEntry
           r1   == IF live THEN [rm.info EXCEPT ![k] = OS!addObject(@, a)] ELSE rm.info
           ids  == IF live THEN OS!ToSet(r1[k].arr) ELSE {}
           doCall == (kind & Initialize) # 0
       IN  /\ info' = r1
           /\ pair' = Release(InitializeRound(ps, ids), r1, th)
           \* addObject's two size() calls, and those of the round's walk.
           /\ failed' = ~(rm.ok /\ (live => OS!SizeAgrees(rm.info[k]) /\ OS!SizeAgrees(r1[k])))
           \* The Initialize round, when the new observer asked for it,
           \* notifies every enabled pair of the set that is not yet
           \* initialized, and any other whose value changed.
           /\ \E changed \in SUBSET ids :
                notice' = IF doCall
                          THEN {<<ps[p].obs, k>> :
                                  p \in {q \in ids : ps[q].enabled
                                            /\ (q \in changed
                                                \/ ((ps[q].kind & Initialize) # 0
                                                    /\ ~ps[q].initialized))}}
                          ELSE {}
    /\ th' = Touch(th, k)
    /\ subscribed' = subscribed \cup {<<o, k>>}

\* removeObserver, called by the client.
RemoveObserver(t, o, k) ==
    /\ th[t].op \in {"idle", "between"}
    /\ LET rm == removeObserver(info, pair, o, k)
       IN  /\ info' = rm.info /\ pair' = Release(rm.pair, rm.info, th)
           /\ failed' = ~rm.ok
           /\ th' = IF rm.info = info THEN th ELSE Touch(th, k)
    /\ subscribed' = subscribed \ {<<o, k>>}
    /\ notice' = {}

-----------------------------------------------------------------------------
(* willChangeValueForKey and didChangeValueForKey.                         *)

\* The client calls willChangeValueForKey(k), or, after it, the matching
\* didChangeValueForKey(k).
Begin(t, k) ==
    \/ /\ th[t].op = "idle"
       /\ th' = [th EXCEPT ![t] = [Idle EXCEPT !.op = "will", !.key = k, !.stage = "check"]]
    \/ /\ th[t].op = "between" /\ th[t].key = k
       /\ th' = [th EXCEPT ![t] = [Idle EXCEPT !.op = "did", !.key = k, !.stage = "check"]]

\* The call is over: after will the thread is between will and did.
Finish(x) == [Idle EXCEPT !.op = IF x.op = "will" THEN "between" ELSE "idle",
                          !.key = IF x.op = "will" THEN x.key ELSE NoEntry]

\* Under the lock: `if (_observersInfo->size() == 0) return;`
CheckEmpty(t) ==
    /\ th[t].stage = "check"
    /\ th' = [th EXCEPT ![t] = IF \A k \in Keys : ~HasEntry(k)
                               THEN Finish(@) ELSE [@ EXCEPT !.stage = "find"]]
    /\ UNCHANGED <<info, pair, subscribed, failed>>

\* _getObservers, under the lock: find the key; no entry returns {}.
\* Otherwise the lock is released and copy_if starts from begin(), whose
\* size() checks the set (begin() is read after the release; the walk's
\* intact flag makes taking it here the same).
Find(t) ==
    /\ th[t].stage = "find"
    /\ LET k == th[t].key
       IN  IF HasEntry(k)
           THEN /\ failed' = ~OS!SizeAgrees(info[k])
                /\ th' = [th EXCEPT ![t] =
                            [@ EXCEPT !.stage = IF OS!begin(info[k]) = End THEN "loop" ELSE "iter",
                                      !.intact = TRUE, !.idx = OS!begin(info[k]), !.j = 1]]
           ELSE th' = [th EXCEPT ![t] = Finish(@)] /\ UNCHANGED failed
    /\ UNCHANGED <<info, pair, subscribed>>

\* One round of std::copy_if, without the lock: *first (its RxCheck and
\* size()), the filter `isEnabled() && (kind | notifyKind) != Invalid`
\* (with notifyKind New always true), then ++first.
Iterate(t) ==
    /\ th[t].stage = "iter" /\ th[t].intact
    /\ LET s == info[th[t].key]
           i == th[t].idx
           a == s.arr[i + 1]
       IN  /\ OS!valid(s, i)
           /\ failed' = ~OS!SizeAgrees(s)
           /\ th' = [th EXCEPT ![t] =
                 [@ EXCEPT !.matched = IF pair[a].enabled THEN Append(@, a) ELSE @,
                           !.idx = OS!next(s, i),
                           !.stage = IF OS!next(s, i) = End THEN "loop" ELSE "iter"]]
    /\ UNCHANGED <<info, pair, subscribed>>

\* The notification loop of willChangeValueForKey: KVOCallState WillChange.
WillPair(t) ==
    /\ th[t].op = "will" /\ th[t].stage = "loop"
    /\ IF th[t].j > Len(th[t].matched)
       THEN /\ th' = [th EXCEPT ![t] = Finish(@)]
            /\ pair' = Release(pair, info, th')
       ELSE /\ pair' = [pair EXCEPT ![th[t].matched[th[t].j]].callState = "WillChange"]
            /\ th' = [th EXCEPT ![t].j = @ + 1]
    /\ UNCHANGED <<info, subscribed, failed>>

\* Variant: the pair is left in its call state after the round.
Done_noReset(t, ps, p) ==
    /\ pair' = ps
    /\ th' = [th EXCEPT ![t] = [@ EXCEPT !.j = @ + 1, !.stage = "loop"]]

\* The pair back to Default (which resets _change) at the end of a round.
Done(t, ps, p) ==
    /\ pair' = [ps EXCEPT ![p].callState = "Default"]
    /\ th' = [th EXCEPT ![t] = [@ EXCEPT !.j = @ + 1, !.stage = "loop"]]

\* The notification loop of didChangeValueForKey(k) (doCall true): set
\* DidChange; an Initialize pair not yet initialized is initialized and
\* is to be notified; any other pair is to be notified when the value
\* changed.  Then `if (observer->isEnabled())`: a disabled pair is skipped.
DidPair(t) ==
    /\ th[t].op = "did" /\ th[t].stage = "loop"
    /\ IF th[t].j > Len(th[t].matched)
       THEN /\ th' = [th EXCEPT ![t] = Finish(@)]
            /\ pair' = Release(pair, info, th')
       ELSE LET p    == th[t].matched[th[t].j]
                init == (pair[p].kind & Initialize) # 0 /\ ~pair[p].initialized
                ps   == [pair EXCEPT ![p].callState = "DidChange",
                                     ![p].initialized = @ \/ init]
            IN  \E changed \in BOOLEAN :
                    IF (init \/ changed) /\ pair[p].enabled
                    THEN /\ pair' = ps
                         /\ th' = [th EXCEPT ![t].stage = "call"]
                    ELSE Done(t, ps, p)
    /\ UNCHANGED <<info, subscribed, failed>>

\* object->receiveObserverNotify(...), then setKVOCallState(Default).
Notify(t) ==
    /\ th[t].stage = "call"
    /\ LET p == th[t].matched[th[t].j]
       IN  /\ notice' = {<<pair[p].obs, th[t].key>>}
           /\ Done(t, pair, p)
    /\ UNCHANGED <<info, subscribed, failed>>

\* After a failed RxCheck the process has aborted: nothing happens any more.
Aborted == failed /\ UNCHANGED vars

-----------------------------------------------------------------------------

Init ==
    /\ info = [k \in Keys |-> NoEntry]
    /\ pair = [a \in Addrs |-> NoPair]
    /\ th = [t \in Threads |-> Idle]
    /\ notice = {}
    /\ subscribed = {}
    /\ failed = FALSE

\* The steps of a thread inside will/did, which leave notice empty unless
\* they notify.
Step(t) ==
    \/ CheckEmpty(t) \/ Find(t) \/ Iterate(t) \/ WillPair(t) \/ DidPair(t)

Next ==
    \/ /\ ~failed
       /\ \E t \in Threads :
            \/ \E o \in Observers, k \in Keys, kind \in Kinds : AddObserver(t, o, k, kind)
            \/ \E o \in Observers, k \in Keys : RemoveObserver(t, o, k)
            \/ \E k \in Keys : Begin(t, k) /\ notice' = {}
                               /\ UNCHANGED <<info, pair, subscribed, failed>>
            \/ Step(t) /\ notice' = {}
            \/ Notify(t)
    \/ Aborted

Spec == Init /\ [][Next]_vars

-----------------------------------------------------------------------------
(* Properties.                                                             *)

CallStates == {"Default", "WillChange", "DidChange"}

TypeOK ==
    /\ info \in [Keys -> [arr : Seq(Addrs), set : SUBSET Addrs] \cup {NoEntry}]
    /\ pair \in [Addrs -> [obs : Observers \cup {NoEntry}, kind : Kinds \cup {0},
                           enabled : BOOLEAN, callState : CallStates,
                           initialized : BOOLEAN]]
    /\ \A t \in Threads : th[t].op \in {"idle", "will", "between", "did"}
    /\ failed \in BOOLEAN

\* The client's view: an observer is registered for a key exactly when its
\* last addObserver/removeObserver for that key was an add.
RegistryMatchesSubscriptions ==
    \A o \in Observers, k \in Keys : <<o, k>> \in subscribed <=> Registered(o, k)

\* ~KeyValueObserverInterface asserts that every pair in the registry is
\* in KVOCallState Default: once no thread is inside willChange/didChange
\* or between the two, no pair is left half-way through a change.
CallStateDefaultWhenIdle ==
    (\A t \in Threads : th[t].op = "idle") =>
        \A k \in Keys : \A p \in PairsOf(k) : pair[p].callState = "Default"

\* Each key's OrderedSet stays coherent across addObserver and
\* removeObserver: its _array and its _set hold the same pairs, so the
\* RxChecks of size(), operator* and find, which every later call and the
\* notification walk make, hold.
ObserverSetCoherent ==
    \A k \in Keys : HasEntry(k) =>
        OS!SizeAgrees(info[k]) /\ OS!ToSet(info[k].arr) = info[k].set

\* _getObservers copies the key's set without the lock: no other thread
\* writes that set (addObject, erase, or the map entry's erase, which
\* frees it) while a thread walks it, and the walk stays inside it.
UnlockedIterationSafe ==
    \A t \in Threads : th[t].stage = "iter" =>
        /\ th[t].intact
        /\ HasEntry(th[t].key)
        /\ OS!valid(info[th[t].key], th[t].idx)

=============================================================================
