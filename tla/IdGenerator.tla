----------------------------- MODULE IdGenerator -----------------------------
(***************************************************************************)
(* IntegerIdGenerator (RxFoundation/IdGenerator.hpp, src/IdGenerator.cpp)  *)
(* called from several threads through IdGeneratorInterface::getNextIds.  *)
(*                                                                         *)
(* _id is a std::atomic<UInt64>; getNextId makes three separate atomic     *)
(* accesses (the load of the test, the ++, the load of the return), and    *)
(* the threads interleave between them.  UInt64 is W bits wide in the      *)
(* model (Math's Wrap), so max() is 2^W - 1 and the edge is reachable.     *)
(***************************************************************************)
EXTENDS Naturals, Sequences, Math

CONSTANTS
    Callers,     \* threads calling getNextIds
    InitIds,     \* initializeId arguments of the constructor
    BatchSizes   \* size arguments of getNextIds

\* IntegerIdGenerator::InvalidId, also passed as getNextIds' `invalid`.
InvalidId == 0

\* std::numeric_limits<id_type>::max()
MaxId == 2^W - 1

ASSUME InitIds \subseteq 0..MaxId /\ BatchSizes \subseteq 0..MaxId

VARIABLES
    id,        \* _id
    pc,        \* where each caller is
    size,      \* getNextIds' size, counting down
    cur,       \* getNextIds' id: the last getNextId result
    req,       \* the size the caller asked for
    batch,     \* the ids the call has appended to `ids`
    result,    \* what the last getNextIds returned
    issued,    \* every valid id any call has returned (history)
    reissued   \* the valid ids returned more than once (history)

vars == <<id, pc, size, cur, req, batch, result, issued, reissued>>

-----------------------------------------------------------------------------

\* getNextIds(ids, size, invalid): `if (size == 0) return true;`, else the
\* do-while loop starts with a getNextId.
GetNextIds(t, n) ==
    /\ pc[t] = "idle"
    /\ req' = [req EXCEPT ![t] = n]
    /\ batch' = [batch EXCEPT ![t] = <<>>]
    /\ IF n = 0
       THEN result' = [result EXCEPT ![t] = TRUE] /\ UNCHANGED <<pc, size>>
       ELSE /\ pc' = [pc EXCEPT ![t] = "check"]
            /\ size' = [size EXCEPT ![t] = n]
            /\ UNCHANGED result
    /\ UNCHANGED <<id, cur, issued, reissued>>

\* Variant: the test lets _id reach max() and go past it.
Check_le(t) ==
    /\ pc[t] = "check"
    /\ IF id <= MaxId
       THEN pc' = [pc EXCEPT ![t] = "inc"] /\ UNCHANGED cur
       ELSE /\ cur' = [cur EXCEPT ![t] = InvalidId]
            /\ pc' = [pc EXCEPT ![t] = "add"]
    /\ UNCHANGED <<id, size, req, batch, result, issued, reissued>>

\* getNextId: `if (_id.load() < max())`, else `return InvalidId`.
Check(t) ==
    /\ pc[t] = "check"
    /\ IF id < MaxId
       THEN pc' = [pc EXCEPT ![t] = "inc"] /\ UNCHANGED cur
       ELSE /\ cur' = [cur EXCEPT ![t] = InvalidId]
            /\ pc' = [pc EXCEPT ![t] = "add"]
    /\ UNCHANGED <<id, size, req, batch, result, issued, reissued>>

\* `_id++`: an atomic fetch_add, modulo 2^64.
Inc(t) ==
    /\ pc[t] = "inc"
    /\ id' = Wrap(id + 1)
    /\ pc' = [pc EXCEPT ![t] = "load"]
    /\ UNCHANGED <<size, cur, req, batch, result, issued, reissued>>

\* `return _id`: a second atomic load, of whatever _id holds now.
Load(t) ==
    /\ pc[t] = "load"
    /\ cur' = [cur EXCEPT ![t] = id]
    /\ pc' = [pc EXCEPT ![t] = "add"]
    /\ UNCHANGED <<id, size, req, batch, result, issued, reissued>>

\* The history of the ids handed out.
Record(i) ==
    /\ issued' = IF i = InvalidId THEN issued ELSE issued \cup {i}
    /\ reissued' = IF i \in issued THEN reissued \cup {i} ELSE reissued

\* Variant: the result is `size == 0`, without `&& id != invalid`.
Add_ignoresInvalid(t) ==
    /\ pc[t] = "add"
    /\ batch' = [batch EXCEPT ![t] = Append(@, cur[t])]
    /\ size' = [size EXCEPT ![t] = Wrap(@ - 1)]
    /\ Record(cur[t])
    /\ IF size'[t] # 0 /\ cur[t] # InvalidId
       THEN pc' = [pc EXCEPT ![t] = "check"] /\ UNCHANGED result
       ELSE /\ pc' = [pc EXCEPT ![t] = "idle"]
            /\ result' = [result EXCEPT ![t] = size'[t] = 0]
    /\ UNCHANGED <<id, cur, req>>

\* The loop body after getNextId: ids.addObject(id); size--; loop while
\* `size != 0 && id != invalid`; return `size == 0 && id != invalid`.
Add(t) ==
    /\ pc[t] = "add"
    /\ batch' = [batch EXCEPT ![t] = Append(@, cur[t])]
    /\ size' = [size EXCEPT ![t] = Wrap(@ - 1)]
    /\ Record(cur[t])
    /\ IF size'[t] # 0 /\ cur[t] # InvalidId
       THEN pc' = [pc EXCEPT ![t] = "check"] /\ UNCHANGED result
       ELSE /\ pc' = [pc EXCEPT ![t] = "idle"]
            /\ result' = [result EXCEPT ![t] = size'[t] = 0 /\ cur[t] # InvalidId]
    /\ UNCHANGED <<id, cur, req>>

\* IntegerIdGenerator(initializeId)
Init ==
    /\ id \in InitIds
    /\ pc = [t \in Callers |-> "idle"]
    /\ size = [t \in Callers |-> 0]
    /\ cur = [t \in Callers |-> InvalidId]
    /\ req = [t \in Callers |-> 0]
    /\ batch = [t \in Callers |-> <<>>]
    /\ result = [t \in Callers |-> TRUE]
    /\ issued = {} /\ reissued = {}

Next ==
    \E t \in Callers :
        \/ \E n \in BatchSizes : GetNextIds(t, n)
        \/ Check(t) \/ Inc(t) \/ Load(t) \/ Add(t)

Spec == Init /\ [][Next]_vars

-----------------------------------------------------------------------------
(* Properties.                                                             *)

\* Every valid id getNextId returns is returned once only, whichever
\* threads call it and however their atomic accesses interleave.
UniqueIds == reissued = {}

\* getNextId's test against max() keeps _id from wrapping round: the
\* counter never goes back, so an exhausted generator stays exhausted.
IdCounterNeverWraps == [][id' >= id]_vars

\* A getNextIds that returns true has appended exactly `size` ids, none of
\* them invalid.
BatchResultMeansAllValid ==
    \A t \in Callers :
        pc[t] = "idle" /\ result[t] =>
            /\ Len(batch[t]) = req[t]
            /\ \A i \in 1..Len(batch[t]) : batch[t][i] # InvalidId

=============================================================================
