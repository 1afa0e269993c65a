# TLA+ models of RxFoundation: its hash-table engine, reference counting, locks, lists, key-value observing, Unicode tables, byte buffer and id generator

The source is the C++ library under
`src/Example/Pods/RxFoundation/RxFoundation/`. Below, `P/` stands for its
`includes/RxFoundation/` directory.

The centre of the library is an open-addressing hash table. This project
models it as TLA+ specifications and checks them with TLC:

- `P/BasicHash.hpp`: the core algorithm, `BasicHashTable`, and its iterator.
- `P/Dictionary.hpp`: the two storage backends, the heap `Dictionary` and the
  inline-buffer `SmallDictionary`.
- `P/BasicHashTypeInfo.hpp`: the key traits.
- `P/DebugEpochBase.hpp`: the debug epoch that detects stale iterators.
- `P/Math.hpp`: the bit tricks that size the bucket arrays.

Beside it the project models the library's concurrent and reference-counting
code:

- `P/SharedPointerInternals.hpp` (with `P/Atomic.hpp`): the reference
  controller behind `SharedPtr`, `SharedRef` and `WeakPtr`.
- `P/RefCountedBase.hpp` and `P/RefPtr.hpp`: the intrusive count of
  `Rx::Object` and its smart pointer.
- `P/IdGenerator.hpp` and `src/IdGenerator.cpp`: the integer id generator.
- `P/SharedPointer.hpp`: the `SharedRef`, `SharedPtr` and `WeakPtr`
  member functions over the controller.
- `P/Atomic.hpp` and `src/Atomic.cpp`: the `ReadWriteLock` built on a
  `MutexLock` and a `ConditionVariable`.
- `P/Lists.hpp`: the `DoubleLinkedList` and the intrusive `LinkedList`.
- `P/OrderedSet.hpp` (with `P/CollectionContainer*.hpp`): the ordered set
  the observer registry stores its pairs in.
- `P/KeyValueObserverInterface.hpp` and `src/KeyValueObserverInterface.cpp`:
  the key-value observer registry and its notifications.
- `P/UnicodeChar.hpp` and `src/UnicodeChar.cpp`: the surrogate and
  character-set operators and the plane table of the bitmap file.
- `P/Data.hpp` and `src/Data.cpp`: `Rx::Data`, the growable byte buffer.

## The system and how its parts interact

### Key traits (`BasicHashInfo<K>`)

Key traits are pure functions: the empty key, the tombstone key, the hash,
and equality. Only the `int` traits are modelled.

### `BasicHashTable<Derived, K, V, Info, Bucket>`

This is the table itself. It holds the algorithm and reaches its storage
only through the derived class's accessors: `getBuckets`, `getNumBuckets`,
the entry and tombstone counters, `grow` and `shrink_and_clear`.

- **Probe.** `lookupBucketFor` probes triangularly: bucket
  `(h + 1 + 2 + ... + i) mod n`.
  - It stops at the key, which is a hit.
  - It stops at an empty bucket, which is a miss. A miss returns the first
    tombstone it saw, if any.
- **Insert.** `insertIntoBucketImpl` bumps the epoch. It then grows the
  table when the load would reach 3/4. Failing that, it rehashes at the
  same size when at most 1/8 of the buckets would stay free.
- **Erase.** `erase` writes a tombstone.
- **Clear.** `clear` either shrinks the table or resets it in place.

### `Dictionary`

`Dictionary` keeps one heap array of buckets. `grow` allocates at least 64
buckets, rounded up to a power of two. It moves the entries over and frees
the old array.

### `SmallDictionary<K, V, N>`

`SmallDictionary` starts with N buckets inline.

- **Promotion.** Its first `grow` to N buckets or more moves the live entries
  out through `tmpStorage`, switches the union to a heap `LargeRep`, and
  re-probes the entries into the new array.
- **Shrinking.** `shrink_and_clear` may go back to the inline array.

### `DebugEpochBase`

`DebugEpochBase` holds the epoch word. An iterator is a `HandleBase`: it
captures the epoch when it is made, and every dereference and increment
asserts `isHandleInSync`, which compares that value with the epoch now.

### `Math`

- `nextPowerOf2` rounds a size up to a power of two.
- `log2_32_Ceil` and `countLeadingZeros_32` compute bucket sizes.

### Reference controller (`SharedPointerInternals.hpp`)

A `SharedPtr`/`SharedRef` holds a `SharedReferencer`, a `WeakPtr` a
`WeakReferencer`; both point to one heap `ReferenceControllerBase` with a
shared and a weak count, both starting at 1. `ReferenceControllerOps<Mode>`
moves the counts: with interlocked operations in `ThreadSafe` mode (which
`Fast` also is, as `FORCE_THREADSAFE_SHAREDPTRS` is 1), with plain `++`/`--`
in `NotThreadSafe` mode. The release that takes the shared count to 0 runs
`DestroyObject` and then releases the one weak reference the shared ones
held; the weak release that reaches 0 deletes the controller. `WeakPtr::pin`
raises the shared count only if it is not 0, through a CAS loop.

### `RefCountedBase` and `RefPtr`

`RefCountedBase` is a plain `uint64_t ref_cnt`: `retain` is `++`, `release`
is `--` and `delete this` at 0. `RefPtr` retains in its constructors and
assignments and releases in its destructor; its `operator=` retains the new
reference before releasing the old.

### `SharedRef`, `SharedPtr`, `WeakPtr` (`SharedPointer.hpp`)

Each holds an `Object` pointer and a referencer. The copy and move
constructors and assignments, `reset`, `pin` and the destructors change the
referencer through `SharedReferencer`/`WeakReferencer`, which call the
controller operations above. `SharedReferencer`'s assignments compare the
controllers first and do nothing when they are equal; `WeakReferencer`'s
move assignment has no such check.

### `ReadWriteLock` (`Atomic.cpp`)

Three counters `_reader`, `_writer`, `_pending` under a recursive
`MutexLock`; every call takes the mutex through a `LockGuard`. `lockRead`
waits on the `ConditionVariable` while a writer holds or waits; `lockWrite`
counts itself pending once and waits while anyone holds the lock;
`tryLockRead`/`tryLockWrite` fail instead of waiting (`tryLockWrite`
ignores `_pending`); `unlockRead` wakes everyone when the last reader
leaves, `unlockWrite` always.

### `SharedFromThis`

A class derived from `SharedFromThis` carries `WeakThis`, a `WeakPtr` to
itself. The constructors that put a raw object under a new controller
(`SharedRef(T*)`, `SharedPtr(T*)`) call `EnableSharedFromThis`, which, for
such a class, calls `UpdateWeakReferenceInternal`: unless `WeakThis` is
valid, it is assigned from the new pointer, taking a weak count on the
object's own controller. `asShared()` pins `WeakThis`, asserts that the
result is `this`, and returns it as a `SharedRef`. The weak count
`WeakThis` holds goes when the object is deleted, inside the last shared
release, before the weak count all shared references hold together.
`KeyValueObserverInterface` and its `KVOPair`s derive from it.

### `OrderedSet` and the std-container wrappers

`OrderedSet<T>` keeps an `Array<T>` (a `std::vector`) and a `Set<T>` (a
`std::set`) that are meant to hold the same elements; `size()` asserts that
they do. `addObject` appends and inserts, `find(Predicate)` finds the
least matching element of the set and then its position in the array, and
`erase(const_iterator &)` erases the array slot and then, through a
reference into the array, an element from the set. `_set` is a `Set<T>`,
the `std::set` specialisation (Set.hpp), whose `erase(element)` removes
the element `std::find` finds. For an absent element that is
`std::set::erase(end())`, which is undefined; the model leaves the set
unchanged.

### Key-value observing (`KeyValueObserverInterface.cpp`)

An observed object keeps `_observersInfo`, a map from key to an
`OrderedSet` of `KVOPair`s (observer, notify kind, enabled, initialized,
call state), guarded by a recursive `_observerLock`.
- `addObserver` and `removeObserver` each run under the lock. `addObserver`
  finds or inserts the key's set, calls `removeObserver` for the same
  observer, adds a new enabled pair through the iterator it found first, and
  then runs the Initialize round (`_willChangeValueForKey` and
  `_didChangeValueForKey` with kind Initialize) while still holding the lock.
  `removeObserver` finds the first pair equal to `KVOPair(observer, All)`,
  disables it, erases it with `OrderedSet::erase(const_iterator &)`, and
  erases the map entry once the set is empty.
- `willChangeValueForKey`/`didChangeValueForKey` check under the lock that
  the map is not empty, then `_getObservers` finds the key's set under the
  lock, releases it, and copies the enabled pairs out of the set
  **without** the lock. The will loop sets each pair to WillChange; the did
  loop sets DidChange, notifies an Initialize pair not yet initialized, or
  any pair whose value changed, if it is still enabled, and resets the pair
  to Default.
- The destructor asserts that every pair is back in Default.

### The intrusive `LinkedList` (`Lists.hpp`)

Each element is its own node: `_nextLink` points at the next element and
`_prevLink` at the pointer that points at this element (the list head, or
the previous element's `_nextLink`). `Link(head)` pushes the element at
the front; `Unlink` writes its `_nextLink` through `_prevLink` and hands
its `_prevLink` to the next element. Nothing in the repository
instantiates it.

### `UnicodeChar`

Pure functions over UTF-16 code units and a bitmap file of character
sets: the surrogate tests and the decoding of a surrogate pair into a
code point, the membership test of a character in one set's plane bitmap
(with the built-in whitespace and newline sets, and the sets mapped from
the public enum to internal indices), `addCharacterToBitmap`, and the
plane table `LoadBitmapData` reads from the file: after each 8 KiB block,
the number of the next plane. Nothing in the repository calls it.

### `Data`

`Rx::Data` holds `_bytes`, `_length`, `_capacity` and a `DontDeallocate`
flag. Its constructor from bytes either copies them into a zeroed block,
with capacity = length, or, with `copy = false`, uses the caller's block
as it is. In that case `freeWhenDone = false` sets `DontDeallocate`.
`appendData` and `deleteBytes` are `replaceBytes`. When the capacity is
below the new length, `replaceBytes` grows the block with `__dataGrow`:
a `realloc` to `roundUpCapacity(newLength)`. If the source lies inside
the block, it first copies the source, as the `realloc` may free it.
Then it moves the tail and copies the source in. Nothing else in the
repository uses `Data`.

### `IntegerIdGenerator`

`getNextId` tests `_id.load() < max()`, then `_id++`, then returns `_id`:
three separate accesses to a `std::atomic<UInt64>`. `getNextIds` calls it
`size` times, stopping early at an invalid id, and returns whether it got
`size` valid ids.

## Modules

| Module | Models | State and actions |
|---|---|---|
| `Math` | `P/Math.hpp` | Pure operators. `Wrap` is unsigned arithmetic on a W-bit word. `Smear` is the or-shift cascade; `nextPowerOf2`, `max` and `min` follow. `countLeadingZeros_32` has two branches: the `__builtin_clz` one and the bisection one (`Bisect`). `log2_32_Ceil` follows. |
| `BasicHashInfo` | `BasicHashInfo<int>` | The sentinels, `getHashValue` and `isEqual`. |
| `BasicHash` | The algorithm of `BasicHashTable` | Operators on a table record `[buckets, numEntries, numTombstones, epoch, ...]`: `probe` and `lookupBucketFor`, `initEmpty`, `moveFromOldBuckets`, `insertIntoBucket` (the whole of `insertIntoBucketImpl`), `eraseBucket`, `clear`, `reserve`. The backend's `grow` and `shrink_and_clear` are passed in as operator parameters. |
| `KVMap` | What the table promises | An abstract map with one action per public operation and the result it returns. |
| `BasicHashTable` | The public operations | `Insert`, `FindAndConstruct` (`operator[]`), `Find` (`find`/`count`), `Erase`, `Clear`, `Reserve`. It is parameterised by the backend's `grow` and `shrink_and_clear`, and states the table invariants and the refinement of `KVMap`. |
| `Dictionary` | The heap backend | The variable `dict`, with `allocateBuckets`, `init`, `grow`, `shrink_and_clear`, and `BasicHashTable` instantiated over them. |
| `SmallDictionary` | The inline backend | The variable `sdict` (with the `small` discriminator), with `allocateBuckets`, `init`, `promote` (the `_small` branch of `grow`), `grow` and `shrink_and_clear`. |
| `DictionaryIterators` | Iterators over a `Dictionary` | `its` maps iterator variables to `[epoch, gen, pos]`. Actions: `Begin`, `FindIterator` (`find`), `Increment` (`++`), `EraseIterator` (`erase(iterator)`), plus every table operation. |
| `MCSmallDictionary`, `MCDictionaryIterators` | Model-checking instances | Key sets and views. |
| `ReferenceController` | `SharedPointerInternals.hpp` | `ctrl` is the controller (`state`, both counts, the object's state); `shared[t]`/`weak[t]` whether thread t's `SharedReferencer`/`WeakReferencer` holds it; `pc[t]` where t is inside a call; `orig` the `OriginalCount` of the CAS loop. Every interlocked operation is a step: `MakeShared`, `CopyShared`, `MoveShared`, `ReleaseSharedReference` then `DestroyObject` then `ReleaseWeakAfterShared`, `AddWeakReference`, `ReleaseWeakReference`, `PinRead`/`PinCAS` (ThreadSafe pin), `PinNotThreadSafe`. In NotThreadSafe mode a call starts only when no thread is inside one (`CanStart`): the client's serialisation. |
| `RefPtr` | `RefCountedBase.hpp`, `RefPtr.hpp` | `live`/`ref` per RefPtr variable, `cnt`/`ostate` per object. One action per member function: the four constructors, the destructor, both assignments, `safeRelease`, `Swap`. |
| `IdGenerator` | `IdGenerator.hpp/.cpp` | `id` is `_id`; per caller `pc`, `size`, `cur`, `req`, `batch`, `result`; `issued`/`reissued` are history. Actions: `GetNextIds` (the call and its `size == 0` return), `Check`, `Inc`, `Load` (getNextId's three accesses), `Add` (the loop's tail and the return). |
| `ListSequence` | What `DoubleLinkedList` promises | The list as a sequence of nodes `lst` with their values `val`, one action per public call, and `call`, the last call and its arguments. |
| `DoubleLinkedList` | `Lists.hpp`'s `DoubleLinkedList` | `head`, `tail`, `size`, and per node address `next`, `prev`, `value` and `nstate` (free, in the list, or out: erased but not deleted); `call` is history. Helpers `pushFront`, `addObject`, `insert`, `erase`, `clear`, `findNode` are the member functions; `PushFront`, `AddObject`, `Insert` (both overloads), `Erase`, `EraseValue`, `Clear` are the calls. `Chain` walks `_next` from the head, as `clear` and `findNode` do. |
| `LinkedChains` | What the intrusive `LinkedList` promises | `lists[h]`, the sequence of elements reached from each head; `Link(n, h)` pushes n at the front of h, `Unlink(n)` removes it; `call` the last call. |
| `LinkedList` | `Lists.hpp`'s `LinkedList` | `link[slot]`, the element each pointer slot (a head, or an element's `_nextLink`) points at; `prevLink[n]`, the slot that points at n, or `Null` when unlinked; `call` is history. `Link` and `Unlink` are the member functions, `IsLinked` is `isLinked`, `Walk` follows `_nextLink` from a head. It refines `LinkedChains` with `lists[h] = Walk(h)`. |
| `SharedPointers` | `SharedPointer.hpp` over the NotThreadSafe controller | `ptr[v]` is each pointer variable's `[obj, rc]` (the `Object` pointer and the referencer's controller, or `Dead` when not constructed); `ctrl[o]` is the controller of each object, with the object's `WeakThis` (the controller it holds, or `Null`) for the objects of a `SharedFromThis` class (`Shareable`). One action per member function: `SharedRefNew`/`MakeShareable`/`Copy`/`Cast`/`FromPtr`/`FromPtrMove`/`Assign`/`MoveAssign`, `ToSharedRef`, `SharedPtrNull`/`New`/`MakeShareable`/`AssignShareable`/`Copy`/`Cast`/`FromRef`/`Move`/`Assign`/`MoveAssign`/`Reset`, `Pin`, `WeakPtrNull`/`Copy`/`Move`/`Assign`/`AssignShared`/`MoveAssign`/`Reset`, `AsShared`, and the destructors; the new-object constructors call `EnableSharedFromThis`/`UpdateWeakReferenceInternal`, and the last shared release `DestroyObject`, which releases `WeakThis`. The referencer helpers (`SharedAssign`, `AssignReferenceController`, `SharedReferencerMoveAssign`, `SharedReferencerFromWeak`, `WeakReferencerMoveAssign`) are the functions of `SharedPointerInternals.hpp`. |
| `ReadWriteLock` | `Atomic.cpp`'s `ReadWriteLock` | `mtx` the mutex owner, `waiting` the threads asleep on the condition, `reader`/`writer`/`pending` the counters, `op`/`stage` where each thread is in a call, `held` what it holds. Each call is `Call`, `Acquire` (the LockGuard), the body (`LockRead`, `TryLockRead`, `UnlockRead`, `LockWrite`, `TryLockWrite`, `UnlockWrite`, each ending in the release or a `wait`), and `SpuriousWakeup`. `lock`, `unlock`, `wait`, `notifyAll` are the MutexLock and ConditionVariable calls. |
| `OrderedSet` | `OrderedSet.hpp`, `CollectionContainer3.hpp` | Operators on a record `[arr, set]` (the `_array` sequence and the `_set` set): `addObject`, `find` (with `findFound`, the `RxCheck` that the set's element is in the array), `eraseAt` (`erase(const_iterator &)`, with the reference into the array that the array erase shifts), `SetErase` (`Set<T>::erase(e)`, one element), `SizeAgrees` (`size()`'s check), `begin`, `valid` (`operator bool`), `next` (`operator++`). |
| `KVO` | `KeyValueObserverInterface.cpp` | `info` is `_observersInfo` (key to an `OrderedSet` record of pair addresses, or `NoEntry`); `pair` the `KVOPair` at each address (`NoPair` where none lives: an address is freed, and `Release` resets it, once no set and no thread's copy holds it, so a new pair may reuse it as `MakeShareable` may); `th[t]` where thread t is inside will/did (the key, the stage, the copy_if position `idx`, the matched pairs, the loop position `j`, and `intact`, whether no other thread wrote the set since the walk began); `notice` the notifications of the last step; `subscribed` the client's history; `failed` an `RxCheck` of the set that failed and aborted the process (`Aborted` stutters after it). `AddObserver` and `RemoveObserver` are one locked step each, with `removeObserver` (the member function, also called by `addObserver`), `MatchesTarget` (`operator==`) and `InitializeRound`. A will/did call is `Begin`, `CheckEmpty`, `Find` (lock released after it), `Iterate` (one copy_if element per step), then `WillPair`, or `DidPair` and `Notify`. |
| `MCIdGenerator`, `MCSharedPointers`, `MCKVO` | Model-checking instances | |
| `MCDictionaryController` | Dictionary and ReferenceController | A sum: `part` picks one component in the initial state, and each step is a step of that component; the others' variables stay unchanged. The state space is the sum of the parts, not their product. The controller's fairness is stated for its steps within the sum. |
| `MCComponents` | RefPtr, IdGenerator, DoubleLinkedList, LinkedList, SharedPointers, the pure operators, ReadWriteLock and KVO | The same kind of sum. `ReadWriteLock` is instantiated as it is, `KVO` with one client thread; the lock's fairness is stated for its steps within the sum. |
| `UnicodeChar` | `UnicodeChar.hpp/.cpp` | Pure operators: the set enum and `MapExternalSetToInternalIndex`/`MapCompatibilitySetID`, `isWhitespace`, `isNewline`, the surrogate tests, `getLongCharacterForSurrogatePair` (a 32-bit unsigned result), `isMemberOfBitmap`, `addCharacterToBitmap`, `isMemberOf(c, set, table)` and the plane loop of `LoadBitmapData` (`PlaneLoop`, `LoadPlanes`) over the bytes of a file. |
| `Data` | `Data.hpp/.cpp` | `data` is `NoData` or `[bytes, length, capacity, dontDeallocate, buffer]`, where `buffer` says whether the block is the Data's (`owned`) or the caller's (`borrowed`). `contents` is the sequence the calls promise. `callerBuffer` tracks a borrowed block: `none`, `lent`, or `released` once it went to `realloc`. Actions: `DataNew`, `DataNewFromBytes` (both constructors), `DataDestroy`, `AppendData`, `AppendDataSelf` (`appendData(*this)`), `ReplaceBytes`, `DeleteBytes`. Helpers: `replaceBytes`, with `SourceBuffer` (the overlap copy), `dataGrow` (`__dataGrow`), `MoveTail` (the tail `memmove`) and `SourceReads` (a source read after a `realloc` that moved the block reads freed memory: any bytes). Also the pure `roundUpCapacity` and `flsl`, with the sizes of a 32-bit build. |
| `MCMath`, `MCHash` | Reference checks of the pure operators (`MCMath` also of the probe loop and of `UnicodeChar`) | Each fixes an input as a constant variable; `MCMath` is instantiated by `MCComponents`. |

Components share one run when they are cheap enough to: the sum costs
about the sum of its parts, and fewer, larger runs keep the whole check
short.

### How the model corresponds to the code

- **Buckets.** A bucket array is a function from `0..n-1` to
  `[key, val]`. The empty function is the null array.
  - A freshly allocated array holds `Uninit` keys, until `initEmpty` writes
    `getEmptyKey()`.
- **Counters.** `_numEntries` and `_numTombstones` are `size_t`. Every change
  to them goes through `Wrap`. An unbalanced decrement therefore wraps, as
  in the code, and is not clamped.
- **`gen`.** `gen` counts bucket allocations. It is a history variable: it
  lets the iterator property tell a freed array from the live one. The
  `epoch` and `gen` fields only grow, so each MC module's `VIEW` leaves them
  out.
  - In the iterator model the view keeps only whether an iterator's captured
    epoch and gen equal the table's current ones. Nothing else reads their
    values, so the view is exact.
- **KVO.** Pairs live at addresses `1..MaxPairs`; `SharedRef`'s `<` and
  `==` compare addresses, so the `OrderedSet` of a key holds addresses, and
  `find` returns the least matching one. A freed address goes back to
  `NoPair`, so states that differ only in dead pairs are one state. Values
  and contexts are left out: "the value changed" is a nondeterministic
  choice per pair and round. When another thread writes the set a walk
  reads (appends, erases, or erases the entry) while the walk is unlocked,
  the walk is no longer `intact`, which is what `UnlockedIterationSafe`
  reports.
- **Unicode.** Bitmaps and the file are sequences of byte values. The
  8 KiB plane block is `BlockSize`, 4 in the checks; the loop's arithmetic
  is the code's with that constant. `getLongCharacterForSurrogatePair`
  computes in `UInt32`: a pair whose result would be negative wraps, which
  the model keeps as one value above every code point (`HighU32`), since
  TLC integers stop at 2^31.
- **Return values and the hung probe.** `ret` holds the result of the last
  call. `Hung` is a probe that never terminates, which is the `while (1)` of
  `lookupBucketFor` when no bucket is empty. After it, no step is enabled.

### Source that does not compile

These templates do not compile as written, so some instantiations cannot be
built. The model follows what the code evidently means, and notes each case:

- `~ValueT()` appears in both `erase` functions (BasicHash.hpp:344 and :353).
- `getLargeRep()->numBuckets` (Dictionary.hpp:358) names a field that does
  not exist. The field is `_numBuckets`.
- `SmallDictionary::swap` line 223 initialises a `BucketTy *` from a
  `BucketTy`. `swap`, and the move assignment that calls it, cannot be
  instantiated, so they are not modelled, and the missing epoch bump in
  `swap` (Dictionary.hpp:213) cannot happen in a built program.
- `BasicHashTableIterator::operator++() const` modifies `_begin`.
- The pointer traits call their tombstone function `getTombstone`, and the
  `char` traits call it `getTombstonKey`.

## Runs

### Table runs

**`dictionary_controller` (pass): `MCDictionaryController.cfg`.**

The `Dictionary` part and the reference controller (see below) in one sum.

The dictionary setup:
- keys {1, 2, 3, 5, 9} and values {v1, v2};
- `MinBuckets` = 4, with the constructor's reserve 0 or 2 and `reserve(5)`.

It checks:
- `TypeOK`.
- `CountersConsistent`: the counters equal the numbers of live and tombstone
  buckets, and the bucket count is 0 or a power of two.
- `ProbeChainIntact`: every live key is found by its own probe before any
  empty bucket, and is stored once.
- `ProbeAlwaysStops`: an allocated array keeps an empty bucket.
- `KVMapRefinement`: every call returns what the abstract map returns.

**`small_dictionary` (pass): `MCSmallDictionary.cfg`.**

The setup is `SmallDictionary<int, V, 4>` with a minimum large size of 8.
It checks `TypeOK`, `CountersConsistent`, `KVMapRefinement` and
`LargeRepLargerThanInline`. The last says that `allocateBuckets` is never
asked for N buckets or fewer, which is its assertion.

### Iterator runs

**`iterators` (pass): `MCDictionaryIterators.cfg`.**

It checks `InSyncIteratorIntoLiveArray`: an iterator that passes
`isHandleInSync` points into the array the table holds now, and its bucket
has not been reset by `clear`.

The setup:
- W = 6 and one value, which keeps the run in minutes;
- `MinBuckets` = 4, so grows and same-size rehashes do occur.

The properties do not depend on the width.

### Runs that find violations

**`small_inline_at_min` (violation): `LargeRepLargerThanInline` with
`MinBuckets` = `InlineBuckets`.**

This is `SmallDictionary` with N ≥ 64, scaled down. A same-size rehash of a
small table makes `grow` round N up to exactly N. It then calls
`allocateBuckets(N)`, whose assertion `Num > InlineBuckets` fails.

**`iterator_erase` (violation): `InSyncIteratorDereferenceable`.**

`erase(key)` does not bump the epoch. An iterator from `find(k)` therefore
still passes the check after `erase(k)`, while it points at a tombstone.
`erase(it)` then decrements `_numEntries` a second time. spec.md says that
every erase invalidates iterators.

**`int_hash` (violation): `IntKeysScaledByHashFactor`.**

`BasicHashInfo<int>::getHashValue` passes `decltype(val)`, which is
`const int &`, to the helper. That type is not integral, so the identity
overload is chosen, not `|key| * HASHFACTOR`.

**`shared_ptr_move` (violation): `HeldReferenceMatchesObject`.**

`SharedPtr::operator=(SharedPtr &&)` (SharedPointer.hpp:679) nulls the
source's `Object` and then move-assigns the `SharedReferencer`, whose move
assignment does nothing when both already hold the same controller. After
`p2 = SharedPtr(new T)`, `p1 = p2`, `p1 = std::move(p2)`, `p2` is null but
still holds a shared reference: the object outlives every valid pointer
that knows of it, and `getSharedReferenceCount()`/`isUnique()` on `p1`
count it. The move constructor and `reset` leave the source holding
nothing, which is what the property asks.

**`kvo_readd` (violation): `RegistryMatchesSubscriptions`.**

One thread, two observers, two keys. `addObserver(o, k)` then
`addObserver(o, k)` again: the nested `removeObserver` removes o's pair,
finds the set empty and erases k's map entry (cpp:87), freeing the set
that `addObserver`'s iterator `it` points to; the new pair is added through
the dangling iterator (cpp:66). The map has no entry for k, so o, which
just subscribed, is not registered and is never notified. The same
property also fails for a pair added with notify kind 0, which
`operator==` can never match (hpp:182); the run keeps the kinds non-zero.

**`kvo_unlocked_iteration` (violation): `UnlockedIterationSafe`.**

Two threads, one key. `_getObservers` releases the lock after `find` and
walks the set with `copy_if` unlocked (cpp:104): while one thread is
inside the walk, the other's `addObserver` or `removeObserver` appends to,
erases from or frees the same set.

**`id_generator_duplicate` (violation): `UniqueIds`.**

Two threads on a fresh generator: both run `_id++` before either runs
`return _id`, and both return 2. The member is a `std::atomic`, so the
class means to be shared between threads; `return ++_id;` would not lose.

The same race has a second effect: at max() - 1 both threads pass the
test, both increment, and `_id` wraps to 0 = `InvalidId`; the generator
then issues 1, 2, ... again. The module states it as
`IdCounterNeverWraps`, which breaks with two callers from `InitIds = {6}`;
no run checks it, and it is listed as a hazard of IdGenerator.cpp:25.

**`kvo_erase` (violation): `ObserverSetCoherent`.**

One thread, two observers, one key. `OrderedSet::erase(const_iterator &)`
(OrderedSet.hpp:206) binds `auto &value = *it` into `_array`, erases the
array slot, and then erases `value` from `_set`; after the array erase,
`value` names the next element, and `Set<T>::erase` (Set.hpp:90) removes
that element instead. With o1's pair at address 1 and o2's at address 2, `addObserver(o1)` again
(whose nested `removeObserver` erases o1's pair) leaves `_array` = [2, 3]
and `_set` = {1, 3}: the sizes still agree, but o2's pair is in the array
and not in the set, and o1's freed pair the other way round. From then on
`find` for o2 finds nothing, so o2 cannot be removed, and a later add
duplicates it. `removeObserver` is the only caller of this erase, and
every re-add and remove of an observer that is not last in its set takes
it.

### Reference-counting and id runs

**`dictionary_controller`, controller part.** Four threads copy, move, release and pin
pointers to one object, in both ESPModes (`mode` is chosen in the initial
state): in ThreadSafe mode every interlocked operation is a step, in
NotThreadSafe mode the client serialises the calls. Checked:
- `CountsMatchReferencers`: both counts equal the references that exist;
- `NoUseAfterDestroy`: a valid SharedPtr never refers to a destroyed object,
  so pin racing the last release never revives it;
- `ControllerOutlivesReferences`: the controller is deleted only when no
  thread holds it or is inside a call on it;
- `UnreferencedIsFreed`: once nobody holds a reference, the object is
  destroyed and the controller deleted.

**`components` (pass).** The single-threaded contracts, the lock,
the KVO registry and `Data`, as a sum (`MCComponents`):
- Data, one object after another: `DataHoldsContents` (see "Data" below);
- RefPtr, with three RefPtr variables and two objects and every sequence of
  operations: `TypeOK` (ref_cnt never released at zero),
  `CountMatchesHolders` (ref_cnt is the number of holders) and
  `NoDanglingNoLeak` (an object is deleted exactly when its last holder
  lets go, self-assignment included);
- IntegerIdGenerator, one caller at a time over 3-bit ids, from 0 and from
  max() - 2: `BatchResultMeansAllValid` (a `true` from getNextIds means
  `size` valid ids, so the batch stops at the first invalid one). With one
  caller, `UniqueIds` and `IdCounterNeverWraps` hold by the max() test
  alone, so this run does not check them. Only two callers break them,
  which is the `id_generator_duplicate` run;
- DoubleLinkedList, three node addresses and two values, erased nodes
  handed back to the `Node*` overloads: `WellLinked` (from the head,
  `_next` reaches `_size` distinct nodes, exactly those in the list, ending
  at `_tailNode`; every `_prev` points back; nodes outside the list have
  null links, which `push_front` and `addObject` rely on) and
  `ListRefinement` (the list implements `ListSequence`);
- SharedRef/SharedPtr/WeakPtr, one SharedRef, two SharedPtrs, two WeakPtrs
  and two objects: `CountsMatchPointers` (the shared count is the number of
  shared pointers holding the controller, the weak count the weak ones plus
  one while any shared one exists, through self-, same-controller and
  cross-controller assignment, moves and pins of expired pointers) and
  `SharedNoDanglingNoLeak` (no pointer holds a deleted controller, no
  shared pointer a destroyed object, and a controller nobody holds is
  deleted);
- the pure operators (below).

- `SharedFromThis`, on the same pointers with `o1` of a `SharedFromThis`
  class: `AsSharedFindsThis` (for every object a live shared pointer
  reaches, `WeakThis` pins, so `asShared()`'s check holds, and holds the
  pointer's own controller, so the `SharedRef` it returns shares the count).
  `CountsMatchPointers` counts `WeakThis` among the weak holders, and
  `SharedNoDanglingNoLeak` shows that the weak count an object holds on its
  own controller does not keep that controller alive.
- the intrusive `LinkedList`, four elements and two heads, with `Link`
  offered only elements that are not linked, as its callers must:
  `LinksConsistent` (from each head `_nextLink` reaches a chain without
  cycles, every slot that points at an element is that element's
  `_prevLink`, `isLinked` holds exactly for the elements of some chain, and
  an unlinked element's `_nextLink` is null) and `LinkedRefinement` (every
  `Link` and `Unlink` changes the chains from the heads as `LinkedChains`
  says).
- KVO with one client, two observers, one key, kinds New and New|Initialize
  and three pair addresses: `CallStateDefaultWhenIdle` (whenever no
  will/did call is in progress every pair is back in Default, which the
  destructor asserts, through add, re-add, remove and the Initialize
  rounds, including the states the erase bug of `kvo_erase` leads to).
  `Aborted` is the process stopped at a failed check: it only stutters.

**`components`, lock part.** Two readers and two writers, every call
split at the mutex, the condition wait, the wake-up (spurious ones
included) and the reacquire:
- `ReadersWritersExclusive`: at most one writer holds the lock, and never
  together with a reader, `tryLockWrite` barging past waiting writers
  included;
- `CountersMatchThreads`: `_reader`/`_writer` count the holders and
  `_pending` the writers inside `lockWrite` that have not yet taken the
  lock, across every wait and wake-up;
- `WaitingWriterServed`: once a writer waits in `lockWrite`, some writer
  eventually holds the lock, however the readers come and go.

### Pure-operator runs

These are the `math` part of `components`. `MathMatchesReferences` checks, for every 16-bit word:
- `nextPowerOf2` is the least power of two above it, or 0 when that power
  overflows the word;
- the bisection `countLeadingZeros_32` agrees with the builtin, on both the
  low and the high words;
- `log2_32_Ceil` is the ceiling of log2.

In the same run, `ProbeReachesEveryBucket`: for every power-of-two table of 1 to 64 buckets, every start bucket and every single
empty bucket, the triangular probe reaches the empty bucket.

And for `UnicodeChar`:
- `SurrogatePairDecoded`: every high surrogate with the edge low
  surrogates, and every low one with the edge high ones, decodes to the code
  point whose UTF-16 encoding (the reference `UTF16Pair`) is that pair;
- `BitmapHoldsWhatWasAdded`: for the characters 0–1023 and 65000–65535,
  adding one to an empty bitmap makes it a member and none of its 17
  neighbours on either side, and a second add keeps the first;
- `CharsetsReadTheirOwnBitmap`: over a table whose t-th bitmap holds
  character t alone, every set with a bitmap (public sets through
  `MapExternalSetToInternalIndex`, compatibility sets through
  `MapCompatibilitySetID`, and Control) contains exactly the character of
  its own slot, Illegal every other character, and IDs of no set nothing;
- `RoundUpCapacityMatchesReference`: for every capacity up to 300, each
  power of two from 2^8 to 2^30 and its neighbours, and the edges of the
  last chunk and of `DataMaxSize`, `roundUpCapacity` gives the reference.
  The reference is 16 below 16. Below `LowThreshold` it is the least power
  of four above the capacity, and below `HighThreshold` the least power of
  two above it. Above that it is the least multiple of `ChunkSize` above
  it, capped at `DataMaxSize`.
- `PlaneTableMatchesFile`: for every increasing list of two to four plane
  numbers from 0..6 starting at 0, the bitmap written as blocks each
  followed by the number of the next stored plane is read back by
  `LoadBitmapData`'s loop with `numPlanes` one above the last, each stored
  plane at its block's offset and every other plane null.

### Data

`DataHoldsContents`, in the `data` part of `components`: every sequence
of constructions, `appendData` of bytes or of the Data itself,
`replaceBytes` and `deleteBytes` leaves the Data holding exactly the
bytes the calls promise, within its capacity. This includes the
self-append that makes the block grow: the model lets a `realloc` move
the block and the old block's bytes be anything. So only the copy of the
overlapping source keeps the property.

`BorrowedBufferKept` is stated in `Data` but checked by no run, as the
project has its twelve runs. Checking it by hand with TLC breaks it in
two steps: `Data(bytes, 1, false, false)`, then `appendData` of one byte.
`replaceBytes` finds the capacity (1) below 2 and reallocs the caller's
block. Data.hpp says that with `freeWhenDone = false` the pointer is used
directly. After the `realloc` the caller's pointer may be freed, or the
`realloc` may fail on a block not from `malloc`. The new block is never
freed, since `DontDeallocate` stays set (Data.cpp:301).

## Bounds, and why they are enough

- **Keys.** The keys are {1, 2, 3, 5, 9}.
  - Modulo 4 they give residues 1, 2, 3, 1, 1, so three keys collide in a
    4-bucket table. Probe chains of length three occur, with tombstones in
    the middle of them.
  - Modulo 8 the keys still collide: 1 and 9.
- **Bucket counts.** `MinBuckets` stands for the code's 64: 4 for
  `Dictionary` and 8 for `SmallDictionary`. With it, growth, doubling,
  same-size rehash, shrink and promotion all happen within five keys.
  - The sizing formulae are the code's, with only the floor 64 replaced.
- **Word width.** W = 16 stands for 64-bit `size_t`. Every operator wraps
  the same way at any width, and the wrap cases (for example `grow(0)`
  computing `nextPowerOf2(0 - 1)`) are reached.
- **Values.** Two values are enough to tell an overwritten value from a
  kept one.
- **Iterators.** One iterator variable is enough. Each property is about a
  single iterator and the table.

- **Threads.** Four threads in ThreadSafe mode give every pair of racing
  operations a third and fourth party (for example two pins and the last
  release, with a weak holder keeping the controller). The model has one
  controller; pointers to different controllers never touch each other's
  counts.
- **RefPtrs.** Three variables and two objects give self-assignment,
  assignment across objects and copy/move chains.
- **List nodes.** Three addresses give a head, a tail and an inner node to
  erase and insert before; two values let two nodes carry the value
  `erase(InElement)` looks for, so "the first one" matters.
- **Smart pointers.** One SharedRef, two SharedPtrs and two WeakPtrs over
  two objects give assignment across controllers, within one controller and
  to itself, moves between pointers of one controller, and a WeakPtr
  outliving its object and then pinned or assigned.
- **SharedFromThis.** One of the two objects derives from
  `SharedFromThis` and the other does not, so both overloads of
  `EnableSharedFromThis` run; `asShared` into the one SharedRef meets the
  copies, moves and releases of the other pointers.
- **Intrusive list.** Four elements and two heads: an element can be
  unlinked from the front, middle or end of a chain of three while the
  other head holds a chain of its own, and relinked under either head.
- **Lock threads.** Two readers and two writers: two readers share the lock
  while a writer waits, and a second writer can barge with `tryLockWrite`
  or wait behind the first.
- **KVO.** In `components`: one client (the registry's pass run cannot
  have two threads, since the unlocked walk is a bug that fires first), two
  observers and one key give re-add, add beside another observer, and
  remove of the last pair; kinds New and New|Initialize give both branches
  of the did loop; three pair addresses allow an add, a re-add and a
  second observer's add, in either address order. The violation runs use two keys (`kvo_readd`) and two
  threads (`kvo_unlocked_iteration`).
- **Unicode.** The surrogate pairs cover every high surrogate with the
  edge low ones and the reverse; the characters cover the first 1024 and
  the last 536 code units, so every bit position and both ends of the
  bitmap; the set IDs are every ID of the two enums and the gaps around
  them; the plane lists are all increasing lists from plane 0 with two to
  four entries up to plane 6, so gaps of every size up to five. A plane
  block of 4 bytes stands for 8192: the loop only counts blocks.
- **Ids.** W = 3 gives max() = 7: the exhaustion and wrap edges are a few
  calls away. The races need two threads; the edges behave the same at 64
  bits.

- **Data.** Bytes are 1 and 2, and a Data holds at most four bytes.
  Byte arguments have at most two bytes, and the constructors take up to
  two. A Data built from bytes has capacity = length, so its first longer
  append grows it. A self-append from two bytes grows with an
  overlapping source. Two byte values tell a corrupted copy from a good
  one. Past 16 bytes the growth sizes are `roundUpCapacity`'s, which the
  pure run checks up to `DataMaxSize`.

## Fairness

The table, RefPtr and id-generator specs assume none: their properties are
safety and action properties, and a caller may stop calling at any point.

`ReferenceController` assumes weak fairness of `Continue(t)`, the steps of a
thread already inside a call (the decrement's aftermath, `DestroyObject`,
the weak release, the second half of the pin loop). A preemptive scheduler
does not stop a thread forever in the middle of a function; whether a thread
starts a call is up to the program, so those steps get no fairness.
`UnreferencedIsFreed` depends on exactly this.

`KVO` assumes none: its properties are safety.

In the sums, each fairness condition is stated for the steps of its own part
(`part = ...` conjoined), so it constrains only behaviours of that part.

`ReadWriteLock` assumes weak fairness of a thread's body once it owns the
mutex (the code under the mutex does not block), strong fairness of the
mutex acquisition (a thread waiting for a mutex that is free again and
again gets it: pthread mutexes hand the lock on, and the model assumes no
thread is passed over forever), and weak fairness of the unlock calls (a
client's critical section ends). Taking a lock is up to the program and
gets none. `WaitingWriterServed` needs all three.

## Mutants

Each property of a passing run is shown to be violated by a plausible bug in
the code it is about. The bugs are:

- a missed tombstone decrement;
- an erase that writes the empty key;
- a dropped same-size rehash;
- a probe that stops at the first tombstone;
- promotion that drops an entry or keeps the tombstone count;
- `>` where the code has `>=`;
- a clear that bumps the epoch only when it shrinks;
- a short shift cascade, a short bisection loop, or a missing `- 1`;
- a pre-incremented probe stride;
- a pin that increments without the compare, or without the expiry test;
- a weak release that deletes at 1, or that keeps its pointer;
- a move that adds a reference, or that leaves the source set;
- a last release that skips `DestroyObject`;
- a getNextIds result that ignores the invalid id;
- an assignment that releases the old reference before retaining the new;
- a SharedPtr last release that keeps the weak reference, and a WeakPtr
  move assignment that leaves the source set;
- a `tryLockWrite` that ignores readers, a `lockWrite` that counts itself
  pending on every round, a `lockRead` that ignores pending writers, and an
  `unlockWrite` that decrements `_pending`;
- a list erase that does not null a kept node's links, and a `findNode`
  without its `break`;
- a KVO did round that leaves the pair in DidChange;
- an `Unlink` that keeps the element's links, and a `Link` that points
  the head at the element before copying the old head into its
  `_nextLink`;
- a `MapExternalSetToInternalIndex` with `<` for `<=`, a surrogate decode
  without the `0x10000` base, an `addCharacterToBitmap` that assigns the
  byte instead of or-ing it, and a plane loop that counts the blocks
  wrongly;
- an `UpdateWeakReferenceInternal` with its test inverted;
- a `replaceBytes` that does not copy an overlapping source before the
  grow, and a `roundUpCapacity` without the rounding to an even bit.

The full list is in `PROJECT.json`.

## Not modelled, and why

### Parts of the modelled components

- `copyFrom`, `insert_as` and `find_as`, and the range insert.
- `swap`, copy and move for both backends (`SmallDictionary`'s do not
  compile).
- Reverse iteration, which is taken only for pointer keys.
- `SmallDictionary` iterators.

`Dictionary`'s `swap` and `copyFrom` are planned as a two-table module.

### Concurrency and reference counting

- Custom deleters build the same controller as the default one, and the
  comparison operators only read.
- `DynamicCastSharedRef`/`DynamicCastSharedPtr` keep the source's
  reference even when `dynamic_cast` yields null, so a failed cast gives a
  null `SharedRef` (which the class says never happens) or a null
  `SharedPtr` that still holds the object, as the move bug of
  `shared_ptr_move` does. Nothing in the repository calls them; they are
  not modelled, so that the `shared_ptr_move` run keeps to the move.
- `SharedRef::operator=(RawPtrProxy const &)` (SharedPointer.hpp:335)
  ignores the controller `MakeShareable`'s proxy has already made and
  builds a second one for the object: the proxy's controller leaks. The
  model names controllers by their objects and cannot hold two for one
  object; nothing in the repository calls this assignment (the KVO code
  constructs from a proxy, which is modelled). `SharedFromThis` is modelled for objects made by
  `new`; a second controller for the same raw object (two `SharedRef(T*)`
  of one pointer) is a misuse the code does not detect, and the model
  gives each object one controller. `SharedPointers` is
  single-threaded; the thread-safe counts are `ReferenceController`'s.
- `Atomic.hpp`'s `SpinLock` (it guards only printing and the Unicode
  bitmap; its `tryLock` returns the inverse of what `LockingInterface`
  means, but nothing calls it), `Semaphore`, `notifyOne`, and
  `isReading`/`isWriting`, which only read.
- `Any` (its comparisons lock `this` then the other operand's spin lock,
  so `a == a` deadlocks).
- In KVO: `KeyValueCodingInterface` (`getValueForKey`/`setValueForKey`,
  which throw for undefined keys), old and new values and contexts (a
  nondeterministic "changed" instead), and the dependent-key loop of
  `_didChangeValueForKey`, which never runs because
  `keyPathsForValuesAffectingValueForKey` returns an empty set. The
  check-then-notify race on `isEnabled` (cpp:214) is listed as a hazard.
  `addObserver` notifies while holding its lock (cpp:68); no observer in
  the repository takes a lock in its callback, so there is no lock order
  to check.
- `RefCountedBase`'s count is not atomic and nothing offers it to threads,
  so `RefPtr` is checked single-threaded; the lost-update race is listed as
  a hazard.
- `StringIdGenerator` uses `arc4random_buf`.
- `IdGeneratorInterface<UInt64>::InvalidId` is declared and never defined;
  only `IntegerIdGenerator::InvalidId` (= 0) is.

### Lists

- The plain `List` node, which has no operations that change a list.
- The `Node*` overloads of `DoubleLinkedList` do not check that a node is
  unlinked, and `LinkedList::Link` does not check that the element is
  unlinked; the models hand them only free, erased or unlinked elements,
  as a correct caller does.
- `LinkedList::GetPrevLink` returns a `LinkedList**` as a `LinkedList*`
  and would not compile if instantiated; nothing instantiates the class.

### OrderedSet and the container wrappers

- The `OrderedSet` operations no code in the repository calls
  (`addObjects`, `erase(value)`, `pop_back`, `contains`, the comparisons,
  the copy and initializer-list constructors) and the wrappers over
  `std::vector`, `std::set`, `std::string` and `NSData`: they add no
  control of their own to the standard containers.

### UnicodeChar

- Locating the bitmap data (a Mach-O section, `LoadFile`) and the file
  header, and the lazy load of `BitmapDataArray`: `isMemberOf` tests the
  pointer without the lock (UnicodeChar.cpp:289) and `LoadBitmapData`
  tests it again under `BitmapLock`, a double-checked load on a plain
  pointer. Nothing calls `UnicodeChar`, so no two threads reach it.
- `LoadBitmapData` for a bitmap of a single block reads `numPlanes` from
  the byte before the bitmap (UnicodeChar.cpp:224); the plane run checks
  bitmaps of two blocks or more, where the loop runs.
- The branches of `isMemberOf` for planes 14 to 16: `_character` is a
  `UTF16Char`, so its plane is always 0 and they are dead.

### Data

- The copy constructor. It has no member initialisers, so `appendData`
  reads `_length` and `_capacity` before anything sets them
  (Data.cpp:113).
- The move constructor. It copies `_bytes` and leaves the source's in
  place, so both destructors free the block. It also drops the
  `DontDeallocate` flag (Data.cpp:117). Modelling it needs two Data
  objects at once; the model has one at a time.
- `setLength`. It sets `_length` with no capacity check and no zeroing,
  and nothing calls it.
- `operator==`, `hash`, `copyDescription` and `writeToFile` (which is
  commented out). None of them changes state.
- The Android `flsl`, defined as `__builtin_ffs`: the lowest set bit, not
  the highest (Data.cpp:23). Under it `roundUpCapacity(24)` is 16, and a
  grow to 24 bytes writes past the block. The model takes the Apple
  build's `flsl`.
- `handleOutOfMemory`, which halts past `DataMaxSize` or when `realloc`
  fails.

### Small-dictionary inline capacity

spec.md's example keeps three keys in a four-bucket inline map. The code
promotes on the third insert, since `insertIntoBucketImpl` grows when
`(entries + 1) * 4 >= buckets * 3`, that is at 3·4 ≥ 4·3. This is a
difference in wording from the spec rather than a defect, and it is not
checked as a run of its own; the `small_dictionary` run goes through the
promotion.

### Out of scope

- The wrappers over std containers (Array, Set, String).
- The reflection helpers.
- The platform I/O: ports, crash reporting, call stacks.
- The Objective-C interface headers, whose implementations are not in the
  repository.

None of these has a state machine, or the code to model is missing.

## Plan for later sittings

1. The two-table `Dictionary` / `SmallDictionary` module, with `swap`, copy
   and move.
2. `Any`'s locked comparisons.
3. A run for `Data`'s `BorrowedBufferKept` (a violation), and two Data
   objects at once for the move constructor.
4. The uncovered hazards: the re-entrant `lockRead` and reader
   starvation of `ReadWriteLock`, and the stale `isEnabled` test of the
   KVO notification loop.
