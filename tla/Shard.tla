-------------------------------- MODULE Shard --------------------------------
(***************************************************************************)
(* One shard of gateway/cache: a map of keys to elements of a list that is *)
(* ordered by last use, with limits on the number of entries and on their  *)
(* bytes.  Get looks the element up under the read lock and moves it to    *)
(* the front and reads it under the write lock; in between the element may *)
(* be updated, evicted or deleted.                                         *)
(***************************************************************************)
EXTENDS Integers, Sequences, FiniteSets, SequencesExt, FiniteSetsExt

CONSTANTS Keys,
          Values,           \* the entries that may be stored
          SizeOf,           \* SizeOf[v]: Entry.Size
          Elems,            \* list elements; enough of them, so that one is always free
          Callers,          \* goroutines that call Get, one call at a time
          MaxSize,          \* maxSize
          MaxCount,         \* maxCount, at least 10 in New
          None

LruEntry == [key : Keys, value : Values, size : Nat]

\* Assumed by the modules that instantiate this one.
ShardAssumption ==
  /\ SizeOf \in [Values -> Nat] /\ MaxSize \in Nat
  /\ MaxCount \in Nat \ {0}
  /\ None \notin Keys \cup Values \cup Elems \cup LruEntry

VARIABLES entries,          \* s.entries
          lru,              \* s.lru, the front first
          elem,             \* elem[e]: the lruEntry of e
          size,             \* s.size
          held,             \* held[c]: the element c's Get has found, or None
          asked,            \* asked[c]: its key, or None
          got,              \* got[c]: what c's last Get returned, while c has it
          seen,             \* history: the values of that key since c's Get began
          since,            \* history: since[k], the keys used since k was
          last              \* history: the last accepted Set, or None after a removal

shardVars == <<entries, lru, elem, size, held, asked, got, seen, since, last>>

TypeOK ==
  /\ entries \in [Keys -> Elems \cup {None}]
  /\ lru \in Seq(Elems)
  /\ elem \in [Elems -> LruEntry \cup {None}]
  /\ size \in Nat
  /\ held \in [Callers -> Elems \cup {None}]
  /\ asked \in [Callers -> Keys \cup {None}]
  /\ got \in [Callers -> Values \cup {None}]
  /\ seen \in [Callers -> SUBSET Values]
  /\ since \in [Keys -> SUBSET Keys]
  /\ last \in [key : Keys, value : Values] \cup {None}

Init ==
  /\ entries = [k \in Keys |-> None]
  /\ lru = <<>>
  /\ elem = [e \in Elems |-> None]
  /\ size = 0
  /\ held = [c \in Callers |-> None]
  /\ asked = [c \in Callers |-> None]
  /\ got = [c \in Callers |-> None]
  /\ seen = [c \in Callers |-> {}]
  /\ since = [k \in Keys |-> {}]
  /\ last = None

\* What the shard maps keys to.
Mapping == [k \in Keys |-> IF entries[k] = None THEN None ELSE elem[entries[k]].value]

InList(e) == e \in ToSet(lru)

\* History: what k's use and a change of the mapping add.
SeenBy(m) == [c \in Callers |->
  IF asked[c] # None /\ m[asked[c]] # None THEN seen[c] \cup {m[asked[c]]} ELSE seen[c]]

Used(k) == [j \in Keys |-> IF j = k THEN {} ELSE since[j] \cup {k}]

-----------------------------------------------------------------------------
(* container/list *)

Position(e) == CHOOSE i \in 1 .. Len(lru) : lru[i] = e

\* Mutant: the element is not moved.
StayInPlace(e) == lru

MoveToFront(e) ==
  [i \in 1 .. Len(lru) |->
     IF i = 1 THEN e ELSE IF i <= Position(e) THEN lru[i - 1] ELSE lru[i]]

PushFront(e) == <<e>> \o lru

Unlink(e) ==
  [i \in 1 .. Len(lru) - 1 |-> IF i < Position(e) THEN lru[i] ELSE lru[i + 1]]

\* Mutant: removed elements are pooled, although a Get may still hold one.
FreeInPool(e) == ~InList(e)

\* An element that nothing refers to, which the allocator may return.
Free(e) == ~InList(e) /\ \A c \in Callers : held[c] # e

\* Elements that nothing refers to are collected.
Collect(f, l, h) ==
  [e \in Elems |-> IF e \in ToSet(l) \/ (\E c \in Callers : h[c] = e) THEN f[e] ELSE None]

-----------------------------------------------------------------------------
(* Get *)

\* The section under the read lock.
Lookup(c, k) ==
  /\ held[c] = None
  /\ IF entries[k] = None
       THEN /\ got' = [got EXCEPT ![c] = None]
            /\ UNCHANGED <<held, asked, seen>>
       ELSE /\ held' = [held EXCEPT ![c] = entries[k]]
            /\ asked' = [asked EXCEPT ![c] = k]
            /\ seen' = [seen EXCEPT ![c] = {Mapping[k]}]
            /\ UNCHANGED got
  /\ UNCHANGED <<entries, lru, elem, size, since, last>>

\* The section under the write lock.  MoveToFront ignores an element that is
\* no longer in the list.
ReadBack(c) ==
  /\ held[c] # None
  /\ IF InList(held[c])
       THEN /\ lru' = MoveToFront(held[c])
            /\ since' = [j \in Keys |-> IF entries[j] = None THEN {} ELSE Used(asked[c])[j]]
       ELSE UNCHANGED <<lru, since>>
  /\ got' = [got EXCEPT ![c] = elem[held[c]].value]
  /\ held' = [held EXCEPT ![c] = None]
  /\ asked' = [asked EXCEPT ![c] = None]
  /\ seen' = [seen EXCEPT ![c] = {}]
  /\ elem' = Collect(elem, lru, held')
  /\ UNCHANGED <<entries, size, last>>

\* The caller is done with the entry.
Take(c) ==
  /\ got' = [got EXCEPT ![c] = None]
  /\ UNCHANGED <<entries, lru, elem, size, held, asked, seen, since, last>>

-----------------------------------------------------------------------------
(* Set *)

BytesOf(f, S) == MapThenSumSet(LAMBDA e : f[e].size, S)

\* Bytes of the elements behind the n-th.
BytesBehind(f, l, n) == BytesOf(f, {l[i] : i \in n + 1 .. Len(l)})

\* Mutant: the count may be exceeded by one.
WithinOffByOne(f, l, total, n) == n <= MaxCount + 1 /\ total - BytesBehind(f, l, n) <= MaxSize

Within(f, l, total, n) == n <= MaxCount /\ total - BytesBehind(f, l, n) <= MaxSize

\* Mutant: one more than the limits ask for is evicted.
KeptTooFew(f, l, total) ==
  Max({0} \cup {n \in 0 .. Len(l) - 1 : Within(f, l, total, n)})

\* evict() takes elements from the back until the limits hold.
Kept(f, l, total) == Max({0} \cup {n \in 1 .. Len(l) : Within(f, l, total, n)})

\* Mutant: the size of the entry that is replaced is not subtracted.
OldSizeKept(k) == 0

\* Mutant: the replaced entry's size is subtracted once more.
OldSizeTwice(k) == IF entries[k] = None THEN 0 ELSE 2 * elem[entries[k]].size

OldSize(k) == IF entries[k] = None THEN 0 ELSE elem[entries[k]].size

Accepted(v) == SizeOf[v] <= MaxSize \div 2

Set(k, v) ==
  /\ Accepted(v)
  /\ \E e \in Elems :
       LET f == [elem EXCEPT ![e] = [key |-> k, value |-> v, size |-> SizeOf[v]]]
           l == IF entries[k] # None THEN MoveToFront(e) ELSE PushFront(e)
           total == size - OldSize(k) + SizeOf[v]
           n == Kept(f, l, total)
           evicted == {f[l[i]].key : i \in n + 1 .. Len(l)}
       IN /\ IF entries[k] # None THEN e = entries[k] ELSE Free(e)
          /\ lru' = SubSeq(l, 1, n)
          /\ size' = total - BytesBehind(f, l, n)
          /\ entries' = [j \in Keys |->
                           IF j \in evicted THEN None ELSE IF j = k THEN e ELSE entries[j]]
          /\ elem' = Collect(f, lru', held)
          /\ seen' = SeenBy(Mapping')
          /\ since' = [j \in Keys |-> IF entries'[j] = None THEN {} ELSE Used(k)[j]]
  /\ last' = [key |-> k, value |-> v]
  /\ UNCHANGED <<held, asked, got>>

-----------------------------------------------------------------------------
(* Delete, Clear *)

Delete(k) ==
  IF entries[k] = None
    THEN UNCHANGED shardVars
    ELSE /\ lru' = Unlink(entries[k])
         /\ entries' = [entries EXCEPT ![k] = None]
         /\ size' = size - elem[entries[k]].size
         /\ elem' = Collect(elem, lru', held)
         /\ since' = [since EXCEPT ![k] = {}]
         /\ last' = None
         /\ UNCHANGED <<held, asked, got, seen>>

Clear ==
  /\ entries' = [k \in Keys |-> None]
  /\ lru' = <<>>
  /\ size' = 0
  /\ elem' = Collect(elem, <<>>, held)
  /\ since' = [k \in Keys |-> {}]
  /\ last' = None
  /\ UNCHANGED <<held, asked, got, seen>>

Next ==
  \/ \E c \in Callers : ReadBack(c) \/ Take(c) \/ \E k \in Keys : Lookup(c, k)
  \/ \E k \in Keys : Delete(k) \/ \E v \in Values : Set(k, v)
  \/ Clear

Spec == Init /\ [][Next]_shardVars

-----------------------------------------------------------------------------
(* What is claimed *)

\* The map and the list hold the same elements, each once and under the key it
\* was stored for, after any Set, eviction, Delete, Clear and late half of a Get.
Consistent ==
  /\ \A i, j \in 1 .. Len(lru) : lru[i] = lru[j] => i = j
  /\ \A k \in Keys : entries[k] # None => InList(entries[k]) /\ elem[entries[k]].key = k
  /\ \A e \in ToSet(lru) : elem[e] # None /\ entries[elem[e].key] = e

\* The running total size is the sum of the sizes in the list, and both limits hold.
WithinLimits ==
  /\ size = BytesBehind(elem, lru, 0)
  /\ size <= MaxSize
  /\ Len(lru) <= MaxCount

\* The shard implements the contract: a Get returns a value its key had while
\* the Get ran, even when the element was updated, evicted or deleted between
\* its two sections; an accepted Set stores its value and evicts other keys
\* only, never itself; and no other call than Delete and Clear loses a key.
Contract == INSTANCE CacheContract WITH map <- Mapping
ImplementsContract == Contract!Spec

\* A Set evicts the entries used least recently: those that stay were all used
\* after those that go, and one of those that go would not have fitted.
EvictsLeastRecent ==
  LET gone == {j \in Keys : entries[j] # None /\ entries'[j] = None}
      left == {j \in Keys : entries'[j] # None}
  IN \A k \in left : Mapping'[k] # Mapping[k] /\ gone # {} =>
       /\ \A j \in gone : left \subseteq since[j] \cup {k}
       /\ \E j \in gone : \/ Cardinality(left) + 1 > MaxCount
                          \/ size' + elem[entries[j]].size > MaxSize

LeastRecentlyUsed == [][EvictsLeastRecent]_shardVars
=============================================================================
