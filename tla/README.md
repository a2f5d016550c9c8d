# A verification project for BlackWidow

BlackWidow keeps Redis data types (strings, hashes, sets, sorted sets, lists) in
five RocksDB databases. These TLA+ modules model what makes it correct and hard:
collections that die by a version number instead of by deletion, compaction
filters that collect what died while handlers run, record locks, and a background
thread. TLC checks them on small instances, and TLAPS proves the central
invariants for every size.

## The system

| part | state | operations | interacts with |
|---|---|---|---|
| meta value (`base_meta_value_format.h`, `base_value_format.h`) | count, version, timestamp of a collection | `InitialMetaValue`, `UpdateVersion`, `ModifyCount`, `set_timestamp`, `IsStale` | every handler, the filters |
| compaction filters (`base_filter.h`, `lists_filter.h`, `zsets_filter.h`) | the key at hand and what was read of its meta value | `Filter` per record | RocksDB compaction threads; reads the meta column family without a lock |
| `RedisHashes`, `RedisSets` | a meta and a data column family | `HSet`, `HDel`, `SAdd`, `SMove`, `SDiffstore`, `Expire`, `Del`... | record locks, `WriteBatch`, statistics |
| `RedisZSets`, `RedisLists`, `RedisStrings` | the same with a score column family, an index window, or one column family | `ZAdd`, `LPush`, `RPush`, `SetBit`... | the same |
| `LockMgr`, `ScopeRecordLock`, `MultiScopeRecordLock` | stripes of locked keys, a mutex and a condition variable each | `TryLock`, `UnLock` | every handler that writes |
| `BlackWidow`'s background thread | task queue, `bg_tasks_should_exit_`, `current_task_type_` | `AddBGTask`, `RunBGTask`, `Compact`, the destructor | statistics of every type add tasks |
| `BlackWidow` facade | the five databases, scan cursors | `Del`, `Expire`, `Scan`, `PfAdd`... over several types | all types |
| `LRUCache`, statistics | recency list, usage, capacity | `Insert`, `Lookup`, `Trim` | handlers, scans |
| `HyperLogLog` | registers in a string | `Add`, `Merge`, `Estimate` | `PfAdd`, `PfMerge`, `PfCount` |
| backup, checkpoint | files | `CreateNewBackup`, `CreateCheckpoint` | RocksDB |

What makes each correct, and what is hard about it:

* **Collections.** A handler never deletes the records of a collection that was
  deleted, has expired or is overwritten; it only writes a higher version. The
  length is a stored number. So: the number must equal the records a reader finds
  under the current version; a record of a dead version must never be found again,
  also when two renewals fall into one second, or when compaction has dropped the
  meta value and with it the version; compaction must be invisible, though its
  filters take no lock and judge a key's records by what they remember.
* **Record locks.** One thread per key; no lost wakeup although waiters for
  different keys share a condition variable; no circle of waiters.
* **Background thread.** No task lost, none run twice, and an orderly shutdown.
* **Lists.** Two indices of the meta value enclose the nodes. Every push, pop, insertion,
  removal and trim moves nodes and indices at one end and must keep them, the count and
  the order in step; indices live in 64 bits and add up with a caller's.
* **Sorted sets.** A member and its score live in two column families that two
  compactions collect apart, and they must say the same. Handlers find ranks and ranges
  by walking score records for as long as the count lasts: a walk must meet the set's
  records and no others. Three commands read from a snapshot taken before the lock.
* **Strings.** One record, its own TTL; but each command keeps, sets or drops that TTL its
  own way, bits and ranges are addressed from both ends, numbers and timestamps end at 64
  and 32 bits, and five commands look at several keys before they write.
* **HyperLogLog.** Sketches are strings that are read, changed and put back.
* **Scans.** A scan is a chain of calls over five databases, or over one collection or
  range of keys. What it left off at is with its caller, or in a cache that scans share,
  under a number that two scans can have in common, and the keys change between the calls.
  It must return what stayed, once, and end.

## The modules

| module | models | correspondence |
|---|---|---|
| `MetaValue` | the meta value and the filters' verdicts | pure operators named after the methods; the clock reading is a parameter |
| `CollectionStore` | what hashes, sets and lists share | `meta` and `data` are the column families, `now` the clock, `filter` a data compaction under way (`todo`: input records not yet judged, `doomed`: dropped ones that vanish at the installation, `key`, `meta`: `cur_key_` and the remembered meta value) |
| `ExpiringCollections` | the abstract promise: a map of collections with deadlines | no versions, counts or compaction |
| `RedisHashes` | the handlers of a hash | one action per handler |
| `RedisSets` | the handlers of a set | one action per handler; `SDiffstore`, `SInterstore`, `SUnionstore` are a read and a later write (`pending`) |
| `RedisLists` | the handlers of a list, and its two reads by index | `window` is `left_index` and `right_index` of the meta value, `value` the values of the records; `RPush`, which takes no lock, is a read and a later write (`pending`) |
| `ExpiringLists` | the abstract promise of lists: a map of sequences with deadlines | no indices, versions, counts or compaction |
| `RedisZSets` | the handlers of a sorted set and its reads by rank, score and name | `data` and `score` are keys and values of the members column family, `scores` the keys of the scores column family: two instances of `CollectionStore` over one `meta`, with a filter each. `snapshot` is a call that has read and not yet locked |
| `ExpiringZSets` | the abstract promise of sorted sets: a map of scorings with deadlines | what a command means in terms of ranks and intervals |
| `RedisStrings` | the handlers of a string, its reads of bits and ranges, and the facade's HyperLogLog sketches | `strings` is the column family, `pending` a call of several steps (`MSetnx`, `BitOp`, `PfAdd`, `PfMerge`, `PKPatternMatchDel`) and what it has read |
| `ExpiringStrings` | the abstract promise of strings: a map of byte strings with deadlines | what a command does to bytes, bits and deadline |
| `Scans` | `BlackWidow::Scan` and `PKExpireScan` with `cursors_store_`, an `LRUCache`; `HScan`, `SScan`, `ZScan` with `scan_cursors_store_`; `HScanx` and the range scans of keys and fields, forwards and backwards | `db` is what an iterator meets in each database and in each scanned collection, `versions` a collection's version and those of the records its earlier lives have left, `cursors` and `points` the caches' lists, `scan` each caller's place; a step is one database visited, or one call within a collection or range |
| `LockMgr` | record locks | `pc` says between which two operations on a mutex a thread is; `locked` is the union of the stripes' key sets |
| `BGTasks` | compaction queue, thread, destructor | `bg` is the place in `RunBGTask`, `close` that in the destructor |
| `MCHashes`, `MCSets`, `MCLists`, `MCZSets`, `MCStrings`, `MCScans`, `MCLockMgr`, `MCBGTasks` | instances for TLC | |
| `CollectionStoreProofs`, `HashesAndSetsProofs`, `RedisListsProofs`, `RedisZSetsProofs`, `RedisStringsProofs`, `LockMgrProofs`, `BGTasksProofs`, `ScansProofs` | proofs | |

Decisions behind them:

* A handler holds its keys' record locks from its first read to its one
  `WriteBatch`, and two handlers of a key exclude each other (`LockMgr`). So a
  handler is one atomic step with one reading of the clock. Where the code does
  not give that (the `*store` commands read their sources without locking them)
  there are two steps.
* Field values are left out; a record is its key, version and field. A `Put` of a
  record that exists and a `Delete` of one that does not still shadow the older
  entry from a compaction that is under way (`Shadow`). The filter is then not called on the
  older entry. In the code it is, and refreshes its remembered key and meta value by it as by
  any other record of the key, but what it says of that entry makes no difference.
* A compaction takes any set of records as its input. The meta filter's drop is
  one step on the current value: a meta value rewritten since is shadowed, and one
  that was not is invisible to readers from the verdict to the installation.
* The data filter's `Get` reads the present meta value; it remembers version and
  timestamp for as long as the key does not change, as `cur_key_` and its
  companions do.
* `Reopen` is a crash or a close and an `Open`: batches that were committed are
  kept, an unfinished compaction leaves its input.
* `raced` is a history variable. It holds the keys whose TTL was lifted or moved to
  a later time while the filter remembered the old one. The code does not survive
  that step (run `hashes_ttl_race`); the invariants say exactly that nothing else
  breaks the length, and `UnracedSpec` (`UnracedHashesSpec` of the hashes) is the
  specification without such steps.
* The clock never goes back. Version and timestamp are natural numbers in the
  collections (`RedisStrings` has 32-bit timestamps); I/O errors are not modelled (a failed `Get` returns before anything is
  written) and the window during close in which `handles_` is empty.
* The members of a list are the indices of its nodes. They are the numbers below
  `2 * Half`, where `Half` stands for 2^63, and sums of indices are taken modulo
  `2 * Half`, as the code's are modulo 2^64. A push that would move the window itself
  past either end is cut off: it takes 2^63 pushes.
* The iterators of `LInsert` and `LRem` count records, not indices. They are modelled on
  lists with no gap, which is what `ListsInv` shows all lists to be unless two threads
  race through `RPush`; what they do to a list with a gap is left out.
* `RPush` is two steps with any handler in between, at most one at a time. `UnracedSpec`
  of the lists is the specification as if `RPush` locked its key: the run
  `lists_rpush` shows what happens because it does not.
* Scores are small integers, ordered as their encoding is: rounding, infinities and
  NaN are left out. A compaction of sorted sets takes a whole column family, one at a
  time. `RedisZSets!UnracedSpec` is the specification as if a snapshot were taken under
  the locks: no handler comes between it and the write.
* A string is a sequence of bytes of `Width` bits. Numerals are binary: byte 0 is NUL, 1
  and 2 are the digits and 3 is the sign. `MaxInt` is the greatest `int64_t`, where
  `strtoll` saturates; `Modulus` is the range of `size_t`, in which `Setrange` subtracts;
  a deadline past `MaxTimestamp` wraps around as an `int32_t` does. A register is a byte.
* A call in several steps takes one `Get` per step, as each locks, if at all, for itself;
  any handler may come between two of them. `StillTrue` is the condition under which
  the property speaks of the write: that what was read is so still.
* A scan's database is read from a snapshot of its own, so visiting one is a step. Keys
  are numbered in byte order; a pattern is the keys that match it and, if only its tail
  is a wildcard, the place of its prefix. `PKExpireScan` is a scan with no prefix whose
  matches are the keys with a deadline in its range. `stayed`, `own` and `disturbed` are
  history: the properties are about keys that were there all the time and about scans
  that got their own starts. A collection that dies leaves its records under its version
  (`Vanish`), and compaction collects them later (`Collect`). All iterators but one seek to
  the present version and stop at the first record of another. The exception is
  `PKHRScanRange` without a start, which seeks to the place before the next version, in the
  byte order of little-endian versions (`Landing`); where that place is behind records
  of another version or before the present one's, the history `astray` says so. A count is
  at least 1 (0 stores a start key under cursor 0, where every new scan of that type begins).
* The stripes' hash is any function of the key. `MultiScopeRecordLock`'s sort and
  its skipping of duplicates are "the least key that is left".
* A destructor runs when no call is under way, as callers must ensure. The
  background thread's mutex is held by a caller within one step.

## The runs

| run | instance | shows |
|---|---|---|
| `hashes` | 1 key, 2 fields, 3 seconds, versions to 4 | type, inductive invariant, lengths, no resurrection, invisible compaction |
| `hashes_ttl_race` | 1 key, 2 fields | violation: see below |
| `sets` | 2 keys, 1 member, 3 seconds, versions to 3, a deadline of 1 or a TTL in the past, `UnracedSpec` | moves, `*store` in two steps, expiry, restarts, a compaction that crosses from one key to another; sets implement `ExpiringCollections` |
| `lists` | 1 key, indices 0 to 5, 2 values, up to 4 nodes, `UnracedSpec` | window, count and nodes agree; every handler and read does to the window what its command says of a sequence |
| `lists_two_keys` | 2 keys, indices 0 to 3, up to 3 records, a deadline, 2 seconds, `UnracedSpec` | `RPoplpush`, `RPush` in two steps, expiry, compaction and restart; lists implement `ExpiringLists` |
| `lists_rpush` | 1 key | violation: see below |
| `zsets` | 1 key, 2 members, 2 scores, up to 3 score records, versions to 2, batches of 1, `UnracedSpec` | both column families agree, ranks and ranges are right beside records of dead versions, every command does what it says of a scoring; sorted sets implement `ExpiringZSets` |
| `strings` | 2 keys, 2 bytes of 2 bits in all, numbers to 1, the 32-bit clock ends at 2, batches of 1 | the strings' invariant; bits, ranges and numbers at their ends, deadlines kept and dropped, calls in several steps |
| `scans` | 2 scans, 3 keys in 2 databases, a hash, a set and a sorted set, from 2 initial contents, 13 requests, 1 change, caches of 5, versions to 5 in base 2, one old version's records left behind, fair | scans of every kind find what stayed, return nothing twice, and end |
| `locks` | 3 threads, 3 keys on 2 stripes, any request, a spurious wakeup, fair | exclusion, wakeups, no deadlock, every operation gets its locks |
| `tasks` | 2 types, 2 keys, 3 tasks, a spurious wakeup, fair | nothing lost, nothing run twice, every task is started |
| `tasks_close` | fair | violation |

Bounds. Three seconds are enough for a deadline to be set, to pass and to have been
passed when a filter that remembers it looks at the clock; versions run one ahead of
the clock when a key is renewed twice in a second, and `MaxVersion` leaves room for
it. Two fields distinguish "some" from "all", and the two-key runs are there for what
depends on a second key: the filter's memory, `SMove`, `*store`. In `sets` the deadline 1 is
that of the first second and has passed in the second, with a third to come, and a TTL of
-1 has passed when it is set: sources and destinations of a `*store` expire before it,
between its steps and after it. Four nodes
of two values in six places give `LInsert` and `LRem` each of their halves, with nodes
to move on both sides, and windows that begin left or right of the middle; the index
arguments of the runs of lists are all there are, from `-Half` to `Half - 1`, so that
they reach beyond both ends of a list and some wrap. In `lists_two_keys` one deadline
in the first of two seconds is enough: it passes with the second. In `zsets`, two members
of two scores order ties by name and others by score, and a third record leaves room for
one of a dead version before or behind them; one source taken twice under two weights
stands for two in `*store`. In `strings`, a word is two bytes, so that a string is part
of a word or a whole one; increments pass the greatest and the least number; a TTL of 1
reaches the end of the 32-bit clock in the first second and passes it in the second;
between the steps of a call, handlers may do whatever leaves both keys without bytes
(`MaxRacedBytes`): delete, expire, or set an empty string, which is there all the same.
In `scans`, the counts 1 and 2 end within a database and with it, the prefix has a key on
either side, and two scans of the same type, or of one hash with counts 1 and 2, share
their numbers; the cache is smaller than all start keys the two leave, so that it evicts;
each range is open at one end or none, and a range scan's next key may be deleted before
it is called on. Versions have digits of base 2 instead of 256: 4 is 0010 and 5 is 1010, lowest
first; an old version 2, which is 0100, lies between them, and 3, which is 1100, does not. What
no scan under way is asked about does not change (`Watched`), which only leaves out other initial contents. Two stripes for three keys make one
pair share a condition variable. The proofs do without bounds
(they hold for every value of the constants).

Deadlock is not checked: every model stops when its bounded clock, rounds or tasks are
used up, or the database is closed.

Fairness. `LockMgr!FairSpec` asks that a thread which can take a step of `TryLock`,
of its handler or of `UnLock` takes it: the scheduler runs every runnable thread, and
a mutex that is released again and again is taken by its waiters (with bounded
rounds). Beginning an operation and waking spuriously are not fair.
`BGTasks!FairSpec` asks the same of the background thread and of a destructor that has
begun. `Scans!FairSpec` asks that a caller who began a scan calls again until it is
given cursor 0 or no next key, as the loops around the scans do; what the databases do
is not fair, but bounded: a scan need not end while keys are added in front of it. And the cache must hold
what the other scans leave between two calls of one: with a capacity of 4 here (5000 in
the code) two scans evict each other's start keys for ever and begin again each time.
Safety properties use no fairness.

## What the violations say

* `hashes_ttl_race`: the data filter reads a key's timestamp once per compaction and
  key. `Persist`, or `Expire` to a later time, after that read does not reach it: once
  the old timestamp has passed, it drops records of a live hash. `HLen` goes on
  counting them. (Sets share the filter.)
* `lists_rpush`: `RPush` is the one handler that writes with no record lock. A pop (or
  push) of the same key between its read and its write is undone in the meta value and
  not in the nodes, and `LLen` counts a node that is gone.
* `tasks_close`: `~BlackWidow` sets the flag and signals without the mutex. If the
  thread has just found the flag unset and not yet begun to wait, it sleeps for ever,
  and so does `pthread_join`.

### What the properties leave out

The code does something else than its commands promise in the following places. The
models have it, and the properties say where they do not speak of it.

* `SRem` counts a member as often as its argument list names it, and the count goes below
  the number of members (`src/src/redis_sets.cc:1002`). `MCSets!RepeatedArgs` for `RemArgs`
  shows it.
* `SPop` trusts the count and walks on past the set's records: after the TTL race, which
  leaves a count too high, it may delete a member of another set.
* A new list begins at index 2^63. One `LPop` later the sum of the first index and the
  greatest integer no longer fits into 64 bits: `LTrim` to it deletes the whole list, and
  `LRange` returns nothing (`src/src/redis_lists.cc:525`). The runs have such arguments;
  `ReadsAsPromised` and `HandlersDoAsPromised` speak of `LRange` and `LTrim` where the
  sums fit (`RedisLists!Fits`), and of all else for every argument.
* `ZUnionstore`, `ZInterstore` and `ZRemrangebylex` put back a count or a version from
  before the lock; a handler in between leaves a wrong length (`RedisZSets!Spec` violates
  `LengthAlwaysCountsMembers` in five states). `PKPatternMatchDel` of every type writes
  with no lock at all and loses a handler's write. It writes in batches of
  `BATCH_DELETE_LIMIT` (`DeleteBatch` of `RedisStrings` and `RedisZSets`, under the bound
  `BatchLimit`); a write that fails ends the call after some of them, as `Reopen` does.
* `ZRevrank` looks at one record more than the set has, and finds a member that is not in
  the set in another version or key. Outside the model: backward walks begin at the
  greatest finite score, so they miss members with that score or infinity, and forward
  walks miss minus infinity.
* `MSetnx`, `BitOp`, `PfAdd` and `PfMerge` write by what they read before: a `Set` between
  the look and the write of `MSetnx` is overwritten, although `blackwidow.h:234` says it
  sets nothing if one key exists; a `PfAdd` between those of another is lost.
* `Decrby` of a key that is not there stores `-value`. Of the least `int64_t` there is no
  negative (`src/src/redis_strings.cc:368`): the behaviour is undefined, and the model has
  the least number itself, which two's complement gives, or its negation (`Negations`).
* `HyperLogLog::Merge` ORs a smaller register with the greater instead of taking it: 1 and
  2 make 3. The merged sketch overestimates. `PfAdd` with no values overwrites the sketch
  with an empty string.
* `Setrange` at the end of an empty string throws from `substr`, with an empty value it
  loses what is behind, and it takes a value up to its first NUL. `SetBit`, `Setrange` and
  `GetSet` drop the TTL, where the increments and `Append` keep it.
* A TTL that ends after 2038 makes a negative timestamp, which is stale: the string is
  gone at once.
* Two scans that share type and cursor take each other's start keys and may miss keys
  (`disturbed`); within a collection, two that share key, pattern and cursor. The text
  `key_pattern_cursor` names a start there, so scans of two keys with underscores may
  collide too; the model gives each collection a cache of its own.
* `PKHRScanRange` without a start seeks backwards from version + 1 and ends at the first
  record that is not of the present version (`src/src/redis_hashes.cc:1051`). `EncodeFixed32`
  puts a version's low byte first, so the scan returns nothing, where
  `tests/gtest_hashes.cc:2256` expects the fields, in two cases (`SeeksBehind`). The version's
  low byte is 255, so that the seek lands in front of all the fields. Or the hash was
  deleted and written again and records of an older version that compaction has not
  collected lie between: those of 0x5C000401 (bytes 01 04 00 5C) come behind those of
  0x5C000500 (00 05 00 5C) and before those of 0x5C000501 (01 05 00 5C). The run `scans`
  has the second case in one of its initial contents, and the properties leave scans out
  that were `astray`; without that, `ScanFindsAll` fails. And a
  backward scan whose next field or key is the empty string is taken for ended; the models
  have no empty names.
* With a lock limit, a thread refused for the limit sleeps on the stripe of its own key,
  and an `UnLock` notifies only the stripe of the unlocked key, so it may sleep for ever.
  `Redis` passes no limit, and no path of the program meets this today; the theorems
  about wakeups assume there is none.

## What is proved

All theorems hold for any constants that satisfy the named assumptions of the modules.

* `CollectionStoreProofs`: `StoreInv` is inductive. Lengths and versions are not: to
  show that a count still equals the number of records after a compaction one needs to
  know that none of its doomed records is of a live incarnation (`DoomedAreDead`); to
  show that of the next record the filter judges one needs to know how the meta value
  it remembers relates to the present one (`MemoryStaysSafe`, and `AbsenceStaysTrue`
  where there was none: a record judged then is not one of the key's present
  incarnation as long as that has not expired); and both rest on no record's version being ahead of its key's
  meta value or, where there is none, of the clock (`VersionsBehindMeta`).
* `HashesAndSetsProofs`: from it, for `RedisHashes`, the type invariant with the bounds of every
  live count that no TTL race has touched (`CountsInBounds`: from 0 to the number of fields), the length, that
  nothing resurfaces, that compaction is invisible; and `HashesKeepPromise`, the
  refinement of `ExpiringCollections` under `UnracedHashesSpec` (the last section of `CollectionStoreProofs` maps each kind
  of step to a step of the promise or to a stutter).
  The same for `RedisSets`: `SetsInv`, the length, that nothing
  resurfaces and the refinement (`SetsKeepPromise`). New against the hashes are `SMove`,
  one step with two keys, of which one may begin a new incarnation while the other keeps
  its own, and the `*store` commands, whose write needs what held at their read: that no
  record of the destination reaches the version they are about to write
  (`PendingStaysAhead`) and that they count the members they write (`PendingIsWhole`).
  `SetsInv` is inductive only together with `raced = {}`, hence under `UnracedSpec`, and
  with arguments of `SRem` that name no member twice (`NoRepeats`). Neither hypothesis is
  for convenience: without either the code breaks the count (see above, `SRem` and `SPop`).
* `LockMgrProofs`: the locks' invariant (`LockInv`: besides exclusion, that a thread
  which locks holds exactly the keys of its operation below the one it is at) and from
  it exclusion; with no lock limit, no lost wakeup and no circle of waiters. The last
  takes a thread asleep on the greatest key: the one that holds it cannot be
  asleep, because it would wait for a greater key.
* `RedisListsProofs`: `ListsInv`, and from it the length. A list's handlers delete and
  write many nodes at once and move the indices by it, modulo 2^w; that the nodes stored
  are those of the window afterwards (`WindowEnclosesNodes`) is arithmetic about runs of
  places (`SlidesRight`, `SlidesLeft`, and for `LRem`, which closes gaps, an induction
  over the places a node is moved to). What is new is `RPush`: its write comes any number
  of steps of filters, of clock and of other keys' handlers after its read, so the
  invariant says what the waiting push can rest on. Either it begins a list, under a
  version that no record, meta value or filter's memory of the key reaches (`PushBegins`),
  or it prolongs one that is as it was found, or has expired and been dropped since
  (`PushProlongs`). Both hypotheses of `UnracedSpec` are needed: `lists_rpush` violates
  the length without the first, `hashes_ttl_race` shows the second. The caller's indices lie in the signed
  half of the 2^w (`ListsAssumption`), as an `int64_t` does.
  From `ListsInv` it is also proved that the reads and handlers do to the sequence what
  their commands say (`ListsReadAsPromised`, `ListsDoAsPromised`), and that lists implement
  `ExpiringLists` (`ListsKeepPromise`). Each handler is shown to turn one window of nodes
  into another (`BecomesList`); the sequence read off the new window is then the promised
  one, by the arithmetic of places. For `LRem` that is that moving every kept node over the
  gaps yields the kept elements in order (`ExpiringLists!Without`), and so that a walk from
  either end removes the right `count` of them. A waiting `RPush` takes effect at its
  write, when the list it begins has stayed empty and the list it prolongs is as it was; if
  that has expired meanwhile, the write is not seen (it keeps the old deadline) and is a
  stutter of the promise, as is every step of a filter.
* `RedisZSetsProofs`: `ZSetsInv`. The lemmas of `CollectionStoreProofs` are used twice,
  once for the members and once, as `OfScores`, for the scores, each with its filter. Every
  handler is one batch that takes members away and gives others a score
  (`Rescores`, `RescoresInv`), and such a batch keeps the two stores in agreement about
  every incarnation a reader can see. The walks by rank and score go a number of steps
  computed from the meta value's count; that they end inside the set
  (`ForwardStays`, `BackwardStays`, `ForwardByMemberStays`) is because the count is that of
  the records. A call with a snapshot rests on what the snapshot holds still being there
  when it locks (`SnapshotHolds`): compactions may have run since, handlers not, which is
  the hypothesis `UnracedSpec`. `ZSetsAssumption` says that no member has the greatest
  finite score, which the backward walks would miss (see above), and that a `*store`
  command names a source.
  From `ZSetsInv` it is also proved that the reads by rank, score and name return what
  their commands name (`ZSetsReadAsPromised`). A walk's result is the beginning of an order
  (`Heads`), and of such a beginning the walk finds as many as it goes steps, each
  at the place it has among the set's own records (`FirstOnes`, and `ForwardFinds`,
  `BackwardFinds`, `ForwardByMemberFinds` of the three walks). A record's place is its
  member's rank, since records and members correspond one to one (`RankCounts`). The one
  record that `ZRevrank` looks at beyond the set comes behind all of the set's, so a member's
  own record decides.
  The handlers do to the scoring what their commands say (`ZSetsDoAsPromised`), and sorted
  sets implement `ExpiringZSets` (`ZSetsKeepPromise`). Each handler's batch becomes one
  change of the scoring (`BecomesZSet`); a handler that walks takes away the records of its
  range and no others (`WalkedAreTaken`). `ZUnionstore` and `ZInterstore` add scores of
  records up, the promise those of sources: both are the weighted sum over the sources that
  hold the member, in whatever order and whatever tells equal values apart
  (`TotalsAgree`, by induction over the subsets of a finite set; `AggregateIs`). A step that
  writes no record leaves every scoring or ends it (`UpkeepSeen`), so that the lemmas of
  `CollectionStoreProofs` about clock, filters and deadlines carry over. For these
  `ZSetsAssumption` also says of a `*store` command that its aggregate is one of the
  three the code names, its sources are finitely many, and its weights are integers, as scores
  are in the model.
* `RedisStringsProofs`: `StringsInv`: what is stored is bytes, within the bound, under a
  32-bit deadline, and a call of several steps has read as many values as it has taken
  steps. Each write keeps that by what it does to bytes: `SetBit`, `BitOp`, numerals and
  sketches are recursions over a string or a number. The model has them as recursive
  functions, and the lemmas about them go by induction (`AllNumbers`: a set of numbers
  with 0 and each successor is all of them; the library's own induction takes an operator,
  which no prover here can instantiate).
  From `StringsInv` it is proved that the reads return what their commands name
  (`StringsReadAsPromised`). `BITPOS` skips words and then bytes and looks for the bit in
  the byte it stops at: no byte it skipped has the bit (`GetBitPosIs`), since a byte is
  determined by its bits (`BitsTell`) and a skipped one is that with all of them alike; the
  byte it adds behind the end only matters to a 0. Ranges are the clipped ones
  (`SliceIs`, `PosWithinIs`, `SubstringIs`), counts are those of places (`GetBitCountIs`).
  And the handlers do as promised (`StringsDoAsPromised`): every write is one step of
  `ExpiringStrings` (`PutBecomes` and its kin say which string has changed and that no
  other key's has; `BitAtIs` says what is at an offset), a numeral stands for the number it
  was made from, a call of several steps writes what its command says of the values as they
  are at the write, if what it read is so still (`StillTrue`). A merged register is
  the greater one only where the bits of the one are among those of the other
  (`MergesGreatest`), and only of such the property speaks.
  `StringsAssumption` gives types to the arguments, at least two bits to a byte, and
  strings shorter than `size_t` counts; `CallsAssumption` says that a call names a key,
  that `MSetnx` has a value for each key it names, and that `BitOp`'s operation is one of
  the four the code names.
* `BGTasksProofs`: `TasksInv` is inductive as it stands. From it: no task is forgotten or
  runs twice, no signal is lost to a thread that is about to sleep (`AwakeWithWork`), and
  no compaction is named while none of a whole type runs (`IdleIsNone`).
* `ScansProofs`: `ScansInv` says of each scan what it still owes: whatever stayed
  alive and matches is either found already, or lies at or behind the place the scan is
  at, in its direction, and nothing found lies there. This needs that a start which a
  cache returns to an undisturbed scan is the one it left off at, so it is tied to
  `CursorsInv`. From it: undisturbed scans miss nothing and return nothing twice. The
  assumptions are that keys are ordered, finitely many and that matching keys of a tail wildcard
  follow its prefix without a gap (`PrefixAssumption`; a backslash before the wildcard
  breaks that in the code); that the first seek of `PKHRScanRange` landed among
  the version's own records (`SeeksBehind` held then, so the scan is not `astray`) is a hypothesis of
  the property itself, kept in the history for as long as the scan goes on.

Every invariant and action property of a passing run is stated by one of these theorems.
Only model-checked: liveness (`Served`, `Compacted`, `ScansEnd`), which the prover does not
reach; it has no rule for `ENABLED`, on which weak fairness rests.

## Not modelled yet, and the plan

In order of importance; each step is a module, its runs and, where named, its theorems.

1. `MetaValue`, `CollectionStore`, `RedisHashes`: done, proved.
2. `LockMgr`: done, proved.
3. `BGTasks`: done, safety proved.
4. `RedisSets`: done, proved.
5. `RedisLists`: done, proved.
6. `RedisZSets`: done, proved.
7. `RedisStrings` with HyperLogLog's registers: done, proved.
8. `Scans` with `LRUCache`: done, safety proved.
9. `PKPatternMatchDel` as a read and a write with no lock over hashes, sets and lists, as
   it is over sorted sets and strings.
10. The scans of keys by range and within a collection: done, safety proved, in `Scans`.
11. `StopScanKeyNum` and the statistics, whose counts decide when a key is compacted; and
    `Del`, `Expire`, `Exists` and their kin over all types, which call one handler per
    database and keep no state (`Expireat` and `Persist` record a failure of sorted sets
    as one of lists).
12. Backup and checkpoint: file deletions disabled and enabled again on every path.

Left out for good: the byte encodings, number formatting, pattern matching and hashing
(`util.cc`, `coding.h`, `murmurhash.cc`), whose properties are of inputs and not of
states; the estimate of HyperLogLog, which is floating-point arithmetic.
