-------------------------------- MODULE Scans ---------------------------------
(***************************************************************************)
(* The scans.  A scan is a chain of calls, each of which takes up where the *)
(* call before left off.                                                    *)
(*  - BlackWidow::Scan and PKExpireScan visit the keys of the five databases *)
(*    in turn and leave their start key in cursors_store_, an LRU cache that *)
(*    all scans share and that knows it by no more than the data type asked *)
(*    for and a number.  PKExpireScan is a scan whose pattern is a range of *)
(*    deadlines and has no prefix.                                          *)
(*  - HScan, SScan and ZScan do the same with the members of a collection,  *)
(*    in their database's scan_cursors_store_, which knows the key and the  *)
(*    pattern too.                                                          *)
(*  - The range scans and HScanx, over the keys of a database or the fields *)
(*    of a hash, hand the place to go on to their caller.                   *)
(* Handlers and other scans run between the calls and, since every database *)
(* is read from a snapshot of its own, within those of the first kind.      *)
(***************************************************************************)
EXTENDS Integers, Sequences, FiniteSets, SequencesExt

CONSTANTS
  Keys,        \* the keys of all databases and the members of all collections,
               \* numbered in byte order; 0 is the empty string, no limit
  Types,       \* the order in which the databases are scanned
  Collections, \* the places of the collections that are scanned, each in a
               \* database of its own
  Base,        \* of the digits of an encoded version; 256 in the code
  MaxVersion,  \* bound: no version beyond this is begun
  All,         \* DataType::kAll
  Requests,    \* what callers ask for: op, count and pattern, which is the
               \* keys that match it and, if it is a tail wildcard, the place
               \* before them in byte order, 0 if it is none; dtype of Scan, else
               \* the place; from and to of the range scans
  Scanners,    \* callers, each of which scans once
  Capacity,    \* of each cache
  Initial,     \* what the databases and collections may hold at first, and the
               \* versions of the collections
  MaxChanges,  \* bound: so many changes of them
  NoStart

Dbs == 1 .. Len(Types)

Places == Dbs \cup Collections

Record == {"none", "live", "dead"}

Versions == 0 .. MaxVersion

\* The version of a collection, and those of the records that its earlier lives
\* have left behind and compaction has not collected.
Incarnations == [present : Versions, left : SUBSET Versions]

ASSUME ScansAssumption ==
  /\ IsFiniteSet(Keys) /\ Keys \subseteq Nat \ {0}
  /\ Len(Types) \in Nat \ {0}
  /\ \A t, u \in Dbs : Types[t] = Types[u] => t = u
  /\ \A t \in Dbs : Types[t] # All
  /\ Collections \cap Dbs = {}
  /\ Capacity \in Nat \ {0}
  /\ Base \in Nat \ {0, 1} /\ MaxVersion \in Nat
  /\ Initial \subseteq [db : [Places -> [Keys -> Record]],
                      versions : [Collections -> Incarnations]]
  /\ MaxChanges \in Nat
  /\ NoStart \notin Places \X Nat

CollectionScans == {"HScan", "SScan", "ZScan"}
FieldScans == {"HScanx", "PKHScanRange", "PKHRScanRange"}
RangeScans == {"PKScanRange", "PKRScanRange", "HScanx", "PKHScanRange", "PKHRScanRange"}

ASSUME RequestsAssumption ==
  \A q \in Requests :
    /\ q.op \in {"Scan"} \cup CollectionScans \cup RangeScans
    /\ q.count \in Nat \ {0} /\ q.pattern.prefix \in Nat
    /\ q.op = "Scan" => q.dtype = All \/ \E t \in Dbs : q.dtype = Types[t]
    /\ q.op \in CollectionScans => q.place \in Collections
    /\ q.op \in RangeScans => q.place \in Places /\ q.from \in Nat /\ q.to \in Nat
    /\ q.op \in FieldScans => q.place \in Collections

\* The keys that match a tail wildcard are those that have its prefix, and follow
\* it in byte order without a gap.  A backslash before the wildcard breaks this:
\* StringMatch drops it and isTailWildcard keeps it in the prefix.
ASSUME PrefixAssumption ==
  \A q \in Requests : q.pattern.prefix # 0 =>
    \A k \in q.pattern.matches : k \in Nat =>
      /\ q.pattern.prefix <= k
      /\ \A j \in Keys : q.pattern.prefix <= j /\ j <= k => j \in q.pattern.matches

VARIABLES
  db,       \* what each place holds of each key: nothing, a live record, or
            \* one that is dead (expired or empty) and waits for compaction
  versions, \* of the collections
  cursors,  \* cursors_store_, the newest entry last
  points,   \* scan_cursors_store_ of the database of each collection
  scan,     \* what each scanner has done and, inside a call, is about to do
  changes

scansVars == <<db, versions, cursors, points, scan, changes>>

\* found: the keys returned.  History: twice, whether one was returned again;
\* stayed, the matching keys that have been live since the scan began; own, the
\* start this scan left under its cursor; disturbed, whether it ever found
\* something else there; astray, whether records of other versions, or the order
\* of versions, were in the way of its first seek.
Idle == [at |-> "idle"]

Starts == (Places \X Nat) \cup {NoStart}

OutsideCall ==
  [at : {"between", "done"}, request : Requests, cursor : Nat, own : Starts,
   found : SUBSET (Places \X Keys), stayed : SUBSET (Places \X Keys),
   twice : BOOLEAN, disturbed : BOOLEAN, astray : BOOLEAN]

InsideCall ==
  [at : {"inside"}, request : Requests, cursor : Nat, own : Starts,
   found : SUBSET (Places \X Keys), stayed : SUBSET (Places \X Keys),
   twice : BOOLEAN, disturbed : BOOLEAN, astray : BOOLEAN,
   db : Dbs, start : Nat, leftover : Int]

\* A cache of starts in these places, each under a name and a number.
CacheOf(names, places) == Seq([index : names \X Nat, start : places \X Nat])

ScansTypeOK ==
  /\ db \in [Places -> [Keys -> Record]]
  /\ versions \in [Collections -> Incarnations]
  /\ cursors \in CacheOf({q.dtype : q \in {r \in Requests : r.op = "Scan"}}, Dbs)
  /\ DOMAIN points = Collections
  /\ \A c \in Collections : points[c] \in CacheOf({q.pattern : q \in Requests}, {c})
  /\ changes \in 0 .. MaxChanges
  /\ scan \in [Scanners -> {Idle} \cup OutsideCall \cup InsideCall]

ScansInit ==
  /\ \E initial \in Initial : db = initial.db /\ versions = initial.versions
  /\ cursors = <<>>
  /\ points = [c \in Collections |-> <<>>]
  /\ scan = [s \in Scanners |-> Idle]
  /\ changes = 0

----------------------------------------------------------------------------
(* LRUCache, every entry with the charge 1.                                 *)

Entry(cache, index) == {n \in DOMAIN cache : cache[n].index = index}

Lookup(cache, index) == cache[CHOOSE n \in Entry(cache, index) : TRUE].start

Without(cache, index) ==
  IF Entry(cache, index) = {} THEN cache
  ELSE RemoveAt(cache, CHOOSE n \in Entry(cache, index) : TRUE)

\* LRU_Trim: the oldest go.
Trim(entries) ==
  IF Len(entries) > Capacity
  THEN SubSeq(entries, Len(entries) - Capacity + 1, Len(entries)) ELSE entries

\* The bug of leaving the old handle of a key that is inserted again.
InsertBeside(cache, index, start) ==
  Trim(Append(cache, [index |-> index, start |-> start]))

Insert(cache, index, start) ==
  Trim(Append(Without(cache, index), [index |-> index, start |-> start]))

\* Lookup of an entry that is there makes it the newest.
Touch(cache, index) ==
  IF Entry(cache, index) = {} THEN cache
  ELSE Append(Without(cache, index), [index |-> index, start |-> Lookup(cache, index)])

----------------------------------------------------------------------------
(* One database.                                                            *)

Least(S) == CHOOSE k \in S : \A j \in S : k <= j

Empty(c) == \A k \in Keys : db[c][k] # "live"

\* Seek start and visit count live records.
Visited(t, start, count) ==
  LET live == {k \in Keys : k >= start /\ db[t][k] = "live"}
  IN  {k \in live : Cardinality({j \in live : j < k}) < count}

\* The bug of keeping the last key visited as the place to go on.
RestOnLast(t, start, count) ==
  LET visited == Visited(t, start, count)
  IN  IF Cardinality(visited) < count THEN {}
      ELSE {k \in Keys : /\ k >= start
                         /\ db[t][k] # "none"
                         /\ \A v \in visited : v <= k}

\* Where the iterator is then: on the first of these, or at the end.
Rest(t, start, count) ==
  LET visited == Visited(t, start, count)
  IN  IF Cardinality(visited) < count THEN {}
      ELSE {k \in Keys : /\ k >= start
                         /\ db[t][k] # "none"
                         /\ \A v \in visited : v < k}

\* A scan for a prefix is over behind the keys that have it.
Unfinished(rest, pattern) ==
  /\ rest # {}
  /\ pattern.prefix = 0 \/ Least(rest) <= pattern.prefix \/ Least(rest) \in pattern.matches

----------------------------------------------------------------------------
(* What a scan returns.                                                     *)

\* The direction of a range scan: 1 in byte order, -1 against it.
Way(q) == IF q.op \in {"PKRScanRange", "PKHRScanRange"} THEN -1 ELSE 1

InRange(q, k) ==
  q.op \in RangeScans =>
    /\ q.from = 0 \/ Way(q) * q.from <= Way(q) * k
    /\ q.to = 0 \/ Way(q) * k <= Way(q) * q.to

Asked(q) == IF q.op = "Scan" THEN {t \in Dbs : q.dtype \in {All, Types[t]}} ELSE {q.place}

Matching(q) ==
  {e \in Asked(q) \X Keys : /\ e[2] \in q.pattern.matches
                            /\ InRange(q, e[2])
                            /\ db[e[1]][e[2]] = "live"}

\* A scan with what it has returned so far, when it returns the keys of batch.
Returning(s, batch) ==
  [scan[s] EXCEPT !.found = @ \cup batch,
                  !.twice = @ \/ batch \cap scan[s].found # {}]

Begin(s) ==
  /\ scan[s].at = "idle"
  /\ \E q \in Requests :
       scan' = [scan EXCEPT ![s] =
         [at |-> "between", request |-> q, found |-> {}, twice |-> FALSE,
          cursor |-> IF q.op \in {"Scan", "HScan", "SScan", "ZScan"} THEN 0 ELSE q.from,
          stayed |-> Matching(q), own |-> NoStart,
          disturbed |-> FALSE, astray |-> FALSE]]
  /\ UNCHANGED <<db, versions, cursors, points, changes>>

Asks(s, op) == scan[s].at = "between" /\ scan[s].request.op = op

----------------------------------------------------------------------------
(* Scan.                                                                    *)

FirstDb(dtype) == IF dtype = All THEN 1 ELSE CHOOSE t \in Dbs : Types[t] = dtype

\* GetStartKey; a cursor that is not known is as good as 0.
Call(s) ==
  LET q     == scan[s].request
      index == <<q.dtype, scan[s].cursor>>
      known == Entry(cursors, index) # {}
      start == IF known THEN Lookup(cursors, index)
               ELSE <<FirstDb(q.dtype), q.pattern.prefix>>
  IN  /\ Asks(s, "Scan")
      /\ cursors' = Touch(cursors, index)
      /\ scan' = [scan EXCEPT ![s] =
           [at |-> "inside", request |-> q, found |-> @.found, twice |-> @.twice,
            cursor |-> IF known THEN @.cursor ELSE 0, stayed |-> @.stayed,
            db |-> start[1], start |-> start[2], leftover |-> q.count,
            own |-> @.own, astray |-> @.astray,
            disturbed |-> @.disturbed \/ @.own # IF known THEN start ELSE NoStart]]
      /\ UNCHANGED <<db, versions, points, changes>>

\* A scan that leaves a call, with what its caller knows of it.
Leave(state, at, cursor, own) ==
  [at |-> at, request |-> state.request, cursor |-> cursor, found |-> state.found,
   twice |-> state.twice, stayed |-> state.stayed, own |-> own,
   disturbed |-> state.disturbed, astray |-> state.astray]

\* StoreCursorStartKey and return.
Suspend(s, batch, start) ==
  LET q == scan[s].request
      cursor == scan[s].cursor + q.count
  IN  /\ cursors' = Insert(cursors, <<q.dtype, cursor>>, start)
      /\ scan' = [scan EXCEPT ![s] = Leave(Returning(s, batch), "between", cursor, start)]

End(s, batch) ==
  /\ scan' = [scan EXCEPT ![s] = Leave(Returning(s, batch), "done", 0, NoStart)]
  /\ UNCHANGED cursors

\* On to the next database with what is left of count.
GoOn(s, batch, leftover) ==
  /\ scan' = [scan EXCEPT ![s] =
       [Returning(s, batch) EXCEPT !.db = @ + 1,
                                   !.start = scan[s].request.pattern.prefix,
                                   !.leftover = leftover]]
  /\ UNCHANGED cursors

Return(s) ==
  LET visited == Visited(scan[s].db, scan[s].start, scan[s].leftover)
  IN  {<<scan[s].db, k>> : k \in visited \cap scan[s].request.pattern.matches}

\* The bug of forgetting that the count may end with a database.
ScanDbDropsCursor(s) ==
  LET q == scan[s].request
      t == scan[s].db
      visited == Visited(t, scan[s].start, scan[s].leftover)
      rest  == Rest(t, scan[s].start, scan[s].leftover)
      batch == Return(s)
      leftover == scan[s].leftover - Cardinality(visited)
  IN  /\ scan[s].at = "inside"
      /\ IF Unfinished(rest, q.pattern) THEN Suspend(s, batch, <<t, Least(rest)>>)
         ELSE IF q.dtype = Types[t] \/ t = Len(Types) \/ leftover = 0 THEN End(s, batch)
         ELSE GoOn(s, batch, leftover)
      /\ UNCHANGED <<db, versions, points, changes>>

\* One database of a call: it suspends the scan, ends it, or goes on.
ScanDb(s) ==
  LET q == scan[s].request
      t == scan[s].db
      visited == Visited(t, scan[s].start, scan[s].leftover)
      rest  == Rest(t, scan[s].start, scan[s].leftover)
      batch == Return(s)
      leftover == scan[s].leftover - Cardinality(visited)
  IN  /\ scan[s].at = "inside"
      /\ IF Unfinished(rest, q.pattern) THEN Suspend(s, batch, <<t, Least(rest)>>)
         ELSE IF q.dtype = Types[t] \/ t = Len(Types) THEN End(s, batch)
         ELSE IF leftover = 0 THEN Suspend(s, batch, <<t + 1, q.pattern.prefix>>)
         ELSE GoOn(s, batch, leftover)
      /\ UNCHANGED <<db, versions, points, changes>>

----------------------------------------------------------------------------
(* HScan, SScan and ZScan: a call is one step, from one snapshot.           *)

\* Visit count members that have the pattern's prefix.
VisitedMembers(c, start, q) ==
  {k \in Visited(c, start, q.count) : q.pattern.prefix = 0 \/ k \in q.pattern.matches}

\* The name of a start; its database has no other collection.
Point(q, cursor) == <<q.pattern, cursor>>

ScanCollection(s) ==
  LET q     == scan[s].request
      index == Point(q, scan[s].cursor)
      known == Entry(points[q.place], index) # {}
      start == IF known THEN Lookup(points[q.place], index)
               ELSE <<q.place, q.pattern.prefix>>
      cursor == (IF known THEN scan[s].cursor ELSE 0) + q.count
      visited == VisitedMembers(q.place, start[2], q)
      rest == {k \in Keys \ visited : db[q.place][k] = "live" /\ k >= start[2]}
      next == <<q.place, Least(rest)>>
      state == [Returning(s, {q.place} \X (visited \cap q.pattern.matches)) EXCEPT
                  !.disturbed = @ \/ scan[s].own # IF known THEN start ELSE NoStart]
      touched == Touch(points[q.place], index)
  IN  /\ IF Empty(q.place)
         THEN /\ scan' = [scan EXCEPT ![s] = Leave(@, "done", 0, NoStart)]
              /\ UNCHANGED points
         ELSE IF Unfinished(rest, q.pattern)
         THEN /\ scan' = [scan EXCEPT ![s] = Leave(state, "between", cursor, next)]
              /\ points' = [points EXCEPT ![q.place] = Insert(touched, Point(q, cursor), next)]
         ELSE /\ scan' = [scan EXCEPT ![s] = Leave(state, "done", 0, NoStart)]
              /\ points' = [points EXCEPT ![q.place] = touched]
      /\ UNCHANGED <<db, versions, cursors, changes>>

HScan(s) == Asks(s, "HScan") /\ ScanCollection(s)

SScan(s) == Asks(s, "SScan") /\ ScanCollection(s)

ZScan(s) == Asks(s, "ZScan") /\ ScanCollection(s)

----------------------------------------------------------------------------
(* The range scans.                                                         *)
(* cursor is the key or field the call before named as the next.            *)

\* The live records ahead of a seek to where the caller says.
Ahead(s) ==
  LET q == scan[s].request
      way == Way(q)
      start == scan[s].cursor
  IN  {k \in Keys : /\ db[q.place][k] = "live"
                    /\ start = 0 \/ way * k >= way * start
                    /\ q.to = 0 \/ way * k <= way * q.to}

\* The bug of naming the last record visited as the next.
AdvanceRepeating(s, ahead, astray) ==
  LET q == scan[s].request
      way == Way(q)
      visited == {k \in ahead : Cardinality({j \in ahead : way * j < way * k}) < q.count}
      rest == ahead \ visited
      next == CHOOSE k \in visited : \A j \in visited : way * j <= way * k
      state == [Returning(s, {q.place} \X (visited \cap q.pattern.matches)) EXCEPT
                  !.astray = @ \/ astray]
  IN  /\ scan' = [scan EXCEPT ![s] =
           IF rest = {} THEN Leave(state, "done", 0, NoStart)
           ELSE Leave(state, "between", next, NoStart)]
      /\ UNCHANGED <<db, versions, cursors, points, changes>>

\* Visit count records and name the next, if there is one in the range.  astray:
\* whether what was sought may have been missed.
Advance(s, ahead, astray) ==
  LET q == scan[s].request
      way == Way(q)
      visited == {k \in ahead : Cardinality({j \in ahead : way * j < way * k}) < q.count}
      rest == ahead \ visited
      next == CHOOSE k \in rest : \A j \in rest : way * k <= way * j
      state == [Returning(s, {q.place} \X (visited \cap q.pattern.matches)) EXCEPT
                  !.astray = @ \/ astray]
  IN  /\ scan' = [scan EXCEPT ![s] =
           IF rest = {} THEN Leave(state, "done", 0, NoStart)
           ELSE Leave(state, "between", next, NoStart)]
      /\ UNCHANGED <<db, versions, cursors, points, changes>>

PKScanRange(s) == Asks(s, "PKScanRange") /\ Advance(s, Ahead(s), FALSE)

PKRScanRange(s) == Asks(s, "PKRScanRange") /\ Advance(s, Ahead(s), FALSE)

HScanx(s) == Asks(s, "HScanx") /\ Advance(s, Ahead(s), FALSE)

PKHScanRange(s) == Asks(s, "PKHScanRange") /\ Advance(s, Ahead(s), FALSE)

\* The bytes of a version in a record's key: EncodeFixed32 puts the low one first.
EncodeFixed32(v) ==
  LET weight == <<1, Base, Base * Base, Base * Base * Base>>
  IN  [i \in 1 .. 4 |-> (v \div weight[i]) % Base]

\* In the order of the data column family the records of u come before those of v.
SortsBefore(u, v) ==
  \E i \in 1 .. 4 :
    /\ EncodeFixed32(u)[i] < EncodeFixed32(v)[i]
    /\ \A j \in 1 .. i - 1 : EncodeFixed32(u)[j] = EncodeFixed32(v)[j]

Stored(c) == versions[c].left \cup IF Empty(c) THEN {} ELSE {versions[c].present}

\* SeekForPrev of the place before all of v's records: the version of the record
\* it lands on, if there is one.
SeekForPrev(c, v) ==
  {u \in Stored(c) : /\ SortsBefore(u, v)
                     /\ \A w \in Stored(c) : SortsBefore(w, v) => ~SortsBefore(u, w)}

\* The bug of seeking to the present version, whose records are all behind it.
LandingBefore(c) == SeekForPrev(c, versions[c].present)

\* A backward scan without a start begins before the next version.
Landing(c) == SeekForPrev(c, versions[c].present + 1)

\* The next version follows the present one, and no record left behind lies
\* between the two.  In 1 of Base versions the next one comes before.
SeeksBehind(c) ==
  LET v == versions[c].present
  IN  /\ v % Base # Base - 1
      /\ \A w \in versions[c].left : ~(SortsBefore(v, w) /\ SortsBefore(w, v + 1))

\* The scan is over at once unless it lands on a record of the present version.
PKHRScanRange(s) ==
  LET c == scan[s].request.place
      first == scan[s].cursor = 0
  IN  /\ Asks(s, "PKHRScanRange")
      /\ Advance(s, IF first /\ versions[c].present \notin Landing(c) THEN {} ELSE Ahead(s),
                    first /\ ~SeeksBehind(c))

----------------------------------------------------------------------------

\* The keys of gone are there no more.
Forget(gone) ==
  scan' = [s \in Scanners |->
    IF scan[s].at = "idle" THEN scan[s] ELSE [scan[s] EXCEPT !.stayed = @ \ gone]]

\* Bound: what no scan under way is asked about does not change.
Watched(t) ==
  \E s \in Scanners : scan[s].at \in {"between", "inside"} /\ t \in Asked(scan[s].request)

\* Handlers, the clock and compaction: a key comes to life, is deleted, expires,
\* is emptied, or its dead record is collected; a member is added or removed.
Change(t, k) ==
  /\ changes < MaxChanges /\ Watched(t)
  /\ changes' = changes + 1
  /\ \E r \in Record \ {db[t][k]} :
       /\ db[t][k] = "none" \/ t \in Collections => r # "dead"
       /\ t \in Collections => ~Empty(t)
       /\ db' = [db EXCEPT ![t][k] = r]
  /\ Forget(IF db'[t][k] = "live" THEN {} ELSE {<<t, k>>})
  /\ UNCHANGED <<versions, cursors, points>>

\* A first member begins a collection, under a newer version than it had.
Renew(c, k) ==
  /\ changes < MaxChanges /\ Watched(c) /\ Empty(c)
  /\ changes' = changes + 1
  /\ db' = [db EXCEPT ![c][k] = "live"]
  /\ \E v \in versions[c].present + 1 .. MaxVersion :
       versions' = [versions EXCEPT ![c].present = v]
  /\ UNCHANGED <<cursors, points, scan>>

\* A collection is deleted or expires.  Its records stay where they are.
Vanish(c) ==
  /\ changes < MaxChanges /\ Watched(c)
  /\ changes' = changes + 1
  /\ db' = [db EXCEPT ![c] = [k \in Keys |-> "none"]]
  /\ versions' = [versions EXCEPT ![c].left = Stored(c)]
  /\ Forget({c} \X Keys)
  /\ UNCHANGED <<cursors, points>>

\* Compaction collects all that one dead version left.
Collect(c) ==
  /\ changes < MaxChanges /\ Watched(c)
  /\ changes' = changes + 1
  /\ \E v \in versions[c].left :
       versions' = [versions EXCEPT ![c].left = @ \ {v}]
  /\ UNCHANGED <<db, cursors, points, scan>>

Scanner(s) ==
  \/ Call(s) \/ ScanDb(s)
  \/ HScan(s) \/ SScan(s) \/ ZScan(s)
  \/ PKScanRange(s) \/ PKRScanRange(s)
  \/ HScanx(s) \/ PKHScanRange(s) \/ PKHRScanRange(s)

Next ==
  \/ \E s \in Scanners : Begin(s) \/ Scanner(s)
  \/ \E t \in Places, k \in Keys : Change(t, k)
  \/ \E c \in Collections : Vanish(c) \/ Collect(c) \/ \E k \in Keys : Renew(c, k)

Spec == ScansInit /\ [][Next]_scansVars

\* A caller that has begun calls again until it is told that there is no more.
FairSpec == Spec /\ \A s \in Scanners : WF_scansVars(Scanner(s))

----------------------------------------------------------------------------
(* Properties.                                                              *)

Proper(cache) ==
  /\ Len(cache) <= Capacity
  /\ \A m, n \in DOMAIN cache : cache[m].index = cache[n].index => m = n

\* Each cache holds one start per data type and number, or per pattern and
\* number, and no more of them than it may.
CursorsInv == ScansTypeOK /\ Proper(cursors) /\ \A c \in Collections : Proper(points[c])

\* Where a scan takes up, if it finds its own start or needs none.
Place(state) ==
  LET q == state.request
  IN  IF state.at = "inside" THEN <<state.db, state.start>>
      ELSE IF state.own # NoStart THEN state.own
      ELSE <<IF q.op = "Scan" THEN FirstDb(q.dtype) ELSE q.place, q.pattern.prefix>>

\* What it has behind it there.
Passed(state, t, k) ==
  LET q == state.request
      p == Place(state)
  IN  \/ /\ q.op \in RangeScans
         /\ state.cursor # 0 /\ Way(q) * k < Way(q) * state.cursor
      \/ q.op \in CollectionScans /\ k < p[2]
      \/ q.op = "Scan" /\ t \in 1 .. p[1] /\ (t < p[1] \/ k < p[2])

\* The start it left is one of a database or of its collection.
OwnStart(state) ==
  LET q == state.request
  IN  /\ q.op \in RangeScans => state.own = NoStart
      /\ state.own # NoStart =>
           /\ q.op = "Scan" => state.own[1] \in Dbs
           /\ q.op \in CollectionScans =>
                state.own[1] = q.place /\ q.pattern.prefix <= state.own[2]

\* Between two steps a scan that was given no other's start has returned what is
\* behind its place, once, and has before it what else was there all the time.
InPlace(state) ==
  /\ ~state.twice
  /\ \A e \in state.found : Passed(state, e[1], e[2])
  /\ \A e \in state.stayed \ state.found : ~Passed(state, e[1], e[2])

ScanInv(state) ==
  /\ state.at = "inside" => state.request.op = "Scan"
  /\ state.at \in {"between", "inside"} => state.stayed \subseteq Matching(state.request)
  /\ state.at \in {"between", "inside"} /\ ~state.disturbed => OwnStart(state) /\ InPlace(state)
  /\ state.at = "done" /\ ~state.disturbed =>
       /\ ~state.twice
       /\ ~state.astray => state.stayed \subseteq state.found

\* CursorsInv, and what every scan may rely on from step to step.
ScansInv == CursorsInv /\ \A s \in Scanners : ScanInv(scan[s])

\* A scan that ends, and was never given another scan's start or none, has
\* returned every matching key or member that was there all the time, across
\* databases, counts that end with one, dead records and changes during the scan,
\* forwards and backwards; a backward scan of a hash without a start, if at its
\* first seek SeeksBehind held (else PKHRScanRange may return nothing at all).
ScanFindsAll ==
  \A s \in Scanners :
    scan[s].at = "done" /\ ~scan[s].disturbed /\ ~scan[s].astray =>
      scan[s].stayed \subseteq scan[s].found

\* Such a scan returns no key or member twice, whatever changes around it.
ReturnsOnce ==
  \A s \in Scanners : scan[s].at # "idle" /\ scan[s].twice => scan[s].disturbed

\* Every scan that is begun and called on ends, as long as the databases come to
\* rest and the caches hold what the other scans leave between two calls.
ScansEnd == \A s \in Scanners : scan[s].at = "between" ~> scan[s].at = "done"
=============================================================================
