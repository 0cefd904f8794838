---------------------------- MODULE CountEntries -----------------------------
(***************************************************************************)
(* The count tracker, for any number of prefixes and writes: the numbers   *)
(* of creates, deletes and live records balance, and the poll loop keeps   *)
(* every entry exact at the last revision applied to it.                   *)
(***************************************************************************)
EXTENDS Count, ScanProofs

USE ZenonT(10), SMTT(20), Z3T(20)

(***************************************************************************)
(* What is used of the store: the inductive invariant of Mvcc, and that    *)
(* compaction cannot be seen from the current revision.                    *)
(***************************************************************************)
Sound == S!IInv /\ S!CompactionInvisible

IndexIsOK == IndexOK(version, history, records)

StoreEvolves == Evolves(version, history, records, version', history', records')

-----------------------------------------------------------------------------
(***************************************************************************)
(* The live records of X at revision n, and the creates and deletes from   *)
(* revision m on.                                                          *)
(***************************************************************************)
LiveOf(X, n) == {r \in S!View(history, n) : r.key \in X}

LiveIn(H, X, n) == Cardinality({r \in S!View(H, n) : r.key \in X})

Creates(X, m, n) == {h \in history : h.key \in X /\ h.isCreate /\ m < h.rev /\ h.rev <= n}

Deletes(X, m, n) == {h \in history : h.key \in X /\ h.isDelete /\ m < h.rev /\ h.rev <= n}

(***************************************************************************)
(* A key is live after as many creates as deletes and one: creates come    *)
(* over nothing or a tombstone, deletes over a live record.                *)
(***************************************************************************)
Balanced ==
    \A X \in Prefixes, n \in 0 .. version :
       Live(X, n) + Cardinality(Deletes(X, 0, n)) = Cardinality(Creates(X, 0, n))

(***************************************************************************)
(* The poll loop.  What it has read is newer than what is applied, until   *)
(* it is applied itself.                                                   *)
(***************************************************************************)
PollInv ==
    /\ pollPc \in {"off", "read", "apply", "publish"}
    /\ lastWatchRev \in Nat /\ applied \in Nat
    /\ lastWatchRev <= applied /\ applied <= version
    /\ batch \subseteq history
    /\ pollPc \in {"off", "read"} => batch = {} /\ applied = lastWatchRev
    /\ pollPc \in {"apply", "publish"} => batch # {}
    /\ pollPc = "apply" => applied = lastWatchRev /\ \A b \in batch : b.rev > applied
    /\ pollPc = "publish" => applied = Max({r.rev : r \in batch})

(***************************************************************************)
(* An entry is exact, and what the loop has read and not applied is all    *)
(* that the entry needs to stay exact.                                     *)
(***************************************************************************)
Entry == [count : Int, seedRev : Nat, ok : BOOLEAN]

ReadAll(X) ==
    \A h \in history :
       /\ Counts(X, h) /\ h.rev > MaxOf(entries[X].seedRev, applied)
       /\ \E r \in batch : h.rev <= r.rev
       => h \in batch

EntryOK(X) ==
    /\ entries[X].seedRev <= version
    /\ entries[X].ok /\ X \notin spoiled =>
          /\ entries[X].count = LiveIn(history, X, MaxOf(entries[X].seedRev, applied))
          /\ pollPc = "apply" => ReadAll(X)

EntryInv == entries \in [Prefixes -> Entry] /\ \A X \in Prefixes : EntryOK(X)

(***************************************************************************)
(* A scan that no compaction has interrupted has counted the live records  *)
(* of the keys it has passed.                                              *)
(***************************************************************************)
Undisturbed(c) ==
    /\ collector[c].currentRecord \subseteq records
    /\ collector[c].at # {} =>
          S!View(records, collector[c].firstRev) = S!View(history, collector[c].firstRev)
    /\ collector[c].count =
          Cardinality({r \in S!View(history, collector[c].firstRev) :
                          r.key \in prefix[c] /\ Passed(collector[c], r.key)})

Result == [count : Int, rev : Nat, since : Nat]

CallOK(c) ==
    /\ pc[c] # "idle" => prefix[c] \in Prefixes
    /\ res[c].rev <= version
    /\ pc[c] # "scan" => collector[c] = NewRecordCollector
    /\ pc[c] = "scan" =>
          /\ Scanning(version, history, records, Request(prefix[c]), collector[c])
          /\ c \notin doubtful => Undisturbed(c)
    /\ c \notin doubtful =>
          /\ pc[c] \in {"seed", "scanned"} => res[c].count = LiveIn(history, prefix[c], res[c].rev)
          /\ pc[c] \in {"load", "answered"} =>
                \E n \in res[c].since .. version : res[c].count = LiveIn(history, prefix[c], n)

CallTypes ==
    /\ pc \in [Caller -> {"idle", "load", "scan", "seed", "scanned", "answered"}]
    /\ prefix \in [Caller -> Prefixes \cup {{}}]
    /\ res \in [Caller -> Result]
    /\ DOMAIN collector = Caller
    /\ spoiled \subseteq Prefixes /\ doubtful \subseteq Caller

CallInv == \A c \in Caller : CallOK(c)

CountInv == Balanced /\ PollInv /\ EntryInv /\ CallTypes /\ CallInv

-----------------------------------------------------------------------------
LEMMA StoreIsOK == ASSUME Sound PROVE IndexIsOK
  BY KeyAssumption, Zenon
     DEF Sound, S!IInv, S!TypeOK, S!RevisionsUnique, S!Record, IndexIsOK, IndexOK

(***************************************************************************)
(* What it is to be live at a revision.                                    *)
(***************************************************************************)
LiveAt(H, r, n) ==
    /\ r \in H /\ r.rev <= n /\ ~r.isDelete
    /\ \A h \in H : h.key = r.key /\ h.rev <= n => h.rev <= r.rev

LEMMA ViewIsLive ==
    ASSUME NEW H, NEW n, NEW r
    PROVE  r \in S!View(H, n) <=> LiveAt(H, r, n)
  BY DEF S!View, S!Newest, LiveAt

LEMMA LiveOfIs ==
    ASSUME NEW X, NEW n, NEW r
    PROVE  r \in LiveOf(X, n) <=> LiveAt(history, r, n) /\ r.key \in X
  BY ViewIsLive DEF LiveOf

(***************************************************************************)
(* All of these sets are finite.                                           *)
(***************************************************************************)
LEMMA LiveFinite ==
    ASSUME IndexIsOK, NEW X, NEW m, NEW n
    PROVE  /\ IsFiniteSet(history)
           /\ IsFiniteSet(LiveOf(X, n)) /\ Live(X, n) \in Nat
           /\ IsFiniteSet(Creates(X, m, n)) /\ Cardinality(Creates(X, m, n)) \in Nat
           /\ IsFiniteSet(Deletes(X, m, n)) /\ Cardinality(Deletes(X, m, n)) \in Nat
<1>1. IsFiniteSet(history)
  BY HistoryFinite DEF IndexIsOK
<1>2. /\ LiveOf(X, n) \in SUBSET history /\ Creates(X, m, n) \in SUBSET history
      /\ Deletes(X, m, n) \in SUBSET history
  BY LiveOfIs DEF LiveAt, Creates, Deletes
<1>3. Live(X, n) = Cardinality(LiveOf(X, n))
  BY DEF Live, LiveOf
<1> QED
  BY <1>1, <1>2, <1>3, FS_Subset, FS_CardinalityType

(***************************************************************************)
(* What is past does not change.                                           *)
(***************************************************************************)
LEMMA PastIsStable ==
    ASSUME IndexIsOK, StoreEvolves, NEW X, NEW m, NEW n \in Nat, n <= version
    PROVE  /\ LiveOf(X, n)' = LiveOf(X, n) /\ Live(X, n)' = Live(X, n)
           /\ Creates(X, m, n)' = Creates(X, m, n)
           /\ Deletes(X, m, n)' = Deletes(X, m, n)
<1>1. /\ version \in Nat /\ history \subseteq history'
      /\ \A h \in history' : h \in history \/ (h.rev \in Nat /\ h.rev > version)
  BY DEF IndexIsOK, IndexOK, StoreEvolves, Evolves
<1>2. \A h \in history' : h.rev <= n => h \in history
  BY <1>1
<1>3. \A r : LiveAt(history', r, n) <=> LiveAt(history, r, n)
  BY <1>1, <1>2 DEF LiveAt
<1>4. S!View(history', n) = S!View(history, n)
  BY <1>3, ViewIsLive
<1>5. LiveOf(X, n)' = LiveOf(X, n) /\ Live(X, n)' = Live(X, n)
  BY <1>4 DEF LiveOf, Live
<1>6. Creates(X, m, n)' = Creates(X, m, n) /\ Deletes(X, m, n)' = Deletes(X, m, n)
  BY <1>1, <1>2 DEF Creates, Deletes
<1> QED
  BY <1>5, <1>6

(***************************************************************************)
(* From one revision to another, a count changes by the creates and the    *)
(* deletes between them.                                                   *)
(***************************************************************************)
LEMMA Between ==
    ASSUME IndexIsOK, Balanced, NEW X \in Prefixes,
           NEW m \in Nat, NEW n \in Nat, m <= n, n <= version
    PROVE  Live(X, n) = Live(X, m) + Cardinality(Creates(X, m, n))
                                   - Cardinality(Deletes(X, m, n))
<1>1. /\ Live(X, n) + Cardinality(Deletes(X, 0, n)) = Cardinality(Creates(X, 0, n))
      /\ Live(X, m) + Cardinality(Deletes(X, 0, m)) = Cardinality(Creates(X, 0, m))
  BY DEF Balanced, IndexIsOK, IndexOK
<1>2. \A h \in history : h.rev \in Nat
  BY DEF IndexIsOK, IndexOK
<1>3. /\ Creates(X, 0, n) = Creates(X, 0, m) \cup Creates(X, m, n)
      /\ Creates(X, 0, m) \cap Creates(X, m, n) = {}
  BY <1>2 DEF Creates
<1>4. /\ Deletes(X, 0, n) = Deletes(X, 0, m) \cup Deletes(X, m, n)
      /\ Deletes(X, 0, m) \cap Deletes(X, m, n) = {}
  BY <1>2 DEF Deletes
<1>6. /\ Live(X, n) \in Nat /\ Live(X, m) \in Nat
      /\ Cardinality(Creates(X, 0, m)) \in Nat /\ IsFiniteSet(Creates(X, 0, m))
      /\ Cardinality(Creates(X, m, n)) \in Nat /\ IsFiniteSet(Creates(X, m, n))
      /\ Cardinality(Deletes(X, 0, m)) \in Nat /\ IsFiniteSet(Deletes(X, 0, m))
      /\ Cardinality(Deletes(X, m, n)) \in Nat /\ IsFiniteSet(Deletes(X, m, n))
  BY LiveFinite
<1>7. Cardinality(Creates(X, 0, n))
         = Cardinality(Creates(X, 0, m)) + Cardinality(Creates(X, m, n))
  BY <1>3, <1>6, DisjointCount, Zenon
<1>8. Cardinality(Deletes(X, 0, n))
         = Cardinality(Deletes(X, 0, m)) + Cardinality(Deletes(X, m, n))
  BY <1>4, <1>6, DisjointCount
<1> QED
  BY <1>1, <1>6, <1>7, <1>8

(***************************************************************************)
(* With no event between them it does not change.                          *)
(***************************************************************************)
LEMMA NothingBetween ==
    ASSUME IndexIsOK, Balanced, NEW X \in Prefixes,
           NEW m \in Nat, NEW n \in Nat, m <= n, n <= version,
           \A h \in history : Counts(X, h) => ~(m < h.rev /\ h.rev <= n)
    PROVE  Live(X, n) = Live(X, m)
<1>1. Creates(X, m, n) = {} /\ Deletes(X, m, n) = {}
  BY DEF Creates, Deletes, Counts
<1>2. Cardinality({}) = 0
  BY FS_EmptySet
<1>3. Live(X, m) \in Nat
  BY LiveFinite
<1>4. Live(X, n) = Live(X, m) + Cardinality(Creates(X, m, n))
                              - Cardinality(Deletes(X, m, n))
  BY Between
<1> QED
  BY <1>1, <1>2, <1>3, <1>4

-----------------------------------------------------------------------------
(***************************************************************************)
(* The steps of the store keep the balance.                                *)
(***************************************************************************)
LEMMA SameLive ==
    ASSUME Sound, NEW r
    PROVE  LiveAt(records, r, version) <=> LiveAt(history, r, version)
<1>1. S!View(records, version) = S!View(history, version)
  BY DEF Sound, S!CompactionInvisible
<1> QED
  BY <1>1, ViewIsLive

LEMMA LastIsLive ==
    ASSUME Sound, NEW k
    PROVE  /\ \A p \in S!GetLast(k) : ~p.isDelete =>
                 LiveAt(history, p, version) /\ p.key = k
           /\ \A q : LiveAt(history, q, version) /\ q.key = k =>
                 q \in S!GetLast(k) /\ \A p \in S!GetLast(k) : p = q
<1>1. IndexIsOK
  BY StoreIsOK
<1>2. /\ \A h \in history : h.rev \in Nat /\ h.rev <= version
      /\ \A g, h \in history : g.rev = h.rev => g = h
      /\ records \subseteq history
  BY <1>1 DEF IndexIsOK, IndexOK
<1>3. ASSUME NEW p \in S!GetLast(k), ~p.isDelete
      PROVE  LiveAt(history, p, version) /\ p.key = k
  <2>1. LiveAt(records, p, version) /\ p.key = k
    BY <1>2, <1>3 DEF S!GetLast, S!Newest, LiveAt
  <2> QED
    BY <2>1, SameLive
<1>4. ASSUME NEW q, LiveAt(history, q, version), q.key = k
      PROVE  q \in S!GetLast(k) /\ \A p \in S!GetLast(k) : p = q
  <2>1. LiveAt(records, q, version)
    BY <1>4, SameLive
  <2>2. q \in records /\ \A s \in records : s.key = k => s.rev <= q.rev
    BY <1>2, <1>4, <2>1 DEF LiveAt
  <2>3. q \in S!GetLast(k)
    BY <1>4, <2>2 DEF S!GetLast, S!Newest
  <2>4. ASSUME NEW p \in S!GetLast(k) PROVE p = q
    <3>1. p \in records /\ p.rev <= q.rev /\ q.rev <= p.rev
      BY <1>4, <2>2 DEF S!GetLast, S!Newest
    <3> QED
      BY <1>2, <2>2, <3>1
  <2> QED
    BY <2>3, <2>4
<1> QED
  BY <1>3, <1>4

(***************************************************************************)
(* What an appended record does to the live keys.                          *)
(***************************************************************************)
Replaces(r) ==
    \/ /\ r.isCreate /\ ~r.isDelete
       /\ \A q : ~(LiveAt(history, q, version) /\ q.key = r.key)
    \/ /\ ~r.isCreate
       /\ \E p : LiveAt(history, p, version) /\ p.key = r.key

LEMMA WriteReplaces ==
    ASSUME Sound, S!Write
    PROVE  \E r : /\ history' = history \cup {r} /\ version' = version + 1
                  /\ r.rev = version + 1 /\ Replaces(r)
<1>1. CASE \E k \in Key, v \in Value, l \in Lease : S!Create(k, v, l)
  <2>1. PICK k \in Key, v \in Value, l \in Lease : S!Create(k, v, l)
    BY <1>1
  <2> DEFINE new(prev) == S!CreateRecord(version + 1, k, v, l, prev)
  <2>2. \A prev : /\ new(prev).rev = version + 1 /\ new(prev).key = k
                  /\ new(prev).isCreate = TRUE /\ new(prev).isDelete = FALSE
    BY DEF S!CreateRecord
  <2>3. PICK prev : S!AppendRecord(new(prev))
                    /\ \A p \in S!GetLast(k) : p.isDelete
    <3>1. CASE S!GetLast(k) = {}
      BY <2>1, <3>1 DEF S!Create
    <3>2. CASE S!GetLast(k) # {}
      <4>1. PICK p \in S!GetLast(k) : p.isDelete /\ \E prev : S!AppendRecord(new(prev))
        BY <2>1, <3>2 DEF S!Create
      <4>2. \A q \in S!GetLast(k) : q = p
        BY StoreIsOK DEF S!GetLast, S!Newest, IndexIsOK, IndexOK
      <4> QED
        BY <4>1, <4>2
    <3> QED
      BY <3>1, <3>2
  <2> HIDE DEF new
  <2>4. \A q : ~(LiveAt(history, q, version) /\ q.key = k)
    BY <2>3, LastIsLive DEF LiveAt
  <2>5. Replaces(new(prev))
    BY <2>2, <2>4 DEF Replaces
  <2> QED
    BY <2>2, <2>3, <2>5 DEF S!AppendRecord
<1>2. CASE \E k \in Key, v \in Value, l \in Lease : S!Update(k, v, l)
  <2>1. PICK k \in Key, v \in Value, l \in Lease : S!Update(k, v, l)
    BY <1>2
  <2>2. PICK p \in S!GetLast(k) :
           ~p.isDelete /\ S!AppendRecord(S!UpdateRecord(version + 1, p, v, l))
    BY <2>1 DEF S!Update
  <2> DEFINE r == S!UpdateRecord(version + 1, p, v, l)
  <2>3. r.rev = version + 1 /\ r.key = p.key /\ r.isCreate = FALSE
    BY DEF S!UpdateRecord
  <2> HIDE DEF r
  <2>4. Replaces(r)
    BY <2>2, <2>3, LastIsLive DEF Replaces
  <2> QED
    BY <2>2, <2>3, <2>4 DEF S!AppendRecord, r
<1>3. CASE \E k \in Key : S!Delete(k)
  <2>1. PICK k \in Key : S!Delete(k)
    BY <1>3
  <2>2. PICK p \in S!GetLast(k) :
           ~p.isDelete /\ S!AppendRecord(S!DeleteRecord(version + 1, p))
    BY <2>1 DEF S!Delete
  <2> DEFINE r == S!DeleteRecord(version + 1, p)
  <2>3. r.rev = version + 1 /\ r.key = p.key /\ r.isCreate = FALSE
    BY DEF S!DeleteRecord
  <2> HIDE DEF r
  <2>4. Replaces(r)
    BY <2>2, <2>3, LastIsLive DEF Replaces
  <2> QED
    BY <2>2, <2>3, <2>4 DEF S!AppendRecord, r
<1> QED
  BY <1>1, <1>2, <1>3 DEF S!Write

LEMMA AddedLive ==
    ASSUME IndexIsOK, NEW r, r.rev = version + 1, NEW q
    PROVE  LiveAt(history \cup {r}, q, version + 1)
              <=> \/ q.key # r.key /\ LiveAt(history, q, version)
                  \/ q = r /\ ~r.isDelete
<1>1. version \in Nat /\ \A h \in history : h.rev \in Nat /\ h.rev <= version
  BY DEF IndexIsOK, IndexOK
<1>2. \A h \in history : h.rev <= version + 1 /\ ~(r.rev <= h.rev) /\ h.rev <= r.rev
  BY <1>1
<1>3. r.rev <= version + 1 /\ r.rev <= r.rev
  BY <1>1
<1>4. CASE q = r
  <2>1. ~(q.key # r.key)
    BY <1>4, Zenon
  <2>2. LiveAt(history \cup {r}, r, version + 1) <=> ~r.isDelete
    BY <1>2, <1>3, Zenon DEF LiveAt
  <2> QED
    BY <1>4, <2>1, <2>2, Zenon
<1>5. CASE q # r /\ q.key = r.key
  BY <1>2, <1>3, <1>5, Zenon DEF LiveAt
<1>6. CASE q # r /\ q.key # r.key
  BY <1>1, <1>2, <1>6, Zenon DEF LiveAt
<1> QED
  BY <1>4, <1>5, <1>6

(***************************************************************************)
(* The live records, the creates and the deletes after an append.          *)
(***************************************************************************)
LEMMA AppendSets ==
    ASSUME IndexIsOK, NEW r, history' = history \cup {r}, r.rev = version + 1,
           NEW X, NEW n, n = version + 1
    PROVE  /\ LiveOf(X, n)' =
                 {q \in LiveOf(X, version) : q.key # r.key}
                    \cup {q \in {r} : q.key \in X /\ ~q.isDelete}
           /\ Creates(X, 0, n)' =
                 Creates(X, 0, version) \cup {q \in {r} : q.key \in X /\ q.isCreate}
           /\ Deletes(X, 0, n)' =
                 Deletes(X, 0, version) \cup {q \in {r} : q.key \in X /\ q.isDelete}
<1>1. /\ version \in Nat
      /\ \A h \in history : h.rev \in Nat /\ h.rev <= version /\ h.rev <= n
      /\ 0 < r.rev /\ r.rev <= n
  BY DEF IndexIsOK, IndexOK
<1>2. \A q : q \in S!View(history', n) <=>
                \/ q.key # r.key /\ q \in S!View(history, version)
                \/ q = r /\ ~r.isDelete
  BY AddedLive, ViewIsLive, Zenon
<1>3. LiveOf(X, n)' = {q \in S!View(history', n) : q.key \in X}
  BY DEF LiveOf
<1>4. LiveOf(X, n)' = {q \in LiveOf(X, version) : q.key # r.key}
                         \cup {q \in {r} : q.key \in X /\ ~q.isDelete}
  <2>1. /\ \A q : q \in LiveOf(X, n)' <=> q \in S!View(history', n) /\ q.key \in X
        /\ \A q : q \in LiveOf(X, version) <=> q \in S!View(history, version) /\ q.key \in X
    BY <1>3, Zenon DEF LiveOf
  <2>2. \A q : q \in LiveOf(X, n)' <=>
                  \/ q \in LiveOf(X, version) /\ q.key # r.key
                  \/ q = r /\ r.key \in X /\ ~r.isDelete
    BY <1>2, <2>1, Zenon
  <2> HIDE DEF LiveOf
  <2>3. \A q : q \in LiveOf(X, n)' <=>
                  q \in {p \in LiveOf(X, version) : p.key # r.key}
                          \cup {p \in {r} : p.key \in X /\ ~p.isDelete}
    BY <2>2, Zenon
  <2> QED
    BY <2>3, Zenon
<1>5. Creates(X, 0, n)' = {h \in history' : h.key \in X /\ h.isCreate
                                              /\ 0 < h.rev /\ h.rev <= n}
      /\ Deletes(X, 0, n)' = {h \in history' : h.key \in X /\ h.isDelete
                                              /\ 0 < h.rev /\ h.rev <= n}
  BY DEF Creates, Deletes
<1>6. Creates(X, 0, n)' =
         Creates(X, 0, version) \cup {q \in {r} : q.key \in X /\ q.isCreate}
  BY <1>1, <1>5, Zenon DEF Creates
<1>7. Deletes(X, 0, n)' =
         Deletes(X, 0, version) \cup {q \in {r} : q.key \in X /\ q.isDelete}
  BY <1>1, <1>5, Zenon DEF Deletes
<1> QED
  BY <1>4, <1>6, <1>7, Zenon

LEMMA AppendBalanced ==
    ASSUME IndexIsOK, Balanced, StoreEvolves, NEW r, history' = history \cup {r},
           version' = version + 1, r.rev = version + 1, Replaces(r)
    PROVE  Balanced'
<1> SUFFICES ASSUME NEW X \in Prefixes, NEW n \in Nat, n <= version + 1
             PROVE  Live(X, n)' + Cardinality(Deletes(X, 0, n)')
                                = Cardinality(Creates(X, 0, n)')
  BY DEF Balanced, IndexIsOK, IndexOK
<1>1. version \in Nat /\ \A h \in history : h.rev \in Nat /\ h.rev <= version
  BY DEF IndexIsOK, IndexOK
<1>2. CASE n <= version
  <2>1. Live(X, n) + Cardinality(Deletes(X, 0, n)) = Cardinality(Creates(X, 0, n))
    BY <1>1, <1>2 DEF Balanced
  <2>2. /\ Live(X, n)' = Live(X, n) /\ Deletes(X, 0, n)' = Deletes(X, 0, n)
        /\ Creates(X, 0, n)' = Creates(X, 0, n)
    BY <1>2, PastIsStable, Zenon
  <2> QED
    BY <2>1, <2>2, Zenon
<1>3. CASE n = version + 1
  <2> DEFINE L == LiveOf(X, version)
             C == Creates(X, 0, version)
             D == Deletes(X, 0, version)
  <2>1. /\ IsFiniteSet(L) /\ IsFiniteSet(C) /\ IsFiniteSet(D)
        /\ Cardinality(L) \in Nat /\ Cardinality(C) \in Nat /\ Cardinality(D) \in Nat
        /\ Live(X, version) = Cardinality(L)
    BY LiveFinite, FS_CardinalityType, Zenon DEF Live, LiveOf
  <2>2. Cardinality(L) + Cardinality(D) = Cardinality(C)
    <3>1. Live(X, version) + Cardinality(D) = Cardinality(C)
      BY <1>1 DEF Balanced
    <3> QED
      BY <2>1, <3>1, Zenon
  <2>3. /\ LiveOf(X, n)' = {q \in L : q.key # r.key}
                             \cup {q \in {r} : q.key \in X /\ ~q.isDelete}
        /\ Creates(X, 0, n)' = C \cup {q \in {r} : q.key \in X /\ q.isCreate}
        /\ Deletes(X, 0, n)' = D \cup {q \in {r} : q.key \in X /\ q.isDelete}
    BY <1>3, AppendSets
  <2>a. Live(X, n)' = Cardinality(LiveOf(X, n)')
    BY Zenon DEF Live, LiveOf
  <2>4. /\ \A q \in L : q.key \in X /\ LiveAt(history, q, version) /\ q \in history
        /\ \A q : LiveAt(history, q, version) /\ q.key \in X => q \in L
        /\ \A q \in C : q \in history
        /\ \A q \in D : q \in history
    BY LiveOfIs, Zenon DEF Creates, Deletes, LiveAt
  <2>5. r \notin history
    BY <1>1
  <2> HIDE DEF L, C, D
  <2>6. CASE r.key \notin X
    <3>1. LiveOf(X, n)' = L /\ Creates(X, 0, n)' = C /\ Deletes(X, 0, n)' = D
      BY <2>3, <2>4, <2>6, Zenon
    <3> QED
      BY <2>2, <2>a, <3>1, Zenon
  <2>7. CASE /\ r.key \in X /\ r.isCreate /\ ~r.isDelete
             /\ \A q : ~(LiveAt(history, q, version) /\ q.key = r.key)
    <3>1. /\ LiveOf(X, n)' = L \cup {r} /\ Creates(X, 0, n)' = C \cup {r}
          /\ Deletes(X, 0, n)' = D
      BY <2>3, <2>4, <2>7, Zenon
    <3>2. r \notin L /\ r \notin C
      BY <2>4, <2>5
    <3>3. Cardinality(L \cup {r}) = Cardinality(L) + 1
          /\ Cardinality(C \cup {r}) = Cardinality(C) + 1
      BY <2>1, <3>2, FS_AddElement, Zenon
    <3>4. /\ Live(X, n)' = Cardinality(L) + 1
          /\ Cardinality(Creates(X, 0, n)') = Cardinality(C) + 1
          /\ Cardinality(Deletes(X, 0, n)') = Cardinality(D)
      BY <2>a, <3>1, <3>3, Zenon
    <3> QED
      BY <2>1, <2>2, <3>4
  <2>8. CASE /\ r.key \in X /\ ~r.isCreate
             /\ \E p : LiveAt(history, p, version) /\ p.key = r.key
    <3>1. PICK p : LiveAt(history, p, version) /\ p.key = r.key
      BY <2>8
    <3>2. \A q \in L : q.key = r.key => q = p
      <4>1. \A q \in L : q.key = r.key => q.rev <= p.rev /\ p.rev <= q.rev
                                           /\ q \in history /\ p \in history
        BY <1>1, <2>4, <3>1 DEF LiveAt
      <4>2. \A g, h \in history : g.rev = h.rev => g = h
        BY DEF IndexIsOK, IndexOK
      <4> QED
        BY <1>1, <4>1, <4>2
    <3>3. {q \in L : q.key # r.key} = L \ {p} /\ p \in L
      BY <2>4, <2>8, <3>1, <3>2
    <3>4. Cardinality(L \ {p}) = Cardinality(L) - 1 /\ IsFiniteSet(L \ {p})
      BY <2>1, <3>3, FS_RemoveElement
    <3>5. r \notin L \ {p} /\ r \notin D
      BY <2>4, <2>5
    <3>6. Creates(X, 0, n)' = C
      BY <2>3, <2>8
    <3>7. CASE r.isDelete
      <4>1. LiveOf(X, n)' = L \ {p} /\ Deletes(X, 0, n)' = D \cup {r}
        BY <2>3, <2>8, <3>3, <3>7
      <4>2. Cardinality(D \cup {r}) = Cardinality(D) + 1
        BY <2>1, <3>5, FS_AddElement, Zenon
      <4>3. /\ Live(X, n)' = Cardinality(L) - 1
            /\ Cardinality(Creates(X, 0, n)') = Cardinality(C)
            /\ Cardinality(Deletes(X, 0, n)') = Cardinality(D) + 1
        BY <2>a, <3>4, <3>6, <4>1, <4>2, Zenon
      <4> QED
        BY <2>1, <2>2, <4>3
    <3>8. CASE ~r.isDelete
      <4>1. LiveOf(X, n)' = (L \ {p}) \cup {r} /\ Deletes(X, 0, n)' = D
        BY <2>3, <2>8, <3>3, <3>8, Zenon
      <4>2. Cardinality((L \ {p}) \cup {r}) = Cardinality(L \ {p}) + 1
        BY <3>4, <3>5, FS_AddElement, Zenon
      <4>3. /\ Live(X, n)' = Cardinality(L) - 1 + 1
            /\ Cardinality(Creates(X, 0, n)') = Cardinality(C)
            /\ Cardinality(Deletes(X, 0, n)') = Cardinality(D)
        BY <2>a, <3>4, <3>6, <4>1, <4>2, Zenon
      <4> QED
        BY <2>1, <2>2, <4>3
    <3> QED
      BY <3>7, <3>8
  <2> QED
    BY <2>6, <2>7, <2>8 DEF Replaces
<1> QED
  BY <1>1, <1>2, <1>3

(***************************************************************************)
(* A step of the store that appends nothing.                               *)
(***************************************************************************)
LEMMA IdleBalanced ==
    ASSUME IndexIsOK, Balanced, StoreEvolves, history' = history
    PROVE  Balanced'
<1> SUFFICES ASSUME NEW X \in Prefixes, NEW n \in Nat, n <= version'
             PROVE  Live(X, n)' + Cardinality(Deletes(X, 0, n)')
                                = Cardinality(Creates(X, 0, n)')
  BY DEF Balanced, StoreEvolves, Evolves
<1>1. version \in Nat /\ \A h \in history : h.rev \in Nat /\ h.rev <= version
  BY DEF IndexIsOK, IndexOK
<1>2. /\ S!View(history', n) = S!View(history, n) /\ Live(X, n)' = Live(X, n)
      /\ Deletes(X, 0, n)' = Deletes(X, 0, n) /\ Creates(X, 0, n)' = Creates(X, 0, n)
  BY DEF Live, Creates, Deletes
<1>3. CASE n <= version
  <2>1. Live(X, n) + Cardinality(Deletes(X, 0, n)) = Cardinality(Creates(X, 0, n))
    BY <1>1, <1>3 DEF Balanced
  <2> QED
    BY <1>2, <2>1, Zenon
<1>4. CASE version <= n
  <2>1. \A r : LiveAt(history, r, n) <=> LiveAt(history, r, version)
    BY <1>1, <1>4 DEF LiveAt
  <2>2. S!View(history, n) = S!View(history, version)
    BY <2>1, ViewIsLive
  <2>3. Live(X, n) = Live(X, version)
    BY <2>2, Zenon DEF Live
  <2>4. Deletes(X, 0, n) = Deletes(X, 0, version) /\ Creates(X, 0, n) = Creates(X, 0, version)
    BY <1>1, <1>4 DEF Creates, Deletes
  <2>5. Live(X, version) + Cardinality(Deletes(X, 0, version))
          = Cardinality(Creates(X, 0, version))
    BY <1>1 DEF Balanced
  <2> QED
    BY <1>2, <2>3, <2>4, <2>5, Zenon
<1> QED
  BY <1>1, <1>3, <1>4

LEMMA InitBalanced == ASSUME S!Init PROVE Balanced
<1> SUFFICES ASSUME NEW X \in Prefixes, NEW n \in 0 .. 1
             PROVE  Live(X, n) + Cardinality(Deletes(X, 0, n))
                                = Cardinality(Creates(X, 0, n))
  BY DEF Balanced, S!Init
<1>1. Live(X, n) = Cardinality(LiveOf(X, n))
  BY DEF Live, LiveOf
<1>2. /\ \A h \in history : h.rev = 1 /\ h.isCreate /\ ~h.isDelete
      /\ \A g, h \in history : g = h
  <2>1. CASE history = {}
    BY <2>1, Zenon
  <2>2. CASE \E k \in Key, v \in Value, l \in Lease :
                history = {S!CreateRecord(1, k, v, l, S!NoRev)}
    <3>1. PICK k \in Key, v \in Value, l \in Lease :
             history = {S!CreateRecord(1, k, v, l, S!NoRev)}
      BY <2>2, Zenon
    <3>2. /\ S!CreateRecord(1, k, v, l, S!NoRev).rev = 1
          /\ S!CreateRecord(1, k, v, l, S!NoRev).isCreate
          /\ ~S!CreateRecord(1, k, v, l, S!NoRev).isDelete
      BY DEF S!CreateRecord
    <3> QED
      BY <3>1, <3>2, Zenon
  <2> QED
    BY <2>1, <2>2, Zenon DEF S!Init
<1>3. Deletes(X, 0, n) = {}
  BY <1>2 DEF Deletes
<1>4. \A r : r \in LiveOf(X, n) <=> r \in history /\ r.rev <= n /\ r.key \in X
  BY <1>2, LiveOfIs DEF LiveAt
<1>5. LiveOf(X, n) = Creates(X, 0, n)
  BY <1>2, <1>4 DEF Creates
<1>6. IsFiniteSet(history)
  <2>1. history = {} \/ \E h : history = {h}
    BY Zenon DEF S!Init
  <2> QED
    BY <2>1, FS_EmptySet, FS_Singleton, Zenon
<1>7. Cardinality(Creates(X, 0, n)) \in Nat
  <2>1. Creates(X, 0, n) \in SUBSET history
    BY DEF Creates
  <2> QED
    BY <1>6, <2>1, FS_Subset, FS_CardinalityType
<1>8. Cardinality({}) = 0
  BY FS_EmptySet
<1> QED
  BY <1>1, <1>3, <1>5, <1>7, <1>8

-----------------------------------------------------------------------------
LEMMA LiveIs == ASSUME NEW X, NEW n PROVE Live(X, n) = LiveIn(history, X, n)
  BY Zenon DEF Live, LiveIn

LEMMA PastLive ==
    ASSUME IndexIsOK, StoreEvolves, NEW X, NEW n \in Nat, n <= version
    PROVE  LiveIn(history', X, n) = LiveIn(history, X, n)
<1>1. Live(X, n)' = Live(X, n)
  BY PastIsStable
<1>2. Live(X, n)' = LiveIn(history', X, n)
  BY DEF Live, LiveIn
<1> QED
  BY <1>1, <1>2, LiveIs, Zenon

(***************************************************************************)
(* The types of an entry, and the revision it is exact at.                 *)
(***************************************************************************)
LEMMA EntryTypes ==
    ASSUME IndexIsOK, PollInv, EntryInv, NEW X \in Prefixes
    PROVE  /\ entries[X].count \in Int /\ entries[X].seedRev \in Nat
           /\ entries[X].ok \in BOOLEAN /\ EntryOK(X)
           /\ entries[X].seedRev <= version /\ version \in Nat
           /\ MaxOf(entries[X].seedRev, applied) \in Nat
           /\ MaxOf(entries[X].seedRev, applied) <= version
           /\ entries[X].seedRev <= MaxOf(entries[X].seedRev, applied)
           /\ applied <= MaxOf(entries[X].seedRev, applied)
<1>1. version \in Nat /\ applied \in Nat /\ applied <= version
  BY DEF IndexIsOK, IndexOK, PollInv
<1>2. entries[X] \in Entry /\ EntryOK(X)
  BY DEF EntryInv
<1>3. /\ entries[X].count \in Int /\ entries[X].seedRev \in Nat
      /\ entries[X].ok \in BOOLEAN /\ entries[X].seedRev <= version
  BY <1>2 DEF Entry, EntryOK
<1> QED
  BY <1>1, <1>2, <1>3 DEF MaxOf

(***************************************************************************)
(* The steps of the store: what is new is in no entry and no batch.        *)
(***************************************************************************)
LEMMA StorePoll ==
    ASSUME IndexIsOK, StoreEvolves, PollInv, EntryInv,
           UNCHANGED <<poll, entries, applied, spoiled>>
    PROVE  PollInv' /\ EntryInv'
<1>1. /\ version \in Nat /\ version' \in Nat /\ version <= version'
      /\ history \subseteq history'
      /\ \A h \in history' : h \in history \/ (h.rev \in Nat /\ h.rev > version)
      /\ \A h \in history : h.rev \in Nat /\ h.rev <= version
  BY DEF IndexIsOK, IndexOK, StoreEvolves, Evolves
<1>2. UNCHANGED <<pollPc, lastWatchRev, batch, entries, applied, spoiled>>
  BY DEF poll
<1>3. PollInv'
  BY <1>1, <1>2 DEF PollInv
<1>4. ASSUME NEW X \in Prefixes PROVE EntryOK(X)'
  <2>1. entries[X].seedRev <= version'
    BY <1>1, EntryTypes
  <2>2. LiveIn(history', X, MaxOf(entries[X].seedRev, applied))
          = LiveIn(history, X, MaxOf(entries[X].seedRev, applied))
    BY EntryTypes, PastLive
  <2>3. ReadAll(X) => ReadAll(X)'
    <3> SUFFICES ASSUME ReadAll(X), NEW h \in history', Counts(X, h),
                        h.rev > MaxOf(entries[X].seedRev, applied),
                        NEW r \in batch, h.rev <= r.rev
                 PROVE  h \in batch
      BY <1>2 DEF ReadAll
    <3>1. r.rev \in Nat /\ r.rev <= version
      BY <1>1 DEF PollInv
    <3>2. h \in history
      BY <1>1, <3>1
    <3> QED
      BY <3>2, Zenon DEF ReadAll
  <2> QED
    BY <1>2, <2>1, <2>2, <2>3, EntryTypes DEF EntryOK
<1>5. entries' \in [Prefixes -> Entry]
  BY <1>2 DEF EntryInv
<1> QED
  BY <1>3, <1>4, <1>5 DEF EntryInv

-----------------------------------------------------------------------------
(***************************************************************************)
(* The steps of the poll loop.                                             *)
(***************************************************************************)
LEMMA BatchMax ==
    ASSUME IndexIsOK, batch \subseteq history, batch # {}
    PROVE  LET M == Max({r.rev : r \in batch})
           IN  /\ M \in Nat /\ M <= version
               /\ \E b \in batch : b.rev = M
               /\ \A b \in batch : b.rev <= M
<1> DEFINE T == {r.rev : r \in batch}
<1>1. version \in Nat /\ \A b \in batch : b.rev \in Nat /\ b.rev <= version
  BY DEF IndexIsOK, IndexOK
<1>2. T \in SUBSET Nat /\ T # {} /\ \A x \in T : x <= version
  BY <1>1
<1> HIDE DEF T
<1>3. \E m \in T : \A x \in T : x <= m
  BY <1>1, <1>2, GreatestExists, Zenon
<1>4. \E m \in T : \A x \in T : m >= x
  BY <1>2, <1>3
<1>5. Max(T) \in T /\ \A x \in T : Max(T) >= x
  BY <1>4, Zenon DEF Max
<1>6. /\ Max(T) \in Nat /\ Max(T) <= version
      /\ \A x \in T : x <= Max(T)
  BY <1>2, <1>5, Zenon
<1>7. /\ \E b \in batch : b.rev = Max(T)
      /\ \A b \in batch : b.rev \in T
  BY <1>5, Zenon DEF T
<1> QED
  BY <1>6, <1>7, Zenon DEF T

LEMMA StartPollStep ==
    ASSUME IndexIsOK, PollInv, EntryInv, StartPoll
    PROVE  PollInv' /\ EntryInv'
<1>1. /\ version' = version /\ history' = history /\ batch' = batch
      /\ pollPc = "off" /\ pollPc' = "read"
      /\ lastWatchRev' = version /\ applied' = version /\ version \in Nat
      /\ entries' = [X \in Prefixes |-> NoEntry]
  BY DEF StartPoll, store, IndexIsOK, IndexOK
<1>2. PollInv'
  BY <1>1 DEF PollInv
<1>3. NoEntry \in Entry /\ NoEntry.seedRev = 0 /\ NoEntry.ok = FALSE
  BY DEF NoEntry, Entry
<1>4. entries' \in [Prefixes -> Entry]
  BY <1>1, <1>3
<1>5. \A X \in Prefixes : EntryOK(X)'
  BY <1>1, <1>3 DEF EntryOK
<1> QED
  BY <1>2, <1>4, <1>5 DEF EntryInv

(***************************************************************************)
(* A poll that finds nothing: whatever else happened was compacted.        *)
(***************************************************************************)
LEMMA PollNothing ==
    ASSUME IndexIsOK, Balanced, PollInv, EntryInv, pollPc = "read",
           After(lastWatchRev) = {}, lastWatchRev' = version, applied' = version,
           spoiled' = spoiled \cup Missed(applied, version),
           UNCHANGED <<pollPc, batch, version, history, entries>>
    PROVE  PollInv' /\ EntryInv'
<1>1. /\ version \in Nat /\ applied = lastWatchRev /\ batch = {} /\ applied \in Nat
      /\ \A h \in history : h.rev \in Nat /\ h.rev <= version
  BY DEF IndexIsOK, IndexOK, PollInv
<1>2. PollInv'
  BY <1>1 DEF PollInv
<1>3. ASSUME NEW X \in Prefixes PROVE EntryOK(X)'
  <2> DEFINE k == MaxOf(entries[X].seedRev, applied)
  <2>1. /\ k \in Nat /\ k <= version /\ entries[X].seedRev <= k /\ applied <= k
        /\ entries[X].seedRev \in Nat /\ entries[X].seedRev <= version /\ EntryOK(X)
    BY EntryTypes
  <2>2. MaxOf(entries[X].seedRev, version) = version
    BY <1>1, <2>1 DEF MaxOf
  <2> HIDE DEF k
  <2> SUFFICES ASSUME entries[X].ok, X \notin spoiled'
               PROVE  entries[X].count = LiveIn(history, X, version)
    BY <2>1, <2>2 DEF EntryOK
  <2>3. entries[X].count = LiveIn(history, X, k)
    BY <2>1 DEF EntryOK, k
  <2>4. ASSUME NEW h \in history, Counts(X, h), k < h.rev, h.rev <= version
        PROVE  FALSE
    <3>1. applied < h.rev /\ entries[X].seedRev < h.rev
      BY <1>1, <2>1, <2>4
    <3>2. h \in records
      BY <2>4, <3>1, Zenon DEF Missed
    <3>3. h.rev > lastWatchRev
      BY <1>1, <3>1
    <3> QED
      BY <3>2, <3>3, Zenon DEF After
  <2>5. Live(X, version) = Live(X, k)
    BY <1>1, <2>1, <2>4, NothingBetween
  <2> QED
    BY <2>3, <2>5, LiveIs
<1> QED
  BY <1>2, <1>3 DEF EntryInv

(***************************************************************************)
(* A poll that reads a batch: what it leaves out was compacted.            *)
(***************************************************************************)
LEMMA PollSome ==
    ASSUME IndexIsOK, PollInv, EntryInv, pollPc = "read",
           NEW r \in After(lastWatchRev),
           batch' = {s \in After(lastWatchRev) : s.rev <= r.rev},
           pollPc' = "apply", spoiled' = spoiled \cup Missed(applied, r.rev),
           UNCHANGED <<lastWatchRev, applied, version, history, entries>>
    PROVE  PollInv' /\ EntryInv'
<1>1. /\ version \in Nat /\ applied = lastWatchRev /\ applied \in Nat
      /\ \A h \in history : h.rev \in Nat /\ h.rev <= version
      /\ records \subseteq history
  BY DEF IndexIsOK, IndexOK, PollInv
<1>2. /\ batch' \subseteq history /\ \A b \in batch' : b.rev > applied
      /\ \A b \in batch' : b.rev <= r.rev
      /\ \A h \in records : h.rev > applied /\ h.rev <= r.rev => h \in batch'
      /\ r \in history
  BY <1>1 DEF After
<1>3. r \in batch'
  BY <1>1, <1>2 DEF After
<1>4. PollInv'
  BY <1>1, <1>2, <1>3 DEF PollInv
<1>5. ASSUME NEW X \in Prefixes PROVE EntryOK(X)'
  <2> DEFINE k == MaxOf(entries[X].seedRev, applied)
  <2>1. /\ k \in Nat /\ entries[X].seedRev <= k /\ applied <= k
        /\ entries[X].seedRev \in Nat /\ EntryOK(X)
    BY EntryTypes
  <2> HIDE DEF k
  <2>2. ASSUME entries[X].ok, X \notin spoiled',
               NEW h \in history, Counts(X, h), h.rev > k,
               NEW b \in batch', h.rev <= b.rev
        PROVE  h \in batch'
    <3>1. /\ applied < h.rev /\ entries[X].seedRev < h.rev /\ h.rev > applied
          /\ h.rev <= r.rev
      BY <1>1, <1>2, <2>1, <2>2
    <3>2. h \in records
      BY <2>2, <3>1, Zenon DEF Missed
    <3> QED
      BY <1>2, <3>1, <3>2, Zenon
  <2>3. entries[X].ok /\ X \notin spoiled' => ReadAll(X)'
    BY <2>2 DEF ReadAll, k
  <2> QED
    BY <2>1, <2>3 DEF EntryOK
<1> QED
  BY <1>4, <1>5 DEF EntryInv

(***************************************************************************)
(* The events of a batch that are counted are all there are between the    *)
(* revision an entry is exact at and the one it becomes exact at.          *)
(***************************************************************************)
LEMMA AppliedEvents ==
    ASSUME IndexIsOK, PollInv, EntryInv, pollPc = "apply", NEW X \in Prefixes,
           ReadAll(X), NEW M \in Nat, \E b \in batch : b.rev = M,
           \A b \in batch : b.rev <= M
    PROVE  LET k == MaxOf(entries[X].seedRev, applied)
               n == MaxOf(entries[X].seedRev, M)
           IN  /\ Creates(X, k, n) = {r \in batch : Counted(X, r) /\ r.isCreate}
               /\ Deletes(X, k, n) = {r \in batch : Counted(X, r) /\ r.isDelete}
               /\ k <= n
<1> DEFINE k == MaxOf(entries[X].seedRev, applied)
           n == MaxOf(entries[X].seedRev, M)
<1>1. /\ applied \in Nat /\ entries[X].seedRev \in Nat
      /\ k \in Nat /\ entries[X].seedRev <= k /\ applied <= k
  BY EntryTypes, ZenonT(30) DEF PollInv
<1>2. /\ batch \subseteq history /\ \A b \in batch : b.rev > applied
      /\ \A h \in history : h.rev \in Nat
  BY ZenonT(30) DEF PollInv, IndexIsOK, IndexOK
<1>3. M > applied
  BY <1>1, <1>2
<1>4. k <= n /\ n \in Nat /\ (n > k => n = M) /\ M <= n
  BY <1>1, <1>3 DEF MaxOf
<1>5. ASSUME NEW h \in history, Counts(X, h), k < h.rev, h.rev <= n
      PROVE  h \in batch /\ h.rev > entries[X].seedRev
  <2>1. n = M /\ h.rev > k /\ h.rev > entries[X].seedRev
    BY <1>1, <1>2, <1>4, <1>5
  <2>2. \E b \in batch : h.rev <= b.rev
    BY <1>5, <2>1
  <2>3. h \in batch
    BY <1>5, <2>1, <2>2, Zenon DEF ReadAll
  <2> QED
    BY <2>1, <2>3, Zenon
<1>6. ASSUME NEW b \in batch, b.rev > entries[X].seedRev
      PROVE  k < b.rev /\ b.rev <= n /\ b \in history
  BY <1>1, <1>2, <1>4, <1>6 DEF MaxOf
<1> HIDE DEF k, n
<1>7. Creates(X, k, n) = {r \in batch : Counted(X, r) /\ r.isCreate}
  BY <1>5, <1>6 DEF Creates, Counts, Counted
<1>8. Deletes(X, k, n) = {r \in batch : Counted(X, r) /\ r.isDelete}
  BY <1>5, <1>6 DEF Deletes, Counts, Counted
<1> QED
  BY <1>4, <1>7, <1>8 DEF k, n

LEMMA PollApplyStep ==
    ASSUME IndexIsOK, Balanced, PollInv, EntryInv, PollApply
    PROVE  PollInv' /\ EntryInv'
<1> DEFINE M == Max({r.rev : r \in batch})
           Applied(X) == IF entries[X].ok
                           THEN [entries[X] EXCEPT !.count = @ + Sum(X)]
                           ELSE entries[X]
<1>1. /\ version' = version /\ history' = history /\ batch' = batch
      /\ lastWatchRev' = lastWatchRev /\ spoiled' = spoiled
      /\ pollPc = "apply" /\ pollPc' = "publish" /\ applied' = M
      /\ entries' = [X \in Prefixes |-> Applied(X)]
  BY DEF PollApply, store
<1>2. /\ version \in Nat /\ lastWatchRev \in Nat /\ applied \in Nat
      /\ lastWatchRev <= applied /\ batch \subseteq history /\ batch # {}
      /\ \A b \in batch : b.rev > applied
      /\ \A b \in batch : b.rev \in Nat
  BY <1>1 DEF PollInv, IndexIsOK, IndexOK
<1>3. /\ M \in Nat /\ M <= version /\ \E b \in batch : b.rev = M
      /\ \A b \in batch : b.rev <= M
  BY <1>2, BatchMax, Zenon
<1>4. PollInv'
  <2>1. applied' = Max({r.rev : r \in batch'})
    BY <1>1
  <2> HIDE DEF M
  <2>2. applied <= M
    BY <1>2, <1>3
  <2> QED
    BY <1>1, <1>2, <1>3, <2>1, <2>2 DEF PollInv
<1> HIDE DEF M
<1>5. ASSUME NEW X \in Prefixes PROVE Sum(X) \in Int
  <2> DEFINE A == {r \in batch : Counted(X, r) /\ r.isCreate}
             B == {r \in batch : Counted(X, r) /\ r.isDelete}
  <2>1. A \in SUBSET history /\ B \in SUBSET history
    BY <1>2
  <2>2. IsFiniteSet(history)
    BY HistoryFinite DEF IndexIsOK
  <2>3. Cardinality(A) \in Nat /\ Cardinality(B) \in Nat
    BY <2>1, <2>2, FS_Subset, FS_CardinalityType
  <2>4. Sum(X) = Cardinality(A) - Cardinality(B)
    BY DEF Sum
  <2> QED
    BY <2>3, <2>4
<1>6. ASSUME NEW X \in Prefixes
      PROVE  /\ entries'[X] \in Entry /\ entries'[X].seedRev = entries[X].seedRev
             /\ entries'[X].ok = entries[X].ok
             /\ entries[X].ok => entries'[X].count = entries[X].count + Sum(X)
  <2>1. entries[X] \in Entry
    BY DEF EntryInv
  <2>2. entries'[X] = Applied(X)
    BY <1>1
  <2> QED
    BY <1>5, <2>1, <2>2 DEF Entry
<1>7. ASSUME NEW X \in Prefixes PROVE EntryOK(X)'
  <2> DEFINE k == MaxOf(entries[X].seedRev, applied)
             n == MaxOf(entries[X].seedRev, M)
  <2>1. /\ k \in Nat /\ k <= version /\ entries[X].seedRev \in Nat
        /\ entries[X].seedRev <= version /\ EntryOK(X)
    BY EntryTypes
  <2>2. n \in Nat /\ n <= version
    BY <1>2, <1>3, <2>1 DEF MaxOf
  <2> SUFFICES ASSUME entries[X].ok, X \notin spoiled
               PROVE  entries[X].count + Sum(X) = LiveIn(history, X, n)
    BY <1>1, <1>6, <2>1 DEF EntryOK
  <2>3. entries[X].count = LiveIn(history, X, k) /\ ReadAll(X)
    BY <1>1, <2>1 DEF EntryOK
  <2>4. /\ Creates(X, k, n) = {r \in batch : Counted(X, r) /\ r.isCreate}
        /\ Deletes(X, k, n) = {r \in batch : Counted(X, r) /\ r.isDelete}
        /\ k <= n
    BY <1>1, <1>3, <2>3, AppliedEvents
  <2> HIDE DEF k, n
  <2>5. Live(X, n) = Live(X, k) + Cardinality(Creates(X, k, n))
                                - Cardinality(Deletes(X, k, n))
    BY <2>1, <2>2, <2>4, Between, Zenon
  <2>6. Sum(X) = Cardinality(Creates(X, k, n)) - Cardinality(Deletes(X, k, n))
    BY <2>4, Zenon DEF Sum
  <2>7. /\ Live(X, k) \in Nat /\ Cardinality(Creates(X, k, n)) \in Nat
        /\ Cardinality(Deletes(X, k, n)) \in Nat
    BY LiveFinite
  <2>8. Live(X, n) = LiveIn(history, X, n) /\ Live(X, k) = LiveIn(history, X, k)
    BY LiveIs
  <2> QED
    BY <2>3, <2>5, <2>6, <2>7, <2>8
<1>8. entries' \in [Prefixes -> Entry]
  <2>1. entries' = [X \in Prefixes |-> entries'[X]]
    BY <1>1
  <2> QED
    BY <1>6, <2>1
<1> QED
  BY <1>4, <1>7, <1>8 DEF EntryInv

LEMMA PollPublishStep ==
    ASSUME IndexIsOK, PollInv, EntryInv, PollPublish
    PROVE  PollInv' /\ EntryInv'
<1>1. /\ version' = version /\ history' = history /\ batch' = {}
      /\ applied' = applied /\ spoiled' = spoiled /\ entries' = entries
      /\ pollPc = "publish" /\ pollPc' = "read"
      /\ lastWatchRev' = Max({r.rev : r \in batch})
  BY DEF PollPublish, store, aux
<1>2. applied = Max({r.rev : r \in batch}) /\ applied \in Nat /\ applied <= version
      /\ version \in Nat
  BY <1>1 DEF PollInv, IndexIsOK, IndexOK
<1>3. PollInv'
  BY <1>1, <1>2 DEF PollInv
<1>4. \A X \in Prefixes : EntryOK(X)'
  BY <1>1 DEF EntryInv, EntryOK
<1> QED
  BY <1>1, <1>3, <1>4 DEF EntryInv

LEMMA PollSteps ==
    ASSUME IndexIsOK, Balanced, PollInv, EntryInv, PollStep
    PROVE  PollInv' /\ EntryInv'
<1>1. CASE PollRead
  <2>1. UNCHANGED <<version, history, entries>> /\ pollPc = "read"
    BY <1>1 DEF PollRead, store
  <2>2. CASE /\ After(lastWatchRev) = {} /\ lastWatchRev' = version
             /\ applied' = version /\ spoiled' = spoiled \cup Missed(applied, version)
             /\ UNCHANGED <<pollPc, batch>>
    BY <2>1, <2>2, PollNothing
  <2>3. CASE \E r \in After(lastWatchRev) :
                /\ batch' = {s \in After(lastWatchRev) : s.rev <= r.rev}
                /\ Cardinality(batch') <= MaxBatchSize
                /\ pollPc' = "apply"
                /\ spoiled' = spoiled \cup Missed(applied, r.rev)
                /\ UNCHANGED <<lastWatchRev, applied>>
    BY <2>1, <2>3, PollSome
  <2> QED
    BY <1>1, <2>2, <2>3 DEF PollRead
<1> QED
  BY <1>1, StartPollStep, PollApplyStep, PollPublishStep DEF PollStep
==============================================================================
