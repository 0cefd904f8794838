----------------------------- MODULE ListProofs -----------------------------
(***************************************************************************)
(* Proofs about lists, for every chunkSize, any keys, values and requests, *)
(* and any writes and compactions between the batches of a scan: the       *)
(* current values a list is joined with, and what an answer holds.         *)
(***************************************************************************)
EXTENDS List, ScanProofs

(***************************************************************************)
(* The obligations are small but many: allow for the time they wait.       *)
(***************************************************************************)
USE ZenonT(10), SMTT(20), Z3T(20)

(***************************************************************************)
(* A value has a whole number of chunks.                                   *)
(***************************************************************************)
LEMMA NumChunksInt == ASSUME NEW n \in Nat PROVE NumChunks(n) \in Int
  BY ChunkSizeAssumption DEF NumChunks

(***************************************************************************)
(* Replace over the chunks of the previous value, or over none, leaves the *)
(* chunks of the new one: when it has fewer chunks the tail is cleared,    *)
(* and when it has as many all old chunks are overwritten.                 *)
(***************************************************************************)
LEMMA ReplaceIsCut ==
    ASSUME NEW C, NEW size \in Nat, NEW rev, NEW prevSize \in Nat, NEW prevRev,
           C = {} \/ C = Cut(prevSize, prevRev)
    PROVE  Replace(C, size, rev, prevSize) = Cut(size, rev)
<1>1. NumChunks(size) \in Int /\ NumChunks(prevSize) \in Int
  BY NumChunksInt
<1>2. \A c \in C : c.offset \in Int /\ c.offset < NumChunks(prevSize)
  BY <1>1 DEF Cut
<1>3. ASSUME NEW c \in C, c.offset >= NumChunks(size),
             NumChunks(prevSize) > NumChunks(size) => c.offset < NumChunks(size)
      PROVE  FALSE
  BY <1>1, <1>2, <1>3
<1> QED
  BY <1>3 DEF Replace

(***************************************************************************)
(* No chunk has a negative number of bytes, and no chunks have no length.  *)
(***************************************************************************)
LEMMA CutTyped ==
    ASSUME NEW size \in Nat, NEW rev \in Nat
    PROVE  Cut(size, rev) \subseteq Chunk
<1> SUFFICES ASSUME NEW i \in 0 .. NumChunks(size) - 1
             PROVE  Bytes(size, i) \in Nat /\ i \in Nat
  BY DEF Cut, Chunk
<1> DEFINE q == (size + ChunkSize - 1) \div ChunkSize
<1>1. q \in Int /\ i \in Int /\ 0 <= i /\ i + 1 <= q /\ ChunkSize \in Int /\ ChunkSize > 0
  BY ChunkSizeAssumption DEF NumChunks
<1>2. q * ChunkSize <= size + ChunkSize - 1
  BY ChunkSizeAssumption
<1> HIDE DEF q
<1>3. (i + 1) * ChunkSize <= q * ChunkSize
  BY <1>1
<1>4. (i + 1) * ChunkSize = i * ChunkSize + ChunkSize
  BY <1>1
<1>5. i * ChunkSize \in Int
  BY <1>1
<1>6. i * ChunkSize <= size
  BY <1>1, <1>2, <1>3, <1>4, <1>5
<1> QED
  BY <1>1, <1>5, <1>6 DEF Bytes

LEMMA LengthEmpty == Length({}) = 0
BY Zenon DEF Length, MapThenSumSet, MapThenFoldSet

-----------------------------------------------------------------------------
(***************************************************************************)
(* What is used of the store: the inductive invariant of Mvcc, and that    *)
(* compaction cannot be seen from the current revision.                    *)
(***************************************************************************)
Sound == S!IInv /\ S!CompactionInvisible

(***************************************************************************)
(* So the store is one that a scan can read, and these steps do not        *)
(* disturb a scan.                                                         *)
(***************************************************************************)
IndexIsOK == IndexOK(version, history, records)

StoreEvolves == Evolves(version, history, records, version', history', records')

LEMMA StoreIsOK == ASSUME Sound PROVE IndexIsOK
  BY KeyAssumption, Zenon
     DEF Sound, S!IInv, S!TypeOK, S!RevisionsUnique, S!Record, IndexIsOK, IndexOK

(***************************************************************************)
(* The live record of a key, if any, in terms of the history, which        *)
(* compaction does not change.                                             *)
(***************************************************************************)
Live(k) == {h \in history : h \in S!Newest(history, k) /\ ~h.isDelete}

(***************************************************************************)
(* What the invariant of the store says of it.                             *)
(***************************************************************************)
LEMMA LiveIsLast ==
    ASSUME Sound
    PROVE  /\ version \in Nat
           /\ \A h \in history : h.rev \in Nat /\ h.rev <= version /\ h.value \in Value
           /\ \A g, h \in history : g.rev = h.rev => g = h
           /\ \A k \in Key : Live(k) = {r \in S!GetLast(k) : ~r.isDelete}
<1>1. /\ version \in Nat
      /\ \A h \in history : h.rev \in Nat /\ h.rev <= version /\ h.value \in Value
      /\ \A g, h \in history : g.rev = h.rev => g = h
      /\ records \subseteq history
  BY DEF Sound, S!IInv, S!TypeOK, S!RevisionsUnique, S!Record
<1>2. S!View(records, version) = S!View(history, version)
  BY DEF Sound, S!CompactionInvisible
<1>3. {r \in records : r.rev <= version} = records
      /\ {r \in history : r.rev <= version} = history
  BY <1>1
<1>4. \A r : /\ r \in records /\ r \in S!Newest(records, r.key) /\ ~r.isDelete
               <=> r \in history /\ r \in S!Newest(history, r.key) /\ ~r.isDelete
  BY <1>2, <1>3 DEF S!View, S!Newest
<1>5. ASSUME NEW k \in Key PROVE Live(k) = {r \in S!GetLast(k) : ~r.isDelete}
  <2>1. \A r : r \in S!Newest(records, k) =>
                  r \in records /\ r.key = k
    BY DEF S!Newest
  <2>2. \A r : r \in S!Newest(history, k) =>
                  r \in history /\ r.key = k
    BY DEF S!Newest
  <2> QED
    BY <1>4, <2>1, <2>2 DEF Live, S!GetLast
<1> QED
  BY <1>1, <1>5

(***************************************************************************)
(* CurrentIsCut, in terms of the history.                                  *)
(***************************************************************************)
Stored(k) ==
    \/ byKeyCurrent[k] = UNION {Cut(r.value, r.rev) : r \in Live(k)}
    \/ byKeyCurrent[k] = {} /\ \E r \in Live(k) : r.rev = 1

Inv ==
    /\ Sound
    /\ DOMAIN byKeyCurrent = Key
    /\ \A k \in Key : Stored(k)

(***************************************************************************)
(* An append, with the chunks of the new value put in place of the old.    *)
(***************************************************************************)
LEMMA AppendInv ==
    ASSUME Inv, Sound', NEW r, NEW k \in Key, NEW C,
           S!AppendRecord(r), r.rev = version + 1, r.key = k, Store(k, C),
           C = IF r.isDelete THEN {} ELSE Cut(r.value, r.rev)
    PROVE  Inv'
<1>1. /\ version \in Nat
      /\ \A h \in history : h.rev \in Nat /\ h.rev <= version
  BY LiveIsLast DEF Inv
<1>2. history' = history \cup {r}
  BY DEF S!AppendRecord
<1>3. \A h \in history : h.rev <= r.rev /\ ~(r.rev <= h.rev)
  BY <1>1
<1>4. r.rev <= r.rev
  BY <1>1
<1>5. S!Newest(history', k) = {r}
  BY <1>2, <1>3, <1>4 DEF S!Newest
<1>6. \A j \in Key \ {k} : S!Newest(history', j) = S!Newest(history, j)
  BY <1>2 DEF S!Newest
<1>7. DOMAIN byKeyCurrent' = Key /\ byKeyCurrent'[k] = C
      /\ \A j \in Key \ {k} : byKeyCurrent'[j] = byKeyCurrent[j]
  BY DEF Inv, Store
<1>8. ASSUME NEW j \in Key, j # k PROVE Stored(j)'
  <2>1. Live(j)' = Live(j)
    BY <1>2, <1>6, <1>8 DEF Live, S!Newest
  <2> QED
    BY <1>7, <1>8, <2>1 DEF Inv, Stored
<1>9. Stored(k)'
  <2>1. Live(k)' = IF r.isDelete THEN {} ELSE {r}
    BY <1>2, <1>5 DEF Live
  <2>2. UNION {Cut(s.value, s.rev) : s \in Live(k)'} = C
    BY <2>1
  <2> QED
    BY <1>7, <2>2 DEF Stored
<1> QED
  BY <1>7, <1>8, <1>9 DEF Inv

(***************************************************************************)
(* The three writes.  The size Update passes to Replace is that of the     *)
(* value in byKeyCurrent, and Create finds no chunk.                       *)
(***************************************************************************)
LEMMA WriteInv == ASSUME Inv, Sound', Write PROVE Inv'
<1>0. /\ version \in Nat /\ Value \subseteq Nat /\ \A h \in history : h.value \in Value
      /\ records \subseteq history
      /\ \A g, h \in history : g.rev = h.rev => g = h
      /\ \A k \in Key : Live(k) = {r \in S!GetLast(k) : ~r.isDelete}
  BY LiveIsLast, ValueAssumption DEF Inv, Sound, S!IInv, S!RevisionsUnique
<1>1. \A k \in Key : \A p, q \in S!GetLast(k) : p = q /\ p.key = k /\ p \in history
  <2>1. \A h \in history : h.rev \in Nat
    BY LiveIsLast DEF Inv
  <2> QED
    BY <1>0, <2>1 DEF S!GetLast, S!Newest
<1>2. ASSUME NEW k \in Key, NEW v \in Value, NEW l \in Lease, Create(k, v, l) PROVE Inv'
  <2>1. S!Create(k, v, l) /\ Store(k, Replace(byKeyCurrent[k], v, version + 1, 0))
    BY <1>2 DEF Create
  <2>2. Live(k) = {}
    BY <1>0, <1>1, <2>1 DEF S!Create
  <2>3. byKeyCurrent[k] = {}
    BY <2>2 DEF Inv, Stored
  <2>4. Replace(byKeyCurrent[k], v, version + 1, 0) = Cut(v, version + 1)
    BY <1>0, <2>3, ReplaceIsCut
  <2> DEFINE new(prev) == S!CreateRecord(version + 1, k, v, l, prev)
  <2>5. \A prev : /\ new(prev).rev = version + 1 /\ new(prev).key = k
                  /\ new(prev).value = v /\ new(prev).isDelete = FALSE
    BY DEF S!CreateRecord
  <2>6. PICK prev : S!AppendRecord(new(prev))
    BY <2>1 DEF S!Create
  <2> HIDE DEF new
  <2> QED
    BY <2>1, <2>4, <2>5, <2>6, AppendInv
<1>3. ASSUME NEW k \in Key, NEW v \in Value, NEW l \in Lease, Update(k, v, l) PROVE Inv'
  <2>1. PICK p \in S!GetLast(k) :
           Store(k, Replace(byKeyCurrent[k], v, version + 1, p.value))
    BY <1>3 DEF Update
  <2>2. ~p.isDelete /\ S!AppendRecord(S!UpdateRecord(version + 1, p, v, l))
    BY <1>1, <1>3 DEF Update, S!Update
  <2>3. Live(k) = {p}
    BY <1>0, <1>1, <2>2
  <2>4. byKeyCurrent[k] = {} \/ byKeyCurrent[k] = Cut(p.value, p.rev)
    BY <2>3 DEF Inv, Stored
  <2>5. v \in Nat /\ p.value \in Nat
    BY <1>0, <1>1, ZenonT(30)
  <2>6. Replace(byKeyCurrent[k], v, version + 1, p.value) = Cut(v, version + 1)
    BY <2>4, <2>5, ReplaceIsCut
  <2> DEFINE r == S!UpdateRecord(version + 1, p, v, l)
  <2>7. r.rev = version + 1 /\ r.key = k /\ r.value = v /\ r.isDelete = FALSE
    BY <1>1 DEF S!UpdateRecord
  <2> HIDE DEF r
  <2> QED
    BY <2>1, <2>2, <2>6, <2>7, AppendInv DEF r
<1>4. ASSUME NEW k \in Key, Delete(k) PROVE Inv'
  <2>1. PICK p \in S!GetLast(k) : S!AppendRecord(S!DeleteRecord(version + 1, p))
    BY <1>4 DEF Delete, S!Delete
  <2> DEFINE r == S!DeleteRecord(version + 1, p)
  <2>2. r.rev = version + 1 /\ r.key = k /\ r.isDelete = TRUE
    BY <1>1 DEF S!DeleteRecord
  <2> HIDE DEF r
  <2>3. Store(k, {})
    BY <1>4 DEF Delete
  <2> QED
    BY <2>1, <2>2, <2>3, AppendInv DEF r
<1> QED
  BY <1>2, <1>3, <1>4 DEF Write

(***************************************************************************)
(* The steps are steps of the store, and each keeps the invariant,         *)
(***************************************************************************)
LEMMA StoreStep == ASSUME version \in Nat, [Next]_vars PROVE [S!Next]_S!vars
<1>1. CASE Write
  BY <1>1 DEF Write, Create, Update, Delete, S!Next, S!Write
<1>2. CASE Compact
  BY <1>2 DEF Compact, S!Next, S!Compact, S!CompactRequests
<1>3. CASE UNCHANGED store
  BY <1>3 DEF store, S!vars
<1> QED
  BY <1>1, <1>2, <1>3 DEF Next, Begin, Batch, BatchFails, Returned, Return, vars

LEMMA NextInv == ASSUME Inv, Sound', [Next]_vars PROVE Inv'
<1>1. CASE Write
  BY <1>1, WriteInv
<1>2. CASE ~Write
  <2>1. UNCHANGED <<history, byKeyCurrent>>
    <3>1. CASE Compact
      BY <3>1 DEF Compact, S!StartSweep, S!SweepBatch, S!StopSweep
    <3>2. CASE ~Compact
      BY <1>2, <3>2 DEF Next, Begin, Batch, BatchFails, Returned, Return, vars, store
    <3> QED
      BY <3>1, <3>2
  <2>2. \A k \in Key : Live(k)' = Live(k)
    BY <2>1 DEF Live, S!Newest
  <2> QED
    BY <2>1, <2>2 DEF Inv, Stored
<1> QED
  BY <1>1, <1>2

(***************************************************************************)
(* which holds in a new store and in one from before byKeyCurrent.         *)
(***************************************************************************)
LEMMA InitInv == Init /\ Sound => Inv
<1> SUFFICES ASSUME Init, Sound PROVE Inv
  OBVIOUS
<1>1. S!Init
  BY DEF Init
<1>3. \A h \in history : h.rev = 1 /\ h.isDelete = FALSE
  BY <1>1 DEF S!Init, S!CreateRecord
<1>4. \A k \in Key : Live(k) = S!GetLast(k) /\ \A r \in Live(k) : r.rev = 1
  BY <1>1, <1>3 DEF Live, S!GetLast, S!Newest, S!Init
<1>5. \/ byKeyCurrent = [k \in Key |-> {}]
      \/ byKeyCurrent = [k \in Key |-> UNION {Cut(r.value, r.rev) : r \in S!GetLast(k)}]
  BY DEF Init
<1>6. ASSUME NEW k \in Key PROVE Stored(k)
  BY <1>4, <1>5 DEF Stored
<1> QED
  BY <1>5, <1>6 DEF Inv

-----------------------------------------------------------------------------
(***************************************************************************)
(* The invariant of a call.  The records in its window, and the newest of  *)
(* them:                                                                   *)
(***************************************************************************)
Seen(h) == InWindow(req, collector.firstRev, h)

NewestSeen(r) == \A h \in history : h.key = r.key /\ Seen(h) => h.rev <= r.rev

Found ==
    /\ \A x \in kvs : /\ x.rec \in history /\ x.rec.key \in req.keys
                      /\ ~x.rec.isDelete /\ Seen(x.rec)
    /\ \A x, y \in kvs : x.rec.key = y.rec.key => x = y

(***************************************************************************)
(* For the keys D what was found is right, and nothing is missing.         *)
(***************************************************************************)
Genuine(x) ==
    ~req.keysOnly /\ x.rec.value # 0
       => NewestSeen(x.rec) /\ x.value = Cut(x.rec.value, x.rec.rev)

Complete(D) ==
    /\ \A x \in kvs : x.rec.key \in D => Genuine(x)
    /\ \A r \in records :
          r.key \in D /\ Seen(r) /\ ~r.isDelete /\ NewestSeen(r)
             => \E x \in kvs : x.rec = r

(***************************************************************************)
(* The keys the scan has passed, and those it has come to when it ends.    *)
(***************************************************************************)
PassedKeys == {k \in req.keys : Passed(collector, k)}

Ends(D) ==
    \/ D = req.keys
    \/ /\ req.limit # 0
       /\ Cardinality({x \in kvs : x.rec.key \in D}) >= req.limit
       /\ \E m \in Nat : /\ D = {k \in req.keys : k < m}
                         /\ \A x \in kvs : x.rec.key <= m

CallInv ==
    /\ RequestOK(req)
    /\ collector.firstRev \in Nat /\ collector.firstRev <= version
    /\ Found
    /\ pc \in {"idle", "scanning", "answered"}
    /\ pc = "idle" => collector = NewRecordCollector /\ kvs = {}
    /\ pc = "scanning" => /\ Scanning(version, history, records, req, collector)
                          /\ collector.count = Cardinality(kvs)
                          /\ \A x \in kvs : x.rec.key \in PassedKeys
                          /\ Complete(PassedKeys)
    /\ pc = "answered" => /\ req.maxRevision <= collector.firstRev
                          /\ \E D \in SUBSET req.keys : Ends(D) /\ Complete(D)

(***************************************************************************)
(* The steps of the store leave a call what it has.                        *)
(***************************************************************************)
LEMMA StoreCall ==
    ASSUME IndexIsOK, CallInv, StoreEvolves, UNCHANGED call
    PROVE  CallInv'
<1>1. /\ version \in Nat /\ version' \in Nat /\ version <= version'
      /\ history \subseteq history'
      /\ \A h \in history' : h \in history \/ (h.rev \in Nat /\ h.rev > version)
      /\ \A r \in records' : r \in records \/ (r.rev \in Nat /\ r.rev > version)
      /\ collector.firstRev \in Nat /\ collector.firstRev <= version
  BY DEF IndexOK, IndexIsOK, Evolves, StoreEvolves, CallInv
<1>2. UNCHANGED <<pc, req, collector, kvs>>
  BY DEF call
<1>3. \A h : Seen(h)' <=> Seen(h)
  BY <1>2 DEF Seen, InWindow
<1>4. \A h \in history' : Seen(h) => h \in history
  BY <1>1 DEF Seen, InWindow
<1>5. \A r \in records' : Seen(r) => r \in records
  BY <1>1 DEF Seen, InWindow
<1>6. \A r : NewestSeen(r)' <=> NewestSeen(r)
  BY <1>1, <1>3, <1>4 DEF NewestSeen
<1>7. \A x \in kvs : Genuine(x)' <=> Genuine(x)
  BY <1>2, <1>6 DEF Genuine
<1>8. \A D : Complete(D) => Complete(D)'
  BY <1>2, <1>3, <1>5, <1>6, <1>7 DEF Complete
<1>9. Found'
  BY <1>1, <1>2, <1>3 DEF CallInv, Found
<1>10. PassedKeys' = PassedKeys /\ \A D : Ends(D)' <=> Ends(D)
  BY <1>2 DEF PassedKeys, Ends, Passed
<1>11. Scanning(version, history, records, req, collector) => Scanning(version, history, records, req, collector)'
  <2> SUFFICES ASSUME Scanning(version, history, records, req, collector) PROVE Scanning(version, history, records, req, collector)'
    OBVIOUS
  <2>1. IndexOK(version, history, records) /\ RequestOK(req)
    BY DEF IndexIsOK, CallInv
  <2>2. Evolves(version, history, records, version', history', records')
    BY DEF StoreEvolves
  <2>3. Scanning(version', history', records', req, collector)
    BY <2>1, <2>2, StillScanning, Zenon
  <2> QED
    BY <1>2, <2>3
<1>12. RequestOK(req)'
  BY <1>2 DEF CallInv, RequestOK
<1> QED
  BY <1>1, <1>2, <1>8, <1>9, <1>10, <1>11, <1>12 DEF CallInv

(***************************************************************************)
(* The value of a record given for a key all of whose entries have been    *)
(* read.  When it is joined, the chunks of the key are those of its live   *)
(* record, and that is the one given; when it is fetched, it is still      *)
(* there, and what is gone is older.                                       *)
(***************************************************************************)
LEMMA GivenIsGenuine ==
    ASSUME Inv, NEW f, NEW g, g.rec \in history, Fetchable(g),
           ~req.keysOnly, g.rec.value # 0,
           \A r \in records :
              r.key = g.rec.key /\ (g.latest \/ InWindow(req, f, r))
                 => r.rev <= g.rec.rev
    PROVE  /\ ValueOf(g) = Cut(g.rec.value, g.rec.rev)
           /\ \A h \in history :
                 h.key = g.rec.key /\ InWindow(req, f, h) => h.rev <= g.rec.rev
<1> DEFINE k == g.rec.key
<1>1. /\ \A h \in history : h.rev \in Nat /\ h.key \in Key
      /\ \A e, h \in history : e.rev = h.rev => e = h
      /\ Live(k) = {r \in S!GetLast(k) : ~r.isDelete}
      /\ k \in Key
  <2>1. \A h \in history : h.key \in Key
    BY DEF Inv, Sound, S!IInv, S!TypeOK, S!Record
  <2> QED
    BY <2>1, LiveIsLast DEF Inv
<1>2. CASE Joined(g)
  <2>1. ValueOf(g) = byKeyCurrent[k] /\ g.latest /\ Length(byKeyCurrent[k]) = g.rec.value
    BY <1>2 DEF ValueOf, Joined
  <2>2. byKeyCurrent[k] # {}
    BY <2>1, LengthEmpty, Zenon
  <2>3. byKeyCurrent[k] = UNION {Cut(r.value, r.rev) : r \in Live(k)}
    BY <1>1, <2>2 DEF Inv, Stored
  <2>4. PICK l \in Live(k) : TRUE
    BY <2>2, <2>3
  <2>5. /\ l \in history /\ l.key = k /\ l \in records
        /\ \A h \in history : h.key = k => h.rev <= l.rev
    BY <1>1, <2>4 DEF Live, S!Newest, S!GetLast
  <2>6. l = g.rec
    <3>1. l.rev <= g.rec.rev /\ g.rec.rev <= l.rev
      BY <2>1, <2>5
    <3> QED
      BY <1>1, <2>5, <3>1
  <2>7. Live(k) = {l}
    BY <1>1, <2>4, <2>5 DEF Live, S!Newest
  <2>8. byKeyCurrent[k] = Cut(l.value, l.rev)
    BY <2>3, <2>7
  <2> QED
    BY <2>1, <2>5, <2>6, <2>8
<1>3. CASE ~Joined(g)
  <2>1. g.rec \in records
    BY <1>3 DEF Fetchable
  <2>2. ValueOf(g) = Cut(g.rec.value, g.rec.rev)
    BY <1>3 DEF ValueOf
  <2>3. ASSUME NEW h \in history, h.key = k, InWindow(req, f, h)
        PROVE  h.rev <= g.rec.rev
    <3>1. CASE h \in records
      BY <2>3, <3>1
    <3>2. CASE h \notin records
      BY <1>1, <2>1, <2>3, <3>2 DEF Inv, Sound, S!IInv, S!RemovedInOrder
    <3> QED
      BY <3>1, <3>2
  <2> QED
    BY <2>2, <2>3
<1> QED
  BY <1>2, <1>3

LEMMA Joining ==
    ASSUME NEW X, NEW N, NEW G, Joins(history, X, N, G)
    PROVE  Cardinality(X \cup N) = Cardinality(X) + Cardinality(G)
BY JoinedRecords

(***************************************************************************)
(* A batch that goes through keeps the invariant of the call.              *)
(***************************************************************************)
LEMMA BatchCall ==
    ASSUME Inv, CallInv, pc = "scanning",
           NEW b \in Batches(records, req, collector, version),
           \A g \in b.given : Fetchable(g),
           b.isLast => req.maxRevision <= b.next.firstRev,
           pc' = IF b.isLast THEN "answered" ELSE "scanning",
           collector' = b.next,
           kvs' = kvs \cup {[rec |-> g.rec, value |-> ValueOf(g)] : g \in b.given},
           UNCHANGED <<version, history, records, req>>
    PROVE  CallInv'
<1> DEFINE f == Window(version, collector)
           new == {[rec |-> g.rec, value |-> ValueOf(g)] : g \in b.given}
<1>1. IndexIsOK /\ RequestOK(req) /\ Scanning(version, history, records, req, collector) /\ Found
  BY StoreIsOK DEF Inv, CallInv
<1>2. \E D : Finds(version, history, records, req, collector, b, D) /\ Leaves(version, history, records, req, collector, b, D)
  BY <1>1, BatchOfScan DEF IndexIsOK
<1>3. PICK D : Finds(version, history, records, req, collector, b, D) /\ Leaves(version, history, records, req, collector, b, D)
  BY <1>2, ZenonT(30)
<1>4. /\ D \in SUBSET req.keys /\ PassedKeys \subseteq D /\ b.next.firstRev = f
      /\ \A g \in b.given :
            /\ g.rec \in history /\ g.rec.key \in req.keys /\ ~g.rec.isDelete
            /\ InWindow(req, f, g.rec) /\ g.rec.key \notin PassedKeys
  BY <1>3, ZenonT(30) DEF Finds, PassedKeys
<1>5. f \in Nat /\ f <= version /\ version \in Nat
  <2>1. version \in Nat
    BY <1>1, ZenonT(30) DEF IndexIsOK, IndexOK
  <2>2. collector.firstRev \in Nat /\ collector.firstRev <= version
    BY <1>1, ZenonT(30) DEF Scanning
  <2> QED
    BY <2>1, <2>2 DEF Window
<1>6. PassedKeys # {} => collector.firstRev = f
  BY <1>1 DEF PassedKeys, Passed, Window, Scanning
<1>7. \A h : Seen(h)' <=> InWindow(req, f, h)
  BY <1>4, ZenonT(30) DEF Seen, InWindow
<1>8. PassedKeys # {} => \A h : Seen(h)' <=> Seen(h)
  BY <1>6, <1>7 DEF Seen
<1>9. PassedKeys # {} => \A r : NewestSeen(r)' <=> NewestSeen(r)
  BY <1>8 DEF NewestSeen
<1>10. /\ \A x \in kvs : x.rec.key \in PassedKeys /\ PassedKeys # {}
       /\ \A k \in PassedKeys : PassedKeys # {}
       /\ Complete(PassedKeys)
  BY DEF CallInv
<1>11. /\ kvs' = kvs \cup new
       /\ \A x \in new : \E g \in b.given : x = [rec |-> g.rec, value |-> ValueOf(g)]
       /\ \A g \in b.given : [rec |-> g.rec, value |-> ValueOf(g)] \in new
  OBVIOUS
<1> HIDE DEF f, new
<1>12. \A x \in new : \E g \in b.given : x.rec = g.rec
  BY <1>11
<1>13. \A g \in b.given : \E x \in new : x.rec = g.rec
  BY <1>11, Zenon
<1>14. \A g, e \in b.given : g.rec.key = e.rec.key => g = e
  BY <1>3 DEF Finds
<1>15. Found'
  <2>1. \A x \in kvs' : /\ x.rec \in history /\ x.rec.key \in req.keys
                        /\ ~x.rec.isDelete /\ Seen(x.rec)'
    <3>1. ASSUME NEW x \in kvs
          PROVE  /\ x.rec \in history /\ x.rec.key \in req.keys
                 /\ ~x.rec.isDelete /\ Seen(x.rec)'
      BY <1>1, <1>8, <1>10 DEF Found
    <3>2. ASSUME NEW x \in new
          PROVE  /\ x.rec \in history /\ x.rec.key \in req.keys
                 /\ ~x.rec.isDelete /\ Seen(x.rec)'
      BY <1>4, <1>7, <1>12
    <3> QED
      BY <1>11, <3>1, <3>2
  <2>2. ASSUME NEW x \in kvs', NEW y \in kvs', x.rec.key = y.rec.key
        PROVE  x = y
    <3>1. CASE x \in new /\ y \in new
      BY <1>11, <1>14, <2>2, <3>1
    <3>2. CASE x \in kvs /\ y \in kvs
      BY <1>1, <2>2, <3>2 DEF Found
    <3>3. \A u \in kvs, v \in new : u.rec.key # v.rec.key
      BY <1>4, <1>10, <1>12
    <3> QED
      BY <1>11, <2>2, <3>1, <3>2, <3>3
  <2> QED
    BY <2>1, <2>2, ZenonT(30) DEF Found
<1>16. Complete(D)'
  <2>1. ASSUME NEW x \in kvs, x.rec.key \in D PROVE Genuine(x)'
    BY <1>9, <1>10 DEF Complete, Genuine
  <2>2. ASSUME NEW x \in new, x.rec.key \in D PROVE Genuine(x)'
    <3>1. PICK g \in b.given : x = [rec |-> g.rec, value |-> ValueOf(g)]
      BY <1>11, <2>2
    <3>2. \A r \in records :
              r.key = g.rec.key /\ (g.latest \/ InWindow(req, f, r))
                 => r.rev <= g.rec.rev
      BY <1>3, <2>2, <3>1, ZenonT(30) DEF Finds, f
    <3>3. ASSUME ~req.keysOnly, g.rec.value # 0
          PROVE  /\ ValueOf(g) = Cut(g.rec.value, g.rec.rev)
                 /\ \A h \in history :
                       h.key = g.rec.key /\ InWindow(req, f, h) => h.rev <= g.rec.rev
      BY <1>4, <3>2, <3>3, GivenIsGenuine
    <3> QED
      BY <1>7, <3>1, <3>3 DEF Genuine, NewestSeen
  <2>3. ASSUME NEW r \in records, r.key \in D, Seen(r)', ~r.isDelete, NewestSeen(r)'
        PROVE  \E x \in kvs' : x.rec = r
    <3>1. CASE r.key \in PassedKeys
      <4>1. Seen(r) /\ NewestSeen(r)
        BY <1>8, <1>9, <2>3, <3>1
      <4> QED
        BY <1>10, <1>11, <2>3, <3>1, <4>1 DEF Complete
    <3>2. CASE r.key \notin PassedKeys
      <4>1. ~Passed(collector, r.key)
        BY <1>4, <2>3, <3>2 DEF PassedKeys
      <4>2. InWindow(req, f, r) /\ \A h \in history :
               h.key = r.key /\ InWindow(req, f, h) => h.rev <= r.rev
        BY <1>7, <2>3 DEF NewestSeen
      <4>3. PICK g \in b.given : g.rec = r
        BY <1>3, <2>3, <4>1, <4>2, ZenonT(30) DEF Finds, f
      <4> QED
        BY <1>11, <1>13, <4>3
    <3> QED
      BY <3>1, <3>2, ZenonT(30)
  <2> QED
    BY <1>11, <2>1, <2>2, <2>3 DEF Complete
<1>17. /\ Names(history, kvs) /\ Names(history, new) /\ Names(history, b.given)
       /\ Mirrors(new, b.given) /\ Apart(kvs, b.given)
  <2>1. Names(history, kvs) /\ Names(history, new)
    BY <1>11, <1>15 DEF Found, Names
  <2>2. Names(history, b.given)
    BY <1>4, <1>14 DEF Names
  <2>3. Mirrors(new, b.given)
    BY <1>12, <1>13 DEF Mirrors
  <2>4. Apart(kvs, b.given)
    BY <1>4, <1>10 DEF Apart
  <2> QED
    BY <2>1, <2>2, <2>3, <2>4, Zenon
<1>18. IsFiniteSet(history)
  BY <1>1, HistoryFinite DEF IndexIsOK
<1>19. Cardinality(kvs') = Cardinality(kvs) + Cardinality(b.given)
  <2>1. Cardinality(kvs \cup new) = Cardinality(kvs) + Cardinality(b.given)
    <3>1. Joins(history, kvs, new, b.given)
      BY <1>17, <1>18 DEF Joins
    <3> QED
      BY <3>1, Joining
  <2> QED
    BY <1>11, <2>1, Zenon
<1>20. Cardinality({x \in kvs' : x.rec.key \in D})
         = Cardinality(kvs) + Cardinality({g \in b.given : g.rec.key \in D})
  <2> DEFINE N == {x \in new : x.rec.key \in D}
             G == {g \in b.given : g.rec.key \in D}
  <2>1. {x \in kvs' : x.rec.key \in D} = kvs \cup N
    BY <1>4, <1>10, <1>11
  <2>2. Names(history, N) /\ Names(history, G) /\ Mirrors(N, G) /\ Apart(kvs, G)
    BY <1>17 DEF Names, Mirrors, Apart
  <2>3. Cardinality(kvs \cup N) = Cardinality(kvs) + Cardinality(G)
    <3> HIDE DEF N, G
    <3>1. Joins(history, kvs, N, G)
      BY <1>17, <1>18, <2>2 DEF Joins
    <3> QED
      BY <3>1, Joining
  <2> QED
    BY <2>1, <2>3, Zenon
<1>21. collector.count = Cardinality(kvs)
  BY DEF CallInv
<1>22. RequestOK(req)' /\ b.next.firstRev \in Nat /\ b.next.firstRev <= version
  BY <1>1, <1>4, <1>5 DEF RequestOK
<1>23. CASE b.isLast
  <2>1. Ends(D)'
    <3>1. CASE D = req.keys
      BY <3>1, Zenon DEF Ends
    <3>2. ASSUME req.limit # 0,
                 collector.count + Cardinality({g \in b.given : g.rec.key \in D}) >= req.limit,
                 NEW m \in Nat, D = {k \in req.keys : k < m},
                 \A g \in b.given : g.rec.key <= m
          PROVE  Ends(D)'
      <4>1. \A x \in kvs' : x.rec.key <= m
        <5>1. \A x \in kvs : x.rec.key \in D
          BY <1>4, <1>10
        <5>2. \A k \in D : k <= m
          BY <1>1, <3>2 DEF RequestOK
        <5> QED
          BY <1>11, <1>12, <3>2, <5>1, <5>2, ZenonT(30)
      <4> QED
        BY <1>20, <1>21, <3>2, <4>1, ZenonT(30) DEF Ends
    <3> QED
      BY <1>3, <1>23, <3>1, <3>2, Zenon DEF Leaves
  <2>2. pc' = "answered" /\ req.maxRevision <= b.next.firstRev
    BY <1>23, ZenonT(30)
  <2> QED
    BY <1>4, <1>15, <1>16, <1>22, <2>1, <2>2, Zenon DEF CallInv
<1>24. CASE ~b.isLast
  <2>1. /\ Scanning(version, history, records, req, b.next)
        /\ D = {k \in req.keys : Passed(b.next, k)}
        /\ \A g \in b.given : g.rec.key \in D
        /\ b.next.count = collector.count + Cardinality(b.given)
    BY <1>3, <1>24, Zenon DEF Leaves
  <2>2. PassedKeys' = D
    BY <2>1, ZenonT(30) DEF PassedKeys, Passed
  <2>3. Scanning(version, history, records, req, collector)'
    BY <2>1, ZenonT(30) DEF Scanning, InWindow
  <2>4. \A x \in kvs' : x.rec.key \in D
    BY <1>4, <1>10, <1>11, <1>12, <2>1, Zenon
  <2>5. pc' = "scanning"
    BY <1>24
  <2>6. b.next.count = Cardinality(kvs')
    BY <1>19, <1>21, <2>1
  <2> QED
    BY <1>15, <1>16, <1>22, <2>2, <2>3, <2>4, <2>5, <2>6, ZenonT(30) DEF CallInv
<1> QED
  BY <1>23, <1>24

(***************************************************************************)
(* Between two calls there is nothing to say.                              *)
(***************************************************************************)
NothingFound ==
    /\ RequestOK(req) /\ version \in Nat
    /\ pc \in {"idle", "scanning"} /\ collector = NewRecordCollector /\ kvs = {}

LEMMA IdleCall == NothingFound => CallInv
<1> SUFFICES ASSUME NothingFound PROVE CallInv
  OBVIOUS
<1> USE DEF NothingFound
<1>1. /\ collector.at = {} /\ collector.currentRecord = {}
      /\ collector.firstRev = 0 /\ collector.count = 0
  BY DEF NewRecordCollector
<1>2. Scanning(version, history, records, req, collector)
  BY <1>1 DEF Scanning
<1>3. Cardinality(kvs) = 0
  BY FS_EmptySet
<1>4. PassedKeys = {}
  BY <1>1 DEF PassedKeys, Passed
<1>5. Complete(PassedKeys)
  BY <1>4 DEF Complete
<1>6. Found
  BY DEF Found
<1> QED
  BY <1>1, <1>2, <1>3, <1>5, <1>6 DEF CallInv

(***************************************************************************)
(* Every step keeps the invariant of the call.                             *)
(***************************************************************************)
LEMMA NextCall ==
    ASSUME Inv, CallInv, StoreEvolves, [Next]_vars
    PROVE  CallInv'
<1>0. NothingFound' => CallInv'
  BY IdleCall, PTL
<1>1. version \in Nat /\ version' \in Nat
  BY DEF Inv, Sound, S!IInv, S!TypeOK, StoreEvolves, Evolves
<1>2. CASE UNCHANGED call
  BY <1>2, StoreIsOK, StoreCall DEF Inv
<1>3. CASE Write \/ Compact \/ UNCHANGED vars
  BY <1>2, <1>3 DEF Write, Create, Update, Delete, Compact, vars
<1>6. ASSUME Return PROVE CallInv'
  <2>1. RequestOK(req)'
    BY <1>6 DEF Return, NoRequest, RequestOK
  <2>2. collector' = NewRecordCollector /\ kvs' = {} /\ pc' = "idle"
    BY <1>6 DEF Return
  <2> QED
    BY <1>0, <1>1, <2>1, <2>2 DEF NothingFound
<1>7. ASSUME NEW rq \in Requests, NEW n \in Pins, Begin(rq, n) PROVE CallInv'
  <2>1. rq.keys \subseteq Nat /\ rq.limit \in Nat /\ n \in Nat
    BY RequestsAssumption, KeyAssumption, Zenon
  <2>2. RequestOK(req)'
    BY <1>7, <2>1 DEF Begin, RequestOK
  <2>3. collector' = NewRecordCollector /\ kvs' = {} /\ pc' = "scanning"
    BY <1>7, ZenonT(30) DEF Begin, CallInv
  <2> QED
    BY <1>0, <1>1, <2>2, <2>3 DEF NothingFound
<1>8. CASE Batch
  <2>1. PICK b \in Batches(records, req, collector, version) :
           \/ /\ \A g \in b.given : Fetchable(g)
              /\ b.isLast => req.maxRevision <= b.next.firstRev
              /\ pc' = IF b.isLast THEN "answered" ELSE "scanning"
              /\ collector' = b.next
              /\ kvs' = kvs \cup {[rec |-> g.rec, value |-> ValueOf(g)] :
                                    g \in b.given}
              /\ UNCHANGED <<store, byKeyCurrent, req>>
           \/ Return
    BY <1>8, ZenonT(30) DEF Batch
  <2>2. CASE Return
    BY <1>6, <2>2
  <2>3. CASE ~Return
    BY <1>8, <2>1, <2>3, BatchCall, ZenonT(30) DEF Batch, store
  <2> QED
    BY <2>2, <2>3
<1>9. CASE BatchFails \/ Returned
  BY <1>6, <1>9 DEF BatchFails, Returned
<1> QED
  BY <1>3, <1>7, <1>8, <1>9 DEF Next

(***************************************************************************)
(* An answer is of the records in its window.                              *)
(***************************************************************************)
LEMMA AnswerWindow ==
    ASSUME Inv, CallInv, pc = "answered"
    PROVE  /\ \A h \in history : Seen(h) <=> h.rev <= Revision
           /\ \A r : r \in S!View(history, Revision) <=>
                        r \in history /\ ~r.isDelete /\ Seen(r) /\ NewestSeen(r)
<1>1. \A h \in history : h.rev \in Nat
  BY LiveIsLast DEF Inv
<1>2. /\ req.maxRevision \in Nat /\ collector.firstRev \in Nat
      /\ req.maxRevision <= collector.firstRev
  BY DEF CallInv, RequestOK
<1>3. \A h \in history : Seen(h) <=> h.rev <= Revision
  BY <1>1, <1>2 DEF Seen, InWindow, Revision
<1>4. \A r : r \in S!View(history, Revision) <=>
                /\ r \in history /\ r.rev <= Revision /\ ~r.isDelete
                /\ \A h \in history : h.rev <= Revision /\ h.key = r.key
                      => h.rev <= r.rev
  BY DEF S!View, S!Newest
<1> QED
  BY <1>3, <1>4 DEF NewestSeen

(***************************************************************************)
(* So a record that a list answers with a value was live at its revision,  *)
(***************************************************************************)
LEMMA ListedLive == Inv /\ CallInv => ListedWereLive
<1> SUFFICES ASSUME Inv, CallInv, pc = "answered", ~req.keysOnly,
                    NEW x \in WithinLimit, x.rec.value > 0
             PROVE  /\ x.rec \in S!View(history, Revision)
                    /\ x.value = Cut(x.rec.value, x.rec.rev)
  BY DEF ListedWereLive
<1>1. x \in kvs /\ x.rec \in history /\ x.rec.key \in req.keys
      /\ ~x.rec.isDelete /\ Seen(x.rec)
  BY ZenonT(30) DEF WithinLimit, CallInv, Found
<1>2. PICK D \in SUBSET req.keys : Ends(D) /\ Complete(D)
  BY ZenonT(30) DEF CallInv
<1>3. x.rec.key \in D
  <2>1. SUFFICES ASSUME x.rec.key \notin D PROVE FALSE
    OBVIOUS
  <2>2. PICK m \in Nat : D = {k \in req.keys : k < m} /\ \A y \in kvs : y.rec.key <= m
    BY <1>1, <1>2, <2>1 DEF Ends
  <2>3. req.limit # 0 /\ Cardinality({y \in kvs : y.rec.key \in D}) >= req.limit
    BY <1>1, <1>2, <2>1 DEF Ends
  <2>4. req.keys \subseteq Nat /\ req.limit \in Nat
    BY DEF CallInv, RequestOK
  <2>5. x.rec.key = m
    BY <1>1, <2>1, <2>2, <2>4
  <2>6. {y \in kvs : y.rec.key < x.rec.key} = {y \in kvs : y.rec.key \in D}
    BY <2>2, <2>5 DEF CallInv, Found
  <2>7. Cardinality({y \in kvs : y.rec.key \in D}) \in Nat
    <3>1. Names(history, {y \in kvs : y.rec.key \in D}) /\ IndexIsOK
      BY StoreIsOK
         DEF Inv, CallInv, Found, Names
    <3> QED
      BY <3>1, HistoryFinite, NamedRecords, Zenon DEF IndexIsOK
  <2>8. Cardinality({y \in kvs : y.rec.key \in D}) < req.limit
    BY <2>3, <2>6, Zenon DEF WithinLimit
  <2> QED
    BY <2>3, <2>4, <2>7, <2>8
<1>4. x.rec.value # 0
  BY ValueAssumption, LiveIsLast, <1>1 DEF Inv
<1>5. NewestSeen(x.rec) /\ x.value = Cut(x.rec.value, x.rec.rev)
  BY <1>1, <1>2, <1>3, <1>4 DEF Complete, Genuine
<1> QED
  BY <1>1, <1>5, AnswerWindow

(***************************************************************************)
(* it leaves out nothing it could have found,                              *)
(***************************************************************************)
LEMMA RetainedListed == Inv /\ CallInv => RetainedAreListed
<1> SUFFICES ASSUME Inv, CallInv, pc = "answered",
                    NEW r \in S!View(history, Revision) \cap records,
                    r.key \in req.keys, r \notin {x.rec : x \in kvs}
             PROVE  /\ req.limit # 0
                    /\ Cardinality({x \in kvs : x.rec.key <= r.key}) >= req.limit
  BY DEF RetainedAreListed
<1>1. r \in records /\ ~r.isDelete /\ Seen(r) /\ NewestSeen(r)
  BY AnswerWindow
<1>2. PICK D \in SUBSET req.keys : Ends(D) /\ Complete(D)
  BY DEF CallInv
<1>3. r.key \notin D
  BY <1>1, <1>2 DEF Complete
<1>4. PICK m \in Nat : D = {k \in req.keys : k < m}
  BY <1>2, <1>3 DEF Ends
<1>5. req.limit # 0 /\ Cardinality({x \in kvs : x.rec.key \in D}) >= req.limit
  BY <1>2, <1>3 DEF Ends
<1>6. req.keys \subseteq Nat /\ req.limit \in Nat
  BY DEF CallInv, RequestOK
<1> DEFINE T == {x \in kvs : x.rec.key <= r.key}
           U == {x \in kvs : x.rec.key \in D}
<1>7. U \in SUBSET T
  BY <1>3, <1>4, <1>6
<1>8. IsFiniteSet(T)
  <2>1. Names(history, T) /\ IndexIsOK
    BY StoreIsOK
       DEF Inv, CallInv, Found, Names
  <2> HIDE DEF T
  <2> QED
    BY <2>1, HistoryFinite, NamedRecords, Zenon DEF IndexIsOK
<1> HIDE DEF T, U
<1>9. Cardinality(U) <= Cardinality(T) /\ Cardinality(U) \in Nat /\ Cardinality(T) \in Nat
  BY <1>7, <1>8, FS_Subset, FS_CardinalityType
<1> QED
  BY <1>5, <1>6, <1>9 DEF T, U

(***************************************************************************)
(* and the variables keep their types: no chunk has a negative number of   *)
(* bytes.                                                                  *)
(***************************************************************************)
LEMMA InitTypes == Init /\ Inv => TypeOK
<1> SUFFICES ASSUME Init, Inv PROVE TypeOK
  OBVIOUS
<1>1. S!TypeOK
  BY InitInv DEF Inv, Sound, S!IInv, S!TypeOK, S!Record,
                 S!Sweep
<1>2. \A r \in records : Cut(r.value, r.rev) \subseteq Chunk
  BY <1>1, CutTyped, ValueAssumption, Zenon DEF S!TypeOK, S!Record
<1>3. \A k \in Key : UNION {Cut(r.value, r.rev) : r \in S!GetLast(k)} \subseteq Chunk
  BY <1>2 DEF S!GetLast, S!Newest
<1>4. byKeyCurrent \in [Key -> SUBSET Chunk]
  BY <1>3 DEF Init
<1> QED
  BY <1>1, <1>4 DEF Init, TypeOK, NoRequest, NewRecordCollector

LEMMA NextTypes == ASSUME Inv, Inv', CallInv, TypeOK, [Next]_vars PROVE TypeOK'
<1>1. S!TypeOK'
  BY NextInv DEF Inv, Sound, S!IInv, S!TypeOK, S!Record,
                       S!Sweep
<1>2. /\ byKeyCurrent \in [Key -> SUBSET Chunk]
      /\ pc \in {"idle", "scanning", "answered"}
      /\ req.keys \subseteq Key /\ req.limit \in Nat /\ req.maxRevision \in Nat
      /\ req.keysOnly \in BOOLEAN
      /\ collector.at \subseteq S!Record /\ collector.currentRecord \subseteq S!Record
      /\ collector.firstRev \in Nat /\ collector.count \in Nat
      /\ kvs \subseteq KV
      /\ version \in Nat /\ history \subseteq S!Record
  BY DEF TypeOK, S!TypeOK
<1>3. CASE Write
  <2>1. UNCHANGED <<pc, req, collector, kvs>>
    BY <1>3 DEF Write, Create, Update, Delete, call
  <2>2. ASSUME NEW k \in Key, NEW v \in Value, NEW p
        PROVE  Replace(byKeyCurrent[k], v, version + 1, p) \subseteq Chunk
    <3>1. Cut(v, version + 1) \subseteq Chunk
      BY <1>2, CutTyped, ValueAssumption
    <3> QED
      BY <1>2, <3>1 DEF Replace
  <2>3. \E k \in Key, C \in SUBSET Chunk : Store(k, C)
    BY <1>3, <2>2, Zenon DEF Write, Create, Update, Delete
  <2>4. byKeyCurrent' \in [Key -> SUBSET Chunk]
    BY <1>2, <2>3 DEF Store
  <2> QED
    BY <1>1, <1>2, <2>1, <2>4, ZenonT(30) DEF TypeOK, KV, S!Record
<1>4. CASE Compact \/ UNCHANGED vars
  <2>1. UNCHANGED <<byKeyCurrent, pc, req, collector, kvs>>
    BY <1>4 DEF Compact, call, vars
  <2> QED
    BY <1>1, <1>2, <2>1, ZenonT(30) DEF TypeOK, KV, S!Record
<1>5. ASSUME Return PROVE TypeOK'
  BY <1>1, <1>2, <1>5, ZenonT(30) DEF Return, TypeOK, NoRequest, NewRecordCollector, KV, S!Record
<1>6. ASSUME NEW rq \in Requests, NEW n \in Pins, Begin(rq, n) PROVE TypeOK'
  <2>1. rq.keys \subseteq Key /\ rq.limit \in Nat /\ rq.keysOnly \in BOOLEAN /\ n \in Nat
    BY RequestsAssumption
  <2> QED
    BY <1>1, <1>2, <1>6, <2>1 DEF Begin, TypeOK, KV, S!Record
<1>7. CASE Batch /\ ~Return
  <2>1. PICK b \in Batches(records, req, collector, version) :
            /\ \A g \in b.given : Fetchable(g)
            /\ pc' = IF b.isLast THEN "answered" ELSE "scanning"
            /\ collector' = b.next
            /\ kvs' = kvs \cup {[rec |-> g.rec, value |-> ValueOf(g)] :
                                  g \in b.given}
            /\ UNCHANGED <<store, byKeyCurrent, req>>
    BY <1>7, ZenonT(30) DEF Batch
  <2>2. IndexIsOK /\ RequestOK(req) /\ Scanning(version, history, records, req, collector)
    BY <1>7, StoreIsOK, Zenon
       DEF Inv, CallInv, Batch
  <2>3. PICK D : Finds(version, history, records, req, collector, b, D) /\ Leaves(version, history, records, req, collector, b, D)
    BY <2>2, BatchOfScan DEF IndexIsOK
  <2>4. /\ b.next.at \subseteq history /\ b.next.currentRecord \subseteq history
        /\ b.next.count \in Nat /\ b.next.firstRev \in Nat
    BY <1>2, <2>3, Zenon DEF Leaves, Finds, Window
  <2>5. ASSUME NEW g \in b.given PROVE [rec |-> g.rec, value |-> ValueOf(g)] \in KV
    <3>1. g.rec \in S!Record
      BY <1>2, <2>3, Zenon DEF Finds
    <3>2. g.rec.key \in Key /\ g.rec.value \in Nat /\ g.rec.rev \in Nat
      BY <3>1, ValueAssumption, Zenon DEF S!Record
    <3>3. Cut(g.rec.value, g.rec.rev) \subseteq Chunk
      BY <3>2, CutTyped
    <3>4. ValueOf(g) \subseteq Chunk
      BY <1>2, <3>2, <3>3 DEF ValueOf
    <3> QED
      BY <3>1, <3>4 DEF KV
  <2>6. kvs' \subseteq KV
    BY <1>2, <2>1, <2>5, ZenonT(30)
  <2>7. KV' = KV /\ S!Record' = S!Record
    BY DEF KV, S!Record
  <2> QED
    BY <1>1, <1>2, <2>1, <2>4, <2>6, <2>7, Zenon DEF TypeOK
<1> QED
  BY <1>3, <1>4, <1>5, <1>6, <1>7 DEF Next, Batch, BatchFails, Returned
-----------------------------------------------------------------------------
(***************************************************************************)
(* The theorems about the store, and that both instances of Mvcc define    *)
(* the same.                                                               *)
(***************************************************************************)
MP == INSTANCE MvccProofs

(***************************************************************************)
(* The same steps,                                                         *)
(***************************************************************************)
LEMMA SameNext == [S!Next]_S!vars <=> [MP!Next]_MP!vars
<1>1. S!Next <=> MP!Next
  BY DEF S!Next, MP!Next, S!Write, MP!Write, S!Compact, MP!Compact,
         S!Tick, MP!Tick, S!Create, MP!Create, S!Update, MP!Update,
         S!Delete, MP!Delete, S!StartSweep, MP!StartSweep,
         S!SweepBatch, MP!SweepBatch, S!StopSweep, MP!StopSweep,
         S!AppendRecord, MP!AppendRecord, S!InRange, MP!InRange, S!Doomed, MP!Doomed,
         S!AfterBatch, MP!AfterBatch, S!GetLast, MP!GetLast,
         S!Newest, MP!Newest, S!CreateRecord, MP!CreateRecord,
         S!UpdateRecord, MP!UpdateRecord, S!DeleteRecord, MP!DeleteRecord,
         S!GetCreateRevision, MP!GetCreateRevision,
         S!CompactRequests, MP!CompactRequests, S!NoRev, MP!NoRev,
         S!NoSweep, MP!NoSweep
<1> QED
  BY <1>1 DEF S!vars, MP!vars

(***************************************************************************)
(* the same initial states,                                                *)
(***************************************************************************)
LEMMA SameInit == S!Init <=> MP!Init
  BY DEF S!Init, MP!Init, S!CreateRecord, MP!CreateRecord, S!NoSweep, MP!NoSweep,
         S!NoRev, MP!NoRev

(***************************************************************************)
(* and the same invariant.                                                 *)
(***************************************************************************)
LEMMA SameInvariant ==
    (S!IInv <=> MP!IInv) /\ (S!CompactionInvisible <=> MP!CompactionInvisible)
<1>1. (S!TypeOK <=> MP!TypeOK) /\ (S!RevisionsUnique <=> MP!RevisionsUnique)
  BY DEF S!TypeOK, MP!TypeOK, S!Record, MP!Record, S!Sweep, MP!Sweep,
         S!RevisionsUnique, MP!RevisionsUnique
<1>2. (S!RemovedNotLive <=> MP!RemovedNotLive)
      /\ (S!RemovedInOrder <=> MP!RemovedInOrder)
  BY DEF S!RemovedNotLive, MP!RemovedNotLive, S!RemovedInOrder, MP!RemovedInOrder
<1>3. (S!SweptClean <=> MP!SweptClean) /\ (S!HistoryChain <=> MP!HistoryChain)
  BY DEF S!SweptClean, MP!SweptClean, S!HistoryChain, MP!HistoryChain,
         S!Consecutive, MP!Consecutive, S!NoRev, MP!NoRev,
         S!GetCreateRevision, MP!GetCreateRevision
<1>4. S!CompactionInvisible <=> MP!CompactionInvisible
  BY DEF S!CompactionInvisible, MP!CompactionInvisible, S!View, MP!View,
         S!Newest, MP!Newest
<1> QED
  BY <1>1, <1>2, <1>3, <1>4 DEF S!IInv, MP!IInv

LEMMA InitSound == Init => Sound
  BY SameInit, SameInvariant, MP!InitIInv, MP!IInvInvisible, MaxVersionAssumption
     DEF Init, Sound

LEMMA NextSound == Sound /\ [Next]_vars => Sound' /\ StoreEvolves
<1> SUFFICES ASSUME Sound, [Next]_vars PROVE Sound' /\ StoreEvolves
  OBVIOUS
<1>1. MP!IInv /\ version \in Nat
  BY SameInvariant DEF Sound, MP!IInv, MP!TypeOK
<1>2. [MP!Next]_MP!vars
  BY <1>1, StoreStep, SameNext
<1>3. MP!IInv'
  BY <1>1, <1>2, MP!NextIInv, MaxVersionAssumption
<1>4. (MP!IInv => MP!CompactionInvisible)'
  BY MP!IInvInvisible, MaxVersionAssumption, PTL
<1>5. (MP!IInv <=> S!IInv)'
      /\ (S!CompactionInvisible <=> MP!CompactionInvisible)'
  BY SameInvariant, PTL
<1>6. StoreEvolves
  BY <1>1, <1>2, MP!NextGrows, MaxVersionAssumption DEF StoreEvolves, Evolves
<1> QED
  BY <1>3, <1>4, <1>5, <1>6 DEF Sound

(***************************************************************************)
(* The invariant of the store and of the call.                             *)
(***************************************************************************)
LEMMA CallInvariance == Spec => [](Inv /\ CallInv)
<1>1. Init => Inv /\ CallInv
  <2> SUFFICES ASSUME Init PROVE Inv /\ CallInv
    OBVIOUS
  <2>1. Inv
    BY InitSound, InitInv
  <2>2. RequestOK(req) /\ version \in Nat
    BY <2>1, LiveIsLast DEF Init, NoRequest, RequestOK, Inv
  <2> QED
    BY <2>1, <2>2, IdleCall DEF Init, NothingFound
<1>2. Inv /\ CallInv /\ [Next]_vars => Inv' /\ CallInv'
  BY NextSound, NextInv, NextCall DEF Inv
<1> QED
  BY <1>1, <1>2, PTL DEF Spec

(***************************************************************************)
(* After any sequence of writes that grow, shrink, delete and recreate a   *)
(* key, with compaction in between, byKeyCurrent holds the chunks of its   *)
(* live record and no others (ByKeyCurrentSubspace.Replace and Clear).     *)
(***************************************************************************)
THEOREM CurrentIsAlwaysCut == Spec => []CurrentIsCut
<1>1. Inv => CurrentIsCut
  BY LiveIsLast DEF Inv, Stored, CurrentIsCut
<1> QED
  BY <1>1, CallInvariance, PTL

(***************************************************************************)
(* For any number of keys, batches, writes and compactions: a record that  *)
(* a list answers with a value was live at the list's revision, and the    *)
(* value is its own (recordCollector.next, listCollector.endBatch and      *)
(* fetchLegacy).                                                           *)
(***************************************************************************)
THEOREM ListedWereAlwaysLive == Spec => []ListedWereLive
  BY ListedLive, CallInvariance, PTL

(***************************************************************************)
(* And a list leaves out nothing it could have found: no record is lost at *)
(* the seam of two batches (processRange), to the window or to a limit     *)
(* that was not reached (recordCollector.next and endBatch).               *)
(***************************************************************************)
THEOREM RetainedAreAlwaysListed == Spec => []RetainedAreListed
  BY RetainedListed, CallInvariance, PTL

(***************************************************************************)
(* The variables keep their types: in particular no chunk that List reads  *)
(* has a negative number of bytes (ByKeyCurrentSubspace.Replace).          *)
(***************************************************************************)
THEOREM ListTypeCorrect == Spec => []TypeOK
<1>1. Init => TypeOK
  BY InitSound, InitInv, InitTypes
<1>2. Inv /\ Inv' /\ CallInv /\ TypeOK /\ [Next]_vars => TypeOK'
  BY NextTypes
<1> QED
  BY <1>1, <1>2, CallInvariance, PTL DEF Spec
=============================================================================
