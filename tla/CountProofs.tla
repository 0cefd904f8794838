----------------------------- MODULE CountProofs -----------------------------
(***************************************************************************)
(* Proofs about Count and the count tracker, for any number of prefixes,   *)
(* callers and writes: an entry is exact at the last revision applied to   *)
(* it but for the named causes, and an answer is not older than the cursor *)
(* was when the call began.                                                *)
(***************************************************************************)
EXTENDS CountEntries

USE ZenonT(10), SMTT(20), Z3T(20)

-----------------------------------------------------------------------------
(***************************************************************************)
(* The steps of the calls.                                                 *)
(***************************************************************************)
LEMMA RequestIsOK ==
    ASSUME NEW X \in Prefixes \cup {{}}
    PROVE  /\ RequestOK(Request(X)) /\ Request(X).keys = X
           /\ Request(X).limit = 0
           /\ \A n, r : InWindow(Request(X), n, r) <=> r.rev <= n
<1>1. /\ Request(X).keys = X /\ Request(X).limit = 0 /\ Request(X).maxRevision = 0
  BY DEF Request
<1>2. X \subseteq Nat
  BY PrefixAssumption, KeyAssumption
<1> QED
  BY <1>1, <1>2 DEF RequestOK, InWindow

(***************************************************************************)
(* A batch b of a Count, from the collector k, done with the keys D, with  *)
(* the window W, of a scan that no compaction has interrupted.             *)
(***************************************************************************)
Counting(X, k, b, D, W) ==
    /\ W = Window(version, k)
    /\ Scanning(version, history, records, Request(X), k)
    /\ Finds(version, history, records, Request(X), k, b, D)
    /\ Leaves(version, history, records, Request(X), k, b, D)
    /\ \A g \in b.given : g.rec \in records /\ g.rec.key \in D
    /\ S!View(records, W) = S!View(history, W)
    /\ k.count = Cardinality({r \in S!View(history, k.firstRev) :
                                  r.key \in X /\ Passed(k, r.key)})

(***************************************************************************)
(* The records counted after it are those that were live at its revision,  *)
(* of the keys it is done with.                                            *)
(***************************************************************************)
LEMMA BatchCounts ==
    ASSUME IndexIsOK, NEW X \in Prefixes, NEW k, NEW b, NEW D, NEW W,
           Counting(X, k, b, D, W)
    PROVE  b.next.count = LiveIn(history, D, W)
<1> DEFINE A == {r \in S!View(history, W) : r.key \in X /\ Passed(k, r.key)}
           T == {g.rec : g \in b.given}
           U == {r \in S!View(history, W) : r.key \in D}
<1>a. W = Window(version, k) /\ Scanning(version, history, records, Request(X), k)
  BY Zenon DEF Counting
<1>b. /\ Finds(version, history, records, Request(X), k, b, D)
      /\ Leaves(version, history, records, Request(X), k, b, D)
  BY Zenon DEF Counting
<1>c. \A g \in b.given : g.rec \in records /\ g.rec.key \in D
  BY Zenon DEF Counting
<1>d. S!View(records, W) = S!View(history, W)
  BY Zenon DEF Counting
<1>1. k.count = Cardinality(A)
  <2>1. k.count = Cardinality({r \in S!View(history, k.firstRev) :
                                  r.key \in X /\ Passed(k, r.key)})
    BY Zenon DEF Counting
  <2>2. CASE k.at = {}
    <3>1. \A x : ~Passed(k, x)
      BY <2>2, Zenon DEF Passed
    <3>2. A = {} /\ {r \in S!View(history, k.firstRev) :
                         r.key \in X /\ Passed(k, r.key)} = {}
      BY <3>1, Zenon
    <3> QED
      BY <2>1, <3>2, Zenon
  <2>3. CASE k.at # {}
    <3>1. k.firstRev # 0
      BY <1>a, <2>3, Zenon DEF Scanning
    <3>2. W = k.firstRev
      BY <1>a, <3>1, Zenon DEF Window
    <3> QED
      BY <2>1, <3>2, Zenon
  <2> QED
    BY <2>2, <2>3, Zenon
<1>2. /\ Request(X).keys = X
      /\ \A n, r : InWindow(Request(X), n, r) <=> r.rev <= n
  BY RequestIsOK, Zenon
<1>3. /\ D \subseteq X /\ \A x \in X : Passed(k, x) => x \in D
      /\ \A g \in b.given : g.rec \in history /\ ~g.rec.isDelete
                               /\ g.rec.rev <= W /\ ~Passed(k, g.rec.key)
      /\ \A g \in b.given, r \in records :
            r.key = g.rec.key /\ r.rev <= W => r.rev <= g.rec.rev
      /\ \A r \in records :
            /\ r.key \in D /\ ~Passed(k, r.key) /\ r.rev <= W /\ ~r.isDelete
            /\ \A h \in history : h.key = r.key /\ h.rev <= W => h.rev <= r.rev
            => \E g \in b.given : g.rec = r
  BY <1>a, <1>b, <1>c, <1>2, Zenon DEF Finds
<1>4. \A g \in b.given : g.rec \in S!View(history, W)
  <2> SUFFICES ASSUME NEW g \in b.given PROVE g.rec \in S!View(records, W)
    BY <1>d, Zenon
  <2>1. LiveAt(records, g.rec, W)
    BY <1>3, <1>c, Zenon DEF LiveAt
  <2> QED
    BY <2>1, ViewIsLive, Zenon
<1>5. ASSUME NEW r \in S!View(history, W), r.key \in D, ~Passed(k, r.key)
      PROVE  r \in T
  <2>1. LiveAt(history, r, W) /\ LiveAt(records, r, W)
    BY <1>5, <1>d, ViewIsLive, Zenon
  <2>2. \E g \in b.given : g.rec = r
    BY <1>3, <1>5, <2>1 DEF LiveAt
  <2> QED
    BY <2>2
<1>6. U = A \cup T
  <2>1. \A r \in A : r \in U
    BY <1>3, Zenon
  <2>2. \A r \in T : r \in U
    BY <1>4, <1>c
  <2>3. \A r \in U : r \in A \cup T
    BY <1>3, <1>5, Zenon
  <2> HIDE DEF A, T, U
  <2> QED
    BY <2>1, <2>2, <2>3
<1>7. IsFiniteSet(history)
  BY HistoryFinite DEF IndexIsOK
<1>8. Names(history, b.given)
  BY <1>b, <1>2, Zenon DEF Finds, Names
<1>9. A \in SUBSET history /\ \A p \in A, g \in b.given : p # g.rec
  <2>1. \A r \in S!View(history, W) : r \in history
    BY ViewIsLive DEF LiveAt
  <2> QED
    BY <1>3, <2>1, Zenon
<1> HIDE DEF A
<1>10. Cardinality(A \cup {g.rec : g \in b.given}) = Cardinality(A) + Cardinality(b.given)
  BY <1>7, <1>8, <1>9, NamedCount, Zenon
<1>11. b.next.count = k.count + Cardinality(b.given)
  BY <1>b, Zenon DEF Leaves
<1>12. b.next.count = Cardinality(U)
  BY <1>1, <1>6, <1>10, <1>11, Zenon
<1> QED
  BY <1>12, Zenon DEF LiveIn

(***************************************************************************)
(* A call that the step does not touch.                                    *)
(***************************************************************************)
LEMMA SameCall ==
    ASSUME NEW d, CallOK(d), UNCHANGED <<version, history, records>>,
           pc'[d] = pc[d], prefix'[d] = prefix[d], collector'[d] = collector[d],
           res'[d] = res[d], d \in doubtful => d \in doubtful'
    PROVE  CallOK(d)'
<1>1. d \notin doubtful' => d \notin doubtful
  OBVIOUS
<1>2. Undisturbed(d) => Undisturbed(d)'
  BY Zenon DEF Undisturbed
<1> QED
  BY <1>1, <1>2, Zenon DEF CallOK

(***************************************************************************)
(* A step of the store, and a call.  A scan that is not doubtful has lost  *)
(* no record.                                                              *)
(***************************************************************************)
LEMMA StoreCall ==
    ASSUME IndexIsOK, StoreEvolves, CallTypes, NEW d \in Caller, CallOK(d),
           UNCHANGED calls, d \in doubtful => d \in doubtful',
           /\ d \notin doubtful' /\ pc[d] = "scan" /\ collector[d].at # {}
              => records \subseteq records'
    PROVE  CallOK(d)'
<1>1. /\ version \in Nat /\ version' \in Nat /\ version <= version'
      /\ history \subseteq history'
      /\ \A h \in history' : h \in history \/ (h.rev \in Nat /\ h.rev > version)
      /\ \A h \in records' : h \in records \/ (h.rev \in Nat /\ h.rev > version)
  BY DEF IndexIsOK, IndexOK, StoreEvolves, Evolves
<1>2. /\ pc'[d] = pc[d] /\ prefix'[d] = prefix[d] /\ collector'[d] = collector[d]
      /\ res'[d] = res[d]
  BY Zenon DEF calls
<1>3. res[d] \in Result /\ prefix[d] \in Prefixes \cup {{}}
  BY Zenon DEF CallTypes
<1>4. res[d].rev \in Nat /\ res[d].since \in Nat /\ res[d].rev <= version
  BY <1>3 DEF Result, CallOK
<1>5. LiveIn(history', prefix[d], res[d].rev) = LiveIn(history, prefix[d], res[d].rev)
  BY <1>4, PastLive
<1>6. ASSUME NEW n \in res[d].since .. version
      PROVE  /\ n \in res[d].since .. version'
             /\ LiveIn(history', prefix[d], n) = LiveIn(history, prefix[d], n)
  <2>1. n \in Nat /\ n <= version /\ n \in res[d].since .. version'
    BY <1>1, <1>4
  <2> QED
    BY <2>1, PastLive
<1>7. ASSUME pc[d] = "scan"
      PROVE  Scanning(version', history', records', Request(prefix[d]), collector[d])
  <2>1. Scanning(version, history, records, Request(prefix[d]), collector[d])
    BY <1>7, Zenon DEF CallOK
  <2>2. RequestOK(Request(prefix[d]))
    BY <1>3, RequestIsOK
  <2>3. /\ IndexOK(version, history, records)
        /\ Evolves(version, history, records, version', history', records')
    BY Zenon DEF IndexIsOK, StoreEvolves
  <2> QED
    BY <2>1, <2>2, <2>3, StillScanning, Zenon
<1>8. ASSUME pc[d] = "scan", d \notin doubtful' PROVE Undisturbed(d)'
  <2> DEFINE f == collector[d].firstRev
  <2>1. /\ Scanning(version, history, records, Request(prefix[d]), collector[d])
        /\ Undisturbed(d)
    BY <1>8, Zenon DEF CallOK
  <2>2. f \in Nat /\ f <= version
    BY <2>1, Zenon DEF Scanning
  <2>3. S!View(history', f) = S!View(history, f)
    <3>1. \A h \in history' : h.rev <= f => h \in history
      BY <1>1, <2>2
    <3>2. \A r : LiveAt(history', r, f) <=> LiveAt(history, r, f)
      BY <1>1, <3>1, Zenon DEF LiveAt
    <3> QED
      BY <3>2, ViewIsLive
  <2>4. CASE collector[d].at = {}
    <3>1. collector[d].currentRecord = {}
      BY <2>1, <2>4, Zenon DEF Scanning
    <3> QED
      BY <1>2, <2>1, <2>3, <2>4, <3>1, Zenon DEF Undisturbed
  <2>5. CASE collector[d].at # {}
    <3>1. records \subseteq records'
      BY <1>8, <2>5, Zenon
    <3>2. \A h \in records' : h.rev <= f => h \in records
      BY <1>1, <2>2
    <3>3. \A r : LiveAt(records', r, f) <=> LiveAt(records, r, f)
      BY <3>1, <3>2, Zenon DEF LiveAt
    <3>4. S!View(records', f) = S!View(records, f)
      BY <3>3, ViewIsLive
    <3>5. collector[d].currentRecord \subseteq records'
      BY <2>1, <3>1, Zenon DEF Undisturbed
    <3> QED
      BY <1>2, <2>1, <2>3, <2>5, <3>4, <3>5, Zenon DEF Undisturbed
  <2> QED
    BY <2>4, <2>5, Zenon
<1>9. res[d].rev <= version'
  BY <1>1, <1>4
<1>10. d \notin doubtful' => d \notin doubtful
  BY Zenon
<1> QED
  BY <1>2, <1>5, <1>6, <1>7, <1>8, <1>9, <1>10, Zenon DEF CallOK

(***************************************************************************)
(* A scan that begins.                                                     *)
(***************************************************************************)
Starts(X, k) ==
    /\ Scanning(version, history, records, Request(X), k)
    /\ k.at = {} /\ k.currentRecord = {}
    /\ k.count = Cardinality({r \in S!View(history, k.firstRev) :
                                 r.key \in X /\ Passed(k, r.key)})

LEMMA FreshScan ==
    ASSUME IndexIsOK, NEW X
    PROVE  Starts(X, NewRecordCollector)
<1> DEFINE k == NewRecordCollector
<1>1. k.at = {} /\ k.currentRecord = {} /\ k.count = 0 /\ k.firstRev = 0
  BY DEF NewRecordCollector
<1>2. version \in Nat
  BY DEF IndexIsOK, IndexOK
<1>3. Scanning(version, history, records, Request(X), k)
  <2> HIDE DEF k
  <2> QED BY <1>1, <1>2 DEF Scanning
<1>4. {r \in S!View(history, k.firstRev) : r.key \in X /\ Passed(k, r.key)} = {}
  BY <1>1, Zenon DEF Passed
<1>5. Cardinality({}) = 0
  BY FS_EmptySet, Zenon
<1> HIDE DEF k
<1>6. Starts(X, k)
  BY <1>1, <1>3, <1>4, <1>5, Zenon DEF Starts
<1> QED
  BY <1>6, Zenon DEF k

(***************************************************************************)
(* A call that begins to scan.                                             *)
(***************************************************************************)
LEMMA ScanBegins ==
    ASSUME IndexIsOK, NEW c, NEW X \in Prefixes, UNCHANGED <<version, history, records>>,
           pc'[c] = "scan", prefix'[c] = X, collector'[c] = NewRecordCollector,
           res'[c].rev <= version
    PROVE  CallOK(c)'
<1>1. Starts(X, collector'[c])
  BY FreshScan, Zenon
<1>2. Scanning(version, history, records, Request(prefix[c]), collector[c])'
  BY <1>1, Zenon DEF Starts, Request
<1>3. Undisturbed(c)'
  BY <1>1, Zenon DEF Starts, Undisturbed
<1> QED
  BY <1>2, <1>3, SMT DEF CallOK

LEMMA BeginStep ==
    ASSUME IndexIsOK, PollInv, EntryInv, CallTypes, CallInv,
           NEW c \in Caller, NEW X \in Prefixes, Begin(c, X)
    PROVE  CallTypes' /\ CallInv'
<1>1. /\ UNCHANGED <<version, history, records>> /\ collector' = collector
      /\ spoiled' = spoiled /\ prefix' = [prefix EXCEPT ![c] = X] /\ pc[c] = "idle"
  BY DEF Begin, store
<1>2. CallOK(c) /\ res[c] \in Result
  BY DEF CallInv, CallTypes
<1>3. collector[c] = NewRecordCollector /\ res[c].rev <= version
  BY <1>1, <1>2 DEF CallOK
<1>4. prefix' \in [Caller -> Prefixes \cup {{}}] /\ prefix'[c] = X
      /\ \A d \in Caller : d # c => prefix'[d] = prefix[d]
  BY <1>1 DEF CallTypes
<1>5. CASE entries[X].ok
  <2>1. /\ pc' = [pc EXCEPT ![c] = "load"]
        /\ doubtful' = doubtful \cup {d \in {c} : X \in spoiled}
        /\ res' = [res EXCEPT ![c] = [count |-> entries[X].count,
                                      rev |-> entries[X].seedRev,
                                      since |-> lastWatchRev]]
    BY <1>5 DEF Begin, Goto
  <2>2. /\ entries[X].count \in Int /\ entries[X].seedRev \in Nat
        /\ entries[X].seedRev <= version /\ EntryOK(X)
        /\ MaxOf(entries[X].seedRev, applied) \in Nat
        /\ MaxOf(entries[X].seedRev, applied) <= version
        /\ applied <= MaxOf(entries[X].seedRev, applied) /\ version \in Nat
    BY EntryTypes
  <2>3. lastWatchRev \in Nat /\ applied \in Nat /\ lastWatchRev <= applied
    BY DEF PollInv
  <2>4. [count |-> entries[X].count, rev |-> entries[X].seedRev,
         since |-> lastWatchRev] \in Result
    BY <2>2, <2>3 DEF Result
  <2>5. CallTypes'
    BY <1>1, <1>4, <2>1, <2>4 DEF CallTypes
  <2>6. CallOK(c)'
    <3>1. /\ pc'[c] = "load" /\ res'[c].count = entries[X].count
          /\ res'[c].rev = entries[X].seedRev /\ res'[c].since = lastWatchRev
      BY <2>1 DEF CallTypes
    <3>2. MaxOf(entries[X].seedRev, applied) \in lastWatchRev .. version
      BY <2>2, <2>3
    <3>3. c \notin doubtful' => X \notin spoiled
      BY <2>1, Zenon
    <3>4. c \notin doubtful' =>
             entries[X].count = LiveIn(history, X, MaxOf(entries[X].seedRev, applied))
      BY <1>5, <2>2, <3>3, Zenon DEF EntryOK
    <3>5. c \notin doubtful' =>
             \E n \in res'[c].since .. version' :
                res'[c].count = LiveIn(history', prefix'[c], n)
      BY <1>1, <1>4, <3>1, <3>2, <3>4, Zenon
    <3>6. res'[c].rev <= version' /\ prefix'[c] \in Prefixes
      BY <1>1, <1>4, <2>2, <3>1, Zenon
    <3>7. collector'[c] = NewRecordCollector
      BY <1>1, <1>3
    <3> QED
      BY <3>1, <3>5, <3>6, <3>7, Zenon DEF CallOK
  <2>7. ASSUME NEW d \in Caller, d # c PROVE CallOK(d)'
    <3>1. CallOK(d)
      BY DEF CallInv
    <3>2. /\ pc'[d] = pc[d] /\ prefix'[d] = prefix[d] /\ collector'[d] = collector[d]
          /\ res'[d] = res[d]
      BY <1>1, <1>4, <2>1, <2>7, Zenon DEF CallTypes
    <3> QED
      BY <1>1, <2>1, <3>1, <3>2, SameCall, Zenon
  <2> QED
    BY <2>5, <2>6, <2>7 DEF CallInv
<1>6. CASE ~entries[X].ok
  <2>1. /\ pc' = [pc EXCEPT ![c] = "scan"] /\ res' = res /\ doubtful' = doubtful
    BY <1>6 DEF Begin, Goto
  <2>2. CallTypes'
    BY <1>1, <1>4, <2>1 DEF CallTypes
  <2>3. CallOK(c)'
    <3>1. pc'[c] = "scan" /\ res'[c].rev <= version' /\ prefix'[c] \in Prefixes
      BY <1>1, <1>3, <1>4, <2>1 DEF CallTypes
    <3>2. collector'[c] = NewRecordCollector
      BY <1>1, <1>3, Zenon
    <3> QED
      BY <1>1, <1>4, <3>1, <3>2, ScanBegins, Zenon
  <2>4. ASSUME NEW d \in Caller, d # c PROVE CallOK(d)'
    <3>1. CallOK(d)
      BY DEF CallInv
    <3>2. /\ pc'[d] = pc[d] /\ prefix'[d] = prefix[d] /\ collector'[d] = collector[d]
          /\ res'[d] = res[d]
      BY <1>1, <1>4, <2>1, <2>4 DEF CallTypes
    <3> QED
      BY <1>1, <2>1, <3>1, <3>2, SameCall
  <2> QED
    BY <2>2, <2>3, <2>4 DEF CallInv
<1> QED
  BY <1>5, <1>6

(***************************************************************************)
(* The steps of one call leave the others alone.                           *)
(***************************************************************************)
Elsewhere(c) ==
    /\ UNCHANGED <<version, history, records>>
    /\ \A d \in Caller : d # c =>
          /\ pc'[d] = pc[d] /\ prefix'[d] = prefix[d] /\ res'[d] = res[d]
          /\ collector'[d] = collector[d]
          /\ d \in doubtful => d \in doubtful'

LEMMA OneCall ==
    ASSUME NEW c \in Caller, CallInv, Elsewhere(c), CallOK(c)'
    PROVE  CallInv'
<1> SUFFICES ASSUME NEW d \in Caller, d # c PROVE CallOK(d)'
  BY Zenon DEF CallInv
<1>1. CallOK(d)
  BY Zenon DEF CallInv
<1> QED
  BY <1>1, SameCall, Zenon DEF Elsewhere

LEMMA LoadStep ==
    ASSUME IndexIsOK, PollInv, CallTypes, CallInv, NEW c \in Caller, Load(c)
    PROVE  CallTypes' /\ CallInv'
<1>1. /\ UNCHANGED <<version, history, records>> /\ collector' = collector
      /\ spoiled' = spoiled /\ prefix' = prefix /\ pc[c] = "load"
      /\ doubtful' = IF pc'[c] = "scan" THEN doubtful \ {c} ELSE doubtful
  BY DEF Load, store
<1>2. CallOK(c) /\ res[c] \in Result
  BY DEF CallInv, CallTypes
<1>3. collector[c] = NewRecordCollector /\ prefix[c] \in Prefixes
  BY <1>1, <1>2 DEF CallOK
<1>4. version \in Nat /\ lastWatchRev \in Nat /\ lastWatchRev <= version
  BY DEF PollInv, IndexIsOK, IndexOK
<1>5. CASE lastWatchRev >= res[c].rev
  <2>1. pc' = [pc EXCEPT ![c] = "answered"] /\ res' = [res EXCEPT ![c].rev = lastWatchRev]
    BY <1>5 DEF Load, Goto
  <2>2. /\ pc'[c] = "answered" /\ res'[c] = [res[c] EXCEPT !.rev = lastWatchRev]
        /\ \A d \in Caller : d # c => pc'[d] = pc[d] /\ res'[d] = res[d]
    BY <2>1 DEF CallTypes
  <2>3. /\ res'[c].count = res[c].count /\ res'[c].since = res[c].since
        /\ res'[c].rev = lastWatchRev /\ res'[c] \in Result
    BY <1>2, <1>4, <2>2 DEF Result
  <2>4. doubtful' = doubtful
    BY <1>1, <2>2
  <2>5. CallTypes'
    <3>1. pc' \in [Caller -> {"idle", "load", "scan", "seed", "scanned", "answered"}]
      BY <2>1 DEF CallTypes
    <3>2. res' \in [Caller -> Result]
      BY <2>1, <2>2, <2>3 DEF CallTypes
    <3> QED
      BY <1>1, <2>4, <3>1, <3>2 DEF CallTypes
  <2>6. CallOK(c)'
    BY <1>1, <1>2, <1>3, <1>4, <2>2, <2>3, <2>4 DEF CallOK
  <2>7. Elsewhere(c)
    BY <1>1, <2>2, <2>4 DEF Elsewhere
  <2> QED
    BY <2>5, <2>6, <2>7, OneCall
<1>6. CASE ~(lastWatchRev >= res[c].rev)
  <2>1. pc' = [pc EXCEPT ![c] = "scan"] /\ res' = [res EXCEPT ![c] = NoResult]
    BY <1>6 DEF Load, Goto
  <2>2. /\ pc'[c] = "scan" /\ res'[c] = NoResult
        /\ \A d \in Caller : d # c => pc'[d] = pc[d] /\ res'[d] = res[d]
    BY <2>1 DEF CallTypes
  <2>3. NoResult \in Result /\ NoResult.rev = 0
    BY DEF Result, NoResult
  <2>4. doubtful' = doubtful \ {c}
    BY <1>1, <2>2
  <2>5. CallTypes'
    <3>1. pc' \in [Caller -> {"idle", "load", "scan", "seed", "scanned", "answered"}]
      BY <2>1 DEF CallTypes
    <3>2. res' \in [Caller -> Result]
      BY <2>1, <2>3 DEF CallTypes
    <3> QED
      BY <1>1, <2>4, <3>1, <3>2 DEF CallTypes
  <2>6. CallOK(c)'
    <3>1. res'[c].rev <= version
      BY <1>4, <2>2, <2>3
    <3>2. prefix'[c] \in Prefixes /\ collector'[c] = NewRecordCollector
      BY <1>1, <1>3
    <3> QED
      BY <1>1, <2>2, <3>1, <3>2, ScanBegins
  <2>7. Elsewhere(c)
    BY <1>1, <2>2, <2>4 DEF Elsewhere
  <2> QED
    BY <2>5, <2>6, <2>7, OneCall
<1> QED
  BY <1>5, <1>6

LEMMA ReturnStep ==
    ASSUME IndexIsOK, CallTypes, CallInv, NEW c \in Caller, Return(c)
    PROVE  CallTypes' /\ CallInv'
<1>1. /\ UNCHANGED <<version, history, records>> /\ spoiled' = spoiled
      /\ pc' = [pc EXCEPT ![c] = "idle"] /\ prefix' = [prefix EXCEPT ![c] = {}]
      /\ collector' = [collector EXCEPT ![c] = NewRecordCollector]
      /\ res' = [res EXCEPT ![c] = NoResult] /\ doubtful' = doubtful \ {c}
      /\ version \in Nat
  BY DEF Return, Goto, store, IndexIsOK, IndexOK
<1>2. NoResult \in Result /\ NoResult.rev = 0
  BY DEF Result, NoResult
<1>3. CallTypes'
  BY <1>1, <1>2 DEF CallTypes
<1>4. /\ pc'[c] = "idle" /\ res'[c] = NoResult /\ collector'[c] = NewRecordCollector
  BY <1>1 DEF CallTypes
<1>5. CallOK(c)'
  BY <1>1, <1>2, <1>4 DEF CallOK
<1>6. Elsewhere(c)
  BY <1>1 DEF Elsewhere, CallTypes
<1> QED
  BY <1>3, <1>5, <1>6, OneCall

ResultOf(m, n, v) == [count |-> m, rev |-> n, since |-> v]

LEMMA ResultIs ==
    ASSUME NEW m \in Int, NEW n \in Nat, NEW v \in Nat
    PROVE  /\ ResultOf(m, n, v).count = m /\ ResultOf(m, n, v).rev = n
           /\ ResultOf(m, n, v) \in Result
BY DEF Result, ResultOf

LEMMA ScanBatchStep ==
    ASSUME Sound, IndexIsOK, CallTypes, CallInv, NEW c \in Caller, ScanBatch(c)
    PROVE  CallTypes' /\ CallInv'
<1> DEFINE X == prefix[c]
           k == collector[c]
           W == Window(version, k)
<1>1. /\ UNCHANGED <<version, history, records>> /\ pc[c] = "scan"
      /\ spoiled' = spoiled /\ doubtful' = doubtful /\ prefix' = prefix
      /\ version \in Nat
  BY DEF ScanBatch, store, aux, IndexIsOK, IndexOK
<1>2. /\ X \in Prefixes /\ res[c] \in Result /\ res[c].rev <= version
      /\ Scanning(version, history, records, Request(X), k)
      /\ c \notin doubtful => Undisturbed(c)
  BY <1>1, Zenon DEF CallInv, CallOK, CallTypes
<1>3. PICK b \in Batches(records, Request(X), k, version) :
         /\ collector' = [collector EXCEPT ![c] =
                             IF b.isLast THEN NewRecordCollector ELSE b.next]
         /\ IF b.isLast
              THEN /\ pc' = [pc EXCEPT ![c] = "seed"]
                   /\ res' = [res EXCEPT ![c].count = b.next.count,
                                         ![c].rev = b.next.firstRev]
              ELSE UNCHANGED <<pc, res>>
  BY Zenon DEF ScanBatch, Goto
<1>4. RequestOK(Request(X)) /\ Request(X).keys = X /\ Request(X).limit = 0
  BY <1>2, RequestIsOK, Zenon
<1>5. PICK D : /\ Finds(version, history, records, Request(X), k, b, D)
               /\ Leaves(version, history, records, Request(X), k, b, D)
  <2> HIDE DEF X, k
  <2> QED BY <1>2, <1>4, BatchOfScan, Zenon DEF IndexIsOK
<1>6. /\ k.firstRev \in Nat /\ k.firstRev <= version /\ (k.at = {} => k.firstRev = 0)
      /\ b.next.count \in Nat /\ b.next.firstRev = W
      /\ b.isLast => D = X
      /\ ~b.isLast => /\ Scanning(version, history, records, Request(X), b.next)
                      /\ D = {x \in X : Passed(b.next, x)}
                      /\ \A g \in b.given : g.rec.key \in D
      /\ \A g \in b.given : g.rec.key \in X
  BY <1>2, <1>4, <1>5, Zenon DEF Scanning, Finds, Leaves
<1>7. W \in Nat /\ W <= version
  <2>1. version \in Nat /\ k.firstRev \in Nat /\ k.firstRev <= version
    BY <1>1, <1>6, Zenon
  <2> HIDE DEF k
  <2> QED
    BY <2>1 DEF Window
<1>8. ASSUME c \notin doubtful
      PROVE  /\ b.next.currentRecord \subseteq records
             /\ S!View(records, W) = S!View(history, W)
             /\ b.next.count = Cardinality({r \in S!View(history, W) : r.key \in D})
  <2>1. /\ k.currentRecord \subseteq records
        /\ k.at # {} => S!View(records, k.firstRev) = S!View(history, k.firstRev)
        /\ k.count = Cardinality({r \in S!View(history, k.firstRev) :
                                     r.key \in X /\ Passed(k, r.key)})
    BY <1>2, <1>8, Zenon DEF Undisturbed
  <2>2. S!View(records, version) = S!View(history, version)
    BY Zenon DEF Sound, S!CompactionInvisible
  <2>3. S!View(records, W) = S!View(history, W)
    <3>1. CASE k.firstRev = 0
      BY <2>2, <3>1, Zenon DEF Window
    <3>2. CASE k.firstRev # 0
      BY <1>6, <2>1, <3>2, Zenon DEF Window
    <3> QED
      BY <3>1, <3>2
  <2> HIDE DEF X, k, W
  <2>4. /\ {g.rec : g \in b.given} \subseteq k.currentRecord \cup records
        /\ b.next.currentRecord \subseteq k.currentRecord \cup records
    BY BatchFromIndex, Zenon
  <2>5. /\ \A g \in b.given : g.rec \in records
        /\ b.next.currentRecord \subseteq records
    BY <2>1, <2>4
  <2>6. \A g \in b.given : g.rec.key \in D
    BY <1>6, Zenon
  <2>7. W = Window(version, k)
    BY Zenon DEF W
  <2>8. b.next.count = Cardinality({r \in S!View(history, W) : r.key \in D})
    <3>1. X \in Prefixes /\ Scanning(version, history, records, Request(X), k)
      BY <1>2, Zenon
    <3>2. \A g \in b.given : g.rec \in records /\ g.rec.key \in D
      BY <2>5, <2>6, Zenon
    <3>3. k.count = Cardinality({r \in S!View(history, k.firstRev) :
                                    r.key \in X /\ Passed(k, r.key)})
      BY <2>1, Zenon
    <3>4. Counting(X, k, b, D, W)
      BY <1>5, <2>3, <2>7, <3>1, <3>2, <3>3, Zenon DEF Counting
    <3>5. b.next.count = LiveIn(history, D, W)
      BY <3>1, <3>4, BatchCounts
    <3> QED
      BY <3>5, Zenon DEF LiveIn
  <2> QED
    BY <2>3, <2>5, <2>8, Zenon
<1>9. /\ collector'[c] = IF b.isLast THEN NewRecordCollector ELSE b.next
      /\ DOMAIN collector' = Caller
      /\ \A d \in Caller : d # c => collector'[d] = collector[d]
  BY <1>3 DEF CallTypes
<1> HIDE DEF k, W
<1>10. CASE b.isLast
  <2>1. /\ pc' = [pc EXCEPT ![c] = "seed"]
        /\ res' = [res EXCEPT ![c].count = b.next.count, ![c].rev = b.next.firstRev]
    BY <1>3, <1>10
  <2>2. /\ pc'[c] = "seed" /\ \A d \in Caller : d # c => pc'[d] = pc[d] /\ res'[d] = res[d]
        /\ pc' \in [Caller -> {"idle", "load", "scan", "seed", "scanned", "answered"}]
        /\ res'[c] = [res[c] EXCEPT !.count = b.next.count, !.rev = b.next.firstRev]
    BY <2>1 DEF CallTypes
  <2>3. res'[c].count = b.next.count /\ res'[c].rev = W /\ res'[c] \in Result
    <3>1. b.next.firstRev \in Nat /\ b.next.firstRev = W /\ b.next.count \in Int
      BY <1>6, <1>7
    <3>2. /\ res'[c] = ResultOf(b.next.count, b.next.firstRev, res[c].since)
          /\ res[c].since \in Nat
      BY <1>2, <2>2, Zenon DEF Result, ResultOf
    <3>3. /\ res'[c].count = b.next.count /\ res'[c].rev = b.next.firstRev
          /\ res'[c] \in Result
      BY <3>1, <3>2, ResultIs
    <3> QED
      BY <3>1, <3>3, Zenon
  <2>4. res' \in [Caller -> Result]
    BY <2>1, <2>3 DEF CallTypes
  <2>5. CallTypes'
    BY <1>1, <1>9, <2>2, <2>4 DEF CallTypes
  <2>6. c \notin doubtful => b.next.count = LiveIn(history, X, W)
    BY <1>6, <1>8, <1>10, Zenon DEF LiveIn
  <2>7. c \notin doubtful' => res'[c].count = LiveIn(history', prefix'[c], res'[c].rev)
    BY <1>1, <2>3, <2>6, Zenon
  <2>8. /\ collector'[c] = NewRecordCollector /\ res'[c].rev <= version'
        /\ prefix'[c] \in Prefixes
    BY <1>1, <1>2, <1>7, <1>9, <1>10, <2>3, Zenon
  <2>9. CallOK(c)'
    BY <2>2, <2>7, <2>8 DEF CallOK
  <2>10. Elsewhere(c)
    BY <1>1, <1>9, <2>2, Zenon DEF Elsewhere
  <2> QED
    BY <2>5, <2>9, <2>10, OneCall
<1>11. CASE ~b.isLast
  <2>1. pc' = pc /\ res' = res /\ collector'[c] = b.next
    BY <1>3, <1>9, <1>11
  <2>2. CallTypes'
    BY <1>1, <1>9, <2>1, Zenon DEF CallTypes
  <2>3. Scanning(version, history, records, Request(prefix[c]), collector[c])'
    BY <1>1, <1>6, <1>11, <2>1, Zenon DEF Request
  <2>4. ASSUME c \notin doubtful PROVE Undisturbed(c)'
    <3>1. {r \in S!View(history, W) : r.key \in D}
            = {r \in S!View(history, W) : r.key \in X /\ Passed(b.next, r.key)}
      BY <1>6, <1>11, Zenon
    <3>2. /\ b.next.currentRecord \subseteq records
          /\ S!View(records, b.next.firstRev) = S!View(history, b.next.firstRev)
          /\ b.next.count = Cardinality({r \in S!View(history, b.next.firstRev) :
                                r.key \in X /\ Passed(b.next, r.key)})
      BY <1>6, <1>8, <2>4, <3>1, Zenon
    <3> QED
      BY <1>1, <2>1, <3>2, Zenon DEF Undisturbed
  <2>5. CallOK(c)'
    <3>1. pc'[c] = "scan" /\ prefix'[c] \in Prefixes /\ res'[c].rev <= version'
      BY <1>1, <1>2, <2>1, Zenon
    <3>2. c \notin doubtful' => Undisturbed(c)'
      BY <1>1, <2>4, Zenon
    <3> QED
      BY <2>3, <3>1, <3>2, Zenon DEF CallOK
  <2>6. Elsewhere(c)
    BY <1>1, <1>9, <2>1, Zenon DEF Elsewhere
  <2> QED
    BY <2>2, <2>5, <2>6, OneCall
<1> QED
  BY <1>10, <1>11

(***************************************************************************)
(* seed: what the loop has read and applied is past the scan, or counted   *)
(* by it.                                                                  *)
(***************************************************************************)
LEMMA NotOvertaken ==
    ASSUME IndexIsOK, Balanced, PollInv, NEW X \in Prefixes, NEW n \in Nat, n <= version,
           ~Overtaken(X, n)
    PROVE  /\ LiveIn(history, X, MaxOf(n, applied)) = LiveIn(history, X, n)
           /\ \A h \in history :
                 /\ Counts(X, h) /\ h.rev > MaxOf(n, applied)
                 /\ \E r \in batch : h.rev <= r.rev
                 => h \in batch
<1>1. /\ version \in Nat /\ applied \in Nat /\ applied <= version
      /\ \A h \in history : h.rev \in Nat
      /\ \A g, h \in history : g.rev = h.rev => g = h
      /\ batch \subseteq history
  BY DEF IndexIsOK, IndexOK, PollInv
<1>2. \A h \in history : Counts(X, h) /\ h.rev > n =>
         /\ ~(h.rev <= applied)
         /\ h \in batch \/ \A r \in batch : ~(h.rev < r.rev)
  BY Zenon DEF Overtaken
<1>3. LiveIn(history, X, MaxOf(n, applied)) = LiveIn(history, X, n)
  <2>1. CASE applied <= n
    <3>1. MaxOf(n, applied) = n
      BY <1>1, <2>1 DEF MaxOf
    <3> QED
      BY <3>1, Zenon
  <2>2. CASE n < applied
    <3>1. MaxOf(n, applied) = applied /\ n <= applied
      BY <1>1, <2>2 DEF MaxOf
    <3>2. \A h \in history : Counts(X, h) => ~(n < h.rev /\ h.rev <= applied)
      BY <1>1, <1>2
    <3>3. Live(X, applied) = Live(X, n)
      BY <1>1, <3>1, <3>2, NothingBetween
    <3> QED
      BY <3>1, <3>3, LiveIs, Zenon
  <2> QED
    BY <1>1, <2>1, <2>2
<1>4. ASSUME NEW h \in history, Counts(X, h), h.rev > MaxOf(n, applied),
             NEW r \in batch, h.rev <= r.rev
      PROVE  h \in batch
  <2>1. h.rev > n
    BY <1>1, <1>4 DEF MaxOf
  <2>2. CASE h.rev < r.rev
    BY <1>2, <1>4, <2>1, <2>2, Zenon
  <2>3. CASE h.rev = r.rev
    BY <1>1, <2>3
  <2> QED
    BY <1>1, <1>4, <2>2, <2>3
<1> QED
  BY <1>3, <1>4

LEMMA SeedStep ==
    ASSUME IndexIsOK, Balanced, PollInv, EntryInv, CallTypes, CallInv,
           NEW c \in Caller, Seed(c)
    PROVE  PollInv' /\ EntryInv' /\ CallTypes' /\ CallInv'
<1> DEFINE new == [count |-> res[c].count, seedRev |-> res[c].rev, ok |-> TRUE]
<1>1. /\ UNCHANGED <<version, history, records>> /\ pc[c] = "seed"
      /\ UNCHANGED <<pollPc, lastWatchRev, batch, applied>>
      /\ pc' = [pc EXCEPT ![c] = "scanned"] /\ prefix' = prefix
      /\ collector' = collector /\ res' = res /\ doubtful' = doubtful
  BY DEF Seed, Goto, store, poll
<1>a. PICK X \in Prefixes : X = prefix[c]
  BY <1>1, Zenon DEF CallInv, CallOK
<1>2. /\ res[c] \in Result /\ CallOK(c) /\ res[c].rev <= version
      /\ collector[c] = NewRecordCollector
      /\ c \notin doubtful => res[c].count = LiveIn(history, X, res[c].rev)
  BY <1>1, <1>a, Zenon DEF CallInv, CallOK, CallTypes
<1>3. res[c].count \in Int /\ res[c].rev \in Nat
  BY <1>2 DEF Result
<1>4. PollInv'
  BY <1>1, Zenon DEF PollInv
<1>5. /\ pc'[c] = "scanned" /\ \A d \in Caller : d # c => pc'[d] = pc[d]
      /\ pc' \in [Caller -> {"idle", "load", "scan", "seed", "scanned", "answered"}]
  BY <1>1 DEF CallTypes
<1>6. CallOK(c)'
  BY <1>1, <1>a, <1>2, <1>5, Zenon DEF CallOK
<1>7. Elsewhere(c)
  BY <1>1, <1>5, Zenon DEF Elsewhere
<1>8. CASE entries[X].ok
  <2>1. entries' = entries /\ spoiled' = spoiled
    BY <1>8, <1>a DEF Seed
  <2>2. \A Y \in Prefixes : EntryOK(Y)'
    BY <1>1, <2>1, Zenon DEF EntryInv, EntryOK, ReadAll
  <2>3. CallTypes'
    BY <1>1, <1>5, <2>1, Zenon DEF CallTypes
  <2>4. EntryInv'
    BY <2>1, <2>2, Zenon DEF EntryInv
  <2> QED
    BY <1>4, <1>6, <1>7, <2>3, <2>4, OneCall
<1>9. CASE ~entries[X].ok
  <2>1. /\ entries' = [entries EXCEPT ![X] = new]
        /\ spoiled' = spoiled \cup {Y \in {X} : c \in doubtful \/ Overtaken(X, res[c].rev)}
    BY <1>9, <1>a DEF Seed
  <2>2. new \in Entry /\ new.count = res[c].count /\ new.seedRev = res[c].rev
        /\ new.ok = TRUE
    BY <1>3 DEF Entry
  <2> HIDE DEF new
  <2>3. /\ entries' \in [Prefixes -> Entry] /\ entries'[X] = new
        /\ \A Y \in Prefixes : Y # X => entries'[Y] = entries[Y]
    BY <1>2, <2>1, <2>2, Zenon DEF EntryInv
  <2>4. spoiled' \subseteq Prefixes /\ spoiled \subseteq spoiled'
        /\ (X \notin spoiled' => c \notin doubtful /\ ~Overtaken(X, res[c].rev))
    BY <1>2, <2>1, Zenon DEF CallTypes
  <2>5. EntryOK(X)'
    <3>1. ASSUME X \notin spoiled'
          PROVE  /\ new.count = LiveIn(history, X, MaxOf(new.seedRev, applied))
                 /\ \A h \in history :
                       /\ Counts(X, h) /\ h.rev > MaxOf(new.seedRev, applied)
                       /\ \E r \in batch : h.rev <= r.rev
                       => h \in batch
      <4>1. res[c].count = LiveIn(history, X, res[c].rev) /\ ~Overtaken(X, res[c].rev)
        BY <1>2, <2>4, <3>1, Zenon
      <4> QED
        BY <1>2, <1>3, <2>2, <4>1, NotOvertaken, Zenon
    <3>2. new.seedRev <= version
      BY <1>2, <2>2, Zenon
    <3>3. X \notin spoiled' => ReadAll(X)'
      BY <1>1, <2>3, <3>1, Zenon DEF ReadAll
    <3>4. X \notin spoiled' =>
             entries'[X].count = LiveIn(history', X, MaxOf(entries'[X].seedRev, applied'))
      BY <1>1, <2>3, <3>1, Zenon
    <3>5. entries'[X].seedRev <= version'
      BY <1>1, <2>3, <3>2, Zenon
    <3> QED
      BY <3>3, <3>4, <3>5, Zenon DEF EntryOK
  <2>6. ASSUME NEW Y \in Prefixes, Y # X PROVE EntryOK(Y)'
    <3>1. EntryOK(Y)
      BY Zenon DEF EntryInv
    <3>2. entries'[Y] = entries[Y]
      BY <2>3, <2>6, Zenon
    <3>3. Y \notin spoiled' => Y \notin spoiled
      BY <2>4, Zenon
    <3>4. ReadAll(Y) => ReadAll(Y)'
      BY <1>1, <3>2, Zenon DEF ReadAll
    <3> QED
      BY <1>1, <3>1, <3>2, <3>3, <3>4, Zenon DEF EntryOK
  <2>7. EntryInv'
    BY <2>3, <2>5, <2>6, Zenon DEF EntryInv
  <2>8. CallTypes'
    BY <1>1, <1>5, <2>4, Zenon DEF CallTypes
  <2> QED
    BY <1>4, <1>6, <1>7, <2>7, <2>8, OneCall
<1> QED
  BY <1>8, <1>9

-----------------------------------------------------------------------------
(***************************************************************************)
(* All steps.                                                              *)
(***************************************************************************)
LEMMA WriteStep ==
    ASSUME Sound, IndexIsOK, StoreEvolves, CountInv, Write
    PROVE  CountInv'
<1>1. S!Write /\ UNCHANGED <<poll, entries, applied, spoiled>> /\ UNCHANGED calls
      /\ doubtful' = doubtful
  BY Zenon DEF Write, aux
<1>2. Balanced'
  BY <1>1, WriteReplaces, AppendBalanced DEF CountInv
<1>3. PollInv' /\ EntryInv'
  BY <1>1, StorePoll DEF CountInv
<1>4. records \subseteq records'
  BY <1>1 DEF S!Write, S!Create, S!Update, S!Delete, S!AppendRecord
<1>5. \A d \in Caller : CallOK(d)'
  BY <1>1, <1>4, StoreCall DEF CountInv, CallInv
<1>6. CallTypes'
  BY <1>1, Zenon DEF CountInv, CallTypes, calls
<1> QED
  BY <1>2, <1>3, <1>5, <1>6, Zenon DEF CountInv, CallInv

LEMMA CompactStep ==
    ASSUME Sound, IndexIsOK, StoreEvolves, CountInv, Compact
    PROVE  CountInv'
<1>1. /\ UNCHANGED <<poll, entries, applied, spoiled>> /\ UNCHANGED calls
      /\ doubtful' = doubtful \cup {c \in Caller : pc[c] = "scan" /\ collector[c].at # {}
                                                      /\ records' # records}
  BY Zenon DEF Compact
<1>2. history' = history
  BY DEF Compact, S!StartSweep, S!SweepBatch, S!StopSweep
<1>3. Balanced'
  BY <1>2, IdleBalanced DEF CountInv
<1>4. PollInv' /\ EntryInv'
  BY <1>1, StorePoll DEF CountInv
<1>5. ASSUME NEW d \in Caller PROVE CallOK(d)'
  <2>1. d \in doubtful => d \in doubtful'
    BY <1>1, Zenon
  <2>2. d \notin doubtful' /\ pc[d] = "scan" /\ collector[d].at # {}
           => records \subseteq records'
    BY <1>1, Zenon
  <2> QED
    BY <1>1, <2>1, <2>2, StoreCall, Zenon DEF CountInv, CallInv
<1>6. CallTypes'
  <2>1. doubtful' \subseteq Caller
    BY <1>1, Zenon DEF CountInv, CallTypes
  <2> QED
    BY <1>1, <2>1, Zenon DEF CountInv, CallTypes, calls
<1> QED
  BY <1>3, <1>4, <1>5, <1>6, Zenon DEF CountInv, CallInv

LEMMA PollCount ==
    ASSUME IndexIsOK, StoreEvolves, CountInv, PollStep
    PROVE  CountInv'
<1>1. /\ UNCHANGED <<version, history, records>> /\ UNCHANGED calls
      /\ doubtful' = doubtful
  BY DEF PollStep, StartPoll, PollRead, PollApply, PollPublish, store, aux
<1>2. PollInv' /\ EntryInv'
  BY PollSteps DEF CountInv
<1>3. Balanced'
  BY <1>1, IdleBalanced DEF CountInv
<1>4. spoiled' \subseteq Prefixes
  <2>1. spoiled \subseteq Prefixes /\ \A m, n : Missed(m, n) \subseteq Prefixes
    BY Zenon DEF CountInv, CallTypes, Missed
  <2>2. spoiled' = spoiled \/ \E m, n : spoiled' = spoiled \cup Missed(m, n)
    BY Zenon DEF PollStep, StartPoll, PollRead, PollApply, PollPublish, aux
  <2> QED
    BY <2>1, <2>2
<1>5. CallTypes'
  BY <1>1, <1>4, Zenon DEF CountInv, CallTypes, calls
<1>6. \A d \in Caller : CallOK(d)'
  <2> SUFFICES ASSUME NEW d \in Caller PROVE CallOK(d)'
    BY Zenon
  <2>1. /\ pc'[d] = pc[d] /\ prefix'[d] = prefix[d] /\ collector'[d] = collector[d]
        /\ res'[d] = res[d]
    BY <1>1, Zenon DEF calls
  <2> QED
    BY <1>1, <2>1, SameCall, Zenon DEF CountInv, CallInv
<1> QED
  BY <1>2, <1>3, <1>5, <1>6, Zenon DEF CountInv, CallInv

LEMMA CallCount ==
    ASSUME Sound, IndexIsOK, StoreEvolves, CountInv, NEW c \in Caller, CallStep(c)
    PROVE  CountInv'
<1>1. history' = history
  BY DEF CallStep, Begin, Load, ScanBatch, ScanFails, Returned, Return, Seed, store
<1>2. Balanced'
  BY <1>1, IdleBalanced DEF CountInv
<1>3. CASE Seed(c)
  BY <1>2, <1>3, SeedStep DEF CountInv
<1>4. CASE ~Seed(c)
  <2>1. UNCHANGED <<poll, entries, applied, spoiled>>
    BY <1>4 DEF CallStep, Begin, Load, ScanBatch, ScanFails, Returned, Return, aux
  <2>2. PollInv' /\ EntryInv'
    BY <2>1, StorePoll DEF CountInv
  <2>3. CallTypes' /\ CallInv'
    <3>1. /\ PollInv /\ EntryInv /\ CallTypes /\ CallInv
      BY Zenon DEF CountInv
    <3>2. CASE \E X \in Prefixes : Begin(c, X)
      BY <3>1, <3>2, BeginStep
    <3>3. CASE Load(c)
      BY <3>1, <3>3, LoadStep
    <3>4. CASE ScanBatch(c)
      BY <3>1, <3>4, ScanBatchStep
    <3>5. CASE ScanFails(c) \/ Returned(c)
      BY <3>1, <3>5, ReturnStep DEF ScanFails, Returned
    <3> QED
      BY <1>4, <3>2, <3>3, <3>4, <3>5, Zenon DEF CallStep
  <2> QED
    BY <1>2, <2>2, <2>3, Zenon DEF CountInv
<1> QED
  BY <1>3, <1>4

LEMMA NextCount ==
    ASSUME Sound, StoreEvolves, CountInv, [Next]_vars
    PROVE  CountInv'
<1>1. IndexIsOK
  BY StoreIsOK
<1>2. CASE UNCHANGED vars
  <2>1. /\ UNCHANGED <<version, history, records>> /\ UNCHANGED calls
        /\ doubtful' = doubtful /\ UNCHANGED <<poll, entries, applied, spoiled>>
    BY <1>2, Zenon DEF vars, store, aux
  <2>2. Balanced' /\ PollInv' /\ EntryInv'
    BY <1>1, <2>1, IdleBalanced, StorePoll DEF CountInv
  <2>3. \A d \in Caller : CallOK(d)'
    <3> SUFFICES ASSUME NEW d \in Caller PROVE CallOK(d)'
      BY Zenon
    <3>1. /\ pc'[d] = pc[d] /\ prefix'[d] = prefix[d] /\ collector'[d] = collector[d]
          /\ res'[d] = res[d]
      BY <2>1, Zenon DEF calls
    <3> QED
      BY <2>1, <3>1, SameCall, Zenon DEF CountInv, CallInv
  <2>4. CallTypes'
    BY <2>1, Zenon DEF CountInv, CallTypes, calls
  <2> QED
    BY <2>2, <2>3, <2>4, Zenon DEF CountInv, CallInv
<1> QED
  BY <1>1, <1>2, WriteStep, CompactStep, PollCount, CallCount DEF Next

LEMMA InitCount == Init => CountInv
<1> SUFFICES ASSUME Init PROVE CountInv
  OBVIOUS
<1>1. Balanced
  BY InitBalanced DEF Init
<1>2. version \in Nat /\ version = 1
  BY DEF Init, S!Init
<1>3. PollInv
  BY <1>2 DEF Init, PollInv
<1>4. NoEntry \in Entry /\ NoEntry.seedRev = 0 /\ NoEntry.ok = FALSE
  BY DEF NoEntry, Entry
<1>5. EntryInv
  BY <1>2, <1>4 DEF Init, EntryInv, EntryOK
<1>6. NoResult \in Result /\ NoResult.rev = 0
  BY DEF Result, NoResult
<1>7. CallTypes
  BY <1>6 DEF Init, CallTypes
<1>8. CallInv
  BY <1>2, <1>6 DEF Init, CallInv, CallOK
<1> QED
  BY <1>1, <1>3, <1>5, <1>7, <1>8 DEF CountInv

-----------------------------------------------------------------------------
(***************************************************************************)
(* The store is that of Mvcc, whose invariant is proved there.             *)
(***************************************************************************)
MP == INSTANCE MvccProofs

(***************************************************************************)
(* The same steps,                                                         *)
(***************************************************************************)
LEMMA SameNext == [S!Next]_S!vars <=> [MP!Next]_MP!vars
<1>1. S!Next <=> MP!Next
  BY DEF S!Next, MP!Next, S!Write, MP!Write, S!Compact, MP!Compact,
         S!Tick, MP!Tick, S!Create, MP!Create, S!Update, MP!Update,
         S!Delete, MP!Delete, S!StartSweep, MP!StartSweep,
         S!SweepBatch, MP!SweepBatch, S!StopSweep, MP!StopSweep,
         S!AppendRecord, MP!AppendRecord, S!InRange, MP!InRange, S!Doomed, MP!Doomed,
         S!AfterBatch, MP!AfterBatch, S!GetLast, MP!GetLast,
         S!Newest, MP!Newest, S!CreateRecord, MP!CreateRecord,
         S!UpdateRecord, MP!UpdateRecord, S!DeleteRecord, MP!DeleteRecord,
         S!GetCreateRevision, MP!GetCreateRevision,
         S!CompactRequests, MP!CompactRequests, S!NoRev, MP!NoRev,
         S!NoSweep, MP!NoSweep
<1> QED
  BY <1>1 DEF S!vars, MP!vars

(***************************************************************************)
(* the same initial states,                                                *)
(***************************************************************************)
LEMMA SameInit == S!Init <=> MP!Init
  BY DEF S!Init, MP!Init, S!CreateRecord, MP!CreateRecord, S!NoSweep, MP!NoSweep,
         S!NoRev, MP!NoRev

(***************************************************************************)
(* and the same invariant.                                                 *)
(***************************************************************************)
LEMMA SameInvariant ==
    (S!IInv <=> MP!IInv) /\ (S!CompactionInvisible <=> MP!CompactionInvisible)
<1>1. (S!TypeOK <=> MP!TypeOK) /\ (S!RevisionsUnique <=> MP!RevisionsUnique)
  BY DEF S!TypeOK, MP!TypeOK, S!Record, MP!Record, S!Sweep, MP!Sweep,
         S!RevisionsUnique, MP!RevisionsUnique
<1>2. (S!RemovedNotLive <=> MP!RemovedNotLive)
      /\ (S!RemovedInOrder <=> MP!RemovedInOrder)
  BY DEF S!RemovedNotLive, MP!RemovedNotLive, S!RemovedInOrder, MP!RemovedInOrder
<1>3. (S!SweptClean <=> MP!SweptClean) /\ (S!HistoryChain <=> MP!HistoryChain)
  BY DEF S!SweptClean, MP!SweptClean, S!HistoryChain, MP!HistoryChain,
         S!Consecutive, MP!Consecutive, S!NoRev, MP!NoRev,
         S!GetCreateRevision, MP!GetCreateRevision
<1>4. S!CompactionInvisible <=> MP!CompactionInvisible
  BY DEF S!CompactionInvisible, MP!CompactionInvisible, S!View, MP!View,
         S!Newest, MP!Newest
<1> QED
  BY <1>1, <1>2, <1>3, <1>4 DEF S!IInv, MP!IInv

LEMMA InitSound == Init => Sound
  BY SameInit, SameInvariant, MP!InitIInv, MP!IInvInvisible, MaxVersionAssumption
     DEF Init, Sound

LEMMA IsStoreStep == ASSUME Sound, [Next]_vars PROVE [S!Next]_S!vars
<1>1. version \in S!CompactRequests
  BY DEF Sound, S!IInv, S!TypeOK, S!CompactRequests
<1>2. CASE Write
  BY <1>2, Zenon DEF Write, S!Next
<1>3. CASE Compact
  BY <1>1, <1>3, Zenon DEF Compact, S!Next, S!Compact
<1>4. CASE PollStep \/ (\E c \in Caller : CallStep(c)) \/ UNCHANGED vars
  <2>1. UNCHANGED store
    BY <1>4, Zenon DEF PollStep, StartPoll, PollRead, PollApply, PollPublish,
         CallStep, Begin, Load, ScanBatch, ScanFails, Returned, Return, Seed, vars
  <2> QED
    BY <2>1, Zenon DEF store, S!vars
<1> QED
  BY <1>2, <1>3, <1>4, Zenon DEF Next

LEMMA NextSound == Sound /\ [Next]_vars => Sound' /\ StoreEvolves
<1> SUFFICES ASSUME Sound, [Next]_vars PROVE Sound' /\ StoreEvolves
  OBVIOUS
<1>1. MP!IInv
  BY SameInvariant DEF Sound
<1>2. [MP!Next]_MP!vars
  BY IsStoreStep, SameNext
<1>3. MP!IInv'
  BY <1>1, <1>2, MP!NextIInv, MaxVersionAssumption
<1>4. (MP!IInv => MP!CompactionInvisible)'
  BY MP!IInvInvisible, MaxVersionAssumption, PTL
<1>5. (MP!IInv <=> S!IInv)'
      /\ (S!CompactionInvisible <=> MP!CompactionInvisible)'
  BY SameInvariant, PTL
<1>6. StoreEvolves
  BY <1>1, <1>2, MP!NextGrows, MaxVersionAssumption DEF StoreEvolves, Evolves
<1> QED
  BY <1>3, <1>4, <1>5, <1>6 DEF Sound

(***************************************************************************)
(* The invariants of the store and of the counts, together.                *)
(***************************************************************************)
LEMMA CountInvariance == Spec => [](Sound /\ CountInv)
<1>1. Init => Sound /\ CountInv
  BY InitSound, InitCount
<1>2. Sound /\ CountInv /\ [Next]_vars => Sound' /\ CountInv'
  BY NextSound, NextCount
<1> QED
  BY <1>1, <1>2, PTL DEF Spec

(***************************************************************************)
(* For any number of prefixes, callers, batches, polls and compactions: an *)
(* entry of the tracker counts the keys that were live at the last         *)
(* revision applied to it, with the three exceptions (countTracker.seed    *)
(* and apply in fdb_count.go, poll in fdb_watch.go).                       *)
(***************************************************************************)
THEOREM TrackedIsAlwaysExact == Spec => []TrackedExact
<1>1. CountInv => TrackedExact
  BY LiveIs DEF CountInv, EntryInv, EntryOK, TrackedExact
<1> QED
  BY <1>1, CountInvariance, PTL

(***************************************************************************)
(* A Count answers the number of keys live at its revision, or at one that *)
(* is not older than the cursor was when the call began (FDB.Count in      *)
(* fdb_read.go, with recordCollector and processRange).                    *)
(***************************************************************************)
THEOREM AnswersAreRecent == Spec => []AnswerIsRecent
<1>1. CountInv => AnswerIsRecent
  BY LiveIs, Zenon DEF CountInv, CallInv, CallOK, AnswerIsRecent
<1> QED
  BY <1>1, CountInvariance, PTL

(***************************************************************************)
(* The variables keep their types: what the poll loop holds is of the      *)
(* history, and every scan counts and pins a natural number (FDB.Count,    *)
(* countTracker and poll).                                                 *)
(***************************************************************************)
THEOREM CountTypeCorrect == Spec => []TypeOK
<1>1. Sound /\ CountInv => TypeOK
  <2> SUFFICES ASSUME Sound, CountInv PROVE TypeOK
    OBVIOUS
  <2>1. S!TypeOK /\ batch \subseteq S!Record
    BY DEF Sound, S!IInv, S!TypeOK, CountInv, PollInv
  <2>2. ASSUME NEW c \in Caller
        PROVE  collector[c].firstRev \in Nat /\ collector[c].count \in Nat
    <3>1. CASE pc[c] = "scan"
      BY <3>1, Zenon DEF CountInv, CallInv, CallOK, Scanning
    <3>2. CASE pc[c] # "scan"
      <4>1. collector[c] = NewRecordCollector
        BY <3>2, Zenon DEF CountInv, CallInv, CallOK
      <4> QED
        BY <4>1 DEF NewRecordCollector
    <3> QED
      BY <3>1, <3>2
  <2> QED
    BY <2>1, <2>2 DEF TypeOK, CountInv, PollInv, EntryInv, Entry, CallTypes, Result
<1> QED
  BY <1>1, CountInvariance, PTL
=============================================================================
