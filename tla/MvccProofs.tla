------------------------------ MODULE MvccProofs ------------------------------
(***************************************************************************)
(* Proofs about Mvcc: what compaction leaves of the store.                 *)
(***************************************************************************)
EXTENDS Mvcc, TLAPS, WellFoundedInduction

(***************************************************************************)
(* A nonempty set of numbers up to n has a greatest element.               *)
(***************************************************************************)
LEMMA GreatestExists ==
    ASSUME NEW n \in Nat, NEW T \in SUBSET Nat, \A x \in T : x <= n, T # {}
    PROVE  \E m \in T : \A x \in T : x <= m
<1> DEFINE R == OpToRel(<, Nat)
           D == {d \in Nat : \E x \in T : d + x = n}
<1>1. IsWellFoundedOn(R, Nat)
  BY NatLessThanWellFounded, Zenon
<1>2. D \subseteq Nat /\ D # {}
  <2>1. PICK x \in T : TRUE
    BY Zenon
  <2>2. n - x \in D
    BY <2>1
  <2> QED
    BY <2>2, Zenon
<1>3. PICK d \in D : \A e \in D : ~(<<e, d>> \in R)
  <2> HIDE DEF R, D
  <2> QED BY <1>1, <1>2, WFMin, Zenon
<1>4. \A e \in D : ~(e < d)
  BY <1>3, Zenon DEF OpToRel
<1>5. PICK m \in T : d + m = n
  OBVIOUS
<1>6. ASSUME NEW x \in T
      PROVE  x <= m
  <2>1. n - x \in D
    BY <1>6
  <2>2. ~(n - x < d)
    BY <2>1, <1>4
  <2> QED
    BY <2>2, <1>5
<1> QED
  BY <1>6

(***************************************************************************)
(* getLast finds a record when the key has one.                            *)
(***************************************************************************)
LEMMA NewestExists ==
    ASSUME NEW S, NEW n \in Nat, \A s \in S : s.rev \in Nat /\ s.rev <= n,
           NEW r \in S
    PROVE  \E m \in S : m \in Newest(S, r.key)
<1> DEFINE T == {s.rev : s \in {t \in S : t.key = r.key}}
<1>1. T \in SUBSET Nat /\ T # {} /\ \A x \in T : x <= n
  OBVIOUS
<1>2. PICK g \in T : \A x \in T : x <= g
  <2> HIDE DEF T
  <2> QED BY <1>1, GreatestExists, Zenon
<1>3. PICK m \in S : m.key = r.key /\ m.rev = g
  OBVIOUS
<1>4. m \in Newest(S, r.key)
  BY <1>2, <1>3 DEF Newest
<1> QED
  BY <1>4

(***************************************************************************)
(* Every step is of one of these kinds.                                    *)
(***************************************************************************)
AppendStep(r) ==
    /\ AppendRecord(r)
    /\ r \in Record
    /\ r.rev = version + 1

-----------------------------------------------------------------------------
(***************************************************************************)
(* The initial states satisfy the invariant.                               *)
(***************************************************************************)
LEMMA InitIInv == Init => IInv
<1> SUFFICES ASSUME Init PROVE IInv
  OBVIOUS
<1>1. history = {} \/ \E k \in Key, v \in Value, l \in Lease :
         history = {CreateRecord(1, k, v, l, NoRev)}
  BY DEF Init
<1>2. \A h \in history : h \in Record /\ h.rev = 1 /\ h.isCreate
                          /\ h.prevRevision = NoRev
  <2>1. ASSUME NEW k \in Key, NEW v \in Value, NEW l \in Lease
        PROVE  LET r == CreateRecord(1, k, v, l, NoRev)
               IN  /\ r \in Record /\ r.rev = 1 /\ r.isCreate
                   /\ r.prevRevision = NoRev
    BY DEF CreateRecord, Record, NoRev
  <2> QED
    BY <1>1, <2>1
<1>3. \A g, h \in history : g = h
  BY <1>1
<1>4. version = 1 /\ records = history /\ compactRev = 0
      /\ sweep = [p \in Compactor |-> NoSweep]
  BY DEF Init
<1>5. TypeOK
  BY <1>2, <1>4 DEF TypeOK, Sweep, NoSweep
<1>6. RevisionsUnique
  BY <1>2, <1>3, <1>4 DEF RevisionsUnique
<1>7. RemovedNotLive /\ RemovedInOrder
  BY <1>4 DEF RemovedNotLive, RemovedInOrder
<1>8. SweptClean
  BY <1>4 DEF SweptClean, NoSweep
<1>9. HistoryChain
  BY <1>2 DEF HistoryChain, Consecutive, NoRev
<1> QED
  BY <1>5, <1>6, <1>7, <1>8, <1>9 DEF IInv

-----------------------------------------------------------------------------
(***************************************************************************)
(* An append of a record for a key that has a predecessor p, or none.      *)
(***************************************************************************)
LEMMA LastIsNewest ==
    ASSUME IInv, NEW k \in Key, NEW l \in GetLast(k),
           NEW h \in history, h.key = k
    PROVE  h.rev <= l.rev
<1>1. l \in records /\ l \in history /\ l.key = k
  BY DEF IInv, RevisionsUnique, GetLast, Newest
<1>2. CASE h \in records
  BY <1>2 DEF GetLast, Newest
<1>3. CASE h \notin records
  <2>1. h.rev < l.rev
    BY <1>1, <1>3 DEF IInv, RemovedInOrder
  <2>2. h.rev \in Nat /\ l.rev \in Nat
    BY <1>1 DEF IInv, TypeOK, Record
  <2> QED
    BY <2>1, <2>2
<1> QED
  BY <1>2, <1>3

(***************************************************************************)
(* A key with no last record has no record left.                           *)
(***************************************************************************)
LEMMA NoLastNoRecord ==
    ASSUME IInv, NEW k \in Key, GetLast(k) = {}
    PROVE  \A s \in records : s.key # k
<1> SUFFICES ASSUME NEW s \in records, s.key = k PROVE FALSE
  OBVIOUS
<1>1. version \in Nat /\ \A t \in records : t.rev \in Nat /\ t.rev <= version
  BY DEF IInv, TypeOK, RevisionsUnique, Record
<1>2. \E m \in records : m \in Newest(records, s.key)
  BY <1>1, NewestExists
<1> QED
  BY <1>2 DEF GetLast

(***************************************************************************)
(* What an appended record must say of the key's history, for the chain.   *)
(***************************************************************************)
Follows(r) ==
    \/ /\ GetLast(r.key) = {}
       /\ r.isCreate /\ r.prevRevision = NoRev
    \/ \E p \in GetLast(r.key) :
          /\ r.isCreate <=> p.isDelete
          /\ r.isCreate => r.prevRevision = p.rev
          /\ ~r.isCreate => /\ r.prevRevision = p.rev
                            /\ r.createRevision = GetCreateRevision(p)

(***************************************************************************)
(* What each of Create, Update and Delete appends continues the chain of   *)
(* its key.                                                                *)
(***************************************************************************)
LEMMA AppendFollows ==
    ASSUME IInv, Write
    PROVE  \E r \in Record : AppendStep(r) /\ Follows(r)
<1> USE DEF Record, AppendStep
<1>0. version \in Nat
  BY DEF IInv, TypeOK
<1>1. CASE \E k \in Key, v \in Value, l \in Lease : Create(k, v, l)
  <2>1. PICK k \in Key, v \in Value, l \in Lease : Create(k, v, l)
    BY <1>1
  <2>2. CASE /\ GetLast(k) = {}
             /\ AppendRecord(CreateRecord(version + 1, k, v, l, NoRev))
    <3> DEFINE r == CreateRecord(version + 1, k, v, l, NoRev)
    <3>1. r \in Record /\ r.rev = version + 1
      BY <1>0 DEF CreateRecord, NoRev
    <3>2. Follows(r)
      BY <2>2 DEF Follows, CreateRecord
    <3> QED
      BY <2>2, <3>1, <3>2
  <2>3. ASSUME NEW p \in GetLast(k), p.isDelete,
               AppendRecord(CreateRecord(version + 1, k, v, l, p.rev))
        PROVE  \E r \in Record : AppendStep(r) /\ Follows(r)
    <3> DEFINE r == CreateRecord(version + 1, k, v, l, p.rev)
    <3>1. p \in Record
      BY DEF IInv, TypeOK, GetLast, Newest
    <3>2. r \in Record /\ r.rev = version + 1
      BY <1>0, <3>1 DEF CreateRecord, NoRev
    <3>3. Follows(r)
      BY <2>3 DEF Follows, CreateRecord
    <3> QED
      BY <2>3, <3>2, <3>3
  <2> QED
    BY <2>1, <2>2, <2>3 DEF Create
<1>2. CASE \E k \in Key, v \in Value, l \in Lease : Update(k, v, l)
  <2>1. PICK k \in Key, v \in Value, l \in Lease : Update(k, v, l)
    BY <1>2
  <2>2. PICK p \in GetLast(k) :
           ~p.isDelete /\ AppendRecord(UpdateRecord(version + 1, p, v, l))
    BY <2>1 DEF Update
  <2> DEFINE r == UpdateRecord(version + 1, p, v, l)
  <2>3. p \in Record /\ p.key = k
    BY DEF IInv, TypeOK, GetLast, Newest
  <2>4. r \in Record /\ r.rev = version + 1
    BY <1>0, <2>3 DEF UpdateRecord, GetCreateRevision
  <2>5. Follows(r)
    BY <2>2, <2>3 DEF Follows, UpdateRecord
  <2> QED
    BY <2>2, <2>4, <2>5
<1>3. CASE \E k \in Key : Delete(k)
  <2>1. PICK k \in Key : Delete(k)
    BY <1>3
  <2>2. PICK p \in GetLast(k) :
           ~p.isDelete /\ AppendRecord(DeleteRecord(version + 1, p))
    BY <2>1 DEF Delete
  <2> DEFINE r == DeleteRecord(version + 1, p)
  <2>3. p \in Record /\ p.key = k
    BY DEF IInv, TypeOK, GetLast, Newest
  <2>4. r \in Record /\ r.rev = version + 1
    BY <1>0, <2>3 DEF DeleteRecord, GetCreateRevision
  <2>5. Follows(r)
    BY <2>2, <2>3 DEF Follows, DeleteRecord
  <2> QED
    BY <2>2, <2>4, <2>5
<1> QED
  BY <1>1, <1>2, <1>3 DEF Write

-----------------------------------------------------------------------------
(***************************************************************************)
(* An append preserves the invariant.                                      *)
(***************************************************************************)
LEMMA AppendIInv ==
    ASSUME IInv, NEW r \in Record, AppendStep(r), Follows(r)
    PROVE  IInv'
<1>1. /\ version' = version + 1
      /\ history' = history \cup {r}
      /\ records' = records \cup {r}
      /\ UNCHANGED <<compactRev, sweep>>
      /\ r.rev = version + 1
  BY DEF AppendStep, AppendRecord
<1>2. /\ version \in Nat
      /\ \A h \in history : h \in Record /\ h.rev \in Nat /\ h.rev <= version
      /\ records \subseteq history
  BY DEF IInv, TypeOK, RevisionsUnique, Record
<1>3. TypeOK'
  BY <1>1 DEF IInv, TypeOK
<1>4. RevisionsUnique'
  BY <1>1, <1>2 DEF IInv, RevisionsUnique
<1>5. RemovedNotLive'
  BY <1>1 DEF IInv, RemovedNotLive
<1>6. RemovedInOrder'
  <2> SUFFICES ASSUME NEW h \in history' \ records', NEW s \in records', s.key = h.key
               PROVE  h.rev < s.rev
    BY DEF RemovedInOrder
  <2>1. h \in history \ records
    BY <1>1
  <2>2. h.rev < r.rev
    BY <1>1, <1>2, <2>1
  <2> QED
    BY <1>1, <2>1, <2>2 DEF IInv, RemovedInOrder
<1>7. SweptClean'
  <2> SUFFICES ASSUME NEW p \in Compactor, sweep[p].running
               PROVE  /\ sweep[p].cursor <= sweep[p].end
                      /\ sweep[p].end <= version'
                      /\ \A x \in records' : x.rev <= sweep[p].cursor =>
                            \A s \in history' :
                               s.key = x.key /\ s.rev > x.rev
                                 => s.rev > sweep[p].end
    BY <1>1 DEF SweptClean
  <2>1. /\ sweep[p].cursor \in Nat /\ sweep[p].end \in Nat
        /\ sweep[p].cursor <= sweep[p].end /\ sweep[p].end <= version
    BY DEF IInv, TypeOK, Sweep, SweptClean
  <2>2. ASSUME NEW x \in records', x.rev <= sweep[p].cursor,
               NEW s \in history', s.key = x.key, s.rev > x.rev
        PROVE  s.rev > sweep[p].end
    <3>1. x \in records
      BY <1>1, <1>2, <2>1, <2>2
    <3>2. CASE s = r
      BY <1>1, <1>2, <2>1, <3>2
    <3>3. CASE s \in history
      BY <2>2, <3>1, <3>3 DEF IInv, SweptClean
    <3> QED
      BY <1>1, <3>2, <3>3
  <2> QED
    BY <1>1, <1>2, <2>1, <2>2
<1>8. HistoryChain'
  <2> SUFFICES ASSUME NEW x \in history'
               PROVE  /\ (\A p \in history' : p.key = x.key => x.rev <= p.rev)
                            => x.isCreate /\ x.prevRevision = NoRev
                      /\ \A p \in history' : Consecutive(p, x)' =>
                            /\ x.isCreate <=> p.isDelete
                            /\ x.isCreate => x.prevRevision \in {NoRev, p.rev}
                            /\ ~x.isCreate =>
                                  /\ x.prevRevision = p.rev
                                  /\ x.createRevision = GetCreateRevision(p)
    BY DEF HistoryChain, GetCreateRevision, NoRev
  <2>1. CASE x \in history
    <3>1. ASSUME \A p \in history' : p.key = x.key => x.rev <= p.rev
          PROVE  x.isCreate /\ x.prevRevision = NoRev
      BY <1>1, <2>1, <3>1 DEF IInv, HistoryChain
    <3>2. ASSUME NEW p \in history', Consecutive(p, x)'
          PROVE  p \in history /\ Consecutive(p, x)
      BY <1>1, <1>2, <2>1, <3>2 DEF Consecutive
    <3> QED
      BY <2>1, <3>1, <3>2 DEF IInv, HistoryChain
  <2>2. CASE x = r /\ GetLast(r.key) = {}
    <3>1. r.isCreate /\ r.prevRevision = NoRev
      BY <2>2 DEF Follows
    <3>2. ASSUME NEW p \in history', Consecutive(p, r)'
          PROVE  p.isDelete
      <4>1. p \in history /\ p.key = r.key
        BY <1>1, <1>2, <3>2 DEF Consecutive
      <4>2. \A q \in history : q.key = r.key => q.rev <= p.rev
        BY <1>1, <1>2, <3>2 DEF Consecutive
      <4>3. p \notin records
        BY <2>2, <4>1, NoLastNoRecord DEF Record
      <4> QED
        BY <1>2, <4>1, <4>2, <4>3 DEF IInv, RemovedNotLive
    <3> QED
      BY <2>2, <3>1, <3>2
  <2>3. ASSUME x = r, NEW l \in GetLast(r.key),
               r.isCreate <=> l.isDelete,
               r.prevRevision = l.rev,
               ~r.isCreate => r.createRevision = GetCreateRevision(l)
        PROVE  /\ (\A p \in history' : p.key = x.key => x.rev <= p.rev)
                     => x.isCreate /\ x.prevRevision = NoRev
               /\ \A p \in history' : Consecutive(p, x)' => p = l
    <3>1. l \in history /\ l.key = r.key /\ l.rev < r.rev
      BY <1>1, <1>2 DEF GetLast, Newest
    <3>2. ~(\A p \in history' : p.key = r.key => r.rev <= p.rev)
      BY <1>1, <1>2, <3>1
    <3>3. ASSUME NEW p \in history', Consecutive(p, r)'
          PROVE  p = l
      <4>1. p \in history /\ p.key = r.key
        BY <1>1, <1>2, <3>3 DEF Consecutive
      <4>2. l.rev <= p.rev
        BY <1>1, <1>2, <3>1, <3>3 DEF Consecutive
      <4>3. p.rev <= l.rev
        BY <4>1, LastIsNewest DEF Record
      <4>4. p.rev = l.rev
        BY <1>2, <3>1, <4>1, <4>2, <4>3
      <4> QED
        BY <3>1, <4>1, <4>4 DEF IInv, RevisionsUnique
    <3> QED
      BY <2>3, <3>2, <3>3
  <2> QED
    BY <1>1, <2>1, <2>2, <2>3 DEF Follows
<1> QED
  BY <1>3, <1>4, <1>5, <1>6, <1>7, <1>8 DEF IInv

-----------------------------------------------------------------------------
(***************************************************************************)
(* Steps that leave the records as they are.                               *)
(***************************************************************************)
LEMMA TickIInv == IInv /\ Tick => IInv'
<1> SUFFICES ASSUME IInv, Tick PROVE IInv'
  OBVIOUS
<1>1. version' = version + 1 /\ version \in Nat
      /\ UNCHANGED <<history, records, compactRev, sweep>>
  BY DEF Tick, IInv, TypeOK
<1>2. TypeOK'
  BY <1>1 DEF IInv, TypeOK
<1>3. RevisionsUnique'
  BY <1>1 DEF IInv, TypeOK, Record, RevisionsUnique
<1>4. SweptClean'
  BY <1>1 DEF IInv, TypeOK, Sweep, SweptClean
<1>5. RemovedNotLive' /\ RemovedInOrder' /\ HistoryChain'
  BY <1>1 DEF IInv, RemovedNotLive, RemovedInOrder, HistoryChain, Consecutive
<1> QED
  BY <1>2, <1>3, <1>4, <1>5 DEF IInv

(***************************************************************************)
(* Starting a sweep preserves the invariant: nothing is behind its cursor. *)
(***************************************************************************)
LEMMA StartSweepIInv ==
    ASSUME IInv, NEW p \in Compactor, NEW e \in CompactRequests,
           StartSweep(p, e)
    PROVE  IInv'
<1>1. /\ sweep' = [sweep EXCEPT ![p] =
                      [running |-> TRUE, end |-> e, cursor |-> 0]]
      /\ UNCHANGED <<version, history, records, compactRev>>
      /\ version \in Nat /\ e \in Nat /\ e <= version
  BY DEF StartSweep, CompactRequests, IInv, TypeOK
<1>2. TypeOK'
  BY <1>1 DEF IInv, TypeOK, Sweep
<1>3. \A r \in records : r.rev \in Nat /\ 0 < r.rev
  BY DEF IInv, TypeOK, Record, RevisionsUnique
<1>4. SweptClean'
  BY <1>1, <1>3 DEF IInv, TypeOK, Sweep, SweptClean
<1>5. /\ RevisionsUnique' /\ RemovedNotLive' /\ RemovedInOrder'
      /\ HistoryChain'
  BY <1>1 DEF IInv, RevisionsUnique, RemovedNotLive, RemovedInOrder,
              HistoryChain, Consecutive
<1> QED
  BY <1>2, <1>4, <1>5 DEF IInv

(***************************************************************************)
(* So does ending one.                                                     *)
(***************************************************************************)
LEMMA StopSweepIInv ==
    ASSUME IInv, NEW p \in Compactor, StopSweep(p)
    PROVE  IInv'
<1>1. /\ sweep' = [sweep EXCEPT ![p] = NoSweep]
      /\ UNCHANGED <<version, history, records, compactRev>>
  BY DEF StopSweep
<1>2. TypeOK'
  BY <1>1 DEF IInv, TypeOK, Sweep, NoSweep
<1>3. SweptClean'
  BY <1>1 DEF IInv, TypeOK, SweptClean, NoSweep
<1>4. /\ RevisionsUnique' /\ RemovedNotLive' /\ RemovedInOrder'
      /\ HistoryChain'
  BY <1>1 DEF IInv, RevisionsUnique, RemovedNotLive, RemovedInOrder,
              HistoryChain, Consecutive
<1> QED
  BY <1>2, <1>3, <1>4 DEF IInv

-----------------------------------------------------------------------------
(***************************************************************************)
(* A compaction batch preserves the invariant.  The heart of the argument: *)
(* when the batch removes a key's last record, a tombstone, nothing older  *)
(* is left, because what the sweep left behind its cursor has no successor *)
(* in its range.                                                           *)
(***************************************************************************)
LEMMA SweepBatchIInv ==
    ASSUME IInv, NEW p \in Compactor, SweepBatch(p)
    PROVE  IInv'
<1>1. PICK last \in InRange(p) :
         /\ records' = records \ Doomed({r \in InRange(p) : r.rev <= last.rev})
         /\ compactRev' = last.rev
         /\ AfterBatch(p, last.rev)
  BY DEF SweepBatch
<1> DEFINE batch == {r \in InRange(p) : r.rev <= last.rev}
           gone == Doomed(batch)
<1>2. /\ version' = version + 1 /\ history' = history
      /\ records' = records \ gone
      /\ sweep[p].running
  BY <1>1 DEF SweepBatch
<1>3. /\ version \in Nat
      /\ \A h \in history : h \in Record /\ h.rev \in Nat /\ h.rev <= version
      /\ records \subseteq history
      /\ \A g, h \in history : g.rev = h.rev => g = h
      /\ sweep[p].cursor \in Nat /\ sweep[p].end \in Nat
  BY DEF IInv, TypeOK, RevisionsUnique, Record, Sweep
<1>4. \A r \in records :
         r \in batch <=> sweep[p].cursor < r.rev /\ r.rev <= last.rev
  BY <1>1, <1>3 DEF InRange
<1>5. /\ last \in records /\ last.rev \in Nat
      /\ sweep[p].cursor < last.rev /\ last.rev <= sweep[p].end
  BY <1>1, <1>3 DEF InRange
<1>6. gone \subseteq batch /\ gone \subseteq records
  BY DEF Doomed, InRange
<1>7. \A r \in batch : r \notin gone => r \in GetLast(r.key) /\ ~r.isDelete
  BY DEF Doomed
<1>8. \A r \in gone : r.isDelete \/ r \notin GetLast(r.key)
  BY DEF Doomed
<1> HIDE DEF batch, gone
<1>9. TypeOK'
  <2>1. sweep' \in [Compactor -> Sweep]
    <3>1. sweep \in [Compactor -> Sweep]
      BY DEF IInv, TypeOK
    <3>2. CASE sweep' = sweep
      BY <3>1, <3>2
    <3>3. CASE sweep' = [sweep EXCEPT ![p].cursor = last.rev]
      BY <1>5, <3>1, <3>3 DEF Sweep
    <3>4. CASE sweep' = [sweep EXCEPT ![p] = NoSweep]
      BY <3>1, <3>4 DEF Sweep, NoSweep
    <3> QED
      BY <1>1, <3>2, <3>3, <3>4 DEF AfterBatch
  <2> QED
    BY <1>1, <1>2, <1>5, <2>1 DEF IInv, TypeOK
<1>10. RevisionsUnique'
  BY <1>2, <1>3 DEF IInv, RevisionsUnique
<1>11. RemovedNotLive'
  <2> SUFFICES ASSUME NEW h \in history' \ records'
               PROVE  h.isDelete \/ \E g \in history' :
                                        g.key = h.key /\ g.rev > h.rev
    BY DEF RemovedNotLive
  <2>1. CASE h \notin records
    BY <1>2, <2>1 DEF IInv, RemovedNotLive
  <2>2. CASE h \in gone /\ h \notin GetLast(h.key)
    <3>1. PICK s \in records : s.key = h.key /\ ~(s.rev <= h.rev)
      BY <1>6, <2>2 DEF GetLast, Newest
    <3>2. s \in history /\ h \in history
      BY <1>2, <1>3
    <3>3. s.rev > h.rev
      BY <1>3, <3>1, <3>2
    <3> QED
      BY <1>2, <3>1, <3>2, <3>3
  <2> QED
    BY <1>2, <1>8, <2>1, <2>2
<1>12. RemovedInOrder'
  <2> SUFFICES ASSUME NEW h \in history' \ records', NEW r \in records', r.key = h.key
               PROVE  h.rev < r.rev
    BY DEF RemovedInOrder
  <2>1. h \in history /\ r \in records /\ r \in history /\ r # h
    BY <1>2, <1>3
  <2>2. CASE h \notin records
    BY <2>1, <2>2 DEF IInv, RemovedInOrder
  <2>3. CASE h \in gone /\ r.rev <= h.rev
    <3>1. r.rev < h.rev /\ h.rev <= last.rev
      BY <1>3, <1>4, <1>6, <2>1, <2>3
    <3>2. r \notin batch
      <4>1. SUFFICES ASSUME r \in batch PROVE FALSE
        OBVIOUS
      <4>2. r \in GetLast(r.key)
        BY <1>2, <1>7, <4>1
      <4>3. h.rev <= r.rev
        BY <1>6, <2>3, <4>2 DEF GetLast, Newest
      <4> QED
        BY <1>3, <2>1, <3>1, <4>3
    <3>3. r.rev <= sweep[p].cursor
      BY <1>3, <1>4, <1>5, <2>1, <3>1, <3>2
    <3>4. h.rev > sweep[p].end
      BY <1>2, <2>1, <3>1, <3>3 DEF IInv, SweptClean
    <3> QED
      BY <1>3, <1>5, <2>1, <3>1, <3>4
  <2> QED
    BY <1>2, <1>3, <2>1, <2>2, <2>3
<1>13. SweptClean'
  <2> SUFFICES ASSUME NEW q \in Compactor, sweep'[q].running
               PROVE  /\ sweep'[q].cursor <= sweep'[q].end
                      /\ sweep'[q].end <= version'
                      /\ \A r \in records' : r.rev <= sweep'[q].cursor =>
                            \A s \in history' :
                               s.key = r.key /\ s.rev > r.rev
                                 => s.rev > sweep'[q].end
    BY DEF SweptClean
  <2>1. CASE sweep'[q] = sweep[q]
    <3>1. /\ sweep[q].cursor <= sweep[q].end /\ sweep[q].end <= version
          /\ sweep[q].end \in Nat
      BY <2>1 DEF IInv, SweptClean, TypeOK, Sweep
    <3>2. ASSUME NEW r \in records', r.rev <= sweep[q].cursor,
                 NEW s \in history', s.key = r.key, s.rev > r.rev
          PROVE  s.rev > sweep[q].end
      BY <1>2, <2>1, <3>2 DEF IInv, SweptClean
    <3> QED
      BY <1>2, <1>3, <2>1, <3>1, <3>2
  <2>2. CASE q = p /\ sweep' = [sweep EXCEPT ![p].cursor = last.rev]
    <3>1. sweep'[q].cursor = last.rev /\ sweep'[q].end = sweep[p].end
      BY <2>2 DEF IInv, TypeOK, Sweep
    <3>2. sweep[p].end <= version
      BY <1>2 DEF IInv, SweptClean
    <3>3. ASSUME NEW r \in records', r.rev <= last.rev,
                 NEW s \in history', s.key = r.key, s.rev > r.rev
          PROVE  s.rev > sweep[p].end
      <4>1. r \in records /\ r \in history /\ s \in history
        BY <1>2, <1>3
      <4>2. CASE r.rev <= sweep[p].cursor
        BY <1>2, <3>3, <4>1, <4>2 DEF IInv, SweptClean
      <4>3. CASE ~(r.rev <= sweep[p].cursor)
        <5>1. r \in batch
          BY <1>3, <1>4, <3>3, <4>1, <4>3
        <5>2. r \in GetLast(r.key)
          BY <1>2, <1>7, <5>1
        <5>3. s.rev <= r.rev
          BY <3>3, <4>1, <5>2, LastIsNewest DEF IInv, TypeOK, Record
        <5> QED
          BY <1>3, <3>3, <4>1, <5>3
      <4> QED
        BY <4>2, <4>3
    <3> QED
      BY <1>2, <1>3, <1>5, <3>1, <3>2, <3>3
  <2>3. CASE q = p /\ sweep' = [sweep EXCEPT ![p] = NoSweep]
    BY <2>3 DEF IInv, TypeOK, NoSweep
  <2> QED
    BY <1>1, <2>1, <2>2, <2>3 DEF AfterBatch, IInv, TypeOK
<1>14. HistoryChain'
  BY <1>2 DEF IInv, HistoryChain, Consecutive
<1> QED
  BY <1>9, <1>10, <1>11, <1>12, <1>13, <1>14 DEF IInv

-----------------------------------------------------------------------------
(***************************************************************************)
(* Every step of the store preserves the invariant.                        *)
(***************************************************************************)
LEMMA NextIInv == IInv /\ [Next]_vars => IInv'
<1> SUFFICES ASSUME IInv, [Next]_vars PROVE IInv'
  OBVIOUS
<1>1. CASE Write
  BY <1>1, AppendFollows, AppendIInv
<1>2. CASE Compact
  BY <1>2, StartSweepIInv, SweepBatchIInv, StopSweepIInv DEF Compact
<1>3. CASE Tick
  BY <1>3, TickIInv
<1>4. CASE UNCHANGED vars
  BY <1>4 DEF vars, IInv, TypeOK, RevisionsUnique, RemovedNotLive,
              RemovedInOrder, SweptClean, HistoryChain, Consecutive
<1> QED
  BY <1>1, <1>2, <1>3, <1>4 DEF Next

(***************************************************************************)
(* The inductive invariant holds throughout.                               *)
(***************************************************************************)
THEOREM Invariance == Spec => []IInv
  BY InitIInv, NextIInv, PTL DEF Spec

(***************************************************************************)
(* The variables keep their types.                                         *)
(***************************************************************************)
THEOREM TypeCorrect == Spec => []TypeOK
<1>1. IInv => TypeOK
  BY DEF IInv
<1> QED
  BY <1>1, Invariance, PTL

(***************************************************************************)
(* The invariant leaves compaction nothing to show.                        *)
(***************************************************************************)
LEMMA IInvInvisible == IInv => CompactionInvisible
<1> SUFFICES ASSUME IInv PROVE CompactionInvisible
  OBVIOUS
<1>1. /\ \A h \in history : h \in Record /\ h.rev \in Nat /\ h.rev <= version
      /\ records \subseteq history
  BY DEF IInv, TypeOK, RevisionsUnique, Record
<1>2. {r \in records : r.rev <= version} = records
      /\ {r \in history : r.rev <= version} = history
  BY <1>1
<1>3. ASSUME NEW r \in records, r \in Newest(records, r.key)
      PROVE  r \in Newest(history, r.key)
  <2>1. r \in GetLast(r.key)
    BY <1>3 DEF GetLast
  <2>2. \A h \in history : h.key = r.key => h.rev <= r.rev
    BY <1>1, <2>1, LastIsNewest DEF Record
  <2> QED
    BY <1>1, <2>2 DEF Newest
<1>4. ASSUME NEW h \in history, h \in Newest(history, h.key), ~h.isDelete
      PROVE  h \in records /\ h \in Newest(records, h.key)
  <2>1. \A g \in history : g.key = h.key => g.rev <= h.rev
    BY <1>4 DEF Newest
  <2>2. h \in records
    BY <1>1, <1>4, <2>1 DEF IInv, RemovedNotLive
  <2> QED
    BY <1>1, <2>1, <2>2 DEF Newest
<1>5. {r \in records : r \in Newest(records, r.key) /\ ~r.isDelete}
        = {r \in history : r \in Newest(history, r.key) /\ ~r.isDelete}
  BY <1>1, <1>3, <1>4
<1> QED
  BY <1>2, <1>5, Zenon DEF CompactionInvisible, View

(***************************************************************************)
(* For any number of keys, Compact calls and batches: what compaction      *)
(* leaves gives the same live keys as the whole history                    *)
(* (compactProcessor.next removes neither a live key nor the tombstone of  *)
(* a key with an older record left).                                       *)
(***************************************************************************)
THEOREM CompactionIsInvisible == Spec => []CompactionInvisible
  BY IInvInvisible, Invariance, PTL

(***************************************************************************)
(* For any revision: a record that is its key's newest among those left up *)
(* to the revision is the newest of the history up to there, because the   *)
(* records of a key are removed in order.                                  *)
(***************************************************************************)
LEMMA IInvGenuine == IInv => PinnedReadsGenuine
<1> SUFFICES ASSUME IInv, NEW n \in 0 .. version
             PROVE  View(records, n) = View(history, n) \cap records
  BY DEF PinnedReadsGenuine
<1> DEFINE Left == {r \in records : r.rev <= n}
           Ever == {r \in history : r.rev <= n}
<1>1. /\ records \subseteq history
      /\ \A h \in history : h.rev \in Nat
  BY DEF IInv, TypeOK, RevisionsUnique, Record
<1>2. ASSUME NEW r \in Left, r \in Newest(Left, r.key)
      PROVE  r \in Newest(Ever, r.key)
  <2>1. ASSUME NEW h \in Ever, h.key = r.key PROVE h.rev <= r.rev
    <3>1. CASE h \in records
      BY <1>2, <2>1, <3>1 DEF Newest
    <3>2. CASE h \notin records
      <4>1. h.rev < r.rev
        BY <2>1, <3>2 DEF IInv, RemovedInOrder
      <4> QED
        BY <1>1, <4>1
    <3> QED
      BY <3>1, <3>2
  <2> QED
    BY <1>1, <2>1 DEF Newest
<1>3. ASSUME NEW r \in records, r \in Ever, r \in Newest(Ever, r.key)
      PROVE  r \in Left /\ r \in Newest(Left, r.key)
  BY <1>1, <1>3 DEF Newest
<1>4. {r \in Left : r \in Newest(Left, r.key) /\ ~r.isDelete}
        = {r \in Ever : r \in Newest(Ever, r.key) /\ ~r.isDelete} \cap records
  BY <1>1, <1>2, <1>3
<1> QED
  BY <1>4, Zenon DEF View

(***************************************************************************)
(* For any number of Compact calls and batches, and at any revision: a     *)
(* read shows no record but those live at that revision                    *)
(* (compactProcessor.next, in the ascending order of the range).           *)
(***************************************************************************)
THEOREM PinnedReadsAreGenuine == Spec => []PinnedReadsGenuine
  BY IInvGenuine, Invariance, PTL

(***************************************************************************)
(* The history of every key is a chain of lives, across all writes and     *)
(* compactions (the closures of Create, Update and Delete).                *)
(***************************************************************************)
THEOREM HistoryIsChained == Spec => []HistoryChain
<1>1. IInv => HistoryChain
  BY DEF IInv
<1> QED
  BY <1>1, Invariance, PTL

(***************************************************************************)
(* What a step of the store leaves to those who read it: records come with *)
(* new revisions, and others go.                                           *)
(***************************************************************************)
LEMMA NextGrows ==
    ASSUME IInv, [Next]_vars
    PROVE  /\ version' \in Nat /\ version <= version'
           /\ history \subseteq history'
           /\ \A h \in history' : h \in history \/ (h.rev \in Nat /\ h.rev > version)
           /\ \A r \in records' : r \in records \/ (r.rev \in Nat /\ r.rev > version)
<1>1. version \in Nat
  BY DEF IInv, TypeOK
<1>2. CASE Write
  <2>1. PICK r \in Record : AppendStep(r)
    BY <1>2, AppendFollows
  <2> QED
    BY <1>1, <2>1 DEF AppendStep, AppendRecord
<1>3. CASE Compact
  <2>1. \A p \in Compactor : SweepBatch(p) =>
           records' \subseteq records /\ version' = version + 1 /\ history' = history
    BY DEF SweepBatch
  <2>2. /\ records' \subseteq records /\ history' = history
        /\ version' = version + 1 \/ version' = version
    BY <1>3, <2>1 DEF Compact, StartSweep, StopSweep
  <2> QED
    BY <1>1, <2>2
<1>4. CASE Tick \/ UNCHANGED vars
  BY <1>1, <1>4 DEF Tick, vars
<1> QED
  BY <1>2, <1>3, <1>4 DEF Next
=============================================================================
