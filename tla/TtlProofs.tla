------------------------------ MODULE TtlProofs ------------------------------
(***************************************************************************)
(* Proofs about the expiry of leases, for any set of keys, page size and   *)
(* number of writes: no entry is left unscheduled, no lease is cut short,  *)
(* and list and watch together miss none but for the named causes.         *)
(***************************************************************************)
EXTENDS Ttl, ScanProofs

USE ZenonT(10), SMTT(20), Z3T(20)

(***************************************************************************)
(* The records the feed handles are records of the store.                  *)
(***************************************************************************)
Known ==
    /\ version \in Nat
    /\ records \subseteq history
    /\ \A h \in history : h.rev \in Nat /\ h.key \in Key
    /\ collector.currentRecord \subseteq history
    /\ page \subseteq history
    /\ pending \subseteq history

Entry == [modRevision : Nat, expired : BOOLEAN]

(***************************************************************************)
(* The inductive invariant.  An idle handler holds no key; an entry that   *)
(* has expired, and the revision the handler is about to delete, had its   *)
(* lease run out.                                                          *)
(***************************************************************************)
IInv ==
    /\ Known
    /\ ttlEventKVMap \in [Key -> Entry]
    /\ handler \in [pc : {"get", "delete", "after"}, key : Key \cup {0},
                    modRevision : Nat, err : BOOLEAN]
    /\ handler.pc = "get" => handler.key = 0
    /\ handler.pc = "delete" => handler.key \in Key /\ handler.modRevision \in lapsed
    /\ \A k \in Key : ttlEventKVMap[k].expired => ttlEventKVMap[k].modRevision \in lapsed
    /\ EntriesScheduled

(***************************************************************************)
(* A step of the store keeps what it has written: the record it appends,   *)
(* if any, has the next revision.                                          *)
(***************************************************************************)
StoreStep ==
    \/ S!Write
    \/ \E p \in Compactor :
          S!StartSweep(p, version) \/ S!SweepBatch(p) \/ S!StopSweep(p)
    \/ \E k \in Key : S!Delete(k)
    \/ UNCHANGED store

(***************************************************************************)
(* Whatever the clients, a sweep or the call of Delete do to the store,    *)
(* what the feed holds stays part of the history.                          *)
(***************************************************************************)
LEMMA StoreKnown ==
    ASSUME Known, StoreStep, UNCHANGED <<collector, page, pending>>
    PROVE  Known'
<1>1. CASE \E r : S!AppendRecord(r) /\ r.rev = version + 1 /\ r.key \in Key
  BY <1>1 DEF Known, S!AppendRecord
<1>2. CASE \E p \in Compactor : S!StartSweep(p, version)
  BY <1>2 DEF Known, S!StartSweep
<1>3. CASE \E p \in Compactor : S!SweepBatch(p)
  BY <1>3 DEF Known, S!SweepBatch
<1>4. CASE UNCHANGED <<version, history, records>>
  BY <1>4 DEF Known
<1>5. \A k \in Key : \A p \in S!GetLast(k) : p.key = k
  BY DEF S!GetLast, S!Newest
<1>6. ASSUME NEW k \in Key, NEW v \in Value, NEW l \in Lease, S!Create(k, v, l)
      PROVE  \E r : S!AppendRecord(r) /\ r.rev = version + 1 /\ r.key \in Key
  <2> DEFINE new(prev) == S!CreateRecord(version + 1, k, v, l, prev)
  <2>1. \A prev : new(prev).rev = version + 1 /\ new(prev).key = k
    BY DEF S!CreateRecord
  <2>2. \E prev : S!AppendRecord(new(prev))
    BY <1>6 DEF S!Create
  <2> HIDE DEF new
  <2> QED
    BY <2>1, <2>2
<1>7. ASSUME NEW k \in Key, NEW v \in Value, NEW l \in Lease, S!Update(k, v, l)
      PROVE  \E r : S!AppendRecord(r) /\ r.rev = version + 1 /\ r.key \in Key
  BY <1>5, <1>7 DEF S!Update, S!UpdateRecord
<1>8. ASSUME NEW k \in Key, S!Delete(k)
      PROVE  \E r : S!AppendRecord(r) /\ r.rev = version + 1 /\ r.key \in Key
  BY <1>5, <1>8 DEF S!Delete, S!DeleteRecord
<1> QED
  BY <1>1, <1>2, <1>3, <1>4, <1>6, <1>7, <1>8
     DEF StoreStep, S!Write, S!StopSweep, store

-----------------------------------------------------------------------------
(***************************************************************************)
(* It holds when the shim starts.                                          *)
(***************************************************************************)
LEMMA InitIInv == Init => IInv
<1> SUFFICES ASSUME Init PROVE IInv
  OBVIOUS
<1>1. Known
  <2>1. \A h \in history : h.rev = 1 /\ h.key \in Key
    BY DEF Init, S!Init, S!CreateRecord
  <2> QED
    BY <2>1 DEF Init, S!Init, Known, NewRecordCollector
<1>2. ttlEventKVMap = [k \in Key |-> NoEntry] /\ handler = Idle
  BY DEF Init
<1>3. NoEntry \in Entry /\ NoEntry.expired = FALSE
  BY DEF NoEntry, Entry
<1> QED
  BY <1>1, <1>2, <1>3 DEF IInv, Idle, EntriesScheduled

(***************************************************************************)
(* The steps that leave the entries, the queue and the handler alone: the  *)
(* clients', and the feed's.                                               *)
(***************************************************************************)
LEMMA StepsElsewhere ==
    ASSUME IInv, Known',
           UNCHANGED <<adding, ttlEventKVMap, waiting, ready, handler, lapsed>>
    PROVE  IInv'
  BY DEF IInv, EntriesScheduled

(***************************************************************************)
(* The clients write and compact.                                          *)
(***************************************************************************)
LEMMA ClientIInv == ASSUME IInv, Client PROVE IInv'
<1>1. StoreStep
  BY DEF Client, StoreStep
<1>2. Known'
  BY <1>1, StoreKnown DEF Client, IInv, feed
<1> QED
  BY <1>2, StepsElsewhere DEF Client, queue

(***************************************************************************)
(* The feed lists, watches and hands over: its events are records of the   *)
(* history.                                                                *)
(***************************************************************************)
LEMMA FeedIInv == ASSUME IInv, Feed PROVE IInv'
<1> USE DEF NewRecordCollector
<1>0. Known
  BY DEF IInv
<1>1. CASE ListBatch
  <2>1. UNCHANGED store
    BY <1>1 DEF ListBatch
  <2> DEFINE Page(b) == page \cup {g.rec : g \in b.given}
  <2>2. PICK b \in Batches(records, Request, collector, version) :
           \/ Relist
           \/ EndPage(Page(b), b.next.firstRev)
           \/ page' = Page(b) /\ collector' = b.next /\ UNCHANGED pending
    BY <1>1, Zenon DEF ListBatch
  <2>3. Page(b) \subseteq history /\ b.next.currentRecord \subseteq history
    <3>1. /\ {g.rec : g \in b.given} \subseteq collector.currentRecord \cup records
          /\ b.next.currentRecord \subseteq collector.currentRecord \cup records
      BY BatchFromIndex
    <3> QED
      BY <1>0, <3>1 DEF Known
  <2> HIDE DEF Page
  <2>4. Known'
    <3>1. CASE Relist
      BY <1>0, <2>1, <3>1 DEF Relist, Known, store
    <3>2. CASE EndPage(Page(b), b.next.firstRev)
      BY <1>0, <2>1, <2>3, <3>2 DEF EndPage, Known, store
    <3>3. CASE page' = Page(b) /\ collector' = b.next /\ UNCHANGED pending
      BY <1>0, <2>1, <2>3, <3>3 DEF Known, store
    <3> QED
      BY <2>2, <3>1, <3>2, <3>3
  <2> QED
    BY <1>1, <2>4, StepsElsewhere DEF ListBatch, queue
<1>2. CASE PageFails
  <2>1. Known'
    BY <1>0, <1>2 DEF PageFails, Relist, Known, store
  <2> QED
    BY <1>2, <2>1, StepsElsewhere DEF PageFails, queue
<1>3. CASE NextPage
  <2>1. Known'
    BY <1>0, <1>3 DEF NextPage, Known, store
  <2> QED
    BY <1>3, <2>1, StepsElsewhere DEF NextPage, queue
<1>4. CASE Watch
  <2>1. Known'
    BY <1>0, <1>4 DEF Watch, Relist, Known, store
  <2> QED
    BY <1>4, <2>1, StepsElsewhere DEF Watch, queue
<1>5. CASE WatchEvent
  <2>1. Known'
    BY <1>0, <1>5 DEF WatchEvent, Known, store
  <2> QED
    BY <1>5, <2>1, StepsElsewhere DEF WatchEvent, queue
<1> QED
  BY <1>1, <1>2, <1>3, <1>4, <1>5 DEF Feed

(***************************************************************************)
(* The main loop enters a key and then adds it: between the two it is in   *)
(* adding.                                                                 *)
(***************************************************************************)
LEMMA ReceiveIInv == ASSUME IInv, Receive PROVE IInv'
<1>1. PICK r \in pending :
         /\ pending' = pending \ {r}
         /\ \/ /\ ttlEventKVMap' = [ttlEventKVMap EXCEPT ![r.key] =
                                      [modRevision |-> r.rev, expired |-> FALSE]]
               /\ adding' = {r.key}
            \/ UNCHANGED <<ttlEventKVMap, adding>>
  BY Zenon DEF Receive
<1>2. adding = {} /\ UNCHANGED <<store, collector, page, waiting, ready, handler, lapsed>>
  BY DEF Receive, queue
<1>3. r.key \in Key /\ r.rev \in Nat
  BY DEF IInv, Known
<1>4. Known'
  BY <1>1, <1>2 DEF IInv, Known, store
<1>5. CASE UNCHANGED <<ttlEventKVMap, adding>>
  BY <1>2, <1>4, <1>5, StepsElsewhere
<1>6. CASE /\ ttlEventKVMap' = [ttlEventKVMap EXCEPT ![r.key] =
                                  [modRevision |-> r.rev, expired |-> FALSE]]
           /\ adding' = {r.key}
  <2>1. [modRevision |-> r.rev, expired |-> FALSE] \in Entry
    BY <1>3 DEF Entry
  <2>2. /\ ttlEventKVMap' \in [Key -> Entry]
        /\ ttlEventKVMap'[r.key].expired = FALSE
        /\ \A k \in Key : k # r.key => ttlEventKVMap'[k] = ttlEventKVMap[k]
    BY <1>3, <1>6, <2>1 DEF IInv
  <2>3. EntriesScheduled'
    BY <1>2, <1>6, <2>2 DEF IInv, EntriesScheduled
  <2>4. \A k \in Key : ttlEventKVMap'[k].expired => ttlEventKVMap'[k].modRevision \in lapsed'
    BY <1>2, <2>2 DEF IInv
  <2> QED
    BY <1>2, <1>4, <2>2, <2>3, <2>4 DEF IInv
<1> QED
  BY <1>1, <1>5, <1>6

(***************************************************************************)
(* The key of a stored entry is put into the queue.                        *)
(***************************************************************************)
LEMMA AddAfterIInv == ASSUME IInv, AddAfter PROVE IInv'
<1>1. Known'
  BY DEF IInv, Known, AddAfter, store, feed
<1> QED
  BY <1>1 DEF IInv, AddAfter, EntriesScheduled

(***************************************************************************)
(* A lease runs out.                                                       *)
(***************************************************************************)
LEMMA ExpireIInv == ASSUME IInv, NEW k \in Key, Expire(k) PROVE IInv'
<1>1. Known'
  BY DEF IInv, Known, Expire, store, feed
<1>2. /\ ttlEventKVMap[k] \in Entry /\ ttlEventKVMap[k] # NoEntry
      /\ ttlEventKVMap' = [ttlEventKVMap EXCEPT ![k].expired = TRUE]
      /\ lapsed' = lapsed \cup {ttlEventKVMap[k].modRevision}
      /\ UNCHANGED <<adding, waiting, ready, handler>>
  BY DEF IInv, Expire, queue
<1>3. /\ ttlEventKVMap' \in [Key -> Entry]
      /\ ttlEventKVMap'[k].modRevision = ttlEventKVMap[k].modRevision
      /\ \A j \in Key : j # k => ttlEventKVMap'[j] = ttlEventKVMap[j]
  BY <1>2, Zenon DEF IInv, Entry
<1>4. EntriesScheduled'
  BY <1>2, <1>3 DEF IInv, EntriesScheduled
<1>5. \A j \in Key : ttlEventKVMap'[j].expired => ttlEventKVMap'[j].modRevision \in lapsed'
  BY <1>2, <1>3 DEF IInv
<1> QED
  BY <1>1, <1>2, <1>3, <1>4, <1>5 DEF IInv

(***************************************************************************)
(* The queue makes a key ready.                                            *)
(***************************************************************************)
LEMMA DueIInv == ASSUME IInv, NEW k \in Key, Due(k) PROVE IInv'
<1>1. Known'
  BY DEF IInv, Known, Due, store, feed
<1> QED
  BY <1>1 DEF IInv, Due, EntriesScheduled

(***************************************************************************)
(* The handler: what it takes from the queue has no entry, goes back, or   *)
(* is in its hands until deleteTTLEvent adds it again or drops the entry.  *)
(***************************************************************************)
LEMMA GetIInv == ASSUME IInv, NEW k \in Key, Get(k) PROVE IInv'
<1>1. Known'
  BY DEF IInv, Known, Get, store, feed
<1>2. /\ handler.pc = "get" /\ handler.key = 0 /\ k # 0
      /\ ready' = ready \ {k}
      /\ ttlEventKVMap[k] \in Entry
      /\ UNCHANGED <<adding, ttlEventKVMap, lapsed>>
  BY KeyAssumption DEF IInv, Get
<1>3. CASE ttlEventKVMap[k] = NoEntry /\ UNCHANGED <<waiting, handler>>
  BY <1>1, <1>2, <1>3 DEF IInv, EntriesScheduled
<1>4. CASE waiting' = waiting \cup {k} /\ UNCHANGED handler
  BY <1>1, <1>2, <1>4 DEF IInv, EntriesScheduled
<1>5. CASE /\ ttlEventKVMap[k].expired
           /\ handler' = [pc |-> "delete", key |-> k,
                          modRevision |-> ttlEventKVMap[k].modRevision, err |-> FALSE]
           /\ UNCHANGED waiting
  <2>1. /\ handler' \in [pc : {"get", "delete", "after"}, key : Key \cup {0},
                         modRevision : Nat, err : BOOLEAN]
        /\ handler'.pc = "delete" /\ handler'.key = k
        /\ handler'.modRevision \in lapsed
    BY <1>2, <1>5 DEF IInv, Entry
  <2>2. EntriesScheduled'
    <3> SUFFICES ASSUME NEW j \in Key, ttlEventKVMap[j] # NoEntry
                 PROVE  j \in waiting \cup ready' \cup adding \cup {k}
      BY <1>2, <1>5, <2>1 DEF EntriesScheduled
    <3> QED
      BY <1>2, KeyAssumption DEF IInv, EntriesScheduled
  <2> QED
    BY <1>1, <1>2, <2>1, <2>2 DEF IInv
<1> QED
  BY <1>3, <1>4, <1>5 DEF Get

(***************************************************************************)
(* The call of Delete is a step of the store.                              *)
(***************************************************************************)
LEMMA DeleteIInv == ASSUME IInv, Delete \/ DeleteFails PROVE IInv'
<1>1. /\ handler.pc = "delete" /\ handler.key \in Key
      /\ Guarded(handler.key, handler.modRevision) \/ UNCHANGED store
      /\ UNCHANGED <<collector, page, pending, adding, ttlEventKVMap, waiting,
                     ready, lapsed>>
  BY DEF IInv, Delete, DeleteFails, feed, queue
<1>2. StoreStep
  BY <1>1 DEF Guarded, StoreStep
<1>3. Known'
  BY <1>1, <1>2, StoreKnown DEF IInv
<1>4. /\ handler' \in [pc : {"get", "delete", "after"}, key : Key \cup {0},
                       modRevision : Nat, err : BOOLEAN]
      /\ handler'.pc = "after" /\ handler'.key = handler.key
  BY Zenon DEF IInv, Delete, DeleteFails
<1>5. EntriesScheduled'
  BY <1>1, <1>4 DEF IInv, EntriesScheduled
<1> QED
  BY <1>1, <1>3, <1>4, <1>5 DEF IInv

(***************************************************************************)
(* After the call: the entry is dropped, or its key is queued again.       *)
(***************************************************************************)
LEMMA AfterDeleteIInv == ASSUME IInv, AfterDelete PROVE IInv'
<1>1. Known'
  BY DEF IInv, Known, AfterDelete, store, feed
<1>2. handler' = Idle /\ UNCHANGED <<adding, ready, lapsed>>
  BY DEF AfterDelete
<1>3. CASE waiting' = waiting \cup {handler.key} /\ UNCHANGED ttlEventKVMap
  BY <1>1, <1>2, <1>3 DEF IInv, EntriesScheduled, Idle
<1>4. CASE /\ ttlEventKVMap' = [ttlEventKVMap EXCEPT ![handler.key] = NoEntry]
           /\ UNCHANGED waiting
  <2>1. NoEntry \in Entry /\ NoEntry.expired = FALSE
    BY DEF NoEntry, Entry
  <2>2. /\ ttlEventKVMap' \in [Key -> Entry]
        /\ \A k \in Key : ttlEventKVMap'[k] = IF k = handler.key THEN NoEntry
                                                                 ELSE ttlEventKVMap[k]
    BY <1>4, <2>1, Zenon DEF IInv
  <2>3. EntriesScheduled'
    BY <1>2, <1>4, <2>2 DEF IInv, EntriesScheduled
  <2> QED
    BY <1>1, <1>2, <2>1, <2>2, <2>3 DEF IInv, Idle
<1> QED
  BY <1>3, <1>4 DEF AfterDelete

(***************************************************************************)
(* Every step keeps it,                                                    *)
(***************************************************************************)
LEMMA NextIInv == IInv /\ [Next]_vars => IInv'
<1> SUFFICES ASSUME IInv, [Next]_vars PROVE IInv'
  OBVIOUS
<1>1. CASE UNCHANGED vars
  <2>1. Known'
    BY <1>1 DEF IInv, Known, vars, store, feed
  <2> QED
    BY <1>1, <2>1, StepsElsewhere DEF vars, queue
<1> QED
  BY <1>1, ClientIInv, FeedIInv, ReceiveIInv, AddAfterIInv, ExpireIInv, DueIInv,
     GetIInv, DeleteIInv, AfterDeleteIInv DEF Next, Handler

(***************************************************************************)
(* and so the TTL feed, queue and handler of fdb_ttl.go always satisfy it. *)
(***************************************************************************)
THEOREM Invariance == Spec => []IInv
  BY InitIInv, NextIInv, PTL DEF Spec

(***************************************************************************)
(* No entry of ttlEventKVMap is left without an appointment, whatever the  *)
(* interleaving of the main loop, the handler and the failing deletes.     *)
(***************************************************************************)
THEOREM NoEntryStranded == Spec => []EntriesScheduled
<1>1. IInv => EntriesScheduled
  BY DEF IInv
<1> QED
  BY <1>1, Invariance, PTL

(***************************************************************************)
(* deleteTTLEvent deletes only records whose own lease has run out.        *)
(***************************************************************************)
THEOREM NoLeaseCutShort == Spec => NeverEarly
<1> DEFINE A == \A h \in history' \ history :
                   handler.pc = "delete" /\ handler'.pc = "after"
                      => h.prevRevision \in lapsed
<1>1. ASSUME IInv, [Next]_vars PROVE [A]_vars
  <2> SUFFICES ASSUME Next, NEW h \in history' \ history,
                      handler.pc = "delete", handler'.pc = "after"
               PROVE  h.prevRevision \in lapsed
    BY <1>1
  <2>1. Guarded(handler.key, handler.modRevision) \/ UNCHANGED store
    <3>1. CASE Delete \/ DeleteFails
      BY <3>1 DEF Delete, DeleteFails
    <3>2. CASE UNCHANGED handler
      BY <3>2
    <3> QED
      BY <3>1, <3>2 DEF Next, Client, Feed, ListBatch, PageFails, NextPage, Watch,
           WatchEvent, Receive, AddAfter, Expire, Due, Handler, Get, AfterDelete
  <2>2. PICK r \in Live(handler.key) : r.rev = handler.modRevision
    BY <2>1 DEF Guarded, store
  <2>3. S!Delete(handler.key)
    BY <2>1, <2>2 DEF Guarded, store
  <2>4. PICK p \in S!GetLast(handler.key) : h = S!DeleteRecord(version + 1, p)
    BY <2>3 DEF S!Delete, S!AppendRecord
  <2>5. p \in history /\ r \in history /\ p.rev <= r.rev /\ r.rev <= p.rev
    BY <1>1, <2>2, <2>4 DEF Live, S!GetLast, S!Newest, IInv, Known
  <2>6. p.rev = r.rev
    BY <1>1, <2>5 DEF IInv, Known
  <2>7. h.prevRevision = p.rev
    BY <2>4 DEF S!DeleteRecord
  <2> QED
    BY <1>1, <2>2, <2>6, <2>7 DEF IInv
<1> QED
  BY <1>1, Invariance, PTL DEF Spec, NeverEarly

-----------------------------------------------------------------------------
(***************************************************************************)
(* What is used of the store: the inductive invariant of Mvcc, and that    *)
(* compaction cannot be seen from the current revision.                    *)
(***************************************************************************)
Sound == S!IInv /\ S!CompactionInvisible

IndexIsOK == IndexOK(version, history, records)

StoreEvolves == Evolves(version, history, records, version', history', records')

LEMMA StoreIsOK == ASSUME Sound PROVE IndexIsOK
  BY KeyAssumption, Zenon
     DEF Sound, S!IInv, S!TypeOK, S!RevisionsUnique, S!Record, IndexIsOK, IndexOK

(***************************************************************************)
(* The live records, in terms of the history, which compaction does not    *)
(* change.                                                                 *)
(***************************************************************************)
Alive(r) ==
    ~r.isDelete /\ \A h \in history : h.key = r.key => h.rev <= r.rev

LEMMA AliveIsLive ==
    ASSUME Sound, NEW k, NEW r
    PROVE  r \in Live(k) <=> r \in history /\ r.key = k /\ Alive(r)
<1>1. /\ \A h \in history : h.rev \in Nat /\ h.rev <= version
      /\ records \subseteq history
  BY DEF Sound, S!IInv, S!TypeOK, S!RevisionsUnique, S!Record
<1>2. S!View(records, version) = S!View(history, version)
  BY DEF Sound, S!CompactionInvisible
<1>3. {s \in records : s.rev <= version} = records
      /\ {s \in history : s.rev <= version} = history
  BY <1>1
<1>4. r \in records /\ r \in S!Newest(records, r.key) /\ ~r.isDelete
         <=> r \in history /\ r \in S!Newest(history, r.key) /\ ~r.isDelete
  BY <1>2, <1>3 DEF S!View
<1> QED
  BY <1>4 DEF Live, S!GetLast, S!Newest, Alive

(***************************************************************************)
(* A live record that is not new was live before the step.                 *)
(***************************************************************************)
LEMMA AliveBefore ==
    ASSUME IndexIsOK, StoreEvolves, NEW r \in history', r.rev <= version, Alive(r)'
    PROVE  r \in history /\ Alive(r)
<1>1. r \in history
  BY DEF IndexIsOK, IndexOK, StoreEvolves, Evolves
<1> QED
  BY <1>1 DEF Alive, StoreEvolves, Evolves

-----------------------------------------------------------------------------
(***************************************************************************)
(* What the feed owes: the live records it has told of, by its list or its *)
(* watch, are on record, forgotten, or without a lease.                    *)
(***************************************************************************)
Recorded(r) ==
    \/ r.lease = 0 \/ r.rev \in forgotten \/ r \in pending
    \/ ttlEventKVMap[r.key].modRevision = r.rev

Told(r) ==
    \/ feedPc \in {"list", "send"} /\ r.key <= startKey /\ r.rev < rev
    \/ feedPc = "watch" /\ r.rev < rev
    \/ feedPc = "watching" /\ r.rev <= cursor

(***************************************************************************)
(* The page being read has the live records of the keys it has passed.     *)
(***************************************************************************)
PageRequest(r) ==
    r.key > startKey /\ Passed(collector, r.key)
       /\ InWindow(Request, collector.firstRev, r)

Listing ==
    /\ Scanning(version, history, records, Request, collector)
    /\ collector.firstRev = 0 \/ rev <= collector.firstRev
    /\ collector.count = Cardinality(page)
    /\ \A p \in page : p \in history /\ p.key > startKey /\ Passed(collector, p.key)
    /\ \A r \in history : Alive(r) /\ PageRequest(r) => r \in page

FeedInv ==
    /\ rev \in Nat /\ rev <= version
    /\ cursor \in Nat /\ cursor <= version
    /\ startKey \in Key \cup {0} /\ (rev = 0 => startKey = 0)
    /\ feedPc \in {"list", "send", "watch", "watching"}
    /\ feedPc = "list" => pending = {} /\ Listing
    /\ feedPc = "send" => collector = NewRecordCollector /\ page = {}
    /\ \A r \in history : Alive(r) /\ Told(r) => Recorded(r)

(***************************************************************************)
(* An entry has the revision of a record of its key.                       *)
(***************************************************************************)
EntriesGenuine ==
    \A k \in Key : \/ ttlEventKVMap[k].modRevision = 0
                   \/ \E h \in history :
                         h.key = k /\ h.rev = ttlEventKVMap[k].modRevision

(***************************************************************************)
(* The revision the handler has deleted, without an error, is not live.    *)
(***************************************************************************)
HandlerInv ==
    /\ handler.pc # "get" => handler.key \in Key /\ handler.modRevision <= version
    /\ handler.pc = "after" /\ ~handler.err =>
          \A r \in history : Alive(r) /\ r.key = handler.key
                                => r.rev # handler.modRevision

LeaseInv == FeedInv /\ EntriesGenuine /\ HandlerInv

-----------------------------------------------------------------------------
(***************************************************************************)
(* The steps of the store: what is new has not been told of yet.           *)
(***************************************************************************)
LEMMA StoreFeed ==
    ASSUME IndexIsOK, StoreEvolves, FeedInv, EntriesGenuine,
           UNCHANGED <<feed, ttlEventKVMap, forgotten>>
    PROVE  FeedInv' /\ EntriesGenuine'
<1>1. /\ version \in Nat /\ version' \in Nat /\ version <= version'
      /\ history \subseteq history'
      /\ \A h \in history' : h \in history \/ (h.rev \in Nat /\ h.rev > version)
      /\ \A h \in history : h.rev \in Nat
  BY DEF IndexIsOK, IndexOK, StoreEvolves, Evolves
<1>2. UNCHANGED <<feedPc, rev, startKey, collector, page, pending, cursor,
                  ttlEventKVMap, forgotten>>
  BY DEF feed
<1>3. EntriesGenuine'
  BY <1>1, <1>2 DEF EntriesGenuine
<1>4. \A r \in history' : r.rev \in Nat
  BY <1>1
<1>5. \A r \in history' : Told(r)' => Told(r) /\ r.rev <= version
  BY <1>1, <1>2, <1>4 DEF Told, FeedInv
<1>6. \A r \in history' : Alive(r)' /\ Told(r)' => Recorded(r)'
  <2> SUFFICES ASSUME NEW r \in history', Alive(r)', Told(r)' PROVE Recorded(r)'
    OBVIOUS
  <2>1. r \in history /\ Alive(r) /\ Told(r)
    BY <1>5, AliveBefore
  <2> QED
    BY <1>2, <2>1 DEF FeedInv, Recorded
<1>7. ASSUME Listing PROVE Listing'
  <2>1. Request' = Request
    BY <1>2 DEF Request
  <2>2. RequestOK(Request)
    BY KeyAssumption, PageAssumption, Zenon DEF RequestOK, Request, FeedInv
  <2>3. Scanning(version, history, records, Request, collector)
    BY <1>7 DEF Listing
  <2>4. Scanning(version', history', records', Request, collector)
    BY <2>2, <2>3, StillScanning, Zenon DEF IndexIsOK, StoreEvolves
  <2>5. Scanning(version, history, records, Request, collector)'
    BY <1>2, <2>1, <2>4
  <2>6. \A r : PageRequest(r)' <=> PageRequest(r)
    BY <1>2, <2>1 DEF PageRequest, Passed, InWindow
  <2>7. ASSUME NEW r \in history', Alive(r)', PageRequest(r)' PROVE r \in page
    <3>1. r.rev <= version
      BY <1>1, <1>4, <2>3, <2>6, <2>7 DEF PageRequest, InWindow, Scanning
    <3>2. r \in history /\ Alive(r)
      BY <2>7, <3>1, AliveBefore
    <3> QED
      BY <1>7, <2>6, <2>7, <3>2 DEF Listing
  <2> QED
    BY <1>1, <1>2, <1>7, <2>5, <2>7 DEF Listing, Passed
<1> QED
  BY <1>1, <1>2, <1>3, <1>6, <1>7 DEF FeedInv

-----------------------------------------------------------------------------
(***************************************************************************)
(* A page that is not empty has a last key.                                *)
(***************************************************************************)
LEMMA LastKeyIs ==
    ASSUME NEW P, IsFiniteSet(P), P # {}, \A p \in P : p.key \in Nat
    PROVE  /\ \E p \in P : p.key = LastKey(P)
           /\ \A p \in P : p.key <= LastKey(P)
<1> DEFINE R == OpToRel(<, Nat)
           Above(p) == {s \in P : s.key > p.key}
           N == {Cardinality(Above(p)) : p \in P}
<1>1. \A p \in P : IsFiniteSet(Above(p)) /\ Cardinality(Above(p)) \in Nat
  BY FS_Subset, FS_CardinalityType
<1>2. N \subseteq Nat /\ N # {}
  BY <1>1, Zenon
<1>3. PICK d \in N : \A e \in N : ~(<<e, d>> \in R)
  <2>1. IsWellFoundedOn(R, Nat)
    BY NatLessThanWellFounded, Zenon
  <2> HIDE DEF R, N
  <2> QED BY <1>2, <2>1, WFMin, Zenon
<1>4. \A e \in N : ~(e < d)
  <2> HIDE DEF N
  <2> QED BY <1>2, <1>3, Zenon DEF OpToRel
<1>5. PICK p \in P : d = Cardinality(Above(p))
  OBVIOUS
<1>6. ASSUME NEW s \in P, ~(s.key <= p.key) PROVE FALSE
  <2>1. s \in Above(p) /\ s \notin Above(s) /\ Above(s) \in SUBSET Above(p)
    BY <1>6
  <2>2. Above(s) # Above(p)
    BY <2>1
  <2>3. /\ Cardinality(Above(s)) <= Cardinality(Above(p))
        /\ Cardinality(Above(p)) = Cardinality(Above(s)) => Above(p) = Above(s)
    <3>1. IsFiniteSet(Above(p))
      BY <1>1
    <3> HIDE DEF Above
    <3> QED BY <2>1, <3>1, FS_Subset
  <2>4. Cardinality(Above(s)) < Cardinality(Above(p))
    <3>1. Cardinality(Above(s)) \in Nat /\ Cardinality(Above(p)) \in Nat
      BY <1>1, Zenon
    <3> HIDE DEF Above
    <3> QED BY <2>2, <2>3, <3>1
  <2>5. Cardinality(Above(s)) \in N
    BY Zenon
  <2> HIDE DEF N, Above
  <2> QED
    BY <1>4, <1>5, <2>4, <2>5
<1>7. \E k \in {r.key : r \in P} : \A r \in P : r.key <= k
  BY <1>6
<1>8. LastKey(P) \in {r.key : r \in P} /\ \A r \in P : r.key <= LastKey(P)
  BY <1>7 DEF LastKey
<1> QED
  BY <1>8

-----------------------------------------------------------------------------
(***************************************************************************)
(* A page of the list.                                                     *)
(***************************************************************************)
PageAfter(b) == page \cup {g.rec : g \in b.given}

Untold(r) == r.key \in Request.keys /\ InWindow(Request, Window(version, collector), r)

LEMMA RequestIsOK == ASSUME FeedInv PROVE RequestOK(Request)
  BY KeyAssumption, PageAssumption, Zenon DEF RequestOK, Request, FeedInv

LEMMA AliveIsStored ==
    ASSUME Sound, NEW r \in history, Alive(r) PROVE r \in records
  BY AliveIsLive DEF Live, S!GetLast, S!Newest

(***************************************************************************)
(* What the page holds after a batch.                                      *)
(***************************************************************************)
LEMMA BatchPage ==
    ASSUME Sound, IndexIsOK, FeedInv, feedPc = "list", NEW b, NEW D,
           Finds(version, history, records, Request, collector, b, D),
           Leaves(version, history, records, Request, collector, b, D)
    PROVE  /\ IsFiniteSet(PageAfter(b)) /\ Cardinality(PageAfter(b)) = b.next.count
           /\ b.next.count = collector.count + Cardinality(b.given)
           /\ collector.count \in Nat /\ Cardinality(b.given) \in Nat
           /\ \A p \in PageAfter(b) : p \in history /\ p.key > startKey
           /\ \A r \in history : Alive(r) /\ Untold(r) /\ r.key \in D
                                    => r \in PageAfter(b)
<1>1. Listing
  BY DEF FeedInv
<1>2. IsFiniteSet(history)
  BY HistoryFinite DEF IndexIsOK
<1>3. Names(history, b.given)
  BY ZenonT(30) DEF Finds, Names
<1>4. /\ page \in SUBSET history
      /\ \A p \in page, g \in b.given : p # g.rec
  BY <1>1, ZenonT(30) DEF Listing, Finds
<1>5. /\ IsFiniteSet(PageAfter(b)) /\ Cardinality(page) \in Nat
      /\ Cardinality(PageAfter(b)) = Cardinality(page) + Cardinality(b.given)
  BY <1>2, <1>3, <1>4, NamedCount, Zenon DEF PageAfter
<1>6. /\ collector.count = Cardinality(page) /\ Cardinality(b.given) \in Nat
      /\ b.next.count = collector.count + Cardinality(b.given)
  <2>1. Cardinality(b.given) \in Nat
    BY FS_CardinalityType, ZenonT(30) DEF Leaves
  <2> QED
    BY <1>1, <2>1, ZenonT(30) DEF Listing, Leaves
<1>7. \A p \in PageAfter(b) : p \in history /\ p.key > startKey
  <2>1. \A p \in page : p \in history /\ p.key > startKey
    BY <1>1, Zenon DEF Listing
  <2>2. \A g \in b.given : g.rec \in history /\ g.rec.key \in Request.keys
    BY Zenon DEF Finds
  <2>3. \A k \in Request.keys : k > startKey
    BY Zenon DEF Request
  <2> QED
    BY <2>1, <2>2, <2>3, Zenon DEF PageAfter
<1>8. ASSUME NEW r \in history, Alive(r), Untold(r), r.key \in D
      PROVE  r \in PageAfter(b)
  <2>1. CASE Passed(collector, r.key)
    <3>1. collector.firstRev # 0
      BY <1>1, <2>1 DEF Passed, Listing, Scanning
    <3>2. PageRequest(r)
      BY <1>8, <2>1, <3>1 DEF PageRequest, Untold, Request, Window
    <3> QED
      BY <1>1, <1>8, <3>2 DEF Listing, PageAfter
  <2>2. CASE ~Passed(collector, r.key)
    <3>1. r \in records
      BY <1>8, AliveIsStored
    <3>2. ~r.isDelete /\ \A h \in history : h.key = r.key => h.rev <= r.rev
      BY <1>8 DEF Alive
    <3>3. \E g \in b.given : g.rec = r
      BY <1>8, <2>2, <3>1, <3>2 DEF Finds, Untold
    <3> QED
      BY <3>3 DEF PageAfter
  <2> QED
    BY <2>1, <2>2
<1> QED
  BY <1>5, <1>6, <1>7, <1>8

(***************************************************************************)
(* A page that is complete leaves nothing out up to its last key, but for  *)
(* that key when the page is longer than its limit.                        *)
(***************************************************************************)
LEMMA CompletePage ==
    ASSUME Sound, IndexIsOK, FeedInv, feedPc = "list", NEW b, NEW D, b.isLast,
           Finds(version, history, records, Request, collector, b, D),
           Leaves(version, history, records, Request, collector, b, D),
           NEW r \in history, Alive(r), Untold(r), r \notin PageAfter(b)
    PROVE  /\ PageAfter(b) # {}
           /\ \/ r.key > LastKey(PageAfter(b))
              \/ r.key = LastKey(PageAfter(b)) /\ Cardinality(PageAfter(b)) > PageSize
<1> DEFINE P == PageAfter(b)
           G == {g \in b.given : g.rec.key \in D}
<1>1. /\ IsFiniteSet(P) /\ Cardinality(P) = b.next.count
      /\ b.next.count = collector.count + Cardinality(b.given)
      /\ collector.count \in Nat /\ Cardinality(b.given) \in Nat
      /\ \A p \in P : p \in history /\ p.key > startKey
  BY BatchPage
<1>2. r.key \notin D
  BY BatchPage
<1>3. \A h \in history : h.key \in Nat
  BY DEF IndexIsOK, IndexOK
<1>4. /\ collector.count + Cardinality(G) >= PageSize
      /\ \E m \in Nat : /\ D = {k \in Request.keys : k < m}
                        /\ \A g \in b.given : g.rec.key <= m
  BY <1>2, Zenon DEF Leaves, Untold, Request
<1>5. PICK m \in Nat : /\ D = {k \in Request.keys : k < m}
                       /\ \A g \in b.given : g.rec.key <= m
  BY <1>4, Zenon
<1>6. r.key >= m
  BY <1>2, <1>3, <1>5 DEF Untold
<1>7. G \in SUBSET b.given /\ IsFiniteSet(b.given)
  BY DEF Leaves
<1>8. Cardinality(G) \in Nat /\ Cardinality(G) <= Cardinality(b.given)
      /\ (Cardinality(b.given) = Cardinality(G) => b.given = G)
  <2> HIDE DEF G
  <2> QED BY <1>7, FS_Subset, FS_CardinalityType
<1>9. P # {}
  <2>1. Cardinality(P) >= PageSize /\ PageSize > 0
    <3>1. /\ Cardinality(P) = b.next.count /\ collector.count + Cardinality(G) >= PageSize
          /\ Cardinality(G) \in Nat /\ Cardinality(G) <= Cardinality(b.given)
      BY <1>1, <1>4, <1>8, ZenonT(30)
    <3>2. /\ b.next.count = collector.count + Cardinality(b.given)
          /\ collector.count \in Nat /\ Cardinality(b.given) \in Nat
      BY <1>1, ZenonT(30)
    <3>3. Cardinality(P) >= PageSize
      BY <3>1, <3>2, PageAssumption, SumExceeds, ZenonT(30)
    <3> QED BY <3>3, PageAssumption
  <2>2. Cardinality({}) = 0
    BY FS_EmptySet
  <2> HIDE DEF P
  <2> QED BY <2>1, <2>2, PageAssumption
<1>10. (\E p \in P : p.key = LastKey(P)) /\ \A p \in P : p.key <= LastKey(P)
  <2> HIDE DEF P
  <2> QED BY <1>1, <1>3, <1>9, LastKeyIs
<1>11. PICK q \in P : q.key = LastKey(P)
  BY <1>10
<1>12. \A p \in page : p.key < m
  <2> SUFFICES ASSUME NEW p \in page PROVE p.key < m
    OBVIOUS
  <2>1. p \in history /\ p.key > startKey /\ Passed(collector, p.key)
    BY DEF FeedInv, Listing
  <2>2. p.key \in Key
    BY <2>1 DEF Sound, S!IInv, S!TypeOK, S!Record
  <2>3. p.key \in Request.keys
    BY <2>1, <2>2 DEF Request
  <2> QED
    BY <1>5, <2>1, <2>3 DEF Finds
<1>13. q.key <= m /\ q.key \in Nat
  BY <1>1, <1>3, <1>5, <1>12 DEF PageAfter
<1>14. CASE q.key < m
  BY <1>3, <1>6, <1>9, <1>11, <1>13, <1>14
<1>15. CASE q.key = m
  <2>1. PICK g \in b.given : g.rec = q
    BY <1>12, <1>13, <1>15 DEF PageAfter
  <2>2. g \notin G
    BY <1>5, <1>15, <2>1
  <2>3. Cardinality(G) < Cardinality(b.given)
    <3>1. b.given # G
      BY <2>2
    <3>2. Cardinality(G) # Cardinality(b.given)
      BY <1>8, <3>1, ZenonT(30)
    <3>3. /\ Cardinality(G) \in Nat /\ Cardinality(b.given) \in Nat
          /\ Cardinality(G) <= Cardinality(b.given)
      BY <1>1, <1>8, ZenonT(30)
    <3> QED BY <3>2, <3>3, NatOrder, ZenonT(30)
  <2>4. Cardinality(P) > PageSize
    <3>1. /\ Cardinality(P) = b.next.count /\ collector.count + Cardinality(G) >= PageSize
          /\ Cardinality(G) \in Nat /\ Cardinality(G) < Cardinality(b.given)
      BY <1>1, <1>4, <1>8, <2>3, ZenonT(30)
    <3>2. /\ b.next.count = collector.count + Cardinality(b.given)
          /\ collector.count \in Nat /\ Cardinality(b.given) \in Nat
      BY <1>1, ZenonT(30)
    <3> QED BY <3>1, <3>2, PageAssumption, SumExceeds, ZenonT(30)
  <2> QED
    BY <1>3, <1>6, <1>9, <1>11, <1>13, <1>15, <2>4, NatOrder
<1> QED
  BY <1>5, <1>13, <1>14, <1>15, NatOrder, ZenonT(30)

-----------------------------------------------------------------------------
(***************************************************************************)
(* The steps of the feed.                                                  *)
(***************************************************************************)
LEMMA NewPage ==
    ASSUME IndexIsOK, version' = version, history' = history, records' = records,
           collector' = NewRecordCollector, page' = {}
    PROVE  Listing'
<1>1. version \in Nat
  BY DEF IndexIsOK, IndexOK
<1>2. Cardinality({}) = 0
  BY FS_EmptySet
<1>3. /\ collector'.at = {} /\ collector'.currentRecord = {}
      /\ collector'.firstRev = 0 /\ collector'.count = 0
  BY DEF NewRecordCollector
<1>4. \A k : ~Passed(collector', k)
  BY <1>3 DEF Passed
<1>5. Scanning(version', history', records', Request', collector')
  BY <1>1, <1>3 DEF Scanning
<1> QED
  BY <1>2, <1>3, <1>4, <1>5 DEF Listing, PageRequest

KeysKnown == \A h \in history : h.key \in Key /\ h.lease \in Nat /\ h.rev \in Nat

LEMMA KeysAreKnown == ASSUME Sound PROVE KeysKnown
  BY LeaseAssumption, Zenon DEF KeysKnown, Sound, S!IInv, S!TypeOK, S!Record

LEMMA RelistFeed ==
    ASSUME IndexIsOK, KeysKnown, FeedInv, Relist, UNCHANGED store
    PROVE  FeedInv'
<1>1. /\ version' = version /\ history' = history /\ records' = records
      /\ version \in Nat
  BY DEF store, IndexIsOK, IndexOK
<1>2. Listing'
  BY <1>1, NewPage DEF Relist
<1>3. \A r \in history' : ~Told(r)'
  BY <1>1, KeyAssumption DEF Relist, Told, KeysKnown
<1> QED
  BY <1>1, <1>2, <1>3 DEF FeedInv, Relist

(***************************************************************************)
(* What is older than the next page was not told of by the ones before.    *)
(***************************************************************************)
LEMMA UntoldByPage ==
    ASSUME NEW r, r.rev \in Nat, r.key \in Key, r.key > startKey,
           NEW n \in Nat, r.rev < n, n <= Window(version, collector),
           Window(version, collector) \in Nat, rev \in Nat, rev # 0 => n = rev
    PROVE  Untold(r)
<1>1. (rev = 0 \/ r.rev <= rev) /\ r.rev <= Window(version, collector)
  OBVIOUS
<1> QED
  BY <1>1, Zenon DEF Untold, Request, InWindow

(***************************************************************************)
(* A page is complete, or ends the list without an error.                  *)
(***************************************************************************)
PageEnds(b, D) ==
    /\ feedPc = "list"
    /\ Finds(version, history, records, Request, collector, b, D)
    /\ Leaves(version, history, records, Request, collector, b, D)
    /\ IF Compacted(rev) THEN PageAfter(b) = {} ELSE b.isLast
    /\ EndPage(PageAfter(b), b.next.firstRev)
    /\ forgotten' = forgotten \cup PassedOver(PageAfter(b), rev')
                      \cup (IF Compacted(rev) THEN Unlisted ELSE {})
    /\ UNCHANGED <<store, ttlEventKVMap>>

LEMMA EndPageFeed ==
    ASSUME Sound, IndexIsOK, FeedInv, NEW b, NEW D, PageEnds(b, D)
    PROVE  FeedInv'
<1> DEFINE P == PageAfter(b)
           W == Window(version, collector)
<1>a. /\ feedPc = "list" /\ ttlEventKVMap' = ttlEventKVMap
      /\ Finds(version, history, records, Request, collector, b, D)
      /\ Leaves(version, history, records, Request, collector, b, D)
      /\ ~Compacted(rev) => b.isLast
  BY Zenon DEF PageEnds
<1>b. /\ forgotten \subseteq forgotten' /\ PassedOver(P, rev') \subseteq forgotten'
      /\ Compacted(rev) => Unlisted \subseteq forgotten'
  BY Zenon DEF PageEnds
<1>c. /\ rev' = IF rev = 0 THEN b.next.firstRev ELSE rev
      /\ cursor' = cursor /\ page' = {} /\ collector' = NewRecordCollector
  BY Zenon DEF PageEnds, EndPage
<1>1. /\ version' = version /\ history' = history /\ records' = records
      /\ version \in Nat
  BY Zenon DEF PageEnds, store, IndexIsOK, IndexOK
<1>2. /\ W \in Nat /\ W <= version /\ rev \in Nat /\ rev <= W
      /\ b.next.firstRev = W
  <2>1. /\ rev \in Nat /\ rev <= version /\ Listing
        /\ b.next.firstRev = Window(version, collector)
    BY <1>a, Zenon DEF FeedInv, Finds
  <2>2. /\ collector.firstRev \in Nat /\ collector.firstRev <= version
        /\ collector.firstRev = 0 \/ rev <= collector.firstRev
    BY <2>1, Zenon DEF Listing, Scanning
  <2> QED
    BY <1>1, <2>1, <2>2, NatOrder, ZenonT(30) DEF Window
<1>3. rev' \in Nat /\ rev' <= W /\ (rev # 0 => rev' = rev) /\ (rev = 0 => rev' = W)
  <2> HIDE DEF W
  <2> QED
    BY <1>2, <1>c, NatOrder, ZenonT(30)
<1>4. /\ IsFiniteSet(P) /\ \A p \in P : p \in history /\ p.key > startKey
  BY <1>a, BatchPage, Zenon
<1>5. KeysKnown
  BY KeysAreKnown
<1>6. ASSUME P # {}
      PROVE  /\ LastKey(P) \in Key /\ LastKey(P) \in Nat
             /\ feedPc' = "send" /\ startKey' = LastKey(P)
             /\ pending' = {r \in P : r.lease > 0}
  <2>1. \E p \in P : p.key = LastKey(P)
    <3>1. \A p \in P : p.key \in Nat
      BY <1>4, <1>5, KeyAssumption, Zenon DEF KeysKnown
    <3> HIDE DEF P
    <3> QED BY <1>4, <1>6, <3>1, LastKeyIs
  <2>2. LastKey(P) \in Key /\ LastKey(P) \in Nat
    BY <1>4, <1>5, <2>1, KeyAssumption, Zenon DEF KeysKnown
  <2>3. /\ feedPc' = "send" /\ startKey' = LastKey(P)
        /\ pending' = {r \in P : r.lease > 0}
    BY <1>6, Zenon DEF PageEnds, EndPage
  <2> QED
    BY <2>2, <2>3, Zenon
<1>7. P = {} => feedPc' = "watch" /\ startKey' = startKey
  BY Zenon DEF PageEnds, EndPage
<1>8. P # {} => rev' # 0
  <2> SUFFICES ASSUME P # {}, W = 0 PROVE FALSE
    BY <1>2, <1>3
  <2>1. version = 0
    BY DEF Window
  <2>2. PICK p \in P : TRUE
    OBVIOUS
  <2>3. p \in history
    BY <1>4
  <2>4. p.rev > 0 /\ p.rev <= version /\ p.rev \in Nat
    BY <2>3 DEF IndexIsOK, IndexOK
  <2> QED
    BY <2>1, <2>4, NatOrder, ZenonT(30)
<1>9. startKey' \in Key \cup {0} /\ (rev' = 0 => startKey' = 0)
  BY <1>3, <1>6, <1>7, <1>8 DEF FeedInv
<1>10. feedPc' \in {"send", "watch"}
  BY <1>6, <1>7
<1>11. ASSUME NEW r \in history', Alive(r)', Told(r)' PROVE Recorded(r)'
  <2>1. /\ r \in history /\ Alive(r) /\ r.rev \in Nat /\ r.key \in Key /\ r.key \in Nat
        /\ r.rev < rev' /\ r.lease \in Nat /\ r.rev > 0
    BY <1>1, <1>5, <1>10, <1>11, KeyAssumption
       DEF Alive, KeysKnown, Told, IndexIsOK, IndexOK
  <2>2. startKey \in Nat /\ (rev = 0 => startKey = 0) /\ pending = {}
    BY <1>a, KeyAssumption, NatOrder, ZenonT(30) DEF FeedInv
  <2>3. CASE r.key <= startKey
    <3>1. rev # 0
      <4>1. r.key # 0
        BY <2>1, KeyAssumption
      <4>2. ~(r.key <= 0)
        BY <2>1, <4>1, NatOrder, ZenonT(30)
      <4> QED
        BY <2>2, <2>3, <4>2, ZenonT(30)
    <3>2. Told(r)
      BY <1>a, <1>3, <2>1, <2>3, <3>1 DEF Told
    <3>3. Recorded(r)
      BY <2>1, <3>2 DEF FeedInv
    <3> QED
      BY <1>a, <1>b, <2>2, <3>3, Zenon DEF Recorded
  <2>4. CASE r.key > startKey /\ Compacted(rev)
    <3>1. rev # 0
      <4>1. rev > 0
        BY <2>4, Zenon DEF Compacted
      <4> QED
        BY <1>2, <4>1, NatOrder, ZenonT(30)
    <3>2. r.rev \in Unlisted
      BY <1>3, <2>1, <2>4, <3>1, Zenon DEF Unlisted
    <3> QED
      BY <1>b, <2>4, <3>2, Zenon DEF Recorded
  <2>5. CASE r.key > startKey /\ ~Compacted(rev)
    <3>1. Untold(r)
      BY <1>2, <1>3, <2>1, <2>5, UntoldByPage, Zenon
    <3>2. CASE r \in P
      <4>1. pending' = {p \in P : p.lease > 0}
        BY <1>6, <3>2
      <4>2. CASE r.lease = 0
        BY <4>2, Zenon DEF Recorded
      <4>3. CASE r.lease # 0
        <5>1. r.lease > 0
          BY <2>1, <4>3, NatOrder, ZenonT(30)
        <5> QED
          BY <3>2, <4>1, <5>1, Zenon DEF Recorded
      <4> QED
        BY <4>2, <4>3
    <3>3. CASE r \notin P
      <4>1. /\ P # {}
            /\ \/ r.key > LastKey(P)
               \/ r.key = LastKey(P) /\ Cardinality(P) > PageSize
        BY <1>a, <2>1, <2>5, <3>1, <3>3, CompletePage
      <4>2. r.key <= LastKey(P) /\ LastKey(P) \in Nat
        BY <1>6, <1>11, <4>1 DEF Told
      <4>3. r.key = LastKey(P) /\ Cardinality(P) > PageSize
        <5> HIDE DEF P
        <5> QED BY <2>1, <4>1, <4>2, NatOrder, ZenonT(30)
      <4>4. r.rev \in PassedOver(P, rev')
        <5> HIDE DEF P
        <5> QED BY <2>1, <3>3, <4>3, Zenon DEF PassedOver
      <4> QED
        BY <1>b, <4>4, Zenon DEF Recorded
    <3> QED
      BY <3>2, <3>3
  <2> QED
    BY <2>1, <2>2, <2>3, <2>4, <2>5, NatOrder, ZenonT(30)
<1> HIDE DEF P, W
<1> QED
  BY <1>1, <1>2, <1>3, <1>9, <1>c, <1>10, <1>11, Zenon DEF FeedInv

(***************************************************************************)
(* A batch: the list begins anew, the page is complete, or it goes on.     *)
(***************************************************************************)
LEMMA ListBatchFeed ==
    ASSUME Sound, IndexIsOK, FeedInv, ListBatch PROVE FeedInv'
<1>1. feedPc = "list" /\ UNCHANGED <<store, ttlEventKVMap>> /\ Listing
  BY DEF ListBatch, FeedInv
<1>2. PICK b \in Batches(records, Request, collector, version) :
         \/ Relist
         \/ /\ IF Compacted(rev) THEN PageAfter(b) = {} ELSE b.isLast
            /\ EndPage(PageAfter(b), b.next.firstRev)
            /\ forgotten' = forgotten \cup PassedOver(PageAfter(b), rev')
                              \cup (IF Compacted(rev) THEN Unlisted ELSE {})
         \/ /\ ~b.isLast
            /\ page' = PageAfter(b)
            /\ collector' = b.next
            /\ UNCHANGED <<feedPc, rev, startKey, pending, cursor, forgotten>>
  BY Zenon DEF ListBatch, PageAfter
<1>3. RequestOK(Request)
  BY RequestIsOK
<1>4. PICK D : /\ Finds(version, history, records, Request, collector, b, D)
               /\ Leaves(version, history, records, Request, collector, b, D)
  BY <1>1, <1>3, BatchOfScan DEF Listing, IndexIsOK
<1>5. CASE Relist
  BY <1>1, <1>5, KeysAreKnown, RelistFeed
<1>6. CASE /\ IF Compacted(rev) THEN PageAfter(b) = {} ELSE b.isLast
           /\ EndPage(PageAfter(b), b.next.firstRev)
           /\ forgotten' = forgotten \cup PassedOver(PageAfter(b), rev')
                             \cup (IF Compacted(rev) THEN Unlisted ELSE {})
  <2>1. PageEnds(b, D)
    BY <1>1, <1>4, <1>6, Zenon DEF PageEnds
  <2> QED
    BY <2>1, EndPageFeed
<1>7. CASE /\ ~b.isLast
           /\ page' = PageAfter(b)
           /\ collector' = b.next
           /\ UNCHANGED <<feedPc, rev, startKey, pending, cursor, forgotten>>
  <2>1. /\ version' = version /\ history' = history /\ records' = records
        /\ Request' = Request
    BY <1>1, <1>7 DEF store, Request
  <2>2. /\ Scanning(version, history, records, Request, b.next)
        /\ D = {k \in Request.keys : Passed(b.next, k)}
        /\ \A g \in b.given : g.rec.key \in D
    BY <1>4, <1>7, Zenon DEF Leaves
  <2>3. /\ Cardinality(PageAfter(b)) = b.next.count
        /\ \A p \in PageAfter(b) : p \in history /\ p.key > startKey
        /\ \A r \in history : Alive(r) /\ Untold(r) /\ r.key \in D
                                 => r \in PageAfter(b)
    BY <1>1, <1>4, BatchPage, Zenon
  <2>4. /\ b.next.firstRev = Window(version, collector)
        /\ b.next.firstRev = 0 \/ rev <= b.next.firstRev
    BY <1>1, <1>4, Zenon DEF Finds, Window, FeedInv, Listing
  <2>5. \A p \in PageAfter(b) : Passed(b.next, p.key)
    <3> SUFFICES ASSUME NEW p \in page PROVE p.key \in D
      BY <2>2, Zenon DEF PageAfter
    <3>1. p \in history /\ p.key > startKey /\ Passed(collector, p.key)
      BY <1>1 DEF Listing
    <3>2. p.key \in Request.keys
      BY <3>1, KeysAreKnown DEF KeysKnown, Request
    <3> QED
      BY <1>4, <3>1, <3>2, Zenon DEF Finds
  <2>6. ASSUME NEW r \in history, Alive(r), PageRequest(r)' PROVE r \in PageAfter(b)
    <3>1. r.key > startKey /\ Passed(b.next, r.key) /\ InWindow(Request, b.next.firstRev, r)
      BY <1>7, <2>1, <2>6 DEF PageRequest
    <3>2. r.key \in Request.keys
      BY <3>1, KeysAreKnown DEF KeysKnown, Request
    <3> QED
      BY <2>2, <2>3, <2>4, <2>6, <3>1, <3>2, Zenon DEF Untold
  <2>7. \A r : Alive(r)' <=> Alive(r)
    BY <2>1 DEF Alive
  <2>8. Listing'
    BY <1>7, <2>1, <2>2, <2>3, <2>4, <2>5, <2>6, <2>7, Zenon DEF Listing
  <2>9. \A r : (Told(r)' <=> Told(r)) /\ (Recorded(r)' <=> Recorded(r))
    BY <1>1, <1>7, Zenon DEF Told, Recorded
  <2> QED
    BY <1>1, <1>7, <2>1, <2>7, <2>8, <2>9 DEF FeedInv
<1> QED
  BY <1>2, <1>5, <1>6, <1>7

LEMMA PageFailsFeed ==
    ASSUME Sound, IndexIsOK, FeedInv, PageFails PROVE FeedInv'
<1>1. feedPc = "list" /\ UNCHANGED <<store, ttlEventKVMap>> /\ KeysKnown
  BY KeysAreKnown DEF PageFails
<1>2. CASE Relist
  BY <1>1, <1>2, RelistFeed
<1>3. CASE ~Relist
  <2>1. /\ feedPc' = "watch" /\ forgotten' = forgotten \cup Unlisted
        /\ UNCHANGED <<rev, startKey, pending, cursor, version, history>>
    BY <1>1, <1>3 DEF PageFails, store
  <2>2. ASSUME NEW r \in history', Alive(r)', Told(r)' PROVE Recorded(r)'
    <3>1. r \in history /\ Alive(r) /\ r.rev < rev /\ r.key \in Nat
      BY <1>1, <2>1, <2>2, KeyAssumption, Zenon DEF Alive, Told, KeysKnown
    <3>2. CASE r.key <= startKey
      <4>1. Recorded(r)
        BY <1>1, <3>1, <3>2 DEF FeedInv, Told
      <4> QED
        BY <1>1, <2>1, <4>1 DEF Recorded
    <3>3. CASE r.key > startKey
      BY <2>1, <3>1, <3>3 DEF Recorded, Unlisted
    <3> QED
      BY <3>1, <3>2, <3>3, KeyAssumption DEF FeedInv
  <2> QED
    BY <2>1, <2>2 DEF FeedInv
<1> QED
  BY <1>2, <1>3

LEMMA NextPageFeed ==
    ASSUME IndexIsOK, FeedInv, NextPage PROVE FeedInv'
<1>1. /\ feedPc = "send" /\ pending = {} /\ feedPc' = "list"
      /\ UNCHANGED <<version, history, records, rev, startKey, collector, page,
                     pending, cursor, ttlEventKVMap, forgotten>>
  BY DEF NextPage, store
<1>2. Listing'
  BY <1>1, NewPage DEF FeedInv
<1>3. \A r : /\ Alive(r)' <=> Alive(r)
             /\ Told(r)' <=> Told(r)
             /\ Recorded(r)' <=> Recorded(r)
  BY <1>1 DEF Alive, Told, Recorded
<1> QED
  BY <1>1, <1>2, <1>3 DEF FeedInv

(***************************************************************************)
(* The watch begins one below the revision of the list.                    *)
(***************************************************************************)
LEMMA WatchFeed ==
    ASSUME Sound, IndexIsOK, FeedInv, Watch PROVE FeedInv'
<1>1. feedPc = "watch" /\ UNCHANGED <<store, ttlEventKVMap>> /\ KeysKnown
  BY KeysAreKnown DEF Watch
<1>2. CASE Relist
  BY <1>1, <1>2, RelistFeed
<1>3. CASE ~Relist
  <2>1. /\ feedPc' = "watching" /\ cursor' = FromRevision
        /\ UNCHANGED <<version, history, rev, startKey, pending, forgotten>>
    BY <1>1, <1>3 DEF Watch, store
  <2>2. rev \in Nat /\ rev <= version /\ version \in Nat
    BY DEF FeedInv, IndexIsOK, IndexOK
  <2>3. cursor' \in Nat /\ cursor' <= version
    BY <2>1, <2>2 DEF FromRevision
  <2>4. ASSUME NEW r \in history', Alive(r)', Told(r)' PROVE Recorded(r)'
    <3>1. /\ r \in history /\ Alive(r) /\ r.rev <= cursor'
          /\ r.rev \in Nat /\ r.rev > 0
      BY <2>1, <2>4 DEF Alive, Told, IndexIsOK, IndexOK
    <3>2. r.rev < rev
      BY <2>1, <2>2, <3>1 DEF FromRevision
    <3>3. Recorded(r)
      BY <1>1, <3>1, <3>2 DEF FeedInv, Told
    <3> QED
      BY <1>1, <2>1, <3>3 DEF Recorded
  <2> QED
    BY <2>1, <2>3, <2>4 DEF FeedInv
<1> QED
  BY <1>2, <1>3

(***************************************************************************)
(* An event of the watch: no live record is between two of them.           *)
(***************************************************************************)
LEMMA WatchEventFeed ==
    ASSUME Sound, IndexIsOK, FeedInv, WatchEvent PROVE FeedInv'
<1>1. PICK h \in history :
         /\ h.rev > cursor
         /\ \A r \in records : r.rev <= cursor \/ h.rev <= r.rev
         /\ cursor' = h.rev
         /\ pending' = {r \in {h} : r.lease > 0}
  BY DEF WatchEvent
<1>2. /\ feedPc = "watching" /\ pending = {}
      /\ UNCHANGED <<version, history, feedPc, rev, startKey, ttlEventKVMap, forgotten>>
  BY DEF WatchEvent, store
<1>3. KeysKnown /\ h.rev \in Nat /\ h.rev <= version
  BY KeysAreKnown DEF IndexIsOK, IndexOK
<1>4. ASSUME NEW r \in history', Alive(r)', Told(r)' PROVE Recorded(r)'
  <2>1. /\ r \in history /\ Alive(r) /\ r.rev <= h.rev
        /\ r.rev \in Nat /\ r.lease \in Nat
    BY <1>1, <1>2, <1>3, <1>4 DEF Alive, Told, KeysKnown
  <2>2. r \in records
    BY <2>1, AliveIsStored
  <2>3. CASE r.rev <= cursor
    <3>1. Recorded(r)
      BY <1>2, <2>1, <2>3 DEF FeedInv, Told
    <3> QED
      BY <1>2, <3>1 DEF Recorded
  <2>4. CASE h.rev <= r.rev
    <3>1. r = h
      BY <1>3, <2>1, <2>4 DEF IndexIsOK, IndexOK
    <3> QED
      BY <1>1, <2>1, <3>1 DEF Recorded
  <2> QED
    BY <1>1, <2>2, <2>3, <2>4
<1> QED
  BY <1>1, <1>2, <1>3, <1>4 DEF FeedInv

LEMMA FeedFeed == ASSUME Sound, IndexIsOK, FeedInv, Feed PROVE FeedInv'
  BY ListBatchFeed, PageFailsFeed, NextPageFeed, WatchFeed, WatchEventFeed DEF Feed

-----------------------------------------------------------------------------
(***************************************************************************)
(* The main loop enters what it receives, unless it has the same record or *)
(* a newer one.                                                            *)
(***************************************************************************)
LEMMA ReceiveLease ==
    ASSUME IndexIsOK, IInv, FeedInv, EntriesGenuine, Receive
    PROVE  FeedInv' /\ EntriesGenuine'
<1>1. PICK r \in pending :
         /\ pending' = pending \ {r}
         /\ IF IsNews(r)
              THEN ttlEventKVMap' = [ttlEventKVMap EXCEPT ![r.key] =
                                       [modRevision |-> r.rev, expired |-> FALSE]]
              ELSE UNCHANGED ttlEventKVMap
  BY Zenon DEF Receive
<1>2. UNCHANGED <<version, history, feedPc, rev, startKey, collector, page, cursor,
                  forgotten>>
  BY DEF Receive, store
<1>3. /\ r \in history /\ r.key \in Key /\ r.rev \in Nat /\ r.rev > 0
      /\ \A h \in history : h.rev \in Nat /\ h.key \in Key
      /\ \A g, h \in history : g.rev = h.rev => g = h
  BY DEF IInv, Known, IndexIsOK, IndexOK
<1>4. \A k \in Key : ttlEventKVMap[k].modRevision \in Nat
  BY DEF IInv, Entry
<1>5. feedPc # "list"
  BY DEF FeedInv
<1>6. ASSUME IsNews(r)
      PROVE  /\ ttlEventKVMap'[r.key].modRevision = r.rev
             /\ \A k \in Key : k # r.key => ttlEventKVMap'[k] = ttlEventKVMap[k]
  BY <1>1, <1>3, <1>6 DEF IInv
<1>7. EntriesGenuine'
  <2>1. CASE IsNews(r)
    BY <1>2, <1>3, <1>6, <2>1 DEF EntriesGenuine
  <2>2. CASE ~IsNews(r)
    BY <1>1, <1>2, <2>2 DEF EntriesGenuine
  <2> QED
    BY <2>1, <2>2
<1>8. ASSUME NEW q \in history', Alive(q)', Told(q)' PROVE Recorded(q)'
  <2>1. q \in history /\ Alive(q) /\ Told(q) /\ Recorded(q) /\ q.key \in Key
    BY <1>2, <1>3, <1>8 DEF Alive, Told, FeedInv
  <2>2. CASE q = r /\ IsNews(r)
    BY <1>6, <2>2 DEF Recorded
  <2>3. CASE q = r /\ ~IsNews(r)
    <3>1. ~(ttlEventKVMap[q.key].modRevision < q.rev)
      BY <2>1, <2>3 DEF IsNews, Alive
    <3>2. ttlEventKVMap[q.key].modRevision <= q.rev
      <4>1. \/ ttlEventKVMap[q.key].modRevision = 0
            \/ \E h \in history :
                  h.key = q.key /\ h.rev = ttlEventKVMap[q.key].modRevision
        BY <2>1, ZenonT(30) DEF EntriesGenuine
      <4>2. \A h \in history : h.key = q.key => h.rev <= q.rev
        BY <2>1, ZenonT(30) DEF Alive
      <4>3. 0 <= q.rev
        BY <1>3, <2>1
      <4> QED
        BY <4>1, <4>2, <4>3, ZenonT(30)
    <3>3. ttlEventKVMap'[q.key].modRevision = q.rev
      BY <1>1, <1>3, <1>4, <2>1, <2>3, <3>1, <3>2, NatOrder, ZenonT(30)
    <3> QED
      BY <3>3 DEF Recorded
  <2>4. CASE q # r /\ q.key = r.key /\ IsNews(r)
    <3>1. r.rev <= q.rev /\ ttlEventKVMap[q.key].modRevision < r.rev
      BY <1>3, <2>1, <2>4 DEF Alive, IsNews
    <3>2. ttlEventKVMap[q.key].modRevision # q.rev
      BY <1>3, <1>4, <2>1, <3>1
    <3> QED
      BY <1>1, <1>2, <2>1, <2>4, <3>2 DEF Recorded
  <2>5. CASE q # r /\ (q.key # r.key \/ ~IsNews(r))
    <3>1. ttlEventKVMap'[q.key] = ttlEventKVMap[q.key]
      BY <1>1, <1>6, <2>1, <2>5
    <3> QED
      BY <1>1, <1>2, <2>1, <2>5, <3>1 DEF Recorded
  <2> QED
    BY <2>2, <2>3, <2>4, <2>5
<1> QED
  BY <1>2, <1>5, <1>7, <1>8 DEF FeedInv

(***************************************************************************)
(* The steps that only move a key through the queue, or let a lease lapse. *)
(***************************************************************************)
LEMMA QueueLease ==
    ASSUME LeaseInv, UNCHANGED <<store, feed, forgotten>>,
           \A k \in Key : ttlEventKVMap'[k].modRevision = ttlEventKVMap[k].modRevision,
           \A h \in history : h.key \in Key
    PROVE  FeedInv' /\ EntriesGenuine'
<1>1. UNCHANGED <<version, history, records, feedPc, rev, startKey, collector,
                  page, pending, cursor, forgotten>>
  BY DEF store, feed
<1>2. \A r \in history : /\ Alive(r)' <=> Alive(r)
                         /\ Told(r)' <=> Told(r)
                         /\ Recorded(r)' <=> Recorded(r)
  BY <1>1 DEF Alive, Told, Recorded
<1>3. Listing => Listing'
  BY <1>1, <1>2, Zenon DEF Listing, PageRequest, Request
<1>4. FeedInv'
  BY <1>1, <1>2, <1>3 DEF LeaseInv, FeedInv
<1>5. EntriesGenuine'
  BY <1>1 DEF LeaseInv, EntriesGenuine
<1> QED
  BY <1>4, <1>5

(***************************************************************************)
(* The handler takes a key whose entry is of the store.                    *)
(***************************************************************************)
LEMMA GetHandler ==
    ASSUME IndexIsOK, LeaseInv, NEW k \in Key, Get(k) PROVE HandlerInv'
<1>1. UNCHANGED <<version, history>>
  BY DEF Get, store
<1>2. CASE UNCHANGED handler
  BY <1>1, <1>2 DEF Get, LeaseInv, HandlerInv, Alive
<1>3. CASE handler' = [pc |-> "delete", key |-> k,
                       modRevision |-> ttlEventKVMap[k].modRevision, err |-> FALSE]
  <2>1. ttlEventKVMap[k].modRevision = 0
          \/ \E h \in history : h.rev = ttlEventKVMap[k].modRevision
    BY ZenonT(30) DEF LeaseInv, EntriesGenuine
  <2>2. version \in Nat /\ \A h \in history : h.rev <= version
    BY ZenonT(30) DEF IndexIsOK, IndexOK
  <2>3. 0 <= version
    BY <2>2
  <2>4. ttlEventKVMap[k].modRevision <= version
    BY <2>1, <2>2, <2>3, ZenonT(30)
  <2> QED
    BY <1>1, <1>3, <2>4 DEF HandlerInv
<1> QED
  BY <1>2, <1>3 DEF Get

(***************************************************************************)
(* A write, or the delete of the handler, makes no old revision live.      *)
(***************************************************************************)
LEMMA StoreHandler ==
    ASSUME IndexIsOK, IInv, StoreEvolves, HandlerInv, handler' = handler
    PROVE  HandlerInv'
<1>1. /\ version \in Nat /\ version' \in Nat /\ version <= version'
      /\ handler.modRevision \in Nat
      /\ \A h \in history' : h \in history \/ (h.rev \in Nat /\ h.rev > version)
      /\ \A h \in history : h.rev \in Nat /\ h.rev <= version
  BY DEF IndexIsOK, IndexOK, StoreEvolves, Evolves, IInv
<1>2. ASSUME handler.pc = "after", ~handler.err,
             NEW r \in history', Alive(r)', r.key = handler.key
      PROVE  r.rev # handler.modRevision
  <2>1. CASE r \in history
    <3>1. Alive(r)
      BY <1>1, <1>2, <2>1, AliveBefore
    <3> QED
      BY <1>2, <2>1, <3>1 DEF HandlerInv
  <2>2. CASE r.rev \in Nat /\ r.rev > version
    BY <1>1, <1>2, <2>2 DEF HandlerInv
  <2> QED
    BY <1>1, <2>1, <2>2
<1> QED
  BY <1>1, <1>2 DEF HandlerInv

LEMMA DeleteHandler ==
    ASSUME Sound, IndexIsOK, IInv, StoreEvolves, HandlerInv, Delete \/ DeleteFails
    PROVE  HandlerInv'
<1>1. /\ handler.pc = "delete" /\ handler.key \in Key /\ handler.modRevision \in Nat
      /\ handler.modRevision <= version /\ version \in Nat
      /\ \A h \in history : h.rev \in Nat /\ h.rev <= version
      /\ version' \in Nat /\ version <= version'
  BY DEF HandlerInv, Delete, DeleteFails, IInv, IndexIsOK, IndexOK, StoreEvolves, Evolves
<1>2. /\ handler'.pc = "after" /\ handler'.key = handler.key
      /\ handler'.modRevision = handler.modRevision
      /\ ~handler'.err => Guarded(handler.key, handler.modRevision)
  BY Zenon DEF Delete, DeleteFails, IInv
<1>3. ASSUME Guarded(handler.key, handler.modRevision),
             NEW r \in history', Alive(r)', r.key = handler.key
      PROVE  r.rev # handler.modRevision
  <2>1. CASE \E q \in Live(handler.key) : q.rev = handler.modRevision
    <3>1. S!Delete(handler.key)
      BY <1>3, <2>1 DEF Guarded
    <3>2. PICK p \in S!GetLast(handler.key) :
             history' = history \cup {S!DeleteRecord(version + 1, p)}
      BY <3>1 DEF S!Delete, S!AppendRecord
    <3> DEFINE d == S!DeleteRecord(version + 1, p)
    <3>3. d \in history' /\ d.key = handler.key /\ d.rev = version + 1
      BY <3>2, Zenon DEF S!DeleteRecord, S!GetLast, S!Newest
    <3> HIDE DEF d
    <3>4. version + 1 <= r.rev
      BY <1>3, <3>3 DEF Alive
    <3> QED
      BY <1>1, <3>4
  <2>2. CASE ~ \E q \in Live(handler.key) : q.rev = handler.modRevision
    <3>1. history' = history
      BY <1>3, <2>2 DEF Guarded, store
    <3>2. r \in Live(handler.key)
      BY <1>3, <3>1, AliveIsLive DEF Alive
    <3> QED
      BY <2>2, <3>2
  <2> QED
    BY <2>1, <2>2
<1> QED
  BY <1>1, <1>2, <1>3 DEF HandlerInv

(***************************************************************************)
(* The entry that goes is that of a record that is not live any more, or   *)
(* its revision is counted as forgotten.                                   *)
(***************************************************************************)
LEMMA AfterDeleteLease ==
    ASSUME IInv, LeaseInv, AfterDelete PROVE LeaseInv'
<1>1. UNCHANGED <<version, history, records, feedPc, rev, startKey, collector,
                  page, pending, cursor>>
  BY Zenon DEF AfterDelete, store, feed
<1>2. HandlerInv'
  BY DEF AfterDelete, HandlerInv, Idle
<1>3. \A h \in history : h.key \in Key
  BY DEF IInv, Known
<1>4. CASE handler.err
  <2>1. UNCHANGED <<store, feed, forgotten, ttlEventKVMap>>
    BY <1>4 DEF AfterDelete
  <2> QED
    BY <1>2, <1>3, <2>1, QueueLease DEF LeaseInv
<1>5. CASE ~handler.err
  <2>1. /\ handler.pc = "after" /\ handler.key \in Key
        /\ ttlEventKVMap' = [ttlEventKVMap EXCEPT ![handler.key] = NoEntry]
        /\ forgotten' = forgotten \cup
              ({ttlEventKVMap[handler.key].modRevision} \ {handler.modRevision})
    BY <1>5 DEF AfterDelete, LeaseInv, HandlerInv
  <2>2. /\ ttlEventKVMap'[handler.key].modRevision = 0
        /\ \A k \in Key : k # handler.key => ttlEventKVMap'[k] = ttlEventKVMap[k]
    BY <2>1 DEF IInv, NoEntry
  <2>3. EntriesGenuine'
    BY <1>1, <2>2 DEF LeaseInv, EntriesGenuine
  <2>4. \A r \in history : (Alive(r)' <=> Alive(r)) /\ (Told(r)' <=> Told(r))
    BY <1>1 DEF Alive, Told
  <2>5. ASSUME NEW r \in history, Alive(r), Told(r) PROVE Recorded(r)'
    <3>1. Recorded(r) /\ r.key \in Key
      BY <1>3, <2>5 DEF LeaseInv, FeedInv
    <3>2. CASE r.key = handler.key /\ ttlEventKVMap[r.key].modRevision = r.rev
      <4>1. r.rev # handler.modRevision
        BY <1>5, <2>1, <2>5, <3>2, ZenonT(30) DEF LeaseInv, HandlerInv
      <4> QED
        BY <2>1, <3>2, <4>1 DEF Recorded
    <3>3. CASE r.key # handler.key \/ ttlEventKVMap[r.key].modRevision # r.rev
      BY <1>1, <2>1, <2>2, <3>1, <3>3 DEF Recorded
    <3> QED
      BY <3>2, <3>3
  <2>6. Listing => Listing'
    BY <1>1, <2>4 DEF Listing, PageRequest, Request
  <2>7. FeedInv'
    BY <1>1, <2>4, <2>5, <2>6 DEF LeaseInv, FeedInv
  <2> QED
    BY <1>2, <2>3, <2>7 DEF LeaseInv
<1> QED
  BY <1>4, <1>5

-----------------------------------------------------------------------------
(***************************************************************************)
(* Every step keeps the invariant of the leases.                           *)
(***************************************************************************)
LEMMA NextLease ==
    ASSUME Sound, StoreEvolves, IInv, LeaseInv, [Next]_vars PROVE LeaseInv'
<1>1. IndexIsOK
  BY StoreIsOK
<1>2. \A h \in history : h.key \in Key
  BY DEF IInv, Known
<1>3. FeedInv /\ EntriesGenuine /\ HandlerInv
  BY DEF LeaseInv
<1>4. ASSUME UNCHANGED <<version, history, handler>> PROVE HandlerInv'
  BY <1>3, <1>4, Zenon DEF HandlerInv, Alive
<1>5. CASE Client
  <2>1. UNCHANGED <<feed, ttlEventKVMap, forgotten, handler>>
    BY <1>5 DEF Client
  <2> QED
    BY <1>1, <1>3, <2>1, StoreFeed, StoreHandler DEF LeaseInv
<1>6. CASE Feed
  <2>1. UNCHANGED <<version, history, handler, ttlEventKVMap>>
    BY <1>6, Zenon DEF Feed, ListBatch, PageFails, NextPage, Watch, WatchEvent, store
  <2>2. EntriesGenuine'
    BY <1>3, <2>1 DEF EntriesGenuine
  <2> QED
    BY <1>1, <1>3, <1>4, <1>6, <2>1, <2>2, FeedFeed DEF LeaseInv
<1>7. CASE Receive
  <2>1. UNCHANGED <<version, history, handler>>
    BY <1>7 DEF Receive, store
  <2> QED
    BY <1>1, <1>3, <1>4, <1>7, <2>1, ReceiveLease DEF LeaseInv
<1>8. CASE \/ AddAfter \/ UNCHANGED vars
           \/ \E k \in Key : Expire(k) \/ Due(k) \/ Get(k)
  <2>1. UNCHANGED <<store, feed, forgotten>>
    BY <1>8 DEF AddAfter, vars, Expire, Due, Get
  <2>2. \A k \in Key : ttlEventKVMap'[k].modRevision = ttlEventKVMap[k].modRevision
    <3>1. CASE \E j \in Key : Expire(j)
      <4>1. PICK j \in Key : ttlEventKVMap' = [ttlEventKVMap EXCEPT ![j].expired = TRUE]
        BY <3>1, Zenon DEF Expire
      <4> QED
        BY <4>1 DEF IInv, Entry
    <3>2. CASE UNCHANGED ttlEventKVMap
      BY <3>2
    <3> QED
      BY <1>8, <3>1, <3>2 DEF AddAfter, vars, Due, Get
  <2>3. HandlerInv'
    <3>1. CASE \E k \in Key : Get(k)
      BY <1>1, <3>1, GetHandler
    <3>2. CASE UNCHANGED handler
      BY <1>4, <2>1, <3>2 DEF store
    <3> QED
      BY <1>8, <3>1, <3>2 DEF AddAfter, vars, Expire, Due
  <2> QED
    BY <1>2, <2>1, <2>2, <2>3, QueueLease DEF LeaseInv
<1>9. CASE Delete \/ DeleteFails
  <2>1. UNCHANGED <<feed, ttlEventKVMap, forgotten>>
    BY <1>9 DEF Delete, DeleteFails
  <2> QED
    BY <1>1, <1>3, <1>9, <2>1, StoreFeed, DeleteHandler DEF LeaseInv
<1>10. CASE AfterDelete
  BY <1>10, AfterDeleteLease
<1> QED
  BY <1>5, <1>6, <1>7, <1>8, <1>9, <1>10 DEF Next, Handler

(***************************************************************************)
(* The steps are steps of the store.                                       *)
(***************************************************************************)
LEMMA IsStoreStep ==
    ASSUME IInv, [Next]_vars PROVE [S!Next]_S!vars
<1>1. CASE Client
  <2>1. version \in S!CompactRequests
    BY DEF S!CompactRequests, IInv, Known
  <2> QED
    BY <1>1, <2>1 DEF Client, S!Next, S!Compact
<1>2. CASE Delete \/ DeleteFails
  <2>1. handler.key \in Key
    BY <1>2 DEF IInv, Delete, DeleteFails
  <2> QED
    BY <1>2, <2>1 DEF Delete, DeleteFails, Guarded, S!Next, S!Write, store, S!vars
<1>3. CASE UNCHANGED store
  BY <1>3 DEF store, S!vars
<1> QED
  BY <1>1, <1>2, <1>3 DEF Next, Feed, ListBatch, PageFails, NextPage, Watch,
       WatchEvent, Receive, AddAfter, Expire, Due, Handler, Get, AfterDelete, vars

(***************************************************************************)
(* The leases when the shim starts.                                        *)
(***************************************************************************)
LEMMA InitLease == ASSUME Init, Sound PROVE LeaseInv
<1>1. IndexIsOK
  BY StoreIsOK
<1>2. KeysKnown
  BY KeysAreKnown
<1>3. version \in Nat
  BY <1>1 DEF IndexIsOK, IndexOK
<1>4. Listing
  <2>1. Cardinality({}) = 0
    BY FS_EmptySet
  <2>2. /\ collector.at = {} /\ collector.currentRecord = {}
        /\ collector.firstRev = 0 /\ collector.count = 0 /\ page = {}
    BY DEF Init, NewRecordCollector
  <2>3. \A k : ~Passed(collector, k)
    BY <2>2 DEF Passed
  <2>4. Scanning(version, history, records, Request, collector)
    <3>1. 0 \in Nat /\ 0 <= version
      BY <1>3
    <3> QED
      BY <2>2, <3>1, ZenonT(30) DEF Scanning
  <2> QED
    BY <2>1, <2>2, <2>3, <2>4, Zenon DEF Listing, PageRequest
<1>5. \A r \in history : ~Told(r)
  BY <1>2, KeyAssumption DEF Told, KeysKnown, Init
<1>6. FeedInv
  BY <1>3, <1>4, <1>5 DEF FeedInv, Init
<1>7. EntriesGenuine
  BY DEF EntriesGenuine, Init, NoEntry
<1>8. HandlerInv
  BY DEF HandlerInv, Init, Idle
<1> QED
  BY <1>6, <1>7, <1>8 DEF LeaseInv

(***************************************************************************)
(* What the invariants say of the properties.                              *)
(***************************************************************************)
LEMMA KnownLeases == ASSUME Sound, LeaseInv PROVE LeasesKnown
<1> SUFFICES ASSUME feedPc = "watching", NEW k \in Key, NEW r \in Live(k),
                    ~(r.rev > cursor)
             PROVE  \/ r.lease = 0 \/ r.rev \in forgotten
                    \/ r \in pending
                    \/ ttlEventKVMap[k].modRevision = r.rev
  BY ZenonT(30) DEF LeasesKnown
<1>1. r \in history /\ r.key = k /\ Alive(r)
  BY AliveIsLive
<1>2. r.rev \in Nat /\ cursor \in Nat
  BY <1>1, KeysAreKnown DEF KeysKnown, LeaseInv, FeedInv
<1>3. Told(r)
  BY <1>2 DEF Told
<1> QED
  BY <1>1, <1>3 DEF LeaseInv, FeedInv, Recorded

Types ==
    /\ adding \subseteq Key
    /\ waiting \subseteq Key /\ ready \subseteq Key
    /\ lapsed \subseteq Nat /\ forgotten \subseteq Nat

LEMMA TypesAreOK == ASSUME Sound, IInv, LeaseInv, Types PROVE TypeOK
  BY Zenon DEF Sound, S!IInv, IInv, Known, Entry, LeaseInv, FeedInv, Types, TypeOK

LEMMA NextTypes == ASSUME IInv, LeaseInv, Types, [Next]_vars PROVE Types'
<1>1. /\ \A h \in history : h.rev \in Nat /\ h.key \in Key
      /\ pending \subseteq history
      /\ \A k \in Key : ttlEventKVMap[k].modRevision \in Nat
      /\ handler.pc # "get" => handler.key \in Key
  BY ZenonT(30) DEF IInv, Known, Entry, LeaseInv, HandlerInv
<1>2. forgotten' \subseteq Nat
  <2>1. CASE UNCHANGED forgotten
    BY <2>1 DEF Types
  <2>2. CASE ListBatch \/ PageFails \/ Watch
    <3>1. \A P, n : PassedOver(P, n) \subseteq Nat
      BY <1>1 DEF PassedOver
    <3>2. Unlisted \subseteq Nat
      BY <1>1 DEF Unlisted
    <3>3. \/ forgotten' = {} \/ UNCHANGED forgotten
          \/ \E P, n : forgotten' = forgotten \cup PassedOver(P, n)
                         \cup (IF Compacted(rev) THEN Unlisted ELSE {})
          \/ forgotten' = forgotten \cup Unlisted
      BY <2>2, Zenon DEF ListBatch, PageFails, Watch, Relist
    <3> QED
      BY <3>1, <3>2, <3>3, Zenon DEF Types
  <2>3. CASE AfterDelete
    BY <1>1, <2>3, Zenon DEF AfterDelete, Types
  <2> QED
    BY <2>1, <2>2, <2>3 DEF Next, Client, Feed, NextPage, WatchEvent, Receive,
         AddAfter, Expire, Due, Handler, Get, Delete, DeleteFails, vars
<1>3. lapsed' \subseteq Nat
  BY <1>1, ZenonT(30) DEF Types, Next, Client, Feed, ListBatch, PageFails, NextPage, Watch,
       WatchEvent, Receive, AddAfter, Expire, Due, Handler, Get, Delete, DeleteFails,
       AfterDelete, vars
<1>4. adding' \subseteq Key
  <2>1. CASE Receive
    BY <1>1, <2>1 DEF Receive, Types
  <2> QED
    BY <2>1, Zenon DEF Types, Next, Client, Feed, ListBatch, PageFails, NextPage, Watch,
         WatchEvent, AddAfter, Expire, Due, Handler, Get, Delete, DeleteFails,
         AfterDelete, vars
<1>5. waiting' \subseteq Key /\ ready' \subseteq Key
  <2>1. CASE UNCHANGED <<waiting, ready>>
    BY <2>1 DEF Types
  <2>2. CASE AddAfter \/ AfterDelete
    BY <1>1, <2>2 DEF AddAfter, AfterDelete, Types
  <2>3. CASE \E k \in Key : Due(k) \/ Get(k)
    BY <2>3 DEF Due, Get, Types
  <2> QED
    BY <2>1, <2>2, <2>3 DEF Next, Client, Feed, ListBatch, PageFails, NextPage, Watch,
         WatchEvent, Receive, Expire, Handler, Delete, DeleteFails, vars, queue
<1> QED
  BY <1>2, <1>3, <1>4, <1>5 DEF Types

-----------------------------------------------------------------------------
(***************************************************************************)
(* The store of the shim is that of Mvcc, whose invariant is proved there. *)
(***************************************************************************)
MP == INSTANCE MvccProofs

(***************************************************************************)
(* The same steps,                                                         *)
(***************************************************************************)
LEMMA SameNext == [S!Next]_S!vars <=> [MP!Next]_MP!vars
<1>1. S!Next <=> MP!Next
  BY DEF S!Next, MP!Next, S!Write, MP!Write, S!Compact, MP!Compact,
         S!Tick, MP!Tick, S!Create, MP!Create, S!Update, MP!Update,
         S!Delete, MP!Delete, S!StartSweep, MP!StartSweep,
         S!SweepBatch, MP!SweepBatch, S!StopSweep, MP!StopSweep,
         S!AppendRecord, MP!AppendRecord, S!InRange, MP!InRange, S!Doomed, MP!Doomed,
         S!AfterBatch, MP!AfterBatch, S!GetLast, MP!GetLast,
         S!Newest, MP!Newest, S!CreateRecord, MP!CreateRecord,
         S!UpdateRecord, MP!UpdateRecord, S!DeleteRecord, MP!DeleteRecord,
         S!GetCreateRevision, MP!GetCreateRevision,
         S!CompactRequests, MP!CompactRequests, S!NoRev, MP!NoRev,
         S!NoSweep, MP!NoSweep
<1> QED
  BY <1>1 DEF S!vars, MP!vars

(***************************************************************************)
(* the same initial states,                                                *)
(***************************************************************************)
LEMMA SameInit == S!Init <=> MP!Init
  BY DEF S!Init, MP!Init, S!CreateRecord, MP!CreateRecord, S!NoSweep, MP!NoSweep,
         S!NoRev, MP!NoRev

(***************************************************************************)
(* and the same invariant.                                                 *)
(***************************************************************************)
LEMMA SameInvariant ==
    (S!IInv <=> MP!IInv) /\ (S!CompactionInvisible <=> MP!CompactionInvisible)
<1>1. (S!TypeOK <=> MP!TypeOK) /\ (S!RevisionsUnique <=> MP!RevisionsUnique)
  BY DEF S!TypeOK, MP!TypeOK, S!Record, MP!Record, S!Sweep, MP!Sweep,
         S!RevisionsUnique, MP!RevisionsUnique
<1>2. (S!RemovedNotLive <=> MP!RemovedNotLive)
      /\ (S!RemovedInOrder <=> MP!RemovedInOrder)
  BY DEF S!RemovedNotLive, MP!RemovedNotLive, S!RemovedInOrder, MP!RemovedInOrder
<1>3. (S!SweptClean <=> MP!SweptClean) /\ (S!HistoryChain <=> MP!HistoryChain)
  BY Zenon DEF S!SweptClean, MP!SweptClean, S!HistoryChain, MP!HistoryChain,
         S!Consecutive, MP!Consecutive, S!NoRev, MP!NoRev,
         S!GetCreateRevision, MP!GetCreateRevision
<1>4. S!CompactionInvisible <=> MP!CompactionInvisible
  BY DEF S!CompactionInvisible, MP!CompactionInvisible, S!View, MP!View,
         S!Newest, MP!Newest
<1> QED
  BY <1>1, <1>2, <1>3, <1>4 DEF S!IInv, MP!IInv

LEMMA InitSound == Init => Sound
  BY SameInit, SameInvariant, MP!InitIInv, MP!IInvInvisible, MaxVersionAssumption
     DEF Init, Sound

LEMMA NextSound == Sound /\ IInv /\ [Next]_vars => Sound' /\ StoreEvolves
<1> SUFFICES ASSUME Sound, IInv, [Next]_vars PROVE Sound' /\ StoreEvolves
  OBVIOUS
<1>1. MP!IInv
  BY SameInvariant DEF Sound
<1>2. [MP!Next]_MP!vars
  BY IsStoreStep, SameNext
<1>3. MP!IInv'
  BY <1>1, <1>2, MP!NextIInv, MaxVersionAssumption
<1>4. (MP!IInv => MP!CompactionInvisible)'
  BY MP!IInvInvisible, MaxVersionAssumption, PTL
<1>5. (MP!IInv <=> S!IInv)'
      /\ (S!CompactionInvisible <=> MP!CompactionInvisible)'
  BY SameInvariant, PTL
<1>6. StoreEvolves
  BY <1>1, <1>2, MP!NextGrows, MaxVersionAssumption DEF StoreEvolves, Evolves
<1> QED
  BY <1>3, <1>4, <1>5, <1>6 DEF Sound

(***************************************************************************)
(* The invariants of the store, of the entries and of the leases, together.*)
(***************************************************************************)
LEMMA LeaseInvariance == Spec => [](Sound /\ IInv /\ LeaseInv /\ Types)
<1>1. Init => Sound /\ IInv /\ LeaseInv /\ Types
  <2> SUFFICES ASSUME Init PROVE Sound /\ IInv /\ LeaseInv /\ Types
    OBVIOUS
  <2>1. Types
    BY DEF Init, Types
  <2> QED
    BY <2>1, InitSound, InitIInv, InitLease
<1>2. Sound /\ IInv /\ LeaseInv /\ Types /\ [Next]_vars
         => Sound' /\ IInv' /\ LeaseInv' /\ Types'
  BY NextSound, NextIInv, NextLease, NextTypes
<1> QED
  BY <1>1, <1>2, PTL DEF Spec

(***************************************************************************)
(* For any number of keys, pages, batches, renewals, failures and          *)
(* compactions: list and watch together miss no lease but for the three    *)
(* named causes (ttlEvents, ttl and deleteTTLEvent in fdb_ttl.go).         *)
(***************************************************************************)
THEOREM LeasesAreAlwaysKnown == Spec => []LeasesKnown
<1>1. Sound /\ LeaseInv => LeasesKnown
  BY KnownLeases
<1> QED
  BY <1>1, LeaseInvariance, PTL

(***************************************************************************)
(* The variables keep their types: what the feed holds is of the history,  *)
(* and the queue and the handler hold keys of the store.                   *)
(***************************************************************************)
THEOREM TtlTypeCorrect == Spec => []TypeOK
<1>1. Sound /\ IInv /\ LeaseInv /\ Types => TypeOK
  BY TypesAreOK
<1> QED
  BY <1>1, LeaseInvariance, PTL
=============================================================================
