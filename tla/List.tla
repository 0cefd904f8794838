-------------------------------- MODULE List --------------------------------
(***************************************************************************)
(* List and Get (fdb_read.go) over the store of Mvcc, which clients write  *)
(* to and Compact calls thin between the batches of a scan.  byKeyCurrent  *)
(* is kept chunk by chunk, since a list joins the records it has found     *)
(* with those chunks and compares nothing but their length.  The value of  *)
(* a record of Mvcc is its ValueSize here.                                 *)
(***************************************************************************)
EXTENDS Scan, Chunks

CONSTANTS Key, Value, Lease, Compactor, MaxVersion,   \* as in Mvcc
          Requests,   \* the lists asked for: keys, limit and keysOnly
          Pins,       \* the revisions they name, 0 for the current one
          AllSweeps   \* whether every Compact call may start, or only one
                      \* with something to remove

ASSUME MaxVersionAssumption == MaxVersion \in Nat
ASSUME KeyAssumption == Key \subseteq Nat
ASSUME ValueAssumption == Value \subseteq Nat
ASSUME RequestsAssumption ==
    /\ Requests \subseteq [keys : SUBSET Key, limit : Nat, keysOnly : BOOLEAN]
    /\ Pins \subseteq Nat
ASSUME SweepsAssumption == AllSweeps \in BOOLEAN

VARIABLES version, history, records, compactRev, sweep,   \* of Mvcc
          byKeyCurrent,   \* the chunks stored for each key
          pc,             \* where the call is
          req,            \* its arguments
          collector,      \* its recordCollector
          kvs             \* the records found, with their values

store == <<version, history, records, compactRev, sweep>>
call == <<pc, req, collector, kvs>>
vars == <<store, byKeyCurrent, call>>

S == INSTANCE Mvcc

NoRequest == [keys |-> {}, limit |-> 0, keysOnly |-> FALSE, maxRevision |-> 0]

KV == [rec : S!Record, value : SUBSET Chunk]

TypeOK ==
    /\ S!TypeOK
    /\ byKeyCurrent \in [Key -> SUBSET Chunk]
    /\ pc \in {"idle", "scanning", "answered"}
    /\ req.keys \subseteq Key /\ req.limit \in Nat /\ req.maxRevision \in Nat
    /\ req.keysOnly \in BOOLEAN
    /\ collector.at \subseteq S!Record
    /\ collector.currentRecord \subseteq S!Record
    /\ collector.firstRev \in Nat /\ collector.count \in Nat
    /\ kvs \subseteq KV

-----------------------------------------------------------------------------
(***************************************************************************)
(* The writers.  append puts the value into byKeyCurrent in the same       *)
(* transaction: Create over no chunks, Update over those of the last       *)
(* record, whose ValueSize it passes; Delete clears them.                  *)
(***************************************************************************)
Store(k, C) == byKeyCurrent' = [byKeyCurrent EXCEPT ![k] = C]

Create(k, v, l) ==
    /\ S!Create(k, v, l)
    /\ Store(k, Replace(byKeyCurrent[k], v, version + 1, 0))
    /\ UNCHANGED call

Update(k, v, l) ==
    /\ S!Update(k, v, l)
    /\ \E p \in S!GetLast(k) :
          Store(k, Replace(byKeyCurrent[k], v, version + 1, p.value))
    /\ UNCHANGED call

Delete(k) ==
    /\ S!Delete(k)
    /\ Store(k, {})
    /\ UNCHANGED call

(***************************************************************************)
(* A Compact call up to the current revision, which may stop after any     *)
(* batch, and so removes what a call up to any other would.                *)
(***************************************************************************)
Compact ==
    /\ \E p \in Compactor :
          \/ S!StartSweep(p, version)
          \/ S!SweepBatch(p)
          \/ S!StopSweep(p)
    /\ AllSweeps \/ S!SweepMatters
    /\ UNCHANGED <<byKeyCurrent, call>>

-----------------------------------------------------------------------------
Return ==
    /\ pc' = "idle"
    /\ req' = NoRequest
    /\ collector' = NewRecordCollector
    /\ kvs' = {}
    /\ UNCHANGED <<store, byKeyCurrent>>

Begin(rq, n) ==
    /\ pc = "idle"
    /\ pc' = "scanning"
    /\ req' = [keys |-> rq.keys, limit |-> rq.limit, keysOnly |-> rq.keysOnly,
               maxRevision |-> n]
    /\ UNCHANGED <<store, byKeyCurrent, collector, kvs>>

(***************************************************************************)
(* listCollector.endBatch, the values of the records given: an empty one   *)
(* needs no read, a latest one is joined with the chunks of its key when   *)
(* their length fits, any other is fetched from byRevision (fetchLegacy),  *)
(* where it may be missing.                                                *)
(***************************************************************************)
Joined(g) ==
    /\ g.latest
    /\ Length(byKeyCurrent[g.rec.key]) = g.rec.value

Fetchable(g) ==
    req.keysOnly \/ g.rec.value = 0 \/ Joined(g) \/ g.rec \in records

ValueOf(g) ==
    CASE req.keysOnly \/ g.rec.value = 0 -> {}
      [] ~req.keysOnly /\ g.rec.value # 0 /\ Joined(g) ->
            byKeyCurrent[g.rec.key]
      [] OTHER -> Cut(g.rec.value, g.rec.rev)

Compacted == req.maxRevision > 0 /\ req.maxRevision < compactRev

(***************************************************************************)
(* One batch.  The call goes on after a split, fails when a value is       *)
(* missing, the revision is compacted or, at the end, still to come, and   *)
(* answers otherwise.                                                      *)
(***************************************************************************)
Batch ==
    /\ pc = "scanning"
    /\ \E b \in Batches(records, req, collector, version) :
          \/ /\ \A g \in b.given : Fetchable(g)
             /\ ~Compacted
             /\ b.isLast => req.maxRevision <= b.next.firstRev
             /\ pc' = IF b.isLast THEN "answered" ELSE "scanning"
             /\ collector' = b.next
             /\ kvs' = kvs \cup {[rec |-> g.rec, value |-> ValueOf(g)] :
                                   g \in b.given}
             /\ UNCHANGED <<store, byKeyCurrent, req>>
          \/ /\ \/ \E g \in b.given : ~Fetchable(g)
                \/ Compacted
                \/ b.isLast /\ req.maxRevision > b.next.firstRev
             /\ Return

(***************************************************************************)
(* The transaction of a batch fails for good.                              *)
(***************************************************************************)
BatchFails == pc = "scanning" /\ Return

Returned == pc = "answered" /\ Return

-----------------------------------------------------------------------------
(***************************************************************************)
(* The store may hold a record from before byKeyCurrent existed.           *)
(***************************************************************************)
Init ==
    /\ S!Init
    /\ byKeyCurrent \in
         {[k \in Key |-> {}],
          [k \in Key |-> UNION {Cut(r.value, r.rev) : r \in S!GetLast(k)}]}
    /\ pc = "idle"
    /\ req = NoRequest
    /\ collector = NewRecordCollector
    /\ kvs = {}

Write ==
    /\ \/ \E k \in Key, v \in Value, l \in Lease : Create(k, v, l)
       \/ \E k \in Key, v \in Value, l \in Lease : Update(k, v, l)
       \/ \E k \in Key : Delete(k)
    /\ AllSweeps \/ S!SweepMatters

Next ==
    \/ Write
    \/ Compact
    \/ \E rq \in Requests, n \in Pins : Begin(rq, n)
    \/ Batch
    \/ BatchFails
    \/ Returned

Spec == Init /\ [][Next]_vars

-----------------------------------------------------------------------------
(***************************************************************************)
(* byKeyCurrent holds the chunks of the newest record of every live key    *)
(* and no others, after any sequence of writes that grow, shrink, delete   *)
(* and recreate it; a record from before the subspace has none             *)
(* (ByKeyCurrentSubspace.Replace and Clear, called by append).             *)
(***************************************************************************)
CurrentIsCut ==
    \A k \in Key :
       LET live == {r \in S!GetLast(k) : ~r.isDelete}
       IN  \/ byKeyCurrent[k] = UNION {Cut(r.value, r.rev) : r \in live}
           \/ byKeyCurrent[k] = {} /\ \E r \in live : r.rev = 1

(***************************************************************************)
(* The revision an answered list is of.                                    *)
(***************************************************************************)
Revision ==
    IF req.maxRevision # 0 THEN req.maxRevision ELSE collector.firstRev

(***************************************************************************)
(* The records within the limit: the one recordCollector.endBatch may add  *)
(* beyond it is not among them (kine cuts it off).                         *)
(***************************************************************************)
WithinLimit ==
    {x \in kvs :
       \/ req.limit = 0
       \/ Cardinality({y \in kvs : y.rec.key < x.rec.key}) < req.limit}

(***************************************************************************)
(* A list tells no lies: a record it answers with a value was live at the  *)
(* list's revision, and the value is the record's own, whatever is written *)
(* and compacted between the batches of the scan (recordCollector.next,    *)
(* listCollector.endBatch and fetchLegacy).  Records without a value and   *)
(* lists of keys only are not read a second time, and are excepted.        *)
(***************************************************************************)
ListedWereLive ==
    pc = "answered" /\ ~req.keysOnly =>
       \A x \in WithinLimit : x.rec.value > 0 =>
          /\ x.rec \in S!View(history, Revision)
          /\ x.value = Cut(x.rec.value, x.rec.rev)

(***************************************************************************)
(* A list leaves out nothing it could have found: a record in range that   *)
(* was live at the list's revision, and that compaction has not removed    *)
(* since, is in the answer, unless it lies behind a limit that was reached *)
(* (the seam between two batches of processRange, the window and the limit *)
(* of the collectors).                                                     *)
(***************************************************************************)
RetainedAreListed ==
    pc = "answered" =>
       \A r \in S!View(history, Revision) \cap records :
          \/ r.key \notin req.keys
          \/ r \in {x.rec : x \in kvs}
          \/ /\ req.limit # 0
             /\ Cardinality({x \in kvs : x.rec.key <= r.key}) >= req.limit
=============================================================================
