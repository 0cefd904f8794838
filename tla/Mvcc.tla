-------------------------------- MODULE Mvcc --------------------------------
(***************************************************************************)
(* What the driver's storage layer promises: a store of revisioned records *)
(* written by atomic, guarded appends (fdb_write.go) and thinned by a      *)
(* compaction that sweeps the revisions in ascending order, one            *)
(* transaction per batch (fdb_compact.go over processRange of              *)
(* fdb_util.go).  Module Store gives the transactions and the subspaces    *)
(* that implement it; the readers' modules build on this one.              *)
(***************************************************************************)
EXTENDS Naturals

CONSTANTS Key,          \* keys
          Value,        \* values that pass the maxRecordSize check
          Lease,        \* leases (time to live, 0 for none)
          Compactor,    \* concurrent Compact calls
          MaxVersion    \* bound on the FoundationDB commit version

ASSUME MaxVersionAssumption == MaxVersion \in Nat

VARIABLES version,      \* the last committed version, which is the revision
          history,      \* every record ever appended (auxiliary)
          records,      \* the records the store still holds
          compactRev,   \* the compaction watermark, 0 when never written
          sweep         \* the Compact call each compactor is in

vars == <<version, history, records, compactRev, sweep>>

(***************************************************************************)
(* Definitions named X_... are mutants: X as a plausible bug would have    *)
(* it.  No specification uses them.  Here: an incomplete versionstamp read *)
(* back as a signed number.                                                *)
(***************************************************************************)
NoRev_Incomplete == 0 - 1

(***************************************************************************)
(* dummyVersionstamp, which reads back as revision 0.                      *)
(***************************************************************************)
NoRev == 0

Record == [rev : Nat, key : Key, isCreate : BOOLEAN, isDelete : BOOLEAN,
           lease : Lease, value : Value,
           createRevision : Nat, prevRevision : Nat]

Sweep == [running : BOOLEAN, end : Nat, cursor : Nat]

NoSweep == [running |-> FALSE, end |-> 0, cursor |-> 0]

TypeOK ==
    /\ version \in Nat
    /\ history \subseteq Record
    /\ records \subseteq Record
    /\ compactRev \in Nat
    /\ sweep \in [Compactor -> Sweep]

-----------------------------------------------------------------------------
(***************************************************************************)
(* The newest record of key k in S, as a set of at most one record: the    *)
(* reverse range read with limit 1 of getLast, {} standing for nil.        *)
(***************************************************************************)
Newest(S, k) ==
    {r \in S : r.key = k /\ \A s \in S : s.key = k => s.rev <= r.rev}

GetLast(k) == Newest(records, k)

GetCreateRevision(r) == IF r.isCreate THEN r.rev ELSE r.createRevision

(***************************************************************************)
(* The records Create, Update and Delete append at revision n.             *)
(***************************************************************************)
CreateRecord(n, k, v, l, prev) ==
    [rev |-> n, key |-> k, isCreate |-> TRUE, isDelete |-> FALSE,
     lease |-> l, value |-> v,
     createRevision |-> NoRev, prevRevision |-> prev]

UpdateRecord_OwnField(n, p, v, l) ==   \* without GetCreateRevision
    [rev |-> n, key |-> p.key, isCreate |-> FALSE, isDelete |-> FALSE,
     lease |-> l, value |-> v,
     createRevision |-> p.createRevision, prevRevision |-> p.rev]

UpdateRecord(n, p, v, l) ==
    [rev |-> n, key |-> p.key, isCreate |-> FALSE, isDelete |-> FALSE,
     lease |-> l, value |-> v,
     createRevision |-> GetCreateRevision(p), prevRevision |-> p.rev]

DeleteRecord(n, p) ==
    [rev |-> n, key |-> p.key, isCreate |-> FALSE, isDelete |-> TRUE,
     lease |-> p.lease, value |-> p.value,
     createRevision |-> GetCreateRevision(p), prevRevision |-> p.rev]

-----------------------------------------------------------------------------
AppendRecord(r) ==
    /\ version < MaxVersion
    /\ version' = version + 1
    /\ history' = history \cup {r}
    /\ records' = records \cup {r}
    /\ UNCHANGED <<compactRev, sweep>>

(***************************************************************************)
(* A key is created when it has no record, or over its tombstone.          *)
(***************************************************************************)
Create(k, v, l) ==
    \/ /\ GetLast(k) = {}
       /\ AppendRecord(CreateRecord(version + 1, k, v, l, NoRev))
    \/ \E p \in GetLast(k) :
          /\ p.isDelete
          /\ AppendRecord(CreateRecord(version + 1, k, v, l, p.rev))

Update(k, v, l) ==
    \E p \in GetLast(k) :
       /\ ~p.isDelete
       /\ AppendRecord(UpdateRecord(version + 1, p, v, l))

Delete(k) ==
    \E p \in GetLast(k) :
       /\ ~p.isDelete
       /\ AppendRecord(DeleteRecord(version + 1, p))

(***************************************************************************)
(* Other commits of the cluster: the version grows, the store is the same. *)
(***************************************************************************)
Tick ==
    /\ version < MaxVersion
    /\ version' = version + 1
    /\ UNCHANGED <<history, records, compactRev, sweep>>

-----------------------------------------------------------------------------
(***************************************************************************)
(* Compact(e): a sweep of the records up to e, from the oldest.  Callers   *)
(* only know revisions the store has returned, so e is at most version.    *)
(***************************************************************************)
CompactRequests == 0 .. version

StartSweep(p, e) ==
    /\ ~sweep[p].running
    /\ sweep' = [sweep EXCEPT ![p] =
                   [running |-> TRUE, end |-> e, cursor |-> 0]]
    /\ UNCHANGED <<version, history, records, compactRev>>

InRange(p) ==
    {r \in records : sweep[p].cursor < r.rev /\ r.rev <= sweep[p].end}

(***************************************************************************)
(* What a batch removes: the records that are not their key's last one,    *)
(* and the tombstones.                                                     *)
(***************************************************************************)
Doomed(batch) == {r \in batch : r \notin GetLast(r.key) \/ r.isDelete}

(***************************************************************************)
(* The state of the call after a batch that ended at revision n: the batch *)
(* runs again when its commit result was unknown; otherwise the next one   *)
(* follows; the call returns when the range is exhausted, or on an error.  *)
(***************************************************************************)
AfterBatch(p, n) ==
    \/ UNCHANGED sweep
    \/ sweep' = [sweep EXCEPT ![p].cursor = n]
    \/ sweep' = [sweep EXCEPT ![p] = NoSweep]

SweepBatch_Descending(p) ==   \* the range is read in reverse
    /\ sweep[p].running
    /\ version < MaxVersion
    /\ \E last \in InRange(p) :
          /\ records' = records \ Doomed({r \in InRange(p) : r.rev >= last.rev})
          /\ compactRev' = last.rev
          /\ AfterBatch(p, last.rev)
    /\ version' = version + 1
    /\ UNCHANGED history

(***************************************************************************)
(* One committed batch, from the cursor up to the record it was split at   *)
(* or the last one in range.  The watermark becomes that record's          *)
(* revision.                                                               *)
(***************************************************************************)
SweepBatch(p) ==
    /\ sweep[p].running
    /\ version < MaxVersion
    /\ \E last \in InRange(p) :
          /\ records' = records \ Doomed({r \in InRange(p) : r.rev <= last.rev})
          /\ compactRev' = last.rev
          /\ AfterBatch(p, last.rev)
    /\ version' = version + 1
    /\ UNCHANGED history

(***************************************************************************)
(* The call returns: its last batch found nothing, or it failed.           *)
(***************************************************************************)
StopSweep(p) ==
    /\ sweep[p].running
    /\ sweep' = [sweep EXCEPT ![p] = NoSweep]
    /\ UNCHANGED <<version, history, records, compactRev>>

-----------------------------------------------------------------------------
(***************************************************************************)
(* An empty store, or one with a record.                                   *)
(***************************************************************************)
Init ==
    /\ version = 1
    /\ \/ history = {}
       \/ \E k \in Key, v \in Value, l \in Lease :
             history = {CreateRecord(1, k, v, l, NoRev)}
    /\ records = history
    /\ compactRev = 0
    /\ sweep = [p \in Compactor |-> NoSweep]

Write ==
    \/ \E k \in Key, v \in Value, l \in Lease : Create(k, v, l)
    \/ \E k \in Key, v \in Value, l \in Lease : Update(k, v, l)
    \/ \E k \in Key : Delete(k)

Compact ==
    \/ \E p \in Compactor, e \in CompactRequests : StartSweep(p, e)
    \/ \E p \in Compactor : SweepBatch(p)
    \/ \E p \in Compactor : StopSweep(p)

Next == Write \/ Compact \/ Tick

Spec == Init /\ [][Next]_vars

(***************************************************************************)
(* A bound for the components that read the store: a Compact call starts   *)
(* at the current revision, when it has something to remove, and keeps a   *)
(* version below MaxVersion for its next batch.                            *)
(***************************************************************************)
SweepMatters ==
    \A p \in Compactor : sweep'[p].running =>
       \/ ~(records \subseteq records')
       \/ /\ version' < MaxVersion
          /\ \/ sweep[p].running
             \/ sweep'[p].end = version /\ Doomed(records) # {}

-----------------------------------------------------------------------------
(***************************************************************************)
(* The live view of S at revision n: the newest record at or below n of    *)
(* every key, tombstones left out.                                         *)
(***************************************************************************)
View(S, n) ==
    LET upTo == {r \in S : r.rev <= n}
    IN  {r \in upTo : r \in Newest(upTo, r.key) /\ ~r.isDelete}

(***************************************************************************)
(* Compaction is invisible to a read of the current revision: at every     *)
(* moment, between any two batches of any number of Compact calls, the     *)
(* records that survive give the same live keys as the whole history.  In  *)
(* particular no batch removes a live key, and none removes a tombstone    *)
(* while an older record of the key is left to come back to life           *)
(* (compactProcessor.next).                                                *)
(***************************************************************************)
CompactionInvisible == View(records, version) = View(history, version)

(***************************************************************************)
(* A read at any revision, compacted or not, is never wrong about what it  *)
(* shows: it gives the records live at that revision that are left, and no *)
(* older one in the place of one that compaction took.  A read of a        *)
(* revision can only miss keys (compactProcessor.next, in the ascending    *)
(* order of the range).                                                    *)
(***************************************************************************)
PinnedReadsGenuine ==
    \A n \in 0 .. version : View(records, n) = View(history, n) \cap records

(***************************************************************************)
(* p and r are consecutive records of a key.                               *)
(***************************************************************************)
Consecutive(p, r) ==
    /\ p.key = r.key
    /\ p.rev < r.rev
    /\ \A q \in history : q.key = r.key => q.rev <= p.rev \/ r.rev <= q.rev

(***************************************************************************)
(* The history of every key is a chain of lives: the first record creates, *)
(* a record creates exactly when its predecessor is a tombstone, an update *)
(* or a delete names its predecessor as PrevRevision and inherits its      *)
(* CreateRevision, and a create names the tombstone it replaces unless     *)
(* compaction has removed it (the closures of Create, Update and Delete).  *)
(***************************************************************************)
HistoryChain ==
    \A r \in history :
       /\ (\A p \in history : p.key = r.key => r.rev <= p.rev)
             => r.isCreate /\ r.prevRevision = NoRev
       /\ \A p \in history : Consecutive(p, r) =>
             /\ r.isCreate <=> p.isDelete
             /\ r.isCreate => r.prevRevision \in {NoRev, p.rev}
             /\ ~r.isCreate =>
                   /\ r.prevRevision = p.rev
                   /\ r.createRevision = GetCreateRevision(p)

(***************************************************************************)
(* The inductive invariant behind the two properties.  Revisions are those *)
(* of past commits, and no two records share one.                          *)
(***************************************************************************)
RevisionsUnique ==
    /\ records \subseteq history
    /\ \A h \in history : 0 < h.rev /\ h.rev <= version
    /\ \A g, h \in history : g.rev = h.rev => g = h

(***************************************************************************)
(* A removed record is a tombstone or has a successor.                     *)
(***************************************************************************)
RemovedNotLive ==
    \A h \in history \ records :
       h.isDelete \/ \E g \in history : g.key = h.key /\ g.rev > h.rev

(***************************************************************************)
(* The records of a key go in order: a removed one is older than all that  *)
(* are left.                                                               *)
(***************************************************************************)
RemovedInOrder ==
    \A h \in history \ records, r \in records : r.key = h.key => h.rev < r.rev

(***************************************************************************)
(* What a sweep has left behind its cursor has no successor in its range.  *)
(***************************************************************************)
SweptClean ==
    \A p \in Compactor : sweep[p].running =>
       /\ sweep[p].cursor <= sweep[p].end
       /\ sweep[p].end <= version
       /\ \A r \in records : r.rev <= sweep[p].cursor =>
             \A s \in history :
                s.key = r.key /\ s.rev > r.rev => s.rev > sweep[p].end

IInv ==
    /\ TypeOK
    /\ RevisionsUnique
    /\ RemovedNotLive
    /\ RemovedInOrder
    /\ SweptClean
    /\ HistoryChain

(***************************************************************************)
(* What the repository says of compaction and the code does not keep.  A   *)
(* read pinned at a revision above the watermark, which the check of       *)
(* recordCollector.endBatch lets through, sees the live view of that       *)
(* revision.                                                               *)
(***************************************************************************)
PinnedReadsExact ==
    \A n \in compactRev + 1 .. version : View(records, n) = View(history, n)

(***************************************************************************)
(* A watch from a revision the watermark check lets through finds every    *)
(* record from that revision on: what compaction removed is not above the  *)
(* watermark (afterCollector.endBatch).                                    *)
(***************************************************************************)
WatchWindowIntact ==
    \A h \in history : h.rev > compactRev => h \in records
=============================================================================
