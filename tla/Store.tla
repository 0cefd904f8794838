-------------------------------- MODULE Store --------------------------------
(***************************************************************************)
(* The driver's write path and its compaction, on the FoundationDB         *)
(* subspaces that hold the data (fdb_write.go, fdb_compact.go,             *)
(* fdb_subspace_*.go), run by the retrying transactions of fdb_util.go.    *)
(*                                                                         *)
(* A call of Create, Update or Delete makes attempts.  An attempt reads    *)
(* the key's last record at a read version and either answers at once or   *)
(* prepares a record; its commit fails on a conflict, succeeds, or ends    *)
(* with an unknown result, whereupon the closure runs again.               *)
(***************************************************************************)
EXTENDS Naturals

CONSTANTS Key, Value, Lease, Compactor, MaxVersion,   \* as in Mvcc
          Client,       \* callers of any shim of the cluster, a call each
          MaxRetry,     \* transactionMaxRetryCount
          NoValue,      \* no chunks in byKeyCurrent
          NoRequest,    \* of a client that has made no call yet
          OldUUID       \* WriteUUID of a record older than byKeyCurrent

UUID == Client \X Nat

ASSUME MaxVersionAssumption == MaxVersion \in Nat
ASSUME MaxRetryAssumption == MaxRetry \in Nat
ASSUME NoValueAssumption == NoValue \notin Value
ASSUME OldUUIDAssumption == OldUUID \notin UUID

VARIABLES version,            \* the last committed FoundationDB version
          byRevision,         \* the records with their values
          byKeyAndRevision,   \* the index: the records with their WriteUUID
          byKeyCurrent,       \* the current value of every live key
          compactRev,         \* the compaction watermark
          watch,              \* the counter the FoundationDB watch is on
          pc,                 \* where each client is in its call
          req,                \* the arguments of its call
          tx,                 \* the variables of its transaction's closure
          retries,            \* the retries of its transaction
          reply,              \* what the call has returned
          appended,           \* the revisions the call has appended (auxiliary)
          sweep,              \* the Compact call each compactor is in
          history             \* every record ever appended (auxiliary)

data == <<version, byRevision, byKeyAndRevision, byKeyCurrent, watch, history>>
client == <<pc, req, tx, retries, reply, appended>>
vars == <<data, compactRev, client, sweep>>

(***************************************************************************)
(* The abstract store: byRevision holds its records.                       *)
(***************************************************************************)
M == INSTANCE Mvcc WITH records <- byRevision

(***************************************************************************)
(* An index entry has the fields of the record, but the value, and the     *)
(* UUID of the attempt that wrote it (recordToTuple of the two subspaces). *)
(***************************************************************************)
IndexRecord == [rev : Nat, key : Key, isCreate : BOOLEAN, isDelete : BOOLEAN,
                lease : Lease, createRevision : Nat, prevRevision : Nat,
                writeUUID : UUID \cup {OldUUID}]

IndexEntry(r, uuid) ==
    [rev |-> r.rev, key |-> r.key,
     isCreate |-> r.isCreate, isDelete |-> r.isDelete, lease |-> r.lease,
     createRevision |-> r.createRevision, prevRevision |-> r.prevRevision,
     writeUUID |-> uuid]

(***************************************************************************)
(* The arguments of a call: revision is 0 for a create, and for a delete   *)
(* of whatever is there; a delete has no value and no lease.               *)
(***************************************************************************)
Request(Rev) ==
    [op : {"create"}, key : Key, value : Value, lease : Lease, revision : {0}]
      \cup
    [op : {"update"}, key : Key, value : Value, lease : Lease,
     revision : Rev \ {0}]
      \cup
    [op : {"delete"}, key : Key, revision : Rev]

(***************************************************************************)
(* A closure's variables.  lastRecord and the record given to append are   *)
(* sets of at most one, {} for nil.                                        *)
(***************************************************************************)
Tx == [lastWriteUUID : UUID, readVersion : Nat,
       last : SUBSET IndexRecord, prepared : SUBSET M!Record]

(***************************************************************************)
(* A refusal is succeeded = false or ErrKeyExists.  kv is the ModRevision  *)
(* of the returned key-value, 0 for nil.                                   *)
(***************************************************************************)
Reply == [answer : {"none", "ok", "refused", "error"}, rev : Nat, kv : Nat]

WatchWidth == 256

TypeOK ==
    /\ version \in Nat
    /\ byRevision \subseteq M!Record
    /\ byKeyAndRevision \subseteq IndexRecord
    /\ byKeyCurrent \in [Key -> Value \cup {NoValue}]
    /\ compactRev \in Nat
    /\ watch \in 0 .. WatchWidth - 1
    /\ pc \in [Client -> {"idle", "attempt", "commit", "done"}]
    /\ req \in [Client -> Request(Nat) \cup {NoRequest}]
    /\ \A c \in Client : pc[c] # "idle" => req[c] \in Request(Nat)
    /\ tx \in [Client -> Tx]
    /\ retries \in [Client -> 0 .. MaxRetry]
    /\ reply \in [Client -> Reply]
    /\ appended \in [Client -> SUBSET Nat]
    /\ sweep \in [Compactor -> M!Sweep]
    /\ history \subseteq M!Record

-----------------------------------------------------------------------------
GetLast(k) == M!Newest(byKeyAndRevision, k)

(***************************************************************************)
(* createUUID: an attempt is told from every other one by its client and   *)
(* its read version, since a client's next attempt after a commit reads    *)
(* that commit.  <<c, 0>> has written nothing.                             *)
(***************************************************************************)
CreateUUID(c, v) == <<c, v>>

NewTx(c) == [lastWriteUUID |-> CreateUUID(c, 0), readVersion |-> 0,
             last |-> {}, prepared |-> {}]

(***************************************************************************)
(* A client calls the driver.                                              *)
(***************************************************************************)
Begin(c, r) ==
    /\ pc[c] = "idle"
    /\ pc' = [pc EXCEPT ![c] = "attempt"]
    /\ req' = [req EXCEPT ![c] = r]
    /\ UNCHANGED <<data, compactRev, tx, retries, reply, appended, sweep>>

(***************************************************************************)
(* The call returns, and the closure's variables are gone.                 *)
(***************************************************************************)
Return(c, answer, rev, kv) ==
    /\ pc' = [pc EXCEPT ![c] = "done"]
    /\ tx' = [tx EXCEPT ![c] = NewTx(c)]
    /\ retries' = [retries EXCEPT ![c] = 0]
    /\ reply' = [reply EXCEPT ![c] =
                   [answer |-> answer, rev |-> rev, kv |-> kv]]
    /\ UNCHANGED req

(***************************************************************************)
(* Definitions named X_... are mutants: X as a plausible bug would have    *)
(* it.  Here: the retry limit is not set.                                  *)
(***************************************************************************)
Retry_Unlimited(c) ==
    /\ pc' = [pc EXCEPT ![c] = "attempt"]
    /\ tx' = [tx EXCEPT ![c] =
                [lastWriteUUID |-> tx[c].lastWriteUUID, readVersion |-> 0,
                 last |-> {}, prepared |-> {}]]
    /\ retries' = [retries EXCEPT ![c] = @ + 1]
    /\ UNCHANGED <<req, reply>>

Retry_Forgets(c) ==   \* lastWriteUUID is declared inside the closure
    /\ retries[c] < MaxRetry
    /\ pc' = [pc EXCEPT ![c] = "attempt"]
    /\ tx' = [tx EXCEPT ![c] = NewTx(c)]
    /\ retries' = [retries EXCEPT ![c] = @ + 1]
    /\ UNCHANGED <<req, reply>>

(***************************************************************************)
(* OnError allows another attempt, which remembers the last UUID only.     *)
(***************************************************************************)
Retry(c) ==
    /\ retries[c] < MaxRetry
    /\ pc' = [pc EXCEPT ![c] = "attempt"]
    /\ tx' = [tx EXCEPT ![c] =
                [lastWriteUUID |-> tx[c].lastWriteUUID, readVersion |-> 0,
                 last |-> {}, prepared |-> {}]]
    /\ retries' = [retries EXCEPT ![c] = @ + 1]
    /\ UNCHANGED <<req, reply>>

Answer(c, answer, rev, kv) ==
    /\ Return(c, answer, rev, kv)
    /\ UNCHANGED <<data, compactRev, appended, sweep>>

(***************************************************************************)
(* The closure has called append, which draws the UUID; the revision is an *)
(* incomplete versionstamp until the commit.                               *)
(***************************************************************************)
Prepare(c, r) ==
    /\ pc' = [pc EXCEPT ![c] = "commit"]
    /\ tx' = [tx EXCEPT ![c] =
                [lastWriteUUID |-> CreateUUID(c, version),
                 readVersion |-> version,
                 last |-> GetLast(req[c].key), prepared |-> {r}]]
    /\ UNCHANGED <<data, compactRev, req, retries, reply, appended, sweep>>

WroteLast_AnyWriter(c, l) == retries[c] > 0   \* a retry compares no UUID

(***************************************************************************)
(* The last record is what an earlier attempt of this call wrote.          *)
(***************************************************************************)
WroteLast(c, l) == l.writeUUID = tx[c].lastWriteUUID

Attempting(c, op) == pc[c] = "attempt" /\ req[c].op = op

CreateAttempt(c) ==
    /\ Attempting(c, "create")
    /\ LET k == req[c].key  v == req[c].value  ttl == req[c].lease IN
       \/ /\ GetLast(k) = {}
          /\ Prepare(c, M!CreateRecord(0, k, v, ttl, M!NoRev))
       \/ \E l \in GetLast(k) :
             \/ /\ l.isCreate /\ WroteLast(c, l)
                /\ Answer(c, "ok", l.rev, 0)
             \/ /\ ~(l.isCreate /\ WroteLast(c, l))
                /\ ~l.isDelete
                /\ Answer(c, "refused", 0, 0)
             \/ /\ l.isDelete
                /\ Prepare(c, M!CreateRecord(0, k, v, ttl, l.rev))

UpdateAttempt_FirstOnly(c) ==   \* a retry does not compare the revision
    /\ Attempting(c, "update")
    /\ \E l \in GetLast(req[c].key) :
          /\ ~l.isDelete
          /\ retries[c] = 0 => l.rev = req[c].revision
          /\ Prepare(c, M!UpdateRecord(0, l, req[c].value, req[c].lease))

UpdateAttempt(c) ==
    /\ Attempting(c, "update")
    /\ LET k == req[c].key  v == req[c].value  ttl == req[c].lease IN
       \/ /\ \A l \in GetLast(k) : l.isDelete
          /\ Answer(c, "refused", version, 0)
       \/ \E l \in GetLast(k) :
             /\ ~l.isDelete
             /\ \/ /\ l.rev # req[c].revision /\ WroteLast(c, l)
                   /\ Answer(c, "ok", l.rev, l.rev)
                \/ /\ l.rev # req[c].revision /\ ~WroteLast(c, l)
                   /\ Answer(c, "refused", version, l.rev)
                \/ /\ l.rev = req[c].revision
                   /\ Prepare(c, M!UpdateRecord(0, l, v, ttl))

DeleteAttempt_Tombstone(c) ==   \* a tombstone is deleted again
    /\ Attempting(c, "delete")
    /\ \E l \in GetLast(req[c].key), r \in byRevision :
          /\ r.rev = l.rev
          /\ req[c].revision \in {0, l.rev}
          /\ Prepare(c, M!DeleteRecord(0, r))

DeleteAttempt(c) ==
    /\ Attempting(c, "delete")
    /\ \/ /\ GetLast(req[c].key) = {}
          /\ Answer(c, "refused", version, 0)
       \/ \E l \in GetLast(req[c].key), r \in byRevision :
             /\ r.rev = l.rev
             /\ \/ /\ l.isDelete /\ WroteLast(c, l)
                   /\ Answer(c, "ok", l.rev, l.rev)
                \/ /\ l.isDelete /\ ~WroteLast(c, l)
                   /\ Answer(c, "refused", version, 0)
                \/ /\ ~l.isDelete
                   /\ req[c].revision \notin {0, l.rev}
                   /\ Answer(c, "refused", version, l.rev)
                \/ /\ ~l.isDelete
                   /\ req[c].revision \in {0, l.rev}
                   /\ Prepare(c, M!DeleteRecord(0, r))

(***************************************************************************)
(* A read of the attempt fails: with an error OnError retries, or not.     *)
(***************************************************************************)
AttemptFails(c) ==
    /\ pc[c] = "attempt"
    /\ Retry(c) \/ Return(c, "error", 0, 0)
    /\ UNCHANGED <<data, compactRev, appended, sweep>>

-----------------------------------------------------------------------------
(***************************************************************************)
(* FoundationDB's conflict check on what getLast has read: the key has a   *)
(* newer record, or the last one has been removed, since the read version. *)
(***************************************************************************)
Conflict(c) ==
    \/ \E h \in history : h.key = req[c].key /\ h.rev > tx[c].readVersion
    \/ GetLast(req[c].key) # tx[c].last

Append_NoClear(r, uuid) ==   \* a delete leaves the current value
    /\ version' = r.rev
    /\ byRevision' = byRevision \cup {r}
    /\ byKeyAndRevision' = byKeyAndRevision \cup {IndexEntry(r, uuid)}
    /\ byKeyCurrent' = IF r.isDelete THEN byKeyCurrent
                         ELSE [byKeyCurrent EXCEPT ![r.key] = r.value]
    /\ watch' = (watch + 1) % WatchWidth
    /\ history' = history \cup {r}

(***************************************************************************)
(* What a committed append changes, at commit version r.rev.               *)
(***************************************************************************)
Append(r, uuid) ==
    /\ version' = r.rev
    /\ byRevision' = byRevision \cup {r}
    /\ byKeyAndRevision' = byKeyAndRevision \cup {IndexEntry(r, uuid)}
    /\ byKeyCurrent' = [byKeyCurrent EXCEPT
                          ![r.key] = IF r.isDelete THEN NoValue ELSE r.value]
    /\ watch' = (watch + 1) % WatchWidth
    /\ history' = history \cup {r}

ModRevision(c, r) == IF req[c].op = "create" THEN 0 ELSE r.rev

(***************************************************************************)
(* The commit goes through.  The caller is told; or the result is unknown, *)
(* and the closure runs again; or the transaction has timed out.           *)
(***************************************************************************)
Commit(c) ==
    /\ pc[c] = "commit"
    /\ version < MaxVersion
    /\ ~Conflict(c)
    /\ \E p \in tx[c].prepared :
          LET r == [p EXCEPT !.rev = version + 1] IN
          /\ Append(r, tx[c].lastWriteUUID)
          /\ appended' = [appended EXCEPT ![c] = @ \cup {r.rev}]
          /\ \/ Return(c, "ok", r.rev, ModRevision(c, r))
             \/ Retry(c)
             \/ Return(c, "error", 0, 0)
    /\ UNCHANGED <<compactRev, sweep>>

(***************************************************************************)
(* Nothing is committed: a conflict, an unknown result, a timeout.         *)
(***************************************************************************)
CommitFails(c) ==
    /\ pc[c] = "commit"
    /\ Retry(c) \/ Return(c, "error", 0, 0)
    /\ UNCHANGED <<data, compactRev, appended, sweep>>

-----------------------------------------------------------------------------
(***************************************************************************)
(* Compact(e), as in Mvcc, on the two subspaces.                           *)
(***************************************************************************)
Compact(p, e) ==
    /\ ~sweep[p].running
    /\ sweep' = [sweep EXCEPT ![p] =
                   [running |-> TRUE, end |-> e, cursor |-> 0]]
    /\ UNCHANGED <<data, compactRev, client>>

Scan_Inclusive(p) ==   \* FirstGreaterOrEqual for FirstGreaterThan
    {r \in byRevision : sweep[p].cursor <= r.rev /\ r.rev <= sweep[p].end}

Scan(p) ==
    {r \in byRevision : sweep[p].cursor < r.rev /\ r.rev <= sweep[p].end}

(***************************************************************************)
(* compactProcessor.next on every record of a batch.  Removing a record    *)
(* does not change what getLast answers for the later ones.                *)
(***************************************************************************)
Removed(batch) ==
    {r \in batch : r.isDelete \/ \E l \in GetLast(r.key) : l.rev # r.rev}

StopSweep(p) == sweep' = [sweep EXCEPT ![p] = M!NoSweep]

NextBatch(p, n) == sweep' = [sweep EXCEPT ![p].cursor = n]

SweepBatch_NoIndex(p) ==   \* byKeyAndRevision.Delete is forgotten
    /\ sweep[p].running
    /\ version < MaxVersion
    /\ \E last \in Scan(p) :
          /\ byRevision' = byRevision \
                              Removed({r \in Scan(p) : r.rev <= last.rev})
          /\ compactRev' = last.rev
          /\ NextBatch(p, last.rev) \/ UNCHANGED sweep \/ StopSweep(p)
    /\ version' = version + 1
    /\ UNCHANGED <<byKeyAndRevision, byKeyCurrent, watch, history, client>>

(***************************************************************************)
(* A batch commits.  It ends where it was split, and another one follows;  *)
(* or its result is unknown, and it runs again; or it ends with the range, *)
(* or has timed out, and the call returns.                                 *)
(***************************************************************************)
SweepBatch(p) ==
    /\ sweep[p].running
    /\ version < MaxVersion
    /\ \E last \in Scan(p) :
          LET gone == Removed({r \in Scan(p) : r.rev <= last.rev}) IN
          /\ byRevision' = byRevision \ gone
          /\ byKeyAndRevision' =
                {i \in byKeyAndRevision :
                   \A r \in gone : r.key # i.key \/ r.rev # i.rev}
          /\ compactRev' = last.rev
          /\ \/ NextBatch(p, last.rev)
             \/ UNCHANGED sweep
             \/ StopSweep(p)
    /\ version' = version + 1
    /\ UNCHANGED <<byKeyCurrent, watch, history, client>>

(***************************************************************************)
(* The call returns after a batch that found nothing or failed.            *)
(***************************************************************************)
SweepReturns(p) ==
    /\ sweep[p].running
    /\ StopSweep(p)
    /\ UNCHANGED <<data, compactRev, client>>

(***************************************************************************)
(* Commits of other users of the cluster.                                  *)
(***************************************************************************)
Tick ==
    /\ version < MaxVersion
    /\ version' = version + 1
    /\ UNCHANGED <<byRevision, byKeyAndRevision, byKeyCurrent, watch, history,
                   compactRev, client, sweep>>

-----------------------------------------------------------------------------
(***************************************************************************)
(* An empty directory, or one with a record written before byKeyCurrent    *)
(* existed.                                                                *)
(***************************************************************************)
Init ==
    /\ version = 1
    /\ \/ byRevision = {}
       \/ \E k \in Key, v \in Value, l \in Lease :
             byRevision = {M!CreateRecord(1, k, v, l, M!NoRev)}
    /\ byKeyAndRevision = {IndexEntry(r, OldUUID) : r \in byRevision}
    /\ byKeyCurrent = [k \in Key |-> NoValue]
    /\ compactRev = 0
    /\ watch = 0
    /\ pc = [c \in Client |-> "idle"]
    /\ req = [c \in Client |-> NoRequest]
    /\ tx = [c \in Client |-> NewTx(c)]
    /\ retries = [c \in Client |-> 0]
    /\ reply = [c \in Client |-> [answer |-> "none", rev |-> 0, kv |-> 0]]
    /\ appended = [c \in Client |-> {}]
    /\ sweep = [p \in Compactor |-> M!NoSweep]
    /\ history = byRevision

(***************************************************************************)
(* Clients name revisions they have been given.                            *)
(***************************************************************************)
Requests == Request(0 .. version)

ClientStep(c) ==
    \/ CreateAttempt(c)
    \/ UpdateAttempt(c)
    \/ DeleteAttempt(c)
    \/ AttemptFails(c)
    \/ Commit(c)
    \/ CommitFails(c)

Next ==
    \/ \E c \in Client : ClientStep(c) \/ \E r \in Requests : Begin(c, r)
    \/ \E p \in Compactor, e \in M!CompactRequests : Compact(p, e)
    \/ \E p \in Compactor : SweepBatch(p) \/ SweepReturns(p)
    \/ Tick

Spec == Init /\ [][Next]_vars

-----------------------------------------------------------------------------
(***************************************************************************)
(* The two subspaces hold the same records, whatever writes and compaction *)
(* batches interleave: Delete (fdb_write.go) and the compaction            *)
(* (fdb_compact.go) dereference, without a test, what they find in one for *)
(* a record of the other.                                                  *)
(***************************************************************************)
SubspacesAgree ==
    /\ \A r \in byRevision : \E i \in byKeyAndRevision :
          i = IndexEntry(r, i.writeUUID)
    /\ \A i \in byKeyAndRevision : \E r \in byRevision :
          i = IndexEntry(r, i.writeUUID)

(***************************************************************************)
(* byKeyCurrent holds, for every key, the value of its last record when    *)
(* that one is live, and nothing otherwise; a record older than the        *)
(* subspace may have no value there yet.  A list takes the values of the   *)
(* latest records from there (listCollector.endBatch).                     *)
(***************************************************************************)
CurrentIsLatest ==
    \A k \in Key :
       /\ GetLast(k) = {} => byKeyCurrent[k] = NoValue
       /\ \A l \in GetLast(k), r \in byRevision : r.rev = l.rev =>
             byKeyCurrent[k] = IF l.isDelete \/ l.writeUUID = OldUUID
                                 THEN NoValue ELSE r.value

(***************************************************************************)
(* A call answered with success has appended a record at the revision it   *)
(* was given, and the record is what it asked for: also when the answer    *)
(* comes from a later attempt that recognised its own UUID.                *)
(***************************************************************************)
Wrote(a, r) ==
    /\ r.key = a.key
    /\ r.isCreate <=> a.op = "create"
    /\ r.isDelete <=> a.op = "delete"
    /\ ~r.isDelete => r.value = a.value /\ r.lease = a.lease

AcknowledgedIsWritten ==
    \A c \in Client : reply[c].answer = "ok" =>
       /\ reply[c].rev \in appended[c]
       /\ \E r \in history : r.rev = reply[c].rev /\ Wrote(req[c], r)

(***************************************************************************)
(* A call that names a revision appends at most once, over all its         *)
(* attempts, and right after that revision.                                *)
(***************************************************************************)
GuardedWritesOnce ==
    \A c \in Client : pc[c] # "idle" /\ req[c].revision # 0 =>
       /\ \A m, n \in appended[c] : m = n
       /\ \A r \in history : r.rev \in appended[c] =>
             r.prevRevision = req[c].revision

(***************************************************************************)
(* A call that appends again has been undone in between, by another call:  *)
(* a Create by a delete, a Delete without a revision by a create.  Two     *)
(* attempts alone never apply a call twice.                                *)
(***************************************************************************)
RewritesWereUndone ==
    \A c \in Client : \A m, n \in appended[c] : m < n =>
       \E h \in history :
          /\ h.key = req[c].key /\ m < h.rev /\ h.rev < n
          /\ h.rev \notin appended[c]
          /\ h.isDelete # (req[c].op = "delete")

(***************************************************************************)
(* A call is not refused because of a record of its own: when the key has  *)
(* a last record, it is not one that an attempt of the call, of unknown    *)
(* result, has written.  This is what the closures compare UUIDs for.      *)
(* Nothing is said where there is no last record: a Delete whose tombstone *)
(* is compacted before its rerun finds nothing, and is refused.            *)
(***************************************************************************)
RefusedWasOvertaken ==
    \A c \in Client : reply[c].answer = "refused" =>
       \A l \in GetLast(req[c].key) : l.rev \notin appended[c]

(***************************************************************************)
(* What the comment on the UUID in Create says, and the code does not      *)
(* keep: a Create call appends at most one record over all its attempts.   *)
(***************************************************************************)
CreateWritesOnce ==
    \A c \in Client : pc[c] # "idle" /\ req[c].op = "create" =>
       \A m, n \in appended[c] : m = n

(***************************************************************************)
(* The store implements the abstract one: every commit is an atomic        *)
(* guarded append or a compaction batch, and everything else a stutter.    *)
(***************************************************************************)
MvccSpec == M!Spec
=============================================================================
