# A TLA+ verification of kube-foundationdb

kube-foundationdb is an etcd shim: kine's gRPC front end over a driver
(`pkg/drivers/fdb`) that keeps the API server's keys in FoundationDB. This
directory models the driver in TLA+, checks the models with TLC on small
instances, and proves the main results with TLAPS for all instances.

Paths below are relative to `pkg/drivers/fdb/` unless they say otherwise.

## 1. The system

Any number of shims, each stateless but for its poll loop, share one
FoundationDB cluster. FoundationDB gives strictly serializable optimistic
transactions; the version of a commit is the etcd revision of what it wrote
(`setFirstInBatch` makes it unique). A commit may end with an *unknown result*,
and the client then runs the transaction again.

| Component | State | Operations | Correct when |
|---|---|---|---|
| Write path, `fdb_write.go` | the subspaces | `Create`, `Update`, `Delete`, `append` | a call is atomic and guarded, applied once, and its answer is true |
| Transactions, `fdb_util.go` | retry count, the closure's variables (`lastWriteUUID`) | `transact`, `retryable`; `processRange` and `processBatch` split a long range over transactions | a rerun does not repeat an effect; the batches together do what one transaction would |
| Subspaces, `fdb_subspace_*.go` | `byRevision` (records with values), `byKeyAndRevision` (index with `WriteUUID`), `byKeyCurrent` (value of each live key), the watermark, the watch counter | read, write, clear | the first two hold the same records, the third the values of the live ones |
| Compaction, `fdb_compact.go` | the sweep of a `Compact` call | `Compact`, one transaction per batch | what is left reads as the whole history did |
| Watch, `fdb_watch.go` | the cursor `lastWatchRev`, the FoundationDB watch, `pollKick`, kine's broadcaster, per call the initial read and two channels | `poll`, `Watch`, `innerWatch`, `afterAll`, `afterBatch`, `kickPoll` | events in order, once, none skipped, none forgotten, none lost that the cursor has passed |
| Lists, `fdb_read.go` | collectors over several batches | `List`, `Get`, `CurrentRevision` | one revision's view, whatever runs between the batches |
| Count, `fdb_count.go` | counts per prefix with a seed revision | `Count`, `get`, `seed`, `apply`, `reset` | a tracked count is the number of live keys at the revision applied, and comes to the present one |
| TTL, `fdb_ttl.go` | map of leases, delaying queue | `ttlEvents`, `handleTTLEvents`, `deleteTTLEvent` | a leased key is deleted after its lease ends, and not before |
| Lifecycle and the rest, `fdb.go`, `fdb_config.go`, `fdb_logger.go`, `fdb_wal.go`, `cmd/` | configuration | `Start`, logging, dump | not modelled but for the initial states |

They interact as follows. Writes append to the subspaces in one transaction,
which also adds one to the watch counter; the poll loop of every shim waits on
that counter and, in the writing shim, on `pollKick`. The poll loop hands its
events to the count tracker and to the broadcaster, which copies them to the
subscribed `Watch` calls. TTL is a client of List, Watch and Delete.
Compaction removes records under all of them, and tells readers only through the
watermark.

The hard behaviours: reruns after an unknown commit result, together with other
writers in between; ranges that are read or swept over several transactions;
concurrent compactions; the seam between a watch's initial read and the live
events; lost wakeups; slow subscribers; a scan that seeds a count while the poll
loop applies events to it; a lease renewed while its expiry is under way. `PROJECT.json` lists them one by one as
hazards, at the lines where they bite.

## 2. The modules

```
MvccProofs ──▶ Mvcc ◀──refines── Store ◀── StoreProofs
                ▲
                ├──instance── Watch ◀── WatchProofs
                ├──instance── List  ◀── ListProofs ───┐   List ──▶ Scan, Chunks
                ├──instance── Count ◀── CountEntries ─┤   Count ──▶ Scan
                │                         ▲           │
                │                       CountProofs   │
                └──instance── Ttl   ◀── TtlProofs ────┴─▶ ScanProofs ──▶ Scan
                                                          Ttl ──▶ Scan
                                                          (other arrows: extends)
```

**Mvcc** is what the storage layer promises: a set of records, atomic guarded
appends, and compaction sweeps. It keeps the records that were ever appended
(`history`, auxiliary) beside those the store still holds (`records`). `Create`,
`Update` and `Delete` are the successful outcomes of the calls; `Tick` is any
other commit of the cluster, so that versions have gaps. A compaction sweep is
not atomic even here, since readers can see between its batches: `SweepBatch` is
one committed batch, from the cursor to any record at which `processBatch` may
have been split, after which the batch may run again (unknown result), be
followed by the next, or be the last. One batch is one step because its reads
are ordinary, conflict-checked reads of the transaction that commits it.

**Store** is the implementation. The three subspaces are three variables. A call
takes the steps `Begin`, then one of `CreateAttempt`, `UpdateAttempt`,
`DeleteAttempt` (the closure up to its return or its `append`; its reads are at
one read version), then `Commit` or `CommitFails`. `Conflict` is FoundationDB's
check on what `getLast` has read. A commit may be reported, or lead to a rerun,
or to an error although it took place: that is `commit_unknown_result` with
retries left, and a timeout. Of the closure's variables only `lastWriteUUID`
survives a rerun. A UUID is the pair of the client and the read version of the
attempt, which is unique: the attempt after a commit of the same client reads a
later version.

**Watch** is one shim's watches over an `Mvcc` store that all shims write. The
first `Subscribe` takes `CurrentRevision` as `pollStart` and starts the poll loop's
goroutine, which stores it as its cursor some time later (`PollStart`); calls
subscribe, read and forward in the meantime, and `lastWatchRev` is still 0. The
poll loop then has the steps register, read, publish, wait; `armed` is the version at
which the FoundationDB watch was registered, and an append after it fires the
watch. A call subscribes, reads the past in as many batches as it takes
(`AfterSplit`, `AfterLast`), and forwards what it has not sent. An event is its
revision, and a batch, which is always in revision order, a set of them. The
channel of the broadcaster and the two of the call, each of which is a FIFO
queue, are one queue of `SubCap` batches. `PollPublish` hands over a batch and
moves the cursor in one step; in the code the cursor follows the hand-over, so
what the broadcaster does in between is done in the model with a cursor that is
already ahead, which is the harder case for `PassedNotLost`.

**Scan** is the scan of `byKeyAndRevision` that lists, counts and the TTL feed
share: `recordCollector` over `processRange`. Its operators say what one batch,
one transaction, can do: `Reads` is where it may stop (the limit, the end of the
range, or anywhere when its time is up), `Candidate` the newest record of a key
in the window, `Given` what the inner collector gets, and `EndBatch` the record
that the last batch adds and a split one carries over. Entries are read in the
order of key and revision, so the set of those read stands for the iteration.

**Chunks** is the layout of values in `byRevision` and `byKeyCurrent`: `Cut`, and
`Replace` with its arithmetic on the number of chunks. A chunk has its offset,
its number of bytes, and the revision that wrote it, which stands for its content
and makes every two writes differ.

**List** is `List` and `Get`. A call takes one step per batch (`Batch`), between
which clients write and compaction removes records; the join with `byKeyCurrent`
(`Joined`) compares the flag `LatestForKey` and the length, as the code does, and
what does not fit is fetched from `byRevision`. A value is its size. The store
may hold a record from before `byKeyCurrent` existed.

**Count** is `Count` and the tracker against the poll loop, which is here in the
steps read, apply, publish. A call reads the tracker (`Begin`), then the cursor
(`Load`), or scans batch by batch and seeds. Three auxiliary variables record
what the properties except: `applied` is the last revision applied, `spoiled`
the entries, and `doubtful` the calls, that an exception has happened to. A prefix
is spoiled only when it has an entry or gets one: by an event that was compacted
before the loop read it (`Missed`), or at its seed (`Overtaken`, or a doubtful scan).

**Ttl** is the three goroutines of `fdb_ttl.go`. The feed lists by pages of a
scan each, with what its loop does with errors, and then watches; it takes from
Watch the promise proved there (in order, nothing skipped that is retained). The
main loop stores an entry and adds the key to the queue in two steps, since the
handler may come between them. The handler reads an entry, deletes with the
entry's revision as the guard, and then looks at the map again. Time is not
counted: a lease runs out (`Expire`) and a delay is over (`Due`) at any moment.
`lapsed` and `forgotten` are auxiliary. A restarted process is the initial state
over a store that is not empty, of which `Init` has instances.

The `MC` modules give the constants for TLC. Definitions named `X_...` are
mutants: `PROJECT.json` names the property that each of them breaks.

### Assumptions on what is outside the driver

* FoundationDB: strict serializability, unique and increasing commit versions,
  a registered watch fires on a later change of its key.
* kine's broadcaster: a subscriber gets every batch after it subscribed, in
  order, until its channel is full, and is then dropped; the first `Subscribe`
  starts the poll loop. The drop is taken to be immediate.
* client-go's delaying queue: an added key becomes ready once its delay is over,
  and is in the queue once. That it keeps the earlier of two delays is covered,
  since delays are not counted.
* The API server names revisions it has been given: `Compact`, `Update` and
  `Delete` are called with a revision of at most `version`, `Watch` with at most
  the next one.

### What is abstracted

Values and keys are model values (a value is its size in List; keys are numbers
where their order matters, and a prefix is the set of its keys); the size limit
and the tuple encoding are left out, and so are logging, TLS and the trace files.
The bytes of a value appear in List and Chunks only.
`UseSequentialId`, which only the robustness tests turn on, is off. A record's
`ValueSize` is a function of its value elsewhere, and `PrevKV` of an event is not modelled.

## 3. The runs

| Run | Instance | Result |
|---|---|---|
| `mvcc` | 2 keys, 2 concurrent `Compact` calls, versions up to 6 | `TypeOK`, `CompactionInvisible`, `PinnedReadsGenuine`, `HistoryChain` hold |
| `store` | 1 key, 2 values, 2 clients, 1 `Compact` call, 1 retry, versions up to 4 | `TypeOK`, `SubspacesAgree`, `CurrentIsLatest`, `AcknowledgedIsWritten`, `GuardedWritesOnce`, `RewritesWereUndone`, `RefusedWasOvertaken` hold, and `MvccSpec`: Store implements Mvcc |
| `watch` | 1 key, 1 `Watch` call, 1 `Compact` call, batches of 2, a channel of 1, versions up to 4 | `TypeOK`, `Ordered`, `NoRetainedGap`, `PassedNotLost` hold |
| `watch_liveness` | 2 keys of which one is watched, no compaction, versions up to 3 | `EventuallySent` holds |
| `list` | 2 keys, values of one and of two chunks, lists of both keys, of a page of one, of keys only, a `Get`, pinned or not, 1 `Compact` call, versions up to 4 | `TypeOK`, `CurrentIsCut`, `ListedWereLive`, `RetainedAreListed` hold |
| `count` | a prefix of 2 keys, 1 caller, batches of 2, 1 `Compact` call, versions up to 4 | `TypeOK`, `TrackedExact`, `AnswerIsRecent`, `Converges` hold |
| `ttl` | 2 keys, with and without a lease, pages of 1, 1 `Compact` call, client writes up to version 3, expiries up to 5 | `TypeOK`, `EntriesScheduled`, `LeasesKnown`, `NeverEarly` hold |
| `mvcc_pinned_reads` | as `mvcc` | `PinnedReadsExact` is violated |
| `mvcc_watch_window` | as `mvcc` | `WatchWindowIntact` is violated |
| `store_create_twice` | as `store` | `CreateWritesOnce` is violated |
| `watch_reliable` | as `watch` | `Reliable` is violated |
| `count_seed` | as `count`, no compaction | `SeedExact` is violated |

**Bounds.** In `mvcc`, six versions hold two full lives of a key with a
compaction batch between them, or three records of one key under two sweeps that
are both split; a second key is needed for what one key's records do to
another's watermark. In `store`, one key suffices because a call touches one
key and conflicts are per key; two clients and one rerun give every way another
writer can come between an attempt and its rerun, and four versions let three
commits follow the initial state. The theorems of section 4 cover all larger
instances of both. In `watch`, four versions and batches of two give a poll that
is split, an initial read of several batches (so that the bound of
`afterCollector.next` is set, used and forgotten), a compaction in between, and a
channel that overflows, and a call that runs, with a write after its initial read,
before the poll goroutine has; calls influence each other only through the poll loop
that the first one starts, and a caller that watches again after its call has
ended finds that loop running. In `list`, `ChunkSize` 2 and values of 2 and 3 bytes
give one full chunk and two, so that a value grows and shrinks by a chunk, at the
edge where its size is a multiple of the chunk's; an empty value is left to the
theorem `CurrentIsAlwaysCut`, which is for every size. Two keys
and a limit of one give the record beyond the limit, and three writes after the
initial state let a key be updated, or deleted and created again, between the
batches of a scan. In `count` the same versions let the poll loop lag behind a
scan and overtake it. In `ttl`, pages of one key make the list take a page per
key, two client writes renew, delete or compact a key at every point of an
expiry, and two versions are left for the handler's deletes. One `Compact` call
at a time is enough there: what several do to each other is the subject of
`mvcc`. Two constants narrow what TLC enumerates and are left open by the
theorems: with `AllSweeps` false (`watch`, `list`, `count`, `ttl`) a `Compact` call
starts only when it has something to remove (in `count` and `ttl` only the first
one), at the current revision, since one that stops early does what one up to an
older revision would; in `watch`, `list` and `count` it also keeps a version below
`MaxVersion` for its next batch (`SweepMatters` of module `Mvcc`), since a call that
never commits changes nothing. With `LocalWrites` false (`watch`) all writes go through other shims, so that the kick of
`pollKick` is seen in `watch_liveness` only. `ttl` does not check for deadlock: when the clients have stopped and no
key is leased, the queue is empty and everyone waits, as in the code. Symmetry is used for keys, values, clients and compactors, in
safety runs only.

**Fairness** (`watch_liveness`). Weak fairness of the poll loop's own steps, of
the broadcaster and of the call's goroutines: the Go scheduler runs them, and
none of them waits for another party while enabled. Strong fairness of
`PollRead`, because a read may fail and be tried again after `pollErrorBackoff`:
the cluster is assumed not to fail every read for ever. Nothing is assumed of
the writers, of `kickPoll`, or of the timer (`PollIntervalFloor` 0 disables it),
so the result rests on the FoundationDB watch alone: it is registered before the
read (`fdb_watch.go:160`), so that a commit after the read fires it.
`Converges` (run `count`) assumes weak fairness of the poll loop's three steps,
and nothing of the callers: its `PollRead` stands for the rounds that succeed.

### The properties that hold

* `CompactionInvisible`: between any batches of any `Compact` calls, what is left
  shows the same live keys as the whole history. No live record is removed, and
  no tombstone before what it hides: the sweep goes upwards.
* `PinnedReadsGenuine`: a read of an older revision, however much of it was
  compacted, can miss keys and is never wrong about those it shows.
* `HistoryChain`: each key's records form a chain of lives with the right
  `PrevRevision` and `CreateRevision`.
* `SubspacesAgree`, `CurrentIsLatest`: the subspaces are consistent, so the
  unchecked dereferences at `fdb_compact.go:41` and `fdb_write.go:245` are safe,
  and the size check at `fdb_read.go:227` compares with the right value.
* `AcknowledgedIsWritten`, `GuardedWritesOnce`: a success is never answered for
  somebody else's write, and a call that names a revision is applied at most
  once, reruns included.
* `RewritesWereUndone`, `RefusedWasOvertaken`: what the UUIDs are for. A `Create`, or
  a `Delete` without a revision, is applied a second time only if another call has
  undone it in between, and when a call is refused and the key has a last record, it
  is not one that an attempt of the call wrote. One refusal is for the call's own
  write, and outside this: a `Delete` whose tombstone is compacted before its rerun
  finds nothing and is refused although it took place.
* `MvccSpec`: every commit of Store is one abstract append or batch.
* `Ordered`, `NoRetainedGap`, `EventuallySent`: the guarantees Ordered, Unique and
  Reliable of `test/robustness/validate/watch.go`, as far as compaction leaves
  the events in the store, and that events do arrive.
* `PassedNotLost`: the poll loop never reads again what its cursor has passed. Of
  that, what the store holds and a subscribed call asks for has been sent, or it is
  with the broadcaster or in the call's channel, and the call will not take it for
  one of its initial events. It depends on the revision the goroutine is started
  with, on the order of hand-over and cursor, and on `lastRevision` of the call. It
  is not the guarantee Bookmarkable, see below.
* `CurrentIsCut`: `byKeyCurrent` holds the chunks of the newest value and no
  others, although `Replace` clears only what it believes to be the tail.
* `ListedWereLive`, `RetainedAreListed`: whatever runs between the batches, a list
  shows only records that were live at its revision, each with its own value, and
  leaves out none that the store still holds. Excepted are the record beyond the
  limit (see below) and, from the first, empty values and lists of keys only,
  whose records no second read confirms.
* `TrackedExact`, `AnswerIsRecent`, `Converges`: a tracked count is the number of
  live keys at the last revision applied, an answer is never older than the cursor
  at the start of the call, and the count comes to the present one when writes
  stop. Excepted are entries whose scan was overtaken by the poll loop before the
  seed, or interrupted by a compaction, and those of which an event was compacted
  before the poll loop read it.
* `NeverEarly`, `EntriesScheduled`, `LeasesKnown`: an expiry never deletes a renewed
  lease, no entry is left without an appointment, and list and watch together miss
  no lease but for the three causes below.

### The properties that do not hold

Each states what a comment, a document or a test of the repository says.

* `CreateWritesOnce` (`fdb_write.go:71`). A `Create` is applied with an unknown
  result, another client deletes the key, the rerun finds a tombstone that is
  not its own and creates the key again.
* `PinnedReadsExact` (`FEASIBILITY.md:44`, `:46`). `Compact(1)` removes a key's
  record at 1 because the key has a newer one at 3. The watermark is 1, a read
  pinned at 2 is let through and misses the key.
* `WatchWindowIntact` (`fdb_test.go:485`). The watermark is overwritten, not
  raised: a batch that runs again, or another call, moves it back below removed
  records, and a watch from there is accepted.
* `Reliable` (`test/robustness/validate/watch.go:37`). A watch from the beginning
  reads in two batches with a compaction between them: the compacted check is
  off for revision 0, and an event in the middle is missing.
* `SeedExact` (`fdb_read.go:92`). A scan of revision 1 has counted; a key is
  created at 2, and the poll loop applies it while the prefix has no entry yet;
  then the entry is seeded. The new key is in neither, the cursor is past it, and
  the count stays one short.

### Other behaviours of note

The models have them, and the properties except them by name. Of the causes of a
forgotten lease, the comment on `ttlEvents` (`fdb_ttl.go:113`-`116`) speaks against
the first two: it "lists all non-deleted keys", and "any keys that have a Lease
associated with them are sent into the result channel". `LeasesKnown` shows that a
live leased key is left out of the list for these two reasons only. Of the other
behaviours no document speaks unless it is named here.

* `recordCollector.endBatch` adds the record it is looking at when the limit has
  just been reached, before that key's newer revisions are read. A page then has
  one record more than its limit, possibly an old one that is marked
  `LatestForKey`. kine cuts it off a list. The TTL feed does not: it goes on
  behind that key, so a newer lease of the key below the list's revision is not
  seen (first cause of a forgotten lease).
* `ttlEvents` looks at the error of a page only if the page has records; with none
  the list ends early (second cause).
* `deleteTTLEvent` compares the expiry of the entry it started with, which has
  passed, and not that of the current one (`fdb_ttl.go:99`): an entry renewed in
  the meantime is removed, and the key does not expire until the feed lists again
  (third cause).
* `CurrentRevision` says nothing of what was delivered. `test/robustness/validate/watch.go:33`
  asks of a progress notification "that all events up to a revision have already been
  delivered". The notifications are kine's, and this driver gives it `CurrentRevision`.
  The cursor moves on when the broadcaster has taken a batch (`fdb_watch.go:197`),
  with the events still on their way; and between `startWatch` and the first step of
  the goroutine (`fdb_watch.go:137`, `:144`) `CurrentRevision` answers the read
  version, above events that the loop has not read. Whether a notification waits for
  the channels is decided outside the driver, so no property here claims Bookmarkable.
* A list without a revision, interrupted by a compaction, can miss a key that was
  there throughout: the old record is removed and the new one is newer than the
  list. `RetainedAreListed` speaks of what is still there.
* A `Watch` whose subscription fails or is dropped, and one that fails with an
  error, leave the caller waiting; the TTL feed then stops.

## 4. The proofs

TLAPS proves, for all sets of keys, values, leases, clients, watches and
compactors, and all bounds (assumed: the bounds are naturals, `ChunkSize`,
`PageSize`, `MaxBatchSize` and `SubCap` positive; keys, values and leases are
naturals where they are compared; a list's range and a counted prefix are sets of
keys; `NoValue` is no value, `OldUUID` is no UUID):

* in `MvccProofs`: `TypeCorrect`, `CompactionIsInvisible`,
  `PinnedReadsAreGenuine`, `HistoryIsChained`;
* in `StoreProofs`: `StoreImplementsMvcc`, `TypeCorrect`, `SubspacesAlwaysAgree`,
  `CurrentIsAlwaysLatest`, `AcknowledgedIsAlwaysWritten`, `GuardedCallsWriteOnce`,
  `RewritesWereAlwaysUndone`, `RefusedWereAlwaysOvertaken`, and
  `StoreCompactionIsInvisible`;
* in `WatchProofs`: `TypeCorrect`, `EventsOrdered`, `NothingRetainedIsSkipped`,
  `NothingPassedIsLost`;
* in `ScanProofs`: `BatchOfScan`, what one batch of any scan gives and leaves;
* in `ListProofs`: `ListTypeCorrect`, `CurrentIsAlwaysCut`, `ListedWereAlwaysLive`,
  `RetainedAreAlwaysListed`;
* in `CountProofs`: `CountTypeCorrect`, `TrackedIsAlwaysExact`, `AnswersAreRecent`
  (`CountEntries` has the lemmas on the entries and the poll loop);
* in `TtlProofs`: `TtlTypeCorrect`, `NoEntryStranded`, `NoLeaseCutShort`,
  `LeasesAreAlwaysKnown`.

Every invariant that a passing run checks is the subject of one of them.

`StoreProofs` takes the theorems of `MvccProofs` for the records of `byRevision`
by an instance at its end, where they are needed: a larger context slows down
every proof that follows it. The proofs of Watch, List, Count and Ttl do the same for
the store they run over.

**Mvcc.** `CompactionInvisible` is not inductive. A batch may remove a tombstone
only if no older record of the key is left, and that depends on what earlier
batches of *this* call did while other calls and writers were at work. The
inductive invariant `IInv` adds: revisions are unique and not in the future
(`RevisionsUnique`); a removed record is a tombstone or has a successor
(`RemovedNotLive`); it is older than every record of its key that is left
(`RemovedInOrder`); and what a sweep has left behind its cursor has no successor
up to the sweep's end (`SweptClean`). The last one is the heart: a tombstone in
the range is then its key's only record below it. `IInv` gives
`CompactionInvisible` through a lemma on the newest records of the two sets.
`PinnedReadsGenuine` needs `RemovedInOrder` alone: were a newer record of the key, up
to the revision read, among the removed ones, it would be older than the one shown.

**Store.** `StoreInv` ties the subspaces together and to each attempt: the two
subspaces agree, an attempt that is about to commit without a conflict still has
the key's last record, and its prepared record is the one the abstract action
appends. It suffices for the refinement, from which `IInv` of the abstract store
follows for free. With `CurrentIsLatest` and `AnswerInv` (a UUID belongs to one
attempt of one call, a record with a call's UUID is one that call appended, a
guarded call that has appended can never again find the revision it names) the
conjunction `Inv` is inductive and gives the answers' properties. Its last part,
`RerunInv`, is about a call whose own record is still the last one of the key: then
its closure remembers that record's UUID, has not gone on to commit over it, and has
not been refused (`CallOK`). It is kept because an attempt that does not recognise
the last record as its own has found another's: what it wrote itself is of the
call's kind, or newer than the revision the call names. A compaction batch leaves a
key the last record it had, or none (`SweepLast`). For `RewritesWereUndone` the chain of
lives does the rest: of two creates of a key the second one follows a tombstone.

**Watch.** None of the three guarantees is inductive: where an event is depends on
the poll loop's batch, the broadcaster's stream, the call's channel, its initial
read and what it has sent. `IInv` has a part for each. Its `Cursor` is where the
poll loop goes on from: `pollStart` until the goroutine has run, and `lastWatchRev`
from then on, so that `PollStart` changes nothing that the invariant speaks of.
`PollOK`: the batch read and not handed over is all that the store holds between the
cursor and its last event. `ChannelOK`: what is on its way to a call ascends, behind the cursor.
`ReadingOK`, of a call in its initial read: it has everything up to the read's
cursor and, once the first batch has set a bound, everything above the bound is on
its way through the channel, up to the poll cursor while the call is subscribed and
without a gap after it was dropped. `RunningOK`, of a call that forwards: what was
sent lies before all that it will still send, and what was sent or is in the
channel has no gap. The step from reading to running is where the two overlap.

**Scan.** The three readers rest on one account of a batch, stated for any index,
request and collector. `Scanning` is the invariant of a scan between its batches:
it has read up to one entry; the record it carries is of that
entry's key, in the window, and at least as new as everything of the key in the
window that was read and is still there. `StillScanning` keeps it through any step
of the store (`Evolves`: records come with new revisions, and others go).
`BatchOfScan` then says of a batch, wherever it stops, and of the keys it is done
with: what it gives is in the window, no tombstone, one record per key, and the
newest of the key that the index holds; every record the index holds that is the
newest of its key in the window, no tombstone and not given before, is given; and a
split batch leaves a collector that is `Scanning` again. The keys that a last batch
is done with are all of the range, or those before the key at which the limit
stopped it.

**List.** `Replace` over the chunks of a value of the size it is told, or over
none, leaves exactly the chunks of the new one (`ReplaceIsCut`): that is the
arithmetic. The invariant that makes it apply says of every key which chunks it
has, `CurrentIsCut`; it needs that an append is its key's newest record, which
comes from the `IInv` of `MvccProofs`. `CallInv` is the rest: what a call has found
is of the history and in its window, one record per key (`Found`), and of the keys
passed every value is its record's own and nothing retained is missing (`Complete`).
That a listed record was live at the list's revision, although newer ones of its key
may have been removed, is `GivenIsGenuine`: when the value is joined, `byKeyCurrent`
has chunks of the key's live record only, and that is the one given; when it is
fetched, the record is still there, and by `RemovedInOrder` what is gone is older.

**Count.** `TrackedExact` is about cardinalities that three actors change, and needs
five parts. `Balanced`: at every revision the live keys of a prefix are as many as
its creates less its deletes, since a create comes over nothing or a tombstone and a
delete over a live record; that turns the sum that `apply` computes into a difference
of two counts. `PollInv`: the batch lies above what is applied until it is applied,
and the cursor is never ahead. `EntryInv`: an entry that is not spoiled is exact, and
what the loop has read and not applied is all that it needs to stay so (`ReadAll`).
`CallInv`: a scan that no compaction has interrupted has counted exactly the live
records of the keys it has passed, and so hands the tracker the number at its first
batch's revision. The seed is where the two meet: `NotOvertaken` shows that an entry
seeded outside the named exceptions is exact at the later of its own revision and the
loop's.

**Ttl.** `IInv` adds to `EntriesScheduled` that an idle handler holds no key, and
that the revision the handler is about to delete, like that of every expired entry,
had its lease run out. `Guarded` then gives `NeverEarly`. `LeasesKnown` follows a
record through all the places it can be in, and has an invariant of its own,
`LeaseInv`. `FeedInv`: a live record the feed has been told of, because it is behind
the pages listed or the cursor of the watch, is in the map, on its way there, or
forgotten for a named cause; and a page under way holds all that it should of the
keys passed. `EntriesGenuine`: an entry has the revision of a record of its key.
`HandlerInv`: what the handler has deleted is not live any more, so that removing its
entry loses nothing.

**Only model-checked:** the liveness properties `EventuallySent` and `Converges`:
liveness under fairness and `ENABLED` are outside this prover, as are induction over
data and `RECURSIVE` operators (none is used). Of `Converges` the safety half,
`TrackedExact`, is proved.

## 5. What is not modelled

* That an expired key is eventually deleted is not checked. The feed's watch may
  stop for good (see above), so it holds only under an assumption on the watch, and
  the instance with fairness is beyond TLC in reasonable time; `EntriesScheduled`
  and `LeasesKnown` are its safety core.
* The second start of the poll loop within a process, which `reset` provides for:
  the loop ends only with the process.
* Configuration, TLS, logging, the dump of the robustness tests, `DbSize` and the
  command line, which are I/O and wiring without state; the tuple encoding; the
  `UseSequentialId` mode, which exists for those tests; kine's, client-go's and
  FoundationDB's own code, of which the assumptions above are all that is used.
