-------------------------------- MODULE Count --------------------------------
(***************************************************************************)
(* Count and the count tracker (fdb_read.go, fdb_count.go) over the store  *)
(* of Mvcc.  A first Count of a prefix scans it and seeds an entry; the    *)
(* poll loop (fdb_watch.go) then applies the creates and deletes it reads  *)
(* to the entry, and later Counts answer from it.  The loop's FoundationDB *)
(* watch and what becomes of its events are in module Watch.               *)
(***************************************************************************)
EXTENDS Scan, FiniteSetsExt

CONSTANTS Key, Value, Lease, Compactor, MaxVersion,   \* as in Mvcc
          Caller,         \* Count calls
          Prefixes,       \* the sets of keys with a counted prefix
          MaxBatchSize,   \* maxBatchSize, the events of one poll
          AllSweeps       \* whether every Compact call may start, or only a
                          \* first one that has something to remove

ASSUME MaxVersionAssumption == MaxVersion \in Nat
ASSUME KeyAssumption == Key \subseteq Nat
ASSUME PrefixAssumption == Prefixes \subseteq SUBSET Key
ASSUME SweepsAssumption == AllSweeps \in BOOLEAN
ASSUME BoundsAssumption == MaxBatchSize \in Nat \ {0}

VARIABLES version, history, records, compactRev, sweep,   \* of Mvcc
          pollPc,         \* where the poll loop is, "off" before it starts
          lastWatchRev,   \* the cursor of the poll loop
          batch,          \* the events it has read
          entries,        \* the tracker: prefix to count and seedRev
          pc,             \* where each call is
          prefix,         \* its prefix
          collector,      \* the collector of its scan
          res,            \* the count it has: from the scan or the tracker
          applied,        \* the last revision applied (auxiliary)
          spoiled,        \* entries that missed an event (auxiliary)
          doubtful        \* calls that answer from one (auxiliary)

store == <<version, history, records, compactRev, sweep>>
poll == <<pollPc, lastWatchRev, batch>>
calls == <<pc, prefix, collector, res>>
aux == <<applied, spoiled, doubtful>>
vars == <<store, poll, entries, calls, aux>>

S == INSTANCE Mvcc

pollActive == pollPc # "off"

NoEntry == [count |-> 0, seedRev |-> 0, ok |-> FALSE]

NoResult == [count |-> 0, rev |-> 0, since |-> 0]

Request(X) == [keys |-> X, limit |-> 0, maxRevision |-> 0]

TypeOK ==
    /\ S!TypeOK
    /\ pollPc \in {"off", "read", "apply", "publish"}
    /\ lastWatchRev \in Nat /\ applied \in Nat
    /\ batch \subseteq S!Record
    /\ entries \in [Prefixes -> [count : Int, seedRev : Nat, ok : BOOLEAN]]
    /\ pc \in [Caller -> {"idle", "load", "scan", "seed", "scanned",
                           "answered"}]
    /\ prefix \in [Caller -> Prefixes \cup {{}}]
    /\ \A c \in Caller : collector[c].firstRev \in Nat
                           /\ collector[c].count \in Nat
    /\ res \in [Caller -> [count : Int, rev : Nat, since : Nat]]
    /\ spoiled \subseteq Prefixes /\ doubtful \subseteq Caller

-----------------------------------------------------------------------------
(***************************************************************************)
(* startWatch and the first steps of poll: the cursor is set to the        *)
(* current revision, the tracker is reset, and counts may be cached.       *)
(***************************************************************************)
StartPoll ==
    /\ pollPc = "off"
    /\ pollPc' = "read"
    /\ lastWatchRev' = version
    /\ entries' = [X \in Prefixes |-> NoEntry]
    /\ applied' = version
    /\ UNCHANGED <<store, batch, calls, spoiled, doubtful>>

After(n) == {r \in records : r.rev > n}

(***************************************************************************)
(* The entries that lose an event from revision m to n, because it was     *)
(* removed before the loop read it (auxiliary).  A prefix without an entry *)
(* loses none: what its scan does not have is Overtaken when it is seeded. *)
(***************************************************************************)
Counts(X, h) == h.key \in X /\ (h.isCreate \/ h.isDelete)

Missed(m, n) ==
    {X \in Prefixes : entries[X].ok /\ \E h \in history \ records :
        Counts(X, h) /\ m < h.rev /\ entries[X].seedRev < h.rev /\ h.rev <= n}

PollRead_Early ==   \* the cursor moves before the events are applied
    /\ pollPc = "read"
    /\ \/ /\ After(lastWatchRev) = {}
          /\ lastWatchRev' = version
          /\ applied' = version
          /\ spoiled' = spoiled \cup Missed(applied, version)
          /\ UNCHANGED <<pollPc, batch>>
       \/ \E r \in After(lastWatchRev) :
             /\ batch' = {s \in After(lastWatchRev) : s.rev <= r.rev}
             /\ Cardinality(batch') <= MaxBatchSize
             /\ pollPc' = "apply"
             /\ lastWatchRev' = r.rev
             /\ spoiled' = spoiled \cup Missed(applied, r.rev)
             /\ UNCHANGED applied
    /\ UNCHANGED <<store, entries, calls, doubtful>>

(***************************************************************************)
(* afterBatch from the cursor, as much of it as the limits of a batch      *)
(* allow; with no event the cursor moves to the read version.              *)
(***************************************************************************)
PollRead ==
    /\ pollPc = "read"
    /\ \/ /\ After(lastWatchRev) = {}
          /\ lastWatchRev' = version
          /\ applied' = version
          /\ spoiled' = spoiled \cup Missed(applied, version)
          /\ UNCHANGED <<pollPc, batch>>
       \/ \E r \in After(lastWatchRev) :
             /\ batch' = {s \in After(lastWatchRev) : s.rev <= r.rev}
             /\ Cardinality(batch') <= MaxBatchSize
             /\ pollPc' = "apply"
             /\ spoiled' = spoiled \cup Missed(applied, r.rev)
             /\ UNCHANGED <<lastWatchRev, applied>>
    /\ UNCHANGED <<store, entries, calls, doubtful>>

Counted_Seed(X, r) == r.key \in X   \* seedRev is not compared

(***************************************************************************)
(* Whether apply counts the event of record r for prefix X.                *)
(***************************************************************************)
Counted(X, r) == r.key \in X /\ r.rev > entries[X].seedRev

Sum(X) ==
    Cardinality({r \in batch : Counted(X, r) /\ r.isCreate})
      - Cardinality({r \in batch : Counted(X, r) /\ r.isDelete})

PollApply ==
    /\ pollPc = "apply"
    /\ pollPc' = "publish"
    /\ entries' = [X \in Prefixes |->
                     IF entries[X].ok
                       THEN [entries[X] EXCEPT !.count = @ + Sum(X)]
                       ELSE entries[X]]
    /\ applied' = Max({r.rev : r \in batch})
    /\ UNCHANGED <<store, lastWatchRev, batch, calls, spoiled, doubtful>>

PollPublish_Returns ==   \* the loop ends after its first events
    /\ pollPc = "publish"
    /\ pollPc' = "off"
    /\ lastWatchRev' = Max({r.rev : r \in batch})
    /\ batch' = {}
    /\ UNCHANGED <<store, entries, calls, aux>>

(***************************************************************************)
(* The events are handed over, and the cursor moves to the last of them.   *)
(***************************************************************************)
PollPublish ==
    /\ pollPc = "publish"
    /\ pollPc' = "read"
    /\ lastWatchRev' = Max({r.rev : r \in batch})
    /\ batch' = {}
    /\ UNCHANGED <<store, entries, calls, aux>>

-----------------------------------------------------------------------------
Goto(c, p) == pc' = [pc EXCEPT ![c] = p]

(***************************************************************************)
(* A Count of the current revision and a whole prefix, while the loop is   *)
(* live; any other is a scan that leaves the tracker alone (module List).  *)
(* It reads the tracker, and only then the cursor it compares it with.     *)
(* res.since is the cursor when the tracker was read (auxiliary).          *)
(***************************************************************************)
Begin(c, X) ==
    /\ pc[c] = "idle"
    /\ pollActive
    /\ prefix' = [prefix EXCEPT ![c] = X]
    /\ IF entries[X].ok
         THEN /\ Goto(c, "load")
              /\ doubtful' = doubtful \cup {d \in {c} : X \in spoiled}
              /\ res' = [res EXCEPT ![c] =
                           [count |-> entries[X].count,
                            rev |-> entries[X].seedRev,
                            since |-> lastWatchRev]]
         ELSE Goto(c, "scan") /\ UNCHANGED <<res, doubtful>>
    /\ UNCHANGED <<store, poll, entries, collector, applied, spoiled>>

(***************************************************************************)
(* The entry is answered once the cursor has reached its seedRev.          *)
(***************************************************************************)
Load(c) ==
    /\ pc[c] = "load"
    /\ IF lastWatchRev >= res[c].rev
         THEN Goto(c, "answered") /\ res' = [res EXCEPT ![c].rev = lastWatchRev]
         ELSE Goto(c, "scan") /\ res' = [res EXCEPT ![c] = NoResult]
    /\ doubtful' = IF pc'[c] = "scan" THEN doubtful \ {c} ELSE doubtful
    /\ UNCHANGED <<store, poll, entries, prefix, collector, applied, spoiled>>

(***************************************************************************)
(* One batch of the scan; countCollector counts the records it is given.   *)
(***************************************************************************)
ScanBatch(c) ==
    /\ pc[c] = "scan"
    /\ \E b \in Batches(records, Request(prefix[c]), collector[c], version) :
          /\ collector' = [collector EXCEPT ![c] =
                             IF b.isLast THEN NewRecordCollector ELSE b.next]
          /\ IF b.isLast
               THEN /\ Goto(c, "seed")
                    /\ res' = [res EXCEPT ![c].count = b.next.count,
                                          ![c].rev = b.next.firstRev]
               ELSE UNCHANGED <<pc, res>>
    /\ UNCHANGED <<store, poll, entries, prefix, aux>>

(***************************************************************************)
(* Whether the poll loop has read past an event that the scan of revision  *)
(* n does not have, so that it will not apply it (auxiliary).              *)
(***************************************************************************)
Overtaken(X, n) ==
    \E h \in history :
       /\ Counts(X, h)
       /\ h.rev > n
       /\ \/ h.rev <= applied
          \/ h \notin batch /\ \E r \in batch : h.rev < r.rev

(***************************************************************************)
(* seed keeps an entry that is there.                                      *)
(***************************************************************************)
Seed(c) ==
    /\ pc[c] = "seed"
    /\ Goto(c, "scanned")
    /\ LET X == prefix[c] IN
       IF entries[X].ok
         THEN UNCHANGED <<entries, spoiled>>
         ELSE /\ entries' = [entries EXCEPT ![X] =
                   [count |-> res[c].count, seedRev |-> res[c].rev, ok |-> TRUE]]
              /\ spoiled' = spoiled \cup {Y \in {X} :
                   c \in doubtful \/ Overtaken(X, res[c].rev)}
    /\ UNCHANGED <<store, poll, prefix, collector, res, applied,
                   doubtful>>

Return(c) ==
    /\ Goto(c, "idle")
    /\ prefix' = [prefix EXCEPT ![c] = {}]
    /\ collector' = [collector EXCEPT ![c] = NewRecordCollector]
    /\ res' = [res EXCEPT ![c] = NoResult]
    /\ doubtful' = doubtful \ {c}
    /\ UNCHANGED <<store, poll, entries, applied, spoiled>>

Returned(c) == pc[c] \in {"scanned", "answered"} /\ Return(c)

ScanFails(c) == pc[c] = "scan" /\ Return(c)

-----------------------------------------------------------------------------
Write ==
    /\ S!Write
    /\ AllSweeps \/ S!SweepMatters
    /\ UNCHANGED <<poll, entries, calls, aux>>

(***************************************************************************)
(* Compact calls up to the current revision, which may end after any       *)
(* batch.  A batch makes the scans it interrupts doubtful.                 *)
(***************************************************************************)
Compact ==
    /\ \E p \in Compactor :
          \/ /\ AllSweeps \/ compactRev = 0
             /\ S!StartSweep(p, version)
          \/ S!SweepBatch(p)
          \/ S!StopSweep(p)
    /\ AllSweeps \/ S!SweepMatters
    /\ doubtful' = doubtful \cup
          {c \in Caller : pc[c] = "scan" /\ collector[c].at # {}
                            /\ records' # records}
    /\ UNCHANGED <<poll, entries, calls, applied, spoiled>>

Init ==
    /\ S!Init
    /\ pollPc = "off"
    /\ lastWatchRev = 0 /\ applied = 0
    /\ batch = {}
    /\ entries = [X \in Prefixes |-> NoEntry]
    /\ pc = [c \in Caller |-> "idle"]
    /\ prefix = [c \in Caller |-> {}]
    /\ collector = [c \in Caller |-> NewRecordCollector]
    /\ res = [c \in Caller |-> NoResult]
    /\ spoiled = {} /\ doubtful = {}

PollStep == StartPoll \/ PollRead \/ PollApply \/ PollPublish

CallStep(c) ==
    \/ \E X \in Prefixes : Begin(c, X)
    \/ Load(c)
    \/ ScanBatch(c)
    \/ ScanFails(c)
    \/ Seed(c)
    \/ Returned(c)

Next == Write \/ Compact \/ PollStep \/ \E c \in Caller : CallStep(c)

Spec == Init /\ [][Next]_vars

(***************************************************************************)
(* The poll loop runs, and the cluster does not fail every read.           *)
(***************************************************************************)
FairSpec == Spec /\ WF_vars(PollRead) /\ WF_vars(PollApply) /\ WF_vars(PollPublish)

-----------------------------------------------------------------------------
(***************************************************************************)
(* The number of live keys of X at revision n.                             *)
(***************************************************************************)
Live(X, n) == Cardinality({r \in S!View(history, n) : r.key \in X})

MaxOf(m, n) == IF m > n THEN m ELSE n

(***************************************************************************)
(* "Seeding is exact even if the poll lags the scan": an entry counts the  *)
(* keys that were live at the last revision applied to it, through any     *)
(* interleaving of scans, seeds, polls and compactions, unless one of      *)
(* three things happened to it: the loop had passed an event newer than    *)
(* the scan when it was seeded, an event newer than the seed was compacted *)
(* before the loop read it, or a compaction ran between the batches of the *)
(* scan (countTracker.seed and apply).                                     *)
(***************************************************************************)
TrackedExact ==
    \A X \in Prefixes : entries[X].ok /\ X \notin spoiled =>
       entries[X].count = Live(X, MaxOf(entries[X].seedRev, applied))

(***************************************************************************)
(* A Count that scanned answers the number of keys that were live at its   *)
(* revision; one from the tracker, the number at some revision that is not *)
(* older than the cursor was when the call began.  The cursor, which       *)
(* CurrentRevision answers, moves only after the tracker has the events    *)
(* (FDB.Count and the order of poll's steps).                              *)
(***************************************************************************)
AnswerIsRecent ==
    \A c \in Caller : c \notin doubtful =>
       /\ pc[c] = "scanned" => res[c].count = Live(prefix[c], res[c].rev)
       /\ pc[c] = "answered" =>
             \E n \in res[c].since .. version :
                res[c].count = Live(prefix[c], n)

(***************************************************************************)
(* "Tracked count should converge" (TestCountTracksLiveObjects): when the  *)
(* writes have stopped, an entry comes to the number of live keys and      *)
(* stays there, with the exceptions of TrackedExact.                       *)
(***************************************************************************)
Converges ==
    \A X \in Prefixes :
       <>[](entries[X].ok /\ X \notin spoiled
              => entries[X].count = Live(X, version))

(***************************************************************************)
(* What the comment on seed says and the code does not keep: once the poll *)
(* loop has reached seedRev, the entry is the number of keys that are live *)
(* at the cursor, between any two polls (FDB.Count, countTracker.seed).    *)
(***************************************************************************)
SeedExact ==
    \A X \in Prefixes :
       entries[X].ok /\ pollPc = "read" /\ lastWatchRev >= entries[X].seedRev
         => entries[X].count = Live(X, lastWatchRev)
=============================================================================
