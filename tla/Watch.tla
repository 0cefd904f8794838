-------------------------------- MODULE Watch --------------------------------
(***************************************************************************)
(* The watches of one shim (fdb_watch.go) over the store of Mvcc, which    *)
(* other shims write to as well.  One poll loop reads the records after    *)
(* its cursor, lastWatchRev, and hands them to kine's broadcaster; every   *)
(* Watch call subscribes to it, reads the past by itself, and then         *)
(* forwards what it receives and has not sent yet.                         *)
(*                                                                         *)
(* An event is the revision of its record.  A batch of events is in        *)
(* revision order, so a set of revisions stands for it.                    *)
(***************************************************************************)
EXTENDS Naturals, Sequences, FiniteSetsExt

CONSTANTS Key, Value, Lease, Compactor, MaxVersion,   \* as in Mvcc
          Watcher,        \* Watch calls
          Watched,        \* the keys with the prefix of a Watch call
          MaxBatchSize,   \* maxBatchSize, the events of one poll
          SubCap,         \* batches a subscriber may have pending
          LocalWrites,    \* whether writes go through this shim too
          AllSweeps       \* whether every Compact call may start, or only one
                          \* with something to remove

ASSUME MaxVersionAssumption == MaxVersion \in Nat
ASSUME WatchedAssumption == Watched \in [Watcher -> SUBSET Key]
ASSUME BoundsAssumption == MaxBatchSize \in Nat \ {0} /\ SubCap \in Nat \ {0}
ASSUME LocalWritesAssumption == LocalWrites \in BOOLEAN
ASSUME SweepsAssumption == AllSweeps \in BOOLEAN

VARIABLES version, history, records, compactRev, sweep,   \* of Mvcc
          pollPc,         \* where the poll loop is, "off" before it starts
          pollStart,      \* the revision it is started at, until it has run
          lastWatchRev,   \* its cursor, 0 before it runs
          armed,          \* the version its FoundationDB watch is set at
          batch,          \* the events it has read
          pollKick,       \* whether the channel of that name is full
          stream,         \* the batch the broadcaster has taken, {} for none
          wpc,            \* where each Watch call is
          minRevision,    \* its minRevision, after the decrement
          after,          \* its collector: cursor, latestRev and events
          lastRevision,   \* the last revision of its initial events
          subscribed,     \* whether the broadcaster sends to it
          values,         \* the batches it has not forwarded yet
          delivered       \* the batches its caller has been sent

store == <<version, history, records, compactRev, sweep>>
poll == <<pollPc, pollStart, lastWatchRev, armed, batch, pollKick>>
watches == <<wpc, minRevision, after, lastRevision, subscribed, values,
             delivered>>
vars == <<store, poll, stream, watches>>

S == INSTANCE Mvcc

Rev == Nat
Batch == SUBSET Rev
AfterCollector == [cursor : Rev, latestRev : Rev, events : Batch]

NewAfterCollector(n) == [cursor |-> n, latestRev |-> 0, events |-> {}]

TypeOK ==
    /\ S!TypeOK
    /\ pollPc \in {"off", "start", "register", "read", "publish", "wait"}
    /\ pollStart \in Rev /\ lastWatchRev \in Rev /\ armed \in Rev
    /\ batch \in Batch /\ stream \in Batch
    /\ pollKick \in BOOLEAN
    /\ wpc \in [Watcher -> {"idle", "reading", "running",
                            "compacted", "failed", "closed"}]
    /\ minRevision \in [Watcher -> Rev]
    /\ after \in [Watcher -> AfterCollector]
    /\ lastRevision \in [Watcher -> Rev]
    /\ subscribed \in [Watcher -> BOOLEAN]
    /\ values \in [Watcher -> Seq(Batch)]
    /\ delivered \in [Watcher -> Seq(Batch)]

-----------------------------------------------------------------------------
(***************************************************************************)
(* Definitions named X_... are mutants: X as a plausible bug would have    *)
(* it.  Here: the range begins one revision late.                          *)
(***************************************************************************)
After_SkipsOne(n) == {m \in {r.rev : r \in records} : m > n + 1}

(***************************************************************************)
(* afterRevisionSelector: the records after revision n.                    *)
(***************************************************************************)
After(n) == {m \in {r.rev : r \in records} : m > n}

UpTo(E, n) == {m \in E : m <= n}

(***************************************************************************)
(* CurrentRevision: the cursor when there is one, or the read version.     *)
(***************************************************************************)
CurrentRevision == IF lastWatchRev # 0 THEN lastWatchRev ELSE version

PollStart_Late ==   \* the goroutine looks up the revision by itself
    /\ pollPc = "start"
    /\ pollPc' = "register"
    /\ lastWatchRev' = CurrentRevision
    /\ pollStart' = 0
    /\ UNCHANGED <<store, armed, batch, pollKick, stream, watches>>

(***************************************************************************)
(* The goroutine of poll runs, some time after startWatch has returned and *)
(* its caller has subscribed.                                              *)
(***************************************************************************)
PollStart ==
    /\ pollPc = "start"
    /\ pollPc' = "register"
    /\ lastWatchRev' = pollStart
    /\ pollStart' = 0
    /\ UNCHANGED <<store, armed, batch, pollKick, stream, watches>>

(***************************************************************************)
(* The loop cancels its watch and starts over.                             *)
(***************************************************************************)
PollAgain == pollPc' = "register" /\ armed' = 0

(***************************************************************************)
(* poll registers the FoundationDB watch before it reads.                  *)
(***************************************************************************)
PollRegister ==
    /\ pollPc = "register"
    /\ armed' = version
    /\ pollPc' = "read"
    /\ UNCHANGED <<store, pollStart, lastWatchRev, batch, pollKick, stream,
                   watches>>

(***************************************************************************)
(* afterBatch from the cursor: all that follows, or as much of it as       *)
(* maxBatchSize or the time limit of processBatch allow.  With no event    *)
(* the cursor moves to the read version.                                   *)
(***************************************************************************)
PollRead ==
    /\ pollPc = "read"
    /\ \/ /\ After(lastWatchRev) = {}
          /\ lastWatchRev' = version
          /\ pollPc' = "wait"
          /\ UNCHANGED batch
       \/ \E n \in After(lastWatchRev) :
             /\ batch' = UpTo(After(lastWatchRev), n)
             /\ Cardinality(batch') <= MaxBatchSize
             /\ pollPc' = "publish"
             /\ UNCHANGED lastWatchRev
    /\ UNCHANGED <<store, pollStart, armed, pollKick, stream, watches>>

(***************************************************************************)
(* The read fails: the loop backs off and starts over at the same cursor.  *)
(***************************************************************************)
PollFails ==
    /\ pollPc = "read"
    /\ PollAgain
    /\ UNCHANGED <<store, pollStart, lastWatchRev, batch, pollKick, stream,
                   watches>>

(***************************************************************************)
(* The broadcaster takes the batch, and the cursor moves to its last event.*)
(***************************************************************************)
PollPublish ==
    /\ pollPc = "publish"
    /\ stream = {}
    /\ stream' = batch
    /\ lastWatchRev' = Max(batch)
    /\ batch' = {}
    /\ PollAgain
    /\ UNCHANGED <<store, pollStart, pollKick, watches>>

Fired_Cancelled == FALSE   \* the FoundationDB watch is cancelled too early

(***************************************************************************)
(* The FoundationDB watch fires on an append after it was set.             *)
(***************************************************************************)
Fired == \E h \in history : h.rev > armed

PollWake ==
    /\ pollPc = "wait"
    /\ \/ pollKick /\ pollKick' = FALSE
       \/ Fired /\ UNCHANGED pollKick
    /\ PollAgain
    /\ UNCHANGED <<store, pollStart, lastWatchRev, batch, stream, watches>>

(***************************************************************************)
(* The watch fails, or the timer of PollIntervalFloor runs out.            *)
(***************************************************************************)
PollTimeout ==
    /\ pollPc = "wait"
    /\ PollAgain
    /\ UNCHANGED <<store, pollStart, lastWatchRev, batch, pollKick, stream,
                   watches>>

(***************************************************************************)
(* A write through this shim returns.                                      *)
(***************************************************************************)
KickPoll ==
    /\ LocalWrites
    /\ pollKick' = TRUE
    /\ UNCHANGED <<store, pollPc, pollStart, lastWatchRev, armed, batch,
                   stream, watches>>

-----------------------------------------------------------------------------
(***************************************************************************)
(* kine's broadcaster: the batch goes to every subscriber, and one that is *)
(* full is dropped.                                                        *)
(***************************************************************************)
Full(w) == Len(values[w]) >= SubCap

Broadcast ==
    /\ stream # {}
    /\ stream' = {}
    /\ values' = [w \in Watcher |->
                    IF subscribed[w] /\ ~Full(w)
                      THEN Append(values[w], stream) ELSE values[w]]
    /\ subscribed' = [w \in Watcher |-> subscribed[w] /\ ~Full(w)]
    /\ UNCHANGED <<store, poll, wpc, minRevision, after, lastRevision,
                   delivered>>

(***************************************************************************)
(* The first Subscribe starts the loop at CurrentRevision: the cursor is   *)
(* left to the new goroutine, see PollStart.  When CurrentRevision fails,  *)
(* innerWatch returns no channel, and Watch goes on without one.           *)
(***************************************************************************)
Subscribe(w) ==
    /\ pollPc = "off"
    /\ pollPc' = "start"
    /\ pollStart' = CurrentRevision
    /\ subscribed' = [subscribed EXCEPT ![w] = TRUE]
    /\ UNCHANGED <<lastWatchRev, armed, batch, pollKick>>

SubscribeRunning(w) ==
    /\ pollPc # "off"
    /\ subscribed' = [subscribed EXCEPT ![w] = TRUE]
    /\ UNCHANGED poll

SubscribeFails(w) ==
    /\ pollPc = "off"
    /\ UNCHANGED <<poll, subscribed>>

FromRevision_Unguarded(m) == m - 1

FromRevision(m) == IF m > 0 THEN m - 1 ELSE m

(***************************************************************************)
(* Watch(m) subscribes first, and starts its initial read.  A caller whose *)
(* call has ended may watch again.                                         *)
(***************************************************************************)
BeginWatch(w, m) ==
    /\ wpc[w] \notin {"reading", "running"}
    /\ wpc' = [wpc EXCEPT ![w] = "reading"]
    /\ minRevision' = [minRevision EXCEPT ![w] = FromRevision(m)]
    /\ after' = [after EXCEPT ![w] = NewAfterCollector(FromRevision(m))]
    /\ Subscribe(w) \/ SubscribeRunning(w) \/ SubscribeFails(w)
    /\ UNCHANGED <<store, stream, lastRevision, values, delivered>>

(***************************************************************************)
(* The call ends: its channel and what it has sent are of no more interest.*)
(***************************************************************************)
Unsubscribe(w, state) ==
    /\ wpc' = [wpc EXCEPT ![w] = state]
    /\ minRevision' = [minRevision EXCEPT ![w] = 0]
    /\ after' = [after EXCEPT ![w] = NewAfterCollector(0)]
    /\ lastRevision' = [lastRevision EXCEPT ![w] = 0]
    /\ subscribed' = [subscribed EXCEPT ![w] = FALSE]
    /\ values' = [values EXCEPT ![w] = <<>>]
    /\ delivered' = [delivered EXCEPT ![w] = <<>>]
    /\ UNCHANGED <<store, poll, stream>>

KeyOf(n) == (CHOOSE r \in history : r.rev = n).key

(***************************************************************************)
(* doesEventHavePrefix on the events of a batch.                           *)
(***************************************************************************)
Matching(w, E) == {n \in E : KeyOf(n) \in Watched[w]}

(***************************************************************************)
(* What a batch of the initial read finds.  A batch after the first stops  *)
(* at the first one's read version, and forgets it (afterCollector.next    *)
(* and endBatch).                                                          *)
(***************************************************************************)
Found(w) ==
    IF after[w].latestRev = 0 THEN After(after[w].cursor)
    ELSE UpTo(After(after[w].cursor), after[w].latestRev)

Compacted(w) == minRevision[w] > 0 /\ minRevision[w] < compactRev

(***************************************************************************)
(* A batch of afterAll that is split after event n.                        *)
(***************************************************************************)
AfterSplit(w) ==
    /\ wpc[w] = "reading"
    /\ ~Compacted(w)
    /\ \E n \in Found(w) :
          after' = [after EXCEPT ![w] =
             [cursor |-> n,
              latestRev |-> IF after[w].latestRev = 0 THEN version ELSE 0,
              events |-> after[w].events
                           \cup Matching(w, UpTo(Found(w), n))]]
    /\ UNCHANGED <<store, poll, stream, wpc, minRevision, lastRevision,
                   subscribed, values, delivered>>

(***************************************************************************)
(* The last batch: the events are sent, and the call starts forwarding.    *)
(***************************************************************************)
AfterLast(w) ==
    /\ wpc[w] = "reading"
    /\ ~Compacted(w)
    /\ wpc' = [wpc EXCEPT ![w] = "running"]
    /\ LET events == after[w].events \cup Matching(w, Found(w)) IN
       /\ lastRevision' = [lastRevision EXCEPT ![w] =
                             Max(events \cup {minRevision[w]})]
       /\ delivered' = [delivered EXCEPT ![w] =
                          IF events = {} THEN @ ELSE Append(@, events)]
    /\ after' = [after EXCEPT ![w] = NewAfterCollector(0)]
    /\ UNCHANGED <<store, poll, stream, minRevision, subscribed, values>>

(***************************************************************************)
(* The initial read finds the revision compacted, or fails.                *)
(***************************************************************************)
AfterCompacted(w) ==
    /\ wpc[w] = "reading"
    /\ Compacted(w)
    /\ Unsubscribe(w, "compacted")

AfterFails(w) ==
    /\ wpc[w] = "reading"
    /\ Unsubscribe(w, "failed")

Unsent_All(w, E) == E   \* the live events are not compared with the initial

Unsent(w, E) == {n \in E : n > lastRevision[w]}

(***************************************************************************)
(* A batch passes the two goroutines of innerWatch and Watch.              *)
(***************************************************************************)
Forward(w) ==
    /\ wpc[w] = "running"
    /\ values[w] # <<>>
    /\ values' = [values EXCEPT ![w] = Tail(@)]
    /\ LET events == Unsent(w, Matching(w, Head(values[w]))) IN
       delivered' = [delivered EXCEPT ![w] =
                       IF events = {} THEN @ ELSE Append(@, events)]
    /\ UNCHANGED <<store, poll, stream, wpc, minRevision, after, lastRevision,
                   subscribed>>

(***************************************************************************)
(* The caller's context ends.                                              *)
(***************************************************************************)
Cancel(w) ==
    /\ wpc[w] = "running"
    /\ Unsubscribe(w, "closed")

-----------------------------------------------------------------------------
Init ==
    /\ S!Init
    /\ pollPc = "off"
    /\ pollStart = 0 /\ lastWatchRev = 0 /\ armed = 0
    /\ batch = {} /\ stream = {}
    /\ pollKick = FALSE
    /\ wpc = [w \in Watcher |-> "idle"]
    /\ minRevision = [w \in Watcher |-> 0]
    /\ after = [w \in Watcher |-> NewAfterCollector(0)]
    /\ lastRevision = [w \in Watcher |-> 0]
    /\ subscribed = [w \in Watcher |-> FALSE]
    /\ values = [w \in Watcher |-> <<>>]
    /\ delivered = [w \in Watcher |-> <<>>]

StoreStep ==
    /\ S!Next
    /\ AllSweeps \/ S!SweepMatters
    /\ UNCHANGED <<poll, stream, watches>>

PollStep ==
    PollStart \/ PollRegister \/ PollRead \/ PollFails \/ PollPublish
      \/ PollWake \/ PollTimeout

(***************************************************************************)
(* Callers watch from the beginning, from a revision they have seen, or    *)
(* from the one after it.                                                  *)
(***************************************************************************)
WatchRequests == 0 .. version + 1

WatchStep(w) ==
    \/ \E m \in WatchRequests : BeginWatch(w, m)
    \/ AfterSplit(w)
    \/ AfterLast(w)
    \/ AfterCompacted(w)
    \/ AfterFails(w)
    \/ Forward(w)
    \/ Cancel(w)

Next ==
    \/ StoreStep
    \/ PollStep
    \/ KickPoll
    \/ Broadcast
    \/ \E w \in Watcher : WatchStep(w)

(***************************************************************************)
(* The goroutines run, and the cluster does not fail every read.  Nothing  *)
(* is assumed of the writes, their kicks and the timer.                    *)
(***************************************************************************)
Fairness ==
    /\ WF_vars(PollStart) /\ WF_vars(PollRegister)
    /\ WF_vars(PollPublish) /\ WF_vars(PollWake) /\ SF_vars(PollRead)
    /\ WF_vars(Broadcast)
    /\ \A w \in Watcher : WF_vars(AfterLast(w)) /\ WF_vars(Forward(w))

Spec == Init /\ [][Next]_vars

FairSpec == Spec /\ Fairness

-----------------------------------------------------------------------------
Sent(w) == UNION {delivered[w][i] : i \in DOMAIN delivered[w]}

(***************************************************************************)
(* "Ordered" and "Unique" of the watch validation: a Watch call sends its  *)
(* events in revision order and none twice, over the seam between the      *)
(* events of its initial read and those of the poll loop.                  *)
(***************************************************************************)
Ordered ==
    \A w \in Watcher : \A i, j \in DOMAIN delivered[w] :
       i < j => \A m \in delivered[w][i], n \in delivered[w][j] : m < n

(***************************************************************************)
(* "Reliable", as far as compaction leaves it: a Watch call has sent every *)
(* event it asks for, up to the last one it has sent, whose record is      *)
(* still in the store.                                                     *)
(***************************************************************************)
NoRetainedGap ==
    \A w \in Watcher : \A n \in Sent(w), r \in records :
       /\ minRevision[w] < r.rev /\ r.rev < n
       /\ r.key \in Watched[w]
       => r.rev \in Sent(w)

(***************************************************************************)
(* What the poll loop has passed is not lost.  It never reads the records  *)
(* up to its cursor again; of those, each that a running and subscribed    *)
(* Watch call asks for and the store still holds has been sent, or it is   *)
(* with the broadcaster or in the call's channel, and above the revision   *)
(* up to which the call takes events for sent.  Nothing is said of when it *)
(* is sent: the cursor moves on after the hand-over, not after the send.   *)
(***************************************************************************)
Pending(w) ==
    stream \cup UNION {values[w][i] : i \in DOMAIN values[w]}

PassedNotLost ==
    \A w \in Watcher : wpc[w] = "running" /\ subscribed[w] =>
       \A r \in records :
          /\ minRevision[w] < r.rev /\ r.rev <= lastWatchRev
          /\ r.key \in Watched[w]
          => r.rev \in Sent(w) \cup Unsent(w, Pending(w))

(***************************************************************************)
(* An event is not forgotten: a Watch call that is running and subscribed  *)
(* sends every event it asks for, whichever shim wrote it, unless the call *)
(* ends, the broadcaster drops it or compaction removes the record.  There *)
(* is no lost wakeup between the read of an empty batch and the wait.      *)
(***************************************************************************)
EventuallySent ==
    \A w \in Watcher, n \in 1 .. MaxVersion :
       (/\ wpc[w] = "running" /\ subscribed[w]
        /\ n > minRevision[w]
        /\ \E r \in records : r.rev = n /\ r.key \in Watched[w])
       ~> (\/ n \in Sent(w)
           \/ wpc[w] # "running" \/ ~subscribed[w]
           \/ \A r \in records : r.rev # n)

(***************************************************************************)
(* "Reliable", in the words of the watch validation, which the code does   *)
(* not keep: no event is dropped before one that was received.             *)
(***************************************************************************)
Reliable ==
    \A w \in Watcher : \A m, n \in Sent(w), h \in history :
       /\ m < h.rev /\ h.rev < n
       /\ h.key \in Watched[w]
       => h.rev \in Sent(w)
=============================================================================
