--------------------------------- MODULE Ttl ---------------------------------
(***************************************************************************)
(* The expiry of leases (fdb_ttl.go) over the store of Mvcc.  Three        *)
(* goroutines: the feed lists all keys page by page and then watches them  *)
(* (ttlEvents), the main loop enters the leased ones into a map and a      *)
(* delaying queue (ttl), and the handler takes keys from the queue and     *)
(* deletes those whose lease has run out (handleTTLEvents).                *)
(*                                                                         *)
(* Time is not counted: a lease runs out, and a delay is over, at any time *)
(* after it was started.                                                   *)
(***************************************************************************)
EXTENDS Scan

CONSTANTS Key, Value, Lease, Compactor, MaxVersion,   \* as in Mvcc
          PageSize,    \* the records of a page, 1000 in the code
          LastWrite,   \* bound: the last version clients write at
          AllSweeps    \* whether every Compact call may start, or only a
                       \* first one that has something to remove

ASSUME MaxVersionAssumption == MaxVersion \in Nat
ASSUME KeyAssumption == Key \subseteq Nat \ {0}
ASSUME LeaseAssumption == Lease \subseteq Nat
ASSUME PageAssumption == PageSize \in Nat \ {0}
ASSUME SweepsAssumption == AllSweeps \in BOOLEAN

VARIABLES version, history, records, compactRev, sweep,   \* of Mvcc
          feedPc,       \* where the feed is
          rev,          \* the revision of its list, 0 before the first page
          startKey,     \* the key its next page begins behind
          collector,    \* the collector of the page it reads
          page,         \* the records the page has so far
          pending,      \* the leased records it has still to send
          cursor,       \* the revision its watch has come to
          adding,       \* the key the main loop is about to add to the queue
          ttlEventKVMap,   \* modRevision, 0 for no entry, and expired
          waiting,      \* the delaying queue: keys whose delay runs,
          ready,        \* and keys whose delay is over
          handler,      \* where the handler is, its key, modRevision, error
          lapsed,       \* revisions whose lease has run out (auxiliary)
          forgotten     \* revisions lost to the causes below (auxiliary)

store == <<version, history, records, compactRev, sweep>>
feed == <<feedPc, rev, startKey, collector, page, pending, cursor>>
queue == <<waiting, ready>>
vars == <<store, feed, adding, ttlEventKVMap, queue, handler, lapsed, forgotten>>

S == INSTANCE Mvcc

NoEntry == [modRevision |-> 0, expired |-> FALSE]

Idle == [pc |-> "get", key |-> 0, modRevision |-> 0, err |-> FALSE]

TypeOK ==
    /\ S!TypeOK
    /\ feedPc \in {"list", "send", "watch", "watching"}
    /\ rev \in Nat /\ cursor \in Nat
    /\ startKey \in Key \cup {0}
    /\ page \subseteq history /\ pending \subseteq history
    /\ adding \subseteq Key
    /\ ttlEventKVMap \in [Key -> [modRevision : Nat, expired : BOOLEAN]]
    /\ waiting \subseteq Key /\ ready \subseteq Key
    /\ handler.pc \in {"get", "delete", "after"}
    /\ handler.key \in Key \cup {0} /\ handler.modRevision \in Nat
    /\ lapsed \subseteq Nat /\ forgotten \subseteq Nat

-----------------------------------------------------------------------------
(***************************************************************************)
(* The feed.  Its channel is closed and the main loop starts a new one: it *)
(* lists from the beginning, and finds again what was forgotten.           *)
(***************************************************************************)
Relist ==
    /\ feedPc' = "list"
    /\ rev' = 0 /\ startKey' = 0 /\ cursor' = 0
    /\ collector' = NewRecordCollector
    /\ page' = {} /\ pending' = {}
    /\ forgotten' = {}

Request ==
    [keys |-> {k \in Key : k > startKey}, limit |-> PageSize,
     maxRevision |-> rev]

Compacted(n) == n > 0 /\ n < compactRev

(***************************************************************************)
(* The page is complete: its leased records are sent, and the next page    *)
(* begins behind its last record.  An empty page ends the list.            *)
(***************************************************************************)
LastKey(P) == CHOOSE k \in {r.key : r \in P} : \A r \in P : r.key <= k

EndPage(P, n) ==
    /\ rev' = IF rev = 0 THEN n ELSE rev
    /\ collector' = NewRecordCollector
    /\ page' = {}
    /\ IF P = {}
         THEN feedPc' = "watch" /\ UNCHANGED <<startKey, pending>>
         ELSE /\ feedPc' = "send"
              /\ startKey' = LastKey(P)
              /\ pending' = {r \in P : r.lease > 0}
    /\ UNCHANGED cursor

(***************************************************************************)
(* First cause of a forgotten lease: the record a page has beyond its      *)
(* limit is the oldest of its key, and the next page skips the key.        *)
(***************************************************************************)
PassedOver(P, n) ==
    {h.rev : h \in {h \in history :
        /\ Cardinality(P) > PageSize
        /\ h.key = LastKey(P) /\ h \notin P
        /\ h.rev < n}}

(***************************************************************************)
(* Second cause: ttlEvents looks at the error of a page only when the page *)
(* has records; with none, the list ends as if it were complete.           *)
(***************************************************************************)
Unlisted == {h.rev : h \in {h \in history : h.key > startKey /\ h.rev < rev}}

(***************************************************************************)
(* One batch of a page; its error, here, is that its revision is           *)
(* compacted.                                                              *)
(***************************************************************************)
ListBatch ==
    /\ feedPc = "list"
    /\ \E b \in Batches(records, Request, collector, version) :
          LET P == page \cup {g.rec : g \in b.given} IN
          \/ /\ Compacted(rev) /\ P # {}
             /\ Relist
          \/ /\ IF Compacted(rev) THEN P = {} ELSE b.isLast
             /\ EndPage(P, b.next.firstRev)
             /\ forgotten' = forgotten \cup PassedOver(P, rev')
                               \cup (IF Compacted(rev) THEN Unlisted ELSE {})
          \/ /\ ~Compacted(rev) /\ ~b.isLast
             /\ page' = P
             /\ collector' = b.next
             /\ UNCHANGED <<feedPc, rev, startKey, pending, cursor, forgotten>>
    /\ UNCHANGED <<store, adding, ttlEventKVMap, queue, handler, lapsed>>

(***************************************************************************)
(* A page fails for another reason.                                        *)
(***************************************************************************)
PageFails ==
    /\ feedPc = "list"
    /\ \/ Relist
       \/ /\ page = {}
          /\ feedPc' = "watch"
          /\ collector' = NewRecordCollector
          /\ forgotten' = forgotten \cup Unlisted
          /\ UNCHANGED <<rev, startKey, page, pending, cursor>>
    /\ UNCHANGED <<store, adding, ttlEventKVMap, queue, handler, lapsed>>

NextPage ==
    /\ feedPc = "send" /\ pending = {}
    /\ feedPc' = "list"
    /\ UNCHANGED <<store, rev, startKey, collector, page, pending, cursor, adding,
                   ttlEventKVMap, queue, handler, lapsed, forgotten>>

(***************************************************************************)
(* Watch from the revision of the list: it begins one below it, or finds   *)
(* it compacted.  A Watch that fails, or whose subscription is dropped,    *)
(* never closes its channel: the feed stays where it is, which it may do   *)
(* at any time here.                                                       *)
(***************************************************************************)
FromRevision == IF rev > 0 THEN rev - 1 ELSE rev

Watch ==
    /\ feedPc = "watch"
    /\ IF Compacted(FromRevision)
         THEN Relist
         ELSE /\ feedPc' = "watching"
              /\ cursor' = FromRevision
              /\ UNCHANGED <<rev, startKey, collector, page, pending, forgotten>>
    /\ UNCHANGED <<store, adding, ttlEventKVMap, queue, handler, lapsed>>

(***************************************************************************)
(* The next event of the watch, by the promise of module Watch: in order,  *)
(* and none skipped that the store still holds.                            *)
(***************************************************************************)
WatchEvent ==
    /\ feedPc = "watching" /\ pending = {}
    /\ \E h \in history :
          /\ h.rev > cursor
          /\ \A r \in records : r.rev <= cursor \/ h.rev <= r.rev
          /\ cursor' = h.rev
          /\ pending' = {r \in {h} : r.lease > 0}
    /\ UNCHANGED <<store, feedPc, rev, startKey, collector, page, adding,
                   ttlEventKVMap, queue, handler, lapsed, forgotten>>

-----------------------------------------------------------------------------
Live(k) == {r \in S!GetLast(k) : ~r.isDelete}

(***************************************************************************)
(* The main loop.  It receives an event from the feed's channel, which has *)
(* no buffer, and enters the key unless it knows this revision or a newer  *)
(* one; the key is added to the queue afterwards.                          *)
(***************************************************************************)
IsNews_OnlyNew(r) == ~r.isDelete /\ ttlEventKVMap[r.key] = NoEntry

IsNews(r) ==
    /\ ~r.isDelete
    /\ ttlEventKVMap[r.key].modRevision < r.rev

Receive ==
    /\ adding = {}
    /\ \E r \in pending :
          /\ \A s \in pending : ~Before(s, r)
          /\ pending' = pending \ {r}
          /\ IF IsNews(r)
               THEN /\ ttlEventKVMap' = [ttlEventKVMap EXCEPT ![r.key] =
                          [modRevision |-> r.rev, expired |-> FALSE]]
                    /\ adding' = {r.key}
               ELSE UNCHANGED <<ttlEventKVMap, adding>>
    /\ UNCHANGED <<store, feedPc, rev, startKey, collector, page, cursor, queue,
                   handler, lapsed, forgotten>>

AddAfter ==
    /\ adding # {}
    /\ waiting' = waiting \cup adding
    /\ adding' = {}
    /\ UNCHANGED <<store, feed, ttlEventKVMap, ready, handler, lapsed, forgotten>>

-----------------------------------------------------------------------------
(***************************************************************************)
(* Time passes: the lease of an entry runs out; a delay is over.           *)
(***************************************************************************)
Expire(k) ==
    /\ ttlEventKVMap[k] # NoEntry
    /\ ~ttlEventKVMap[k].expired
    /\ ttlEventKVMap' = [ttlEventKVMap EXCEPT ![k].expired = TRUE]
    /\ lapsed' = lapsed \cup {ttlEventKVMap[k].modRevision}
    /\ UNCHANGED <<store, feed, adding, queue, handler, forgotten>>

Due(k) ==
    /\ k \in waiting
    /\ waiting' = waiting \ {k}
    /\ ready' = ready \cup {k}
    /\ UNCHANGED <<store, feed, adding, ttlEventKVMap, handler, lapsed, forgotten>>

(***************************************************************************)
(* The handler takes a key: it has no entry, it is not yet due and waits   *)
(* again, or its entry is to be deleted.                                   *)
(***************************************************************************)
Get(k) ==
    /\ handler.pc = "get" /\ k \in ready
    /\ ready' = ready \ {k}
    /\ LET entry == ttlEventKVMap[k] IN
       \/ entry = NoEntry /\ UNCHANGED <<waiting, handler>>
       \/ /\ entry # NoEntry /\ ~entry.expired
          /\ waiting' = waiting \cup {k}
          /\ UNCHANGED handler
       \/ /\ entry.expired
          /\ handler' = [pc |-> "delete", key |-> k,
                         modRevision |-> entry.modRevision, err |-> FALSE]
          /\ UNCHANGED waiting
    /\ UNCHANGED <<store, feed, adding, ttlEventKVMap, lapsed, forgotten>>

(***************************************************************************)
(* Delete(key, modRevision): it deletes the revision it was given, or      *)
(* finds another one and changes nothing; neither is an error.             *)
(***************************************************************************)
Guarded_Unguarded(k, m) ==
    IF Live(k) # {} THEN S!Delete(k) ELSE UNCHANGED store

Guarded(k, m) ==
    IF \E r \in Live(k) : r.rev = m THEN S!Delete(k) ELSE UNCHANGED store

Delete ==
    /\ handler.pc = "delete"
    /\ Guarded(handler.key, handler.modRevision)
    /\ handler' = [handler EXCEPT !.pc = "after"]
    /\ UNCHANGED <<feed, adding, ttlEventKVMap, queue, lapsed, forgotten>>

(***************************************************************************)
(* It fails; its transaction may have been committed all the same.         *)
(***************************************************************************)
DeleteFails ==
    /\ handler.pc = "delete"
    /\ Guarded(handler.key, handler.modRevision) \/ UNCHANGED store
    /\ handler' = [handler EXCEPT !.pc = "after", !.err = TRUE]
    /\ UNCHANGED <<feed, adding, ttlEventKVMap, queue, lapsed, forgotten>>

AfterDelete_NoRetry ==   \* a failed delete is dropped
    /\ handler.pc = "after"
    /\ handler' = Idle
    /\ IF handler.err
         THEN UNCHANGED <<ttlEventKVMap, forgotten>>
         ELSE /\ ttlEventKVMap' = [ttlEventKVMap EXCEPT ![handler.key] = NoEntry]
              /\ UNCHANGED forgotten
    /\ UNCHANGED <<store, feed, adding, queue, lapsed>>

(***************************************************************************)
(* The rest of deleteTTLEvent.  The entry compared is the one the handler  *)
(* started with, which has expired: so a failed delete is tried again, and *)
(* otherwise the entry goes.  Third cause of a forgotten lease: the entry  *)
(* that goes is the current one, renewed or not.                           *)
(***************************************************************************)
AfterDelete ==
    /\ handler.pc = "after"
    /\ handler' = Idle
    /\ IF handler.err
         THEN /\ waiting' = waiting \cup {handler.key}
              /\ UNCHANGED <<ttlEventKVMap, forgotten>>
         ELSE /\ ttlEventKVMap' = [ttlEventKVMap EXCEPT ![handler.key] = NoEntry]
              /\ forgotten' = forgotten \cup
                   ({ttlEventKVMap[handler.key].modRevision} \ {handler.modRevision})
              /\ UNCHANGED waiting
    /\ UNCHANGED <<store, feed, adding, ready, lapsed>>

-----------------------------------------------------------------------------
(***************************************************************************)
(* The clients, and Compact calls up to the current revision, which may    *)
(* end after any batch.  They stop at LastWrite, which leaves versions for *)
(* the deletes of the handler.                                             *)
(***************************************************************************)
Client ==
    /\ version < LastWrite
    /\ \/ S!Write
       \/ \E p \in Compactor :
             /\ AllSweeps \/ (compactRev = 0 /\ S!Doomed(records) # {})
             /\ S!StartSweep(p, version)
       \/ \E p \in Compactor : S!SweepBatch(p) \/ S!StopSweep(p)
    /\ UNCHANGED <<feed, adding, ttlEventKVMap, queue, handler, lapsed, forgotten>>

Init ==
    /\ S!Init
    /\ feedPc = "list"
    /\ rev = 0 /\ startKey = 0 /\ cursor = 0
    /\ collector = NewRecordCollector
    /\ page = {} /\ pending = {} /\ adding = {}
    /\ ttlEventKVMap = [k \in Key |-> NoEntry]
    /\ waiting = {} /\ ready = {}
    /\ handler = Idle
    /\ lapsed = {} /\ forgotten = {}

Feed == ListBatch \/ PageFails \/ NextPage \/ Watch \/ WatchEvent

Handler ==
    \/ \E k \in Key : Get(k)
    \/ Delete \/ DeleteFails \/ AfterDelete

Next ==
    \/ Client
    \/ Feed \/ Receive \/ AddAfter
    \/ \E k \in Key : Expire(k) \/ Due(k)
    \/ Handler

Spec == Init /\ [][Next]_vars

-----------------------------------------------------------------------------
(***************************************************************************)
(* No lease is cut short: the record that deleteTTLEvent deletes is one    *)
(* whose own lease has run out, never the renewal a client wrote while the *)
(* handler was on its way, whatever the feed had told of it.               *)
(***************************************************************************)
NeverEarly ==
    [][\A h \in history' \ history :
          handler.pc = "delete" /\ handler'.pc = "after"
             => h.prevRevision \in lapsed]_vars

(***************************************************************************)
(* No entry is left without an appointment: whatever the order in which    *)
(* the main loop and the handler work on a key, a key in ttlEventKVMap is  *)
(* in the queue, in the hands of the handler, or about to be added.        *)
(***************************************************************************)
EntriesScheduled ==
    \A k \in Key : ttlEventKVMap[k] # NoEntry =>
       k \in waiting \cup ready \cup adding \cup {handler.key}

(***************************************************************************)
(* List and watch together miss no lease: once the feed watches, the live  *)
(* leased record of a key is in ttlEventKVMap with its own revision, on    *)
(* its way there, or still to come from the watch -- but for the three     *)
(* causes that forget one.                                                 *)
(***************************************************************************)
LeasesKnown ==
    feedPc = "watching" =>
       \A k \in Key : \A r \in Live(k) :
          \/ r.lease = 0 \/ r.rev > cursor \/ r.rev \in forgotten
          \/ r \in pending
          \/ ttlEventKVMap[k].modRevision = r.rev
=============================================================================
