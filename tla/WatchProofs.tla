----------------------------- MODULE WatchProofs -----------------------------
(***************************************************************************)
(* Proofs about watches, for any number of Watch calls, any prefixes,      *)
(* batch size and channel capacity: events come in order and once, none    *)
(* that the store still holds is skipped, and none that the poll loop has  *)
(* passed is lost on its way to a call.                                    *)
(***************************************************************************)
EXTENDS Watch, TLAPS, WellFoundedInduction

(***************************************************************************)
(* The obligations are small but many: allow for the time they wait.       *)
(***************************************************************************)
USE ZenonT(10), SMTT(20), Z3T(20)

(***************************************************************************)
(* Sequences of batches: the events in one, and that they are in order     *)
(* from batch to batch.                                                    *)
(***************************************************************************)
Elems(s) == UNION {s[i] : i \in DOMAIN s}

Ascending(s) ==
    \A i, j \in DOMAIN s : i < j => \A m \in s[i], n \in s[j] : m < n

(***************************************************************************)
(* The store, as far as watches see it.                                    *)
(***************************************************************************)
StoreOK ==
    /\ version \in Nat
    /\ records \subseteq history
    /\ \A h \in history : h.rev \in Nat /\ h.rev <= version
    /\ \A g, h \in history : g.rev = h.rev => g = h

(***************************************************************************)
(* The revision the poll loop goes on from.  Between startWatch and the    *)
(* first step of the goroutine that is not lastWatchRev yet.               *)
(***************************************************************************)
Cursor == IF pollPc = "start" THEN pollStart ELSE lastWatchRev

(***************************************************************************)
(* The poll loop: what it has read and not handed over are all the records *)
(* after its cursor, up to the last one it has read.                       *)
(***************************************************************************)
PollOK ==
    /\ pollStart \in Nat /\ lastWatchRev \in Nat /\ lastWatchRev <= Cursor
    /\ Cursor \in Nat /\ Cursor <= version
    /\ batch \subseteq Nat /\ stream \subseteq Nat
    /\ \A b \in batch : Cursor < b /\ b <= version
    /\ \A b \in batch, r \in records :
          Cursor < r.rev /\ r.rev <= b => r.rev \in batch
    /\ batch # {} <=> pollPc = "publish"
    /\ \A e \in stream : e <= Cursor

WatchersOK ==
    /\ wpc \in [Watcher -> {"idle", "reading", "running",
                            "compacted", "failed", "closed"}]
    /\ minRevision \in [Watcher -> Nat]
    /\ after \in [Watcher -> AfterCollector]
    /\ lastRevision \in [Watcher -> Nat]
    /\ subscribed \in [Watcher -> BOOLEAN]
    /\ values \in [Watcher -> Seq(Batch)]
    /\ delivered \in [Watcher -> Seq(Batch)]

(***************************************************************************)
(* Of every Watch call: the batches on their way to it ascend towards the  *)
(* stream, behind the cursor of the poll loop.                             *)
(***************************************************************************)
ChannelOK(w) ==
    /\ after[w].cursor <= version
    /\ lastRevision[w] <= version
    /\ Ascending(values[w])
    /\ \A e \in Elems(values[w]) : e <= Cursor /\ \A s \in stream : e < s
    /\ wpc[w] # "running" => delivered[w] = <<>>
    /\ subscribed[w] => pollPc # "off"

(***************************************************************************)
(* Of one in its initial read: it has all events up to its cursor.  When   *)
(* the read has a bound, what lies above it is on its way through the      *)
(* channel, up to the cursor of the poll loop while the call is            *)
(* subscribed, and without a gap after it was dropped.                     *)
(***************************************************************************)
ReadingOK(w) ==
    /\ minRevision[w] <= after[w].cursor
    /\ \A e \in after[w].events : e <= after[w].cursor
    /\ \A r \in records : r.key \in Watched[w] =>
          /\ minRevision[w] < r.rev /\ r.rev <= after[w].cursor
               => r.rev \in after[w].events
          /\ after[w].latestRev > 0 /\ after[w].latestRev < r.rev =>
               /\ subscribed[w] /\ r.rev <= Cursor
                    => r.rev \in stream \cup Elems(values[w])
               /\ \A e \in Elems(values[w]) :
                     r.rev < e => r.rev \in Elems(values[w])

(***************************************************************************)
(* Of one that forwards: what it has sent lies before what it will send,   *)
(* its initial events are complete, and so is what is sent and in the      *)
(* channel, up to the cursor of the poll loop while it is subscribed.      *)
(***************************************************************************)
RunningOK(w) ==
    LET sent == Elems(delivered[w])
        channel == Elems(values[w])
    IN  /\ Ascending(delivered[w])
        /\ \A d \in sent :
              /\ d <= lastRevision[w] \/ d <= Cursor
              /\ \A e \in stream \cup channel : e > lastRevision[w] => d < e
        /\ \A r \in records : r.key \in Watched[w] /\ minRevision[w] < r.rev =>
              /\ r.rev <= lastRevision[w] => r.rev \in sent
              /\ subscribed[w] /\ r.rev <= Cursor
                   => r.rev \in sent \cup stream \cup channel
              /\ \A e \in sent \cup channel :
                    r.rev < e => r.rev \in sent \cup channel

WInv(w) ==
    /\ ChannelOK(w)
    /\ wpc[w] = "reading" => ReadingOK(w)
    /\ wpc[w] = "running" => RunningOK(w)

(***************************************************************************)
(* The inductive invariant.                                                *)
(***************************************************************************)
IInv ==
    /\ StoreOK
    /\ PollOK
    /\ WatchersOK
    /\ \A w \in Watcher : WInv(w)

-----------------------------------------------------------------------------
(***************************************************************************)
(* Appending a batch that lies after the others, and taking the first one. *)
(***************************************************************************)
LEMMA ElemsAppend ==
    ASSUME NEW s \in Seq(Batch), NEW E \in Batch
    PROVE  /\ Append(s, E) \in Seq(Batch)
           /\ Elems(Append(s, E)) = Elems(s) \cup E
<1>1. Append(s, E) \in Seq(Batch)
  OBVIOUS
<1>2. /\ DOMAIN Append(s, E) = 1 .. Len(s) + 1 /\ DOMAIN s = 1 .. Len(s)
      /\ Len(s) \in Nat
      /\ Append(s, E)[Len(s) + 1] = E
      /\ \A i \in 1 .. Len(s) : Append(s, E)[i] = s[i]
  OBVIOUS
<1>3. ASSUME NEW x \in Elems(Append(s, E)) PROVE x \in Elems(s) \cup E
  <2>1. PICK i \in 1 .. Len(s) + 1 : x \in Append(s, E)[i]
    BY <1>2 DEF Elems
  <2>2. CASE i = Len(s) + 1
    BY <1>2, <2>1, <2>2
  <2>3. CASE i \in 1 .. Len(s)
    BY <1>2, <2>1, <2>3 DEF Elems
  <2> QED
    BY <1>2, <2>2, <2>3
<1>4. ASSUME NEW x \in Elems(s) \cup E PROVE x \in Elems(Append(s, E))
  <2>1. CASE x \in E
    <3>1. Len(s) + 1 \in DOMAIN Append(s, E)
      BY <1>2
    <3> QED
      BY <1>2, <2>1, <3>1 DEF Elems
  <2>2. CASE x \in Elems(s)
    <3>1. PICK i \in 1 .. Len(s) : x \in s[i]
      BY <1>2, <2>2 DEF Elems
    <3>2. i \in DOMAIN Append(s, E) /\ x \in Append(s, E)[i]
      BY <1>2, <3>1
    <3> QED
      BY <3>2 DEF Elems
  <2> QED
    BY <1>4, <2>1, <2>2
<1> QED
  BY <1>1, <1>3, <1>4

(***************************************************************************)
(* A batch that lies after all others may be appended to an ascending      *)
(* sequence.                                                               *)
(***************************************************************************)
LEMMA AscendingAppend ==
    ASSUME NEW s \in Seq(Batch), NEW E \in Batch, Ascending(s),
           \A d \in Elems(s), e \in E : d < e
    PROVE  Ascending(Append(s, E))
<1>1. /\ DOMAIN Append(s, E) = 1 .. Len(s) + 1 /\ DOMAIN s = 1 .. Len(s)
      /\ Len(s) \in Nat
      /\ Append(s, E)[Len(s) + 1] = E
      /\ \A i \in 1 .. Len(s) : Append(s, E)[i] = s[i]
  OBVIOUS
<1> SUFFICES ASSUME NEW i \in 1 .. Len(s) + 1, NEW j \in 1 .. Len(s) + 1, i < j,
                    NEW m \in Append(s, E)[i], NEW n \in Append(s, E)[j]
             PROVE  m < n
  BY <1>1 DEF Ascending
<1>2. i \in 1 .. Len(s) /\ m \in s[i] /\ m \in Elems(s)
  BY <1>1 DEF Elems
<1>3. CASE j = Len(s) + 1
  BY <1>1, <1>2, <1>3
<1>4. CASE j \in 1 .. Len(s)
  BY <1>1, <1>2, <1>4 DEF Ascending
<1> QED
  BY <1>1, <1>3, <1>4

(***************************************************************************)
(* The first batch of an ascending sequence lies before the rest.          *)
(***************************************************************************)
LEMMA HeadTail ==
    ASSUME NEW s \in Seq(Batch), s # <<>>, Ascending(s)
    PROVE  /\ Head(s) \in Batch /\ Tail(s) \in Seq(Batch)
           /\ Elems(s) = Head(s) \cup Elems(Tail(s))
           /\ Ascending(Tail(s))
           /\ \A m \in Head(s), n \in Elems(Tail(s)) : m < n
<1>1. /\ Len(s) \in Nat /\ Len(s) >= 1
      /\ DOMAIN s = 1 .. Len(s) /\ DOMAIN Tail(s) = 1 .. Len(s) - 1
      /\ Head(s) = s[1]
      /\ \A i \in 1 .. Len(s) - 1 : Tail(s)[i] = s[i + 1]
  OBVIOUS
<1>2. Head(s) \in Batch /\ Tail(s) \in Seq(Batch)
  OBVIOUS
<1>3. ASSUME NEW x \in Elems(Tail(s))
      PROVE  \E i \in 2 .. Len(s) : x \in s[i]
  <2>1. PICK i \in 1 .. Len(s) - 1 : x \in Tail(s)[i]
    BY <1>1 DEF Elems
  <2>2. i + 1 \in 2 .. Len(s) /\ x \in s[i + 1]
    BY <1>1, <2>1
  <2> QED
    BY <2>2
<1>4. ASSUME NEW x \in Elems(s) PROVE x \in Head(s) \cup Elems(Tail(s))
  <2>1. PICK i \in 1 .. Len(s) : x \in s[i]
    BY <1>1 DEF Elems
  <2>2. CASE i = 1
    BY <1>1, <2>1, <2>2
  <2>3. CASE i # 1
    <3>1. i - 1 \in 1 .. Len(s) - 1 /\ Tail(s)[i - 1] = s[(i - 1) + 1] /\ (i - 1) + 1 = i
      BY <1>1, <2>3
    <3> QED
      BY <1>1, <2>1, <3>1, ZenonT(30) DEF Elems
  <2> QED
    BY <2>2, <2>3
<1>5. ASSUME NEW x \in Head(s) \cup Elems(Tail(s)) PROVE x \in Elems(s)
  <2>1. CASE x \in Head(s)
    BY <1>1, <2>1 DEF Elems
  <2>2. CASE x \in Elems(Tail(s))
    <3>1. PICK i \in 2 .. Len(s) : x \in s[i]
      BY <1>3, <2>2
    <3> QED
      BY <1>1, <3>1 DEF Elems
  <2> QED
    BY <1>5, <2>1, <2>2
<1>6. Ascending(Tail(s))
  <2> SUFFICES ASSUME NEW i \in 1 .. Len(s) - 1, NEW j \in 1 .. Len(s) - 1, i < j,
                      NEW m \in Tail(s)[i], NEW n \in Tail(s)[j]
               PROVE  m < n
    BY <1>1 DEF Ascending
  <2>1. /\ i + 1 \in 1 .. Len(s) /\ j + 1 \in 1 .. Len(s) /\ i + 1 < j + 1
        /\ m \in s[i + 1] /\ n \in s[j + 1]
    BY <1>1
  <2> QED
    BY <1>1, <2>1 DEF Ascending
<1>7. ASSUME NEW m \in Head(s), NEW n \in Elems(Tail(s)) PROVE m < n
  <2>1. PICK i \in 2 .. Len(s) : n \in s[i]
    BY <1>3
  <2>2. 1 \in 1 .. Len(s) /\ i \in 1 .. Len(s) /\ 1 < i
    BY <1>1
  <2> QED
    BY <1>1, <2>1, <2>2 DEF Ascending
<1> QED
  BY <1>2, <1>4, <1>5, <1>6, <1>7

(***************************************************************************)
(* A nonempty set of numbers up to n has a greatest element.               *)
(***************************************************************************)
LEMMA GreatestExists ==
    ASSUME NEW n \in Nat, NEW T \in SUBSET Nat, \A x \in T : x <= n, T # {}
    PROVE  \E m \in T : \A x \in T : x <= m
<1> DEFINE R == OpToRel(<, Nat)
           D == {d \in Nat : \E x \in T : d + x = n}
<1>1. IsWellFoundedOn(R, Nat)
  BY NatLessThanWellFounded, ZenonT(30)
<1>2. D \subseteq Nat /\ D # {}
  <2>1. PICK x \in T : TRUE
    BY ZenonT(30)
  <2>2. n - x \in D
    BY <2>1
  <2> QED
    BY <2>2, ZenonT(30)
<1>3. PICK d \in D : \A e \in D : ~(<<e, d>> \in R)
  <2> HIDE DEF R, D
  <2> QED BY <1>1, <1>2, WFMin, ZenonT(30)
<1>4. \A e \in D : ~(e < d)
  BY <1>3, ZenonT(30) DEF OpToRel
<1>5. PICK m \in T : d + m = n
  OBVIOUS
<1>6. ASSUME NEW x \in T
      PROVE  x <= m
  <2>1. n - x \in D
    BY <1>6
  <2>2. ~(n - x < d)
    BY <2>1, <1>4
  <2> QED
    BY <2>2, <1>5
<1> QED
  BY <1>6

(***************************************************************************)
(* The last event of a batch.                                              *)
(***************************************************************************)
LEMMA MaxOf ==
    ASSUME NEW E \in SUBSET Nat, E # {}, NEW n \in Nat, \A e \in E : e <= n
    PROVE  Max(E) \in E /\ \A e \in E : e <= Max(E)
<1>1. PICK m \in E : \A e \in E : e <= m
  BY GreatestExists, ZenonT(30)
<1>2. \A e \in E : m >= e
  BY <1>1
<1> QED
  BY <1>2, ZenonT(30) DEF Max

(***************************************************************************)
(* Events are revisions.                                                   *)
(***************************************************************************)
LEMMA ElemsTyped ==
    ASSUME NEW s \in Seq(Batch)
    PROVE  Elems(s) \subseteq Nat
  BY DEF Elems, Batch, Rev

-----------------------------------------------------------------------------
(***************************************************************************)
(* What a step of the store does to a reader: the records it has are kept  *)
(* or removed, and new ones come after the current version.                *)
(***************************************************************************)
Grows ==
    /\ version' \in Nat /\ version <= version'
    /\ \A r \in records' : r.rev \in Nat /\ (r \in records \/ r.rev > version)

(***************************************************************************)
(* Every step of the store, and none at all, does no more than that.       *)
(***************************************************************************)
LEMMA StoreGrows ==
    ASSUME StoreOK, S!Next \/ UNCHANGED store
    PROVE  StoreOK' /\ Grows
<1>1. CASE \E r : S!AppendRecord(r) /\ r.rev = version + 1
  <2>1. PICK r : S!AppendRecord(r) /\ r.rev = version + 1
    BY <1>1
  <2>2. /\ version' = version + 1 /\ version \in Nat
        /\ history' = history \cup {r} /\ records' = records \cup {r}
    BY <2>1 DEF S!AppendRecord, StoreOK
  <2>3. \A h \in history : h.rev # r.rev
    BY <2>1, <2>2 DEF StoreOK
  <2> QED
    BY <2>1, <2>2, <2>3 DEF StoreOK, Grows
<1>2. CASE S!Compact
  <2>1. UNCHANGED history /\ records' \subseteq records
    BY <1>2, ZenonT(30) DEF S!Compact, S!StartSweep, S!SweepBatch, S!StopSweep
  <2>2. version' \in {version, version + 1}
    BY <1>2 DEF S!Compact, S!StartSweep, S!SweepBatch, S!StopSweep
  <2> QED
    BY <2>1, <2>2 DEF StoreOK, Grows
<1>3. CASE S!Tick
  BY <1>3 DEF S!Tick, StoreOK, Grows
<1>4. CASE UNCHANGED store
  BY <1>4 DEF store, StoreOK, Grows
<1>5. ASSUME S!Write PROVE \E r : S!AppendRecord(r) /\ r.rev = version + 1
  <2>1. ASSUME NEW k \in Key, NEW v \in Value, NEW l \in Lease, S!Create(k, v, l)
        PROVE  \E r : S!AppendRecord(r) /\ r.rev = version + 1
    <3> DEFINE new(prev) == S!CreateRecord(version + 1, k, v, l, prev)
    <3>1. \A prev : new(prev).rev = version + 1
      BY DEF S!CreateRecord
    <3>2. \E prev : S!AppendRecord(new(prev))
      BY <2>1 DEF S!Create
    <3> HIDE DEF new
    <3> QED
      BY <3>1, <3>2
  <2>2. ASSUME NEW k \in Key, NEW v \in Value, NEW l \in Lease, S!Update(k, v, l)
        PROVE  \E r : S!AppendRecord(r) /\ r.rev = version + 1
    BY <2>2 DEF S!Update, S!UpdateRecord
  <2>3. ASSUME NEW k \in Key, S!Delete(k)
        PROVE  \E r : S!AppendRecord(r) /\ r.rev = version + 1
    BY <2>3 DEF S!Delete, S!DeleteRecord
  <2> QED
    BY <1>5, <2>1, <2>2, <2>3 DEF S!Write
<1> QED
  BY <1>1, <1>2, <1>3, <1>4, <1>5 DEF S!Next

(***************************************************************************)
(* A step that does not touch a Watch call or the stream keeps its         *)
(* invariant, also when the cursor of the poll loop moves over no record.  *)
(***************************************************************************)
Same(w) ==
    /\ wpc'[w] = wpc[w] /\ minRevision'[w] = minRevision[w]
    /\ after'[w] = after[w] /\ lastRevision'[w] = lastRevision[w]
    /\ subscribed'[w] = subscribed[w]
    /\ values'[w] = values[w] /\ delivered'[w] = delivered[w]

Types(w) ==
    /\ minRevision[w] \in Nat /\ lastRevision[w] \in Nat
    /\ after[w] \in AfterCollector
    /\ after[w].cursor \in Nat /\ after[w].latestRev \in Nat
    /\ after[w].events \subseteq Nat
    /\ subscribed[w] \in BOOLEAN
    /\ values[w] \in Seq(Batch) /\ delivered[w] \in Seq(Batch)
    /\ Elems(values[w]) \subseteq Nat /\ Elems(delivered[w]) \subseteq Nat

(***************************************************************************)
(* WatchersOK, for one call.                                               *)
(***************************************************************************)
LEMMA WatcherTypes ==
    ASSUME WatchersOK, NEW w \in Watcher PROVE Types(w)
  BY ElemsTyped DEF WatchersOK, Types, AfterCollector, Batch, Rev

(***************************************************************************)
(* The lemma about such steps.                                             *)
(***************************************************************************)
LEMMA Frame ==
    ASSUME StoreOK, PollOK, WatchersOK, NEW w \in Watcher, WInv(w),
           Same(w), Grows, stream' = stream,
           Cursor' \in Nat, Cursor <= Cursor',
           pollPc # "off" => pollPc' # "off",
           subscribed[w] => \A r \in records' :
              r.rev <= Cursor' => r \in records /\ r.rev <= Cursor
    PROVE  WInv(w)'
<1>0. /\ Types(w) /\ version \in Nat /\ Cursor \in Nat /\ Cursor <= version
      /\ stream \subseteq Nat
      /\ \A r \in records : r.rev \in Nat
      /\ \A r \in records' : r.rev \in Nat /\ (r \in records \/ r.rev > version)
      /\ version' \in Nat /\ version <= version'
  BY WatcherTypes DEF StoreOK, PollOK, Grows
<1>1. ChannelOK(w)'
  BY <1>0 DEF WInv, ChannelOK, Same, Types
<1>2. ASSUME wpc[w] = "reading" PROVE ReadingOK(w)'
  <2>1. ReadingOK(w) /\ ChannelOK(w)
    BY <1>2 DEF WInv
  <2>2. /\ minRevision[w] <= after[w].cursor
        /\ \A e \in after[w].events : e <= after[w].cursor
    BY <2>1 DEF ReadingOK
  <2>3. ASSUME NEW r \in records', r.key \in Watched[w],
               minRevision[w] < r.rev, r.rev <= after[w].cursor
        PROVE  r.rev \in after[w].events
    <3>1. r \in records
      BY <1>0, <2>1, <2>3 DEF ChannelOK, Types
    <3> QED
      BY <2>1, <2>3, <3>1 DEF ReadingOK
  <2>4. ASSUME NEW r \in records', r.key \in Watched[w],
               after[w].latestRev > 0, after[w].latestRev < r.rev,
               subscribed[w], r.rev <= Cursor'
        PROVE  r.rev \in stream \cup Elems(values[w])
    BY <2>1, <2>4 DEF ReadingOK
  <2>5. ASSUME NEW r \in records', r.key \in Watched[w],
               after[w].latestRev > 0, after[w].latestRev < r.rev,
               NEW e \in Elems(values[w]), r.rev < e
        PROVE  r.rev \in Elems(values[w])
    <3>1. e <= Cursor /\ e \in Nat
      BY <1>0, <2>1 DEF ChannelOK, Types
    <3>2. r \in records
      BY <1>0, <2>5, <3>1
    <3> QED
      BY <2>1, <2>5, <3>2 DEF ReadingOK
  <2> QED
    BY <2>2, <2>3, <2>4, <2>5 DEF ReadingOK, Same
<1>3. ASSUME wpc[w] = "running" PROVE RunningOK(w)'
  <2> DEFINE sent == Elems(delivered[w])
             channel == Elems(values[w])
  <2>1. RunningOK(w) /\ ChannelOK(w)
    BY <1>3 DEF WInv
  <2>2. \A d \in sent : d <= lastRevision[w] \/ d <= Cursor
    BY <2>1 DEF RunningOK
  <2>3. \A d \in sent \cup channel : d \in Nat /\ d <= version
    <3>1. /\ lastRevision[w] \in Nat /\ lastRevision[w] <= version
          /\ \A d \in channel : d \in Nat /\ d <= Cursor
          /\ \A d \in sent : d \in Nat
      BY <1>0, <2>1, ZenonT(30) DEF ChannelOK, Types
    <3> HIDE DEF sent, channel
    <3> QED
      BY <1>0, <2>2, <3>1
  <2>4. ASSUME NEW r \in records', r.key \in Watched[w], minRevision[w] < r.rev,
               r.rev <= lastRevision[w]
        PROVE  r.rev \in sent
    <3>1. r \in records
      BY <1>0, <2>1, <2>4 DEF ChannelOK, Types
    <3> QED
      BY <2>1, <2>4, <3>1 DEF RunningOK
  <2>5. ASSUME NEW r \in records', r.key \in Watched[w], minRevision[w] < r.rev,
               subscribed[w], r.rev <= Cursor'
        PROVE  r.rev \in sent \cup stream \cup channel
    BY <2>1, <2>5 DEF RunningOK
  <2>6. ASSUME NEW r \in records', r.key \in Watched[w], minRevision[w] < r.rev,
               NEW e \in sent \cup channel, r.rev < e
        PROVE  r.rev \in sent \cup channel
    <3>1. r \in records
      BY <1>0, <2>3, <2>6
    <3> QED
      BY <2>1, <2>6, <3>1 DEF RunningOK
  <2>7. \A d \in sent : d <= lastRevision[w] \/ d <= Cursor'
    BY <1>0, <2>2, <2>3
  <2>8. /\ Ascending(delivered[w])
        /\ \A d \in sent : \A e \in stream \cup channel : e > lastRevision[w] => d < e
    BY <2>1 DEF RunningOK
  <2> HIDE DEF sent, channel
  <2>9. sent = Elems(delivered'[w]) /\ channel = Elems(values'[w])
    BY DEF sent, channel, Same
  <2> QED
    BY <2>4, <2>5, <2>6, <2>7, <2>8, <2>9 DEF RunningOK, Same
<1> QED
  BY <1>1, <1>2, <1>3 DEF WInv, Same
-----------------------------------------------------------------------------
(***************************************************************************)
(* The invariant holds when the shim starts.                               *)
(***************************************************************************)
LEMMA InitIInv == Init => IInv
<1> SUFFICES ASSUME Init PROVE IInv
  OBVIOUS
<1>1. StoreOK
  <2>1. \A h \in history : h.rev = 1
    BY DEF Init, S!Init, S!CreateRecord
  <2>2. version = 1 /\ records = history /\ \A g, h \in history : g = h
    BY DEF Init, S!Init
  <2> QED
    BY <2>1, <2>2 DEF StoreOK
<1>2. version = 1
  BY DEF Init, S!Init
<1>3. PollOK
  BY <1>2 DEF Init, PollOK, Cursor
<1>4. WatchersOK
  BY DEF Init, WatchersOK, NewAfterCollector, AfterCollector, Batch, Rev
<1>5. ASSUME NEW w \in Watcher PROVE WInv(w)
  <2>1. Elems(<<>>) = {} /\ Ascending(<<>>)
    BY DEF Elems, Ascending
  <2> QED
    BY <1>2, <2>1 DEF Init, WInv, ChannelOK, NewAfterCollector
<1> QED
  BY <1>1, <1>3, <1>4, <1>5 DEF IInv

(***************************************************************************)
(* The records the poll loop has read stay the complete ones when the      *)
(* store grows.                                                            *)
(***************************************************************************)
LEMMA PollFrame ==
    ASSUME StoreOK, PollOK, Grows, Cursor' = Cursor, UNCHANGED <<batch, stream>>,
           pollStart' \in Nat, lastWatchRev' \in Nat, lastWatchRev' <= Cursor,
           pollPc = "publish" <=> pollPc' = "publish"
    PROVE  PollOK'
<1>1. /\ version \in Nat /\ version' \in Nat /\ version <= version'
      /\ \A r \in records' : r.rev \in Nat /\ (r \in records \/ r.rev > version)
  BY DEF StoreOK, Grows
<1>2. ASSUME NEW b \in batch, NEW r \in records', Cursor < r.rev, r.rev <= b
      PROVE  r.rev \in batch
  BY <1>1, <1>2 DEF PollOK
<1> QED
  BY <1>1, <1>2 DEF PollOK

(***************************************************************************)
(* A write or a compaction, by this shim or another.                       *)
(***************************************************************************)
LEMMA StoreStepIInv == ASSUME IInv, StoreStep PROVE IInv'
<1>1. StoreOK' /\ Grows
  BY StoreGrows DEF IInv, StoreStep
<1>2. UNCHANGED <<poll, stream, watches>> /\ Cursor' = Cursor
  BY DEF StoreStep, poll, Cursor
<1>3. PollOK'
  <2>1. PollOK
    BY DEF IInv
  <2>2. /\ pollStart' \in Nat /\ lastWatchRev' \in Nat /\ lastWatchRev' <= Cursor
        /\ pollPc' = pollPc /\ UNCHANGED <<batch, stream>>
    BY <1>2, <2>1 DEF PollOK, poll
  <2> QED
    BY <1>1, <1>2, <2>1, <2>2, PollFrame DEF IInv
<1>4. WatchersOK'
  BY <1>2 DEF IInv, WatchersOK, watches
<1>5. ASSUME NEW w \in Watcher PROVE WInv(w)'
  <2>1. Same(w)
    BY <1>2 DEF Same, watches
  <2>2. \A r \in records' : r.rev <= Cursor => r \in records
    BY <1>1 DEF IInv, PollOK, Grows, StoreOK
  <2>3. StoreOK /\ PollOK /\ WatchersOK /\ WInv(w)
    BY DEF IInv
  <2>4. /\ Cursor' = Cursor /\ Cursor \in Nat
        /\ pollPc' = pollPc /\ stream' = stream
    BY <1>2 DEF IInv, PollOK, poll
  <2>5. Cursor <= Cursor'
    BY <2>4
  <2> QED
    BY <1>1, <2>1, <2>2, <2>3, <2>4, <2>5, Frame
<1> QED
  BY <1>1, <1>3, <1>4, <1>5 DEF IInv

(***************************************************************************)
(* The steps of the poll loop that neither read nor hand over events.      *)
(***************************************************************************)
LEMMA NoGrowth == ASSUME StoreOK, UNCHANGED store PROVE StoreOK' /\ Grows
  BY StoreGrows

(***************************************************************************)
(* They keep the invariant.                                                *)
(***************************************************************************)
LEMMA QuietIInv ==
    ASSUME IInv, UNCHANGED <<store, batch, stream, watches>>, Cursor' = Cursor,
           pollStart' \in Nat, lastWatchRev' \in Nat, lastWatchRev' <= Cursor,
           pollPc # "off" => pollPc' # "off",
           pollPc = "publish" <=> pollPc' = "publish"
    PROVE  IInv'
<1>1. StoreOK' /\ Grows
  BY NoGrowth DEF IInv
<1>2. PollOK'
  BY <1>1, PollFrame DEF IInv
<1>3. WatchersOK'
  BY DEF IInv, WatchersOK, watches
<1>4. ASSUME NEW w \in Watcher PROVE WInv(w)'
  <2>1. Same(w)
    BY DEF Same, watches
  <2>2. StoreOK /\ PollOK /\ WatchersOK /\ WInv(w)
    BY DEF IInv
  <2>3. Cursor' \in Nat /\ Cursor <= Cursor'
    BY DEF IInv, PollOK
  <2>4. records' = records
    BY DEF store
  <2> QED
    BY <1>1, <2>1, <2>2, <2>3, <2>4, Frame
<1> QED
  BY <1>1, <1>2, <1>3, <1>4 DEF IInv

(***************************************************************************)
(* afterBatch of the poll loop: the events it reads are all there are up   *)
(* to the last of them, and with none the cursor passes no record.         *)
(***************************************************************************)
LEMMA PollReadIInv == ASSUME IInv, PollRead PROVE IInv'
<1>1. /\ UNCHANGED store /\ UNCHANGED watches /\ stream' = stream /\ pollPc = "read"
      /\ pollStart' = pollStart
  BY DEF PollRead
<1>0. Cursor = lastWatchRev /\ Cursor' = lastWatchRev'
  <2>1. pollPc' # "start"
    BY DEF PollRead
  <2> QED
    BY <1>1, <2>1 DEF Cursor
<1>2. StoreOK' /\ Grows
  BY <1>1, NoGrowth DEF IInv
<1>3. WatchersOK'
  BY <1>1 DEF IInv, WatchersOK, watches
<1>4. StoreOK /\ PollOK /\ WatchersOK /\ batch = {}
  BY <1>1 DEF IInv, PollOK
<1>5. UNCHANGED <<version, records>>
  BY <1>1 DEF store
<1>6. CASE /\ After(Cursor) = {} /\ Cursor' = version
           /\ pollPc' = "wait" /\ UNCHANGED batch
  <2>1. \A r \in records : r.rev <= Cursor
    <3>1. \A r \in records : ~(r.rev > Cursor)
      BY <1>6 DEF After
    <3>2. \A r \in records : r.rev \in Nat
      BY <1>4 DEF StoreOK
    <3>3. Cursor \in Nat
      BY <1>4 DEF PollOK
    <3> QED
      BY <3>1, <3>2, <3>3
  <2>2. PollOK'
    BY <1>0, <1>1, <1>4, <1>5, <1>6 DEF PollOK, StoreOK
  <2>3. ASSUME NEW w \in Watcher PROVE WInv(w)'
    <3>1. Same(w) /\ WInv(w)
      BY <1>1 DEF IInv, Same, watches
    <3>2. Cursor' \in Nat /\ Cursor <= Cursor'
      BY <1>4, <1>6 DEF PollOK, StoreOK
    <3> QED
      BY <1>1, <1>2, <1>4, <1>5, <1>6, <2>1, <3>1, <3>2, Frame
  <2> QED
    BY <1>2, <1>3, <2>2, <2>3 DEF IInv
<1>7. CASE \E n \in After(Cursor) :
              /\ batch' = UpTo(After(Cursor), n)
              /\ pollPc' = "publish" /\ UNCHANGED Cursor
  <2>1. PICK n \in After(Cursor) :
              /\ batch' = UpTo(After(Cursor), n)
              /\ pollPc' = "publish" /\ UNCHANGED Cursor
    BY <1>7
  <2>a. \A m : m \in batch' <=> /\ m <= n /\ Cursor < m
                               /\ \E r \in records : m = r.rev
    BY <2>1 DEF After, UpTo
  <2>b. \A r \in records : r.rev \in Nat /\ r.rev <= version
    BY <1>4 DEF StoreOK
  <2>c. Cursor < n /\ \E r \in records : n = r.rev
    BY DEF After
  <2>2. /\ n \in batch'
        /\ \A b \in batch' : b \in Nat /\ Cursor < b /\ b <= version /\ b <= n
        /\ \A r \in records : Cursor < r.rev /\ r.rev <= n => r.rev \in batch'
    BY <2>a, <2>b, <2>c
  <2>3. n \in Nat /\ \A r \in records : r.rev \in Nat
    BY <2>2, <1>4 DEF StoreOK
  <2>4. \A b \in batch', r \in records :
           Cursor < r.rev /\ r.rev <= b => r.rev \in batch'
    BY <2>2, <2>3
  <2>5. PollOK'
    BY <1>0, <1>1, <1>4, <1>5, <2>1, <2>2, <2>4 DEF PollOK
  <2>6. ASSUME NEW w \in Watcher PROVE WInv(w)'
    <3>1. Same(w) /\ WInv(w)
      BY <1>1 DEF IInv, Same, watches
    <3>2. Cursor' \in Nat /\ Cursor <= Cursor'
      BY <1>4, <2>1 DEF PollOK
    <3> QED
      BY <1>1, <1>2, <1>4, <1>5, <2>1, <3>1, <3>2, Frame
  <2> QED
    BY <1>2, <1>3, <2>5, <2>6 DEF IInv
<1> QED
  BY <1>0, <1>6, <1>7 DEF PollRead
(***************************************************************************)
(* The hand-over: the stream is empty, and the batch holds all records     *)
(* that the cursor passes.                                                 *)
(***************************************************************************)
LEMMA PollPublishIInv == ASSUME IInv, PollPublish PROVE IInv'
<1>1. /\ pollPc = "publish" /\ stream = {} /\ stream' = batch /\ batch' = {}
      /\ lastWatchRev' = Max(batch) /\ pollPc' = "register"
      /\ UNCHANGED store /\ UNCHANGED watches /\ pollStart' = pollStart
  BY DEF PollPublish, PollAgain
<1>0. Cursor = lastWatchRev /\ Cursor' = lastWatchRev'
  BY <1>1 DEF Cursor
<1>2. StoreOK' /\ Grows
  BY <1>1, NoGrowth DEF IInv
<1>3. WatchersOK'
  BY <1>1 DEF IInv, WatchersOK, watches
<1>4. StoreOK /\ PollOK /\ WatchersOK
  BY DEF IInv
<1>5. UNCHANGED <<version, records>>
  BY <1>1 DEF store
<1>6. version \in Nat /\ batch # {} /\ batch \in SUBSET Nat /\ \A b \in batch : b <= version
  BY <1>1, <1>4 DEF StoreOK, PollOK
<1> DEFINE last == Cursor'
<1>7. last \in batch /\ \A b \in batch : b <= last
  BY <1>0, <1>1, <1>6, MaxOf, ZenonT(30)
<1>8. /\ Cursor \in Nat /\ last \in Nat /\ Cursor < last /\ last <= version
      /\ \A b \in batch : b \in Nat /\ Cursor < b
      /\ \A r \in records : Cursor < r.rev /\ r.rev <= last => r.rev \in batch
      /\ \A r \in records : r.rev \in Nat
  BY <1>4, <1>6, <1>7 DEF PollOK, StoreOK
<1> HIDE DEF last
<1>9. PollOK'
  <2>1. Cursor' = last /\ lastWatchRev' = last /\ last <= last
    BY <1>0, <1>8 DEF last
  <2> QED
    BY <1>1, <1>4, <1>5, <1>6, <1>7, <1>8, <2>1 DEF PollOK
<1>10. ASSUME NEW w \in Watcher PROVE WInv(w)'
  <2>1. WInv(w) /\ Same(w) /\ Types(w)
    BY <1>1, WatcherTypes DEF IInv, Same, watches
  <2>2. Cursor' = last
    BY DEF last
  <2>3. ChannelOK(w)'
    BY <1>1, <1>5, <1>8, <2>1, <2>2 DEF WInv, ChannelOK, Same, Types
  <2>4. ASSUME wpc[w] = "reading" PROVE ReadingOK(w)'
    <3>1. ReadingOK(w)
      BY <2>1, <2>4 DEF WInv
    <3>2. ASSUME NEW r \in records, r.key \in Watched[w],
                 after[w].latestRev > 0, after[w].latestRev < r.rev,
                 subscribed[w], r.rev <= last
          PROVE  r.rev \in batch \cup Elems(values[w])
      <4>1. CASE r.rev <= Cursor
        BY <1>1, <3>1, <3>2, <4>1 DEF ReadingOK
      <4> QED
        BY <1>8, <3>2, <4>1
    <3> QED
      BY <1>1, <1>5, <2>1, <2>2, <3>1, <3>2 DEF ReadingOK, Same
  <2>5. ASSUME wpc[w] = "running" PROVE RunningOK(w)'
    <3> DEFINE sent == Elems(delivered[w])
               channel == Elems(values[w])
    <3>1. RunningOK(w)
      BY <2>1, <2>5 DEF WInv
    <3>2. /\ Ascending(delivered[w])
          /\ \A d \in sent : /\ d \in Nat
                             /\ d <= lastRevision[w] \/ d <= Cursor
                             /\ \A e \in channel : e > lastRevision[w] => d < e
      BY <2>1, <3>1, ZenonT(30) DEF RunningOK, Types
    <3>3. \A d \in sent, e \in batch : e > lastRevision[w] => d < e
      BY <1>8, <2>1, <3>2 DEF Types
    <3>4. \A d \in sent : d <= lastRevision[w] \/ d <= last
      BY <1>8, <2>1, <3>2 DEF Types
    <3>5. \A r \in records : r.key \in Watched[w] /\ minRevision[w] < r.rev =>
             /\ r.rev <= lastRevision[w] => r.rev \in sent
             /\ subscribed[w] /\ r.rev <= Cursor => r.rev \in sent \cup channel
             /\ \A e \in sent \cup channel : r.rev < e => r.rev \in sent \cup channel
      BY <1>1, <3>1 DEF RunningOK
    <3>6. \A r \in records : r.key \in Watched[w] /\ minRevision[w] < r.rev
             /\ subscribed[w] /\ r.rev <= last => r.rev \in sent \cup batch \cup channel
      BY <1>8, <3>5
    <3> HIDE DEF sent, channel
    <3>7. sent = Elems(delivered'[w]) /\ channel = Elems(values'[w])
      BY <2>1 DEF sent, channel, Same
    <3> QED
      BY <1>1, <1>5, <2>1, <2>2, <3>2, <3>3, <3>4, <3>5, <3>6, <3>7, ZenonT(30) DEF RunningOK, Same
  <2> QED
    BY <2>1, <2>3, <2>4, <2>5 DEF WInv, Same
<1> QED
  BY <1>2, <1>3, <1>9, <1>10 DEF IInv

(***************************************************************************)
(* The broadcaster moves the stream into the channels: of a subscriber     *)
(* with room, behind all it holds; of another one, not, and it is no       *)
(* subscriber any more.                                                    *)
(***************************************************************************)
LEMMA BroadcastIInv == ASSUME IInv, Broadcast PROVE IInv'
<1>1. /\ stream' = {} /\ UNCHANGED store /\ UNCHANGED poll
      /\ values' = [w \in Watcher |->
                      IF subscribed[w] /\ ~Full(w)
                        THEN Append(values[w], stream) ELSE values[w]]
      /\ subscribed' = [w \in Watcher |-> subscribed[w] /\ ~Full(w)]
      /\ UNCHANGED <<wpc, minRevision, after, lastRevision, delivered>>
  BY DEF Broadcast
<1>2. StoreOK' /\ Grows
  BY <1>1, NoGrowth DEF IInv
<1>3. StoreOK /\ PollOK /\ WatchersOK
  BY DEF IInv
<1>4. /\ UNCHANGED <<version, records, pollStart, lastWatchRev, batch, pollPc>>
      /\ Cursor' = Cursor
  BY <1>1 DEF store, poll, Cursor
<1>5. stream \in Batch /\ stream \subseteq Nat
  BY <1>3 DEF PollOK, Batch, Rev
<1>6. PollOK'
  BY <1>1, <1>3, <1>4 DEF PollOK
<1>7. WatchersOK'
  <2>1. \A w \in Watcher : values[w] \in Seq(Batch) /\ Append(values[w], stream) \in Seq(Batch)
    BY <1>3, <1>5, ElemsAppend DEF WatchersOK
  <2>2. values' \in [Watcher -> Seq(Batch)]
    BY <1>1, <2>1
  <2>3. subscribed' \in [Watcher -> BOOLEAN]
    BY <1>1
  <2> QED
    BY <1>1, <1>3, <2>2, <2>3 DEF WatchersOK
<1>8. ASSUME NEW w \in Watcher PROVE WInv(w)'
  <2>1. WInv(w) /\ Types(w)
    BY WatcherTypes DEF IInv
  <2>2. CASE ~(subscribed[w] /\ ~Full(w))
    <3>1. values'[w] = values[w] /\ ~subscribed'[w]
      BY <1>1, <2>2, ZenonT(30)
    <3>2. ChannelOK(w)'
      BY <1>1, <1>4, <2>1, <3>1 DEF WInv, ChannelOK
    <3>3. wpc[w] = "reading" => ReadingOK(w)'
      BY <1>1, <1>4, <2>1, <3>1, ZenonT(30) DEF WInv, ReadingOK
    <3>4. wpc[w] = "running" => RunningOK(w)'
      BY <1>1, <1>4, <2>1, <3>1, ZenonT(30) DEF WInv, RunningOK
    <3> QED
      BY <1>1, <3>2, <3>3, <3>4 DEF WInv
  <2>3. CASE subscribed[w] /\ ~Full(w)
    <3> DEFINE channel == Elems(values[w])
               sent == Elems(delivered[w])
    <3>1. values'[w] = Append(values[w], stream) /\ subscribed'[w]
      BY <1>1, <2>3, ZenonT(30)
    <3>2. /\ Ascending(values[w])
          /\ \A e \in channel : e <= Cursor /\ \A x \in stream : e < x
          /\ \A e \in stream : e <= Cursor
      BY <1>3, <2>1, ZenonT(30) DEF WInv, ChannelOK, PollOK
    <3>3. Elems(values'[w]) = channel \cup stream /\ Ascending(values'[w])
      BY <1>5, <2>1, <3>1, <3>2, ElemsAppend, AscendingAppend, ZenonT(30) DEF Types
    <3>4. channel \subseteq Nat /\ sent \subseteq Nat /\ Cursor \in Nat
          /\ \A r \in records : r.rev \in Nat
      BY <1>3, <2>1 DEF Types, PollOK, StoreOK
    <3>5. sent = Elems(delivered'[w])
      BY <1>1
    <3>6. ChannelOK(w)'
      BY <1>1, <1>4, <2>1, <2>3, <3>2, <3>3, ZenonT(30) DEF WInv, ChannelOK
    <3>7. ASSUME wpc[w] = "reading" PROVE ReadingOK(w)'
      <4>1. ReadingOK(w)
        BY <2>1, <3>7 DEF WInv
      <4>2. ASSUME NEW r \in records, r.key \in Watched[w],
                   after[w].latestRev > 0, after[w].latestRev < r.rev,
                   r.rev <= Cursor
            PROVE  r.rev \in channel \cup stream
        BY <2>3, <4>1, <4>2 DEF ReadingOK
      <4>3. ASSUME NEW r \in records, r.key \in Watched[w],
                   after[w].latestRev > 0, after[w].latestRev < r.rev,
                   NEW e \in channel \cup stream, r.rev < e
            PROVE  r.rev \in channel \cup stream
        <5>1. r.rev <= Cursor
          <6>1. e \in Nat /\ e <= Cursor
            BY <1>5, <3>2, <3>4, <4>3, ZenonT(30)
          <6>2. r.rev \in Nat /\ Cursor \in Nat
            BY <3>4
          <6> QED
            BY <4>3, <6>1, <6>2
        <5> QED
          BY <4>2, <4>3, <5>1
      <4> HIDE DEF channel
      <4> QED
        BY <1>1, <1>4, <3>3, <4>1, <4>2, <4>3, ZenonT(30) DEF ReadingOK
    <3>8. ASSUME wpc[w] = "running" PROVE RunningOK(w)'
      <4>1. RunningOK(w)
        BY <2>1, <3>8 DEF WInv
      <4>2. ASSUME NEW r \in records, r.key \in Watched[w], minRevision[w] < r.rev,
                   r.rev <= Cursor
            PROVE  r.rev \in sent \cup channel \cup stream
        BY <2>3, <4>1, <4>2 DEF RunningOK
      <4>3. ASSUME NEW r \in records, r.key \in Watched[w], minRevision[w] < r.rev,
                   NEW e \in sent \cup channel \cup stream, r.rev < e
            PROVE  r.rev \in sent \cup channel \cup stream
        <5>1. CASE e \in sent \cup channel
          BY <4>1, <4>3, <5>1 DEF RunningOK
        <5>2. CASE e \in stream
          <6>1. r.rev <= Cursor
            BY <1>5, <3>2, <3>4, <4>3, <5>2
          <6> QED
            BY <4>2, <4>3, <6>1
        <5> QED
          BY <5>1, <5>2
      <4>4. /\ Ascending(delivered[w])
            /\ \A d \in sent :
                  /\ d <= lastRevision[w] \/ d <= Cursor
                  /\ \A e \in stream \cup channel : e > lastRevision[w] => d < e
            /\ \A r \in records : r.key \in Watched[w] /\ minRevision[w] < r.rev =>
                  (r.rev <= lastRevision[w] => r.rev \in sent)
        BY <4>1 DEF RunningOK
      <4> HIDE DEF channel, sent
      <4> QED
        BY <1>1, <1>4, <3>3, <3>5, <4>2, <4>3, <4>4, ZenonT(30) DEF RunningOK
    <3> QED
      BY <1>1, <3>6, <3>7, <3>8 DEF WInv
  <2> QED
    BY <2>2, <2>3
<1> QED
  BY <1>2, <1>6, <1>7, <1>8 DEF IInv

-----------------------------------------------------------------------------
(***************************************************************************)
(* The steps of a Watch call.  Another call is not touched by them, and    *)
(* the poll loop only when it is started.                                  *)
(***************************************************************************)
OnlyTouches(u) ==
    \A w \in Watcher \ {u} : Same(w)

(***************************************************************************)
(* So the other calls keep their invariant,                                *)
(***************************************************************************)
LEMMA OthersWInv ==
    ASSUME IInv, NEW u \in Watcher, OnlyTouches(u), UNCHANGED store,
           UNCHANGED poll, UNCHANGED stream,
           NEW w \in Watcher, w # u
    PROVE  WInv(w)'
<1>1. StoreOK /\ PollOK /\ WatchersOK /\ WInv(w)
  BY DEF IInv
<1>2. Grows
  BY <1>1, NoGrowth
<1>3. Same(w)
  BY DEF OnlyTouches
<1>4. UNCHANGED <<records, pollPc>> /\ Cursor' = Cursor
  BY DEF store, poll, Cursor
<1>5. Cursor' \in Nat /\ Cursor <= Cursor'
  BY <1>1, <1>4 DEF PollOK
<1> QED
  BY <1>1, <1>2, <1>3, <1>4, <1>5, Frame

(***************************************************************************)
(* and it is enough to look at the call that takes the step.               *)
(***************************************************************************)
LEMMA OwnStepIInv ==
    ASSUME IInv, NEW u \in Watcher, OnlyTouches(u), UNCHANGED store,
           UNCHANGED poll, UNCHANGED stream, WatchersOK', WInv(u)'
    PROVE  IInv'
<1>1. StoreOK'
  BY NoGrowth DEF IInv
<1>2. PollOK'
  BY DEF IInv, PollOK, store, poll, Cursor
<1> QED
  BY <1>1, <1>2, OthersWInv DEF IInv

(***************************************************************************)
(* A call that ends has nothing in its channel any more.                   *)
(***************************************************************************)
LEMMA UnsubscribeIInv ==
    ASSUME IInv, NEW u \in Watcher, NEW st \in {"compacted", "failed", "closed"},
           Unsubscribe(u, st)
    PROVE  IInv'
<1>1. WatchersOK /\ StoreOK /\ PollOK /\ WInv(u)
  BY DEF IInv
<1>2. WatchersOK'
  <2>1. NewAfterCollector(0) \in AfterCollector /\ <<>> \in Seq(Batch)
    BY DEF NewAfterCollector, AfterCollector, Rev, Batch
  <2> QED
    BY <1>1, <2>1 DEF Unsubscribe, WatchersOK
<1>3. OnlyTouches(u)
  BY <1>1 DEF Unsubscribe, OnlyTouches, Same, WatchersOK
<1>4. WInv(u)'
  <2>1. /\ wpc'[u] = st /\ after'[u] = NewAfterCollector(0) /\ lastRevision'[u] = 0
        /\ subscribed'[u] = FALSE /\ values'[u] = <<>> /\ delivered'[u] = <<>>
    BY <1>1 DEF Unsubscribe, WatchersOK
  <2>2. Elems(<<>>) = {} /\ Ascending(<<>>)
    BY DEF Elems, Ascending
  <2>3. version' \in Nat
    BY <1>1 DEF Unsubscribe, store, StoreOK
  <2> QED
    BY <2>1, <2>2, <2>3 DEF WInv, ChannelOK, NewAfterCollector
<1> QED
  BY <1>2, <1>3, <1>4, OwnStepIInv DEF Unsubscribe

(***************************************************************************)
(* The events a prefix asks for, among revisions of records.               *)
(***************************************************************************)
LEMMA MatchingKeys ==
    ASSUME StoreOK, NEW w, NEW E, NEW r \in records
    PROVE  r.rev \in Matching(w, E) <=> r.rev \in E /\ r.key \in Watched[w]
<1>1. r \in history /\ \A h \in history : h.rev = r.rev => h = r
  BY DEF StoreOK
<1>2. (CHOOSE h \in history : h.rev = r.rev) = r
  BY <1>1
<1> QED
  BY <1>2, ZenonT(30) DEF Matching, KeyOf

(***************************************************************************)
(* A batch of the initial read.                                            *)
(***************************************************************************)
LEMMA FoundAfter ==
    ASSUME StoreOK, WatchersOK, NEW w \in Watcher
    PROVE  /\ Found(w) \subseteq Nat
           /\ \A n \in Found(w) : after[w].cursor < n /\ n <= version
           /\ \A r \in records : r.rev \in Found(w) <=>
                 /\ after[w].cursor < r.rev
                 /\ after[w].latestRev = 0 \/ r.rev <= after[w].latestRev
<1>1. /\ \A r \in records : r.rev \in Nat /\ r.rev <= version
      /\ after[w].cursor \in Nat
  BY WatcherTypes DEF StoreOK, Types
<1>2. \A m : m \in Found(w) <=> /\ m > after[w].cursor
                                /\ \E r \in records : m = r.rev
                                /\ after[w].latestRev = 0 \/ m <= after[w].latestRev
  BY DEF Found, After, UpTo
<1> QED
  BY <1>1, <1>2
(***************************************************************************)
(* A split: the first batch's read version becomes the bound, above which  *)
(* there is no record yet; after a bounded batch there is no bound.        *)
(***************************************************************************)
LEMMA AfterSplitIInv == ASSUME IInv, NEW u \in Watcher, AfterSplit(u) PROVE IInv'
<1>0. StoreOK /\ PollOK /\ WatchersOK /\ WInv(u) /\ Types(u)
  BY WatcherTypes DEF IInv
<1>1. PICK n \in Found(u) :
        after' = [after EXCEPT ![u] =
             [cursor |-> n,
              latestRev |-> IF after[u].latestRev = 0 THEN version ELSE 0,
              events |-> after[u].events \cup Matching(u, UpTo(Found(u), n))]]
  BY ZenonT(30) DEF AfterSplit
<1>2. /\ wpc[u] = "reading" /\ UNCHANGED store /\ UNCHANGED poll /\ UNCHANGED stream
      /\ UNCHANGED <<wpc, minRevision, lastRevision, subscribed, values, delivered>>
  BY DEF AfterSplit
<1>3. n \in Nat /\ after[u].cursor < n /\ n <= version
  BY <1>0, FoundAfter
<1> DEFINE evs == after[u].events \cup Matching(u, UpTo(Found(u), n))
<1>4. evs \subseteq Nat /\ \A e \in evs : e <= n
  <2>1. Matching(u, UpTo(Found(u), n)) \subseteq UpTo(Found(u), n)
    BY DEF Matching
  <2>2. \A e \in UpTo(Found(u), n) : e \in Nat /\ e <= n
    BY <1>0, FoundAfter DEF UpTo
  <2>3. \A e \in after[u].events : e \in Nat /\ e <= after[u].cursor
    BY <1>0, <1>2, ZenonT(30) DEF WInv, ReadingOK, Types
  <2>4. \A e \in after[u].events : e <= n
    BY <1>0, <1>3, <2>3 DEF Types
  <2> QED
    BY <2>1, <2>2, <2>3, <2>4
<1>5. /\ after'[u].cursor = n /\ after'[u].events = evs
      /\ after'[u].latestRev = IF after[u].latestRev = 0 THEN version ELSE 0
      /\ \A w \in Watcher \ {u} : after'[w] = after[w]
  BY <1>0, <1>1 DEF WatchersOK
<1>6. WatchersOK'
  <2>1. version \in Nat
    BY <1>0 DEF StoreOK
  <2>2. [cursor |-> n, latestRev |-> IF after[u].latestRev = 0 THEN version ELSE 0,
         events |-> evs] \in AfterCollector
    BY <1>3, <1>4, <2>1 DEF AfterCollector, Rev, Batch
  <2> QED
    BY <1>0, <1>1, <1>2, <2>2 DEF WatchersOK
<1>7. OnlyTouches(u)
  BY <1>2, <1>5 DEF OnlyTouches, Same
<1>8. UNCHANGED <<version, records, pollPc>> /\ Cursor' = Cursor
  BY <1>2 DEF store, poll, Cursor
<1>9. ChannelOK(u)'
  BY <1>0, <1>2, <1>3, <1>5, <1>8, ZenonT(30) DEF WInv, ChannelOK
<1>10. ReadingOK(u)'
  <2>1. ReadingOK(u)
    BY <1>0, <1>2 DEF WInv
  <2>2. \A r \in records : r.rev \in Nat /\ r.rev <= version
    BY <1>0 DEF StoreOK
  <2>3. ASSUME NEW r \in records, r.key \in Watched[u], minRevision[u] < r.rev,
               r.rev <= n
        PROVE  r.rev \in evs
    <3>1. CASE r.rev <= after[u].cursor
      BY <2>1, <2>3, <3>1, ZenonT(30) DEF ReadingOK
    <3>2. CASE after[u].cursor < r.rev
      <4>1. after[u].latestRev = 0 \/ n <= after[u].latestRev
        BY DEF Found, UpTo
      <4>2. r.rev \in Found(u)
        BY <1>0, <1>3, <2>2, <2>3, <3>2, <4>1, FoundAfter DEF Types
      <4>3. r.rev \in UpTo(Found(u), n)
        BY <2>3, <4>2, ZenonT(30) DEF UpTo
      <4> QED
        BY <1>0, <2>3, <4>3, MatchingKeys, ZenonT(30)
    <3>3. after[u].cursor \in Nat /\ r.rev \in Nat
      BY <1>0, <2>2, ZenonT(30) DEF Types
    <3>4. r.rev <= after[u].cursor \/ after[u].cursor < r.rev
      BY <3>3
    <3> QED
      BY <3>1, <3>2, <3>4, ZenonT(30)
  <2>4. \A r \in records : ~(after'[u].latestRev > 0 /\ after'[u].latestRev < r.rev)
    <3>1. version \in Nat /\ \A r \in records : r.rev \in Nat /\ r.rev <= version
      BY <1>0 DEF StoreOK
    <3> QED
      BY <1>5, <2>2, <3>1
  <2> HIDE DEF evs
  <2>5. minRevision[u] <= n
    BY <1>0, <1>3, <2>1 DEF ReadingOK, Types
  <2> QED
    BY <1>2, <1>4, <1>5, <1>8, <2>3, <2>4, <2>5, ZenonT(30) DEF ReadingOK
<1>11. WInv(u)'
  BY <1>2, <1>9, <1>10 DEF WInv
<1> QED
  BY <1>2, <1>6, <1>7, <1>11, OwnStepIInv

(***************************************************************************)
(* The end of the initial read: its events are complete up to the last of  *)
(* them, and what lies above is in the channel.                            *)
(***************************************************************************)
LEMMA AfterLastIInv == ASSUME IInv, NEW u \in Watcher, AfterLast(u) PROVE IInv'
<1>0. StoreOK /\ PollOK /\ WatchersOK /\ WInv(u) /\ Types(u)
  BY WatcherTypes DEF IInv
<1> DEFINE evs == after[u].events \cup Matching(u, Found(u))
<1>1. /\ wpc[u] = "reading" /\ UNCHANGED store /\ UNCHANGED poll /\ UNCHANGED stream
      /\ UNCHANGED <<minRevision, subscribed, values>>
      /\ wpc' = [wpc EXCEPT ![u] = "running"]
      /\ lastRevision' = [lastRevision EXCEPT ![u] = Max(evs \cup {minRevision[u]})]
      /\ delivered' = [delivered EXCEPT ![u] =
                          IF evs = {} THEN delivered[u] ELSE Append(delivered[u], evs)]
      /\ after' = [after EXCEPT ![u] = NewAfterCollector(0)]
  BY DEF AfterLast
<1>2. ReadingOK(u) /\ ChannelOK(u)
  BY <1>0, <1>1 DEF WInv
<1>3. version \in Nat /\ \A r \in records : r.rev \in Nat /\ r.rev <= version
  BY <1>0 DEF StoreOK
<1>4. evs \in Batch /\ \A e \in evs : e \in Nat /\ e <= version
  <2>1. \A e \in Matching(u, Found(u)) : e \in Nat /\ e <= version
    BY <1>0, FoundAfter DEF Matching
  <2>2. \A e \in after[u].events : e \in Nat /\ e <= after[u].cursor
    BY <1>0, <1>2 DEF ReadingOK, Types
  <2>3. after[u].cursor \in Nat /\ after[u].cursor <= version
    BY <1>0, <1>2, ZenonT(30) DEF ChannelOK, Types
  <2>4. \A e \in after[u].events : e <= version
    <3>1. ASSUME NEW e \in after[u].events PROVE e <= version
      <4>1. e \in Nat /\ e <= after[u].cursor /\ version \in Nat
        BY <1>3, <2>2, ZenonT(30)
      <4> HIDE DEF evs
      <4> QED BY <2>3, <4>1
    <3> QED
      BY <3>1, ZenonT(30)
  <2> QED
    BY <2>1, <2>2, <2>4 DEF Batch, Rev
<1>5. ASSUME NEW r \in records, r.key \in Watched[u], minRevision[u] < r.rev,
             after[u].latestRev = 0 \/ r.rev <= after[u].latestRev
                \/ r.rev <= after[u].cursor
      PROVE  r.rev \in evs
  <2>1. CASE r.rev <= after[u].cursor
    BY <1>2, <1>5, <2>1 DEF ReadingOK
  <2>2. CASE ~(r.rev <= after[u].cursor)
    <3>1. r.rev \in Found(u)
      BY <1>0, <1>3, <1>5, <2>2, FoundAfter DEF Types
    <3> QED
      BY <1>0, <1>5, <3>1, MatchingKeys
  <2> QED
    BY <2>1, <2>2
<1>6. \A e \in evs : after[u].latestRev = 0 \/ e <= after[u].latestRev
                       \/ e <= after[u].cursor
  BY <1>2 DEF ReadingOK, Matching, Found, UpTo
<1> HIDE DEF evs
<1> DEFINE last == Max(evs \cup {minRevision[u]})
<1>7. last \in Nat /\ last \in evs \cup {minRevision[u]} /\ \A e \in evs : e <= last
  <2> DEFINE bound == version + minRevision[u]
  <2>1. /\ evs \cup {minRevision[u]} \in SUBSET Nat /\ bound \in Nat
        /\ \A e \in evs \cup {minRevision[u]} : e <= bound
    BY <1>0, <1>3, <1>4 DEF Types
  <2> HIDE DEF bound
  <2> QED
    BY <2>1, MaxOf, ZenonT(30)
<1>8. last <= version
  <2>1. minRevision[u] \in Nat /\ after[u].cursor \in Nat
    BY <1>0 DEF Types
  <2>2. minRevision[u] <= after[u].cursor
    BY <1>2 DEF ReadingOK
  <2>3. after[u].cursor <= version
    BY <1>2 DEF ChannelOK
  <2>4. minRevision[u] <= version
    BY <1>3, <2>1, <2>2, <2>3
  <2> HIDE DEF last
  <2> QED
    BY <1>4, <1>7, <2>4
<1> HIDE DEF last
<1>9. /\ wpc'[u] = "running" /\ lastRevision'[u] = last
      /\ after'[u] = NewAfterCollector(0)
      /\ delivered'[u] = IF evs = {} THEN <<>> ELSE Append(<<>>, evs)
      /\ \A w \in Watcher \ {u} :
            /\ wpc'[w] = wpc[w] /\ lastRevision'[w] = lastRevision[w]
            /\ after'[w] = after[w] /\ delivered'[w] = delivered[w]
  BY <1>0, <1>1, <1>2 DEF WatchersOK, ChannelOK, last
<1>10. /\ delivered'[u] \in Seq(Batch) /\ Ascending(delivered'[u])
       /\ Elems(delivered'[u]) = evs
  <2>1. <<>> \in Seq(Batch) /\ DOMAIN <<>> = {} /\ Elems(<<>>) = {}
    BY DEF Elems
  <2>2. Append(<<>>, evs) \in Seq(Batch) /\ Elems(Append(<<>>, evs)) = evs
    <3>1. /\ Append(<<>>, evs) \in Seq(Batch)
          /\ Elems(Append(<<>>, evs)) = Elems(<<>>) \cup evs
      BY <1>4, <2>1, ElemsAppend, ZenonT(30)
    <3>2. Elems(<<>>) \cup evs = evs
      BY <2>1, ZenonT(30)
    <3> QED
      BY <3>1, <3>2, ZenonT(30)
  <2>3. Ascending(<<>>) /\ Ascending(Append(<<>>, evs))
    BY <1>4, <2>1, AscendingAppend DEF Ascending
  <2> QED
    BY <1>9, <2>1, <2>2, <2>3, ZenonT(30)
<1>11. WatchersOK'
  <2>1. NewAfterCollector(0) \in AfterCollector
    BY DEF NewAfterCollector, AfterCollector, Rev, Batch
  <2>2. (IF evs = {} THEN delivered[u] ELSE Append(delivered[u], evs)) \in Seq(Batch)
    BY <1>0, <1>4 DEF WatchersOK
  <2> QED
    BY <1>0, <1>1, <1>7, <2>1, <2>2 DEF WatchersOK, last
<1>12. OnlyTouches(u)
  BY <1>1, <1>9 DEF OnlyTouches, Same
<1>13. UNCHANGED <<version, records, pollPc>> /\ Cursor' = Cursor
  BY <1>1 DEF store, poll, Cursor
<1>14. ChannelOK(u)'
  BY <1>1, <1>2, <1>3, <1>8, <1>9, <1>13 DEF ChannelOK, NewAfterCollector
<1>15. RunningOK(u)'
  <2> DEFINE channel == Elems(values[u])
  <2>1. /\ \A e \in stream \cup channel : e \in Nat
        /\ minRevision[u] \in Nat /\ Cursor \in Nat
        /\ after[u].cursor \in Nat /\ after[u].latestRev \in Nat
    BY <1>0, ZenonT(30) DEF Types, PollOK
  <2>2. \A d \in evs : d \in Nat /\ d <= last
    BY <1>4, <1>7
  <2>3. \A d \in evs, e \in stream \cup channel : e > last => d < e
    BY <1>7, <2>1, <2>2
  <2>4. ASSUME NEW r \in records, r.key \in Watched[u], minRevision[u] < r.rev
        PROVE  /\ r.rev <= last => r.rev \in evs
               /\ subscribed[u] /\ r.rev <= Cursor
                    => r.rev \in evs \cup stream \cup channel
               /\ \A e \in evs \cup channel :
                     r.rev < e => r.rev \in evs \cup channel
    <3> DEFINE low == \/ after[u].latestRev = 0 \/ r.rev <= after[u].latestRev
                      \/ r.rev <= after[u].cursor
    <3>1. r.rev \in Nat
      BY <1>3
    <3>2. CASE low
      BY <1>5, <2>4, <3>2
    <3>3. CASE ~low
      <4>1. after[u].latestRev > 0 /\ after[u].latestRev < r.rev
        BY <2>1, <3>1, <3>3
      <4>2. \A e \in evs : e < r.rev
        BY <1>6, <2>1, <2>2, <3>1, <3>3
      <4>3. ~(r.rev <= last)
        BY <1>7, <2>1, <2>2, <2>4, <3>1, <4>2
      <4>4. /\ subscribed[u] /\ r.rev <= Cursor => r.rev \in stream \cup channel
            /\ \A e \in channel : r.rev < e => r.rev \in channel
        BY <1>2, <2>4, <4>1 DEF ReadingOK
      <4> QED
        BY <2>2, <3>1, <4>2, <4>3, <4>4
    <3> QED
      BY <3>2, <3>3, ZenonT(30)
  <2> HIDE DEF channel
  <2> QED
    BY <1>1, <1>9, <1>10, <1>13, <2>2, <2>3, <2>4, ZenonT(30) DEF RunningOK, channel
<1>16. WInv(u)'
  BY <1>9, <1>14, <1>15 DEF WInv
<1> QED
  BY <1>1, <1>11, <1>12, <1>16, OwnStepIInv
(***************************************************************************)
(* Forwarding: what is new lies after all that is sent, and what is not    *)
(* new is sent already.                                                    *)
(***************************************************************************)
LEMMA ForwardIInv == ASSUME IInv, NEW u \in Watcher, Forward(u) PROVE IInv'
<1>0. StoreOK /\ PollOK /\ WatchersOK /\ WInv(u) /\ Types(u)
  BY WatcherTypes DEF IInv
<1> DEFINE head == Head(values[u])
           new == Unsent(u, Matching(u, head))
           sent == Elems(delivered[u])
           channel == Elems(values[u])
           rest == Elems(Tail(values[u]))
<1>1. /\ wpc[u] = "running" /\ values[u] # <<>>
      /\ UNCHANGED store /\ UNCHANGED poll /\ UNCHANGED stream
      /\ UNCHANGED <<wpc, minRevision, after, lastRevision, subscribed>>
      /\ values' = [values EXCEPT ![u] = Tail(values[u])]
      /\ delivered' = [delivered EXCEPT ![u] =
                          IF new = {} THEN delivered[u] ELSE Append(delivered[u], new)]
  BY DEF Forward
<1>2. RunningOK(u) /\ ChannelOK(u)
  BY <1>0, <1>1 DEF WInv
<1>3. /\ head \in Batch /\ Tail(values[u]) \in Seq(Batch)
      /\ channel = head \cup rest /\ Ascending(Tail(values[u]))
      /\ \A m \in head, n \in rest : m < n
  BY <1>0, <1>1, <1>2, HeadTail DEF ChannelOK, Types
<1>4. new \subseteq head /\ \A n \in new : n > lastRevision[u]
  BY DEF Unsent, Matching
<1>5. new \in Batch
  BY <1>3, <1>4 DEF Batch
<1>6. ASSUME NEW r \in records, r.key \in Watched[u], r.rev \in head,
             r.rev > lastRevision[u]
      PROVE  r.rev \in new
  BY <1>0, <1>6, MatchingKeys DEF Unsent
<1> HIDE DEF head, new
<1>7. \A d \in sent, e \in new : d < e
  BY <1>2, <1>3, <1>4, ZenonT(30) DEF RunningOK
<1>8. /\ delivered'[u] \in Seq(Batch) /\ Ascending(delivered'[u])
      /\ Elems(delivered'[u]) = sent \cup new
  <2>1. delivered'[u] = IF new = {} THEN delivered[u] ELSE Append(delivered[u], new)
    BY <1>0, <1>1 DEF WatchersOK
  <2>2. delivered[u] \in Seq(Batch) /\ Ascending(delivered[u])
    BY <1>0, <1>2, ZenonT(30) DEF Types, RunningOK
  <2>3. CASE new = {}
    BY <2>1, <2>2, <2>3
  <2>4. CASE new # {}
    <3>1. delivered'[u] = Append(delivered[u], new)
      BY <2>1, <2>4
    <3>2. Append(delivered[u], new) \in Seq(Batch) /\ Elems(Append(delivered[u], new)) = sent \cup new
      BY <1>5, <2>2, ElemsAppend
    <3>3. Ascending(Append(delivered[u], new))
      BY <1>5, <1>7, <2>2, AscendingAppend
    <3> QED
      BY <3>1, <3>2, <3>3
  <2> QED
    BY <2>3, <2>4
<1>9. values'[u] = Tail(values[u])
  BY <1>0, <1>1 DEF WatchersOK
<1>10. WatchersOK'
  <2>1. (IF new = {} THEN delivered[u] ELSE Append(delivered[u], new)) \in Seq(Batch)
    BY <1>0, <1>5 DEF WatchersOK
  <2> QED
    BY <1>0, <1>1, <1>3, <2>1 DEF WatchersOK
<1>11. OnlyTouches(u)
  BY <1>0, <1>1 DEF OnlyTouches, Same, WatchersOK
<1>12. UNCHANGED <<version, records, pollPc>> /\ Cursor' = Cursor
  BY <1>1 DEF store, poll, Cursor
<1>13. ChannelOK(u)'
  BY <1>1, <1>2, <1>3, <1>9, <1>12 DEF ChannelOK
<1>14. RunningOK(u)'
  <2> HIDE DEF channel, rest, sent
  <2>1. /\ \A e \in channel : e <= Cursor /\ \A s \in stream : e < s
        /\ \A d \in sent :
              /\ d <= lastRevision[u] \/ d <= Cursor
              /\ \A e \in stream \cup channel : e > lastRevision[u] => d < e
    BY <1>2, ZenonT(30) DEF ChannelOK, RunningOK, channel, sent
  <2>2. \A d \in sent \cup new :
              /\ d <= lastRevision[u] \/ d <= Cursor
              /\ \A e \in stream \cup rest : e > lastRevision[u] => d < e
    BY <1>3, <1>4, <2>1
  <2>3. ASSUME NEW r \in records, r.key \in Watched[u], minRevision[u] < r.rev
        PROVE  /\ r.rev <= lastRevision[u] => r.rev \in sent \cup new
               /\ subscribed[u] /\ r.rev <= Cursor
                    => r.rev \in (sent \cup new) \cup stream \cup rest
               /\ \A e \in (sent \cup new) \cup rest :
                     r.rev < e => r.rev \in (sent \cup new) \cup rest
    <3>1. /\ r.rev <= lastRevision[u] => r.rev \in sent
          /\ subscribed[u] /\ r.rev <= Cursor
               => r.rev \in sent \cup stream \cup channel
          /\ \A e \in sent \cup channel : r.rev < e => r.rev \in sent \cup channel
      BY <1>2, <2>3 DEF RunningOK, sent, channel
    <3>2. r.rev \in Nat /\ lastRevision[u] \in Nat
      BY <1>0 DEF StoreOK, Types
    <3>3. r.rev \in channel => r.rev \in sent \cup new \cup rest
      BY <1>3, <1>6, <2>3, <3>1, <3>2
    <3> QED
      BY <1>3, <1>4, <3>1, <3>3
  <2> QED
    BY <1>1, <1>8, <1>9, <1>12, <2>2, <2>3, ZenonT(30) DEF RunningOK, rest, sent
<1>15. WInv(u)'
  BY <1>1, <1>13, <1>14 DEF WInv
<1> QED
  BY <1>1, <1>10, <1>11, <1>15, OwnStepIInv
(***************************************************************************)
(* A new Watch call.  When it starts the poll loop the cursor moves, but   *)
(* then no other call is subscribed.                                       *)
(***************************************************************************)
LEMMA BeginWatchIInv ==
    ASSUME IInv, NEW u \in Watcher, NEW m \in WatchRequests, BeginWatch(u, m)
    PROVE  IInv'
<1>0. StoreOK /\ PollOK /\ WatchersOK /\ WInv(u) /\ Types(u)
  BY WatcherTypes DEF IInv
<1> DEFINE from == FromRevision(m)
<1>1. /\ wpc[u] \notin {"reading", "running"}
      /\ wpc' = [wpc EXCEPT ![u] = "reading"]
      /\ minRevision' = [minRevision EXCEPT ![u] = from]
      /\ after' = [after EXCEPT ![u] = NewAfterCollector(from)]
      /\ Subscribe(u) \/ SubscribeRunning(u) \/ SubscribeFails(u)
      /\ UNCHANGED <<store, stream, lastRevision, values, delivered>>
  BY DEF BeginWatch
<1>2. StoreOK' /\ Grows
  BY <1>0, <1>1, NoGrowth
<1>3. UNCHANGED <<version, records>>
  BY <1>1 DEF store
<1>4. version \in Nat /\ from \in Nat /\ from <= version
  <2>1. version \in Nat
    BY <1>0 DEF StoreOK
  <2>2. m \in Nat /\ m <= version + 1
    BY <2>1 DEF WatchRequests
  <2> QED
    BY <2>1, <2>2 DEF FromRevision
<1> HIDE DEF from
<1>5. ChannelOK(u) /\ (pollPc = "off" => subscribed[u] = FALSE)
  BY <1>0 DEF WInv, ChannelOK, Types
<1>6. /\ batch' = batch
      /\ Cursor' \in Nat /\ Cursor <= Cursor' /\ Cursor' <= version
      /\ pollPc # "off" => pollPc' # "off" /\ Cursor' = Cursor
      /\ pollPc = "publish" <=> pollPc' = "publish"
      /\ subscribed'[u] \in BOOLEAN
      /\ subscribed' = [subscribed EXCEPT ![u] = subscribed'[u]]
      /\ subscribed'[u] => pollPc' # "off"
      /\ pollStart' \in Nat /\ lastWatchRev' \in Nat /\ lastWatchRev' <= Cursor'
  <2>1. /\ Cursor \in Nat /\ Cursor <= version
        /\ pollStart \in Nat /\ lastWatchRev \in Nat /\ lastWatchRev <= Cursor
        /\ subscribed \in [Watcher -> BOOLEAN]
    BY <1>0 DEF PollOK, WatchersOK
  <2>2. CASE Subscribe(u)
    <3>1. /\ Cursor = lastWatchRev /\ Cursor' = CurrentRevision
          /\ pollStart' = CurrentRevision /\ lastWatchRev' = lastWatchRev
      BY <2>2 DEF Subscribe, Cursor
    <3>2. CurrentRevision \in Nat /\ lastWatchRev <= CurrentRevision /\ CurrentRevision <= version
      BY <1>4, <2>1, <3>1 DEF CurrentRevision
    <3> QED
      BY <2>1, <2>2, <3>1, <3>2 DEF Subscribe
  <2>3. CASE SubscribeRunning(u)
    <3>1. Cursor' = Cursor /\ Cursor <= Cursor
      BY <2>1, <2>3 DEF SubscribeRunning, poll, Cursor
    <3> QED
      BY <1>4, <2>1, <2>3, <3>1 DEF SubscribeRunning, poll
  <2>4. CASE SubscribeFails(u)
    <3>1. Cursor' = Cursor /\ Cursor <= Cursor
      BY <2>1, <2>4 DEF SubscribeFails, poll, Cursor
    <3> QED
      BY <1>4, <1>5, <2>1, <2>4, <3>1 DEF SubscribeFails, poll
  <2> QED
    BY <1>1, <2>2, <2>3, <2>4
<1>7. PollOK'
  <2>1. Cursor' = Cursor \/ batch = {}
    BY <1>0, <1>6 DEF PollOK
  <2>2. \A e \in stream : e \in Nat /\ e <= Cursor'
    BY <1>0, <1>6 DEF PollOK
  <2> QED
    BY <1>0, <1>1, <1>3, <1>6, <2>1, <2>2 DEF PollOK
<1>8. WatchersOK'
  <2>1. NewAfterCollector(from) \in AfterCollector
    BY <1>4 DEF NewAfterCollector, AfterCollector, Rev, Batch
  <2>2. subscribed' \in [Watcher -> BOOLEAN]
    BY <1>0, <1>6, ZenonT(30) DEF WatchersOK
  <2> QED
    BY <1>0, <1>1, <1>4, <2>1, <2>2, ZenonT(30) DEF WatchersOK
<1>9. ASSUME NEW w \in Watcher, w # u PROVE WInv(w)'
  <2>1. WInv(w)
    BY DEF IInv
  <2>2. Same(w)
    BY <1>0, <1>1, <1>6, <1>9 DEF Same, WatchersOK
  <2>3. subscribed[w] => Cursor' = Cursor
    BY <1>6, <2>1, ZenonT(30) DEF WInv, ChannelOK
  <2>4. subscribed[w] => \A r \in records' :
           r.rev <= Cursor' => r \in records /\ r.rev <= Cursor
    BY <1>3, <2>3
  <2> QED
    BY <1>0, <1>1, <1>2, <1>6, <2>1, <2>2, <2>4, Frame
<1>10. WInv(u)'
  <2>1. /\ wpc'[u] = "reading" /\ minRevision'[u] = from
        /\ after'[u].cursor = from /\ after'[u].latestRev = 0 /\ after'[u].events = {}
        /\ lastRevision'[u] = lastRevision[u] /\ values'[u] = values[u]
        /\ delivered'[u] = <<>>
    BY <1>0, <1>1, <1>5 DEF WatchersOK, NewAfterCollector, ChannelOK
  <2>2. \A e \in Elems(values[u]) : e \in Nat /\ e <= Cursor'
    <3>1. Elems(values[u]) \subseteq Nat /\ Cursor \in Nat
      BY <1>0, ZenonT(30) DEF Types, PollOK
    <3>2. \A e \in Elems(values[u]) : e <= Cursor
      BY <1>5, ZenonT(30) DEF ChannelOK
    <3> QED
      BY <1>6, <3>1, <3>2
  <2>3. ChannelOK(u)'
    BY <1>1, <1>3, <1>4, <1>5, <1>6, <2>1, <2>2, ZenonT(30) DEF ChannelOK
  <2>4. \A r \in records : r.rev \in Nat
    BY <1>0 DEF StoreOK
  <2>5. ReadingOK(u)'
    <3>a. /\ minRevision'[u] = from /\ after'[u].cursor = from
          /\ after'[u].latestRev = 0 /\ after'[u].events = {}
      BY <2>1, Zenon
    <3>b. from \in Nat
      BY <1>4
    <3>c. from <= from /\ ~(0 > 0)
      <4> HIDE DEF from
      <4> QED BY <3>b
    <3>1. minRevision'[u] <= after'[u].cursor /\ ~(after'[u].latestRev > 0)
      <4> HIDE DEF from
      <4> QED BY <3>a, <3>c, ZenonT(30)
    <3>2. \A r \in records' :
             ~(minRevision'[u] < r.rev /\ r.rev <= after'[u].cursor)
      <4>1. records' = records
        BY <1>3
      <4>2. \A r \in records : ~(from < r.rev /\ r.rev <= from)
        BY <2>4, <3>b
      <4> QED
        BY <3>a, <4>1, <4>2, ZenonT(30)
    <3> QED
      BY <3>a, <3>1, <3>2, ZenonT(30) DEF ReadingOK
  <2> QED
    BY <2>1, <2>3, <2>5, ZenonT(30) DEF WInv
<1> QED
  BY <1>2, <1>7, <1>8, <1>9, <1>10 DEF IInv

-----------------------------------------------------------------------------
(***************************************************************************)
(* Every step keeps the invariant,                                         *)
(***************************************************************************)
LEMMA NextIInv == ASSUME IInv, [Next]_vars PROVE IInv'
<1>1. CASE StoreStep
  BY <1>1, StoreStepIInv
<1>0. /\ pollStart \in Nat /\ lastWatchRev \in Nat /\ Cursor \in Nat
      /\ lastWatchRev <= Cursor
  BY DEF IInv, PollOK
<1>2. CASE PollRegister \/ PollFails \/ PollWake \/ PollTimeout \/ KickPoll
  <2>1. UNCHANGED <<store, pollStart, lastWatchRev, batch, stream, watches>>
    BY <1>2 DEF PollRegister, PollFails, PollWake, PollTimeout, KickPoll
  <2>2. /\ pollPc # "off" => pollPc' # "off"
        /\ pollPc = "publish" <=> pollPc' = "publish"
        /\ pollPc = "start" <=> pollPc' = "start"
    BY <1>2 DEF PollRegister, PollFails, PollWake, PollTimeout, KickPoll, PollAgain
  <2>3. Cursor' = Cursor
    BY <2>1, <2>2 DEF Cursor
  <2> QED
    BY <1>0, <2>1, <2>2, <2>3, QuietIInv
<1>8. CASE PollStart
  <2>1. /\ UNCHANGED <<store, batch, stream, watches>>
        /\ pollPc = "start" /\ pollPc' = "register"
        /\ lastWatchRev' = pollStart /\ pollStart' = 0
    BY <1>8 DEF PollStart
  <2>2. Cursor' = Cursor /\ Cursor = pollStart
    BY <2>1 DEF Cursor
  <2>3. pollStart' \in Nat /\ lastWatchRev' \in Nat /\ lastWatchRev' <= Cursor
    BY <1>0, <2>1, <2>2
  <2> QED
    BY <2>1, <2>2, <2>3, QuietIInv
<1>3. CASE PollRead
  BY <1>3, PollReadIInv
<1>4. CASE PollPublish
  BY <1>4, PollPublishIInv
<1>5. CASE Broadcast
  BY <1>5, BroadcastIInv
<1>6. ASSUME NEW w \in Watcher, WatchStep(w) PROVE IInv'
  <2>1. CASE \E m \in WatchRequests : BeginWatch(w, m)
    BY <2>1, BeginWatchIInv
  <2>2. CASE AfterSplit(w)
    BY <2>2, AfterSplitIInv
  <2>3. CASE AfterLast(w)
    BY <2>3, AfterLastIInv
  <2>4. CASE AfterCompacted(w) \/ AfterFails(w) \/ Cancel(w)
    BY <2>4, UnsubscribeIInv DEF AfterCompacted, AfterFails, Cancel
  <2>5. CASE Forward(w)
    BY <2>5, ForwardIInv
  <2> QED
    BY <1>6, <2>1, <2>2, <2>3, <2>4, <2>5 DEF WatchStep
<1>7. CASE UNCHANGED vars
  <2>1. /\ UNCHANGED <<store, pollStart, lastWatchRev, batch, stream, watches>>
        /\ pollPc' = pollPc /\ Cursor' = Cursor
    BY <1>7 DEF vars, poll, Cursor
  <2> QED
    BY <1>0, <2>1, QuietIInv
<1> QED
  BY <1>1, <1>2, <1>3, <1>4, <1>5, <1>6, <1>7, <1>8 DEF Next, PollStep

(***************************************************************************)
(* and so the poll loop, the broadcaster and the Watch calls of            *)
(* fdb_watch.go always satisfy it.                                         *)
(***************************************************************************)
THEOREM Invariance == Spec => []IInv
<1>1. IInv /\ [Next]_vars => IInv'
  BY NextIInv
<1> QED
  BY <1>1, InitIInv, PTL DEF Spec

-----------------------------------------------------------------------------
(***************************************************************************)
(* Every Watch call sends its events in revision order and none twice,     *)
(* over the seam between its initial read and the poll loop.               *)
(***************************************************************************)
THEOREM EventsOrdered == Spec => []Ordered
<1>1. IInv => Ordered
  <2> SUFFICES ASSUME IInv, NEW w \in Watcher PROVE Ascending(delivered[w])
    BY DEF Ordered, Ascending
  <2>0. WInv(w)
    BY ZenonT(30) DEF IInv
  <2>1. CASE wpc[w] = "running"
    BY <2>0, <2>1, ZenonT(30) DEF WInv, RunningOK
  <2>2. CASE wpc[w] # "running"
    <3>1. delivered[w] = <<>>
      BY <2>0, <2>2, ZenonT(30) DEF WInv, ChannelOK
    <3>2. Ascending(<<>>)
      BY DEF Ascending
    <3> QED
      BY <3>1, <3>2, ZenonT(30)
  <2> QED
    BY <2>1, <2>2
<1> QED
  BY <1>1, Invariance, PTL

(***************************************************************************)
(* No Watch call skips an event whose record the store still holds: an     *)
(* older event that is not sent would have to be in the channel, and what  *)
(* is in the channel and not sent lies after all that is sent.             *)
(***************************************************************************)
THEOREM NothingRetainedIsSkipped == Spec => []NoRetainedGap
<1>1. IInv => NoRetainedGap
  <2> SUFFICES ASSUME IInv, NEW w \in Watcher, NEW n \in Elems(delivered[w]),
                      NEW r \in records, minRevision[w] < r.rev, r.rev < n,
                      r.key \in Watched[w]
               PROVE  r.rev \in Elems(delivered[w])
    BY DEF NoRetainedGap, Sent, Elems
  <2>1. StoreOK /\ WInv(w) /\ Types(w)
    BY WatcherTypes DEF IInv
  <2>2. Elems(<<>>) = {}
    BY DEF Elems
  <2>3. wpc[w] = "running"
    BY <2>1, <2>2 DEF WInv, ChannelOK
  <2>4. RunningOK(w)
    BY <2>1, <2>3 DEF WInv
  <2>5. r.rev \in Elems(delivered[w]) \cup Elems(values[w])
    BY <2>4 DEF RunningOK
  <2>6. r.rev \in Nat /\ n \in Nat /\ lastRevision[w] \in Nat
    BY <2>1 DEF StoreOK, Types
  <2>7. CASE r.rev <= lastRevision[w]
    BY <2>4, <2>7, ZenonT(30) DEF RunningOK
  <2>8. CASE r.rev > lastRevision[w]
    <3>1. r.rev \in Elems(values[w]) => n < r.rev
      BY <2>4, <2>8 DEF RunningOK
    <3> QED
      BY <2>5, <2>6, <3>1
  <2>9. r.rev <= lastRevision[w] \/ r.rev > lastRevision[w]
    BY <2>6
  <2> QED
    BY <2>7, <2>8, <2>9, ZenonT(30)
<1> QED
  BY <1>1, Invariance, PTL

(***************************************************************************)
(* What poll has passed is not lost: a record at or below lastWatchRev     *)
(* that a subscribed call asks for is sent, or it is in the stream or in   *)
(* the call's channel, and not among those the call skips as sent by its   *)
(* initial read.                                                           *)
(***************************************************************************)
THEOREM NothingPassedIsLost == Spec => []PassedNotLost
<1>1. IInv => PassedNotLost
  <2> SUFFICES ASSUME IInv, NEW w \in Watcher, wpc[w] = "running", subscribed[w],
                      NEW r \in records, minRevision[w] < r.rev,
                      r.rev <= lastWatchRev, r.key \in Watched[w]
               PROVE  \/ r.rev \in Elems(delivered[w])
                      \/ r.rev \in stream \cup Elems(values[w]) /\ r.rev > lastRevision[w]
    BY DEF PassedNotLost, Sent, Pending, Unsent, Elems
  <2>1. StoreOK /\ PollOK /\ RunningOK(w) /\ Types(w)
    BY WatcherTypes DEF IInv, WInv
  <2>2. r.rev \in Nat /\ lastRevision[w] \in Nat /\ r.rev <= Cursor
    BY <2>1 DEF StoreOK, PollOK, Types
  <2>3. r.rev \in Elems(delivered[w]) \cup stream \cup Elems(values[w])
    BY <2>1, <2>2 DEF RunningOK
  <2>4. r.rev <= lastRevision[w] => r.rev \in Elems(delivered[w])
    BY <2>1 DEF RunningOK
  <2>5. r.rev <= lastRevision[w] \/ r.rev > lastRevision[w]
    BY <2>2
  <2> QED
    BY <2>3, <2>4, <2>5
<1> QED
  BY <1>1, Invariance, PTL
-----------------------------------------------------------------------------
(***************************************************************************)
(* The theorems about the store, and that both instances of Mvcc define    *)
(* the same.                                                               *)
(***************************************************************************)
MP == INSTANCE MvccProofs

(***************************************************************************)
(* The same steps,                                                         *)
(***************************************************************************)
LEMMA SameNext == [S!Next]_S!vars <=> [MP!Next]_MP!vars
<1>1. S!Next <=> MP!Next
  BY DEF S!Next, MP!Next, S!Write, MP!Write, S!Compact, MP!Compact,
         S!Tick, MP!Tick, S!Create, MP!Create, S!Update, MP!Update,
         S!Delete, MP!Delete, S!StartSweep, MP!StartSweep,
         S!SweepBatch, MP!SweepBatch, S!StopSweep, MP!StopSweep,
         S!AppendRecord, MP!AppendRecord, S!InRange, MP!InRange, S!Doomed, MP!Doomed,
         S!AfterBatch, MP!AfterBatch, S!GetLast, MP!GetLast,
         S!Newest, MP!Newest, S!CreateRecord, MP!CreateRecord,
         S!UpdateRecord, MP!UpdateRecord, S!DeleteRecord, MP!DeleteRecord,
         S!GetCreateRevision, MP!GetCreateRevision,
         S!CompactRequests, MP!CompactRequests, S!NoRev, MP!NoRev,
         S!NoSweep, MP!NoSweep
<1> QED
  BY <1>1 DEF S!vars, MP!vars

(***************************************************************************)
(* and the same initial states.                                            *)
(***************************************************************************)
LEMMA SameInit == S!Init <=> MP!Init
  BY DEF S!Init, MP!Init, S!CreateRecord, MP!CreateRecord, S!NoSweep, MP!NoSweep,
         S!NoRev, MP!NoRev

(***************************************************************************)
(* The types of the poll loop, as far as the invariant does not have them. *)
(***************************************************************************)
PollTypes ==
    /\ pollPc \in {"off", "start", "register", "read", "publish", "wait"}
    /\ armed \in Nat
    /\ pollKick \in BOOLEAN

(***************************************************************************)
(* The steps of the poll loop keep its types.                              *)
(***************************************************************************)
LEMMA NextTypes == ASSUME IInv, PollTypes, [Next]_vars PROVE PollTypes'
<1>1. version \in Nat
  BY DEF IInv, StoreOK
<1>2. CASE PollStep
  <2>1. pollPc' \in {"register", "read", "publish", "wait"}
    BY <1>2 DEF PollStep, PollStart, PollRegister, PollRead, PollFails,
       PollPublish, PollWake, PollTimeout, PollAgain
  <2>2. armed' = 0 \/ armed' = version \/ armed' = armed
    BY <1>2 DEF PollStep, PollStart, PollRegister, PollRead, PollFails,
       PollPublish, PollWake, PollTimeout, PollAgain
  <2>3. pollKick' = FALSE \/ pollKick' = pollKick
    BY <1>2, ZenonT(30) DEF PollStep, PollStart, PollRegister, PollRead, PollFails,
       PollPublish, PollWake, PollTimeout
  <2>4. pollKick' \in BOOLEAN
    BY <2>3, ZenonT(30) DEF PollTypes
  <2> QED
    BY <1>1, <2>1, <2>2, <2>4 DEF PollTypes
<1>3. ASSUME NEW w \in Watcher, WatchStep(w) PROVE PollTypes'
  <2>1. CASE \E m \in WatchRequests : BeginWatch(w, m)
    BY <2>1 DEF PollTypes, BeginWatch, Subscribe, SubscribeRunning, SubscribeFails, poll
  <2>2. CASE ~\E m \in WatchRequests : BeginWatch(w, m)
    BY <1>3, <2>2, ZenonT(30) DEF PollTypes, WatchStep, AfterSplit, AfterLast, AfterCompacted,
       AfterFails, Forward, Cancel, Unsubscribe, poll
  <2> QED
    BY <2>1, <2>2
<1>4. CASE StoreStep \/ KickPoll \/ Broadcast \/ UNCHANGED vars
  BY <1>4, ZenonT(30) DEF PollTypes, StoreStep, KickPoll, Broadcast, vars, poll
<1> QED
  BY <1>2, <1>3, <1>4 DEF Next

(***************************************************************************)
(* The store sees its own steps only.                                      *)
(***************************************************************************)
LEMMA NextStore == [Next]_vars => [S!Next]_S!vars
<1> SUFFICES ASSUME [Next]_vars PROVE [S!Next]_store
  BY DEF S!vars, store
<1>1. CASE PollStep
  BY <1>1 DEF PollStep, PollStart, PollRegister, PollRead, PollFails, PollPublish,
     PollWake, PollTimeout
<1>2. ASSUME NEW w \in Watcher, WatchStep(w) PROVE UNCHANGED store
  BY <1>2, ZenonT(30) DEF WatchStep, BeginWatch, AfterSplit, AfterLast, AfterCompacted,
     AfterFails, Forward, Cancel, Unsubscribe
<1>3. CASE StoreStep \/ KickPoll \/ Broadcast \/ UNCHANGED vars
  BY <1>3, ZenonT(30) DEF StoreStep, KickPoll, Broadcast, vars
<1> QED
  BY <1>1, <1>2, <1>3 DEF Next

(***************************************************************************)
(* Every variable of the watches and of the store below keeps its type.    *)
(***************************************************************************)
THEOREM TypeCorrect == Spec => []TypeOK
<1>1. Init => MP!Init /\ PollTypes
  <2>1. Init => S!Init
    BY DEF Init
  <2>2. Init => pollPc = "off" /\ armed = 0 /\ pollKick = FALSE
    BY DEF Init
  <2>3. pollKick = FALSE => pollKick \in BOOLEAN
    BY ZenonT(30)
  <2> QED
    BY <2>1, <2>2, <2>3, SameInit DEF PollTypes
<1>2. [Next]_vars => [MP!Next]_MP!vars
  BY NextStore, SameNext
<1>3. MP!Spec => []MP!TypeOK
  BY MP!TypeCorrect, MaxVersionAssumption
<1>4. MP!TypeOK /\ IInv /\ PollTypes => TypeOK
  <2>1. MP!TypeOK => S!TypeOK
    BY DEF MP!TypeOK, S!TypeOK, MP!Record, S!Record, MP!Sweep, S!Sweep,
       MP!NoRev, S!NoRev
  <2> QED
    BY <2>1 DEF IInv, PollOK, WatchersOK, PollTypes, TypeOK, Rev, Batch
<1>5. IInv /\ PollTypes /\ [Next]_vars => PollTypes'
  BY NextTypes
<1> QED
  BY <1>1, <1>2, <1>3, <1>4, <1>5, Invariance, PTL DEF Spec, MP!Spec
=============================================================================
