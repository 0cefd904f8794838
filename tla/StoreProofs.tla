----------------------------- MODULE StoreProofs -----------------------------
(***************************************************************************)
(* Store implements Mvcc, and its subspaces agree: a commit is an abstract *)
(* append, a batch of a compaction an abstract one, and every other step a *)
(* stutter.  First the correspondence of the two subspaces, what an        *)
(* attempt leaves, and the steps that commit nothing.                      *)
(***************************************************************************)
EXTENDS Store, TLAPS, WellFoundedInduction

(***************************************************************************)
(* The obligations are small but many: allow for the time they wait.       *)
(***************************************************************************)
USE ZenonT(10), SMTT(20), Z3T(20)

(***************************************************************************)
(* A nonempty set of numbers up to n has a greatest element.               *)
(***************************************************************************)
LEMMA GreatestExists ==
    ASSUME NEW n \in Nat, NEW T \in SUBSET Nat, \A x \in T : x <= n, T # {}
    PROVE  \E m \in T : \A x \in T : x <= m
<1> DEFINE R == OpToRel(<, Nat)
           D == {d \in Nat : \E x \in T : d + x = n}
<1>1. IsWellFoundedOn(R, Nat)
  BY NatLessThanWellFounded, Zenon
<1>2. D \subseteq Nat /\ D # {}
  <2>1. PICK x \in T : TRUE
    BY Zenon
  <2>2. n - x \in D
    BY <2>1
  <2> QED
    BY <2>2, Zenon
<1>3. PICK d \in D : \A e \in D : ~(<<e, d>> \in R)
  <2> HIDE DEF R, D
  <2> QED BY <1>1, <1>2, WFMin, Zenon
<1>4. \A e \in D : ~(e < d)
  BY <1>3, Zenon DEF OpToRel
<1>5. PICK m \in T : d + m = n
  OBVIOUS
<1>6. ASSUME NEW x \in T
      PROVE  x <= m
  <2>1. n - x \in D
    BY <1>6
  <2>2. ~(n - x < d)
    BY <2>1, <1>4
  <2> QED
    BY <2>2, <1>5
<1> QED
  BY <1>6

(***************************************************************************)
(* A nonempty set of records with bounded revisions has a newest one.      *)
(***************************************************************************)
LEMMA LastExists ==
    ASSUME NEW S, NEW n \in Nat, \A s \in S : s.rev \in Nat /\ s.rev <= n,
           NEW r \in S
    PROVE  \E m \in S : m \in M!Newest(S, r.key)
<1> DEFINE T == {s.rev : s \in {t \in S : t.key = r.key}}
<1>1. T \in SUBSET Nat /\ T # {} /\ \A x \in T : x <= n
  OBVIOUS
<1>2. PICK g \in T : \A x \in T : x <= g
  <2> HIDE DEF T
  <2> QED BY <1>1, GreatestExists, Zenon
<1>3. PICK m \in S : m.key = r.key /\ m.rev = g
  OBVIOUS
<1> QED
  BY <1>2, <1>3 DEF M!Newest

(***************************************************************************)
(* What getLast finds after any compaction is the newest record of the     *)
(* key's whole history.                                                    *)
(***************************************************************************)
LEMMA AbstractLastIsNewest ==
    ASSUME M!IInv, NEW k \in Key, NEW l \in M!GetLast(k),
           NEW h \in history, h.key = k
    PROVE  h.rev <= l.rev
<1>1. l \in byRevision /\ l \in history /\ l.key = k
  BY DEF M!IInv, M!RevisionsUnique, M!GetLast, M!Newest
<1>2. CASE h \in byRevision
  BY <1>2 DEF M!GetLast, M!Newest
<1>3. CASE h \notin byRevision
  <2>1. PICK s \in byRevision : s.key = k /\ s.rev > h.rev
    BY <1>1, <1>3 DEF M!IInv, M!RemovedInOrder
  <2>2. s.rev <= l.rev
    BY <2>1 DEF M!GetLast, M!Newest
  <2>3. h.rev \in Nat /\ s.rev \in Nat /\ l.rev \in Nat
    BY <1>1 DEF M!IInv, M!TypeOK, M!Record
  <2> QED
    BY <2>1, <2>2, <2>3
<1> QED
  BY <1>2, <1>3

-----------------------------------------------------------------------------
(***************************************************************************)
(* What an attempt that found last has prepared for the request a, H being *)
(* the history.                                                            *)
(***************************************************************************)
PreparedFrom(H, a, last, p) ==
    \/ /\ a.op = "create" /\ last = {}
       /\ p = M!CreateRecord(0, a.key, a.value, a.lease, M!NoRev)
    \/ /\ a.op = "create"
       /\ \E l \in last :
             l.isDelete /\ p = M!CreateRecord(0, a.key, a.value, a.lease, l.rev)
    \/ /\ a.op = "update"
       /\ \E l \in last : /\ ~l.isDelete /\ l.rev = a.revision
                          /\ p = M!UpdateRecord(0, l, a.value, a.lease)
    \/ /\ a.op = "delete"
       /\ \E l \in last, r \in H :
             /\ r.rev = l.rev /\ ~l.isDelete /\ a.revision \in {0, l.rev}
             /\ p = M!DeleteRecord(0, r)

Preparations ==
    \A c \in Client : pc[c] = "commit" =>
       \A p \in tx[c].prepared : PreparedFrom(history, req[c], tx[c].last, p)

(***************************************************************************)
(* The inductive invariant that makes every commit a step of Mvcc.         *)
(***************************************************************************)
StoreInv ==
    /\ TypeOK
    /\ M!RevisionsUnique
    /\ SubspacesAgree
    /\ Preparations

(***************************************************************************)
(* The fields of a request have their types.                               *)
(***************************************************************************)
LEMMA RequestFields ==
    ASSUME NEW a \in Request(Nat)
    PROVE  /\ a.op \in {"create", "update", "delete"}
           /\ a.key \in Key /\ a.revision \in Nat
           /\ a.op # "delete" => a.value \in Value /\ a.lease \in Lease
           /\ a.op = "create" => a.revision = 0
           /\ a.op = "update" => a.revision # 0
  BY DEF Request

(***************************************************************************)
(* The fields of an index entry are those of its record.                   *)
(***************************************************************************)
LEMMA EntryFields ==
    ASSUME NEW r \in M!Record, NEW u \in UUID \cup {OldUUID}
    PROVE  /\ IndexEntry(r, u) \in IndexRecord
           /\ IndexEntry(r, u).writeUUID = u
           /\ IndexEntry(r, u).rev = r.rev
           /\ IndexEntry(r, u).key = r.key
           /\ IndexEntry(r, u).isCreate = r.isCreate
           /\ IndexEntry(r, u).isDelete = r.isDelete
           /\ IndexEntry(r, u).createRevision = r.createRevision
  BY DEF IndexEntry, IndexRecord, M!Record

(***************************************************************************)
(* Every index entry is that of the one record with its revision.          *)
(***************************************************************************)
LEMMA EntryOf ==
    ASSUME StoreInv, NEW i \in byKeyAndRevision
    PROVE  /\ i.rev \in Nat /\ i.rev <= version /\ i.key \in Key
           /\ \E r \in byRevision :
                 /\ i = IndexEntry(r, i.writeUUID)
                 /\ r.rev = i.rev /\ r.key = i.key /\ r.isDelete = i.isDelete
                 /\ r.isCreate = i.isCreate
                 /\ r.createRevision = i.createRevision
                 /\ \A h \in history : h.rev = i.rev => h = r
<1>1. i \in IndexRecord /\ i.writeUUID \in UUID \cup {OldUUID}
  BY DEF StoreInv, TypeOK, IndexRecord
<1>2. PICK r \in byRevision : i = IndexEntry(r, i.writeUUID)
  BY DEF StoreInv, SubspacesAgree
<1>3. r \in M!Record /\ r \in history
  BY DEF StoreInv, TypeOK, M!RevisionsUnique
<1>4. /\ r.rev = i.rev /\ r.key = i.key /\ r.isDelete = i.isDelete
      /\ r.isCreate = i.isCreate /\ r.createRevision = i.createRevision
  BY <1>1, <1>2, <1>3, EntryFields
<1>5. i.rev \in Nat /\ i.rev <= version /\ i.key \in Key
  BY <1>1, <1>3, <1>4 DEF IndexRecord, StoreInv, M!RevisionsUnique
<1>6. \A h \in history : h.rev = i.rev => h = r
  BY <1>3, <1>4 DEF StoreInv, M!RevisionsUnique
<1> QED
  BY <1>2, <1>4, <1>5, <1>6

(***************************************************************************)
(* Every record has an index entry, with its revision and its key.         *)
(***************************************************************************)
LEMMA RecordHasEntry ==
    ASSUME StoreInv, NEW r \in byRevision
    PROVE  \E i \in byKeyAndRevision :
              /\ i = IndexEntry(r, i.writeUUID)
              /\ i.rev = r.rev /\ i.key = r.key
<1>1. PICK i \in byKeyAndRevision : i = IndexEntry(r, i.writeUUID)
  BY DEF StoreInv, SubspacesAgree
<1>2. i.writeUUID \in UUID \cup {OldUUID} /\ r \in M!Record
  BY DEF StoreInv, TypeOK, IndexRecord
<1> QED
  BY <1>1, <1>2, EntryFields

(***************************************************************************)
(* getLast, which reads the index, finds the abstract store's last record. *)
(***************************************************************************)
LEMMA LastCorresponds ==
    ASSUME StoreInv, NEW k \in Key
    PROVE  /\ \A l \in GetLast(k) : \E r \in M!GetLast(k) :
                 /\ l = IndexEntry(r, l.writeUUID)
                 /\ r.rev = l.rev /\ r.key = l.key /\ r.isDelete = l.isDelete
                 /\ r.isCreate = l.isCreate
                 /\ r.createRevision = l.createRevision
                 /\ \A h \in history : h.rev = l.rev => h = r
           /\ M!GetLast(k) # {} => GetLast(k) # {}
<1>1. ASSUME NEW l \in GetLast(k)
      PROVE  \E r \in M!GetLast(k) :
                 /\ l = IndexEntry(r, l.writeUUID)
                 /\ r.rev = l.rev /\ r.key = l.key /\ r.isDelete = l.isDelete
                 /\ r.isCreate = l.isCreate
                 /\ r.createRevision = l.createRevision
                 /\ \A h \in history : h.rev = l.rev => h = r
  <2>1. /\ l \in byKeyAndRevision /\ l.key = k
        /\ \A i \in byKeyAndRevision : i.key = k => i.rev <= l.rev
    BY DEF GetLast, M!Newest
  <2>2. PICK r \in byRevision :
                 /\ l = IndexEntry(r, l.writeUUID)
                 /\ r.rev = l.rev /\ r.key = l.key /\ r.isDelete = l.isDelete
                 /\ r.isCreate = l.isCreate
                 /\ r.createRevision = l.createRevision
                 /\ \A h \in history : h.rev = l.rev => h = r
    BY <2>1, EntryOf
  <2>3. ASSUME NEW s \in byRevision, s.key = k
        PROVE  s.rev <= r.rev
    BY <2>1, <2>2, <2>3, RecordHasEntry
  <2> QED
    BY <2>1, <2>2, <2>3 DEF M!GetLast, M!Newest
<1>2. ASSUME NEW r \in M!GetLast(k)
      PROVE  GetLast(k) # {}
  <2>1. r \in byRevision /\ r.key = k
    BY DEF M!GetLast, M!Newest
  <2>2. PICK i \in byKeyAndRevision : i.key = k
    BY <2>1, RecordHasEntry
  <2>3. \A j \in byKeyAndRevision : j.rev \in Nat /\ j.rev <= version
    BY EntryOf
  <2>4. version \in Nat
    BY DEF StoreInv, TypeOK
  <2> QED
    BY <2>2, <2>3, <2>4, LastExists DEF GetLast
<1> QED
  BY <1>1, <1>2

-----------------------------------------------------------------------------
(***************************************************************************)
(* The part of TypeOK that is about the calls.                             *)
(***************************************************************************)
ClientTypeOK ==
    /\ pc \in [Client -> {"idle", "attempt", "commit", "done"}]
    /\ req \in [Client -> Request(Nat) \cup {NoRequest}]
    /\ \A c \in Client : pc[c] # "idle" => req[c] \in Request(Nat)
    /\ tx \in [Client -> Tx]
    /\ retries \in [Client -> 0 .. MaxRetry]
    /\ reply \in [Client -> Reply]

(***************************************************************************)
(* An attempt that is over, with an answer or to be retried.               *)
(***************************************************************************)
LEMMA AttemptEnds ==
    ASSUME ClientTypeOK, Preparations, history \subseteq history',
           NEW c \in Client, req[c] \in Request(Nat),
           \/ \E a \in {"ok", "refused", "error"}, n, kv \in Nat :
                 Return(c, a, n, kv)
           \/ Retry(c)
    PROVE  ClientTypeOK' /\ Preparations'
<1>1. NewTx(c) \in Tx /\ NewTx(c).prepared = {}
  BY DEF NewTx, Tx, CreateUUID, UUID
<1> DEFINE t == [lastWriteUUID |-> tx[c].lastWriteUUID, readVersion |-> 0,
                 last |-> {}, prepared |-> {}]
<1>2. t \in Tx /\ t.prepared = {}
  BY DEF ClientTypeOK, Tx
<1> HIDE DEF t
<1>3. /\ req' = req
      /\ \E x \in {"attempt", "done"} : pc' = [pc EXCEPT ![c] = x]
      /\ tx' = [tx EXCEPT ![c] = NewTx(c)] \/ tx' = [tx EXCEPT ![c] = t]
  BY DEF Return, Retry, t
<1>4. /\ pc' \in [Client -> {"idle", "attempt", "commit", "done"}]
      /\ \A d \in Client : d # c => pc'[d] = pc[d] /\ tx'[d] = tx[d]
      /\ tx' \in [Client -> Tx] /\ tx'[c].prepared = {}
  BY <1>1, <1>2, <1>3 DEF ClientTypeOK
<1>5. \A d \in Client : pc'[d] # "idle" => req'[d] \in Request(Nat)
  BY <1>3, <1>4 DEF ClientTypeOK
<1>6. retries' \in [Client -> 0 .. MaxRetry]
  <2>1. retries[c] \in 0 .. MaxRetry
    BY DEF ClientTypeOK
  <2>2. CASE Retry(c)
    BY <2>1, <2>2, MaxRetryAssumption DEF ClientTypeOK, Retry
  <2>3. CASE retries' = [retries EXCEPT ![c] = 0]
    BY <2>3, MaxRetryAssumption DEF ClientTypeOK
  <2> QED
    BY <2>2, <2>3 DEF Return
<1>7. reply' \in [Client -> Reply]
  <2>1. ASSUME NEW a \in {"ok", "refused", "error"}, NEW n \in Nat,
               NEW kv \in Nat, Return(c, a, n, kv)
        PROVE  reply' \in [Client -> Reply]
    <3>1. [answer |-> a, rev |-> n, kv |-> kv] \in Reply
      BY DEF Reply
    <3> QED
      BY <2>1, <3>1 DEF Return, ClientTypeOK
  <2>2. CASE Retry(c)
    BY <2>2 DEF Retry, ClientTypeOK
  <2> QED
    BY <2>1, <2>2
<1>8. Preparations'
  <2> SUFFICES ASSUME NEW d \in Client, pc'[d] = "commit",
                      NEW p \in tx'[d].prepared
               PROVE  PreparedFrom(history', req'[d], tx'[d].last, p)
    BY DEF Preparations
  <2>1. d # c
    BY <1>4
  <2>2. PreparedFrom(history, req[d], tx[d].last, p)
    BY <1>4, <2>1 DEF Preparations
  <2> QED
    BY <1>3, <1>4, <2>1, <2>2 DEF PreparedFrom
<1> QED
  BY <1>3, <1>4, <1>5, <1>6, <1>7, <1>8 DEF ClientTypeOK

(***************************************************************************)
(* An attempt that has a record to commit.                                 *)
(***************************************************************************)
LEMMA AttemptPrepares ==
    ASSUME StoreInv, NEW c \in Client, req[c] \in Request(Nat),
           NEW r \in M!Record, Prepare(c, r),
           PreparedFrom(history, req[c], GetLast(req[c].key), r)
    PROVE  ClientTypeOK' /\ Preparations'
<1> DEFINE t == [lastWriteUUID |-> CreateUUID(c, version),
                 readVersion |-> version,
                 last |-> GetLast(req[c].key), prepared |-> {r}]
<1>1. t \in Tx /\ t.prepared = {r} /\ t.last = GetLast(req[c].key)
  <2>1. GetLast(req[c].key) \subseteq IndexRecord /\ version \in Nat
    BY DEF GetLast, M!Newest, StoreInv, TypeOK
  <2> QED
    BY <2>1 DEF Tx, CreateUUID, UUID
<1> HIDE DEF t
<1>2. /\ pc' = [pc EXCEPT ![c] = "commit"] /\ tx' = [tx EXCEPT ![c] = t]
      /\ UNCHANGED <<req, retries, reply, history>>
  BY DEF Prepare, data, t
<1>3. ClientTypeOK
  BY DEF StoreInv, TypeOK, ClientTypeOK
<1>4. ClientTypeOK'
  BY <1>1, <1>2, <1>3 DEF ClientTypeOK
<1>5. Preparations'
  <2> SUFFICES ASSUME NEW d \in Client, pc'[d] = "commit",
                      NEW p \in tx'[d].prepared
               PROVE  PreparedFrom(history', req'[d], tx'[d].last, p)
    BY DEF Preparations
  <2>1. CASE d = c
    <3>1. tx'[d] = t /\ p = r
      BY <1>1, <1>2, <1>3, <2>1 DEF ClientTypeOK
    <3> QED
      BY <1>1, <1>2, <2>1, <3>1 DEF PreparedFrom
  <2>2. CASE d # c
    <3>1. pc'[d] = pc[d] /\ tx'[d] = tx[d]
      BY <1>2, <1>3, <2>2 DEF ClientTypeOK
    <3>2. PreparedFrom(history, req[d], tx[d].last, p)
      BY <3>1 DEF StoreInv, Preparations
    <3> QED
      BY <1>2, <3>1, <3>2 DEF PreparedFrom
  <2> QED
    BY <2>1, <2>2
<1> QED
  BY <1>4, <1>5

-----------------------------------------------------------------------------
(***************************************************************************)
(* The steps of a call that commit nothing.                                *)
(***************************************************************************)
Quiet(c) ==
    \/ CreateAttempt(c)
    \/ UpdateAttempt(c)
    \/ DeleteAttempt(c)
    \/ AttemptFails(c)
    \/ CommitFails(c)
    \/ \E r \in Requests : Begin(c, r)

(***************************************************************************)
(* What such a step does: it begins the call, or its attempt has ended, or *)
(* has prepared a record.                                                  *)
(***************************************************************************)
LEMMA QuietKinds ==
    ASSUME StoreInv, NEW c \in Client, Quiet(c)
    PROVE  /\ UNCHANGED <<data, compactRev, appended, sweep>>
           /\ \/ \E r \in Requests : Begin(c, r)
              \/ /\ req[c] \in Request(Nat)
                 /\ \/ \E a \in {"ok", "refused", "error"}, n, kv \in Nat :
                          Return(c, a, n, kv)
                    \/ Retry(c)
              \/ /\ req[c] \in Request(Nat)
                 /\ \E r \in M!Record :
                       /\ Prepare(c, r)
                       /\ PreparedFrom(history, req[c],
                                       GetLast(req[c].key), r)
<1> DEFINE k == req[c].key
           Ends == \/ \E a \in {"ok", "refused", "error"}, n, kv \in Nat :
                         Return(c, a, n, kv)
                   \/ Retry(c)
           Prepares == \E r \in M!Record :
                          /\ Prepare(c, r)
                          /\ PreparedFrom(history, req[c], GetLast(k), r)
           Same == UNCHANGED <<data, compactRev, appended, sweep>>
<1>1. version \in Nat /\ ClientTypeOK
  BY DEF StoreInv, TypeOK, ClientTypeOK
<1>2. ASSUME pc[c] # "idle"
      PROVE  /\ req[c] \in Request(Nat) /\ k \in Key
             /\ req[c].op # "delete" =>
                   req[c].value \in Value /\ req[c].lease \in Lease
  BY <1>1, <1>2, RequestFields DEF ClientTypeOK
<1>3. ASSUME NEW l \in GetLast(k), pc[c] # "idle"
      PROVE  /\ l.rev \in Nat /\ l.key = k
             /\ l.createRevision \in Nat
  BY DEF GetLast, M!Newest, StoreInv, TypeOK, IndexRecord
<1>4. ASSUME NEW a \in {"ok", "refused", "error"}, NEW n \in Nat,
             NEW kv \in Nat, Answer(c, a, n, kv)
      PROVE  Same /\ Ends
  BY <1>4 DEF Answer
<1>5. CASE CreateAttempt(c)
  <2> DEFINE v == req[c].value
             ttl == req[c].lease
  <2>1. pc[c] # "idle" /\ req[c].op = "create"
    BY <1>5 DEF CreateAttempt, Attempting
  <2>2. ASSUME NEW n \in Nat
        PROVE  M!CreateRecord(0, k, v, ttl, n) \in M!Record
    BY <1>2, <2>1 DEF M!CreateRecord, M!Record, M!NoRev
  <2>3. ASSUME GetLast(k) = {},
               Prepare(c, M!CreateRecord(0, k, v, ttl, M!NoRev))
        PROVE  Same /\ Prepares
    <3>1. M!NoRev \in Nat
      BY DEF M!NoRev
    <3>2. PreparedFrom(history, req[c], GetLast(k),
                       M!CreateRecord(0, k, v, ttl, M!NoRev))
      BY <2>1, <2>3 DEF PreparedFrom
    <3>3. Same
      BY <2>3 DEF Prepare
    <3> QED
      BY <1>2, <2>1, <2>2, <2>3, <3>1, <3>2, <3>3
  <2>4. ASSUME NEW l \in GetLast(k), l.isDelete,
               Prepare(c, M!CreateRecord(0, k, v, ttl, l.rev))
        PROVE  Same /\ Prepares
    <3>1. PreparedFrom(history, req[c], GetLast(k),
                       M!CreateRecord(0, k, v, ttl, l.rev))
      BY <2>1, <2>4, ZenonT(30) DEF PreparedFrom
    <3>2. Same
      BY <2>4 DEF Prepare
    <3> QED
      BY <1>3, <2>1, <2>2, <2>4, <3>1, <3>2, ZenonT(30)
  <2>5. ASSUME NEW l \in GetLast(k),
               Answer(c, "ok", l.rev, 0) \/ Answer(c, "refused", 0, 0)
        PROVE  Same /\ Ends
    BY <1>3, <1>4, <2>1, <2>5
  <2> HIDE DEF Ends, Prepares, Same
  <2>6. Same /\ (Ends \/ Prepares)
    <3>1. CASE GetLast(k) = {}
               /\ Prepare(c, M!CreateRecord(0, k, v, ttl, M!NoRev))
      BY <2>3, <3>1
    <3>2. CASE \E l \in GetLast(k) :
                  \/ Answer(c, "ok", l.rev, 0) \/ Answer(c, "refused", 0, 0)
                  \/ /\ l.isDelete
                     /\ Prepare(c, M!CreateRecord(0, k, v, ttl, l.rev))
      BY <2>4, <2>5, <3>2
    <3> QED
      BY <1>5, <3>1, <3>2 DEF CreateAttempt
  <2> QED
    BY <1>2, <2>1, <2>6 DEF Ends, Prepares, Same
<1>6. CASE UpdateAttempt(c)
  <2> DEFINE v == req[c].value
             ttl == req[c].lease
  <2>1. pc[c] # "idle" /\ req[c].op = "update"
    BY <1>6 DEF UpdateAttempt, Attempting
  <2>2. ASSUME NEW l \in GetLast(k), ~l.isDelete, l.rev = req[c].revision,
               Prepare(c, M!UpdateRecord(0, l, v, ttl))
        PROVE  Same /\ Prepares
    <3>1. M!UpdateRecord(0, l, v, ttl) \in M!Record
      BY <1>2, <1>3, <2>1
         DEF M!UpdateRecord, M!GetCreateRevision, M!Record
    <3>2. PreparedFrom(history, req[c], GetLast(k),
                       M!UpdateRecord(0, l, v, ttl))
      BY <2>1, <2>2 DEF PreparedFrom
    <3>3. Same
      BY <2>2, ZenonT(30) DEF Prepare
    <3> QED
      BY <2>2, <3>1, <3>2, <3>3
  <2>3. ASSUME NEW l \in GetLast(k),
               \/ Answer(c, "ok", l.rev, l.rev)
               \/ Answer(c, "refused", version, l.rev)
        PROVE  Same /\ Ends
    BY <1>1, <1>3, <1>4, <2>1, <2>3
  <2>4. CASE Answer(c, "refused", version, 0)
    BY <1>1, <1>2, <1>4, <2>1, <2>4, ZenonT(30)
  <2> HIDE DEF Ends, Prepares, Same
  <2>5. CASE \E l \in GetLast(k) :
                \/ Answer(c, "ok", l.rev, l.rev)
                \/ Answer(c, "refused", version, l.rev)
                \/ /\ ~l.isDelete /\ l.rev = req[c].revision
                   /\ Prepare(c, M!UpdateRecord(0, l, v, ttl))
    <3>1. Same /\ (Ends \/ Prepares)
      BY <2>2, <2>3, <2>5
    <3> QED
      BY <1>2, <2>1, <3>1, ZenonT(30) DEF Ends, Prepares, Same
  <2> QED
    BY <1>6, <2>4, <2>5, ZenonT(30) DEF UpdateAttempt
<1>7. CASE DeleteAttempt(c)
  <2>1. pc[c] # "idle" /\ req[c].op = "delete"
    BY <1>7, ZenonT(30) DEF DeleteAttempt, Attempting
  <2>2. ASSUME NEW l \in GetLast(k), NEW r \in byRevision, r.rev = l.rev,
               ~l.isDelete, req[c].revision \in {0, l.rev},
               Prepare(c, M!DeleteRecord(0, r))
        PROVE  Same /\ Prepares
    <3>1. r \in M!Record /\ r \in history
      BY DEF StoreInv, TypeOK, M!RevisionsUnique
    <3>2. M!DeleteRecord(0, r) \in M!Record
      BY <3>1 DEF M!DeleteRecord, M!GetCreateRevision, M!Record
    <3>3. PreparedFrom(history, req[c], GetLast(k), M!DeleteRecord(0, r))
      BY <2>1, <2>2, <3>1, ZenonT(30) DEF PreparedFrom
    <3>4. Same
      BY <2>2, ZenonT(30) DEF Prepare
    <3> QED
      BY <2>2, <3>2, <3>3, <3>4
  <2>3. ASSUME NEW l \in GetLast(k),
               \/ Answer(c, "ok", l.rev, l.rev)
               \/ Answer(c, "refused", version, l.rev)
        PROVE  Same /\ Ends
    BY <1>1, <1>3, <1>4, <2>1, <2>3
  <2>4. CASE Answer(c, "refused", version, 0)
    BY <1>1, <1>2, <1>4, <2>1, <2>4
  <2> HIDE DEF Ends, Prepares, Same
  <2>5. CASE \E l \in GetLast(k), r \in byRevision :
                \/ Answer(c, "ok", l.rev, l.rev)
                \/ Answer(c, "refused", version, l.rev)
                \/ /\ r.rev = l.rev /\ ~l.isDelete
                   /\ req[c].revision \in {0, l.rev}
                   /\ Prepare(c, M!DeleteRecord(0, r))
    <3>1. Same /\ (Ends \/ Prepares)
      BY <2>2, <2>3, <2>5
    <3> QED
      BY <1>2, <2>1, <3>1 DEF Ends, Prepares, Same
  <2> QED
    BY <1>7, <2>4, <2>5, ZenonT(30) DEF DeleteAttempt
<1>8. CASE AttemptFails(c) \/ CommitFails(c)
  <2>1. pc[c] # "idle" /\ Same
    BY <1>8 DEF AttemptFails, CommitFails
  <2>2. Retry(c) \/ Return(c, "error", 0, 0)
    BY <1>8 DEF AttemptFails, CommitFails
  <2> QED
    BY <1>2, <2>1, <2>2
<1>9. CASE \E r \in Requests : Begin(c, r)
  BY <1>9, Zenon DEF Begin
<1> QED
  BY <1>5, <1>6, <1>7, <1>8, <1>9 DEF Quiet

(***************************************************************************)
(* They preserve the invariant, and the abstract store does not see them.  *)
(***************************************************************************)
LEMMA QuietStep ==
    ASSUME StoreInv, NEW c \in Client, Quiet(c)
    PROVE  StoreInv' /\ UNCHANGED M!vars
<1>1. UNCHANGED <<data, compactRev, appended, sweep>>
  BY QuietKinds
<1>2. ClientTypeOK /\ Preparations
  BY DEF StoreInv, TypeOK, ClientTypeOK
<1>3. ASSUME NEW r \in Requests, Begin(c, r)
      PROVE  ClientTypeOK' /\ Preparations'
  <2>1. r \in Request(Nat)
    BY DEF Requests, Request, StoreInv, TypeOK
  <2>2. /\ pc' = [pc EXCEPT ![c] = "attempt"] /\ req' = [req EXCEPT ![c] = r]
        /\ UNCHANGED <<tx, retries, reply, history>>
    BY <1>3 DEF Begin, data
  <2>3. ClientTypeOK'
    BY <1>2, <2>1, <2>2 DEF ClientTypeOK
  <2>4. Preparations'
    BY <1>2, <2>2 DEF Preparations, ClientTypeOK
  <2> QED
    BY <2>3, <2>4
<1>4. history \subseteq history'
  BY <1>1 DEF data
<1>5. ClientTypeOK' /\ Preparations'
  BY <1>2, <1>3, <1>4, QuietKinds, AttemptEnds, AttemptPrepares
<1>6. TypeOK'
  BY <1>1, <1>5 DEF StoreInv, TypeOK, ClientTypeOK, data
<1>7. M!RevisionsUnique' /\ SubspacesAgree'
  BY <1>1 DEF data, StoreInv, M!RevisionsUnique, SubspacesAgree
<1> QED
  BY <1>1, <1>5, <1>6, <1>7 DEF StoreInv, M!vars, data

-----------------------------------------------------------------------------
(***************************************************************************)
(* The record a commit appends, when getLast would still find what the     *)
(* attempt has found, is one the abstract store may append.                *)
(***************************************************************************)
LEMMA CommitRecord ==
    ASSUME StoreInv, NEW c \in Client, pc[c] = "commit",
           NEW p \in tx[c].prepared, GetLast(req[c].key) = tx[c].last,
           NEW r, r = [p EXCEPT !.rev = version + 1]
    PROVE  /\ r \in M!Record /\ r.rev = version + 1 /\ r.key = req[c].key
           /\ Wrote(req[c], r)
           /\ req[c].revision # 0 =>
                 /\ r.prevRevision = req[c].revision
                 /\ \E l \in GetLast(req[c].key) : l.rev = req[c].revision
           /\ M!AppendRecord(r) => M!Write
<1> DEFINE a == req[c]
           k == a.key
<1>1. /\ version \in Nat /\ p \in M!Record
      /\ a \in Request(Nat) /\ k \in Key
      /\ a.op # "delete" => a.value \in Value /\ a.lease \in Lease
      /\ PreparedFrom(history, a, GetLast(k), p)
  BY RequestFields DEF StoreInv, TypeOK, Tx, Preparations
<1>2. r \in M!Record /\ r.rev = version + 1
  BY <1>1 DEF M!Record
<1>3. ASSUME NEW l \in GetLast(k)
      PROVE  /\ l.rev \in Nat /\ l.key = k /\ l.createRevision \in Nat
             /\ \E m \in M!GetLast(k) :
                   /\ m.rev = l.rev /\ m.key = k /\ m.isDelete = l.isDelete
                   /\ m.isCreate = l.isCreate
                   /\ m.createRevision = l.createRevision
                   /\ \A h \in history : h.rev = l.rev => h = m
  <2>1. /\ l.rev \in Nat /\ l.key = k /\ l.createRevision \in Nat
    BY DEF GetLast, M!Newest, StoreInv, TypeOK, IndexRecord
  <2> QED
    BY <1>1, <2>1, LastCorresponds
<1>4. CASE a.op = "create" /\ GetLast(k) = {}
           /\ p = M!CreateRecord(0, k, a.value, a.lease, M!NoRev)
  <2>1. r = M!CreateRecord(version + 1, k, a.value, a.lease, M!NoRev)
    BY <1>4, Zenon DEF M!CreateRecord
  <2>2. M!GetLast(k) = {}
    BY <1>1, <1>4, LastCorresponds
  <2>3. M!AppendRecord(r) => M!Create(k, a.value, a.lease)
    BY <2>1, <2>2 DEF M!Create
  <2>4. M!AppendRecord(r) => M!Write
    BY <1>1, <1>4, <2>3 DEF M!Write
  <2>5. r.key = k /\ Wrote(a, r)
    BY <1>4, <2>1 DEF M!CreateRecord, Wrote
  <2> QED
    BY <1>1, <1>2, <1>4, <2>4, <2>5, RequestFields
<1>5. ASSUME a.op = "create", NEW l \in GetLast(k), l.isDelete,
             p = M!CreateRecord(0, k, a.value, a.lease, l.rev)
      PROVE  r.key = k /\ Wrote(a, r) /\ (M!AppendRecord(r) => M!Write)
             /\ a.revision = 0
  <2>1. r = M!CreateRecord(version + 1, k, a.value, a.lease, l.rev)
    BY <1>5, Zenon DEF M!CreateRecord
  <2>2. M!AppendRecord(r) => M!Create(k, a.value, a.lease)
    BY <1>3, <1>5, <2>1 DEF M!Create
  <2>3. M!AppendRecord(r) => M!Write
    BY <1>1, <1>5, <2>2 DEF M!Write
  <2>4. r.key = k /\ Wrote(a, r)
    BY <1>5, <2>1 DEF M!CreateRecord, Wrote
  <2> QED
    BY <1>1, <1>5, <2>3, <2>4, RequestFields
<1>6. ASSUME a.op = "update", NEW l \in GetLast(k), ~l.isDelete,
             l.rev = a.revision, p = M!UpdateRecord(0, l, a.value, a.lease)
      PROVE  r.key = k /\ Wrote(a, r) /\ (M!AppendRecord(r) => M!Write)
             /\ r.prevRevision = a.revision
  <2>1. PICK m \in M!GetLast(k) :
                   /\ m.rev = l.rev /\ m.key = k /\ m.isDelete = l.isDelete
                   /\ m.isCreate = l.isCreate
                   /\ m.createRevision = l.createRevision
    BY <1>3
  <2>2. r = M!UpdateRecord(version + 1, m, a.value, a.lease)
    BY <1>3, <1>6, <2>1, Zenon DEF M!UpdateRecord, M!GetCreateRevision
  <2>3. M!AppendRecord(r) => M!Update(k, a.value, a.lease)
    BY <1>6, <2>1, <2>2 DEF M!Update
  <2>4. M!AppendRecord(r) => M!Write
    BY <1>1, <1>6, <2>3 DEF M!Write
  <2>5. r.key = k /\ Wrote(a, r) /\ r.prevRevision = a.revision
    BY <1>6, <2>1, <2>2 DEF M!UpdateRecord, Wrote
  <2> QED
    BY <2>4, <2>5
<1>7. ASSUME a.op = "delete", NEW l \in GetLast(k), NEW s \in history,
             s.rev = l.rev, ~l.isDelete, a.revision \in {0, l.rev},
             p = M!DeleteRecord(0, s)
      PROVE  r.key = k /\ Wrote(a, r) /\ (M!AppendRecord(r) => M!Write)
             /\ r.prevRevision = l.rev
  <2>1. s \in M!GetLast(k) /\ s.key = k /\ ~s.isDelete
    BY <1>3, <1>7
  <2>2. r = M!DeleteRecord(version + 1, s)
    BY <1>7, Zenon DEF M!DeleteRecord
  <2>3. M!AppendRecord(r) => M!Delete(k)
    BY <2>1, <2>2 DEF M!Delete
  <2>4. M!AppendRecord(r) => M!Write
    BY <1>1, <2>3 DEF M!Write
  <2>5. r.key = k /\ Wrote(a, r) /\ r.prevRevision = l.rev
    BY <1>7, <2>1, <2>2 DEF M!DeleteRecord, Wrote
  <2> QED
    BY <2>4, <2>5
<1> QED
  BY <1>1, <1>2, <1>4, <1>5, <1>6, <1>7 DEF PreparedFrom

(***************************************************************************)
(* A commit of client c appends record r, which is what c asks for and     *)
(* follows the revision it names; c may get another answer than success.   *)
(***************************************************************************)
Commits(c, r) ==
    /\ Append(r, tx[c].lastWriteUUID)
    /\ appended' = [appended EXCEPT ![c] = @ \cup {r.rev}]
    /\ r.rev = version + 1 /\ r.key = req[c].key
    /\ Wrote(req[c], r)
    /\ req[c].revision # 0 =>
          /\ r.prevRevision = req[c].revision
          /\ \E l \in GetLast(req[c].key) : l.rev = req[c].revision
    /\ \/ Return(c, "ok", r.rev, ModRevision(c, r))
       \/ Retry(c)
       \/ Return(c, "error", 0, 0)

(***************************************************************************)
(* A commit appends to the abstract store and preserves the invariant.     *)
(***************************************************************************)
LEMMA CommitStep ==
    ASSUME StoreInv, NEW c \in Client, Commit(c)
    PROVE  StoreInv' /\ M!Write /\ \E r \in M!Record : Commits(c, r)
<1>1. PICK p \in tx[c].prepared :
         LET r == [p EXCEPT !.rev = version + 1] IN
         /\ Append(r, tx[c].lastWriteUUID)
         /\ appended' = [appended EXCEPT ![c] = @ \cup {r.rev}]
         /\ \/ Return(c, "ok", r.rev, ModRevision(c, r))
            \/ Retry(c)
            \/ Return(c, "error", 0, 0)
  BY DEF Commit
<1> DEFINE r == [p EXCEPT !.rev = version + 1]
<1>2. /\ Append(r, tx[c].lastWriteUUID)
      /\ appended' = [appended EXCEPT ![c] = @ \cup {r.rev}]
      /\ \/ Return(c, "ok", r.rev, ModRevision(c, r))
         \/ Retry(c)
         \/ Return(c, "error", 0, 0)
  BY <1>1
<1>3. /\ pc[c] = "commit" /\ version < MaxVersion
      /\ GetLast(req[c].key) = tx[c].last
      /\ UNCHANGED <<compactRev, sweep>>
  BY DEF Commit, Conflict
<1>4. /\ r \in M!Record /\ r.rev = version + 1 /\ r.key = req[c].key
      /\ Wrote(req[c], r)
      /\ req[c].revision # 0 =>
            /\ r.prevRevision = req[c].revision
            /\ \E l \in GetLast(req[c].key) : l.rev = req[c].revision
      /\ M!AppendRecord(r) => M!Write
  BY <1>3, CommitRecord, Zenon
<1> HIDE DEF r
<1>5. /\ version' = version + 1
      /\ byRevision' = byRevision \cup {r}
      /\ byKeyAndRevision' =
            byKeyAndRevision \cup {IndexEntry(r, tx[c].lastWriteUUID)}
      /\ byKeyCurrent' = [byKeyCurrent EXCEPT
                            ![r.key] = IF r.isDelete THEN NoValue ELSE r.value]
      /\ watch' = (watch + 1) % WatchWidth
      /\ history' = history \cup {r}
  BY <1>2, <1>4, ZenonT(30) DEF Append
<1>6. M!AppendRecord(r)
  BY <1>3, <1>5 DEF M!AppendRecord
<1>7. /\ version \in Nat /\ r.rev \in Nat
      /\ tx[c].lastWriteUUID \in UUID
      /\ req[c] \in Request(Nat)
      /\ ClientTypeOK /\ Preparations
      /\ history \subseteq history'
  <2>1. version \in Nat /\ ClientTypeOK /\ Preparations
    BY ZenonT(30) DEF StoreInv, TypeOK, ClientTypeOK
  <2>2. tx[c] \in Tx /\ req[c] \in Request(Nat)
    BY <1>3, <2>1, ZenonT(30) DEF ClientTypeOK
  <2>3. tx[c].lastWriteUUID \in UUID
    BY <2>2 DEF Tx
  <2>4. r.rev \in Nat
    <3>1. r.rev = version + 1
      BY <1>4, ZenonT(30)
    <3>2. version \in Nat
      BY <2>1, ZenonT(30)
    <3> QED
      BY <3>1, <3>2
  <2>5. history \subseteq history'
    BY <1>5, ZenonT(30)
  <2> QED
    BY <2>1, <2>2, <2>3, <2>4, <2>5, ZenonT(30)
<1>8. ClientTypeOK' /\ Preparations'
  <2>1. ModRevision(c, r) \in Nat
    BY <1>7 DEF ModRevision
  <2>2. \/ \E a \in {"ok", "refused", "error"}, n, kv \in Nat :
              Return(c, a, n, kv)
        \/ Retry(c)
    BY <1>2, <1>7, <2>1, ZenonT(30)
  <2> QED
    BY <1>7, <2>2, AttemptEnds, ZenonT(30)
<1> DEFINE i == IndexEntry(r, tx[c].lastWriteUUID)
<1>9. i \in IndexRecord /\ i.writeUUID = tx[c].lastWriteUUID
  BY <1>4, <1>7, EntryFields
<1>10. TypeOK'
  <2>0. /\ byRevision \subseteq M!Record /\ history \subseteq M!Record
        /\ byKeyAndRevision \subseteq IndexRecord
        /\ byKeyCurrent \in [Key -> Value \cup {NoValue}]
        /\ compactRev \in Nat /\ sweep \in [Compactor -> M!Sweep]
        /\ watch \in 0 .. WatchWidth - 1
        /\ appended \in [Client -> SUBSET Nat]
    BY ZenonT(30) DEF StoreInv, TypeOK
  <2>1. byKeyCurrent' \in [Key -> Value \cup {NoValue}]
    <3>1. r.key \in Key /\ r.value \in Value
      BY <1>4 DEF M!Record
    <3> QED
      BY <1>5, <2>0, <3>1
  <2>2. watch' \in 0 .. WatchWidth - 1
    BY <1>5, <2>0 DEF WatchWidth
  <2>3. appended' \in [Client -> SUBSET Nat]
    BY <1>2, <1>7, <2>0
  <2>4. /\ version' \in Nat /\ compactRev' \in Nat
        /\ sweep' \in [Compactor -> M!Sweep]
    BY <1>3, <1>5, <1>7, <2>0
  <2>5. /\ byRevision' \subseteq M!Record /\ history' \subseteq M!Record
        /\ byKeyAndRevision' \subseteq IndexRecord
    BY <1>4, <1>5, <1>9, <2>0, ZenonT(30)
  <2> QED
    BY <1>8, <2>1, <2>2, <2>3, <2>4, <2>5, ZenonT(30) DEF TypeOK, ClientTypeOK
<1>11. M!RevisionsUnique'
  <2>1. /\ byRevision \subseteq history /\ history \subseteq M!Record
        /\ \A h \in history : 0 < h.rev /\ h.rev <= version
        /\ \A g, h \in history : g.rev = h.rev => g = h
    BY ZenonT(30) DEF StoreInv, TypeOK, M!RevisionsUnique
  <2>2. \A h \in history : h.rev \in Nat
    BY <2>1 DEF M!Record
  <2>3. /\ r.rev = version + 1 /\ version \in Nat
        /\ version' = version + 1 /\ history' = history \cup {r}
    BY <1>4, <1>5, <1>7, ZenonT(30)
  <2>4. \A h \in history' : 0 < h.rev /\ h.rev <= version'
    BY <2>1, <2>2, <2>3
  <2>5. \A g, h \in history' : g.rev = h.rev => g = h
    BY <2>1, <2>2, <2>3
  <2>6. byRevision' \subseteq history'
    BY <1>5, <2>1, ZenonT(30)
  <2> QED
    BY <2>4, <2>5, <2>6, ZenonT(30) DEF M!RevisionsUnique
<1>12. SubspacesAgree'
  BY <1>5, <1>9 DEF StoreInv, SubspacesAgree, IndexEntry
<1>13. Commits(c, r)
  BY <1>2, <1>4, ZenonT(30) DEF Commits
<1> QED
  BY <1>4, <1>6, <1>8, <1>10, <1>11, <1>12, <1>13, ZenonT(30) DEF StoreInv

-----------------------------------------------------------------------------
(***************************************************************************)
(* A compaction batch removes the same records as the abstract one, from   *)
(* both subspaces.                                                         *)
(***************************************************************************)
LEMMA RemovedIsDoomed ==
    ASSUME StoreInv, NEW batch, batch \subseteq byRevision
    PROVE  Removed(batch) = M!Doomed(batch)
<1> SUFFICES ASSUME NEW r \in batch, ~r.isDelete
             PROVE  (\E l \in GetLast(r.key) : l.rev # r.rev)
                      <=> r \notin M!GetLast(r.key)
  BY DEF Removed, M!Doomed
<1>1. r \in byRevision /\ r.key \in Key
  BY DEF StoreInv, TypeOK, M!Record
<1>2. ASSUME NEW l \in GetLast(r.key), l.rev # r.rev, r \in M!GetLast(r.key)
      PROVE  FALSE
  <2>1. PICK m \in M!GetLast(r.key) : m.rev = l.rev
    BY <1>1, LastCorresponds
  <2>2. m.rev <= r.rev /\ r.rev <= m.rev
    BY <1>2 DEF M!GetLast, M!Newest
  <2>3. m.rev \in Nat /\ r.rev \in Nat
    BY <1>1 DEF M!GetLast, M!Newest, StoreInv, TypeOK, M!Record
  <2> QED
    BY <1>2, <2>1, <2>2, <2>3
<1>3. ASSUME r \notin M!GetLast(r.key)
      PROVE  \E l \in GetLast(r.key) : l.rev # r.rev
  <2>1. version \in Nat /\ \A s \in byRevision : s.rev \in Nat /\ s.rev <= version
    BY DEF StoreInv, TypeOK, M!RevisionsUnique, M!Record
  <2>2. PICK m \in byRevision : m \in M!GetLast(r.key)
    BY <1>1, <2>1, LastExists DEF M!GetLast
  <2>3. PICK l \in GetLast(r.key) : TRUE
    BY <1>1, <2>2, LastCorresponds
  <2>4. PICK n \in M!GetLast(r.key) :
           n.rev = l.rev /\ \A h \in history : h.rev = l.rev => h = n
    BY <1>1, LastCorresponds
  <2> QED
    BY <1>1, <1>3, <2>4 DEF StoreInv, M!RevisionsUnique
<1> QED
  BY <1>2, <1>3

(***************************************************************************)
(* A committed batch is a batch of the abstract store, and the two         *)
(* subspaces still agree after it.                                         *)
(***************************************************************************)
LEMMA SweepStep ==
    ASSUME StoreInv, NEW p \in Compactor, SweepBatch(p)
    PROVE  StoreInv' /\ M!SweepBatch(p)
<1>1. PICK last \in Scan(p) :
          LET gone == Removed({r \in Scan(p) : r.rev <= last.rev}) IN
          /\ byRevision' = byRevision \ gone
          /\ byKeyAndRevision' =
                {i \in byKeyAndRevision :
                   \A r \in gone : r.key # i.key \/ r.rev # i.rev}
          /\ compactRev' = last.rev
          /\ \/ NextBatch(p, last.rev)
             \/ UNCHANGED sweep
             \/ StopSweep(p)
  BY DEF SweepBatch
<1> DEFINE batch == {r \in Scan(p) : r.rev <= last.rev}
           gone == Removed(batch)
<1>2. gone = M!Doomed(batch) /\ gone \subseteq byRevision
  <2>1. batch \subseteq byRevision
    BY DEF Scan
  <2> QED
    BY <2>1, RemovedIsDoomed DEF Removed
<1>3. /\ byRevision' = byRevision \ gone
      /\ byKeyAndRevision' =
            {i \in byKeyAndRevision :
               \A r \in gone : r.key # i.key \/ r.rev # i.rev}
      /\ compactRev' = last.rev
  BY <1>1
<1>4. sweep[p].running /\ version < MaxVersion /\ version' = version + 1
      /\ UNCHANGED <<byKeyCurrent, watch, history, client>>
  BY DEF SweepBatch
<1>5. M!SweepBatch(p)
  <2>1. Scan(p) = M!InRange(p)
    BY DEF Scan, M!InRange
  <2>2. byRevision' = byRevision
                        \ M!Doomed({r \in M!InRange(p) : r.rev <= last.rev})
    BY <1>2, <1>3, <2>1, Zenon
  <2>3. M!AfterBatch(p, last.rev)
    BY <1>1, Zenon DEF M!AfterBatch, NextBatch, StopSweep
  <2>4. last \in M!InRange(p) /\ history' = history
    BY <1>4, <2>1
  <2> HIDE DEF batch, gone
  <2> QED
    BY <1>3, <1>4, <2>2, <2>3, <2>4 DEF M!SweepBatch
<1>6. last \in byRevision /\ last.rev \in Nat
  BY DEF Scan, StoreInv, TypeOK, M!Record
<1> HIDE DEF batch, gone
<1>7. TypeOK'
  <2>1. sweep' \in [Compactor -> M!Sweep]
    <3>1. sweep \in [Compactor -> M!Sweep]
      BY DEF StoreInv, TypeOK
    <3>2. CASE NextBatch(p, last.rev)
      BY <1>6, <3>1, <3>2 DEF NextBatch, M!Sweep
    <3>3. CASE StopSweep(p)
      BY <3>1, <3>3 DEF StopSweep, M!Sweep, M!NoSweep
    <3> QED
      BY <1>1, <3>1, <3>2, <3>3
  <2>2. /\ byRevision \subseteq M!Record /\ version \in Nat
        /\ byKeyAndRevision \subseteq IndexRecord
    BY ZenonT(30) DEF StoreInv, TypeOK
  <2>3. /\ version' \in Nat /\ compactRev' \in Nat
        /\ byRevision' \subseteq M!Record
        /\ byKeyAndRevision' \subseteq IndexRecord
    BY <1>3, <1>4, <1>6, <2>2
  <2>4. /\ byKeyCurrent' = byKeyCurrent /\ watch' = watch /\ history' = history
        /\ pc' = pc /\ req' = req /\ tx' = tx /\ retries' = retries
        /\ reply' = reply /\ appended' = appended
    BY <1>4 DEF client
  <2> QED
    BY <2>1, <2>3, <2>4, ZenonT(30) DEF StoreInv, TypeOK
<1>8. M!RevisionsUnique'
  BY <1>3, <1>4 DEF StoreInv, TypeOK, M!RevisionsUnique, M!Record
<1>9. SubspacesAgree'
  <2>1. ASSUME NEW r \in byRevision'
        PROVE  \E i \in byKeyAndRevision' : i = IndexEntry(r, i.writeUUID)
    <3>1. r \in byRevision /\ r \notin gone
      BY <1>3
    <3>2. PICK i \in byKeyAndRevision :
             i = IndexEntry(r, i.writeUUID) /\ i.rev = r.rev
      BY <3>1, RecordHasEntry
    <3>3. ASSUME NEW s \in gone, s.rev = i.rev
          PROVE  FALSE
      BY <1>2, <3>1, <3>2, <3>3 DEF StoreInv, M!RevisionsUnique
    <3> QED
      BY <1>3, <3>2, <3>3
  <2>2. ASSUME NEW i \in byKeyAndRevision'
        PROVE  \E r \in byRevision' : i = IndexEntry(r, i.writeUUID)
    BY <1>3, EntryOf, ZenonT(30)
  <2> QED
    BY <2>1, <2>2 DEF SubspacesAgree
<1>10. Preparations'
  BY <1>4, ZenonT(30) DEF client, StoreInv, Preparations
<1> QED
  BY <1>5, <1>7, <1>8, <1>9, <1>10 DEF StoreInv

-----------------------------------------------------------------------------
(***************************************************************************)
(* An initial directory satisfies the invariant and is an initial state of *)
(* the abstract store.                                                     *)
(***************************************************************************)
LEMMA InitStore == Init => StoreInv /\ M!Init
<1> SUFFICES ASSUME Init PROVE StoreInv /\ M!Init
  OBVIOUS
<1>1. /\ version = 1 /\ history = byRevision /\ compactRev = 0 /\ watch = 0
      /\ byKeyAndRevision = {IndexEntry(r, OldUUID) : r \in byRevision}
      /\ byKeyCurrent = [k \in Key |-> NoValue]
      /\ sweep = [p \in Compactor |-> M!NoSweep]
      /\ pc = [c \in Client |-> "idle"]
      /\ req = [c \in Client |-> NoRequest]
      /\ tx = [c \in Client |-> NewTx(c)]
      /\ retries = [c \in Client |-> 0]
      /\ reply = [c \in Client |-> [answer |-> "none", rev |-> 0, kv |-> 0]]
      /\ appended = [c \in Client |-> {}]
  BY DEF Init
<1>2. byRevision = {} \/ \E k \in Key, v \in Value, l \in Lease :
         byRevision = {M!CreateRecord(1, k, v, l, M!NoRev)}
  BY DEF Init
<1>3. M!Init
  BY <1>1, <1>2 DEF M!Init
<1>4. \A r \in byRevision : r \in M!Record /\ r.rev = 1
  <2>1. ASSUME NEW k \in Key, NEW v \in Value, NEW l \in Lease
        PROVE  LET r == M!CreateRecord(1, k, v, l, M!NoRev)
               IN  r \in M!Record /\ r.rev = 1
    BY DEF M!CreateRecord, M!Record, M!NoRev
  <2> QED
    BY <1>2, <2>1
<1>5. byRevision \subseteq M!Record /\ M!RevisionsUnique
      /\ sweep \in [Compactor -> M!Sweep]
  <2>1. \A r, s \in byRevision : r = s
    BY <1>2
  <2> QED
    BY <1>1, <1>4, <2>1 DEF M!RevisionsUnique, M!Sweep, M!NoSweep
<1>6. \A r \in byRevision : IndexEntry(r, OldUUID) \in IndexRecord
                            /\ IndexEntry(r, OldUUID).writeUUID = OldUUID
  BY <1>5, EntryFields
<1>7. \A c \in Client : NewTx(c) \in Tx
  BY DEF NewTx, Tx, CreateUUID, UUID
<1>8. [answer |-> "none", rev |-> 0, kv |-> 0] \in Reply
  BY DEF Reply
<1>9. ClientTypeOK
  <2>1. tx \in [Client -> Tx] /\ reply \in [Client -> Reply]
    BY <1>1, <1>7, <1>8
  <2> QED
    BY <1>1, <2>1, MaxRetryAssumption DEF ClientTypeOK
<1>10. TypeOK
  BY <1>1, <1>5, <1>6, <1>9 DEF TypeOK, ClientTypeOK, WatchWidth
<1>11. SubspacesAgree
  BY <1>1, <1>6 DEF SubspacesAgree
<1>12. Preparations
  BY <1>1 DEF Preparations
<1> QED
  BY <1>3, <1>5, <1>10, <1>11, <1>12 DEF StoreInv

(***************************************************************************)
(* Every step preserves the invariant and is a step of the abstract store, *)
(* or one it does not see.                                                 *)
(***************************************************************************)
LEMMA NextStore == StoreInv /\ [Next]_vars => StoreInv' /\ [M!Next]_M!vars
<1> SUFFICES ASSUME StoreInv, [Next]_vars PROVE StoreInv' /\ [M!Next]_M!vars
  OBVIOUS
<1>1. ASSUME NEW c \in Client, Quiet(c)
      PROVE  StoreInv' /\ [M!Next]_M!vars
  BY <1>1, QuietStep
<1>2. ASSUME NEW c \in Client, Commit(c)
      PROVE  StoreInv' /\ [M!Next]_M!vars
  BY <1>2, CommitStep DEF M!Next
<1>3. ASSUME NEW p \in Compactor, SweepBatch(p)
      PROVE  StoreInv' /\ [M!Next]_M!vars
  BY <1>3, SweepStep DEF M!Next, M!Compact
<1>4. ASSUME NEW p \in Compactor, NEW e \in M!CompactRequests, Compact(p, e)
      PROVE  StoreInv' /\ [M!Next]_M!vars
  <2>1. M!StartSweep(p, e)
    BY <1>4 DEF Compact, M!StartSweep, data
  <2>2. e \in Nat
    BY DEF M!CompactRequests, StoreInv, TypeOK
  <2>3. sweep' \in [Compactor -> M!Sweep]
    BY <1>4, <2>2 DEF Compact, StoreInv, TypeOK, M!Sweep
  <2>4. UNCHANGED <<data, compactRev, client>>
    BY <1>4 DEF Compact
  <2>5. StoreInv'
    BY <2>3, <2>4, Zenon DEF data, client, StoreInv, TypeOK, M!RevisionsUnique,
                      SubspacesAgree, Preparations
  <2> QED
    BY <2>1, <2>5 DEF M!Next, M!Compact
<1>5. ASSUME NEW p \in Compactor, SweepReturns(p)
      PROVE  StoreInv' /\ [M!Next]_M!vars
  <2>1. M!StopSweep(p)
    BY <1>5 DEF SweepReturns, StopSweep, M!StopSweep, data
  <2>2. sweep' \in [Compactor -> M!Sweep]
    BY <1>5 DEF SweepReturns, StopSweep, StoreInv, TypeOK, M!Sweep, M!NoSweep
  <2>3. UNCHANGED <<data, compactRev, client>>
    BY <1>5 DEF SweepReturns
  <2>4. StoreInv'
    BY <2>2, <2>3, ZenonT(30) DEF data, client, StoreInv, TypeOK, M!RevisionsUnique,
                      SubspacesAgree, Preparations
  <2> QED
    BY <2>1, <2>4 DEF M!Next, M!Compact
<1>6. CASE Tick
  <2>1. M!Tick
    BY <1>6 DEF Tick, M!Tick
  <2>2. /\ version' = version + 1
        /\ UNCHANGED <<byRevision, byKeyAndRevision, byKeyCurrent, watch,
                       history, compactRev, client, sweep>>
    BY <1>6 DEF Tick
  <2>3. M!RevisionsUnique'
    BY <2>2 DEF StoreInv, TypeOK, M!RevisionsUnique, M!Record
  <2>4. TypeOK'
    <3>1. version' \in Nat
      BY <2>2 DEF StoreInv, TypeOK
    <3>2. /\ byRevision' = byRevision /\ byKeyAndRevision' = byKeyAndRevision
          /\ byKeyCurrent' = byKeyCurrent /\ watch' = watch /\ history' = history
          /\ compactRev' = compactRev /\ sweep' = sweep
          /\ pc' = pc /\ req' = req /\ tx' = tx /\ retries' = retries
          /\ reply' = reply /\ appended' = appended
      BY <2>2 DEF client
    <3> QED
      BY <3>1, <3>2, ZenonT(30) DEF StoreInv, TypeOK
  <2>5. SubspacesAgree' /\ Preparations'
    BY <2>2, ZenonT(30) DEF client, StoreInv, SubspacesAgree, Preparations
  <2> QED
    BY <2>1, <2>3, <2>4, <2>5 DEF StoreInv, M!Next
<1>7. CASE UNCHANGED vars
  BY <1>7, ZenonT(30) DEF vars, data, client, StoreInv, TypeOK, M!RevisionsUnique,
              SubspacesAgree, Preparations, M!vars
<1> QED
  BY <1>1, <1>2, <1>3, <1>4, <1>5, <1>6, <1>7 DEF Next, ClientStep, Quiet

(***************************************************************************)
(* The store implements the abstract one: every commit of a write's        *)
(* transaction is an atomic guarded append, every commit of a compaction   *)
(* batch an atomic batch, and no other step changes what the store holds.  *)
(***************************************************************************)
THEOREM StoreImplementsMvcc == Spec => MvccSpec
  BY InitStore, NextStore, PTL DEF Spec, MvccSpec, M!Spec

(***************************************************************************)
(* The invariant of the store holds in every reachable state.              *)
(***************************************************************************)
THEOREM Invariance == Spec => []StoreInv
  BY InitStore, NextStore, PTL DEF Spec

(***************************************************************************)
(* The variables keep their types; the retries stay below the limit.       *)
(***************************************************************************)
THEOREM TypeCorrect == Spec => []TypeOK
<1>1. StoreInv => TypeOK
  BY DEF StoreInv
<1> QED
  BY <1>1, Invariance, PTL

(***************************************************************************)
(* byRevision and byKeyAndRevision hold the same records: what Delete and  *)
(* the compaction look up in the one for a record of the other is there.   *)
(***************************************************************************)
THEOREM SubspacesAlwaysAgree == Spec => []SubspacesAgree
<1>1. StoreInv => SubspacesAgree
  BY DEF StoreInv
<1> QED
  BY <1>1, Invariance, PTL

-----------------------------------------------------------------------------
(***************************************************************************)
(* What a compaction batch takes from the subspaces: entries with their    *)
(* records, and no last record but a tombstone.                            *)
(***************************************************************************)
LEMMA SweepEffect ==
    ASSUME StoreInv, NEW p \in Compactor, SweepBatch(p)
    PROVE  /\ byRevision' \subseteq byRevision
           /\ byKeyAndRevision' \subseteq byKeyAndRevision
           /\ UNCHANGED <<byKeyCurrent, history, client>>
           /\ \A i \in byKeyAndRevision \ byKeyAndRevision' :
                 \E r \in byRevision \ byRevision' :
                    r.key = i.key /\ r.rev = i.rev
           /\ \A r \in byRevision \ byRevision' :
                 r \in M!GetLast(r.key) => r.isDelete
<1>1. UNCHANGED <<byKeyCurrent, history, client>>
  BY DEF SweepBatch
<1>2. PICK last \in Scan(p) :
          LET gone == Removed({r \in Scan(p) : r.rev <= last.rev}) IN
          /\ byRevision' = byRevision \ gone
          /\ byKeyAndRevision' =
                {i \in byKeyAndRevision :
                   \A r \in gone : r.key # i.key \/ r.rev # i.rev}
  BY DEF SweepBatch
<1> DEFINE batch == {r \in Scan(p) : r.rev <= last.rev}
           gone == Removed(batch)
<1>3. gone = M!Doomed(batch) /\ gone \subseteq byRevision
  <2>1. batch \subseteq byRevision
    BY DEF Scan
  <2> QED
    BY <2>1, RemovedIsDoomed DEF Removed
<1>4. /\ byRevision' = byRevision \ gone
      /\ byKeyAndRevision' =
            {i \in byKeyAndRevision :
               \A r \in gone : r.key # i.key \/ r.rev # i.rev}
  BY <1>2
<1>5. \A r \in gone : r \in M!GetLast(r.key) => r.isDelete
  BY <1>3 DEF M!Doomed
<1> HIDE DEF gone, batch
<1> QED
  BY <1>1, <1>3, <1>4, <1>5

(***************************************************************************)
(* After a batch a key has the last record it had, or none if that was a   *)
(* tombstone.                                                              *)
(***************************************************************************)
LEMMA SweepLast ==
    ASSUME StoreInv, StoreInv', M!IInv', NEW p \in Compactor, SweepBatch(p),
           NEW k \in Key
    PROVE  /\ GetLast(k)' \subseteq GetLast(k)
           /\ \A l \in GetLast(k) : l \notin GetLast(k)' => l.isDelete
<1>1. /\ byRevision' \subseteq byRevision
      /\ byKeyAndRevision' \subseteq byKeyAndRevision
      /\ history' = history
      /\ \A i \in byKeyAndRevision \ byKeyAndRevision' :
            \E r \in byRevision \ byRevision' :
               r.key = i.key /\ r.rev = i.rev
      /\ \A r \in byRevision \ byRevision' :
            r \in M!GetLast(r.key) => r.isDelete
  BY SweepEffect
<1>2. ASSUME NEW l \in GetLast(k), l \notin byKeyAndRevision'
      PROVE  l.isDelete /\ \A i \in byKeyAndRevision' : i.key # k
  <2>1. l \in byKeyAndRevision /\ l.key = k
    BY DEF GetLast, M!Newest
  <2>2. PICK m \in byRevision \ byRevision' : m.key = k /\ m.rev = l.rev
    BY <1>1, <1>2, <2>1
  <2>3. m \in history /\ m \in history'
    BY <1>1 DEF StoreInv, M!RevisionsUnique
  <2>4. m \in M!GetLast(k) /\ m.isDelete = l.isDelete
    BY <2>2, <2>3, LastCorresponds
  <2>5. m.isDelete
    BY <1>1, <2>2, <2>4, Zenon
  <2>6. ASSUME NEW i \in byKeyAndRevision', i.key = k
        PROVE  FALSE
    <3>1. PICK s \in byRevision' : s.key = k
      <4>1. i.writeUUID \in UUID \cup {OldUUID}
        BY DEF StoreInv, TypeOK, IndexRecord
      <4>2. PICK s \in byRevision' : i = IndexEntry(s, i.writeUUID)
        BY DEF StoreInv, SubspacesAgree
      <4>3. s \in M!Record
        BY DEF StoreInv, TypeOK
      <4> QED
        BY <2>6, <4>1, <4>2, <4>3, EntryFields
    <3>2. PICK t \in byRevision' : t.key = k /\ t.rev > m.rev
      BY <2>2, <2>3, <3>1 DEF M!IInv, M!RemovedInOrder
    <3>3. t.rev <= m.rev
      BY <1>1, <2>4, <3>2 DEF M!GetLast, M!Newest
    <3>4. t.rev \in Nat /\ m.rev \in Nat
      BY <1>1, <2>3, <3>2 DEF StoreInv, TypeOK, M!Record
    <3> QED
      BY <3>2, <3>3, <3>4
  <2> QED
    BY <2>4, <2>5, <2>6
<1>3. ASSUME NEW l \in GetLast(k), l \in byKeyAndRevision'
      PROVE  l \in GetLast(k)'
  BY <1>1, <1>3, ZenonT(30) DEF GetLast, M!Newest
<1>4. ASSUME NEW l \in GetLast(k)'
      PROVE  l \in GetLast(k)
  <2>1. /\ l \in byKeyAndRevision' /\ l \in byKeyAndRevision /\ l.key = k
        /\ \A i \in byKeyAndRevision' : i.key = k => i.rev <= l.rev
    BY <1>1 DEF GetLast, M!Newest
  <2>2. /\ version \in Nat
        /\ \A i \in byKeyAndRevision : i.rev \in Nat /\ i.rev <= version
    BY EntryOf, Zenon DEF StoreInv, TypeOK
  <2>3. PICK g \in GetLast(k) : TRUE
    BY <2>1, <2>2, LastExists DEF GetLast
  <2>4. g \in byKeyAndRevision'
    BY <1>2, <2>1
  <2>5. /\ g \in byKeyAndRevision /\ g.key = k
        /\ \A i \in byKeyAndRevision : i.key = k => i.rev <= g.rev
    BY DEF GetLast, M!Newest
  <2>6. l.rev = g.rev
    BY <2>1, <2>2, <2>4, <2>5
  <2> QED
    BY <2>1, <2>5, <2>6 DEF GetLast, M!Newest
<1> QED
  BY <1>2, <1>3, <1>4

(***************************************************************************)
(* byKeyCurrent is kept by every step.                                     *)
(***************************************************************************)
LEMMA SweepCurrent ==
    ASSUME StoreInv, StoreInv', M!IInv', CurrentIsLatest,
           NEW p \in Compactor, SweepBatch(p)
    PROVE  CurrentIsLatest'
<1>1. byRevision' \subseteq byRevision /\ byKeyCurrent' = byKeyCurrent
  BY SweepEffect
<1> SUFFICES ASSUME NEW k \in Key
             PROVE  /\ GetLast(k)' = {} => byKeyCurrent'[k] = NoValue
                    /\ \A l \in GetLast(k)', r \in byRevision' :
                          r.rev = l.rev =>
                          byKeyCurrent'[k] =
                             IF l.isDelete \/ l.writeUUID = OldUUID
                               THEN NoValue ELSE r.value
  BY Zenon DEF CurrentIsLatest
<1>2. /\ GetLast(k)' \subseteq GetLast(k)
      /\ \A l \in GetLast(k) : l \notin GetLast(k)' => l.isDelete
  BY SweepLast, ZenonT(30)
<1>3. ASSUME GetLast(k)' = {}
      PROVE  byKeyCurrent'[k] = NoValue
  <2>1. CASE GetLast(k) = {}
    BY <1>1, <2>1, ZenonT(30) DEF CurrentIsLatest
  <2>2. ASSUME NEW l \in GetLast(k)
        PROVE  byKeyCurrent[k] = NoValue
    <3>1. l.isDelete
      BY <1>2, <1>3, ZenonT(30)
    <3>2. PICK m \in M!GetLast(k) : m.rev = l.rev
      BY LastCorresponds
    <3>3. m \in byRevision
      BY ZenonT(30) DEF M!GetLast, M!Newest
    <3> QED
      BY <3>1, <3>2, <3>3, ZenonT(30) DEF CurrentIsLatest
  <2> QED
    BY <1>1, <2>1, <2>2, ZenonT(30)
<1>4. ASSUME NEW l \in GetLast(k)', NEW r \in byRevision', r.rev = l.rev
      PROVE  byKeyCurrent'[k] = IF l.isDelete \/ l.writeUUID = OldUUID
                                  THEN NoValue ELSE r.value
  <2>1. l \in GetLast(k) /\ r \in byRevision
    BY <1>1, <1>2
  <2> QED
    BY <1>1, <1>4, <2>1 DEF CurrentIsLatest
<1> QED
  BY <1>3, <1>4

-----------------------------------------------------------------------------
(***************************************************************************)
(* A commit makes its own record the last one of its key, with its value   *)
(* in byKeyCurrent, and leaves the other keys alone.                       *)
(***************************************************************************)
LEMMA CommitCurrent ==
    ASSUME StoreInv, StoreInv', CurrentIsLatest, NEW c \in Client, Commit(c)
    PROVE  CurrentIsLatest'
<1>1. PICK r \in M!Record :
         Append(r, tx[c].lastWriteUUID) /\ r.rev = version + 1
  BY CommitStep, ZenonT(30) DEF Commits
<1> DEFINE i == IndexEntry(r, tx[c].lastWriteUUID)
<1>2. tx[c].lastWriteUUID \in UUID /\ version \in Nat
  <2>1. tx \in [Client -> Tx] /\ version \in Nat
    BY ZenonT(30) DEF StoreInv, TypeOK
  <2> QED
    BY <2>1 DEF Tx
<1>3. /\ i.rev = r.rev /\ i.key = r.key /\ i.isDelete = r.isDelete
      /\ i.writeUUID # OldUUID
  BY <1>2, EntryFields, OldUUIDAssumption, ZenonT(30)
<1> HIDE DEF i
<1>4. /\ byRevision' = byRevision \cup {r}
      /\ byKeyAndRevision' = byKeyAndRevision \cup {i}
      /\ byKeyCurrent' = [byKeyCurrent EXCEPT
                            ![r.key] = IF r.isDelete THEN NoValue ELSE r.value]
  BY <1>1 DEF Append, i
<1>5. /\ \A j \in byKeyAndRevision : j.rev \in Nat /\ j.rev < r.rev
      /\ \A s \in byRevision : s.rev \in Nat /\ s.rev < r.rev
  <2>1. \A j \in byKeyAndRevision : j.rev \in Nat /\ j.rev <= version
    BY EntryOf, ZenonT(30)
  <2>2. /\ byRevision \subseteq M!Record
        /\ \A s \in byRevision : s.rev <= version
    BY ZenonT(30) DEF StoreInv, TypeOK, M!RevisionsUnique
  <2>3. \A s \in byRevision : s.rev \in Nat /\ s.rev <= version
    BY <2>2 DEF M!Record
  <2> QED
    BY <1>1, <1>2, <2>1, <2>3
<1>6. r.key \in Key /\ r.rev \in Nat /\ byKeyCurrent \in [Key -> Value \cup {NoValue}]
  BY DEF M!Record, StoreInv, TypeOK
<1> SUFFICES ASSUME NEW k \in Key
             PROVE  /\ GetLast(k)' = {} => byKeyCurrent'[k] = NoValue
                    /\ \A l \in GetLast(k)', s \in byRevision' :
                          s.rev = l.rev =>
                          byKeyCurrent'[k] =
                             IF l.isDelete \/ l.writeUUID = OldUUID
                               THEN NoValue ELSE s.value
  BY ZenonT(30) DEF CurrentIsLatest
<1>7. CASE k = r.key
  <2>1. GetLast(k)' = {i}
    <3>1. i \in GetLast(k)'
      BY <1>3, <1>4, <1>5, <1>6, <1>7 DEF GetLast, M!Newest
    <3>2. ASSUME NEW l \in GetLast(k)'
          PROVE  l = i
      BY <1>3, <1>4, <1>5, <1>6, <1>7 DEF GetLast, M!Newest
    <3> QED
      BY <3>1, <3>2
  <2>2. \A s \in byRevision' : s.rev = i.rev => s = r
    BY <1>3, <1>4, <1>5
  <2> QED
    BY <1>3, <1>4, <1>6, <1>7, <2>1, <2>2, ZenonT(30)
<1>8. CASE k # r.key
  <2>1. GetLast(k)' = GetLast(k)
    BY <1>3, <1>4, <1>8 DEF GetLast, M!Newest
  <2>2. byKeyCurrent'[k] = byKeyCurrent[k]
    BY <1>4, <1>6, <1>8
  <2>3. ASSUME NEW l \in GetLast(k), NEW s \in byRevision', s.rev = l.rev
        PROVE  s \in byRevision
    BY <1>4, <1>5, <2>3 DEF GetLast, M!Newest
  <2> QED
    BY <2>1, <2>2, <2>3 DEF CurrentIsLatest
<1> QED
  BY <1>7, <1>8

-----------------------------------------------------------------------------
(***************************************************************************)
(* The invariant behind the answers.  A UUID names its client, and an      *)
(* entry that carries it was appended by that client's call and is what    *)
(* the call asks for.                                                      *)
(***************************************************************************)
UUIDsNameClients ==
    \A c \in Client : \E v \in Nat : tx[c].lastWriteUUID = <<c, v>>

EntriesNameWriters ==
    \A i \in byKeyAndRevision, c \in Client, v \in Nat :
       i.writeUUID = <<c, v>> =>
          /\ pc[c] # "idle"
          /\ i.rev \in appended[c]
          /\ \E h \in history : h.rev = i.rev /\ Wrote(req[c], h)

IdleCalls ==
    \A c \in Client :
       pc[c] = "idle" => reply[c].answer # "ok" /\ appended[c] = {}

(***************************************************************************)
(* A call with a revision has appended at most once, after that revision.  *)
(***************************************************************************)
GuardedCall(c) ==
    req[c].revision # 0 =>
       /\ \A m, n \in appended[c] : m = n
       /\ \A n \in appended[c] :
             /\ n > req[c].revision
             /\ \E h \in history : /\ h.rev = n /\ h.key = req[c].key
                                   /\ h.prevRevision = req[c].revision

GuardedAppends == \A c \in Client : pc[c] # "idle" => GuardedCall(c)

AnswerInv ==
    /\ UUIDsNameClients
    /\ EntriesNameWriters
    /\ IdleCalls
    /\ GuardedAppends
    /\ AcknowledgedIsWritten

(***************************************************************************)
(* What a step that commits nothing may answer.                            *)
(***************************************************************************)
QuietAnswer(c) ==
    \/ \E r \in Requests : Begin(c, r)
    \/ Retry(c)
    \/ \E a \in {"refused", "error"}, n, kv \in Nat : Return(c, a, n, kv)
    \/ \E l \in byKeyAndRevision, kv \in Nat :
          WroteLast(c, l) /\ Return(c, "ok", l.rev, kv)
    \/ \E r \in M!Record : Prepare(c, r)

(***************************************************************************)
(* What a step without a commit does to the client that takes it.          *)
(***************************************************************************)
LEMMA QuietAnswers ==
    ASSUME StoreInv, NEW c \in Client, Quiet(c)
    PROVE  QuietAnswer(c) /\ (pc[c] # "idle" \/ \E r \in Requests : Begin(c, r))
<1>1. \/ pc[c] # "idle"
      \/ \E r \in Requests : Begin(c, r)
  BY ZenonT(30) DEF Quiet, CreateAttempt, UpdateAttempt, DeleteAttempt, Attempting,
         AttemptFails, CommitFails
<1>2. version \in Nat
      /\ \A l \in GetLast(req[c].key) : l \in byKeyAndRevision /\ l.rev \in Nat
  BY EntryOf, ZenonT(30) DEF GetLast, M!Newest, StoreInv, TypeOK
<1>3. CASE \E r \in M!Record : Prepare(c, r)
  BY <1>1, <1>3 DEF QuietAnswer
<1>4. CASE ~\E r \in M!Record : Prepare(c, r)
  <2>1. \A r : Prepare(c, r) => FALSE
    <3>1. \/ \E r \in Requests : Begin(c, r)
          \/ /\ \/ \E a \in {"ok", "refused", "error"}, n, kv \in Nat :
                       Return(c, a, n, kv)
                \/ Retry(c)
      BY <1>4, QuietKinds
    <3>2. pc \in [Client -> {"idle", "attempt", "commit", "done"}]
      BY DEF StoreInv, TypeOK
    <3>3. pc'[c] # "commit"
      BY <3>1, <3>2 DEF Begin, Return, Retry
    <3> QED
      BY <3>2, <3>3 DEF Prepare
  <2> SUFFICES QuietAnswer(c)
    BY <1>1
  <2>2. ASSUME NEW n \in Nat, NEW kv \in Nat, Answer(c, "refused", n, kv)
        PROVE  QuietAnswer(c)
    BY <2>2 DEF Answer, QuietAnswer
  <2>3. ASSUME NEW l \in GetLast(req[c].key), NEW kv \in Nat,
               WroteLast(c, l), Answer(c, "ok", l.rev, kv)
        PROVE  QuietAnswer(c)
    BY <1>2, <2>3 DEF Answer, QuietAnswer
  <2>4. CASE CreateAttempt(c)
    BY <1>2, <2>1, <2>4, <2>2, <2>3 DEF CreateAttempt
  <2>5. CASE UpdateAttempt(c)
    BY <1>2, <2>1, <2>5, <2>2, <2>3, ZenonT(30) DEF UpdateAttempt
  <2>6. CASE DeleteAttempt(c)
    BY <1>2, <2>1, <2>6, <2>2, <2>3, ZenonT(30) DEF DeleteAttempt
  <2>7. CASE AttemptFails(c) \/ CommitFails(c)
    BY <2>7 DEF AttemptFails, CommitFails, QuietAnswer
  <2>8. CASE \E r \in Requests : Begin(c, r)
    BY <2>8 DEF QuietAnswer
  <2> QED
    BY <1>1, <2>4, <2>5, <2>6, <2>7, <2>8 DEF Quiet
<1> QED
  BY <1>3, <1>4

(***************************************************************************)
(* A call that appends nothing stays guarded.                              *)
(***************************************************************************)
LEMMA GuardedStays ==
    ASSUME NEW d \in Client, GuardedCall(d), req'[d] = req[d],
           appended'[d] = appended[d], history \subseteq history'
    PROVE  GuardedCall(d)'
BY DEF GuardedCall

(***************************************************************************)
(* Entries go on naming their writers while those keep their requests.     *)
(***************************************************************************)
LEMMA EntriesStay ==
    ASSUME EntriesNameWriters, UNCHANGED <<byKeyAndRevision, history, appended>>,
           \A d \in Client : pc[d] # "idle" => pc'[d] # "idle" /\ req'[d] = req[d]
    PROVE  EntriesNameWriters'
<1> SUFFICES ASSUME NEW i \in byKeyAndRevision, NEW d \in Client, NEW v \in Nat,
                    i.writeUUID = <<d, v>>
             PROVE  /\ pc'[d] # "idle" /\ i.rev \in appended[d]
                    /\ \E h \in history : h.rev = i.rev /\ Wrote(req'[d], h)
  BY DEF EntriesNameWriters
<1>1. /\ pc[d] # "idle" /\ i.rev \in appended[d]
      /\ \E h \in history : h.rev = i.rev /\ Wrote(req[d], h)
  BY DEF EntriesNameWriters
<1> QED
  BY <1>1

(***************************************************************************)
(* Steps that commit nothing keep the answers true.                        *)
(***************************************************************************)
LEMMA QuietAnswerInv ==
    ASSUME StoreInv, AnswerInv, NEW c \in Client, Quiet(c)
    PROVE  AnswerInv'
<1>1. UNCHANGED <<data, compactRev, appended, sweep>>
  BY QuietKinds
<1>2. UNCHANGED <<byKeyAndRevision, history, appended>>
  BY <1>1 DEF data
<1>3. /\ ClientTypeOK /\ appended \in [Client -> SUBSET Nat]
      /\ byKeyAndRevision \subseteq IndexRecord
  BY DEF StoreInv, TypeOK, ClientTypeOK
<1>4. UUIDsNameClients /\ EntriesNameWriters /\ IdleCalls
      /\ GuardedAppends /\ AcknowledgedIsWritten
  BY DEF AnswerInv
<1>5. ASSUME NEW r \in Requests, Begin(c, r)
      PROVE  AnswerInv'
  <2>1. /\ pc[c] = "idle"
        /\ pc' = [pc EXCEPT ![c] = "attempt"] /\ req' = [req EXCEPT ![c] = r]
        /\ UNCHANGED <<tx, reply>>
    BY <1>5 DEF Begin
  <2>2. /\ \A d \in Client : d # c => pc'[d] = pc[d] /\ req'[d] = req[d]
        /\ pc'[c] = "attempt"
    BY <1>3, <2>1 DEF ClientTypeOK
  <2>3. appended[c] = {} /\ reply[c].answer # "ok"
    BY <1>4, <2>1 DEF IdleCalls
  <2>4. UUIDsNameClients'
    BY <1>4, <2>1 DEF UUIDsNameClients
  <2>5. EntriesNameWriters'
    <3>1. \A d \in Client : pc[d] # "idle" => pc'[d] # "idle" /\ req'[d] = req[d]
      BY <2>1, <2>2
    <3> QED
      BY <1>2, <1>4, <3>1, EntriesStay
  <2>6. IdleCalls'
    BY <1>2, <1>4, <2>1, <2>2 DEF IdleCalls
  <2>7. GuardedAppends'
    <3>1. GuardedCall(c)'
      <4>1. appended'[c] = {}
        BY <1>2, <2>3, ZenonT(30)
      <4> QED
        BY <4>1, ZenonT(30) DEF GuardedCall
    <3>2. ASSUME NEW d \in Client, d # c, pc'[d] # "idle"
          PROVE  GuardedCall(d)'
      <4>1. GuardedCall(d) /\ req'[d] = req[d]
        BY <1>4, <2>2, <3>2, ZenonT(30) DEF GuardedAppends
      <4> QED
        BY <1>2, <4>1, GuardedStays, ZenonT(30)
    <3> QED
      BY <3>1, <3>2, ZenonT(30) DEF GuardedAppends
  <2>8. AcknowledgedIsWritten'
    BY <1>2, <1>4, <2>1, <2>2, <2>3 DEF AcknowledgedIsWritten
  <2> QED
    BY <2>4, <2>5, <2>6, <2>7, <2>8 DEF AnswerInv
<1>6. ASSUME pc[c] # "idle", UNCHANGED req,
             \A d \in Client : d # c => pc'[d] = pc[d] /\ tx'[d] = tx[d],
             pc'[c] # "idle",
             \E v \in Nat : tx'[c].lastWriteUUID = <<c, v>>
      PROVE  UUIDsNameClients' /\ EntriesNameWriters' /\ GuardedAppends'
  <2>1. UUIDsNameClients'
    BY <1>4, <1>6 DEF UUIDsNameClients
  <2>2. EntriesNameWriters'
    <3>1. \A d \in Client : pc[d] # "idle" => pc'[d] # "idle" /\ req'[d] = req[d]
      BY <1>6
    <3> QED
      BY <1>2, <1>4, <3>1, EntriesStay
  <2>3. ASSUME NEW d \in Client, pc'[d] # "idle"
        PROVE  GuardedCall(d)'
    <3>1. GuardedCall(d) /\ req'[d] = req[d]
      BY <1>4, <1>6, <2>3, ZenonT(30) DEF GuardedAppends
    <3> QED
      BY <1>2, <3>1, GuardedStays, ZenonT(30)
  <2> QED
    BY <2>1, <2>2, <2>3, ZenonT(30) DEF GuardedAppends
<1>7. \E v \in Nat : tx[c].lastWriteUUID = <<c, v>>
  BY <1>4 DEF UUIDsNameClients
<1>8. ASSUME pc[c] # "idle", Retry(c)
      PROVE  AnswerInv'
  <2>1. /\ \A d \in Client : d # c => pc'[d] = pc[d] /\ tx'[d] = tx[d]
        /\ pc'[c] # "idle" /\ tx'[c].lastWriteUUID = tx[c].lastWriteUUID
    BY <1>3, <1>8 DEF Retry, ClientTypeOK
  <2>2. UNCHANGED <<req, reply>>
    BY <1>8 DEF Retry
  <2>3. IdleCalls' /\ AcknowledgedIsWritten'
    BY <1>2, <1>4, <2>1, <2>2 DEF IdleCalls, AcknowledgedIsWritten
  <2>4. UUIDsNameClients' /\ EntriesNameWriters' /\ GuardedAppends'
    BY <1>6, <1>7, <1>8, <2>1, <2>2, ZenonT(30)
  <2> QED
    BY <2>3, <2>4 DEF AnswerInv
<1>9. ASSUME pc[c] # "idle", NEW r \in M!Record, Prepare(c, r)
      PROVE  AnswerInv'
  <2>1. version \in Nat
    BY DEF StoreInv, TypeOK
  <2>2. /\ \A d \in Client : d # c => pc'[d] = pc[d] /\ tx'[d] = tx[d]
        /\ pc'[c] # "idle" /\ tx'[c].lastWriteUUID = <<c, version>>
    BY <1>3, <1>9 DEF Prepare, CreateUUID, ClientTypeOK
  <2>3. UNCHANGED <<req, reply>>
    BY <1>9 DEF Prepare
  <2>4. IdleCalls' /\ AcknowledgedIsWritten'
    BY <1>2, <1>4, <2>2, <2>3 DEF IdleCalls, AcknowledgedIsWritten
  <2>5. UUIDsNameClients' /\ EntriesNameWriters' /\ GuardedAppends'
    BY <1>6, <1>9, <2>1, <2>2, <2>3, ZenonT(30)
  <2> QED
    BY <2>4, <2>5 DEF AnswerInv
<1>10. ASSUME pc[c] # "idle", NEW a, NEW n, NEW kv, Return(c, a, n, kv),
              a = "ok" => /\ n \in appended[c]
                          /\ \E h \in history : h.rev = n /\ Wrote(req[c], h)
       PROVE  AnswerInv'
  <2>1. /\ \A d \in Client : d # c => pc'[d] = pc[d] /\ tx'[d] = tx[d]
        /\ pc'[c] # "idle" /\ tx'[c].lastWriteUUID = <<c, 0>>
    BY <1>3, <1>10, ZenonT(30) DEF Return, NewTx, CreateUUID, ClientTypeOK
  <2>2. /\ req' = req
        /\ \A d \in Client : d # c => reply'[d] = reply[d]
        /\ reply'[c] = [answer |-> a, rev |-> n, kv |-> kv]
    BY <1>3, <1>10 DEF Return, ClientTypeOK
  <2>3. IdleCalls'
    BY <1>2, <1>4, <2>1, <2>2, ZenonT(30) DEF IdleCalls
  <2>4. AcknowledgedIsWritten'
    <3> SUFFICES ASSUME NEW d \in Client, reply'[d].answer = "ok"
                 PROVE  /\ reply'[d].rev \in appended'[d]
                        /\ \E h \in history' :
                              h.rev = reply'[d].rev /\ Wrote(req'[d], h)
      BY ZenonT(30) DEF AcknowledgedIsWritten
    <3>1. CASE d = c
      <4>0. reply'[c] = [answer |-> a, rev |-> n, kv |-> kv]
        BY <2>2, ZenonT(30)
      <4>1. reply'[c].answer = a /\ reply'[c].rev = n
        BY <4>0
      <4> QED
        BY <1>2, <1>10, <2>2, <3>1, <4>1, ZenonT(30)
    <3>2. CASE d # c
      BY <1>2, <1>4, <2>2, <3>2, ZenonT(30) DEF AcknowledgedIsWritten
    <3> QED
      BY <3>1, <3>2, ZenonT(30)
  <2>5. UUIDsNameClients' /\ EntriesNameWriters' /\ GuardedAppends'
    BY <1>6, <1>10, <2>1, <2>2, ZenonT(30)
  <2> QED
    BY <2>3, <2>4, <2>5 DEF AnswerInv
<1>11. ASSUME NEW l \in byKeyAndRevision, NEW kv \in Nat, pc[c] # "idle",
              WroteLast(c, l), Return(c, "ok", l.rev, kv)
       PROVE  AnswerInv'
  <2>1. /\ l.rev \in appended[c]
        /\ \E h \in history : h.rev = l.rev /\ Wrote(req[c], h)
    BY <1>4, <1>7, <1>11, ZenonT(30) DEF WroteLast, EntriesNameWriters
  <2> QED
    BY <1>10, <1>11, <2>1, ZenonT(30)
<1>12. ASSUME NEW a \in {"refused", "error"}, NEW n \in Nat, NEW kv \in Nat,
              pc[c] # "idle", Return(c, a, n, kv)
       PROVE  AnswerInv'
  BY <1>10, <1>12, ZenonT(30)
<1> QED
  BY <1>5, <1>8, <1>9, <1>11, <1>12, QuietAnswers DEF QuietAnswer

(***************************************************************************)
(* A commit keeps the answers true.  A call with a revision that has       *)
(* appended before cannot commit again: its append is newer than the       *)
(* revision, so the key's last record no longer has it.                    *)
(***************************************************************************)
LEMMA CommitAnswerInv ==
    ASSUME StoreInv, M!IInv, AnswerInv, NEW c \in Client, Commit(c)
    PROVE  AnswerInv'
<1>1. PICK r \in M!Record : Commits(c, r)
  BY CommitStep, ZenonT(30)
<1>a. /\ Append(r, tx[c].lastWriteUUID)
      /\ appended' = [appended EXCEPT ![c] = @ \cup {r.rev}]
  BY <1>1, ZenonT(30) DEF Commits
<1>b. r.rev = version + 1 /\ r.key = req[c].key /\ Wrote(req[c], r)
  BY <1>1, ZenonT(30) DEF Commits
<1>c. req[c].revision # 0 =>
         /\ r.prevRevision = req[c].revision
         /\ \E l \in GetLast(req[c].key) : l.rev = req[c].revision
  BY <1>1, ZenonT(30) DEF Commits
<1>d. \/ Return(c, "ok", r.rev, ModRevision(c, r))
      \/ Retry(c)
      \/ Return(c, "error", 0, 0)
  BY <1>1, ZenonT(30) DEF Commits
<1> DEFINE i == IndexEntry(r, tx[c].lastWriteUUID)
<1>2. /\ ClientTypeOK /\ appended \in [Client -> SUBSET Nat]
      /\ version \in Nat /\ tx[c].lastWriteUUID \in UUID
      /\ req[c] \in Request(Nat) /\ pc[c] # "idle"
  <2>1. ClientTypeOK /\ appended \in [Client -> SUBSET Nat] /\ version \in Nat
    BY ZenonT(30) DEF StoreInv, TypeOK, ClientTypeOK
  <2>2. pc[c] # "idle"
    BY DEF Commit
  <2>3. tx[c] \in Tx /\ req[c] \in Request(Nat)
    BY <2>1, <2>2 DEF ClientTypeOK
  <2>4. tx[c].lastWriteUUID \in UUID
    BY <2>3 DEF Tx
  <2> QED
    BY <2>1, <2>2, <2>3, <2>4, ZenonT(30)
<1>3. i.rev = r.rev /\ i.writeUUID = tx[c].lastWriteUUID
  BY <1>2, EntryFields, ZenonT(30)
<1> HIDE DEF i
<1>4. /\ byKeyAndRevision' = byKeyAndRevision \cup {i}
      /\ history' = history \cup {r}
  BY <1>a, ZenonT(30) DEF Append, i
<1>5. UUIDsNameClients /\ EntriesNameWriters /\ IdleCalls
      /\ GuardedAppends /\ AcknowledgedIsWritten
  BY ZenonT(30) DEF AnswerInv
<1>6. /\ \A d \in Client : d # c => /\ pc'[d] = pc[d] /\ tx'[d] = tx[d]
                                    /\ appended'[d] = appended[d]
      /\ pc'[c] # "idle" /\ req' = req
      /\ appended'[c] = appended[c] \cup {r.rev}
      /\ tx'[c].lastWriteUUID \in {<<c, 0>>, tx[c].lastWriteUUID}
  <2>1. /\ pc \in [Client -> {"idle", "attempt", "commit", "done"}]
        /\ tx \in [Client -> Tx]
    BY <1>2, ZenonT(30) DEF ClientTypeOK
  <2>2. /\ \A d \in Client : d # c => appended'[d] = appended[d]
        /\ appended'[c] = appended[c] \cup {r.rev}
    BY <1>2, <1>a
  <2>3. ASSUME Retry(c)
        PROVE  /\ \A d \in Client : d # c => pc'[d] = pc[d] /\ tx'[d] = tx[d]
               /\ pc'[c] # "idle" /\ req' = req
               /\ tx'[c].lastWriteUUID = tx[c].lastWriteUUID
    BY <2>1, <2>3 DEF Retry
  <2>4. ASSUME NEW a, NEW n, NEW kv, Return(c, a, n, kv)
        PROVE  /\ \A d \in Client : d # c => pc'[d] = pc[d] /\ tx'[d] = tx[d]
               /\ pc'[c] # "idle" /\ req' = req
               /\ tx'[c].lastWriteUUID = <<c, 0>>
    BY <2>1, <2>4 DEF Return, NewTx, CreateUUID
  <2> QED
    BY <1>d, <2>2, <2>3, <2>4, ZenonT(30)
<1>7. UUIDsNameClients'
  <2>1. \A d \in Client : tx'[d].lastWriteUUID \in {<<d, 0>>, tx[d].lastWriteUUID}
    BY <1>6
  <2>2. 0 \in Nat
    OBVIOUS
  <2>3. ASSUME NEW d \in Client
        PROVE  \E v \in Nat : tx'[d].lastWriteUUID = <<d, v>>
    <3>1. \E v \in Nat : tx[d].lastWriteUUID = <<d, v>>
      BY <1>5 DEF UUIDsNameClients
    <3> QED
      BY <2>1, <2>2, <3>1
  <2> QED
    BY <2>3 DEF UUIDsNameClients
<1>8. EntriesNameWriters'
  <2> SUFFICES ASSUME NEW j \in byKeyAndRevision', NEW d \in Client,
                      NEW v \in Nat, j.writeUUID = <<d, v>>
               PROVE  /\ pc'[d] # "idle" /\ j.rev \in appended'[d]
                      /\ \E h \in history' : h.rev = j.rev /\ Wrote(req'[d], h)
    BY ZenonT(30) DEF EntriesNameWriters
  <2>1. CASE j \in byKeyAndRevision
    BY <1>4, <1>5, <1>6, <2>1, ZenonT(30) DEF EntriesNameWriters
  <2>2. CASE j = i
    <3>1. d = c
      BY <1>3, <1>5, <2>2 DEF UUIDsNameClients
    <3> QED
      BY <1>3, <1>4, <1>6, <1>b, <2>2, <3>1, ZenonT(30)
  <2> QED
    BY <1>4, <2>1, <2>2, ZenonT(30)
<1>9. \A d \in Client : d # c => reply'[d] = reply[d]
  <2>1. reply \in [Client -> Reply]
    BY <1>2, ZenonT(30) DEF ClientTypeOK
  <2> QED
    BY <1>d, <2>1, ZenonT(30) DEF Return, Retry
<1>10. IdleCalls'
  BY <1>5, <1>6, <1>9, ZenonT(30) DEF IdleCalls
<1>11. AcknowledgedIsWritten'
  <2> SUFFICES ASSUME NEW d \in Client, reply'[d].answer = "ok"
               PROVE  /\ reply'[d].rev \in appended'[d]
                      /\ \E h \in history' :
                            h.rev = reply'[d].rev /\ Wrote(req'[d], h)
    BY ZenonT(30) DEF AcknowledgedIsWritten
  <2>1. CASE reply'[d] = reply[d]
    BY <1>4, <1>5, <1>6, <2>1, ZenonT(30) DEF AcknowledgedIsWritten
  <2>2. CASE d = c /\ Return(c, "ok", r.rev, ModRevision(c, r))
    <3>1. reply'[c].rev = r.rev
      BY <1>2, <2>2 DEF Return, ClientTypeOK
    <3> QED
      BY <1>4, <1>6, <1>b, <2>2, <3>1, ZenonT(30)
  <2>3. CASE d = c /\ Return(c, "error", 0, 0)
    BY <1>2, <2>3, ZenonT(30) DEF Return, ClientTypeOK
  <2>4. CASE d = c /\ Retry(c)
    BY <2>1, <2>4 DEF Retry
  <2> QED
    BY <1>9, <1>d, <2>1, <2>2, <2>3, <2>4, ZenonT(30)
<1>12. ASSUME req[c].revision # 0
       PROVE  appended[c] = {} /\ r.rev > req[c].revision
  <2>1. PICK l \in GetLast(req[c].key) : l.rev = req[c].revision
    BY <1>12, <1>c, ZenonT(30)
  <2>2. req[c].key \in Key
    BY <1>2, RequestFields, ZenonT(30)
  <2>3. PICK m \in M!GetLast(req[c].key) : m.rev = l.rev
    BY <2>1, <2>2, LastCorresponds, ZenonT(30)
  <2>4. l.rev \in Nat /\ l.rev <= version
    BY <2>1, EntryOf DEF GetLast, M!Newest
  <2>a. GuardedCall(c)
    BY <1>2, <1>5, ZenonT(30) DEF GuardedAppends
  <2>5. ASSUME NEW n \in appended[c]
        PROVE  FALSE
    <3>0. \E h \in history : h.rev = n /\ h.key = req[c].key
      BY <1>12, <2>5, <2>a, ZenonT(30) DEF GuardedCall
    <3>1. PICK h \in history : h.rev = n /\ h.key = req[c].key
      BY <3>0, ZenonT(30)
    <3>2. n > req[c].revision /\ n \in Nat
      <4>1. n > req[c].revision
        BY <1>12, <2>5, <2>a, ZenonT(30) DEF GuardedCall
      <4>2. appended[c] \in SUBSET Nat
        BY <1>2
      <4> QED
        BY <4>1, <4>2, <2>5, ZenonT(30)
    <3>3. h.rev <= m.rev
      BY <2>2, <3>1, AbstractLastIsNewest
    <3> QED
      BY <2>1, <2>3, <2>4, <3>1, <3>2, <3>3
  <2>6. r.rev > req[c].revision
    <3>1. r.rev = version + 1
      BY <1>b, ZenonT(30)
    <3>2. version \in Nat
      BY <1>2, ZenonT(30)
    <3> QED
      BY <2>1, <2>4, <3>1, <3>2
  <2> QED
    BY <2>5, <2>6, ZenonT(30)
<1>13. GuardedAppends'
  <2>1. GuardedCall(c)'
    <3> SUFFICES ASSUME req[c].revision # 0
                 PROVE  /\ \A m, n \in appended'[c] : m = n
                        /\ \A n \in appended'[c] :
                              /\ n > req[c].revision
                              /\ \E h \in history' :
                                    /\ h.rev = n /\ h.key = req[c].key
                                    /\ h.prevRevision = req[c].revision
      BY <1>6, ZenonT(30) DEF GuardedCall
    <3>1. r.key = req[c].key /\ r.prevRevision = req[c].revision
      BY <1>b, <1>c, ZenonT(30)
    <3>2. appended[c] = {} /\ r.rev > req[c].revision
      BY <1>12, ZenonT(30)
    <3>3. appended'[c] = {r.rev} /\ r \in history'
      BY <1>4, <1>6, <3>2, ZenonT(30)
    <3> QED
      BY <3>1, <3>2, <3>3, ZenonT(30)
  <2>2. ASSUME NEW d \in Client, d # c, pc'[d] # "idle"
        PROVE  GuardedCall(d)'
    <3>1. GuardedCall(d) /\ req'[d] = req[d] /\ appended'[d] = appended[d]
      BY <1>5, <1>6, <2>2, ZenonT(30) DEF GuardedAppends
    <3>2. history \subseteq history'
      BY <1>4, ZenonT(30)
    <3> QED
      BY <3>1, <3>2, GuardedStays, ZenonT(30)
  <2> QED
    BY <2>1, <2>2, ZenonT(30) DEF GuardedAppends
<1> QED
  BY <1>7, <1>8, <1>10, <1>11, <1>13 DEF AnswerInv

(***************************************************************************)
(* Steps that leave the subspaces alone, and those that remove entries.    *)
(***************************************************************************)
LEMMA SameCurrent ==
    ASSUME CurrentIsLatest, UNCHANGED <<byRevision, byKeyAndRevision, byKeyCurrent>>
    PROVE  CurrentIsLatest'
<1>1. /\ byRevision' = byRevision /\ byKeyAndRevision' = byKeyAndRevision
      /\ byKeyCurrent' = byKeyCurrent
  OBVIOUS
<1>2. \A k : GetLast(k)' = GetLast(k)
  BY <1>1, ZenonT(30) DEF GetLast, M!Newest
<1> QED
  BY <1>1, <1>2, ZenonT(30) DEF CurrentIsLatest

LEMMA FewerEntries ==
    ASSUME AnswerInv, byKeyAndRevision' \subseteq byKeyAndRevision,
           UNCHANGED <<history, client>>
    PROVE  AnswerInv'
<1>1. /\ pc' = pc /\ req' = req /\ tx' = tx /\ reply' = reply
      /\ appended' = appended /\ history' = history
  BY DEF client
<1>a. UUIDsNameClients /\ EntriesNameWriters /\ IdleCalls
      /\ GuardedAppends /\ AcknowledgedIsWritten
  BY DEF AnswerInv
<1>2. EntriesNameWriters'
  BY <1>1, <1>a DEF EntriesNameWriters, Wrote
<1>3. UUIDsNameClients' /\ IdleCalls'
  BY <1>1, <1>a, ZenonT(30) DEF UUIDsNameClients, IdleCalls
<1>4. GuardedAppends'
  <2>1. ASSUME NEW d \in Client, pc'[d] # "idle"
        PROVE  GuardedCall(d)'
    <3>1. GuardedCall(d)
      BY <1>1, <1>a, <2>1, ZenonT(30) DEF GuardedAppends
    <3> QED
      BY <1>1, <3>1, GuardedStays, ZenonT(30)
  <2> QED
    BY <2>1, ZenonT(30) DEF GuardedAppends
<1>5. AcknowledgedIsWritten'
  BY <1>1, <1>a, ZenonT(30) DEF AcknowledgedIsWritten, Wrote
<1> QED
  BY <1>2, <1>3, <1>4, <1>5, ZenonT(30) DEF AnswerInv

-----------------------------------------------------------------------------
(***************************************************************************)
(* The invariant behind the reruns.  What a call has appended is what it   *)
(* asks for.  When it is the last record of its key, an attempt that is to *)
(* read it knows its UUID, none has gone on to commit over it, and the     *)
(* call has not been refused.                                              *)
(***************************************************************************)
EntriesUnique == \A i, j \in byKeyAndRevision : i.rev = j.rev => i = j

CallOK(c) ==
    /\ \A n \in appended[c] : \E h \in history : h.rev = n /\ Wrote(req[c], h)
    /\ pc[c] # "done" => reply[c].answer # "refused"
    /\ \A l \in GetLast(req[c].key) : l.rev \in appended[c] =>
          /\ pc[c] # "commit"
          /\ pc[c] = "attempt" => WroteLast(c, l)
          /\ reply[c].answer # "refused"

RerunInv == EntriesUnique /\ \A c \in Client : CallOK(c)

(***************************************************************************)
(* A call that takes no step keeps it, if no record of its own becomes the *)
(* last one.                                                               *)
(***************************************************************************)
LEMMA OtherCallOK ==
    ASSUME NEW d \in Client, CallOK(d),
           pc'[d] = pc[d], req'[d] = req[d], tx'[d] = tx[d],
           reply'[d] = reply[d], appended'[d] = appended[d],
           history \subseteq history',
           \A l \in GetLast(req[d].key)' :
              l \in GetLast(req[d].key) \/ l.rev \notin appended[d]
    PROVE  CallOK(d)'
<1>1. \A n \in appended'[d] : \E h \in history' : h.rev = n /\ Wrote(req'[d], h)
  BY ZenonT(30) DEF CallOK
<1>2. pc'[d] # "done" => reply'[d].answer # "refused"
  BY ZenonT(30) DEF CallOK
<1>3. ASSUME NEW l \in GetLast(req[d].key)', l.rev \in appended'[d]
      PROVE  /\ pc'[d] # "commit"
             /\ pc'[d] = "attempt" => WroteLast(d, l)'
             /\ reply'[d].answer # "refused"
  <2>1. l \in GetLast(req[d].key) /\ l.rev \in appended[d]
    BY <1>3, ZenonT(30)
  <2>2. WroteLast(d, l) => WroteLast(d, l)'
    BY ZenonT(30) DEF WroteLast
  <2> QED
    BY <2>1, <2>2, ZenonT(30) DEF CallOK
<1> QED
  BY <1>1, <1>2, <1>3, ZenonT(30) DEF CallOK

(***************************************************************************)
(* A last record that is the call's own is of the call's kind.             *)
(***************************************************************************)
LEMMA OwnLast ==
    ASSUME StoreInv, NEW c \in Client, CallOK(c),
           NEW l \in GetLast(req[c].key), l.rev \in appended[c]
    PROVE  /\ l.isCreate <=> req[c].op = "create"
           /\ l.isDelete <=> req[c].op = "delete"
<1>1. PICK h \in history : h.rev = l.rev /\ Wrote(req[c], h)
  BY ZenonT(30) DEF CallOK
<1>2. l \in byKeyAndRevision
  BY ZenonT(30) DEF GetLast, M!Newest
<1>3. PICK r \in byRevision :
         /\ r.isDelete = l.isDelete /\ r.isCreate = l.isCreate
         /\ \A g \in history : g.rev = l.rev => g = r
  BY <1>2, EntryOf, ZenonT(30)
<1>4. h = r
  BY <1>1, <1>3, ZenonT(30)
<1>5. (h.isCreate <=> req[c].op = "create") /\ (h.isDelete <=> req[c].op = "delete")
  BY <1>1, ZenonT(30) DEF Wrote
<1> QED
  BY <1>3, <1>4, <1>5

(***************************************************************************)
(* How an attempt ends: it succeeds, or the last record of the key is not  *)
(* the call's own.                                                         *)
(***************************************************************************)
LEMMA AttemptOutcome ==
    ASSUME StoreInv, GuardedAppends, EntriesUnique, NEW c \in Client, CallOK(c),
           CreateAttempt(c) \/ UpdateAttempt(c) \/ DeleteAttempt(c)
    PROVE  /\ pc[c] = "attempt"
           /\ \/ \E n, kv : Return(c, "ok", n, kv)
              \/ /\ \/ \E n, kv : Return(c, "refused", n, kv)
                    \/ \E r : Prepare(c, r)
                 /\ \A l \in GetLast(req[c].key) : l.rev \notin appended[c]
<1>1. pc[c] = "attempt"
  BY ZenonT(30) DEF CreateAttempt, UpdateAttempt, DeleteAttempt, Attempting
<1>2. ASSUME NEW l \in GetLast(req[c].key), l.rev \in appended[c]
      PROVE  /\ WroteLast(c, l)
             /\ l.isCreate <=> req[c].op = "create"
             /\ l.isDelete <=> req[c].op = "delete"
  BY <1>1, <1>2, OwnLast, ZenonT(30) DEF CallOK
<1>3. ASSUME NEW l \in GetLast(req[c].key), NEW g \in GetLast(req[c].key)
      PROVE  l = g
  <2>1. /\ l \in byKeyAndRevision /\ g \in byKeyAndRevision
        /\ l.rev <= g.rev /\ g.rev <= l.rev
    BY ZenonT(30) DEF GetLast, M!Newest
  <2>2. l.rev \in Nat /\ g.rev \in Nat
    BY <2>1, EntryOf
  <2>3. l.rev = g.rev
    BY <2>1, <2>2
  <2> QED
    BY <2>1, <2>3, ZenonT(30) DEF EntriesUnique
<1>u. ASSUME NEW l \in GetLast(req[c].key), l.rev \in appended[c], req[c].op = "update"
      PROVE  l.rev # req[c].revision
  <2>1. req[c] \in Request(Nat)
    BY <1>1, ZenonT(30) DEF StoreInv, TypeOK
  <2>2. req[c].revision \in Nat /\ req[c].revision # 0
    BY <1>u, <2>1, RequestFields
  <2>3. l.rev > req[c].revision
    BY <1>1, <1>u, <2>2, ZenonT(30) DEF GuardedAppends, GuardedCall
  <2>4. l.rev \in Nat
    BY EntryOf DEF GetLast, M!Newest
  <2> QED
    BY <2>2, <2>3, <2>4
<1>4. CASE CreateAttempt(c)
  BY <1>1, <1>2, <1>3, <1>4, ZenonT(30) DEF CreateAttempt, Attempting, Answer
<1>5. CASE UpdateAttempt(c)
  BY <1>1, <1>2, <1>3, <1>5, <1>u, ZenonT(30) DEF UpdateAttempt, Attempting, Answer
<1>6. CASE DeleteAttempt(c)
  BY <1>1, <1>2, <1>3, <1>6, ZenonT(30) DEF DeleteAttempt, Attempting, Answer
<1> QED
  BY <1>4, <1>5, <1>6, ZenonT(30)

(***************************************************************************)
(* A step without a commit keeps it for the call that takes it.            *)
(***************************************************************************)
LEMMA QuietCallOK ==
    ASSUME StoreInv, AnswerInv, EntriesUnique, NEW c \in Client, CallOK(c), Quiet(c)
    PROVE  CallOK(c)'
<1>1. UNCHANGED <<data, compactRev, appended, sweep>>
  BY QuietKinds, ZenonT(30)
<1>2. /\ appended' = appended /\ history' = history
      /\ \A k : GetLast(k)' = GetLast(k)
  BY <1>1, ZenonT(30) DEF data, GetLast, M!Newest
<1>3. ClientTypeOK /\ GuardedAppends /\ IdleCalls
  BY ZenonT(30) DEF StoreInv, TypeOK, ClientTypeOK, AnswerInv
<1>4. CASE \E r \in Requests : Begin(c, r)
  <2>1. pc[c] = "idle" /\ reply' = reply
    BY <1>4, ZenonT(30) DEF Begin
  <2>2. appended'[c] = {} /\ reply'[c].answer # "refused"
    <3>1. pc[c] # "done"
      BY <2>1
    <3> QED
      BY <1>2, <1>3, <2>1, <3>1, ZenonT(30) DEF IdleCalls, CallOK
  <2> QED
    BY <2>2, ZenonT(30) DEF CallOK
<1>5. ASSUME NEW a \in {"ok", "refused", "error"}, NEW n, NEW kv, Return(c, a, n, kv),
             a = "refused" => \A l \in GetLast(req[c].key) : l.rev \notin appended[c]
      PROVE  CallOK(c)'
  <2>1. pc'[c] = "done" /\ reply'[c].answer = a /\ req' = req
    BY <1>3, <1>5, ZenonT(30) DEF Return, ClientTypeOK
  <2>2. /\ \A m \in appended'[c] : \E h \in history' : h.rev = m /\ Wrote(req'[c], h)
        /\ pc'[c] # "commit" /\ pc'[c] # "attempt"
    <3>1. \A m \in appended'[c] : \E h \in history' : h.rev = m /\ Wrote(req'[c], h)
      BY <1>2, <2>1, ZenonT(30) DEF CallOK
    <3> QED
      BY <2>1, <3>1
  <2> QED
    BY <1>2, <1>5, <2>1, <2>2, ZenonT(30) DEF CallOK
<1>6. ASSUME Retry(c), pc[c] \in {"attempt", "commit"}
      PROVE  CallOK(c)'
  <2>1. /\ pc'[c] = "attempt" /\ reply' = reply /\ req' = req
        /\ tx'[c].lastWriteUUID = tx[c].lastWriteUUID
    BY <1>3, <1>6 DEF Retry, ClientTypeOK
  <2>2. /\ pc[c] # "done" /\ (pc[c] # "commit" => pc[c] = "attempt")
        /\ pc'[c] # "commit"
    BY <1>6, <2>1
  <2>3. \A l : WroteLast(c, l) => WroteLast(c, l)'
    BY <2>1, ZenonT(30) DEF WroteLast
  <2> QED
    BY <1>2, <2>1, <2>2, <2>3, ZenonT(30) DEF CallOK
<1>7. ASSUME NEW r, Prepare(c, r), pc[c] = "attempt",
             \A l \in GetLast(req[c].key) : l.rev \notin appended[c]
      PROVE  CallOK(c)'
  <2>1. reply' = reply /\ req' = req
    BY <1>7, ZenonT(30) DEF Prepare
  <2>2. pc[c] # "done"
    BY <1>7
  <2> QED
    BY <1>2, <1>7, <2>1, <2>2, ZenonT(30) DEF CallOK
<1>8. CASE CreateAttempt(c) \/ UpdateAttempt(c) \/ DeleteAttempt(c)
  <2>1. /\ pc[c] = "attempt"
        /\ \/ \E n, kv : Return(c, "ok", n, kv)
           \/ /\ \/ \E n, kv : Return(c, "refused", n, kv)
                 \/ \E r : Prepare(c, r)
              /\ \A l \in GetLast(req[c].key) : l.rev \notin appended[c]
    BY <1>3, <1>8, AttemptOutcome, ZenonT(30)
  <2>2. ASSUME NEW n, NEW kv, Return(c, "ok", n, kv)
        PROVE  CallOK(c)'
    BY <1>5, <2>2
  <2> QED
    BY <1>5, <1>7, <2>1, <2>2, ZenonT(30)
<1>9. CASE AttemptFails(c) \/ CommitFails(c)
  <2>1. pc[c] \in {"attempt", "commit"} /\ (Retry(c) \/ Return(c, "error", 0, 0))
    BY <1>9 DEF AttemptFails, CommitFails
  <2>2. ASSUME Return(c, "error", 0, 0)
        PROVE  CallOK(c)'
    BY <1>5, <2>2
  <2> QED
    BY <1>6, <2>1, <2>2, ZenonT(30)
<1> QED
  BY <1>4, <1>8, <1>9, ZenonT(30) DEF Quiet

(***************************************************************************)
(* A commit keeps it, for all calls: the new record is the last one of its *)
(* key, and its call knows its UUID.                                       *)
(***************************************************************************)
LEMMA CommitCallsOK ==
    ASSUME StoreInv, EntriesUnique, \A d \in Client : CallOK(d),
           NEW c \in Client, Commit(c)
    PROVE  EntriesUnique' /\ \A d \in Client : CallOK(d)'
<1>1. PICK r \in M!Record : Commits(c, r)
  BY CommitStep, ZenonT(30)
<1>a. /\ Append(r, tx[c].lastWriteUUID)
      /\ appended' = [appended EXCEPT ![c] = @ \cup {r.rev}]
      /\ r.rev = version + 1 /\ Wrote(req[c], r)
  BY <1>1, ZenonT(30) DEF Commits
<1>b. \/ Return(c, "ok", r.rev, ModRevision(c, r))
      \/ Retry(c)
      \/ Return(c, "error", 0, 0)
  BY <1>1, ZenonT(30) DEF Commits
<1>2. /\ ClientTypeOK /\ appended \in [Client -> SUBSET Nat] /\ version \in Nat
  BY ZenonT(30) DEF StoreInv, TypeOK, ClientTypeOK
<1>3. tx[c].lastWriteUUID \in UUID
  <2>1. tx[c] \in Tx
    BY <1>2 DEF ClientTypeOK
  <2> QED
    BY <2>1, ZenonT(30) DEF Tx
<1> DEFINE i == IndexEntry(r, tx[c].lastWriteUUID)
<1>4. i.rev = r.rev /\ i.writeUUID = tx[c].lastWriteUUID
  BY <1>3, EntryFields, ZenonT(30)
<1> HIDE DEF i
<1>5. /\ byKeyAndRevision' = byKeyAndRevision \cup {i}
      /\ history' = history \cup {r}
  BY <1>a, ZenonT(30) DEF Append, i
<1>6. \A j \in byKeyAndRevision : j.rev # r.rev
  <2>1. \A j \in byKeyAndRevision : j.rev \in Nat /\ j.rev <= version
    BY EntryOf, ZenonT(30)
  <2> QED
    BY <1>2, <1>a, <2>1
<1>7. EntriesUnique'
  BY <1>4, <1>5, <1>6, ZenonT(30) DEF EntriesUnique
<1>8. \A k : \A l \in GetLast(k)' : l \in GetLast(k) \/ l = i
  BY <1>5, ZenonT(30) DEF GetLast, M!Newest
<1>9. ASSUME NEW d \in Client
      PROVE  r.rev \notin appended[d]
  <2>1. \A h \in history : h.rev \in Nat /\ h.rev <= version
    <3>1. history \subseteq M!Record /\ \A h \in history : h.rev <= version
      BY ZenonT(30) DEF StoreInv, TypeOK, M!RevisionsUnique
    <3> QED
      BY <3>1 DEF M!Record
  <2>2. \A h \in history : h.rev # r.rev
    BY <1>2, <1>a, <2>1
  <2>3. \A n \in appended[d] : \E h \in history : h.rev = n
    BY ZenonT(30) DEF CallOK
  <2> QED
    BY <2>2, <2>3
<1>10. ASSUME NEW d \in Client, d # c
       PROVE  CallOK(d)'
  <2>1. /\ pc'[d] = pc[d] /\ tx'[d] = tx[d] /\ reply'[d] = reply[d]
        /\ req'[d] = req[d]
    BY <1>2, <1>10, <1>b DEF Return, Retry, ClientTypeOK
  <2>2. appended'[d] = appended[d] /\ history \subseteq history'
    BY <1>2, <1>10, <1>5, <1>a
  <2>3. \A l \in GetLast(req[d].key)' :
           l \in GetLast(req[d].key) \/ l.rev \notin appended[d]
    <3>1. req'[d].key = req[d].key
      BY <2>1, ZenonT(30)
    <3> QED
      BY <1>4, <1>8, <1>9, <3>1, ZenonT(30)
  <2> QED
    BY <2>1, <2>2, <2>3, OtherCallOK, ZenonT(30)
<1>11. CallOK(c)'
  <2>1. pc[c] = "commit" /\ pc[c] # "done"
    BY DEF Commit
  <2>2. /\ req' = req /\ pc'[c] \in {"attempt", "done"}
        /\ pc'[c] = "attempt" => /\ tx'[c].lastWriteUUID = tx[c].lastWriteUUID
                                 /\ reply'[c] = reply[c]
        /\ pc'[c] = "done" => reply'[c].answer # "refused"
    <3>1. CASE Retry(c)
      BY <1>2, <3>1 DEF Retry, ClientTypeOK
    <3>2. ASSUME NEW a \in {"ok", "error"}, NEW n, NEW kv, Return(c, a, n, kv)
          PROVE  req' = req /\ pc'[c] = "done" /\ reply'[c].answer # "refused"
      BY <1>2, <3>2 DEF Return, ClientTypeOK
    <3>3. CASE Return(c, "ok", r.rev, ModRevision(c, r))
      BY <3>2, <3>3, ZenonT(30)
    <3>4. CASE Return(c, "error", 0, 0)
      BY <3>2, <3>4, ZenonT(30)
    <3> QED
      BY <1>b, <3>1, <3>3, <3>4, ZenonT(30)
  <2>3. appended'[c] = appended[c] \cup {r.rev}
    BY <1>2, <1>a, ZenonT(30)
  <2>4. \A n \in appended'[c] : \E h \in history' : h.rev = n /\ Wrote(req'[c], h)
    BY <1>5, <1>a, <2>2, <2>3, ZenonT(30) DEF CallOK
  <2>5. reply[c].answer # "refused" /\ reply'[c].answer # "refused" /\ pc'[c] # "commit"
    <3>1. reply[c].answer # "refused"
      BY <2>1, ZenonT(30) DEF CallOK
    <3> QED
      BY <2>2, <3>1
  <2>6. ASSUME NEW l \in GetLast(req[c].key)', l.rev \in appended'[c],
               pc'[c] = "attempt"
        PROVE  WroteLast(c, l)'
    <3>1. req'[c].key = req[c].key
      BY <2>2, ZenonT(30)
    <3>2. CASE l \in GetLast(req[c].key)
      <4>1. l.rev # r.rev
        BY <1>6, <3>2, ZenonT(30) DEF GetLast, M!Newest
      <4> QED
        BY <2>1, <2>3, <2>6, <3>2, <4>1, ZenonT(30) DEF CallOK
    <3>3. CASE l = i
      BY <1>4, <2>2, <2>6, <3>3, ZenonT(30) DEF WroteLast
    <3> QED
      BY <1>8, <3>1, <3>2, <3>3, ZenonT(30)
  <2> QED
    BY <2>4, <2>5, <2>6, ZenonT(30) DEF CallOK
<1> QED
  BY <1>7, <1>10, <1>11, ZenonT(30)

(***************************************************************************)
(* So does a compaction batch.                                             *)
(***************************************************************************)
LEMMA SweepCallsOK ==
    ASSUME StoreInv, StoreInv', M!IInv', IdleCalls, EntriesUnique,
           \A d \in Client : CallOK(d), NEW p \in Compactor, SweepBatch(p)
    PROVE  EntriesUnique' /\ \A d \in Client : CallOK(d)'
<1>1. /\ byKeyAndRevision' \subseteq byKeyAndRevision
      /\ UNCHANGED <<history, client>>
  BY SweepEffect, ZenonT(30)
<1>2. /\ pc' = pc /\ req' = req /\ tx' = tx /\ reply' = reply
      /\ appended' = appended /\ history' = history
  BY <1>1 DEF client
<1>3. EntriesUnique'
  BY <1>1, ZenonT(30) DEF EntriesUnique
<1>4. ASSUME NEW d \in Client
      PROVE  CallOK(d)'
  <2>1. \A l \in GetLast(req[d].key)' :
           l \in GetLast(req[d].key) \/ l.rev \notin appended[d]
    <3>1. CASE pc[d] = "idle"
      BY <3>1, ZenonT(30) DEF IdleCalls
    <3>2. CASE pc[d] # "idle"
      <4>1. req[d] \in Request(Nat)
        BY <3>2, ZenonT(30) DEF StoreInv, TypeOK
      <4>2. req[d].key \in Key /\ req'[d].key = req[d].key
        BY <1>2, <4>1, RequestFields, ZenonT(30)
      <4>3. \A k \in Key : GetLast(k)' \subseteq GetLast(k)
        BY SweepLast, ZenonT(30)
      <4> QED
        BY <4>2, <4>3, ZenonT(30)
    <3> QED
      BY <3>1, <3>2, ZenonT(30)
  <2> QED
    BY <1>2, <2>1, OtherCallOK, ZenonT(30)
<1> QED
  BY <1>3, <1>4, ZenonT(30)

(***************************************************************************)
(* Steps that leave the index and the clients alone, and those of a client *)
(* that commit nothing.                                                    *)
(***************************************************************************)
LEMMA SameRerunInv ==
    ASSUME RerunInv, UNCHANGED <<byKeyAndRevision, history, client>>
    PROVE  RerunInv'
<1>1. /\ pc' = pc /\ req' = req /\ tx' = tx /\ reply' = reply
      /\ appended' = appended /\ history' = history
      /\ byKeyAndRevision' = byKeyAndRevision
  BY DEF client
<1>2. EntriesUnique'
  BY <1>1, ZenonT(30) DEF RerunInv, EntriesUnique
<1>3. \A k : GetLast(k)' = GetLast(k)
  BY <1>1, ZenonT(30) DEF GetLast, M!Newest
<1>4. ASSUME NEW d \in Client
      PROVE  CallOK(d)'
  <2>1. CallOK(d) /\ \A l \in GetLast(req[d].key)' : l \in GetLast(req[d].key)
    BY <1>1, <1>3, ZenonT(30) DEF RerunInv
  <2> QED
    BY <1>1, <2>1, OtherCallOK, ZenonT(30)
<1> QED
  BY <1>2, <1>4, ZenonT(30) DEF RerunInv

LEMMA QuietRerunInv ==
    ASSUME StoreInv, AnswerInv, RerunInv, NEW c \in Client, Quiet(c)
    PROVE  RerunInv'
<1>1. UNCHANGED <<data, compactRev, appended, sweep>>
  BY QuietKinds, ZenonT(30)
<1>2. /\ appended' = appended /\ history' = history
      /\ byKeyAndRevision' = byKeyAndRevision
  BY <1>1, ZenonT(30) DEF data
<1>3. EntriesUnique'
  BY <1>2, ZenonT(30) DEF RerunInv, EntriesUnique
<1>4. CallOK(c)'
  BY QuietCallOK, ZenonT(30) DEF RerunInv
<1>5. ASSUME NEW d \in Client, d # c
      PROVE  CallOK(d)'
  <2>1. ClientTypeOK
    BY ZenonT(30) DEF StoreInv, TypeOK, ClientTypeOK
  <2>2. /\ pc'[d] = pc[d] /\ req'[d] = req[d]
        /\ tx'[d] = tx[d] /\ reply'[d] = reply[d]
    <3>1. \/ \E r : Begin(c, r)
          \/ \E a, n, kv : Return(c, a, n, kv)
          \/ Retry(c)
          \/ \E r : Prepare(c, r)
      BY QuietKinds, ZenonT(30)
    <3>2. CASE \E r : Begin(c, r)
      BY <1>5, <2>1, <3>2 DEF Begin, ClientTypeOK
    <3>3. CASE \E a, n, kv : Return(c, a, n, kv)
      BY <1>5, <2>1, <3>3 DEF Return, ClientTypeOK
    <3>4. CASE Retry(c)
      BY <1>5, <2>1, <3>4 DEF Retry, ClientTypeOK
    <3>5. CASE \E r : Prepare(c, r)
      BY <1>5, <2>1, <3>5 DEF Prepare, ClientTypeOK
    <3> QED
      BY <3>1, <3>2, <3>3, <3>4, <3>5, ZenonT(30)
  <2>3. CallOK(d) /\ \A l \in GetLast(req[d].key)' : l \in GetLast(req[d].key)
    <3>1. \A k : GetLast(k)' = GetLast(k)
      BY <1>2, ZenonT(30) DEF GetLast, M!Newest
    <3> QED
      BY <2>2, <3>1, ZenonT(30) DEF RerunInv
  <2> QED
    BY <1>2, <2>2, <2>3, OtherCallOK, ZenonT(30)
<1> QED
  BY <1>3, <1>4, <1>5, ZenonT(30) DEF RerunInv

(***************************************************************************)
(* Two records that a call has appended are of the same kind, so that the  *)
(* record before the second one, in the chain of lives of the key, is not  *)
(* the first one.                                                          *)
(***************************************************************************)
LEMMA UndoneBetween ==
    ASSUME StoreInv, M!HistoryChain, GuardedAppends, IdleCalls,
           \A c \in Client : CallOK(c)
    PROVE  RewritesWereUndone
<1> SUFFICES ASSUME NEW c \in Client, NEW m \in appended[c],
                    NEW n \in appended[c], m < n
             PROVE  \E h \in history :
                       /\ h.key = req[c].key /\ m < h.rev /\ h.rev < n
                       /\ h.rev \notin appended[c]
                       /\ h.isDelete # (req[c].op = "delete")
  BY ZenonT(30) DEF RewritesWereUndone
<1> DEFINE k == req[c].key
<1>1. /\ history \subseteq M!Record /\ version \in Nat
      /\ \A h \in history : h.rev <= version
      /\ \A g, h \in history : g.rev = h.rev => g = h
  BY ZenonT(30) DEF StoreInv, TypeOK, M!RevisionsUnique
<1>2. \A h \in history : h.rev \in Nat /\ h.rev <= version /\ h.isDelete \in BOOLEAN
  BY <1>1 DEF M!Record
<1>3. PICK f \in history : f.rev = m /\ Wrote(req[c], f)
  BY ZenonT(30) DEF CallOK
<1>4. PICK g \in history : g.rev = n /\ Wrote(req[c], g)
  BY ZenonT(30) DEF CallOK
<1>5. /\ f.key = k /\ g.key = k
      /\ f.isDelete <=> req[c].op = "delete"
      /\ g.isDelete <=> req[c].op = "delete"
      /\ g.isCreate <=> req[c].op = "create"
  BY <1>3, <1>4, ZenonT(30) DEF Wrote
<1>6. req[c].op = "create" \/ req[c].op = "delete"
  <2>1. pc[c] # "idle"
    BY ZenonT(30) DEF IdleCalls
  <2>2. req[c] \in Request(Nat)
    BY <2>1, ZenonT(30) DEF StoreInv, TypeOK
  <2>3. ASSUME req[c].op = "update"
        PROVE  FALSE
    <3>1. req[c].revision # 0
      BY <2>2, <2>3, RequestFields
    <3>2. m = n
      BY <2>1, <3>1, ZenonT(30) DEF GuardedAppends, GuardedCall
    <3> QED
      BY <1>2, <1>3, <3>2
  <2> QED
    BY <2>2, <2>3, RequestFields
<1> DEFINE Before == {h \in history : h.key = k /\ h.rev < n}
<1>7. PICK p \in Before : p \in M!Newest(Before, k)
  <2>1. f \in Before
    BY <1>3, <1>5
  <2>2. \A h \in Before : h.rev \in Nat /\ h.rev <= version
    BY <1>2
  <2> HIDE DEF Before
  <2> QED
    BY <1>1, <1>5, <2>1, <2>2, LastExists, ZenonT(30)
<1>8. /\ p \in history /\ p.key = k /\ p.rev < n
      /\ \A h \in history : h.key = k /\ h.rev < n => h.rev <= p.rev
  BY <1>7 DEF M!Newest
<1>9. M!Consecutive(p, g)
  BY <1>2, <1>4, <1>5, <1>8 DEF M!Consecutive
<1>10. g.isCreate <=> p.isDelete
  BY <1>8, <1>9, ZenonT(30) DEF M!HistoryChain
<1>11. p.isDelete # (req[c].op = "delete")
  BY <1>2, <1>5, <1>6, <1>8, <1>10
<1>12. p.rev \notin appended[c]
  <2>1. ASSUME p.rev \in appended[c]
        PROVE  FALSE
    <3>1. PICK h \in history : h.rev = p.rev /\ Wrote(req[c], h)
      BY <2>1, ZenonT(30) DEF CallOK
    <3>2. h = p
      BY <1>1, <1>8, <3>1, ZenonT(30)
    <3>3. p.isDelete <=> req[c].op = "delete"
      BY <3>1, <3>2, ZenonT(30) DEF Wrote
    <3> QED
      BY <1>2, <1>8, <1>11, <3>3
  <2> QED
    BY <2>1
<1>13. m < p.rev
  <2>1. m <= p.rev /\ m \in Nat /\ p.rev \in Nat
    BY <1>2, <1>3, <1>5, <1>8
  <2>2. m # p.rev
    BY <1>12, ZenonT(30)
  <2> QED
    BY <2>1, <2>2
<1> QED
  BY <1>8, <1>11, <1>12, <1>13, ZenonT(30)

-----------------------------------------------------------------------------
(***************************************************************************)
(* The theorems about the abstract store, for the records of byRevision.   *)
(***************************************************************************)
MP == INSTANCE MvccProofs WITH records <- byRevision

(***************************************************************************)
(* The two instances of Mvcc define the same.                              *)
(***************************************************************************)
LEMMA SameNext == [M!Next]_M!vars <=> [MP!Next]_MP!vars
<1>1. M!Next <=> MP!Next
  BY DEF M!Next, MP!Next, M!Write, MP!Write, M!Compact, MP!Compact,
         M!Tick, MP!Tick, M!Create, MP!Create, M!Update, MP!Update,
         M!Delete, MP!Delete, M!StartSweep, MP!StartSweep,
         M!SweepBatch, MP!SweepBatch, M!StopSweep, MP!StopSweep,
         M!AppendRecord, MP!AppendRecord, M!InRange, MP!InRange, M!Doomed, MP!Doomed,
         M!AfterBatch, MP!AfterBatch, M!GetLast, MP!GetLast,
         M!Newest, MP!Newest, M!CreateRecord, MP!CreateRecord,
         M!UpdateRecord, MP!UpdateRecord, M!DeleteRecord, MP!DeleteRecord,
         M!GetCreateRevision, MP!GetCreateRevision,
         M!CompactRequests, MP!CompactRequests, M!NoRev, MP!NoRev,
         M!NoSweep, MP!NoSweep
<1> QED
  BY <1>1 DEF M!vars, MP!vars

(***************************************************************************)
(* They have the same inductive invariant,                                 *)
(***************************************************************************)
LEMMA SameIInv == M!IInv <=> MP!IInv
  BY ZenonT(30) DEF M!IInv, MP!IInv, M!TypeOK, MP!TypeOK, M!Record, MP!Record,
         M!Sweep, MP!Sweep, M!RevisionsUnique, MP!RevisionsUnique,
         M!RemovedNotLive, MP!RemovedNotLive,
         M!RemovedInOrder, MP!RemovedInOrder, M!SweptClean, MP!SweptClean,
         M!HistoryChain, MP!HistoryChain, M!Consecutive, MP!Consecutive,
         M!GetCreateRevision, MP!GetCreateRevision, M!NoRev, MP!NoRev

(***************************************************************************)
(* and the same initial states.                                            *)
(***************************************************************************)
LEMMA SameInit == M!Init <=> MP!Init
  BY DEF M!Init, MP!Init, M!NoSweep, MP!NoSweep,
         M!CreateRecord, MP!CreateRecord, M!NoRev, MP!NoRev

(***************************************************************************)
(* The inductive invariant of the abstract store, in terms of this one.    *)
(***************************************************************************)
LEMMA AbstractIInv ==
    /\ M!Init => M!IInv
    /\ M!IInv /\ [M!Next]_M!vars => M!IInv'
<1>1. M!Init => M!IInv
  BY MP!InitIInv, MaxVersionAssumption, SameInit, SameIInv
<1>2. (M!IInv <=> MP!IInv)'
  BY SameIInv, PTL
<1>3. M!IInv /\ [M!Next]_M!vars => M!IInv'
  BY MP!NextIInv, MaxVersionAssumption, SameNext, SameIInv, <1>2
<1> QED
  BY <1>1, <1>3

(***************************************************************************)
(* All the invariants together.                                            *)
(***************************************************************************)
Inv ==
    /\ StoreInv
    /\ M!IInv
    /\ CurrentIsLatest
    /\ AnswerInv
    /\ RerunInv

(***************************************************************************)
(* They hold in the initial states.                                        *)
(***************************************************************************)
LEMMA InitInv == Init => Inv
<1> SUFFICES ASSUME Init PROVE Inv
  OBVIOUS
<1>1. StoreInv /\ M!IInv
  BY InitStore, AbstractIInv
<1>2. /\ byKeyAndRevision = {IndexEntry(r, OldUUID) : r \in byRevision}
      /\ byKeyCurrent = [k \in Key |-> NoValue]
      /\ pc = [c \in Client |-> "idle"]
      /\ tx = [c \in Client |-> NewTx(c)]
      /\ reply = [c \in Client |-> [answer |-> "none", rev |-> 0, kv |-> 0]]
      /\ appended = [c \in Client |-> {}]
  BY DEF Init
<1>3. \A i \in byKeyAndRevision : i.writeUUID = OldUUID
  BY <1>1, <1>2, EntryFields DEF StoreInv, TypeOK
<1>4. CurrentIsLatest
  BY <1>2, <1>3, Zenon DEF CurrentIsLatest, GetLast, M!Newest
<1>5. UUIDsNameClients
  BY <1>2 DEF UUIDsNameClients, NewTx, CreateUUID
<1>6. EntriesNameWriters
  <2>1. \A c \in Client, v \in Nat : OldUUID # <<c, v>>
    BY OldUUIDAssumption DEF UUID
  <2> QED
    BY <1>3, <2>1, ZenonT(30) DEF EntriesNameWriters
<1>7. IdleCalls /\ GuardedAppends /\ AcknowledgedIsWritten
  BY <1>2, ZenonT(30) DEF IdleCalls, GuardedAppends, GuardedCall, AcknowledgedIsWritten
<1>8. EntriesUnique
  <2>1. \A r \in byRevision : r \in M!Record /\ r \in history
    BY <1>1 DEF StoreInv, TypeOK, M!RevisionsUnique
  <2>2. \A r \in byRevision : IndexEntry(r, OldUUID).rev = r.rev
    BY <2>1, EntryFields
  <2>3. \A g, h \in history : g.rev = h.rev => g = h
    BY <1>1, ZenonT(30) DEF StoreInv, M!RevisionsUnique
  <2> SUFFICES ASSUME NEW i \in byKeyAndRevision, NEW j \in byKeyAndRevision,
                      i.rev = j.rev
               PROVE  i = j
    BY ZenonT(30) DEF EntriesUnique
  <2>4. PICK r \in byRevision : i = IndexEntry(r, OldUUID)
    BY <1>2, ZenonT(30)
  <2>5. PICK t \in byRevision : j = IndexEntry(t, OldUUID)
    BY <1>2, ZenonT(30)
  <2>6. r = t
    BY <2>1, <2>2, <2>3, <2>4, <2>5, ZenonT(30)
  <2> QED
    BY <2>4, <2>5, <2>6, ZenonT(30)
<1>9. ASSUME NEW c \in Client
      PROVE  CallOK(c)
  <2>1. reply[c].answer # "refused" /\ appended[c] = {}
    BY <1>2
  <2> QED
    BY <2>1, ZenonT(30) DEF CallOK
<1> QED
  BY <1>1, <1>4, <1>5, <1>6, <1>7, <1>8, <1>9, ZenonT(30) DEF Inv, AnswerInv, RerunInv

(***************************************************************************)
(* Every step preserves them: one that commits nothing, a commit, a        *)
(* compaction batch, and the rest.                                         *)
(***************************************************************************)
LEMMA NextInv == Inv /\ [Next]_vars => Inv'
<1> SUFFICES ASSUME Inv, [Next]_vars PROVE Inv'
  OBVIOUS
<1>1. /\ StoreInv /\ M!IInv /\ CurrentIsLatest /\ AnswerInv /\ RerunInv
      /\ StoreInv' /\ M!IInv'
  BY NextStore, AbstractIInv DEF Inv
<1>2. ASSUME UNCHANGED <<byRevision, byKeyAndRevision, byKeyCurrent>>
      PROVE  CurrentIsLatest'
  BY <1>1, <1>2, SameCurrent, ZenonT(30)
<1>3. ASSUME byKeyAndRevision' \subseteq byKeyAndRevision,
             UNCHANGED <<history, client>>
      PROVE  AnswerInv'
  BY <1>1, <1>3, FewerEntries, ZenonT(30)
<1>4. ASSUME NEW c \in Client, Quiet(c)
      PROVE  CurrentIsLatest' /\ AnswerInv' /\ RerunInv'
  <2>1. UNCHANGED data
    BY <1>1, <1>4, QuietKinds
  <2>2. CurrentIsLatest'
    BY <1>2, <2>1 DEF data
  <2>3. AnswerInv' /\ RerunInv'
    BY <1>1, <1>4, QuietAnswerInv, QuietRerunInv, ZenonT(30)
  <2> QED
    BY <2>2, <2>3, ZenonT(30)
<1>5. ASSUME NEW c \in Client, Commit(c)
      PROVE  CurrentIsLatest' /\ AnswerInv' /\ RerunInv'
  <2>1. CurrentIsLatest' /\ AnswerInv'
    BY <1>1, <1>5, CommitCurrent, CommitAnswerInv, ZenonT(30)
  <2>2. EntriesUnique /\ \A d \in Client : CallOK(d)
    BY <1>1, ZenonT(30) DEF RerunInv
  <2>3. EntriesUnique' /\ \A d \in Client : CallOK(d)'
    BY <1>1, <1>5, <2>2, CommitCallsOK, ZenonT(30)
  <2> QED
    BY <2>1, <2>3, ZenonT(30) DEF RerunInv
<1>6. ASSUME NEW p \in Compactor, SweepBatch(p)
      PROVE  CurrentIsLatest' /\ AnswerInv' /\ RerunInv'
  <2>1. CurrentIsLatest'
    BY <1>1, <1>6, SweepCurrent, ZenonT(30)
  <2>2. AnswerInv'
    BY <1>1, <1>3, <1>6, SweepEffect
  <2>3. IdleCalls /\ EntriesUnique /\ \A d \in Client : CallOK(d)
    BY <1>1, ZenonT(30) DEF RerunInv, AnswerInv
  <2>4. EntriesUnique' /\ \A d \in Client : CallOK(d)'
    BY <1>1, <1>6, <2>3, SweepCallsOK, ZenonT(30)
  <2> QED
    BY <2>1, <2>2, <2>4, ZenonT(30) DEF RerunInv
<1>7. ASSUME \/ \E p \in Compactor, e \in M!CompactRequests : Compact(p, e)
             \/ \E p \in Compactor : SweepReturns(p)
             \/ Tick
             \/ UNCHANGED vars
      PROVE  CurrentIsLatest' /\ AnswerInv' /\ RerunInv'
  <2>1. UNCHANGED <<byRevision, byKeyAndRevision, byKeyCurrent, history,
                    client>>
    BY <1>7 DEF Compact, SweepReturns, Tick, vars, data
  <2>2. RerunInv'
    BY <1>1, <2>1, SameRerunInv, ZenonT(30)
  <2> QED
    BY <1>2, <1>3, <2>1, <2>2
<1>8. CurrentIsLatest' /\ AnswerInv' /\ RerunInv'
  BY <1>4, <1>5, <1>6, <1>7 DEF Next, ClientStep, Quiet
<1> QED
  BY <1>1, <1>8 DEF Inv

(***************************************************************************)
(* They hold in every reachable state.                                     *)
(***************************************************************************)
THEOREM AllInvariants == Spec => []Inv
  BY InitInv, NextInv, PTL DEF Spec

(***************************************************************************)
(* byKeyCurrent holds the value of every live key's last record and        *)
(* nothing for the others, across writes, their retries and compaction.    *)
(***************************************************************************)
THEOREM CurrentIsAlwaysLatest == Spec => []CurrentIsLatest
<1>1. Inv => CurrentIsLatest
  BY DEF Inv
<1> QED
  BY <1>1, AllInvariants, PTL

(***************************************************************************)
(* A call that succeeds has appended the record it was asked for at the    *)
(* revision it returns, whichever of its attempts the answer is from.      *)
(***************************************************************************)
THEOREM AcknowledgedIsAlwaysWritten == Spec => []AcknowledgedIsWritten
<1>1. Inv => AcknowledgedIsWritten
  BY DEF Inv, AnswerInv
<1> QED
  BY <1>1, AllInvariants, PTL

(***************************************************************************)
(* An Update, or a Delete with a revision, appends at most once over all   *)
(* its attempts, and only right after that revision.                       *)
(***************************************************************************)
THEOREM GuardedCallsWriteOnce == Spec => []GuardedWritesOnce
<1>1. Inv => GuardedWritesOnce
  <2> SUFFICES ASSUME Inv, NEW c \in Client, pc[c] # "idle",
                      req[c].revision # 0
               PROVE  /\ \A m, n \in appended[c] : m = n
                      /\ \A r \in history : r.rev \in appended[c] =>
                            r.prevRevision = req[c].revision
    BY DEF GuardedWritesOnce
  <2>1. GuardedAppends /\ M!RevisionsUnique
    BY DEF Inv, AnswerInv, StoreInv
  <2>2. \A g, h \in history : g.rev = h.rev => g = h
    BY <2>1, ZenonT(30) DEF M!RevisionsUnique
  <2>3. /\ \A m, n \in appended[c] : m = n
        /\ \A n \in appended[c] :
              \E h \in history : h.rev = n /\ h.prevRevision = req[c].revision
    BY <2>1, ZenonT(30) DEF GuardedAppends, GuardedCall
  <2> QED
    BY <2>2, <2>3, ZenonT(30)
<1> QED
  BY <1>1, AllInvariants, PTL

(***************************************************************************)
(* A Create or a Delete that has appended twice was undone by another call *)
(* between the two: its attempts alone never apply it twice.               *)
(***************************************************************************)
THEOREM RewritesWereAlwaysUndone == Spec => []RewritesWereUndone
<1>1. Inv => /\ StoreInv /\ M!HistoryChain /\ GuardedAppends /\ IdleCalls
             /\ \A c \in Client : CallOK(c)
  BY ZenonT(30) DEF Inv, AnswerInv, RerunInv, M!IInv
<1>2. Inv => RewritesWereUndone
  BY <1>1, UndoneBetween, ZenonT(30)
<1> QED
  BY <1>2, AllInvariants, PTL

(***************************************************************************)
(* No call is refused for a record of its own: when a refusal is returned, *)
(* and ever after, the last record of the key, if there is one, was not    *)
(* written by the call (the comparisons of lastWriteUUID in fdb_write.go). *)
(***************************************************************************)
THEOREM RefusedWereAlwaysOvertaken == Spec => []RefusedWasOvertaken
<1>1. Inv => RefusedWasOvertaken
  BY ZenonT(30) DEF Inv, RerunInv, CallOK, RefusedWasOvertaken
<1> QED
  BY <1>1, AllInvariants, PTL

(***************************************************************************)
(* What Mvcc proves of compaction holds of the subspaces: the records that *)
(* are left give the same live keys as the whole history.                  *)
(***************************************************************************)
THEOREM StoreCompactionIsInvisible == Spec => []M!CompactionInvisible
<1>1. MP!IInv => MP!CompactionInvisible
  BY MP!IInvInvisible, MaxVersionAssumption
<1>2. MP!CompactionInvisible <=> M!CompactionInvisible
  BY DEF M!CompactionInvisible, MP!CompactionInvisible, M!View, MP!View,
         M!Newest, MP!Newest
<1>3. Inv => M!CompactionInvisible
  BY <1>1, <1>2, SameIInv DEF Inv
<1> QED
  BY <1>3, AllInvariants, PTL
=============================================================================
