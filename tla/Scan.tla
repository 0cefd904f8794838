-------------------------------- MODULE Scan --------------------------------
(***************************************************************************)
(* The scan of byKeyAndRevision that List, Get, Count and the TTL feed     *)
(* share: recordCollector (fdb_read.go) over processRange (fdb_util.go).   *)
(* A scan takes one or more batches, each of them one transaction, and     *)
(* resumes behind the last entry it has read.  The entries are ordered by  *)
(* key, and by revision within a key; what a batch reads is a prefix of    *)
(* what lies ahead, so sets of records stand for it.                       *)
(*                                                                         *)
(* A request rq has the keys in range, limit and maxRevision (0 for none). *)
(* A collector c has the last entry read and currentRecord, each as a set  *)
(* of at most one record, firstRev, and the number of records its inner    *)
(* collector holds.                                                        *)
(***************************************************************************)
EXTENDS Naturals, FiniteSets

NewRecordCollector ==
    [at |-> {}, currentRecord |-> {}, firstRev |-> 0, count |-> 0]

Before(r, s) == r.key < s.key \/ (r.key = s.key /\ r.rev < s.rev)

Ahead(S, rq, c) == {r \in S : r.key \in rq.keys /\ \A s \in c.at : Before(s, r)}

(***************************************************************************)
(* The window of recordCollector.next: nothing above the requested         *)
(* revision, and nothing newer than the first batch.                       *)
(***************************************************************************)
Visible(rq, c, r) ==
    /\ rq.maxRevision = 0 \/ r.rev <= rq.maxRevision
    /\ c.firstRev = 0 \/ r.rev <= c.firstRev

(***************************************************************************)
(* Definitions named X_... are mutants.  Here: a batch forgets the record  *)
(* the one before it was looking at.                                       *)
(***************************************************************************)
Candidate_NoCarry(rq, c, R, k) ==
    LET seen == {r \in R : r.key = k /\ Visible(rq, c, r)}
    IN  {r \in seen : \A s \in seen : s.rev <= r.rev}

(***************************************************************************)
(* batchCurrentRecord for key k once the entries R have been read: the     *)
(* newest one in the window.                                               *)
(***************************************************************************)
Candidate(rq, c, R, k) ==
    LET seen == {r \in c.currentRecord \cup R : r.key = k /\ Visible(rq, c, r)}
    IN  {r \in seen : \A s \in seen : s.rev <= r.rev}

LatestForKey_Always(c, R, r) == TRUE

(***************************************************************************)
(* LatestForKey: no newer entry of the key has been read, in the window or *)
(* out of it.                                                              *)
(***************************************************************************)
LatestForKey(c, R, r) == \A s \in c.at \cup R : s.key = r.key => s.rev <= r.rev

(***************************************************************************)
(* What the inner collector is given for the keys K: a live candidate.     *)
(***************************************************************************)
Given(rq, c, R, K) ==
    {[rec |-> r, latest |-> LatestForKey(c, R, r)] :
        r \in {s \in UNION {Candidate(rq, c, R, k) : k \in K} : ~s.isDelete}}

(***************************************************************************)
(* The entries A up to and including last.  A key is given when the first  *)
(* entry of the next one is read, and needMore compares the limit then.    *)
(***************************************************************************)
UpTo(A, last) == {r \in A : ~Before(last, r)}

NeedMore(rq, c, A, last) ==
    \/ rq.limit = 0
    \/ c.count + Cardinality(Given(rq, c, UpTo(A, last), rq.keys \ {last.key}))
         < rq.limit

(***************************************************************************)
(* Where a batch may stop: at an entry that reaches the limit, at any      *)
(* entry before it when the time is up, or at the end of the range.  The   *)
(* batch is the last one unless it was split.                              *)
(***************************************************************************)
Reads(rq, c, A) ==
    LET Stop == {l \in A : \A r \in A : Before(r, l) => NeedMore(rq, c, A, r)}
    IN  {[read |-> UpTo(A, l), isLast |-> ~NeedMore(rq, c, A, l)] : l \in Stop}
          \cup (IF \A r \in A : NeedMore(rq, c, A, r)
                   THEN {[read |-> A, isLast |-> TRUE]} ELSE {})

LastOf(R) == {r \in R : \A s \in R : ~Before(r, s)}

(***************************************************************************)
(* What a batch of read version n that has read b gives, and the collector *)
(* after it.  The last batch also gives the record it is looking at        *)
(* (recordCollector.endBatch), with the limit reached or not; a split one  *)
(* carries it over (postBatch).                                            *)
(***************************************************************************)
EndBatch(rq, c, n, b) ==
    LET at == IF b.read = {} THEN c.at ELSE LastOf(b.read)
        passed == rq.keys \ {r.key : r \in at}
        given == Given(rq, c, b.read, IF b.isLast THEN rq.keys ELSE passed)
    IN  [given |-> given,
         isLast |-> b.isLast,
         next |-> [at |-> at,
                   currentRecord |->
                      UNION {Candidate(rq, c, b.read, r.key) : r \in at},
                   firstRev |-> IF c.firstRev = 0 THEN n ELSE c.firstRev,
                   count |-> c.count + Cardinality(given)]]

(***************************************************************************)
(* What one batch over the index S can do.                                 *)
(***************************************************************************)
Batches(S, rq, c, n) ==
    {EndBatch(rq, c, n, b) : b \in Reads(rq, c, Ahead(S, rq, c))}
=============================================================================
