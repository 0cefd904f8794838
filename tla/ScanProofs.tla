----------------------------- MODULE ScanProofs -----------------------------
(***************************************************************************)
(* What the batches of a scan (module Scan) find: facts about its          *)
(* operators, for the components that scan (List, Ttl, Count).             *)
(***************************************************************************)
EXTENDS Scan, TLAPS, FiniteSetTheorems, WellFoundedInduction

(***************************************************************************)
(* The obligations are small but many: allow for the time they wait.       *)
(***************************************************************************)
USE ZenonT(10), SMTT(20), Z3T(20)

(***************************************************************************)
(* The order of the numbers, for leaves that need nothing else of them.    *)
(***************************************************************************)
LEMMA NatOrder ==
    /\ 0 \in Nat
    /\ \A n \in Nat : n <= n /\ (n > 0 <=> n # 0)
    /\ \A m, n \in Nat : /\ m <= n \/ m > n
                         /\ ~(m <= n /\ m > n)
                         /\ m <= n /\ n <= m => m = n
                         /\ m < n <=> n > m
OBVIOUS

LEMMA SumExceeds ==
    \A c, g, n, p \in Nat : c + g >= p =>
       /\ g <= n => c + n >= p
       /\ g < n => c + n > p
OBVIOUS

(***************************************************************************)
(* A nonempty set of numbers up to n has a greatest element.               *)
(***************************************************************************)
LEMMA GreatestExists ==
    ASSUME NEW n \in Nat, NEW T \in SUBSET Nat, \A x \in T : x <= n, T # {}
    PROVE  \E m \in T : \A x \in T : x <= m
<1> DEFINE R == OpToRel(<, Nat)
           D == {d \in Nat : \E x \in T : d + x = n}
<1>1. IsWellFoundedOn(R, Nat)
  BY NatLessThanWellFounded, Zenon
<1>2. D \subseteq Nat /\ D # {}
  <2>1. PICK x \in T : TRUE
    BY Zenon
  <2>2. n - x \in D
    BY <2>1
  <2> QED
    BY <2>2, Zenon
<1>3. PICK d \in D : \A e \in D : ~(<<e, d>> \in R)
  <2> HIDE DEF R, D
  <2> QED BY <1>1, <1>2, WFMin, Zenon
<1>4. \A e \in D : ~(e < d)
  BY <1>3, Zenon DEF OpToRel
<1>5. PICK m \in T : d + m = n
  OBVIOUS
<1>6. ASSUME NEW x \in T
      PROVE  x <= m
  <2>1. n - x \in D
    BY <1>6
  <2>2. ~(n - x < d)
    BY <2>1, <1>4
  <2> QED
    BY <2>2, <1>5
<1> QED
  BY <1>6

(***************************************************************************)
(* So one of the records of a store is the newest.                         *)
(***************************************************************************)
LEMMA NewestIn ==
    ASSUME NEW S, NEW n \in Nat, \A s \in S : s.rev \in Nat /\ s.rev <= n,
           NEW r \in S
    PROVE  \E m \in S : \A s \in S : s.rev <= m.rev
<1> DEFINE T == {s.rev : s \in S}
<1>1. T \in SUBSET Nat /\ T # {} /\ \A x \in T : x <= n
  OBVIOUS
<1>2. PICK g \in T : \A x \in T : x <= g
  <2> HIDE DEF T
  <2> QED BY <1>1, GreatestExists, Zenon
<1> QED
  BY <1>2

-----------------------------------------------------------------------------
(***************************************************************************)
(* What a scan finds (module Scan), in a store that clients write to and   *)
(* Compact calls thin between its batches.  What is assumed of the store:  *)
(***************************************************************************)
IndexOK(n, H, I) ==
    /\ n \in Nat
    /\ I \subseteq H
    /\ \A h \in H : /\ h.rev \in Nat /\ 0 < h.rev /\ h.rev <= n
                          /\ h.key \in Nat
    /\ \A g, h \in H : g.rev = h.rev => g = h

RequestOK(rq) ==
    rq.keys \subseteq Nat /\ rq.limit \in Nat /\ rq.maxRevision \in Nat

(***************************************************************************)
(* The window of a scan whose first batch read version f.                  *)
(***************************************************************************)
InWindow(rq, f, r) ==
    (rq.maxRevision = 0 \/ r.rev <= rq.maxRevision) /\ r.rev <= f

(***************************************************************************)
(* The scan has read all entries of key k.                                 *)
(***************************************************************************)
Passed(c, k) == c.at # {} /\ \A a \in c.at : k < a.key

(***************************************************************************)
(* The invariant of a scan between its batches.  The record carried over   *)
(* is the newest in the window of the entries of its key that have been    *)
(* read and are still there.                                               *)
(***************************************************************************)
Scanning(n, H, I, rq, c) ==
    /\ c.at \subseteq H /\ c.currentRecord \subseteq H
    /\ c.count \in Nat /\ c.firstRev \in Nat /\ c.firstRev <= n
    /\ c.at = {} => c.currentRecord = {} /\ c.firstRev = 0
    /\ c.at # {} => c.firstRev # 0
    /\ \A a \in c.at : a.key \in rq.keys
    /\ \A a, b \in c.at : a = b
    /\ \A q \in c.currentRecord :
          InWindow(rq, c.firstRev, q) /\ \A a \in c.at : q.key = a.key
    /\ \A a \in c.at, r \in I :
          r.key = a.key /\ r.rev <= a.rev /\ InWindow(rq, c.firstRev, r)
             => \E q \in c.currentRecord : r.rev <= q.rev

(***************************************************************************)
(* The store changes: records come with new revisions, and others go.      *)
(***************************************************************************)
Evolves(n, H, I, m, L, J) ==
    /\ m \in Nat /\ n <= m
    /\ H \subseteq L
    /\ \A h \in L : h \in H \/ (h.rev \in Nat /\ h.rev > n)
    /\ \A r \in J : r \in I \/ (r.rev \in Nat /\ r.rev > n)

(***************************************************************************)
(* The steps of the store do not disturb a scan.                           *)
(***************************************************************************)
LEMMA StillScanning ==
    ASSUME NEW n, NEW H, NEW I, IndexOK(n, H, I),
           NEW m, NEW L, NEW J, Evolves(n, H, I, m, L, J),
           NEW rq, NEW c, RequestOK(rq), Scanning(n, H, I, rq, c)
    PROVE  Scanning(m, L, J, rq, c)
<1>1. /\ n \in Nat /\ c.at \subseteq H
      /\ \A h \in H : h.rev \in Nat /\ h.rev <= n
      /\ \A r \in J : r \in I \/ (r.rev \in Nat /\ r.rev > n)
  BY DEF IndexOK, Evolves, Scanning
<1>2. ASSUME NEW a \in c.at, NEW r \in J, r.key = a.key, r.rev <= a.rev,
             InWindow(rq, c.firstRev, r)
      PROVE  \E q \in c.currentRecord : r.rev <= q.rev
  <2>1. r \in I
    BY <1>1, <1>2
  <2> QED
    BY <1>2, <2>1, Zenon DEF Scanning
<1>3. c.at \subseteq L /\ c.currentRecord \subseteq L /\ c.firstRev <= m
  BY DEF Scanning, Evolves, IndexOK
<1> QED
  BY <1>2, <1>3, Zenon DEF Scanning

-----------------------------------------------------------------------------
(***************************************************************************)
(* The window of a batch: the collector takes the version of the first     *)
(* one, and nothing the store holds then is newer.                         *)
(***************************************************************************)
Window(n, c) == IF c.firstRev = 0 THEN n ELSE c.firstRev

LEMMA VisibleIsInWindow ==
    ASSUME NEW n, NEW H, NEW I, IndexOK(n, H, I),
           NEW rq, NEW c, c.firstRev \in Nat, NEW r \in H
    PROVE  Visible(rq, c, r) <=> InWindow(rq, Window(n, c), r)
BY DEF IndexOK, Visible, InWindow, Window

(***************************************************************************)
(* The records that are given for the keys K once R has been read.         *)
(***************************************************************************)
Chosen(rq, c, R, K) ==
    {s \in c.currentRecord \cup R :
       /\ s.key \in K /\ Visible(rq, c, s) /\ ~s.isDelete
       /\ \A t \in c.currentRecord \cup R :
             t.key = s.key /\ Visible(rq, c, t) => t.rev <= s.rev}

LEMMA GivenAreChosen ==
    ASSUME NEW rq, NEW c, NEW R, NEW K
    PROVE  Given(rq, c, R, K) =
             {[rec |-> r, latest |-> LatestForKey(c, R, r)] :
                r \in Chosen(rq, c, R, K)}
<1>1. {s \in UNION {Candidate(rq, c, R, k) : k \in K} : ~s.isDelete}
        = Chosen(rq, c, R, K)
  <2>1. ASSUME NEW s PROVE s \in UNION {Candidate(rq, c, R, k) : k \in K}
                             <=> \E k \in K : s \in Candidate(rq, c, R, k)
    OBVIOUS
  <2>2. ASSUME NEW s, NEW k
        PROVE  s \in Candidate(rq, c, R, k) <=>
                 /\ s \in c.currentRecord \cup R /\ s.key = k /\ Visible(rq, c, s)
                 /\ \A t \in c.currentRecord \cup R :
                       t.key = k /\ Visible(rq, c, t) => t.rev <= s.rev
    BY DEF Candidate
  <2> QED
    BY <2>1, <2>2 DEF Chosen
<1> QED
  BY <1>1 DEF Given

LEMMA GivenRecords ==
    ASSUME NEW rq, NEW c, NEW R, NEW K, NEW g \in Given(rq, c, R, K)
    PROVE  g.rec \in Chosen(rq, c, R, K)
  BY GivenAreChosen

(***************************************************************************)
(* Where a batch stops.                                                    *)
(***************************************************************************)
LEMMA ReadsCases ==
    ASSUME NEW rq, NEW c, NEW A, NEW x \in Reads(rq, c, A)
    PROVE  \/ \E l \in A : x = [read |-> UpTo(A, l),
                                isLast |-> ~NeedMore(rq, c, A, l)]
           \/ x = [read |-> A, isLast |-> TRUE]
BY DEF Reads

(***************************************************************************)
(* The last entry of what has been read.                                   *)
(***************************************************************************)
LEMMA LastOfUpTo ==
    ASSUME NEW n, NEW H, NEW I, IndexOK(n, H, I),
           NEW A \in SUBSET I, NEW l \in A
    PROVE  LastOf(UpTo(A, l)) = {l}
<1>1. \A a \in A : a \in H /\ a.key \in Nat /\ a.rev \in Nat
  BY DEF IndexOK
<1>2. \A a, b \in A : a.rev = b.rev => a = b
  BY <1>1 DEF IndexOK
<1>3. l \in UpTo(A, l)
  BY <1>1 DEF UpTo, Before
<1>4. \A r \in UpTo(A, l) : ~Before(l, r)
  BY DEF UpTo
<1>5. ASSUME NEW r \in UpTo(A, l), ~Before(r, l)
      PROVE  r = l
  <2>1. r \in A /\ ~Before(l, r)
    BY DEF UpTo
  <2>2. r.key = l.key /\ r.rev = l.rev
    BY <1>1, <1>5, <2>1 DEF Before
  <2> QED
    BY <1>2, <2>1, <2>2
<1> QED
  BY <1>3, <1>4, <1>5 DEF LastOf

LEMMA HistoryFinite ==
    ASSUME NEW n, NEW H, NEW I, IndexOK(n, H, I)
    PROVE  IsFiniteSet(H)
<1> DEFINE f == [h \in H |-> h.rev]
<1>1. f \in Injection(H, 0 .. n)
  <2>1. f \in [H -> 0 .. n]
    BY DEF IndexOK
  <2>2. \A g, h \in H : f[g] = f[h] => g = h
    BY DEF IndexOK
  <2> HIDE DEF f
  <2> QED
    BY <2>1, <2>2 DEF Injection, IsInjective
<1>2. IsFiniteSet(0 .. n)
  BY FS_Interval DEF IndexOK
<1> QED
  BY <1>1, <1>2, FS_Injection

(***************************************************************************)
(* What a batch that begins with collector c gives: D are the keys whose   *)
(* entries have all been read at its end.                                  *)
(***************************************************************************)
Finds(n, H, I, rq, c, b, D) ==
    /\ D \subseteq rq.keys
    /\ \A k \in rq.keys : Passed(c, k) => k \in D
    /\ b.next.firstRev = Window(n, c)
    /\ \A g \in b.given :
          /\ g.rec \in H /\ g.rec.key \in rq.keys /\ ~g.rec.isDelete
          /\ InWindow(rq, Window(n, c), g.rec) /\ ~Passed(c, g.rec.key)
    /\ \A g, e \in b.given : g.rec.key = e.rec.key => g = e
    /\ \A g \in b.given, r \in I :
          /\ r.key = g.rec.key /\ r.key \in D
          /\ g.latest \/ InWindow(rq, Window(n, c), r)
          => r.rev <= g.rec.rev
    /\ \A r \in I :
          /\ r.key \in D /\ ~Passed(c, r.key)
          /\ InWindow(rq, Window(n, c), r) /\ ~r.isDelete
          /\ \A h \in H :
                h.key = r.key /\ InWindow(rq, Window(n, c), h) => h.rev <= r.rev
          => \E g \in b.given : g.rec = r

(***************************************************************************)
(* Where it leaves the scan: between two batches, or at the end of the     *)
(* range, or at a limit.                                                   *)
(***************************************************************************)
Leaves(n, H, I, rq, c, b, D) ==
    /\ b.next.at \subseteq H /\ b.next.currentRecord \subseteq H
    /\ IsFiniteSet(b.given) /\ b.next.count \in Nat
    /\ b.next.count = c.count + Cardinality(b.given)
    /\ ~b.isLast => /\ Scanning(n, H, I, rq, b.next)
                    /\ D = {k \in rq.keys : Passed(b.next, k)}
                    /\ \A g \in b.given : g.rec.key \in D
    /\ b.isLast =>
          \/ D = rq.keys
          \/ /\ rq.limit # 0
             /\ c.count + Cardinality({g \in b.given : g.rec.key \in D}) >= rq.limit
             /\ \E m \in Nat : /\ D = {k \in rq.keys : k < m}
                               /\ \A g \in b.given : g.rec.key <= m

(***************************************************************************)
(* The entries of the keys that are done have been read, in this batch or  *)
(* before it.                                                              *)
(***************************************************************************)
LEMMA BatchFinds ==
    ASSUME NEW n, NEW H, NEW I, IndexOK(n, H, I),
           NEW rq, RequestOK(rq), NEW c, Scanning(n, H, I, rq, c),
           NEW R \in SUBSET Ahead(I, rq, c), NEW K \in SUBSET rq.keys,
           NEW D \in SUBSET rq.keys,
           \A k \in rq.keys : Passed(c, k) => k \in D,
           \A r \in Ahead(I, rq, c) : r.key \in D => r \in R,
           NEW b, b.given = Given(rq, c, R, K), b.next.firstRev = Window(n, c),
           \A r \in R \cup c.currentRecord : r.key \in D => r.key \in K
    PROVE  Finds(n, H, I, rq, c, b, D)
<1>1. /\ R \subseteq I /\ R \subseteq H /\ c.currentRecord \subseteq H
      /\ \A r \in R : r.key \in rq.keys /\ \A a \in c.at : Before(a, r)
  BY DEF Ahead, IndexOK, Scanning
<1>2. \A h \in H : Visible(rq, c, h) <=> InWindow(rq, Window(n, c), h)
  BY VisibleIsInWindow DEF Scanning
<1>3. \A h \in H : h.key \in Nat /\ h.rev \in Nat
  BY DEF IndexOK
<1>4. \A a \in c.at : a \in H /\ c.at = {a}
  BY DEF Scanning
<1>5. ASSUME NEW q \in c.currentRecord
      PROVE  \E a \in c.at : q.key = a.key /\ a.key \in rq.keys
  BY <1>5 DEF Scanning
<1>6. \A h \in H : InWindow(rq, c.firstRev, h) /\ c.at # {} <=> 
                         InWindow(rq, Window(n, c), h) /\ c.at # {}
  BY DEF Scanning, Window
<1>7. ASSUME NEW g \in b.given
      PROVE  /\ g.rec \in Chosen(rq, c, R, K)
             /\ g = [rec |-> g.rec, latest |-> LatestForKey(c, R, g.rec)]
  BY <1>7, GivenAreChosen
<1>8. ASSUME NEW r \in Chosen(rq, c, R, K)
      PROVE  \E g \in b.given : g.rec = r
  <2>1. [rec |-> r, latest |-> LatestForKey(c, R, r)] \in b.given
    BY <1>8, GivenAreChosen
  <2> QED
    BY <2>1
<1>9. ASSUME NEW r \in I, r.key \in D, ~Passed(c, r.key)
      PROVE  r \in R \/ \E a \in c.at : a.key = r.key /\ r.rev <= a.rev
  <2>1. r \in H /\ r.key \in rq.keys
    BY <1>9 DEF IndexOK
  <2>2. CASE r \in Ahead(I, rq, c)
    BY <2>2, <1>9
  <2>3. CASE r \notin Ahead(I, rq, c)
    <3>1. PICK a \in c.at : ~Before(a, r)
      BY <2>1, <2>3 DEF Ahead
    <3>2. ~(r.key < a.key)
      BY <3>1, <1>4, <1>9 DEF Passed
    <3> QED
      BY <3>1, <3>2, <2>1, <1>3, <1>4 DEF Before
  <2> QED
    BY <2>2, <2>3
<1>10. ASSUME NEW g \in b.given
       PROVE  /\ g.rec \in H /\ g.rec.key \in rq.keys /\ ~g.rec.isDelete
              /\ InWindow(rq, Window(n, c), g.rec) /\ ~Passed(c, g.rec.key)
  <2>1. g.rec \in Chosen(rq, c, R, K)
    BY <1>10, <1>7
  <2>2. /\ g.rec \in c.currentRecord \cup R /\ g.rec \in H
        /\ g.rec.key \in rq.keys /\ ~g.rec.isDelete /\ InWindow(rq, Window(n, c), g.rec)
    BY <2>1, <1>1, <1>2 DEF Chosen
  <2>3. CASE g.rec \in c.currentRecord
    <3>1. PICK a \in c.at : g.rec.key = a.key
      BY <2>3, <1>5
    <3> QED
      BY <3>1, <2>2, <1>3, <1>4 DEF Passed
  <2>4. CASE g.rec \in R
    BY <2>4, <2>2, <1>1, <1>3, <1>4 DEF Passed, Before
  <2> QED
    BY <2>2, <2>3, <2>4
<1>11. ASSUME NEW g \in b.given, NEW e \in b.given, g.rec.key = e.rec.key
       PROVE  g = e
  <2>1. g.rec \in Chosen(rq, c, R, K) /\ e.rec \in Chosen(rq, c, R, K)
    BY <1>11, <1>7
  <2>2. g.rec \in H /\ e.rec \in H
    BY <1>11, <1>10
  <2>3. g.rec.rev <= e.rec.rev /\ e.rec.rev <= g.rec.rev
    BY <2>1, <1>11 DEF Chosen
  <2>4. g.rec = e.rec
    BY <2>2, <2>3, <1>3 DEF IndexOK
  <2> QED
    BY <2>4, <1>7, <1>11
<1>12. ASSUME NEW g \in b.given, NEW r \in I,
              r.key = g.rec.key, r.key \in D, g.latest \/ InWindow(rq, Window(n, c), r)
       PROVE  r.rev <= g.rec.rev
  <2>1. /\ g.rec \in Chosen(rq, c, R, K) /\ g.latest = LatestForKey(c, R, g.rec)
        /\ g.rec \in H /\ ~Passed(c, r.key) /\ r \in H
    BY <1>12, <1>7, <1>10 DEF IndexOK
  <2>2. CASE r \in R
    BY <2>1, <2>2, <1>2, <1>12 DEF Chosen, LatestForKey
  <2>3. ASSUME NEW a \in c.at, a.key = r.key, r.rev <= a.rev
        PROVE  r.rev <= g.rec.rev
    <3>1. CASE g.latest
      <4>1. a.rev <= g.rec.rev
        BY <3>1, <2>1, <2>3, <1>12, Zenon DEF LatestForKey
      <4> QED
        BY <4>1, <2>1, <2>3, <1>3, <1>4
    <3>2. CASE InWindow(rq, Window(n, c), r)
      <4>1. PICK q \in c.currentRecord : r.rev <= q.rev
        BY <3>2, <2>1, <2>3, <1>6 DEF Scanning
      <4>2. q.key = r.key /\ Visible(rq, c, q) /\ q \in H
        BY <1>1, <1>2, <1>6, <2>3 DEF Scanning
      <4>3. q.rev <= g.rec.rev
        BY <4>2, <2>1, <1>12 DEF Chosen
      <4> QED
        BY <4>1, <4>2, <4>3, <2>1, <1>3
    <3> QED
      BY <3>1, <3>2, <1>12
  <2> QED
    BY <2>1, <2>2, <2>3, <1>9, <1>12
<1>13. ASSUME NEW r \in I, r.key \in D, ~Passed(c, r.key),
              InWindow(rq, Window(n, c), r), ~r.isDelete,
              \A h \in H :
                 h.key = r.key /\ InWindow(rq, Window(n, c), h) => h.rev <= r.rev
       PROVE  \E g \in b.given : g.rec = r
  <2>1. r \in H
    BY DEF IndexOK
  <2>2. r \in R \/ r \in c.currentRecord
    <3>1. ASSUME NEW a \in c.at, a.key = r.key, r.rev <= a.rev
          PROVE  r \in c.currentRecord
      <4>1. PICK q \in c.currentRecord : r.rev <= q.rev
        BY <3>1, <2>1, <1>6, <1>13 DEF Scanning
      <4>2. q.key = r.key /\ InWindow(rq, Window(n, c), q) /\ q \in H
        BY <1>1, <1>2, <1>6, <3>1 DEF Scanning
      <4>3. q.rev <= r.rev
        BY <4>2, <1>13
      <4> QED
        BY <4>1, <4>2, <4>3, <2>1, <1>3 DEF IndexOK
    <3> QED
      BY <3>1, <1>9, <1>13
  <2>3. r \in Chosen(rq, c, R, K)
    BY <2>1, <2>2, <1>1, <1>2, <1>13 DEF Chosen
  <2> QED
    BY <2>3, <1>8
<1> QED
  BY <1>10, <1>11, <1>12, <1>13 DEF Finds

(***************************************************************************)
(* Things that name a record each are finitely many, and as many as the    *)
(* records.                                                                *)
(***************************************************************************)
Names(H, G) ==
    /\ \A g \in G : g.rec \in H
    /\ \A g, e \in G : g.rec = e.rec => g = e

LEMMA NamedRecords ==
    ASSUME NEW H, IsFiniteSet(H), NEW G, Names(H, G)
    PROVE  /\ IsFiniteSet(G) /\ IsFiniteSet({g.rec : g \in G})
           /\ Cardinality(G) = Cardinality({g.rec : g \in G})
           /\ Cardinality(G) \in Nat
<1> USE DEF Names
<1> DEFINE f == [g \in G |-> g.rec]
           T == {g.rec : g \in G}
<1>1. f \in [G -> T] /\ \A g, e \in G : f[g] = f[e] => g = e
  OBVIOUS
<1>2. f \in Injection(G, T)
  <2> HIDE DEF f, T
  <2> QED BY <1>1 DEF Injection, IsInjective
<1>3. f \in Surjection(G, T)
  <2>1. \A t \in T : \E g \in G : f[g] = t
    OBVIOUS
  <2> HIDE DEF f, T
  <2> QED BY <1>1, <2>1 DEF Surjection
<1>4. T \subseteq H
  OBVIOUS
<1> HIDE DEF f, T
<1>5. IsFiniteSet(T)
  BY <1>4, FS_Subset
<1>6. IsFiniteSet(G) /\ Cardinality(G) = Cardinality(T)
  BY <1>2, <1>3, <1>5, FS_Injection
<1>7. Cardinality(G) \in Nat
  BY <1>6, FS_CardinalityType
<1> QED
  BY <1>5, <1>6, <1>7 DEF T

(***************************************************************************)
(* N is added to X, one thing for each of G.                               *)
(***************************************************************************)
Mirrors(N, G) ==
    /\ \A x \in N : \E g \in G : g.rec = x.rec
    /\ \A g \in G : \E x \in N : x.rec = g.rec

Apart(X, G) == \A x \in X, g \in G : x.rec # g.rec

Joins(H, X, N, G) ==
    /\ IsFiniteSet(H) /\ Names(H, X) /\ Names(H, N) /\ Names(H, G)
    /\ Mirrors(N, G) /\ Apart(X, G)

LEMMA JoinedRecords ==
    ASSUME NEW H, NEW X, NEW N, NEW G, Joins(H, X, N, G)
    PROVE  /\ IsFiniteSet(X \cup N)
           /\ Cardinality(X \cup N) = Cardinality(X) + Cardinality(G)
<1>1. /\ IsFiniteSet(H) /\ Names(H, X) /\ Names(H, N) /\ Names(H, G)
      /\ Mirrors(N, G) /\ Apart(X, G)
  BY DEF Joins
<1>2. {x.rec : x \in N} = {g.rec : g \in G}
  <2>1. \A x \in N : x.rec \in {g.rec : g \in G}
    BY <1>1 DEF Mirrors
  <2>2. \A g \in G : g.rec \in {x.rec : x \in N}
    BY <1>1 DEF Mirrors
  <2> QED
    BY <2>1, <2>2
<1>3. IsFiniteSet(X) /\ Cardinality(X) \in Nat
  BY <1>1, NamedRecords, Zenon
<1>4. IsFiniteSet(N) /\ Cardinality(N) = Cardinality({x.rec : x \in N})
      /\ Cardinality(N) \in Nat
  BY <1>1, NamedRecords
<1>5. Cardinality(G) = Cardinality({g.rec : g \in G})
  BY <1>1, NamedRecords, Zenon
<1>6. X \cap N = {}
  BY <1>1 DEF Mirrors, Apart
<1>7. /\ IsFiniteSet(X \cup N)
      /\ Cardinality(X \cup N) = Cardinality(X) + Cardinality(N) - Cardinality({})
  BY <1>3, <1>4, <1>6, FS_Union
<1>8. Cardinality({}) = 0
  BY FS_EmptySet
<1>9. Cardinality(N) = Cardinality(G)
  BY <1>2, <1>4, <1>5
<1> QED
  BY <1>3, <1>4, <1>7, <1>8, <1>9

(***************************************************************************)
(* The record that a batch carries over when it is split at entry l.       *)
(***************************************************************************)
LEMMA SplitCarries ==
    ASSUME NEW n, NEW H, NEW I, IndexOK(n, H, I),
           NEW rq, RequestOK(rq), NEW c, Scanning(n, H, I, rq, c),
           NEW l \in Ahead(I, rq, c),
           NEW r \in I, r.key = l.key, r.rev <= l.rev,
           InWindow(rq, Window(n, c), r)
    PROVE  \E q \in Candidate(rq, c, UpTo(Ahead(I, rq, c), l), l.key) :
              r.rev <= q.rev
<1> DEFINE A == Ahead(I, rq, c)
           seen == {s \in c.currentRecord \cup UpTo(A, l) :
                      s.key = l.key /\ Visible(rq, c, s)}
<1>1. \A h \in H : Visible(rq, c, h) <=> InWindow(rq, Window(n, c), h)
  BY VisibleIsInWindow DEF Scanning
<1>2. \A h \in H : h.key \in Nat /\ h.rev \in Nat /\ h.rev <= n
  BY DEF IndexOK
<1>3. l \in H /\ r \in H /\ l.key \in rq.keys
  BY DEF IndexOK, Ahead
<1>4. seen \subseteq H
  BY DEF UpTo, Ahead, IndexOK, Scanning
<1>5. \E s \in seen : r.rev <= s.rev
  <2>1. CASE r \in A
    <3>1. ~Before(l, r)
      BY <1>2, <1>3 DEF Before
    <3> QED
      BY <2>1, <3>1, <1>1, <1>2, <1>3 DEF UpTo
  <2>2. CASE r \notin A
    <3>1. PICK a \in c.at : ~Before(a, r)
      BY <2>2, <1>3 DEF Ahead
    <3>2. Before(a, l) /\ a \in H
      BY <3>1 DEF Ahead, Scanning
    <3>3. a.key = r.key /\ r.rev <= a.rev
      BY <3>1, <3>2, <1>2, <1>3 DEF Before
    <3>4. c.firstRev = Window(n, c)
      BY <3>1 DEF Scanning, Window
    <3>5. PICK q \in c.currentRecord : r.rev <= q.rev
      BY <3>1, <3>3, <3>4 DEF Scanning
    <3>6. q.key = l.key /\ InWindow(rq, Window(n, c), q) /\ q \in H
      BY <3>1, <3>3, <3>4 DEF Scanning
    <3> QED
      BY <3>5, <3>6, <1>1
  <2> QED
    BY <2>1, <2>2
<1>6. PICK s \in seen : r.rev <= s.rev
  BY <1>5
<1>7. PICK m \in seen : \A t \in seen : t.rev <= m.rev
  <2>1. \A t \in seen : t.rev \in Nat /\ t.rev <= n
    BY <1>2, <1>4
  <2>2. n \in Nat
    BY DEF IndexOK
  <2> HIDE DEF seen
  <2> QED
    BY <2>1, <2>2, NewestIn
<1>8. \A t \in seen : t.rev <= m.rev
  BY <1>7
<1>9. m \in Candidate(rq, c, UpTo(A, l), l.key)
  BY <1>8 DEF Candidate
<1>10. r.rev <= m.rev
  <2>1. s.rev \in Nat /\ m.rev \in Nat /\ r.rev \in Nat
    BY <1>2, <1>3, <1>4
  <2> QED
    BY <2>1, <1>6, <1>8
<1> QED
  BY <1>9, <1>10

(***************************************************************************)
(* One batch of a scan, wherever it stops (processRange with the limit and *)
(* the split, recordCollector.next and endBatch).                          *)
(***************************************************************************)
THEOREM BatchOfScan ==
    ASSUME NEW n, NEW H, NEW I, IndexOK(n, H, I),
           NEW rq, RequestOK(rq), NEW c, Scanning(n, H, I, rq, c),
           NEW b \in Batches(I, rq, c, n)
    PROVE  \E D : Finds(n, H, I, rq, c, b, D) /\ Leaves(n, H, I, rq, c, b, D)
<1> DEFINE A == Ahead(I, rq, c)
<1>1. PICK x \in Reads(rq, c, A) : b = EndBatch(rq, c, n, x)
  BY DEF Batches
<1>2. /\ b.isLast = x.isLast
      /\ b.given = Given(rq, c, x.read,
                         IF x.isLast THEN rq.keys
                         ELSE rq.keys \ {r.key : r \in b.next.at})
      /\ b.next.at = IF x.read = {} THEN c.at ELSE LastOf(x.read)
      /\ b.next.currentRecord =
           UNION {Candidate(rq, c, x.read, r.key) : r \in b.next.at}
      /\ b.next.firstRev = Window(n, c)
      /\ b.next.count = c.count + Cardinality(b.given)
  BY <1>1, Zenon DEF EndBatch, Window
<1>3. A \in SUBSET I /\ A \subseteq H
  BY DEF Ahead, IndexOK
<1>4. \A h \in H : h.key \in Nat /\ h.rev \in Nat /\ h.rev <= n
  BY DEF IndexOK
<1>5. ASSUME NEW D, Finds(n, H, I, rq, c, b, D)
      PROVE  /\ IsFiniteSet(b.given) /\ Cardinality(b.given) \in Nat
             /\ b.next.count \in Nat
  <2>1. Names(H, b.given)
    BY <1>5 DEF Finds, Names
  <2>3. IsFiniteSet(b.given) /\ Cardinality(b.given) \in Nat
    BY <2>1, HistoryFinite, NamedRecords, Zenon
  <2>4. c.count \in Nat
    BY DEF Scanning
  <2>5. b.next.count = c.count + Cardinality(b.given)
    BY <1>2, Zenon
  <2> QED
    BY <2>3, <2>4, <2>5
<1>6. b.next.at \subseteq H /\ b.next.currentRecord \subseteq H
  <2>1. x.read \subseteq A
    BY ReadsCases DEF UpTo
  <2>2. c.at \subseteq H /\ c.currentRecord \subseteq H
    BY DEF Scanning
  <2>3. LastOf(x.read) \subseteq x.read
    BY DEF LastOf
  <2>4. \A k : Candidate(rq, c, x.read, k) \subseteq c.currentRecord \cup x.read
    BY DEF Candidate
  <2>5. b.next.at \subseteq H
    BY <1>2, <1>3, <2>1, <2>2, <2>3
  <2>6. b.next.currentRecord \subseteq H
    BY <1>2, <1>3, <2>1, <2>2, <2>4
  <2> QED
    BY <2>5, <2>6
<1>7. CASE x = [read |-> A, isLast |-> TRUE]
  <2>1. x.read = A /\ x.isLast = TRUE
    BY <1>7
  <2>2. b.given = Given(rq, c, A, rq.keys)
    BY <1>2, <2>1
  <2>3. \A r \in A \cup c.currentRecord : r.key \in rq.keys => r.key \in rq.keys
    OBVIOUS
  <2>4. Finds(n, H, I, rq, c, b, rq.keys)
    BY <1>2, <2>2, <2>3, BatchFinds
  <2>5. Leaves(n, H, I, rq, c, b, rq.keys)
    BY <1>2, <1>5, <1>6, <2>1, <2>4, Zenon DEF Leaves
  <2> QED
    BY <2>4, <2>5
<1>8. ASSUME NEW l \in A, x = [read |-> UpTo(A, l), isLast |-> ~NeedMore(rq, c, A, l)]
      PROVE  \E D : Finds(n, H, I, rq, c, b, D) /\ Leaves(n, H, I, rq, c, b, D)
  <2> DEFINE D == {k \in rq.keys : k < l.key}
             R == UpTo(A, l)
             K == IF x.isLast THEN rq.keys ELSE rq.keys \ {l.key}
  <2>1. x.read = R /\ x.isLast = ~NeedMore(rq, c, A, l)
    BY <1>8
  <2>2. l \in R /\ LastOf(R) = {l} /\ R \in SUBSET A
    BY <1>3, <1>4, LastOfUpTo DEF UpTo, Before
  <2>3. b.next.at = {l}
    BY <1>2, <2>1, <2>2
  <2>4. b.given = Given(rq, c, R, K)
    BY <1>2, <2>1, <2>3, Zenon
  <2>5. l \in H /\ l.key \in rq.keys /\ \A a \in c.at : Before(a, l) /\ a \in H
    BY <1>3, <1>8 DEF Ahead, Scanning
  <2>6. \A r \in R \cup c.currentRecord : r.key <= l.key /\ r \in H /\ r.key \in rq.keys
    <3>1. ASSUME NEW r \in R PROVE r.key <= l.key /\ r \in H /\ r.key \in rq.keys
      BY <3>1, <1>3, <1>4, <2>2, <2>5 DEF UpTo, Before, Ahead
    <3>2. ASSUME NEW q \in c.currentRecord
          PROVE  q.key <= l.key /\ q \in H /\ q.key \in rq.keys
      <4>1. q \in H /\ \E a \in c.at : q.key = a.key /\ a.key \in rq.keys
        BY <3>2 DEF Scanning
      <4> QED
        BY <4>1, <1>4, <2>5 DEF Before
    <3> QED
      BY <3>1, <3>2
  <2>7. \A k \in rq.keys : Passed(c, k) => k \in D
    BY <1>4, <2>5 DEF Passed, Before, RequestOK
  <2>8. \A r \in A : r.key \in D => r \in R
    BY <1>3, <1>4, <2>5 DEF UpTo, Before
  <2>9. \A r \in R \cup c.currentRecord : r.key \in D => r.key \in K
    BY <1>4, <2>5, <2>6
  <2>10. D \in SUBSET rq.keys /\ K \in SUBSET rq.keys
    OBVIOUS
  <2>11. Finds(n, H, I, rq, c, b, D)
    <3> HIDE DEF D, K, R
    <3> QED
      BY <1>2, <2>2, <2>4, <2>7, <2>8, <2>9, <2>10, BatchFinds
  <2>12. \A g \in b.given : g.rec \in Chosen(rq, c, R, K)
    <3> HIDE DEF R, K
    <3> QED BY <2>4, GivenRecords, Zenon
  <2>13. \A g \in b.given : g.rec.key <= l.key /\ g.rec.key \in K /\ g.rec.key \in rq.keys
    BY <2>6, <2>12 DEF Chosen
  <2>14. ASSUME ~b.isLast
         PROVE  /\ Scanning(n, H, I, rq, b.next)
                /\ D = {k \in rq.keys : Passed(b.next, k)}
                /\ \A g \in b.given : g.rec.key \in D
    <3>1. b.next.currentRecord = Candidate(rq, c, R, l.key)
      BY <1>2, <2>1, <2>3
    <3>2. ASSUME NEW q \in b.next.currentRecord
          PROVE  q \in H /\ q.key = l.key /\ InWindow(rq, Window(n, c), q)
      <4>1. q \in c.currentRecord \cup R /\ q.key = l.key /\ Visible(rq, c, q)
        BY <3>1, <3>2 DEF Candidate
      <4> QED
        BY <4>1, <2>6, VisibleIsInWindow DEF Scanning
    <3>3. Window(n, c) \in Nat /\ Window(n, c) <= n /\ Window(n, c) # 0
      BY <2>5 DEF Window, Scanning, IndexOK
    <3>4. \A r \in I :
             r.key = l.key /\ r.rev <= l.rev /\ InWindow(rq, Window(n, c), r)
                => \E q \in b.next.currentRecord : r.rev <= q.rev
      BY <3>1, SplitCarries
    <3>5. Scanning(n, H, I, rq, b.next)
      <4>1. b.next.count \in Nat /\ b.next.firstRev = Window(n, c)
        BY <1>2, <1>5, <2>11
      <4> QED
        BY <4>1, <2>3, <2>5, <3>2, <3>3, <3>4 DEF Scanning
    <3>6. D = {k \in rq.keys : Passed(b.next, k)}
      BY <2>3 DEF Passed
    <3>7. \A g \in b.given : g.rec.key \in D
      <4>1. K = rq.keys \ {l.key}
        BY <1>2, <2>14
      <4>2. l.key \in Nat /\ \A g \in b.given : g.rec.key \in Nat
        BY <2>5, <2>13 DEF RequestOK
      <4> QED
        BY <4>1, <4>2, <2>13
    <3> QED
      BY <3>5, <3>6, <3>7
  <2>15. ASSUME b.isLast
         PROVE  /\ rq.limit # 0
                /\ c.count + Cardinality({g \in b.given : g.rec.key \in D}) >= rq.limit
                /\ \E m \in Nat : /\ D = {k \in rq.keys : k < m}
                                  /\ \A g \in b.given : g.rec.key <= m
    <3> DEFINE full == Given(rq, c, R, rq.keys \ {l.key})
    <3>1. rq.limit # 0 /\ ~(c.count + Cardinality(full) < rq.limit)
      BY <1>2, <2>1, <2>15, Zenon DEF NeedMore
    <3>2. b.given = Given(rq, c, R, rq.keys)
      BY <1>2, <2>1, <2>4, <2>15
    <3>3. Chosen(rq, c, R, rq.keys \ {l.key}) =
            {r \in Chosen(rq, c, R, rq.keys) : r.key \in D}
      <4>1. \A r \in Chosen(rq, c, R, rq.keys) :
               r.key \in rq.keys /\ r.key <= l.key /\ r.key \in Nat /\ l.key \in Nat
        BY <1>4, <2>5, <2>6 DEF Chosen
      <4>2. \A r : r \in Chosen(rq, c, R, rq.keys \ {l.key}) <=>
                     r \in Chosen(rq, c, R, rq.keys) /\ r.key # l.key
        BY DEF Chosen
      <4>3. \A r \in Chosen(rq, c, R, rq.keys) : r.key # l.key <=> r.key \in D
        BY <4>1
      <4> QED
        BY <4>2, <4>3
    <3>4. full = {g \in b.given : g.rec.key \in D}
      <4> HIDE DEF R, D
      <4>1. full = {[rec |-> r, latest |-> LatestForKey(c, R, r)] :
                      r \in Chosen(rq, c, R, rq.keys \ {l.key})}
        BY GivenAreChosen
      <4>2. b.given = {[rec |-> r, latest |-> LatestForKey(c, R, r)] :
                      r \in Chosen(rq, c, R, rq.keys)}
        BY <3>2, GivenAreChosen
      <4>3. \A g \in full : g \in b.given /\ g.rec.key \in D
        <5> SUFFICES ASSUME NEW g \in full PROVE g \in b.given /\ g.rec.key \in D
          OBVIOUS
        <5>1. PICK r \in Chosen(rq, c, R, rq.keys \ {l.key}) :
                 g = [rec |-> r, latest |-> LatestForKey(c, R, r)]
          <6> HIDE DEF full
          <6> QED BY <4>1
        <5>2. r \in Chosen(rq, c, R, rq.keys) /\ r.key \in D
          BY <5>1, <3>3
        <5> QED
          BY <5>1, <5>2, <4>2
      <4>4. ASSUME NEW g \in b.given, g.rec.key \in D PROVE g \in full
        <5>1. PICK r \in Chosen(rq, c, R, rq.keys) :
                 g = [rec |-> r, latest |-> LatestForKey(c, R, r)]
          BY <4>2, <4>4
        <5>2. r \in Chosen(rq, c, R, rq.keys \ {l.key})
          BY <5>1, <4>4, <3>3
        <5> HIDE DEF full
        <5> QED
          BY <5>1, <5>2, <4>1
      <4> HIDE DEF full
      <4> QED
        BY <4>3, <4>4
    <3>5. Cardinality(full) \in Nat /\ c.count \in Nat /\ rq.limit \in Nat
      <4>1. IsFiniteSet(b.given)
        BY <1>5, <2>11
      <4>2. full \in SUBSET b.given
        BY <3>4, Zenon
      <4>3. Cardinality(full) \in Nat
        <5> HIDE DEF full
        <5> QED BY <4>1, <4>2, FS_Subset, FS_CardinalityType
      <4> QED
        BY <4>3 DEF Scanning, RequestOK
    <3>6. c.count + Cardinality(full) >= rq.limit
      <4> HIDE DEF full
      <4> QED BY <3>1, <3>5
    <3>7. l.key \in Nat
      BY <1>4, <2>5
    <3> QED
      BY <3>1, <3>4, <3>6, <3>7, <2>13, Zenon
  <2>16. Leaves(n, H, I, rq, c, b, D)
    <3> HIDE DEF D
    <3> QED
      BY <1>2, <1>5, <1>6, <2>11, <2>14, <2>15, Zenon DEF Leaves
  <2> QED
    BY <2>11, <2>16
<1> QED
  BY <1>7, <1>8, ReadsCases

(***************************************************************************)
(* A batch gives and carries only records of the index it reads, or the    *)
(* one carried so far.                                                     *)
(***************************************************************************)
LEMMA BatchFromIndex ==
    ASSUME NEW I, NEW rq, NEW c, NEW n, NEW b \in Batches(I, rq, c, n)
    PROVE  /\ {g.rec : g \in b.given} \subseteq c.currentRecord \cup I
           /\ b.next.currentRecord \subseteq c.currentRecord \cup I
<1>1. PICK x \in Reads(rq, c, Ahead(I, rq, c)) : b = EndBatch(rq, c, n, x)
  BY DEF Batches
<1> DEFINE at == IF x.read = {} THEN c.at ELSE LastOf(x.read)
           K == IF x.isLast THEN rq.keys ELSE rq.keys \ {r.key : r \in at}
<1>a. b.given = Given(rq, c, x.read, K)
  BY <1>1 DEF EndBatch
<1>b. b.next.currentRecord = UNION {Candidate(rq, c, x.read, r.key) : r \in at}
  BY <1>1 DEF EndBatch
<1>2. x.read \subseteq I
  <2>1. x.read \subseteq Ahead(I, rq, c)
    BY DEF Reads, UpTo
  <2> QED
    BY <2>1 DEF Ahead
<1>3. \A k : Candidate(rq, c, x.read, k) \subseteq c.currentRecord \cup I
  BY <1>2 DEF Candidate
<1>4. \A M : \A g \in Given(rq, c, x.read, M) : g.rec \in c.currentRecord \cup I
  BY <1>3 DEF Given
<1> HIDE DEF at, K
<1> QED
  BY <1>a, <1>b, <1>3, <1>4

(***************************************************************************)
(* Two sets that have nothing in common.                                   *)
(***************************************************************************)
LEMMA DisjointCount ==
    ASSUME NEW A, NEW B, IsFiniteSet(A), IsFiniteSet(B), A \cap B = {}
    PROVE  /\ IsFiniteSet(A \cup B)
           /\ Cardinality(A) \in Nat /\ Cardinality(B) \in Nat
           /\ Cardinality(A \cup B) = Cardinality(A) + Cardinality(B)
<1>1. Cardinality({}) = 0
  BY FS_EmptySet
<1>2. Cardinality(A) \in Nat /\ Cardinality(B) \in Nat
  BY FS_CardinalityType
<1>3. IsFiniteSet(A \cup B)
      /\ Cardinality(A \cup B) = Cardinality(A) + Cardinality(B) - Cardinality(A \cap B)
  BY FS_Union
<1>4. Cardinality(A \cap B) = 0
  BY <1>1, Zenon
<1> QED
  BY <1>2, <1>3, <1>4

(***************************************************************************)
(* What a batch adds to a set of records is counted.                       *)
(***************************************************************************)
LEMMA NamedCount ==
    ASSUME NEW H, IsFiniteSet(H), NEW X \in SUBSET H, NEW G, Names(H, G),
           \A p \in X, g \in G : p # g.rec
    PROVE  /\ IsFiniteSet(X \cup {g.rec : g \in G}) /\ Cardinality(X) \in Nat
           /\ Cardinality(X \cup {g.rec : g \in G}) = Cardinality(X) + Cardinality(G)
<1> DEFINE T == {g.rec : g \in G}
<1>1. IsFiniteSet(T) /\ Cardinality(G) = Cardinality(T) /\ Cardinality(G) \in Nat
  BY NamedRecords, Zenon
<1>2. X \cap T = {}
  OBVIOUS
<1> HIDE DEF T
<1>3. IsFiniteSet(X) /\ Cardinality(X) \in Nat
  BY FS_Subset, FS_CardinalityType
<1>4. IsFiniteSet(X \cup T) /\ Cardinality(X \cup T) = Cardinality(X) + Cardinality(T)
  BY <1>1, <1>2, <1>3, DisjointCount, Zenon
<1> QED
  BY <1>1, <1>3, <1>4 DEF T
=============================================================================
