-------------------------- MODULE ApiAnswerProofs --------------------------
(***************************************************************************)
(* Proofs about what the API answers while others change what it reads.    *)
(* First the data-quality report (DataQuality), for any handlers, windows, *)
(* ages and objects: the inductive invariant IInv, from it the properties  *)
(* of the answers and of the cache, and that the percentiles are           *)
(* quantiles.  Then the intelligence routes (Intelligence), for any        *)
(* vessels, reports, limits and latitudes: the inductive invariant         *)
(* FleetIInv, by which each result of a request is that of some fleet the  *)
(* request may have seen, and the properties of the answers.               *)
(***************************************************************************)
EXTENDS DataQuality, Intelligence, FiniteSetTheorems, FunctionTheorems,
        SequenceTheorems, TLAPS

USE DEF handlers

-----------------------------------------------------------------------------
(* Hours and listings                                                      *)

\* The hour of a time begins at most one hour before it.
LEMMA HourBounds ==
    ASSUME NEW t \in Int
    PROVE  /\ HourOf(t) \in Int
           /\ HourLength * HourOf(t) <= t
           /\ t < HourLength * HourOf(t) + HourLength
    BY AgeAssumption, Z3 DEF HourOf

\* A row of an hour of the window is no older than an hour before the cutoff.
LEMMA WindowBounds ==
    ASSUME NEW o \in Object, NEW cutoff \in Int, InWindow(o, cutoff)
    PROVE  o.event > cutoff - HourLength
<1>1. o.event \in Int
    BY DEF Object
<1>2. /\ HourOf(o.event) \in Int /\ HourLength * HourOf(o.event) <= o.event
      /\ HourOf(cutoff) \in Int /\ cutoff < HourLength * HourOf(cutoff) + HourLength
    BY <1>1, HourBounds
<1>3. HourLength * HourOf(cutoff) <= HourLength * HourOf(o.event)
    BY <1>2, AgeAssumption DEF InWindow
<1> QED
    BY <1>1, <1>2, <1>3, AgeAssumption

\* The listing leaves an object out only if a page of others, of its hour or an
\* earlier one, comes first.
LEMMA Truncated ==
    ASSUME archive \in SUBSET Object, IsFiniteSet(archive),
           NEW o \in archive, o \notin Listing
    PROVE  Cardinality(UpTo(o, archive)) >= MaxKeys
<1> DEFINE first == {p \in archive : Before(p, o)}
<1>1. \A p \in archive : /\ p.digest \in Nat /\ HourOf(p.event) \in Int
    BY HourBounds, BoundAssumption DEF Object
<1>2. first \in SUBSET UpTo(o, archive)
    BY <1>1 DEF Before, UpTo
<1>3. ~(Cardinality(first) < MaxKeys)
    BY DEF Listing
<1>4. IsFiniteSet(UpTo(o, archive))
    BY FS_Subset DEF UpTo
<1>5. IsFiniteSet(first) /\ Cardinality(first) <= Cardinality(UpTo(o, archive))
    BY <1>2, <1>4, FS_Subset
<1>6. Cardinality(first) \in Nat /\ Cardinality(UpTo(o, archive)) \in Nat
    BY <1>4, <1>5, FS_CardinalityType
<1> QED
    BY <1>3, <1>5, <1>6, BoundAssumption

-----------------------------------------------------------------------------
(* Steps                                                                   *)

\* An exception leaves nothing behind.
LEMMA FailsType ==
    ASSUME TypeOK, NEW h \in Handler, Fails(h)
    PROVE  TypeOK'
    BY WindowAssumption DEF TypeOK, Fails, Goes, NoAsk, NoScan, Scan, Place

\* Every step keeps the types of DataQuality.
LEMMA TypeStep ==
    ASSUME TypeOK, [Next]_vars
    PROVE  TypeOK'
<1>1. ASSUME Tick PROVE TypeOK'
    BY <1>1 DEF TypeOK, Tick
<1>2. ASSUME NEW n \in Digest, NEW d \in 0..MaxDelay, NEW l \in Lateness, Store(n, d, l) PROVE TypeOK'
    BY <1>2, AgeAssumption DEF TypeOK, Store, Object
<1>3. ASSUME NEW o \in archive, Expire(o) PROVE TypeOK'
    BY <1>3 DEF TypeOK, Expire
<1>4. ASSUME NEW h \in Handler, NEW w \in Window, Request(h, w) PROVE TypeOK'
    BY <1>4, WindowAssumption DEF TypeOK, Request, Goes, Place
<1>5. ASSUME NEW h \in Handler, Hit(h) PROVE TypeOK'
    BY <1>5 DEF TypeOK, Hit, Goes, Place
<1>6. ASSUME NEW h \in Handler, Miss(h) PROVE TypeOK'
    BY <1>6 DEF TypeOK, Miss, Goes, Place, Scan, Listing
<1>7. ASSUME NEW h \in Handler, Finish(h) PROVE TypeOK'
    BY <1>7 DEF TypeOK, Finish, Goes, Place
<1>8. ASSUME NEW h \in Handler, NEW o \in todo[h], Get(h, o) PROVE TypeOK'
    <2>1. scan[h] \in Scan /\ o \in Object /\ todo[h] \in SUBSET Object
        BY <1>8 DEF TypeOK, Get, NextKey
    <2>2. [scan[h] EXCEPT !.rows = @ \union {o}] \in Scan
        BY <2>1 DEF Scan
    <2> QED
        BY <1>8, <2>1, <2>2 DEF TypeOK, Get, Scan
<1>9. ASSUME NEW h \in Handler, NEW o \in todo[h], GetGone(h, o) PROVE TypeOK'
    BY <1>9, FailsType DEF GetGone
<1>10. ASSUME NEW h \in Handler, S3Fails(h) PROVE TypeOK'
    BY <1>10, FailsType DEF S3Fails
<1>11. ASSUME UNCHANGED vars PROVE TypeOK'
    BY <1>11 DEF TypeOK, vars
<1> QED
    BY <1>1, <1>2, <1>3, <1>4, <1>5, <1>6, <1>7, <1>8, <1>9, <1>10, <1>11 DEF Next, Handle

\* Objects are stored young and expire old; a scan reads those it listed.
LEMMA ArchiveStep ==
    ASSUME IInv, [Next]_vars
    PROVE  ArchiveOK'
<1> USE DEF ArchiveOK, Times, InWindow, HourOf, Latency
<1>0. TypeOK /\ ArchiveOK
    BY DEF IInv
<1>1. ASSUME Tick PROVE ArchiveOK'
    BY <1>0, <1>1, AgeAssumption DEF TypeOK, Tick, Object
<1>2. ASSUME NEW n \in Digest, NEW d \in 0..MaxDelay, NEW l \in Lateness, Store(n, d, l) PROVE ArchiveOK'
    <2> DEFINE new == [digest |-> n, event |-> now - d - l, ingested |-> now - d, stored |-> now]
    <2>1. IsFiniteSet(archive \union {new})
        BY <1>0, FS_AddElement
    <2>2. Times(new)
        BY <1>0, AgeAssumption DEF TypeOK
    <2> QED
        BY <1>0, <1>2, <2>1, <2>2 DEF Store
<1>3. ASSUME NEW o \in archive, Expire(o) PROVE ArchiveOK'
    <2>1. IsFiniteSet(archive \ {o})
        BY <1>0, FS_RemoveElement
    <2> QED
        BY <1>0, <1>3, <2>1 DEF Expire
<1>4. ASSUME NEW h \in Handler, NEW w \in Window, Request(h, w) PROVE ArchiveOK'
    BY <1>0, <1>4 DEF TypeOK, Request, Goes
<1>5. ASSUME NEW h \in Handler, Hit(h) PROVE ArchiveOK'
    BY <1>0, <1>5 DEF TypeOK, Hit, Goes
<1>6. ASSUME NEW h \in Handler, Miss(h) PROVE ArchiveOK'
    BY <1>0, <1>6 DEF TypeOK, Miss, Goes, Listing
<1>7. ASSUME NEW h \in Handler, Finish(h) PROVE ArchiveOK'
    BY <1>0, <1>7 DEF TypeOK, Finish, Goes
<1>8. ASSUME NEW h \in Handler, NEW o \in todo[h], Get(h, o) PROVE ArchiveOK'
    <2>1. \A g \in Handler : scan'[g].cutoff = scan[g].cutoff /\ todo'[g] \subseteq todo[g]
        BY <1>0, <1>8 DEF TypeOK, Get, Scan
    <2> QED
        BY <1>0, <1>8, <2>1 DEF Get
<1>9. ASSUME NEW h \in Handler, Fails(h) PROVE ArchiveOK'
    BY <1>0, <1>9 DEF TypeOK, Fails, Goes
<1>10. ASSUME UNCHANGED vars PROVE ArchiveOK'
    BY <1>0, <1>10 DEF vars
<1> QED
    BY <1>1, <1>2, <1>3, <1>4, <1>5, <1>6, <1>7, <1>8, <1>9, <1>10 DEF Next, Handle, GetGone, S3Fails

\* The rows of the window that an object's absence from the scan leaves out.
LEMMA ListedOrExcused ==
    ASSUME TypeOK, IsFiniteSet(archive), NEW cutoff \in Int, NEW o \in archive,
           ~(o \in Listing /\ InWindow(o, cutoff))
    PROVE  \/ Cardinality(UpTo(o, archive)) >= MaxKeys
           \/ HourOf(o.event) < HourOf(cutoff)
<1>1. HourOf(o.event) \in Int /\ HourOf(cutoff) \in Int
    BY HourBounds DEF TypeOK, Object
<1> QED
    BY <1>1, Truncated DEF TypeOK, InWindow

\* Every step keeps the reports well formed (data_quality.py:66-144).
LEMMA ReportsStep ==
    ASSUME IInv, [Next]_vars
    PROVE  ReportsOK'
<1> USE DEF ReportsOK, WellFormed, Complete, Due, Counted
<1>0. TypeOK /\ ArchiveOK /\ ReportsOK /\ now' >= now /\ now' \in Nat
    <2>1. TypeOK /\ ArchiveOK /\ ReportsOK
        BY DEF IInv
    <2>2. now' = now \/ now' = now + 1
        BY DEF Next, Tick, Store, Expire, Request, Handle, Hit, Miss, Finish, Get, GetGone, S3Fails,
               Fails, vars
    <2> QED
        BY <2>1, <2>2 DEF TypeOK
<1>1. ASSUME UNCHANGED <<cache, pc, asked, scan, todo>> PROVE ReportsOK'
    BY <1>0, <1>1 DEF TypeOK, Scan
<1>2. ASSUME NEW h \in Handler, NEW w \in Window, Request(h, w) PROVE ReportsOK'
    BY <1>0, <1>2 DEF TypeOK, Request, Goes, Scan
<1>3. ASSUME NEW h \in Handler, Hit(h) PROVE ReportsOK'
    <2>1. todo[h] = {}
        BY <1>0, <1>3 DEF ArchiveOK, Hit
    <2> QED
        BY <1>0, <1>3, <2>1 DEF TypeOK, Hit, Valid, Goes
<1>4. ASSUME NEW h \in Handler, Miss(h) PROVE ReportsOK'
    <2>1. /\ scan'[h].listed = now /\ scan'[h].ts = asked[h].at
          /\ scan'[h].window = asked[h].window
          /\ scan'[h].cutoff = now - asked[h].window
          /\ scan'[h].rows = {} /\ scan'[h].seen = archive
          /\ todo'[h] = {o \in Listing : InWindow(o, now - asked[h].window)}
          /\ \A g \in Handler \ {h} : scan'[g] = scan[g] /\ todo'[g] = todo[g] /\ pc'[g] = pc[g]
          /\ UNCHANGED <<asked, cache, now>>
        BY <1>4 DEF TypeOK, Miss, Goes, IInv
    <2>2. now - asked[h].window \in Int
        BY <1>0 DEF TypeOK
    <2>3. \A o \in archive \ todo'[h] :
              \/ Cardinality(UpTo(o, archive)) >= MaxKeys
              \/ HourOf(o.event) < HourOf(now - asked[h].window)
        BY <1>0, <2>1, <2>2, ListedOrExcused DEF ArchiveOK
    <2>4. todo'[h] \subseteq archive
        BY <2>1 DEF Listing
    <2>5. WellFormed(scan[h], todo[h])'
        BY <1>0, <2>1, <2>3, <2>4 DEF TypeOK
    <2> QED
        BY <1>0, <1>4, <2>1, <2>5 DEF TypeOK
<1>5. ASSUME NEW h \in Handler, Finish(h) PROVE ReportsOK'
    BY <1>0, <1>5 DEF TypeOK, Finish, Goes
<1>6. ASSUME NEW h \in Handler, NEW o \in todo[h], Get(h, o) PROVE ReportsOK'
    <2>1. /\ todo'[h] = todo[h] \ {o}
          /\ scan'[h].rows = IF Counted(o, scan[h].cutoff) THEN scan[h].rows \union {o} ELSE scan[h].rows
          /\ scan'[h].listed = scan[h].listed /\ scan'[h].ts = scan[h].ts
          /\ scan'[h].window = scan[h].window /\ scan'[h].cutoff = scan[h].cutoff
          /\ scan'[h].seen = scan[h].seen
          /\ \A g \in Handler \ {h} : scan'[g] = scan[g] /\ todo'[g] = todo[g]
          /\ UNCHANGED <<asked, cache, now, pc>>
        BY <1>0, <1>6 DEF TypeOK, Get, Scan
    <2>2. pc[h] = "read" /\ WellFormed(scan[h], todo[h])
        BY <1>0, <1>6 DEF Get, NextKey
    <2>3. WellFormed(scan[h], todo[h])'
        BY <1>6, <2>1, <2>2
    <2> QED
        BY <1>0, <2>1, <2>2, <2>3
<1>7. ASSUME NEW h \in Handler, Fails(h) PROVE ReportsOK'
    BY <1>0, <1>7 DEF TypeOK, Fails, Goes, NoAsk
<1> QED
    BY <1>1, <1>2, <1>3, <1>4, <1>5, <1>6, <1>7
       DEF Next, Handle, GetGone, S3Fails, Tick, Store, Expire, vars

\* Every step keeps the cache behind the only request under way
\* (data_quality.py:138-144).
LEMMA InTurnStep ==
    ASSUME IInv, [Next]_vars
    PROVE  InTurn'
<1> USE DEF InTurn, UnderWay
<1>0. TypeOK /\ ReportsOK /\ InTurn
    BY DEF IInv
<1>1. ASSUME UNCHANGED <<cache, pc, asked, overlapped>>, now' \in {now, now + 1} PROVE InTurn'
    BY <1>0, <1>1 DEF TypeOK, Scan
<1>2. ASSUME NEW h \in Handler, NEW w \in Window, Request(h, w) PROVE InTurn'
    BY <1>0, <1>2 DEF TypeOK, Scan, Request, Goes
<1>3. ASSUME NEW h \in Handler, Hit(h) \/ Miss(h) \/ Fails(h) PROVE InTurn'
    BY <1>0, <1>3 DEF TypeOK, Hit, Miss, Fails, Goes
<1>4. ASSUME NEW h \in Handler, Finish(h) PROVE InTurn'
    <2>1. scan[h].ts = asked[h].at /\ asked[h].at <= now /\ h \in UnderWay
        BY <1>0, <1>4 DEF ReportsOK, Finish
    <2> QED
        BY <1>0, <1>4, <2>1 DEF TypeOK, Finish, Goes
<1> QED
    BY <1>1, <1>2, <1>3, <1>4
       DEF Next, Handle, Get, GetGone, S3Fails, Tick, Store, Expire, vars

\* Every step keeps the answers current (data_quality.py:138-144).
LEMMA CurrentStep ==
    ASSUME IInv, [Next]_vars
    PROVE  AnswerCurrent'
<1> USE DEF AnswerCurrent
<1>0. TypeOK /\ ReportsOK /\ AnswerCurrent
    BY DEF IInv
<1>1. ASSUME UNCHANGED <<pc, asked, scan>> PROVE AnswerCurrent'
    BY <1>0, <1>1
<1>2. ASSUME NEW h \in Handler, NEW w \in Window, Request(h, w) PROVE AnswerCurrent'
    BY <1>0, <1>2 DEF TypeOK, Request, Goes
<1>3. ASSUME NEW h \in Handler, Hit(h) PROVE AnswerCurrent'
    <2>1. cache.listed >= cache.ts /\ cache.listed \in Nat /\ cache.ts \in Nat /\ asked[h].at \in Nat
        BY <1>0, <1>3 DEF TypeOK, Scan, ReportsOK, WellFormed, Hit, Valid
    <2>2. cache.listed > asked[h].at - TTL /\ cache.window = asked[h].window
        BY <1>3, <2>1, AgeAssumption DEF Hit, Valid
    <2> QED
        BY <1>0, <1>3, <2>2 DEF TypeOK, Hit, Goes
<1>4. ASSUME NEW h \in Handler, Miss(h) PROVE AnswerCurrent'
    BY <1>0, <1>4 DEF TypeOK, Miss, Goes
<1>5. ASSUME NEW h \in Handler, Finish(h) PROVE AnswerCurrent'
    <2>1. /\ scan[h].window = asked[h].window /\ scan[h].ts = asked[h].at
          /\ scan[h].listed >= scan[h].ts /\ scan[h].listed \in Nat /\ asked[h].at \in Nat
        BY <1>0, <1>5 DEF ReportsOK, WellFormed, Finish, TypeOK, Scan
    <2>2. scan[h].listed > asked[h].at - TTL
        BY <2>1, AgeAssumption
    <2> QED
        BY <1>0, <1>5, <2>1, <2>2 DEF TypeOK, Finish, Goes
<1>6. ASSUME NEW h \in Handler, NEW o \in todo[h], Get(h, o) PROVE AnswerCurrent'
    BY <1>0, <1>6 DEF TypeOK, Get, NextKey
<1>7. ASSUME NEW h \in Handler, Fails(h) PROVE AnswerCurrent'
    BY <1>0, <1>7 DEF TypeOK, Fails, Goes
<1> QED
    BY <1>1, <1>2, <1>3, <1>4, <1>5, <1>6, <1>7
       DEF Next, Handle, GetGone, S3Fails, Tick, Store, Expire, vars

-----------------------------------------------------------------------------
(* The theorems                                                            *)

\* Archive, cache and handlers are empty at first.
LEMMA InitIInv ==
    ASSUME Init
    PROVE  IInv
<1>1. TypeOK
    <2>1. NoScan \in Scan
        BY DEF NoScan, Scan
    <2>2. NoAsk \in [window : Nat, at : Nat]
        BY DEF NoAsk
    <2> QED
        BY <2>1, <2>2 DEF Init, TypeOK, Place
<1>2. ArchiveOK
    BY FS_EmptySet DEF Init, ArchiveOK
<1> QED
    BY <1>1, <1>2 DEF Init, IInv, ReportsOK, InTurn, AnswerCurrent, UnderWay, NoScan, NoAsk

\* The inductive invariant: the reports in the cache and under way are well
\* formed, and what is listed is in the archive or old (data_quality.py:61-144).
THEOREM Invariance == Spec => []IInv
<1>1. IInv /\ [Next]_vars => IInv'
    BY TypeStep, ArchiveStep, ReportsStep, InTurnStep, CurrentStep DEF IInv
<1> QED
    BY InitIInv, <1>1, PTL DEF Spec

\* Every answer is of the window asked for and was listed less than the TTL
\* before the request, whichever handlers replace the cache meanwhile.
THEOREM AnswersAreCurrent == Spec => []AnswerCurrent
<1>1. IInv => AnswerCurrent
    BY DEF IInv
<1> QED
    BY Invariance, <1>1, PTL

\* A report counts what the archive held of its window when it was listed, but
\* for late rows and those that come after a page of keys.
THEOREM ReportsAreComplete == Spec => []ReportComplete
<1>1. IInv => ReportComplete
    <2> SUFFICES ASSUME IInv, NEW h \in Handler, pc[h] = "answered"
                 PROVE  scan[h].rows \subseteq Due(scan[h]) /\ Complete(scan[h], {})
        BY DEF ReportComplete
    <2>1. todo[h] = {}
        BY DEF IInv, ArchiveOK
    <2> QED
        BY <2>1 DEF IInv, ReportsOK, WellFormed
<1> QED
    BY Invariance, <1>1, PTL

\* What was listed stays readable for the time by which the retention exceeds
\* the window, the hour it begins in and the skew.
THEOREM ListedIsReadable == Spec => []Readable
<1>1. IInv => Readable
    <2> SUFFICES ASSUME IInv, NEW h \in Handler, NEW o \in todo[h], o \notin archive
                 PROVE  now - scan[h].cutoff > Retention - HourLength - MaxSkew
        BY DEF Readable
    <2>1. /\ o \in Object /\ scan[h].cutoff \in Int /\ now \in Nat
          /\ o.event \in Int /\ o.ingested \in Int /\ o.stored \in Int
        BY DEF IInv, TypeOK, Scan, Object
    <2>2. Times(o) /\ InWindow(o, scan[h].cutoff) /\ now - o.stored >= Retention
        BY DEF IInv, ArchiveOK
    <2>3. o.event > scan[h].cutoff - HourLength
        BY <2>1, <2>2, WindowBounds
    <2> QED
        BY <2>1, <2>2, <2>3, AgeAssumption DEF Times, Latency
<1> QED
    BY Invariance, <1>1, PTL

\* The cache goes back to an earlier request only if requests have overlapped.
THEOREM CacheGoesForward == Spec => CacheForward
<1>1. IInv /\ [Next]_vars => [cache'.ts < cache.ts => overlapped]_vars
    <2> SUFFICES ASSUME IInv, Next, cache'.ts < cache.ts
                 PROVE  overlapped
        OBVIOUS
    <2>1. cache.ts \in Nat
        BY DEF IInv, TypeOK, Scan
    <2>2. cache' # cache
        BY <2>1
    <2>3. PICK h \in Handler : Finish(h)
        BY <2>2 DEF Next, Handle, Tick, Store, Expire, Request, Hit, Miss, Get, GetGone, S3Fails, Fails
    <2>4. cache'.ts = asked[h].at /\ h \in UnderWay /\ asked[h].at \in Nat
        BY <2>3 DEF Finish, IInv, TypeOK, ReportsOK, UnderWay
    <2> QED
        BY <2>1, <2>4 DEF IInv, InTurn
<1> QED
    BY Invariance, <1>1, PTL DEF Spec, CacheForward

-----------------------------------------------------------------------------
(* The percentiles                                                         *)

\* deltas[int(len(deltas) * p / 100)] of a sorted list is within the list and
\* exactly a p-quantile of it, for a list of any length (data_quality.py:115-120).
THEOREM PercentileIsQuantile ==
    ASSUME NEW s \in Seq(Int), Len(s) > 0, NEW p \in 0..99,
           \A i, j \in 1..Len(s) : i <= j => s[i] <= s[j]
    PROVE  /\ 1 + (Len(s) * p) \div 100 \in 1..Len(s)
           /\ Quantile(Percentile(s, p), s, p)
<1> DEFINE n == Len(s)
           m == n * p
           k == 1 + m \div 100
           atMost == {i \in 1..n : s[i] <= s[k]}
           below == {i \in 1..n : s[i] < s[k]}
<1>1. n \in Nat \ {0} /\ DOMAIN s = 1..n /\ \A i \in 1..n : s[i] \in Int
    OBVIOUS
<1>2. m \in Nat /\ m <= 99 * n
    BY <1>1
<1>3. k \in 1..n /\ 100 * k > m /\ 100 * (k - 1) <= m
    <2> HIDE DEF m, n
    <2> QED
        BY <1>1, <1>2
<1>4. IsFiniteSet(1..n) /\ IsFiniteSet(1..k) /\ Cardinality(1..k) = k
      /\ IsFiniteSet(1..(k - 1)) /\ Cardinality(1..(k - 1)) = k - 1
    <2> HIDE DEF k, n
    <2>1. n \in Int /\ k \in Int /\ k - 1 \in Int /\ 1 \in Int /\ 1 <= k
        BY <1>1, <1>3
    <2>2. IsFiniteSet(1..n)
        BY <2>1, FS_Interval
    <2>3. IsFiniteSet(1..k) /\ Cardinality(1..k) = k
        BY <2>1, FS_Interval
    <2>4. IsFiniteSet(1..(k - 1)) /\ Cardinality(1..(k - 1)) = k - 1
        BY <2>1, FS_Interval
    <2> QED
        BY <2>2, <2>3, <2>4
<1>5. 1..k \subseteq atMost /\ atMost \subseteq 1..n
    <2> HIDE DEF k
    <2> QED
        BY <1>1, <1>3
<1>6. below \subseteq 1..(k - 1)
    <2> HIDE DEF k
    <2> QED
        BY <1>1, <1>3
<1>7. Cardinality(atMost) \in Nat /\ Cardinality(atMost) >= k
    <2> HIDE DEF k, n, atMost
    <2>1. IsFiniteSet(atMost)
        BY <1>4, <1>5, FS_Subset
    <2> QED
        BY <2>1, <1>3, <1>4, <1>5, FS_Subset, FS_CardinalityType
<1>8. Cardinality(below) \in Nat /\ Cardinality(below) <= k - 1
    <2> HIDE DEF k, n, below
    <2>1. IsFiniteSet(below) /\ Cardinality(below) <= k - 1
        BY <1>4, <1>6, FS_Subset
    <2> QED
        BY <2>1, FS_CardinalityType
<1>9. 100 * Cardinality(atMost) >= m /\ 100 * Cardinality(below) <= m
    <2> HIDE DEF k, m, n, atMost, below
    <2> QED
        BY <1>2, <1>3, <1>7, <1>8
<1>10. m = p * n
    BY <1>1
<1> QED
    BY <1>1, <1>3, <1>9, <1>10 DEF Quantile, Percentile

-----------------------------------------------------------------------------
(* Intelligence: greatest and least                                        *)

\* The first of a nonempty set of natural numbers.
LEMMA LeastNat ==
    ASSUME NEW S \in SUBSET Nat, S # {}
    PROVE  \E x \in S : \A y \in S : x <= y
<1>1. IsWellFoundedOn(OpToRel(<, Nat), Nat)
    BY NatLessThanWellFounded
<1>2. PICK x \in S : \A y \in S : ~(<<y, x>> \in OpToRel(<, Nat))
    BY <1>1, WFMin
<1>3. ASSUME NEW y \in S, y < x PROVE FALSE
    <2>1. <<y, x>> \in OpToRel(<, Nat)
        BY <1>3 DEF OpToRel
    <2> QED
        BY <1>2, <2>1
<1>4. \A y \in S : x <= y
    BY <1>3
<1> QED
    BY <1>4

\* Max picks the greatest member of a set that has one.
LEMMA MaxIs ==
    ASSUME NEW S \in SUBSET Int, S # {}, NEW bound \in Int, \A x \in S : x <= bound
    PROVE  Max(S) \in S /\ \A x \in S : x <= Max(S)
<1> DEFINE below == {bound - x : x \in S}
<1>1. below \in SUBSET Nat /\ below # {}
    <2>1. \A x \in S : bound - x \in Nat
        OBVIOUS
    <2>2. below \in SUBSET Nat
        BY <2>1
    <2>3. below # {}
        BY Zenon
    <2> QED
        BY <2>2, <2>3
<1>2. PICK d \in below : \A e \in below : d <= e
    BY <1>1, LeastNat
<1>3. PICK m \in S : d = bound - m
    BY <1>2
<1>4. \A x \in S : m >= x
    BY <1>2, <1>3
<1>5. \A x \in S : Max(S) >= x
    BY <1>4 DEF Max
<1>6. Max(S) \in S
    BY <1>4 DEF Max
<1> QED
    BY <1>5, <1>6

\* The lesser of two numbers.
LEMMA MinOfTwo ==
    ASSUME NEW a \in Int, NEW b \in Int
    PROVE  Min({a, b}) = IF a <= b THEN a ELSE b
    BY DEF Min

-----------------------------------------------------------------------------
(* Counting                                                                *)

\* Things counted under a key each are as many as the counts add up to.
LEMMA CountedOnce ==
    ASSUME NEW S, IsFiniteSet(S), NEW K, NEW key \in [S -> K],
           NEW count, DOMAIN count = K,
           \A k \in K : count[k] = Cardinality({v \in S : key[v] = k})
    PROVE  Total(count) = Cardinality(S)
<1> DEFINE Under(k) == {v \in S : key[v] = k}
           number == [k \in K |-> CHOOSE b \in Bijection(Under(k), 1..count[k]) : TRUE]
           place == [v \in S |-> <<key[v], number[key[v]][v]>>]
           places == UNION {{k} \X (1..count[k]) : k \in K}
<1>1. \A k \in K : /\ number[k] \in [Under(k) -> 1..count[k]]
                   /\ \A u, v \in Under(k) : number[k][u] = number[k][v] => u = v
                   /\ \A n \in 1..count[k] : \E v \in Under(k) : number[k][v] = n
    <2> SUFFICES ASSUME NEW k \in K
                 PROVE  /\ number[k] \in [Under(k) -> 1..count[k]]
                        /\ \A u, v \in Under(k) : number[k][u] = number[k][v] => u = v
                        /\ \A n \in 1..count[k] : \E v \in Under(k) : number[k][v] = n
        OBVIOUS
    <2>1. IsFiniteSet(Under(k))
        BY FS_Subset
    <2>2. ExistsBijection(1..count[k], Under(k))
        BY <2>1, FS_CardinalityType
    <2>3. Bijection(Under(k), 1..count[k]) # {}
        BY <2>2, Fun_ExistsBijSymmetric DEF ExistsBijection
    <2>4. number[k] \in Bijection(Under(k), 1..count[k])
        BY <2>3
    <2> QED
        BY <2>4 DEF Bijection, Injection, IsInjective, Surjection
<1> HIDE DEF number
<1>2. \A v \in S : /\ key[v] \in K /\ v \in Under(key[v])
                   /\ place[v] = <<key[v], number[key[v]][v]>>
    OBVIOUS
<1>3. place \in [S -> places]
    <2> SUFFICES ASSUME NEW v \in S PROVE place[v] \in places
        OBVIOUS
    <2>1. number[key[v]][v] \in 1..count[key[v]]
        <3>1. PICK k \in K : k = key[v] /\ v \in Under(k)
            BY <1>2
        <3>2. number[k] \in [Under(k) -> 1..count[k]]
            BY <1>1
        <3> HIDE DEF Under
        <3> QED
            BY <3>1, <3>2
    <2>2. place[v] \in {key[v]} \X (1..count[key[v]])
        BY <1>2, <2>1
    <2> QED
        BY <1>2, <2>2
<1>4. \A u, v \in S : place[u] = place[v] => u = v
    <2> SUFFICES ASSUME NEW u \in S, NEW v \in S, place[u] = place[v] PROVE u = v
        OBVIOUS
    <2>1. key[u] = key[v] /\ number[key[u]][u] = number[key[v]][v]
        BY <1>2
    <2>2. PICK k \in K : k = key[u] /\ u \in Under(k) /\ v \in Under(k)
        BY <1>2, <2>1
    <2>3. number[k][u] = number[k][v]
        BY <2>1, <2>2
    <2> QED
        BY <1>1, <2>2, <2>3
<1>5. \A x \in places : \E v \in S : place[v] = x
    <2> SUFFICES ASSUME NEW k \in K, NEW x \in {k} \X (1..count[k])
                 PROVE  \E v \in S : place[v] = x
        OBVIOUS
    <2>1. PICK n \in 1..count[k] : x = <<k, n>>
        OBVIOUS
    <2>2. PICK v \in Under(k) : number[k][v] = n
        BY <1>1
    <2> QED
        BY <1>2, <2>1, <2>2
<1> HIDE DEF place, places
<1>6. ExistsBijection(S, places)
    <2>1. place \in Bijection(S, places)
        BY <1>3, <1>4, <1>5 DEF Bijection, Injection, IsInjective, Surjection
    <2> QED
        BY <2>1 DEF ExistsBijection
<1>7. Cardinality(places) = Cardinality(S)
    BY <1>6, FS_Bijection
<1> QED
    BY <1>7 DEF Total, places

\* Sets that differ in members of a third only differ by no more in size.
LEMMA GapBound ==
    ASSUME NEW A, IsFiniteSet(A), NEW B, IsFiniteSet(B), NEW M, IsFiniteSet(M),
           A \subseteq B \union M, B \subseteq A \union M
    PROVE  Gap(Cardinality(A), Cardinality(B)) <= Cardinality(M)
<1>1. ASSUME NEW X, IsFiniteSet(X), NEW Y, IsFiniteSet(Y), X \subseteq Y \union M
      PROVE  Cardinality(X) <= Cardinality(Y) + Cardinality(M)
    <2>1. IsFiniteSet(Y \union M)
        BY <1>1, FS_Union
    <2>2. Cardinality(Y \union M) = Cardinality(Y) + Cardinality(M) - Cardinality(Y \cap M)
        BY <1>1, FS_Union
    <2>3. IsFiniteSet(Y \cap M)
        BY <1>1, FS_Intersection
    <2>4. /\ Cardinality(X) \in Nat /\ Cardinality(Y) \in Nat /\ Cardinality(M) \in Nat
          /\ Cardinality(Y \cap M) \in Nat /\ Cardinality(Y \union M) \in Nat
        BY <1>1, <2>1, <2>3, FS_CardinalityType
    <2>5. Cardinality(X) <= Cardinality(Y \union M)
        BY <1>1, <2>1, FS_Subset
    <2> QED
        BY <2>2, <2>4, <2>5
<1>2. /\ Cardinality(A) \in Nat /\ Cardinality(B) \in Nat /\ Cardinality(M) \in Nat
    BY FS_CardinalityType
<1>3. Cardinality(A) <= Cardinality(B) + Cardinality(M)
    BY <1>1
<1>4. Cardinality(B) <= Cardinality(A) + Cardinality(M)
    BY <1>1
<1> QED
    BY <1>2, <1>3, <1>4 DEF Gap

-----------------------------------------------------------------------------
(* The inductive invariant                                                 *)

Fleets == [Vessel -> Row \union {NoRow}]

\* A fleet a query may have seen: that of now, but for vessels that changed.
Snapshot(f) == f \in Fleets /\ \A v \in Vessel \ moved : f[v] = fleet[v]

\* What the queries return of such a fleet (main.py:156-184, 203-218).
ValidIn(f) == {v \in ValidMmsi : f[v] # NoRow}
StatusIn(s, f) == {v \in ValidIn(f) : f[v].status = s}
FastestIn(v, f) == v \in ValidIn(f) /\ \A u \in ValidIn(f) : f[u].sog <= f[v].sog
MaxSogOf(m, f) == IF ValidIn(f) = {} THEN m = NoValue
                                     ELSE \E v \in ValidIn(f) : FastestIn(v, f) /\ m = f[v].sog
AggregatedOf(a, f) == /\ a.total = Cardinality(ValidIn(f))
                      /\ a.moving + a.idle = a.total /\ a.fresh + a.stale <= a.total
                      /\ a.stale = Cardinality(StatusIn("STALE", f))
                      /\ a.anchored = Cardinality(StatusIn("ANCHORED", f))
                      /\ a.moored = Cardinality(StatusIn("MOORED", f))
                      /\ MaxSogOf(a.max_sog, f)
ByStatusOf(s, f) == /\ Total(s) = Cardinality(ValidIn(f))
                    /\ \A x \in Status : Count(s, x) = Cardinality(StatusIn(x, f))
FoundOf(t, f) == IF ValidIn(f) = {} THEN t = NoValue
                                    ELSE FastestIn(t.mmsi, f) /\ t.sog = f[t.mmsi].sog
HistogramOf(b, f) == /\ Total(b) = Cardinality(ValidIn(f))
                     /\ DOMAIN b = {Bucket(f[v].sog) : v \in ValidIn(f)}
StatsOf(t, f) == t.sample_n = Cardinality(ValidIn(f)) /\ MaxSogOf(t.max_sog, f)

\* Each result of a request is that of some snapshot, not all of the same.
ResultsOfSnapshots ==
    /\ query \in {"tracks", "statuses", "leader", "summary"} =>
          \E f \in Fleets : Snapshot(f) /\ AggregatedOf(got.agg, f)
    /\ query \in {"leader", "summary"} =>
          \E f \in Fleets : Snapshot(f) /\ ByStatusOf(got.by_status, f)
    /\ query = "summary" => \E f \in Fleets : Snapshot(f) /\ FoundOf(got.fastest, f)
    /\ query \in {"stats", "speed"} =>
          \E f \in Fleets : Snapshot(f) /\ HistogramOf(got.buckets, f)
    /\ query = "speed" => \E f \in Fleets : Snapshot(f) /\ StatsOf(got.stats, f)

\* Only the cleanup marks rows, and only silent ones (cleanup/main.py:17-24).
StaleSilent(f) == \A v \in Vessel : f[v] # NoRow /\ f[v].status = "STALE" => ~f[v].fresh

FleetIInv == FleetTypeOK /\ ResultsOfSnapshots /\ StaleSilent(fleet)

-----------------------------------------------------------------------------
(* What the queries return                                                 *)

\* The rows a query sees are rows of vessels, finitely many.
LEMMA ValidTyped ==
    ASSUME NEW f \in Fleets
    PROVE  /\ ValidIn(f) \subseteq Vessel /\ IsFiniteSet(ValidIn(f))
           /\ \A v \in ValidIn(f) : f[v] \in Row
<1>1. ValidIn(f) \subseteq Vessel
    BY VesselAssumption DEF ValidIn
<1>2. IsFiniteSet(ValidIn(f))
    BY <1>1, VesselAssumption, FS_Subset
<1>3. \A v \in ValidIn(f) : f[v] \in Row
    BY <1>1 DEF ValidIn, Fleets
<1> QED
    BY <1>1, <1>2, <1>3

\* VALID_MMSI filters the table (main.py:34).
LEMMA ValidRowsIs == ValidRows = ValidIn(fleet)
    BY VesselAssumption DEF ValidRows, Rows, ValidIn

\* Filters of finite sets have a size.
LEMMA FilterSize ==
    ASSUME NEW f \in Fleets, NEW S, S \subseteq ValidIn(f)
    PROVE  /\ IsFiniteSet(S) /\ Cardinality(S) \in Nat
           /\ Cardinality(S) > 0 <=> S # {}
<1>1. IsFiniteSet(S)
    BY ValidTyped, FS_Subset
<1>2. Cardinality(S) \in Nat
    BY <1>1, FS_CardinalityType
<1>3. Cardinality(S) = 0 <=> S = {}
    BY <1>1, FS_EmptySet
<1> QED
    BY <1>1, <1>2, <1>3

\* Disjoint parts of a set are together no larger than the set.
LEMMA PartsBound ==
    ASSUME NEW S, IsFiniteSet(S), NEW A, A \subseteq S, NEW B, B \subseteq S, A \cap B = {}
    PROVE  /\ Cardinality(A) + Cardinality(B) <= Cardinality(S)
           /\ A \union B = S => Cardinality(A) + Cardinality(B) = Cardinality(S)
<1>1. IsFiniteSet(A) /\ IsFiniteSet(B)
    BY FS_Subset
<1>2. /\ Cardinality(A) \in Nat /\ Cardinality(B) \in Nat
      /\ Cardinality(S) \in Nat
    BY <1>1, FS_CardinalityType
<1>3. Cardinality(A \union B) = Cardinality(A) + Cardinality(B) - Cardinality(A \cap B)
    BY <1>1, FS_Union
<1>4. Cardinality(A \cap B) = 0
    BY FS_EmptySet
<1>5. Cardinality(A \union B) <= Cardinality(S)
    <2>1. A \union B \in SUBSET S
        OBVIOUS
    <2> QED
        BY <2>1, FS_Subset
<1>6. Cardinality(A \union B) = Cardinality(A) + Cardinality(B)
    BY <1>2, <1>3, <1>4
<1>7. A \union B = S => Cardinality(A \union B) = Cardinality(S)
    OBVIOUS
<1> QED
    BY <1>5, <1>6, <1>7

\* MAX(sog_knots) is null of no rows, and the speed of a fastest one otherwise
\* (main.py:166).
LEMMA MaxSogIs ==
    ASSUME fleet \in Fleets
    PROVE  MaxSogOf(MaxSog, fleet) /\ MaxSog \in SpeedOrNone
<1>1. ValidRows = ValidIn(fleet)
    BY ValidRowsIs
<1>2. CASE ValidRows = {}
    BY <1>1, <1>2 DEF MaxSog, MaxSogOf, SpeedOrNone
<1>3. CASE ValidRows # {}
    <2> DEFINE sogs == {fleet[v].sog : v \in ValidRows}
    <2>1. \A v \in ValidRows : fleet[v] \in Row /\ fleet[v].sog \in Speed
        BY <1>1, ValidTyped DEF Row
    <2>2. sogs \in SUBSET Speed /\ sogs # {}
        BY <1>3, <2>1
    <2>3. Max(sogs) \in sogs /\ \A x \in sogs : x <= Max(sogs)
        <3> HIDE DEF sogs
        <3>1. sogs \in SUBSET Int /\ 1023 \in Int /\ \A x \in sogs : x <= 1023
            BY <2>2 DEF Speed
        <3> QED
            BY <2>2, <3>1, MaxIs
    <2>4. MaxSog = Max(sogs)
        BY <1>3 DEF MaxSog
    <2>5. PICK v \in ValidRows : Max(sogs) = fleet[v].sog
        BY <2>3
    <2>6. \A u \in ValidRows : fleet[u].sog <= fleet[v].sog
        BY <2>3, <2>5
    <2>7. MaxSogOf(MaxSog, fleet)
        BY <1>1, <1>3, <2>4, <2>5, <2>6 DEF MaxSogOf, FastestIn
    <2> QED
        BY <2>1, <2>4, <2>5, <2>7 DEF SpeedOrNone
<1> QED
    BY <1>2, <1>3

\* The first query's figures (main.py:156-168).
LEMMA AggregatedIs ==
    ASSUME fleet \in Fleets, StaleSilent(fleet)
    PROVE  Aggregated \in Aggregates /\ AggregatedOf(Aggregated, fleet)
<1> DEFINE S == ValidRows
           fresh == {v \in S : fleet[v].fresh}
           stale == {v \in S : fleet[v].status = "STALE"}
           moving == {v \in S : fleet[v].sog > 5}
           idle == {v \in S : fleet[v].sog <= 5}
           anchored == {v \in S : fleet[v].status = "ANCHORED"}
           moored == {v \in S : fleet[v].status = "MOORED"}
<1>1. S = ValidIn(fleet)
    BY ValidRowsIs
<1>2. Aggregated = [total |-> Cardinality(S), fresh |-> Cardinality(fresh),
                    stale |-> Cardinality(stale), moving |-> Cardinality(moving),
                    idle |-> Cardinality(idle), anchored |-> Cardinality(anchored),
                    moored |-> Cardinality(moored), max_sog |-> MaxSog]
    BY DEF Aggregated, HowMany, Those, WithStatus
<1>3. \A v \in S : fleet[v].sog \in Int
    <2>1. \A v \in S : fleet[v] \in Row
        BY <1>1, ValidTyped
    <2> QED
        BY <2>1 DEF Row, Speed
<1>4. /\ S \subseteq ValidIn(fleet) /\ fresh \subseteq S /\ stale \subseteq S
      /\ moving \subseteq S /\ idle \subseteq S /\ anchored \subseteq S /\ moored \subseteq S
    BY <1>1
<1>5. fresh \cap stale = {}
    BY <1>1, VesselAssumption DEF StaleSilent, ValidIn
<1>6. moving \cap idle = {} /\ moving \union idle = S
    BY <1>3
<1>7. /\ stale = StatusIn("STALE", fleet) /\ anchored = StatusIn("ANCHORED", fleet)
      /\ moored = StatusIn("MOORED", fleet)
    BY <1>1 DEF StatusIn
<1> HIDE DEF S, fresh, stale, moving, idle, anchored, moored
<1>8. IsFiniteSet(S)
    BY <1>1, ValidTyped
<1>9. Cardinality(moving) + Cardinality(idle) = Cardinality(S)
    BY <1>4, <1>6, <1>8, PartsBound
<1>10. Cardinality(fresh) + Cardinality(stale) <= Cardinality(S)
    BY <1>4, <1>5, <1>8, PartsBound
<1>11. /\ Cardinality(S) \in Nat /\ Cardinality(fresh) \in Nat /\ Cardinality(stale) \in Nat
       /\ Cardinality(moving) \in Nat /\ Cardinality(idle) \in Nat
       /\ Cardinality(anchored) \in Nat /\ Cardinality(moored) \in Nat
    <2>1. \A T : T \subseteq S => Cardinality(T) \in Nat
        BY <1>1, FilterSize
    <2> QED
        BY <1>4, <2>1
<1>12. Aggregated \in Aggregates
    BY <1>2, <1>11, MaxSogIs DEF Aggregates
<1>13. AggregatedOf(Aggregated, fleet)
    BY <1>1, <1>2, <1>7, <1>9, <1>10, MaxSogIs DEF AggregatedOf
<1> QED
    BY <1>12, <1>13

\* GROUP BY: a count for each key that occurs.
GroupBy(key, S) == [k \in {key[v] : v \in S} |-> Cardinality({v \in S : key[v] = k})]

\* It counts each row once.
LEMMA Grouped ==
    ASSUME NEW S, IsFiniteSet(S), NEW K, NEW key \in [S -> K], NEW g, g = GroupBy(key, S)
    PROVE  /\ Total(g) = Cardinality(S)
           /\ DOMAIN g \subseteq K /\ g \in [DOMAIN g -> Nat \ {0}]
           /\ \A x : Count(g, x) = Cardinality({v \in S : key[v] = x})
<1> DEFINE occurring == {key[v] : v \in S}
           under(k) == {v \in S : key[v] = k}
<1>1. DOMAIN g = occurring /\ \A k \in occurring : g[k] = Cardinality(under(k))
    BY DEF GroupBy
<1>2. Total(g) = Cardinality(S)
    <2>1. key \in [S -> occurring]
        OBVIOUS
    <2> HIDE DEF occurring
    <2> QED
        BY <1>1, <2>1, CountedOnce
<1>3. \A k : /\ IsFiniteSet(under(k)) /\ Cardinality(under(k)) \in Nat
             /\ Cardinality(under(k)) = 0 <=> under(k) = {}
    <2> SUFFICES ASSUME NEW k
                 PROVE  /\ IsFiniteSet(under(k)) /\ Cardinality(under(k)) \in Nat
                        /\ Cardinality(under(k)) = 0 <=> under(k) = {}
        OBVIOUS
    <2>1. IsFiniteSet(under(k))
        BY FS_Subset
    <2> HIDE DEF under
    <2> QED
        BY <2>1, FS_CardinalityType, FS_EmptySet
<1>4. \A k \in occurring : under(k) # {}
    OBVIOUS
<1>5. \A k \in occurring : g[k] \in Nat \ {0}
    BY <1>1, <1>3, <1>4
<1>6. g = [k \in occurring |-> g[k]]
    BY DEF GroupBy
<1>7. g \in [DOMAIN g -> Nat \ {0}]
    BY <1>1, <1>5, <1>6
<1>8. \A x : Count(g, x) = Cardinality(under(x))
    <2> SUFFICES ASSUME NEW x PROVE Count(g, x) = Cardinality(under(x))
        OBVIOUS
    <2>1. CASE x \in occurring
        BY <1>1, <2>1 DEF Count
    <2>2. CASE x \notin occurring
        <3>1. under(x) = {}
            BY <2>2
        <3>2. Cardinality(under(x)) = 0
            BY <1>3, <3>1
        <3>3. Count(g, x) = 0
            BY <1>1, <2>2 DEF Count
        <3> QED
            BY <3>2, <3>3
    <2> QED
        BY <2>1, <2>2
<1>9. DOMAIN g \subseteq K
    BY <1>1
<1> QED
    BY <1>2, <1>7, <1>8, <1>9

\* The counts by status (main.py:175-179).
LEMMA ByStatusIs ==
    ASSUME fleet \in Fleets
    PROVE  /\ DOMAIN ByStatus \subseteq Status
           /\ ByStatus \in [DOMAIN ByStatus -> Nat \ {0}]
           /\ ByStatusOf(ByStatus, fleet)
<1> DEFINE S == ValidRows
           key == [v \in S |-> fleet[v].status]
<1>1. S = ValidIn(fleet)
    BY ValidRowsIs
<1>2. \A v \in S : fleet[v] \in Row
    BY <1>1, ValidTyped
<1>3. key \in [S -> Status]
    BY <1>2 DEF Row
<1>4. ByStatus = GroupBy(key, S)
    <2>1. {fleet[v].status : v \in S} = {key[v] : v \in S}
        OBVIOUS
    <2>2. \A k : WithStatus(k) = {v \in S : key[v] = k}
        BY DEF WithStatus
    <2> QED
        BY <2>1, <2>2 DEF ByStatus, GroupBy
<1>5. \A x : StatusIn(x, fleet) = {v \in S : key[v] = x}
    BY <1>1 DEF StatusIn
<1>6. IsFiniteSet(S)
    BY <1>1, ValidTyped
<1> HIDE DEF S, key
<1>7. /\ Total(ByStatus) = Cardinality(S)
      /\ DOMAIN ByStatus \subseteq Status /\ ByStatus \in [DOMAIN ByStatus -> Nat \ {0}]
      /\ \A x : Count(ByStatus, x) = Cardinality({v \in S : key[v] = x})
    BY <1>3, <1>4, <1>6, Grouped
<1> QED
    BY <1>1, <1>5, <1>7 DEF ByStatusOf

\* A bucket holds the speeds from its number less one to its number, in knots
\* (main.py:208).
LEMMA BucketHolds ==
    ASSUME NEW sog \in Speed
    PROVE  /\ Bucket(sog) \in 1..21
           /\ 10 * (Bucket(sog) - 1) <= sog
           /\ Bucket(sog) <= 20 => sog < 10 * Bucket(sog)
<1> DEFINE q == sog \div 10
<1>1. sog \in 0..1023
    BY DEF Speed
<1>2. q \in Int /\ 10 * q <= sog /\ sog < 10 * q + 10
    BY <1>1
<1>3. Bucket(sog) = IF sog >= 200 THEN 21 ELSE q + 1
    BY DEF Bucket
<1> HIDE DEF q
<1> QED
    BY <1>1, <1>2, <1>3

\* A faster vessel is in no lower bucket.
LEMMA BucketOrder ==
    ASSUME NEW s \in Speed, NEW t \in Speed, s <= t
    PROVE  Bucket(s) <= Bucket(t)
<1>1. s \in Int /\ t \in Int
    BY DEF Speed
<1>2. /\ Bucket(s) \in 1..21 /\ 10 * (Bucket(s) - 1) <= s
      /\ Bucket(t) \in 1..21
      /\ Bucket(t) <= 20 => t < 10 * Bucket(t)
    BY BucketHolds
<1> HIDE DEF Bucket
<1> QED
    BY <1>1, <1>2

\* The counts by bucket (main.py:203-211).
LEMMA HistogramIs ==
    ASSUME fleet \in Fleets
    PROVE  /\ DOMAIN Histogram \subseteq 1..21
           /\ Histogram \in [DOMAIN Histogram -> Nat \ {0}]
           /\ HistogramOf(Histogram, fleet)
<1> DEFINE S == ValidRows
           key == [v \in S |-> Bucket(fleet[v].sog)]
<1>1. S = ValidIn(fleet)
    BY ValidRowsIs
<1>2. \A v \in S : Bucket(fleet[v].sog) \in 1..21
    <2>1. \A v \in S : fleet[v] \in Row
        BY <1>1, ValidTyped
    <2>2. \A v \in S : fleet[v].sog \in Speed
        BY <2>1 DEF Row
    <2> QED
        BY <2>2, BucketHolds
<1>3. key \in [S -> 1..21]
    BY <1>2
<1>4. Histogram = GroupBy(key, S)
    <2>1. {Bucket(fleet[v].sog) : v \in S} = {key[v] : v \in S}
        OBVIOUS
    <2>2. \A k : {v \in S : Bucket(fleet[v].sog) = k} = {v \in S : key[v] = k}
        OBVIOUS
    <2> QED
        BY <2>1, <2>2 DEF Histogram, HowMany, Those, GroupBy
<1>5. {key[v] : v \in S} = {Bucket(fleet[v].sog) : v \in ValidIn(fleet)}
    BY <1>1
<1>6. IsFiniteSet(S)
    BY <1>1, ValidTyped
<1> HIDE DEF S, key
<1>7. /\ Total(Histogram) = Cardinality(S)
      /\ DOMAIN Histogram \subseteq 1..21 /\ Histogram \in [DOMAIN Histogram -> Nat \ {0}]
    <2> DEFINE K == 1..21
    <2>1. key \in [S -> K]
        BY <1>3
    <2> HIDE DEF K
    <2>2. /\ Total(Histogram) = Cardinality(S)
          /\ DOMAIN Histogram \subseteq K /\ Histogram \in [DOMAIN Histogram -> Nat \ {0}]
        BY <2>1, <1>4, <1>6, Grouped
    <2> QED
        BY <2>2 DEF K
<1>8. DOMAIN Histogram = {key[v] : v \in S}
    BY <1>4 DEF GroupBy
<1> QED
    BY <1>1, <1>5, <1>7, <1>8 DEF HistogramOf

\* The row a query ordered by speed begins with (main.py:180-184).
LEMMA FastestIs ==
    ASSUME fleet \in Fleets, NEW v \in ValidRows, fleet[v].sog = MaxSog
    PROVE  FastestIn(v, fleet) /\ fleet[v].sog \in Speed
<1>1. ValidRows = ValidIn(fleet)
    BY ValidRowsIs
<1>2. PICK u \in ValidIn(fleet) : FastestIn(u, fleet) /\ MaxSog = fleet[u].sog
    BY <1>1, MaxSogIs DEF MaxSogOf
<1>3. FastestIn(v, fleet)
    BY <1>1, <1>2 DEF FastestIn
<1> QED
    BY <1>1, <1>3, ValidTyped DEF Row

-----------------------------------------------------------------------------
(* The invariant is inductive                                              *)

\* The table is empty and nothing is asked at first.
LEMMA FleetInitInv == FleetInit => FleetIInv
<1> SUFFICES ASSUME FleetInit PROVE FleetIInv
    OBVIOUS
<1> USE DEF FleetInit
<1>1. FleetTypeOK
    BY DEF FleetTypeOK, QueryPlace, Asking, ResultsOK
<1>2. ResultsOfSnapshots
    BY DEF ResultsOfSnapshots
<1>3. StaleSilent(fleet)
    BY DEF StaleSilent
<1> QED
    BY <1>1, <1>2, <1>3 DEF FleetIInv

\* Every report becomes a row, and none a STALE one (status.py:1-11,
\* normalizer.py:13-46).
LEMMA NormalizeTyped ==
    ASSUME NEW raw \in RawReport
    PROVE  Normalize(raw) \in Row /\ Normalize(raw).status # "STALE"
<1> DEFINE status == DeriveStatus(raw.NavigationalStatus, raw.Sog)
<1>1. raw \in [Sog : Speed, Cog : Course \union {NoValue},
               RateOfTurn : Turn \union {NoValue},
               NavigationalStatus : NavStatus \union {NoValue}, place : Coordinates]
    BY ReportAssumption
<1>2. /\ raw.Sog \in Speed /\ raw.Cog \in Course \union {NoValue}
      /\ raw.RateOfTurn \in Turn \union {NoValue} /\ raw.place \in Site
      /\ raw.NavigationalStatus \in NavStatus \union {NoValue}
    BY <1>1 DEF Site
<1>3. status \in Status \ {"STALE"}
    BY DEF DeriveStatus, Status
<1>4. (IF raw.RateOfTurn = -128 THEN NoValue ELSE raw.RateOfTurn)
         \in (-127..127) \union {NoValue}
    BY <1>2 DEF Turn
<1> HIDE DEF status
<1>5. Normalize(raw) = [sog |-> raw.Sog, cog |-> raw.Cog, nav |-> raw.NavigationalStatus,
                        rot |-> IF raw.RateOfTurn = -128 THEN NoValue ELSE raw.RateOfTurn,
                        status |-> status, place |-> raw.place, fresh |-> TRUE]
    BY DEF Normalize, status
<1> QED
    BY <1>2, <1>3, <1>4, <1>5 DEF Row

\* A transaction between two queries changes the vessels it counts as moved
\* only, so the snapshots stay what they are.
LEMMA CommitsInv ==
    ASSUME FleetIInv, NEW rows \in Fleets, NEW changed \in SUBSET Vessel,
           \A v \in Vessel \ changed : rows[v] = fleet[v], StaleSilent(rows),
           Commits(rows, changed)
    PROVE  FleetIInv'
<1> USE DEF FleetIInv, Commits
<1>1. FleetTypeOK'
    BY DEF FleetTypeOK, ResultsOK, Fits, Counts, Fleets
<1>2. query \in Asking => \A f \in Fleets : Snapshot(f) => Snapshot(f)'
    <2> SUFFICES ASSUME query \in Asking, NEW f \in Fleets, Snapshot(f),
                        NEW v \in Vessel \ moved'
                 PROVE  f[v] = fleet'[v]
        BY DEF Snapshot
    <2>1. v \notin moved /\ v \notin changed
        OBVIOUS
    <2> QED
        BY <2>1 DEF Snapshot
<1>3. ResultsOfSnapshots'
    <2>1. CASE query = "idle"
        BY <2>1 DEF ResultsOfSnapshots
    <2>2. CASE query \in Asking
        <3>1. \A f \in Fleets : Snapshot(f) => Snapshot(f)'
            BY <1>2, <2>2
        <3>2. query' = query /\ got' = got
            OBVIOUS
        <3> QED
            BY <3>1, <3>2 DEF ResultsOfSnapshots
    <2> QED
        BY <2>1, <2>2
<1>4. StaleSilent(fleet)'
    BY DEF StaleSilent
<1> QED
    BY <1>1, <1>3, <1>4

\* A position of any vessel is written (stream_processor/db.py:97-125).
LEMMA UpsertInv ==
    ASSUME FleetIInv, NEW v \in Vessel, NEW raw \in RawReport, Upsert(v, raw)
    PROVE  FleetIInv'
<1> DEFINE rows == [fleet EXCEPT ![v] = Normalize(raw)]
<1>1. fleet \in Fleets /\ StaleSilent(fleet)
    BY DEF FleetIInv, FleetTypeOK, Fleets
<1>2. rows \in Fleets
    BY <1>1, NormalizeTyped DEF Fleets
<1>3. \A u \in Vessel \ {v} : rows[u] = fleet[u]
    BY <1>1 DEF Fleets
<1>4. StaleSilent(rows)
    BY <1>1, NormalizeTyped DEF StaleSilent, Fleets
<1>5. Commits(rows, {v})
    BY DEF Upsert
<1> HIDE DEF rows
<1> QED
    BY <1>2, <1>3, <1>4, <1>5, CommitsInv

\* A row that grows old stays what it is.
LEMMA SilenceInv ==
    ASSUME FleetIInv, NEW v \in Vessel, Silence(v)
    PROVE  FleetIInv'
<1> DEFINE rows == [fleet EXCEPT ![v].fresh = FALSE]
<1>1. fleet \in Fleets /\ StaleSilent(fleet) /\ fleet[v] # NoRow
    BY DEF FleetIInv, FleetTypeOK, Fleets, Silence, Rows
<1>2. fleet[v] \in Row /\ rows[v] = [fleet[v] EXCEPT !.fresh = FALSE]
    BY <1>1 DEF Fleets
<1>3. rows[v] \in Row /\ ~rows[v].fresh
    <2>1. \A r \in Row : [r EXCEPT !.fresh = FALSE] \in Row
                         /\ ~[r EXCEPT !.fresh = FALSE].fresh
        BY DEF Row
    <2> HIDE DEF rows
    <2> QED
        BY <1>2, <2>1
<1>4. \A u \in Vessel \ {v} : rows[u] = fleet[u]
    BY <1>1 DEF Fleets
<1>5. rows \in Fleets
    BY <1>1, <1>3 DEF Fleets
<1>6. Commits(rows, {v})
    BY DEF Silence
<1> HIDE DEF rows
<1>7. StaleSilent(rows)
    BY <1>1, <1>3, <1>4 DEF StaleSilent
<1> QED
    BY <1>4, <1>5, <1>6, <1>7, CommitsInv

\* The cleanup marks rows that are silent (cleanup/main.py:17-24).
LEMMA MarkStaleInv == ASSUME FleetIInv, MarkStale PROVE FleetIInv'
<1> DEFINE rows == [v \in Vessel |-> IF v \in Silent THEN [fleet[v] EXCEPT !.status = "STALE"]
                                                     ELSE fleet[v]]
<1>1. fleet \in Fleets /\ StaleSilent(fleet)
    BY DEF FleetIInv, FleetTypeOK, Fleets
<1>2. \A v \in Silent : v \in Vessel /\ fleet[v] \in Row /\ ~fleet[v].fresh
    BY <1>1 DEF Silent, Rows, Fleets
<1>3. \A v \in Silent : rows[v] = [fleet[v] EXCEPT !.status = "STALE"]
    BY <1>2
<1>4. \A v \in Silent : rows[v] \in Row /\ ~rows[v].fresh
    BY <1>2, <1>3 DEF Row, Status
<1>5. \A v \in Vessel \ Silent : rows[v] = fleet[v]
    OBVIOUS
<1>6. rows \in Fleets
    <2>1. \A v \in Vessel : rows[v] \in Row \union {NoRow}
        BY <1>1, <1>4, <1>5 DEF Fleets
    <2> QED
        BY <2>1 DEF Fleets
<1>7. Commits(rows, Silent) /\ Silent \in SUBSET Vessel
    BY <1>2 DEF MarkStale
<1> HIDE DEF rows
<1>8. StaleSilent(rows)
    BY <1>1, <1>4, <1>5 DEF StaleSilent
<1> QED
    BY <1>5, <1>6, <1>7, <1>8, CommitsInv

\* The cleanup deletes rows that are silent (cleanup/main.py:27-33).
LEMMA PurgeInv ==
    ASSUME FleetIInv, NEW old \in SUBSET Silent, Purge(old)
    PROVE  FleetIInv'
<1> DEFINE rows == [v \in Vessel |-> IF v \in old THEN NoRow ELSE fleet[v]]
<1>1. fleet \in Fleets /\ StaleSilent(fleet)
    BY DEF FleetIInv, FleetTypeOK, Fleets
<1>2. rows \in Fleets
    BY <1>1 DEF Fleets
<1>3. \A v \in Vessel \ old : rows[v] = fleet[v]
    OBVIOUS
<1>4. StaleSilent(rows)
    BY <1>1 DEF StaleSilent
<1>5. Commits(rows, old) /\ old \in SUBSET Vessel
    BY DEF Purge, Silent, Rows
<1> HIDE DEF rows
<1> QED
    BY <1>2, <1>3, <1>4, <1>5, CommitsInv

\* No query changes the fleet or what a snapshot is.
LEMMA ReturnsKeeps ==
    ASSUME NEW at, NEW next, NEW results, FleetIInv, Returns(at, next, results)
    PROVE  /\ fleet' \in Fleets /\ moved' \in SUBSET Vessel /\ StaleSilent(fleet)'
           /\ \A f : Snapshot(f)' <=> Snapshot(f)
           /\ \E f \in Fleets : f = fleet /\ Snapshot(f)'
    BY DEF Returns, FleetIInv, FleetTypeOK, Fleets, StaleSilent, Snapshot

\* The first query keeps the invariant: its result is of the fleet as it is
\* (main.py:156-168).
LEMMA AggregateInv == ASSUME FleetIInv, Aggregate PROVE FleetIInv'
<1>1. /\ query' = "tracks" /\ got' = [agg |-> Aggregated]
      /\ fleet' \in Fleets /\ moved' \in SUBSET Vessel /\ StaleSilent(fleet)'
      /\ \E f \in Fleets : f = fleet /\ Snapshot(f)'
    BY ReturnsKeeps DEF Aggregate, Returns
<1>2. /\ "agg" \in DOMAIN got' /\ got'.agg \in Aggregates
      /\ AggregatedOf(got'.agg, fleet)
    BY <1>1, AggregatedIs DEF FleetIInv
<1>3. FleetTypeOK'
    BY <1>1, <1>2 DEF FleetTypeOK, ResultsOK, Fits, QueryPlace, Asking, Fleets
<1>4. \E f \in Fleets : Snapshot(f)' /\ AggregatedOf(got'.agg, f)
    BY <1>1, <1>2
<1>5. ResultsOfSnapshots'
    BY <1>1, <1>4 DEF ResultsOfSnapshots
<1> QED
    BY <1>1, <1>3, <1>5 DEF FleetIInv

\* So does the second, whose result is left out (main.py:169-174).
LEMMA CountTracksInv == ASSUME FleetIInv, CountTracks PROVE FleetIInv'
<1>1. /\ query = "tracks" /\ query' = "statuses" /\ got' = got
      /\ fleet' \in Fleets /\ moved' \in SUBSET Vessel /\ StaleSilent(fleet)'
      /\ \A f : Snapshot(f)' <=> Snapshot(f)
    BY ReturnsKeeps DEF CountTracks, Returns
<1>2. FleetTypeOK'
    BY <1>1 DEF FleetIInv, FleetTypeOK, ResultsOK, Fits, QueryPlace, Asking, Fleets
<1>3. ResultsOfSnapshots'
    BY <1>1 DEF FleetIInv, ResultsOfSnapshots
<1> QED
    BY <1>1, <1>2, <1>3 DEF FleetIInv

\* The counts by status are of the fleet as it is, the aggregates of an earlier
\* one (main.py:175-179).
LEMMA GroupStatusesInv == ASSUME FleetIInv, GroupStatuses PROVE FleetIInv'
<1>1. /\ query = "statuses" /\ query' = "leader" /\ got' = With("by_status", ByStatus)
      /\ fleet' \in Fleets /\ moved' \in SUBSET Vessel /\ StaleSilent(fleet)'
      /\ \A f : Snapshot(f)' <=> Snapshot(f)
      /\ \E f \in Fleets : f = fleet /\ Snapshot(f)'
    BY ReturnsKeeps DEF GroupStatuses, Returns
<1>2. "agg" \in DOMAIN got /\ got.agg \in Aggregates
    BY <1>1 DEF FleetIInv, FleetTypeOK, ResultsOK, Fits
<1>3. /\ "agg" \in DOMAIN got' /\ got'.agg = got.agg
      /\ "by_status" \in DOMAIN got' /\ got'.by_status = ByStatus
    BY <1>1, <1>2 DEF With
<1>4. FleetTypeOK'
    BY <1>1, <1>2, <1>3, ByStatusIs
    DEF FleetTypeOK, ResultsOK, Fits, Counts, QueryPlace, Asking, Fleets
<1>5. \E f \in Fleets : Snapshot(f)' /\ AggregatedOf(got'.agg, f)
    BY <1>1, <1>3 DEF FleetIInv, ResultsOfSnapshots
<1>6. \E f \in Fleets : Snapshot(f)' /\ ByStatusOf(got'.by_status, f)
    BY <1>1, <1>3, ByStatusIs
<1>7. ResultsOfSnapshots'
    BY <1>1, <1>5, <1>6 DEF ResultsOfSnapshots
<1> QED
    BY <1>1, <1>4, <1>7 DEF FleetIInv

\* Whatever the last query of the summary finds, one row or none, the invariant
\* is kept (main.py:180-184).
LEMMA LeaderInv ==
    ASSUME FleetIInv, NEW t \in VesselLeader \union {NoValue}, FoundOf(t, fleet),
           Returns("leader", "summary", With("fastest", t))
    PROVE  FleetIInv'
<1>1. /\ query = "leader" /\ query' = "summary" /\ got' = With("fastest", t)
      /\ fleet' \in Fleets /\ moved' \in SUBSET Vessel /\ StaleSilent(fleet)'
      /\ \A f : Snapshot(f)' <=> Snapshot(f)
      /\ \E f \in Fleets : f = fleet /\ Snapshot(f)'
    BY ReturnsKeeps DEF Returns
<1>2. /\ "agg" \in DOMAIN got /\ got.agg \in Aggregates
      /\ "by_status" \in DOMAIN got /\ DOMAIN got.by_status \subseteq Status
      /\ got.by_status \in [DOMAIN got.by_status -> Nat \ {0}]
    BY <1>1 DEF FleetIInv, FleetTypeOK, ResultsOK, Fits, Counts
<1>3. /\ "agg" \in DOMAIN got' /\ got'.agg = got.agg
      /\ "by_status" \in DOMAIN got' /\ got'.by_status = got.by_status
      /\ "fastest" \in DOMAIN got' /\ got'.fastest = t
    BY <1>1, <1>2 DEF With
<1>4. FleetTypeOK'
    BY <1>1, <1>2, <1>3 DEF FleetTypeOK, ResultsOK, Fits, Counts, QueryPlace, Asking, Fleets
<1>5. \E f \in Fleets : Snapshot(f)' /\ AggregatedOf(got'.agg, f)
    BY <1>1, <1>3 DEF FleetIInv, ResultsOfSnapshots
<1>6. \E f \in Fleets : Snapshot(f)' /\ ByStatusOf(got'.by_status, f)
    BY <1>1, <1>3 DEF FleetIInv, ResultsOfSnapshots
<1>7. \E f \in Fleets : Snapshot(f)' /\ FoundOf(got'.fastest, f)
    BY <1>1, <1>3
<1>8. ResultsOfSnapshots'
    BY <1>1, <1>5, <1>6, <1>7 DEF ResultsOfSnapshots
<1> QED
    BY <1>1, <1>4, <1>8 DEF FleetIInv

\* One row is found: any of the fastest (main.py:180-184).
LEMMA FindFastestInv ==
    ASSUME FleetIInv, NEW v \in Vessel, FindFastest(v)
    PROVE  FleetIInv'
<1> DEFINE t == [mmsi |-> v, sog |-> fleet[v].sog]
<1>1. fleet \in Fleets /\ v \in ValidRows /\ fleet[v].sog = MaxSog
    BY DEF FleetIInv, FleetTypeOK, Fleets, FindFastest
<1>2. FastestIn(v, fleet) /\ fleet[v].sog \in Speed
    BY <1>1, FastestIs
<1>3. t \in VesselLeader
    BY <1>2 DEF VesselLeader
<1>4. FoundOf(t, fleet)
    BY <1>2 DEF FoundOf, FastestIn
<1>5. Returns("leader", "summary", With("fastest", t))
    BY DEF FindFastest
<1> HIDE DEF t
<1> QED
    BY <1>3, <1>4, <1>5, LeaderInv

\* There is no row to be found (main.py:180-184).
LEMMA FindNoneInv == ASSUME FleetIInv, FindNone PROVE FleetIInv'
<1>1. ValidIn(fleet) = {}
    BY ValidRowsIs DEF FindNone
<1>2. FoundOf(NoValue, fleet)
    BY <1>1 DEF FoundOf
<1> QED
    BY <1>2, LeaderInv DEF FindNone

\* The buckets are of the fleet as it is (main.py:203-211).
LEMMA GroupSpeedsInv == ASSUME FleetIInv, GroupSpeeds PROVE FleetIInv'
<1>1. /\ query' = "stats" /\ got' = [buckets |-> Histogram]
      /\ fleet' \in Fleets /\ moved' \in SUBSET Vessel /\ StaleSilent(fleet)'
      /\ \E f \in Fleets : f = fleet /\ Snapshot(f)'
    BY ReturnsKeeps DEF GroupSpeeds, Returns
<1>2. "buckets" \in DOMAIN got' /\ got'.buckets = Histogram
    BY <1>1
<1>3. FleetTypeOK'
    BY <1>1, <1>2, HistogramIs
    DEF FleetTypeOK, ResultsOK, Counts, QueryPlace, Asking, Fleets
<1>4. \E f \in Fleets : Snapshot(f)' /\ HistogramOf(got'.buckets, f)
    BY <1>1, <1>2, HistogramIs
<1>5. ResultsOfSnapshots'
    BY <1>1, <1>4 DEF ResultsOfSnapshots
<1> QED
    BY <1>1, <1>3, <1>5 DEF FleetIInv

\* The maximum is of the fleet as it is, the buckets of an earlier one
\* (main.py:212-218).
LEMMA SpeedStatsInv == ASSUME FleetIInv, SpeedStats PROVE FleetIInv'
<1> DEFINE t == [max_sog |-> MaxSog, sample_n |-> Cardinality(ValidRows)]
<1>1. /\ query = "stats" /\ query' = "speed" /\ got' = With("stats", t)
      /\ fleet' \in Fleets /\ moved' \in SUBSET Vessel /\ StaleSilent(fleet)'
      /\ \A f : Snapshot(f)' <=> Snapshot(f)
      /\ \E f \in Fleets : f = fleet /\ Snapshot(f)'
    BY ReturnsKeeps DEF SpeedStats, Returns
<1>2. /\ "buckets" \in DOMAIN got /\ DOMAIN got.buckets \subseteq 1..21
      /\ got.buckets \in [DOMAIN got.buckets -> Nat \ {0}]
    BY <1>1 DEF FleetIInv, FleetTypeOK, ResultsOK, Counts
<1>3. ValidRows = ValidIn(fleet)
    BY ValidRowsIs
<1>4. t \in SpeedFigures /\ StatsOf(t, fleet)
    BY <1>1, <1>3, MaxSogIs, FilterSize DEF SpeedFigures, StatsOf
<1> HIDE DEF t
<1>5. /\ "buckets" \in DOMAIN got' /\ got'.buckets = got.buckets
      /\ "stats" \in DOMAIN got' /\ got'.stats = t
    BY <1>1, <1>2 DEF With
<1>6. FleetTypeOK'
    BY <1>1, <1>2, <1>4, <1>5
    DEF FleetTypeOK, ResultsOK, Fits, Counts, QueryPlace, Asking, Fleets
<1>7. \E f \in Fleets : Snapshot(f)' /\ HistogramOf(got'.buckets, f)
    BY <1>1, <1>5 DEF FleetIInv, ResultsOfSnapshots
<1>8. \E f \in Fleets : Snapshot(f)' /\ StatsOf(got'.stats, f)
    BY <1>1, <1>4, <1>5
<1>9. ResultsOfSnapshots'
    BY <1>1, <1>7, <1>8 DEF ResultsOfSnapshots
<1> QED
    BY <1>1, <1>6, <1>9 DEF FleetIInv

\* The request is over (main.py:185-200).
LEMMA ResetInv == ASSUME FleetIInv, Reset PROVE FleetIInv'
<1> USE DEF Reset
<1>1. FleetTypeOK'
    BY DEF FleetIInv, FleetTypeOK, ResultsOK, QueryPlace, Asking
<1>2. ResultsOfSnapshots'
    BY DEF ResultsOfSnapshots
<1>3. StaleSilent(fleet)'
    BY DEF FleetIInv, StaleSilent
<1> QED
    BY <1>1, <1>2, <1>3 DEF FleetIInv

\* Each step of a request keeps the invariant (main.py:153-220).
LEMMA RequestStepInv == ASSUME FleetIInv, RequestStep PROVE FleetIInv'
<1>1. CASE Aggregate
    BY <1>1, AggregateInv
<1>2. CASE CountTracks
    BY <1>2, CountTracksInv
<1>3. CASE GroupStatuses
    BY <1>3, GroupStatusesInv
<1>4. ASSUME NEW v \in Vessel, FindFastest(v) PROVE FleetIInv'
    BY <1>4, FindFastestInv
<1>5. CASE FindNone
    BY <1>5, FindNoneInv
<1>6. CASE GroupSpeeds
    BY <1>6, GroupSpeedsInv
<1>7. CASE SpeedStats
    BY <1>7, SpeedStatsInv
<1>8. CASE Respond
    BY <1>8, ResetInv DEF Respond
<1>9. CASE QueryFails
    BY <1>9, ResetInv DEF QueryFails
<1> QED
    BY <1>1, <1>2, <1>3, <1>4, <1>5, <1>6, <1>7, <1>8, <1>9 DEF RequestStep

\* Every step keeps the invariant.
LEMMA FleetNextInv == ASSUME FleetIInv, [FleetNext]_fleetVars PROVE FleetIInv'
<1>1. ASSUME NEW v \in Vessel, Silence(v) PROVE FleetIInv'
    BY <1>1, SilenceInv
<1>2. ASSUME NEW v \in Vessel, NEW r \in RawReport, Upsert(v, r) PROVE FleetIInv'
    BY <1>2, UpsertInv
<1>3. CASE MarkStale
    BY <1>3, MarkStaleInv
<1>4. ASSUME NEW old \in SUBSET Silent, Purge(old) PROVE FleetIInv'
    BY <1>4, PurgeInv
<1>5. CASE RequestStep
    BY <1>5, RequestStepInv
<1>6. CASE UNCHANGED fleetVars
    <2> USE <1>6 DEF fleetVars, request, FleetIInv
    <2>1. FleetTypeOK'
        BY DEF FleetTypeOK, ResultsOK, Fits, Counts
    <2>2. \A f : Snapshot(f)' <=> Snapshot(f)
        BY DEF Snapshot
    <2>3. ResultsOfSnapshots'
        BY <2>2 DEF ResultsOfSnapshots
    <2>4. StaleSilent(fleet)'
        BY DEF StaleSilent
    <2> QED
        BY <2>1, <2>3, <2>4
<1> QED
    BY <1>1, <1>2, <1>3, <1>4, <1>5, <1>6 DEF FleetNext

-----------------------------------------------------------------------------
(* Answers made from several queries                                       *)

\* Two snapshots differ in the vessels that moved only, and what is counted in
\* them by no more than those.
LEMMA SnapshotsAgree ==
    ASSUME FleetTypeOK, NEW f \in Fleets, Snapshot(f), NEW g \in Fleets, Snapshot(g)
    PROVE  /\ \A v \in Vessel \ moved : f[v] = g[v]
           /\ moved = {} => f = g
           /\ Gap(Cardinality(ValidIn(f)), Cardinality(ValidIn(g))) <= Cardinality(moved)
           /\ \A s : Gap(Cardinality(StatusIn(s, f)), Cardinality(StatusIn(s, g)))
                        <= Cardinality(moved)
<1>1. \A v \in Vessel \ moved : f[v] = g[v]
    BY DEF Snapshot
<1>2. moved = {} => f = g
    BY <1>1 DEF Fleets
<1>3. IsFiniteSet(moved)
    BY VesselAssumption, FS_Subset DEF FleetTypeOK
<1>4. /\ ValidIn(f) \subseteq ValidIn(g) \union moved
      /\ ValidIn(g) \subseteq ValidIn(f) \union moved
    BY <1>1, VesselAssumption DEF ValidIn
<1>5. IsFiniteSet(ValidIn(f)) /\ IsFiniteSet(ValidIn(g))
    BY ValidTyped
<1>6. ASSUME NEW s
      PROVE  Gap(Cardinality(StatusIn(s, f)), Cardinality(StatusIn(s, g))) <= Cardinality(moved)
    <2>1. IsFiniteSet(StatusIn(s, f)) /\ IsFiniteSet(StatusIn(s, g))
        BY FilterSize DEF StatusIn
    <2>2. /\ StatusIn(s, f) \subseteq StatusIn(s, g) \union moved
          /\ StatusIn(s, g) \subseteq StatusIn(s, f) \union moved
        BY <1>1, <1>4, VesselAssumption DEF StatusIn, ValidIn
    <2> QED
        BY <1>3, <2>1, <2>2, GapBound
<1> QED
    BY <1>1, <1>2, <1>3, <1>4, <1>5, <1>6, GapBound

\* The summary's figures agree but for what moved.
LEMMA SummaryFollows == ASSUME FleetIInv PROVE SummaryAgrees
<1> SUFFICES ASSUME query = "summary" PROVE SummaryAgrees
    BY DEF SummaryAgrees
<1> DEFINE a == got["agg"]
           s == got["by_status"]
           t == got["fastest"]
<1>1. FleetTypeOK
    BY DEF FleetIInv
<1>2. PICK f \in Fleets : Snapshot(f) /\ AggregatedOf(a, f)
    BY DEF FleetIInv, ResultsOfSnapshots
<1>3. PICK g \in Fleets : Snapshot(g) /\ ByStatusOf(s, g)
    BY DEF FleetIInv, ResultsOfSnapshots
<1>4. PICK h \in Fleets : Snapshot(h) /\ FoundOf(t, h)
    BY DEF FleetIInv, ResultsOfSnapshots
<1>5. a \in Aggregates /\ t \in VesselLeader \union {NoValue}
    BY DEF FleetIInv, FleetTypeOK, ResultsOK, Fits
<1> HIDE DEF a, s, t
<1>6. a.moving + a.idle = a.total /\ a.fresh + a.stale <= a.total
    BY <1>2 DEF AggregatedOf
<1>7. /\ Gap(a.total, Total(s)) <= Cardinality(moved)
      /\ Gap(a.stale, Count(s, "STALE")) <= Cardinality(moved)
      /\ Gap(a.anchored, Count(s, "ANCHORED")) <= Cardinality(moved)
      /\ Gap(a.moored, Count(s, "MOORED")) <= Cardinality(moved)
    <2>1. /\ Gap(Cardinality(ValidIn(f)), Cardinality(ValidIn(g))) <= Cardinality(moved)
          /\ \A x : Gap(Cardinality(StatusIn(x, f)), Cardinality(StatusIn(x, g)))
                       <= Cardinality(moved)
        BY <1>1, <1>2, <1>3, SnapshotsAgree
    <2>2. "STALE" \in Status /\ "ANCHORED" \in Status /\ "MOORED" \in Status
        BY DEF Status
    <2> QED
        BY <1>2, <1>3, <2>1, <2>2 DEF AggregatedOf, ByStatusOf
<1>8. \A v \in ValidIn(h) \ moved : v \in ValidIn(f) /\ f[v] = h[v]
    <2>1. \A v \in Vessel \ moved : f[v] = h[v]
        BY <1>1, <1>2, <1>4, SnapshotsAgree
    <2> QED
        BY <2>1, VesselAssumption DEF ValidIn
<1>9. ASSUME t # NoValue, a.max_sog # NoValue, t.mmsi \notin moved
      PROVE  t.sog <= a.max_sog
    <2>1. t.mmsi \in ValidIn(h) /\ t.sog = h[t.mmsi].sog
        BY <1>4, <1>9 DEF FoundOf, FastestIn
    <2>2. t.mmsi \in ValidIn(f) /\ f[t.mmsi] = h[t.mmsi]
        BY <1>8, <1>9, <2>1
    <2>3. PICK v \in ValidIn(f) : FastestIn(v, f) /\ a.max_sog = f[v].sog
        BY <1>2, <2>2 DEF AggregatedOf, MaxSogOf
    <2> QED
        BY <2>1, <2>2, <2>3 DEF FastestIn
<1>10. a.total = 0 <=> ValidIn(f) = {}
    BY <1>2, FilterSize DEF AggregatedOf
<1>11. ASSUME moved = {}, a.total = 0 PROVE t = NoValue /\ a.max_sog = NoValue
    <2>1. h = f
        BY <1>1, <1>2, <1>4, <1>11, SnapshotsAgree
    <2> QED
        BY <1>2, <1>4, <1>10, <1>11, <2>1 DEF AggregatedOf, MaxSogOf, FoundOf
<1>12. ASSUME moved = {}, a.total # 0 PROVE t.sog = a.max_sog
    <2>1. h = f
        BY <1>1, <1>2, <1>4, <1>12, SnapshotsAgree
    <2>2. ValidIn(f) # {}
        BY <1>10, <1>12
    <2>3. FastestIn(t.mmsi, f) /\ t.sog = f[t.mmsi].sog
        BY <1>4, <2>1, <2>2 DEF FoundOf
    <2>4. PICK v \in ValidIn(f) : FastestIn(v, f) /\ a.max_sog = f[v].sog
        BY <1>2, <2>2 DEF AggregatedOf, MaxSogOf
    <2>5. f[v].sog <= f[t.mmsi].sog /\ f[t.mmsi].sog <= f[v].sog
        BY <2>3, <2>4 DEF FastestIn
    <2>6. f[v].sog \in Int /\ f[t.mmsi].sog \in Int
        <3>1. f[v] \in Row /\ f[t.mmsi] \in Row
            BY <2>3, <2>4, ValidTyped DEF FastestIn
        <3>2. \A r \in Row : r.sog \in Int
            BY DEF Row, Speed
        <3> QED
            BY <3>1, <3>2
    <2> QED
        BY <2>3, <2>4, <2>5, <2>6
<1> QED
    BY <1>6, <1>7, <1>9, <1>11, <1>12 DEF SummaryAgrees, a, s, t

\* The speeds' figures agree but for what moved; without that, the fastest is in
\* the last bucket.
LEMMA SpeedFollows == ASSUME FleetIInv PROVE SpeedAgrees
<1> SUFFICES ASSUME query = "speed" PROVE SpeedAgrees
    BY DEF SpeedAgrees
<1> DEFINE b == got["buckets"]
           t == got["stats"]
<1>1. FleetTypeOK
    BY DEF FleetIInv
<1>2. PICK f \in Fleets : Snapshot(f) /\ HistogramOf(b, f)
    BY DEF FleetIInv, ResultsOfSnapshots
<1>3. PICK g \in Fleets : Snapshot(g) /\ StatsOf(t, g)
    BY DEF FleetIInv, ResultsOfSnapshots
<1>4. DOMAIN b \subseteq 1..21
    BY DEF FleetIInv, FleetTypeOK, ResultsOK, Counts
<1> HIDE DEF b, t
<1>5. Gap(Total(b), t.sample_n) <= Cardinality(moved)
    <2>1. Gap(Cardinality(ValidIn(f)), Cardinality(ValidIn(g))) <= Cardinality(moved)
        BY <1>1, <1>2, <1>3, SnapshotsAgree
    <2> QED
        BY <1>2, <1>3, <2>1 DEF HistogramOf, StatsOf
<1>6. ASSUME moved = {}, t.sample_n > 0 PROVE Bucket(t.max_sog) = Max(DOMAIN b)
    <2>1. g = f
        BY <1>1, <1>2, <1>3, <1>6, SnapshotsAgree
    <2>2. ValidIn(f) # {}
        BY <1>3, <1>6, <2>1, FilterSize DEF StatsOf
    <2>3. PICK v \in ValidIn(f) : FastestIn(v, f) /\ t.max_sog = f[v].sog
        BY <1>3, <2>1, <2>2 DEF StatsOf, MaxSogOf
    <2>4. \A u \in ValidIn(f) : f[u].sog \in Speed /\ f[u].sog <= f[v].sog
        <3>1. \A u \in ValidIn(f) : f[u] \in Row
            BY ValidTyped
        <3> QED
            BY <2>3, <3>1 DEF FastestIn, Row
    <2>5. \A u \in ValidIn(f) : Bucket(f[u].sog) <= Bucket(t.max_sog)
        BY <2>3, <2>4, BucketOrder
    <2>6. /\ \A x \in DOMAIN b : x <= Bucket(t.max_sog)
          /\ Bucket(t.max_sog) \in DOMAIN b
        BY <1>2, <2>3, <2>5 DEF HistogramOf
    <2>7. DOMAIN b \in SUBSET Int /\ Bucket(t.max_sog) \in Int
        BY <1>4, <2>6
    <2> DEFINE D == DOMAIN b
               m == Bucket(t.max_sog)
    <2> HIDE DEF D, m
    <2>8. /\ D \in SUBSET Int /\ m \in Int /\ m \in D /\ D # {} /\ \A x \in D : x <= m
        BY <2>6, <2>7 DEF D, m
    <2>9. Max(D) \in D /\ \A x \in D : x <= Max(D)
        BY <2>8, MaxIs
    <2>10. Max(D) <= m /\ m <= Max(D) /\ Max(D) \in Int
        BY <2>8, <2>9
    <2>11. m = Max(D)
        BY <2>8, <2>10
    <2> QED
        BY <2>11 DEF D, m
<1> QED
    BY <1>5, <1>6 DEF SpeedAgrees, b, t

-----------------------------------------------------------------------------
(* Distributions                                                           *)

\* A course is in the sector nearest to it, that of north on either side
\* (main.py:263).
LEMMA SectorNearest ==
    ASSUME NEW cog \in Nat, cog < 3600
    PROVE  Sector(cog) \in 0..15 /\ Deviation(cog, Sector(cog)) <= 112
<1> DEFINE q == (2 * cog + 225) \div 450
<1>1. q \in Int /\ 450 * q <= 2 * cog + 225 /\ 2 * cog + 225 < 450 * q + 450
    OBVIOUS
<1>2. Sector(cog) = q % 16
    BY DEF Sector
<1>3. 0 <= q /\ q <= 16
    <2> HIDE DEF q
    <2> QED
        BY <1>1
<1> HIDE DEF q
<1>4. CASE q = 16
    <2>1. Sector(cog) = 0
        BY <1>2, <1>4
    <2>2. cog > 3487
        BY <1>1, <1>4
    <2> QED
        BY <2>1, <2>2 DEF Deviation, Gap
<1>5. CASE q \in 0..15
    <2>1. Sector(cog) = q
        BY <1>2, <1>5
    <2>2. Gap(cog, q * 225) <= 112 /\ Gap(cog, q * 225) \in Int
        BY <1>1, <1>5 DEF Gap
    <2>3. Deviation(cog, q) = Gap(cog, q * 225)
        BY <2>2 DEF Deviation
    <2> QED
        BY <1>5, <2>1, <2>2, <2>3
<1> QED
    BY <1>1, <1>3, <1>4, <1>5

\* The label that stands for a code, or for none (main.py:37-49).
LabelOf(nav) == IF nav = NoValue THEN {} ELSE IF nav \in 9..13 THEN 9..13 ELSE {nav}

\* Every code has one label.
LEMMA OneLabel ==
    ASSUME NEW nav \in NavStatus \union {NoValue}
    PROVE  /\ LabelOf(nav) \in Labels
           /\ \A l \in Labels : Labelled(nav, l) <=> LabelOf(nav) = l
<1>1. CASE nav = NoValue
    BY <1>1 DEF LabelOf, Labelled, Labels
<1>2. CASE nav # NoValue
    <2>1. nav \in NavStatus /\ nav \in Int
        BY <1>2 DEF NavStatus
    <2>2. LabelOf(nav) \in Labels /\ nav \in LabelOf(nav)
        BY <1>2, <2>1 DEF LabelOf, Labels
    <2>3. ASSUME NEW l \in Labels, nav \in l PROVE LabelOf(nav) = l
        <3>1. CASE l = 9..13
            BY <1>2, <2>3, <3>1 DEF LabelOf
        <3>2. CASE l # 9..13
            <4>1. PICK n \in NavStatus \ 9..13 : l = {n}
                BY <2>3, <3>2 DEF Labels
            <4> QED
                BY <1>2, <2>3, <4>1 DEF LabelOf
        <3> QED
            BY <3>1, <3>2
    <2> QED
        BY <1>2, <2>2, <2>3 DEF Labelled
<1> QED
    BY <1>1, <1>2

\* The labels' counts add up to the vessels (main.py:235-255).
LEMMA NavigationTotal == ASSUME FleetTypeOK PROVE Total(Navigation) = Cardinality(ValidRows)
<1> DEFINE S == ValidRows
           key == [v \in S |-> LabelOf(fleet[v].nav)]
           under(l) == {v \in S : key[v] = l}
<1>1. S = ValidIn(fleet) /\ fleet \in Fleets
    BY ValidRowsIs DEF FleetTypeOK, Fleets
<1>2. IsFiniteSet(S) /\ \A v \in S : fleet[v] \in Row
    BY <1>1, ValidTyped
<1>3. \A v \in S : fleet[v].nav \in NavStatus \union {NoValue}
    BY <1>2 DEF Row
<1>4. key \in [S -> Labels]
    BY <1>3, OneLabel
<1>5. \A l \in Labels : {v \in S : Labelled(fleet[v].nav, l)} = under(l)
    BY <1>3, OneLabel
<1>6. \A l \in Labels : HowMany(LAMBDA r : Labelled(r.nav, l)) = Cardinality(under(l))
    BY <1>5 DEF HowMany, Those
<1>7. DOMAIN Navigation = Labels /\ \A l \in Labels : Navigation[l] = Cardinality(under(l))
    BY <1>6 DEF Navigation
<1> HIDE DEF S, key
<1>8. Total(Navigation) = Cardinality(S)
    BY <1>2, <1>4, <1>7, CountedOnce
<1> QED
    BY <1>8 DEF S

\* The sectors' counts add up to the vessels with a course, and each is in the
\* sector nearest to its own (main.py:258-281).
LEMMA FlowTotal ==
    ASSUME FleetTypeOK
    PROVE  /\ Total(Flow) = Cardinality(Flowing)
           /\ \A v \in Flowing : Deviation(fleet[v].cog, Sector(fleet[v].cog)) <= 112
<1> DEFINE S == Flowing
           key == [v \in S |-> Sector(fleet[v].cog)]
<1>1. S \subseteq ValidIn(fleet) /\ fleet \in Fleets
    BY ValidRowsIs DEF Flowing, Those, FleetTypeOK, Fleets
<1>2. IsFiniteSet(S)
    BY <1>1, FilterSize
<1>3. \A v \in S : fleet[v] \in Row
    BY <1>1, ValidTyped
<1>4. \A v \in S : fleet[v].cog \in Nat /\ fleet[v].cog < 3600
    <2> SUFFICES ASSUME NEW v \in S PROVE fleet[v].cog \in Nat /\ fleet[v].cog < 3600
        OBVIOUS
    <2>1. fleet[v].cog \in Course \union {NoValue}
        <3>1. \A r \in Row : r.cog \in Course \union {NoValue}
            BY DEF Row
        <3> QED
            BY <1>3, <3>1
    <2>2. fleet[v].cog # NoValue /\ fleet[v].cog < 3600
        BY DEF Flowing, Those
    <2>3. \A c \in Course : c \in Nat
        BY DEF Course
    <2> QED
        BY <2>1, <2>2, <2>3
<1>5. \A v \in S : /\ Sector(fleet[v].cog) \in 0..15
                   /\ Deviation(fleet[v].cog, Sector(fleet[v].cog)) <= 112
    BY <1>4, SectorNearest
<1>6. Flow = GroupBy(key, S)
    <2>1. {Sector(fleet[v].cog) : v \in S} = {key[v] : v \in S}
        OBVIOUS
    <2>2. \A k : {v \in S : Sector(fleet[v].cog) = k} = {v \in S : key[v] = k}
        OBVIOUS
    <2> QED
        BY <2>1, <2>2 DEF Flow, GroupBy
<1> DEFINE K == 0..15
<1>7. key \in [S -> K]
    BY <1>5
<1> HIDE DEF S, key, K
<1>8. Total(Flow) = Cardinality(S)
    BY <1>2, <1>6, <1>7, Grouped
<1> QED
    BY <1>5, <1>8 DEF S

\* The distributions are right of any rows.
LEMMA DistributionsFollow == ASSUME FleetTypeOK PROVE DistributionsRight
<1>1. ValidRows = ValidIn(fleet) /\ fleet \in Fleets
    BY ValidRowsIs DEF FleetTypeOK, Fleets
<1>2. \A v \in ValidRows : fleet[v] \in Row
    BY <1>1, ValidTyped
<1>3. \A v \in ValidRows : fleet[v].sog \in Speed
    BY <1>2 DEF Row
<1>4. \A v \in ValidRows : LET b == Bucket(fleet[v].sog)
                           IN  /\ 10 * (b - 1) <= fleet[v].sog
                               /\ b <= 20 => fleet[v].sog < 10 * b
    BY <1>3, BucketHolds
<1> QED
    BY <1>4, NavigationTotal, FlowTotal DEF DistributionsRight

-----------------------------------------------------------------------------
(* Turns                                                                   *)

\* A greater rate decodes to no fewer degrees (main.py:67).
LEMMA DegMinOrder ==
    ASSUME NEW m \in 0..126, NEW n \in 0..126, m <= n
    PROVE  DegMin[m] \in Nat /\ DegMin[m] <= DegMin[n]
<1> DEFINE steps(r) == {k \in 1..540 : 100 * (2 * k - 1) * (2 * k - 1) <= 4 * 224013 * r}
<1>1. steps(m) \subseteq steps(n)
    <2>1. 4 * 224013 * m <= 4 * 224013 * n
        OBVIOUS
    <2>2. \A x \in Int : x <= 4 * 224013 * m => x <= 4 * 224013 * n
        BY <2>1
    <2> QED
        BY <2>2
<1>2. IsFiniteSet(steps(m)) /\ IsFiniteSet(steps(n))
    <2>1. 1 \in Int /\ 540 \in Int
        OBVIOUS
    <2>2. IsFiniteSet(1..540)
        BY <2>1, FS_Interval
    <2>3. \A r : \A k \in steps(r) : k \in 1..540
        OBVIOUS
    <2> HIDE DEF steps
    <2>4. steps(m) \subseteq 1..540 /\ steps(n) \subseteq 1..540
        BY <2>3
    <2> QED
        BY <2>2, <2>4, FS_Subset
<1>3. DegMin[m] = Cardinality(steps(m)) /\ DegMin[n] = Cardinality(steps(n))
    BY DEF DegMin
<1> HIDE DEF steps
<1> QED
    BY <1>1, <1>2, <1>3, FS_Subset, FS_CardinalityType

\* What a rate decodes to (main.py:58-69).
LEMMA Decoded ==
    ASSUME NEW rot \in -127..127
    PROVE  /\ Magnitude(rot) \in 0..127
           /\ DecodeRot(rot).effective \in Nat
           /\ Magnitude(rot) # 127 => /\ DecodeRot(rot).effective = DegMin[Magnitude(rot)]
                                      /\ rot > 0 => DecodeRot(rot).direction = "starboard"
                                      /\ ~(rot > 0) => DecodeRot(rot).direction = "port"
<1>1. Magnitude(rot) \in 0..127
    BY DEF Magnitude
<1>2. CASE Magnitude(rot) = 127
    BY <1>1, <1>2 DEF DecodeRot
<1>3. CASE Magnitude(rot) # 127
    <2>1. Magnitude(rot) \in 0..126 /\ ~(Magnitude(rot) >= 127)
        BY <1>1, <1>3
    <2>2. DegMin[Magnitude(rot)] \in Nat
        <3>1. PICK m \in 0..126 : m = Magnitude(rot)
            BY <2>1
        <3>2. m <= m
            BY <3>1
        <3>3. DegMin[m] \in Nat
            BY <3>2, DegMinOrder
        <3> QED
            BY <3>1, <3>3
    <2> QED
        BY <1>1, <2>1, <2>2 DEF DecodeRot
<1> QED
    BY <1>2, <1>3

\* Of a finite set its first members are taken, up to a limit: if one is left
\* out, the limit is reached.
LEMMA LimitReached ==
    ASSUME NEW S, IsFiniteSet(S), NEW top \in SUBSET S, NEW limit \in Nat,
           Cardinality(top) = Min({limit, Cardinality(S)}), top # S
    PROVE  Cardinality(top) = limit
<1>1. Cardinality(S) \in Nat
    BY FS_CardinalityType
<1>2. Cardinality(top) # Cardinality(S)
    BY FS_Subset
<1> QED
    BY <1>1, <1>2, MinOfTwo

\* Whichever rows come first by rate, a vessel left out turns too slowly or the
\* limit is reached, and no slower one is listed (main.py:284-311).
LEMMA ManeuveringFollows == ASSUME FleetTypeOK PROVE ManeuveringRight
<1> DEFINE Rate(v) == Magnitude(fleet[v].rot)
           Eff(v) == DecodeRot(fleet[v].rot).effective
<1> SUFFICES ASSUME NEW top \in FirstTurning, NEW min \in Threshold, NEW v \in Turning
             PROVE  LET shown == Maneuvering(top, min)
                    IN  /\ \/ v \in shown \/ Eff(v) < min
                           \/ Cardinality({u \in Turning \ {v} : Rate(u) >= Rate(v)})
                                 >= TurnLimit
                        /\ v \notin shown =>
                              \A u \in shown : Rate(u) >= Rate(v) \/ Rate(v) = 127
                        /\ v \in shown /\ Rate(v) \in 1..126 =>
                              DecodeRot(fleet[v].rot).direction =
                                 IF fleet[v].rot > 0 THEN "starboard" ELSE "port"
    BY Zenon DEF ManeuveringRight
<1>1. Turning \subseteq ValidIn(fleet) /\ fleet \in Fleets
    BY ValidRowsIs DEF Turning, Those, FleetTypeOK, Fleets
<1>2. IsFiniteSet(Turning)
    BY <1>1, FilterSize
<1>3. \A u \in Turning : fleet[u].rot \in -127..127
    <2> SUFFICES ASSUME NEW u \in Turning PROVE fleet[u].rot \in -127..127
        OBVIOUS
    <2>1. fleet[u] \in Row
        BY <1>1, ValidTyped
    <2>2. fleet[u].rot \in (-127..127) \union {NoValue}
        BY <2>1 DEF Row
    <2>3. fleet[u].rot # NoValue
        BY DEF Turning, Those
    <2> QED
        BY <2>2, <2>3
<1>4. \A u \in Turning :
         /\ Rate(u) \in 0..127 /\ Eff(u) \in Nat
         /\ Rate(u) # 127 => /\ Eff(u) = DegMin[Rate(u)]
                             /\ fleet[u].rot > 0 =>
                                   DecodeRot(fleet[u].rot).direction = "starboard"
                             /\ ~(fleet[u].rot > 0) =>
                                   DecodeRot(fleet[u].rot).direction = "port"
    BY <1>3, Decoded
<1>5. /\ top \in SUBSET Turning /\ Cardinality(top) = Min({TurnLimit, Cardinality(Turning)})
      /\ \A t \in top, u \in Turning \ top : Rate(u) <= Rate(t)
    BY DEF FirstTurning
<1>6. \A u : u \in Maneuvering(top, min) <=> u \in top /\ Eff(u) >= min
    BY DEF Maneuvering
<1>7. min \in Nat /\ TurnLimit \in Nat
    BY VesselAssumption
<1>8. \/ v \in Maneuvering(top, min) \/ Eff(v) < min
      \/ Cardinality({u \in Turning \ {v} : Rate(u) >= Rate(v)}) >= TurnLimit
    <2>1. CASE v \in top
        BY <1>4, <1>6, <1>7, <2>1
    <2>2. CASE v \notin top
        <3> DEFINE others == {u \in Turning \ {v} : Rate(u) >= Rate(v)}
        <3>1. \A u \in top : Rate(u) >= Rate(v)
            BY <1>4, <1>5, <2>2
        <3>2. top \subseteq others
            BY <1>5, <2>2, <3>1
        <3>3. others \subseteq Turning
            OBVIOUS
        <3>4. Cardinality(top) = TurnLimit
            BY <1>2, <1>5, <1>7, <2>2, LimitReached
        <3> HIDE DEF others
        <3>5. IsFiniteSet(others)
            BY <1>2, <3>3, FS_Subset
        <3>6. Cardinality(top) <= Cardinality(others) /\ Cardinality(others) \in Nat
            BY <3>2, <3>5, FS_Subset, FS_CardinalityType
        <3>7. Cardinality(others) >= TurnLimit
            BY <1>7, <3>4, <3>6
        <3> QED
            BY <3>7 DEF others
    <2> QED
        BY <2>1, <2>2
<1>9. ASSUME v \notin Maneuvering(top, min), NEW u \in Maneuvering(top, min), Rate(v) # 127
      PROVE  Rate(u) >= Rate(v)
    <2>1. u \in top /\ u \in Turning /\ Eff(u) >= min
        BY <1>5, <1>6, <1>9
    <2>2. CASE v \notin top
        BY <1>4, <1>5, <2>1, <2>2
    <2>3. CASE v \in top
        <3>0. PICK a, b : a = Rate(v) /\ b = Rate(u)
            OBVIOUS
        <3>1. a \in 0..126 /\ b \in 0..127 /\ Eff(v) = DegMin[a] /\ Eff(v) \in Nat /\ Eff(u) \in Nat
            BY <1>4, <1>9, <2>1, <3>0
        <3>2. Eff(v) < min
            BY <1>4, <1>6, <1>7, <1>9, <2>3
        <3>3. ASSUME b < a PROVE FALSE
            <4>1. b \in 0..126 /\ b # 127 /\ b <= a
                BY <3>1, <3>3
            <4>2. Eff(u) = DegMin[b]
                BY <1>4, <2>1, <3>0, <4>1
            <4>3. DegMin[b] <= DegMin[a]
                BY <3>1, <4>1, DegMinOrder
            <4> HIDE DEF Eff
            <4> QED
                BY <1>7, <2>1, <3>1, <3>2, <4>2, <4>3
        <3> QED
            BY <3>0, <3>1, <3>3
    <2> QED
        BY <2>2, <2>3
<1>10. ASSUME Rate(v) \in 1..126
       PROVE  DecodeRot(fleet[v].rot).direction = IF fleet[v].rot > 0 THEN "starboard" ELSE "port"
    BY <1>4, <1>10
<1> QED
    BY <1>8, <1>9, <1>10

-----------------------------------------------------------------------------
(* Conflicts                                                               *)

\* A gap counts the same from either end, and a hundred of it make a radius.
LEMMA GapFacts ==
    ASSUME NEW x \in Int, NEW y \in Int
    PROVE  /\ Gap(x, y) \in Nat /\ Gap(y, x) = Gap(x, y) /\ Gap(x, x) = 0
           /\ Gap(x, y) * Gap(x, y) \in Nat
           /\ Gap(x, y) >= 100 => Gap(x, y) * Gap(x, y) >= 100 * 100
<1>1. Gap(x, y) \in Nat /\ Gap(y, x) = Gap(x, y) /\ Gap(x, x) = 0
    BY DEF Gap
<1>2. \A d \in Nat : d * d \in Nat /\ (d >= 100 => d * d >= 100 * 100)
    OBVIOUS
<1> QED
    BY <1>1, <1>2

\* Two places within the margins and the radius in degrees are so either way
\* round; those that are not are a radius apart at least, in degrees.
LEMMA PlanarFacts ==
    ASSUME NEW a \in Site, NEW b \in Site
    PROVE  /\ Planar(a, b) \in Nat /\ Planar(a, a) = 0
           /\ Planar(b, a) = Planar(a, b) /\ (Margin(b, a) <=> Margin(a, b)) /\ Margin(a, a)
           /\ ~Margin(a, b) => Planar(a, b) >= 100 * 100
<1>1. a.lat \in Int /\ a.lon \in Int /\ b.lat \in Int /\ b.lon \in Int
    <2>1. \A raw \in RawReport : raw.place \in Coordinates
        BY ReportAssumption
    <2> QED
        BY <2>1 DEF Site, Coordinates
<1> PICK x \in Nat, y \in Nat : x = Gap(a.lat, b.lat) /\ y = Gap(a.lon, b.lon)
    BY <1>1, GapFacts
<1>2. /\ Gap(b.lat, a.lat) = x /\ Gap(b.lon, a.lon) = y
      /\ Gap(a.lat, a.lat) = 0 /\ Gap(a.lon, a.lon) = 0
      /\ x * x \in Nat /\ y * y \in Nat
      /\ (x >= 100 => x * x >= 100 * 100) /\ (y >= 100 => y * y >= 100 * 100)
    BY <1>1, GapFacts
<1>3. /\ Planar(a, b) = x * x + y * y /\ Planar(b, a) = x * x + y * y
      /\ Planar(a, a) = 0
    BY <1>2 DEF Planar
<1>4. /\ Margin(a, b) <=> x < 100 /\ y < 100
      /\ Margin(b, a) <=> x < 100 /\ y < 100
      /\ Margin(a, a)
    BY <1>2 DEF Margin
<1>5. ASSUME ~Margin(a, b) PROVE Planar(a, b) >= 100 * 100
    BY <1>2, <1>3, <1>4, <1>5
<1>6. Planar(a, b) \in Nat /\ Planar(b, a) = Planar(a, b)
    BY <1>2, <1>3
<1> QED
    BY <1>3, <1>4, <1>5, <1>6

\* What the shape of the globe says of a radius in degrees.
LEMMA GeodesicFacts ==
    ASSUME NEW a \in Site, NEW b \in Site
    PROVE  /\ Geodesic[a][b] \in Nat /\ Geodesic[b][a] = Geodesic[a][b] /\ Geodesic[a][a] = 0
           /\ Planar(a, b) <= 100 * 100 => Geodesic[a][b] <= 10100 * 10100
           /\ ~Across(a, b) /\ Planar(a, b) >= 100 * 100 =>
                 Geodesic[a][b] >= (100 * Shrink[a]) * (100 * Shrink[a])
<1>1. \A c, d \in Site :
          /\ Geodesic[c][d] \in Nat /\ Geodesic[d][c] = Geodesic[c][d]
          /\ Planar(c, d) <= 100 * 100 => Geodesic[c][d] <= 101 * 101 * Planar(c, d)
    BY GeodesicAssumption
<1>2. Planar(a, a) = 0 /\ Planar(a, b) \in Nat
    BY PlanarFacts
<1>3. Geodesic[a][a] = 0
    <2>1. Geodesic[a][a] \in Nat /\ Geodesic[a][a] <= 101 * 101 * Planar(a, a)
        BY <1>1, <1>2
    <2> QED
        BY <1>2, <2>1
<1>4. Planar(a, b) <= 100 * 100 => Geodesic[a][b] <= 10100 * 10100
    <2>1. \A n \in Nat : n <= 100 * 100 => 101 * 101 * n <= 10100 * 10100
        OBVIOUS
    <2> QED
        BY <1>1, <1>2, <2>1
<1>5. ASSUME ~Across(a, b), Planar(a, b) >= 100 * 100
      PROVE  Geodesic[a][b] >= (100 * Shrink[a]) * (100 * Shrink[a])
    <2>1. Geodesic[a][b] >= Shrink[a] * Shrink[a] * Min({Planar(a, b), 100 * 100})
        BY <1>5, GeodesicAssumption
    <2>2. Min({Planar(a, b), 100 * 100}) = 100 * 100
        BY <1>2, <1>5, MinOfTwo
    <2>3. Shrink[a] \in 0..100
        BY GeodesicAssumption
    <2>4. \A s \in 0..100 : s * s * (100 * 100) = (100 * s) * (100 * s)
        OBVIOUS
    <2> QED
        BY <2>1, <2>2, <2>3, <2>4
<1> QED
    BY <1>1, <1>3, <1>4, <1>5

\* A pair is two vessels at two places of reports, and its distance is that of
\* the places (main.py:331-340).
LEMMA PairIs ==
    ASSUME FleetTypeOK, NEW p \in Pairs
    PROVE  \E a, b \in p : /\ p = {a, b}
                           /\ PlaceOf(a) \in Site /\ PlaceOf(b) \in Site
                           /\ Distance(p) = Geodesic[PlaceOf(a)][PlaceOf(b)]
<1>1. p \subseteq ValidIn(fleet) /\ fleet \in Fleets /\ Cardinality(p) = 2
    BY ValidRowsIs DEF Pairs, FleetTypeOK, Fleets
<1>2. IsFiniteSet(p)
    BY <1>1, FilterSize
<1>3. p # {}
    BY <1>1, FS_EmptySet
<1>4. PICK a \in p, b \in p : p = {a, b}
    <2>1. PICK a \in p : TRUE
        BY <1>3
    <2>2. Cardinality(p \ {a}) = 1 /\ IsFiniteSet(p \ {a})
        BY <1>1, <1>2, <2>1, FS_RemoveElement
    <2>3. PICK b : p \ {a} = {b}
        BY <2>2, FS_Singleton
    <2> QED
        BY <2>1, <2>3
<1>5. \A v \in p : PlaceOf(v) \in Site
    <2>1. \A v \in p : fleet[v] \in Row
        BY <1>1, ValidTyped
    <2> QED
        BY <2>1 DEF Row, PlaceOf
<1>6. PICK d \in Nat : d = Geodesic[PlaceOf(a)][PlaceOf(b)]
    BY <1>5, GeodesicFacts
<1>7. /\ Geodesic[PlaceOf(b)][PlaceOf(a)] = d
      /\ Geodesic[PlaceOf(a)][PlaceOf(a)] = 0 /\ Geodesic[PlaceOf(b)][PlaceOf(b)] = 0
    BY <1>5, <1>6, GeodesicFacts
<1> DEFINE all == {Geodesic[PlaceOf(u)][PlaceOf(v)] : u, v \in p}
<1>8. all = {0, d}
    BY <1>4, <1>6, <1>7
<1> HIDE DEF all
<1>9. Max(all) = d
    <2>1. all \in SUBSET Int /\ all # {} /\ d \in Int /\ \A z \in all : z <= d
        BY <1>8
    <2>2. Max(all) \in all /\ \A z \in all : z <= Max(all)
        BY <2>1, MaxIs
    <2> QED
        BY <1>8, <2>2
<1>10. Distance(p) = d
    BY <1>9 DEF Distance, all
<1> QED
    BY <1>4, <1>5, <1>6, <1>10

\* Whichever pairs come first, they are within the radius, and one left out is
\* apart or the limit is reached (main.py:324-362).
LEMMA ConflictsFollow == ASSUME FleetTypeOK PROVE ConflictsFound
<1> DEFINE close == {p \in Pairs : Close(p)}
<1> SUFFICES ASSUME NEW top \in FirstPairs
             PROVE  /\ \A p \in top : Distance(p) <= 10100 * 10100
                    /\ \A p \in Pairs \ top :
                          \/ \E u, v \in p : Across(PlaceOf(u), PlaceOf(v))
                          \/ \A v \in p : Distance(p) >= (100 * Shrink[PlaceOf(v)])
                                                         * (100 * Shrink[PlaceOf(v)])
                          \/ Cardinality({q \in top : Distance(q) <= Distance(p)}) >= PairLimit
    BY DEF ConflictsFound
<1>1. /\ top \in SUBSET close /\ Cardinality(top) = Min({PairLimit, Cardinality(close)})
      /\ \A p \in top, q \in close \ top : Distance(p) <= Distance(q)
    BY DEF FirstPairs
<1>2. IsFiniteSet(close)
    <2>1. ValidRows \subseteq Vessel
        BY DEF ValidRows, Rows
    <2>2. close \subseteq SUBSET Vessel
        BY <2>1 DEF Pairs
    <2>3. IsFiniteSet(SUBSET Vessel)
        BY VesselAssumption, FS_SUBSET
    <2> HIDE DEF close
    <2> QED
        BY <2>2, <2>3, FS_Subset
<1>3. PairLimit \in Nat
    BY VesselAssumption
<1>4. ASSUME NEW p \in top PROVE Distance(p) <= 10100 * 10100
    <2>1. p \in Pairs /\ Close(p)
        BY <1>1
    <2>2. PICK a \in p, b \in p : /\ PlaceOf(a) \in Site /\ PlaceOf(b) \in Site
                                  /\ Distance(p) = Geodesic[PlaceOf(a)][PlaceOf(b)]
        BY <2>1, PairIs
    <2>3. Planar(PlaceOf(a), PlaceOf(b)) <= 100 * 100
        BY <2>1 DEF Close
    <2> QED
        BY <2>2, <2>3, GeodesicFacts
<1>5. ASSUME NEW p \in Pairs \ top, ~Close(p),
             ~ \E u, v \in p : Across(PlaceOf(u), PlaceOf(v)), NEW v \in p
      PROVE  Distance(p) >= (100 * Shrink[PlaceOf(v)]) * (100 * Shrink[PlaceOf(v)])
    <2>1. PICK a \in p, b \in p : /\ p = {a, b}
                                  /\ PlaceOf(a) \in Site /\ PlaceOf(b) \in Site
                                  /\ Distance(p) = Geodesic[PlaceOf(a)][PlaceOf(b)]
        BY PairIs
    <2>2. Planar(PlaceOf(a), PlaceOf(b)) >= 100 * 100
        <3>1. PICK u \in p, w \in p : ~(/\ Margin(PlaceOf(u), PlaceOf(w))
                                        /\ Planar(PlaceOf(u), PlaceOf(w)) <= 100 * 100)
            BY <1>5 DEF Close
        <3>2. /\ Planar(PlaceOf(u), PlaceOf(w)) \in Nat
              /\ Planar(PlaceOf(u), PlaceOf(w)) >= 100 * 100
            BY <2>1, <3>1, PlanarFacts
        <3>3. u # w
            BY <2>1, <3>2, PlanarFacts
        <3>4. \/ u = a /\ w = b
              \/ u = b /\ w = a
            BY <2>1, <3>3
        <3>5. Planar(PlaceOf(b), PlaceOf(a)) = Planar(PlaceOf(a), PlaceOf(b))
            BY <2>1, PlanarFacts
        <3> QED
            BY <3>2, <3>4, <3>5
    <2>3. /\ ~Across(PlaceOf(a), PlaceOf(b)) /\ ~Across(PlaceOf(b), PlaceOf(a))
          /\ Planar(PlaceOf(b), PlaceOf(a)) = Planar(PlaceOf(a), PlaceOf(b))
          /\ Geodesic[PlaceOf(b)][PlaceOf(a)] = Geodesic[PlaceOf(a)][PlaceOf(b)]
        BY <1>5, <2>1, PlanarFacts, GeodesicFacts
    <2>4. v = a \/ v = b
        BY <2>1
    <2> QED
        BY <2>1, <2>2, <2>3, <2>4, GeodesicFacts
<1>6. ASSUME NEW p \in Pairs \ top, Close(p)
      PROVE  Cardinality({q \in top : Distance(q) <= Distance(p)}) >= PairLimit
    <2>1. p \in close \ top
        BY <1>6
    <2>2. {q \in top : Distance(q) <= Distance(p)} = top
        BY <1>1, <2>1
    <2> HIDE DEF close
    <2>3. Cardinality(top) = PairLimit
        BY <1>1, <1>2, <1>3, <2>1, LimitReached
    <2> QED
        BY <1>3, <2>2, <2>3
<1> QED
    BY <1>4, <1>5, <1>6

-----------------------------------------------------------------------------
(* Theorems                                                                *)

\* Types of the table and of every answer, snapshots and silence of the stale
\* rows hold in every reachable state.
THEOREM FleetInvariance == FleetSpec => []FleetIInv
<1>1. FleetInit => FleetIInv
    BY FleetInitInv
<1>2. FleetIInv /\ [FleetNext]_fleetVars => FleetIInv'
    BY FleetNextInv
<1> QED
    BY <1>1, <1>2, PTL DEF FleetSpec

\* Rows stay rows, and what the queries return fits the response models
\* (schemas.py:46-98).
THEOREM FleetTypeCorrect == FleetSpec => []FleetTypeOK
<1>1. FleetIInv => FleetTypeOK
    BY DEF FleetIInv
<1> QED
    BY <1>1, FleetInvariance, PTL

\* No figure of the summary is off by more than the vessels that changed while it
\* was put together (main.py:156-184).
THEOREM SummariesAgree == FleetSpec => []SummaryAgrees
<1>1. FleetIInv => SummaryAgrees
    BY SummaryFollows
<1> QED
    BY <1>1, FleetInvariance, PTL

\* Nor is one of the speeds (main.py:203-218).
THEOREM SpeedsAgree == FleetSpec => []SpeedAgrees
<1>1. FleetIInv => SpeedAgrees
    BY SpeedFollows
<1> QED
    BY <1>1, FleetInvariance, PTL

\* Each vessel is counted once, under its label, in the sector nearest to its
\* course and in the bucket of its speed (main.py:203-281).
THEOREM DistributionsAreRight == FleetSpec => []DistributionsRight
<1>1. FleetIInv => DistributionsRight
    BY DistributionsFollow DEF FleetIInv
<1> QED
    BY <1>1, FleetInvariance, PTL

\* No turn is left out for a slower one but at the end of the scale
\* (main.py:284-311).
THEOREM TurnsAreFound == FleetSpec => []ManeuveringRight
<1>1. FleetIInv => ManeuveringRight
    BY ManeuveringFollows DEF FleetIInv
<1> QED
    BY <1>1, FleetInvariance, PTL

\* Pairs reported are within the radius, but for one per cent, and those not
\* reported apart by as many degrees on the globe, or across the antimeridian,
\* or behind PairLimit closer ones (main.py:324-362).
THEOREM ConflictsAreFound == FleetSpec => []ConflictsFound
<1>1. FleetIInv => ConflictsFound
    BY ConflictsFollow DEF FleetIInv
<1> QED
    BY <1>1, FleetInvariance, PTL
=============================================================================
