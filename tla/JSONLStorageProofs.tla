-------------------------- MODULE JSONLStorageProofs --------------------------
(***************************************************************************)
(* Theorems about JSONLStorage, for every flush interval, every number of  *)
(* events, failures and days: what the daily files hold, what a broken     *)
(* line costs, how long write() lets an event wait, and that the backend   *)
(* implements EventStore.                                                  *)
(***************************************************************************)
EXTENDS JSONLStorage, SequenceTheorems, FiniteSetTheorems, TLAPS

Batches == Seq(Events)
Lines == Events \cup {-e : e \in Events}

\* The events whose line continues a broken one, and the files that end in one.
Garbled == {e \in Events : \E d \in 1..Days : -e \in Range(files[d])}
TornDays == {d \in 1..Days : torn[d]}

\* What the storage holds was written to it, and what it lost was too.
Written == Range(buffer) \cup Recorded \cup gone \subseteq 1..offered

\* An accepted event is in the buffer until its line is in a file.
NoneForgotten == Accepted \subseteq Recorded \cup Range(buffer)

\* Each write that broke off within a line has left a file torn, or cost the
\* event whose line continued it.
TearsPaid == Cardinality(Garbled) + Cardinality(TornDays) <= tears

NoFuture == \A d \in 1..Days : d > day => files[d] = <<>>

\* The oldest event in the buffer is no older than the last flush.
Waiting == /\ buffer = <<>> => waited = 0
           /\ waited <= age \/ age = FlushInterval
           /\ up \/ buffer = <<>>

IInv == /\ TypeOK /\ Written /\ NoneForgotten /\ TearsPaid /\ NoFuture /\ Waiting
        /\ ExactLog

(***************************************************************************)
(* Sequences of lines                                                      *)
(***************************************************************************)
LEMMA RangeOf ==
    ASSUME NEW S, NEW s \in Seq(S)
    PROVE  /\ Range(s) = {s[i] : i \in 1..Len(s)}
           /\ Range(s) \subseteq S
           /\ Len(s) \in Nat
           /\ s = <<>> <=> Range(s) = {}
           /\ s = <<>> <=> Len(s) = 0
<1>1. DOMAIN s = 1..Len(s) /\ Len(s) \in Nat /\ \A i \in 1..Len(s) : s[i] \in S
  OBVIOUS
<1>2. Range(s) = {s[i] : i \in 1..Len(s)}
  BY <1>1, Zenon DEF Range
<1>3. s = <<>> <=> Len(s) = 0
  OBVIOUS
<1> QED
  BY <1>1, <1>2, <1>3

LEMMA RangeOfAppend ==
    ASSUME NEW s \in Batches, NEW e \in Events
    PROVE  Append(s, e) \in Batches /\ Range(Append(s, e)) = Range(s) \cup {e}
<1> DEFINE t == Append(s, e)
<1>1. /\ t \in Batches
      /\ Len(s) \in Nat /\ Len(t) = Len(s) + 1 /\ t[Len(s) + 1] = e
      /\ \A i \in 1..Len(s) : t[i] = s[i]
  BY DEF Batches
<1>2. Range(t) = {t[i] : i \in 1..Len(t)} /\ Range(s) = {s[i] : i \in 1..Len(s)}
  BY <1>1, RangeOf DEF Batches
<1> HIDE DEF t
<1>3. Range(t) = Range(s) \cup {e}
  BY <1>1, <1>2
<1> QED
  BY <1>1, <1>3 DEF t

LEMMA RangeOfConcat ==
    ASSUME NEW S, NEW s \in Seq(S), NEW t \in Seq(S)
    PROVE  s \o t \in Seq(S) /\ Range(s \o t) = Range(s) \cup Range(t)
BY RangeConcatenation

LEMMA RangeOfPrefix ==
    ASSUME NEW s \in Batches, NEW k \in 0..Len(s)
    PROVE  /\ SubSeq(s, 1, k) \in Batches
           /\ Range(SubSeq(s, 1, k)) \subseteq Range(s)
           /\ SubSeq(s, 1, k) = <<>> <=> k = 0
<1> DEFINE t == SubSeq(s, 1, k)
<1>1. t \in Batches /\ Len(t) = k /\ Len(s) \in Nat /\ \A i \in 1..k : t[i] = s[i]
  BY DEF Batches
<1> HIDE DEF t
<1>2. Range(t) = {t[i] : i \in 1..k} /\ (t = <<>> <=> k = 0)
      /\ Range(s) = {s[i] : i \in 1..Len(s)}
  BY <1>1, RangeOf DEF Batches
<1>3. Range(t) \subseteq Range(s)
  BY <1>1, <1>2
<1> QED
  BY <1>1, <1>2, <1>3 DEF t

LEMMA RangeOfHeadTail ==
    ASSUME NEW s \in Batches, s # <<>>
    PROVE  /\ Head(s) \in Events /\ Tail(s) \in Batches
           /\ Range(s) = {Head(s)} \cup Range(Tail(s))
<1> DEFINE t == Tail(s)
<1>1. /\ t \in Batches /\ Len(s) \in Nat \ {0} /\ Len(t) = Len(s) - 1
      /\ Head(s) \in Events /\ Head(s) = s[1]
      /\ \A i \in 1..Len(t) : t[i] = s[i + 1]
  BY DEF Batches
<1> HIDE DEF t
<1>2. Range(t) = {t[i] : i \in 1..Len(t)} /\ Range(s) = {s[i] : i \in 1..Len(s)}
  BY <1>1, RangeOf DEF Batches
<1>3. Range(s) \subseteq {s[1]} \cup Range(t)
  <2> SUFFICES ASSUME NEW i \in 1..Len(s), i # 1
               PROVE  s[i] \in Range(t)
    BY <1>2
  <2>1. i - 1 \in 1..Len(t) /\ t[i - 1] = s[i]
    BY <1>1
  <2> QED
    BY <1>2, <2>1
<1>4. {s[1]} \cup Range(t) \subseteq Range(s)
  BY <1>1, <1>2
<1> QED
  BY <1>1, <1>3, <1>4 DEF t

\* A concatenation rises if and only if both parts do and the first is below the
\* second.
LEMMA RisingConcat ==
    ASSUME NEW s \in Seq(Int), NEW t \in Seq(Int)
    PROVE  Rising(s \o t) <=> /\ Rising(s) /\ Rising(t)
                              /\ \A x \in Range(s), y \in Range(t) : x < y
<1> DEFINE u == s \o t
           m == Len(s)
           n == Len(t)
<1>1. /\ m \in Nat /\ n \in Nat /\ Len(u) = m + n
      /\ \A i \in 1..m : u[i] = s[i] /\ s[i] \in Int
      /\ \A i \in 1..n : u[m + i] = t[i] /\ t[i] \in Int
  OBVIOUS
<1>2. Range(s) = {s[i] : i \in 1..m} /\ Range(t) = {t[i] : i \in 1..n}
  BY RangeOf
<1> HIDE DEF u, m, n
<1>3. ASSUME Rising(u)
      PROVE  /\ \A i, j \in 1..m : i < j => s[i] < s[j]
             /\ \A i, j \in 1..n : i < j => t[i] < t[j]
             /\ \A i \in 1..m, j \in 1..n : s[i] < t[j]
  <2>1. \A i, j \in 1..(m + n) : i < j => u[i] < u[j]
    BY <1>1, <1>3 DEF Rising
  <2>2. ASSUME NEW i \in 1..m, NEW j \in 1..m, i < j PROVE s[i] < s[j]
    <3>1. u[i] < u[j]
      BY <1>1, <2>1, <2>2
    <3> QED
      BY <1>1, <3>1
  <2>3. ASSUME NEW i \in 1..n, NEW j \in 1..n, i < j PROVE t[i] < t[j]
    <3>1. m + i \in 1..(m + n) /\ m + j \in 1..(m + n) /\ m + i < m + j
      BY <1>1, <2>3
    <3>2. u[m + i] < u[m + j]
      BY <2>1, <3>1
    <3> QED
      BY <1>1, <3>2
  <2>4. ASSUME NEW i \in 1..m, NEW j \in 1..n PROVE s[i] < t[j]
    <3>1. i \in 1..(m + n) /\ m + j \in 1..(m + n) /\ i < m + j
      BY <1>1
    <3>2. u[i] < u[m + j]
      BY <2>1, <3>1
    <3> QED
      BY <1>1, <3>2
  <2> QED
    BY <2>2, <2>3, <2>4
<1>4. ASSUME \A i, j \in 1..m : i < j => s[i] < s[j],
             \A i, j \in 1..n : i < j => t[i] < t[j],
             \A i \in 1..m, j \in 1..n : s[i] < t[j]
      PROVE  Rising(u)
  <2> SUFFICES ASSUME NEW i \in 1..(m + n), NEW j \in 1..(m + n), i < j
               PROVE  u[i] < u[j]
    BY <1>1 DEF Rising
  <2>1. CASE j <= m
    BY <1>1, <1>4, <2>1
  <2>2. CASE i <= m /\ j > m
    <3>1. j - m \in 1..n /\ i \in 1..m /\ m + (j - m) = j
      BY <1>1, <2>2
    <3>2. u[j] = t[j - m] /\ u[i] = s[i]
      BY <1>1, <3>1
    <3> QED
      BY <1>4, <3>1, <3>2
  <2>3. CASE i > m
    <3>1. /\ j - m \in 1..n /\ i - m \in 1..n /\ i - m < j - m
          /\ m + (j - m) = j /\ m + (i - m) = i
      BY <1>1, <2>3
    <3>2. u[j] = t[j - m] /\ u[i] = t[i - m]
      BY <1>1, <3>1
    <3> QED
      BY <1>4, <3>1, <3>2
  <2> QED
    BY <1>1, <2>1, <2>2, <2>3
<1>5. /\ Rising(s) <=> \A i, j \in 1..m : i < j => s[i] < s[j]
      /\ Rising(t) <=> \A i, j \in 1..n : i < j => t[i] < t[j]
      /\ (\A x \in Range(s), y \in Range(t) : x < y)
           <=> \A i \in 1..m, j \in 1..n : s[i] < t[j]
  BY <1>2 DEF Rising, m, n
<1> QED
  BY <1>3, <1>4, <1>5 DEF u

(***************************************************************************)
(* What appending to today's file does                                     *)
(***************************************************************************)
LEMMA LineTypes ==
    /\ Events \subseteq Nat \ {0} /\ Events \subseteq Lines /\ Lines \subseteq Int
    /\ \A e \in Events : -e \in Lines /\ -e \notin Events
    /\ \A e, g \in Events : -e = -g => e = g
    /\ Batches \subseteq Seq(Lines)
<1>1. /\ Events \subseteq Nat \ {0} /\ Events \subseteq Lines /\ Lines \subseteq Int
  BY StorageAssumption DEF Events, Lines
<1>2. /\ \A e \in Events : -e \in Lines /\ -e \notin Events
      /\ \A e, g \in Events : -e = -g => e = g
  BY <1>1 DEF Lines
<1>3. Batches \subseteq Seq(Lines)
  BY <1>1, SeqMonotonic DEF Batches
<1> QED
  BY <1>1, <1>2, <1>3

LEMMA FinitelyMany ==
    /\ IsFiniteSet(Garbled) /\ Cardinality(Garbled) \in Nat
    /\ IsFiniteSet(TornDays) /\ Cardinality(TornDays) \in Nat
<1>1. IsFiniteSet(Events) /\ IsFiniteSet(1..Days)
  BY FS_Interval, StorageAssumption DEF Events
<1>2. Garbled \in SUBSET Events /\ TornDays \in SUBSET (1..Days)
  BY DEF Garbled, TornDays
<1>3. IsFiniteSet(Garbled) /\ IsFiniteSet(TornDays)
  BY <1>1, <1>2, FS_Subset
<1> QED
  BY <1>3, FS_CardinalityType

LEMMA FinitelyManyNext ==
    /\ IsFiniteSet(Garbled') /\ Cardinality(Garbled') \in Nat
    /\ IsFiniteSet(TornDays') /\ Cardinality(TornDays') \in Nat
<1>1. IsFiniteSet(Events) /\ IsFiniteSet(1..Days)
  BY FS_Interval, StorageAssumption DEF Events
<1>2. Garbled' \in SUBSET Events /\ TornDays' \in SUBSET (1..Days)
  BY DEF Garbled, TornDays
<1>3. IsFiniteSet(Garbled') /\ IsFiniteSet(TornDays')
  BY <1>1, <1>2, FS_Subset
<1> QED
  BY <1>3, FS_CardinalityType

\* The files that stay torn when lines are appended.
StillTorn(lines) == IF lines = <<>> THEN TornDays ELSE TornDays \ {day}

LEMMA StillTornFinite ==
    ASSUME NEW lines
    PROVE  IsFiniteSet(StillTorn(lines)) /\ Cardinality(StillTorn(lines)) \in Nat
BY FinitelyMany, FS_RemoveElement, FS_CardinalityType DEF StillTorn

\* The lines of an append are all recorded; of them only the first is garbled,
\* and it mends the file.
LEMMA AppendedEffect ==
    ASSUME TypeOK, NEW lines \in Batches, files' = Appended(lines)
    PROVE  /\ files' \in [1..Days -> Seq(Lines)]
           /\ \A d \in 1..Days : d # day => files'[d] = files[d]
           /\ ~torn[day] => files'[day] = files[day] \o lines
           /\ Recorded' = Recorded \cup Range(lines)
           /\ Cardinality(Garbled') + Cardinality(StillTorn(lines))
                <= Cardinality(Garbled) + Cardinality(TornDays)
<1> DEFINE new == IF torn[day] /\ lines # <<>>
                  THEN (files[day] \o <<-Head(lines)>>) \o Tail(lines)
                  ELSE files[day] \o lines
<1>1. /\ files \in [1..Days -> Seq(Lines)] /\ day \in 1..Days
      /\ lines \in Seq(Lines) /\ files[day] \in Seq(Lines)
  BY LineTypes DEF TypeOK, Lines
<1>2. files' = [files EXCEPT ![day] = new]
  BY DEF Appended
<1>3. CASE torn[day] /\ lines # <<>>
  <2> DEFINE h == Head(lines)
  <2>1. /\ h \in Events /\ Tail(lines) \in Batches /\ Tail(lines) \in Seq(Lines)
        /\ Range(lines) = {h} \cup Range(Tail(lines))
        /\ Range(Tail(lines)) \subseteq Events
    BY <1>3, RangeOfHeadTail, LineTypes, RangeOf DEF Batches
  <2>2. <<-h>> \in Seq(Lines) /\ Range(<<-h>>) = {-h}
    <3>1. -h \in Lines
      BY <2>1, LineTypes
    <3>2. <<-h>> \in Seq(Lines) /\ Len(<<-h>>) = 1 /\ <<-h>>[1] = -h
      BY <3>1
    <3>3. Range(<<-h>>) = {<<-h>>[i] : i \in 1..1}
      BY <3>2, RangeOf
    <3>4. 1..1 = {1}
      OBVIOUS
    <3> QED
      BY <3>2, <3>3, <3>4
  <2>3. /\ new = (files[day] \o <<-h>>) \o Tail(lines)
        /\ new \in Seq(Lines)
        /\ Range(new) = Range(files[day]) \cup {-h} \cup Range(Tail(lines))
    <3> DEFINE g == <<-h>>
               f == files[day]
               t == Tail(lines)
               fg == f \o g
    <3>1. new = fg \o t
      BY <1>3
    <3>2. f \in Seq(Lines) /\ g \in Seq(Lines) /\ t \in Seq(Lines) /\ Range(g) = {-h}
      BY <1>1, <2>1, <2>2
    <3> HIDE DEF new, h, f, g, t
    <3>3. fg \in Seq(Lines) /\ Range(fg) = Range(f) \cup {-h}
      BY <3>2, RangeOfConcat
    <3> HIDE DEF fg
    <3>4. fg \o t \in Seq(Lines) /\ Range(fg \o t) = Range(fg) \cup Range(t)
      BY <3>2, <3>3, RangeOfConcat
    <3> QED
      BY <3>1, <3>3, <3>4 DEF f, g, t, fg
  <2> HIDE DEF new, h
  <2>4. /\ files' \in [1..Days -> Seq(Lines)] /\ files'[day] = new
        /\ \A d \in 1..Days : d # day => files'[d] = files[d]
    BY <1>1, <1>2, <2>3
  <2>5. ASSUME NEW l
        PROVE  (\E d \in 1..Days : l \in Range(files'[d])) <=>
                 \/ \E d \in 1..Days : l \in Range(files[d])
                 \/ l = -h \/ l \in Range(Tail(lines))
    BY <1>1, <2>3, <2>4
  <2>6. \A e \in Events : -e \notin Range(Tail(lines)) /\ (-e = -h => e = h) /\ e # -h
    BY <2>1, LineTypes
  <2>7. Recorded' = Recorded \cup Range(lines)
    <3>1. Readable' = Readable \cup Range(Tail(lines))
      BY <2>1, <2>5, <2>6 DEF Readable
    <3>2. Recorded' = Readable' \cup Garbled' /\ Recorded = Readable \cup Garbled
      BY DEF Recorded, Garbled
    <3>3. Garbled' = Garbled \cup {h}
      BY <2>1, <2>5, <2>6 DEF Garbled
    <3> QED
      BY <2>1, <3>1, <3>2, <3>3
  <2>8. Garbled' = Garbled \cup {h}
    BY <2>1, <2>5, <2>6 DEF Garbled
  <2>9. Cardinality(Garbled') + Cardinality(StillTorn(lines))
          <= Cardinality(Garbled) + Cardinality(TornDays)
    <3>1. IsFiniteSet(Garbled) /\ IsFiniteSet(TornDays) /\ day \in TornDays
      BY <1>1, <1>3, FinitelyMany DEF TornDays
    <3>2. /\ Cardinality(Garbled') \in Nat /\ Cardinality(Garbled) \in Nat
          /\ Cardinality(Garbled') <= Cardinality(Garbled) + 1
      <4>1. /\ IsFiniteSet(Garbled \cup {h})
            /\ Cardinality(Garbled \cup {h}) <= Cardinality(Garbled) + 1
        <5>1. /\ IsFiniteSet(Garbled \cup {h})
              /\ Cardinality(Garbled \cup {h})
                   = IF h \in Garbled THEN Cardinality(Garbled) ELSE Cardinality(Garbled) + 1
          BY FS_AddElement, FinitelyMany
        <5> QED
          BY <5>1, FinitelyMany
      <4> QED
        BY <2>8, <4>1, FinitelyMany, FS_CardinalityType
    <3>3. /\ Cardinality(StillTorn(lines)) = Cardinality(TornDays) - 1
          /\ Cardinality(TornDays) \in Nat
      BY <1>3, <3>1, FS_RemoveElement, FS_CardinalityType DEF StillTorn
    <3> QED
      BY <3>2, <3>3
  <2> QED
    BY <1>3, <2>4, <2>7, <2>9
<1>4. CASE ~(torn[day] /\ lines # <<>>)
  <2>1. /\ new = files[day] \o lines
        /\ new \in Seq(Lines)
        /\ Range(new) = Range(files[day]) \cup Range(lines)
        /\ Range(lines) \subseteq Events
    BY <1>1, <1>4, RangeOfConcat, RangeOf DEF Batches
  <2> HIDE DEF new
  <2>2. /\ files' \in [1..Days -> Seq(Lines)] /\ files'[day] = new
        /\ \A d \in 1..Days : d # day => files'[d] = files[d]
    BY <1>1, <1>2, <2>1
  <2>3. ASSUME NEW l
        PROVE  (\E d \in 1..Days : l \in Range(files'[d])) <=>
                 (\E d \in 1..Days : l \in Range(files[d])) \/ l \in Range(lines)
    BY <1>1, <2>1, <2>2
  <2>4. \A e \in Events : -e \notin Range(lines)
    BY <2>1, LineTypes
  <2>5. Garbled' = Garbled /\ Readable' = Readable \cup Range(lines)
    BY <2>1, <2>3, <2>4 DEF Garbled, Readable
  <2>6. Recorded' = Readable' \cup Garbled' /\ Recorded = Readable \cup Garbled
    BY DEF Recorded, Garbled
  <2>7. StillTorn(lines) = TornDays
    BY <1>4 DEF StillTorn, TornDays
  <2>8. Cardinality(Garbled) \in Nat /\ Cardinality(TornDays) \in Nat
    BY FinitelyMany
  <2> QED
    BY <2>1, <2>2, <2>5, <2>6, <2>7, <2>8
<1> QED
  BY <1>3, <1>4

(***************************************************************************)
(* What a flush does, whether it succeeds or fails                         *)
(***************************************************************************)
FlushTypes ==
    /\ buffer' \in Batches /\ age' \in 0..FlushInterval
    /\ files' \in [1..Days -> Seq(Lines)] /\ torn' \in [1..Days -> BOOLEAN]
    /\ failures' \in 0..MaxFailures /\ tears' \in 0..failures'
    /\ waited' \in 0..FlushInterval + 1

\* Nothing but events of the batch is recorded, nothing leaves the batch unless it
\* is, and no day's file but today's changes.
FlushMoves(batch) ==
    /\ Recorded \subseteq Recorded'
    /\ Recorded' \subseteq Recorded \cup Range(batch)
    /\ Range(buffer') \subseteq Range(batch)
    /\ Range(batch) \subseteq Range(buffer') \cup Recorded'
    /\ \A d \in 1..Days : d # day => files'[d] = files[d]

FlushWaits ==
    /\ buffer' = <<>> => waited' = 0
    /\ waited' = 0 \/ UNCHANGED <<age, waited>>

LEMMA FlushEffect ==
    ASSUME TypeOK, TearsPaid, NEW batch \in Batches, FlushOK(batch) \/ FlushFails(batch)
    PROVE  FlushTypes /\ FlushMoves(batch) /\ FlushWaits /\ TearsPaid'
<1>1. /\ <<>> \in Batches /\ Range(<<>>) = {} /\ day \in 1..Days
      /\ FlushInterval \in Nat /\ torn \in [1..Days -> BOOLEAN] /\ tears \in Nat
  <2>1. <<>> \in Batches
    BY EmptySeq DEF Batches
  <2>2. Range(<<>>) = {}
    BY <2>1, RangeOf DEF Batches
  <2>3. day \in 1..Days /\ FlushInterval \in Nat /\ tears \in Nat
    BY StorageAssumption DEF TypeOK
  <2>4. torn \in [1..Days -> BOOLEAN]
    BY DEF TypeOK
  <2> QED
    BY <2>1, <2>2, <2>3, <2>4
<1>2. CASE FlushOK(batch)
  <2>1. /\ files' = Appended(batch)
        /\ torn' = IF batch = <<>> THEN torn ELSE [torn EXCEPT ![day] = FALSE]
        /\ age' = IF batch = <<>> THEN age ELSE 0
        /\ buffer' = <<>> /\ waited' = 0 /\ failures' = failures /\ tears' = tears
    BY <1>2 DEF FlushOK, histVars
  <2>2. torn' \in [1..Days -> BOOLEAN] /\ TornDays' = StillTorn(batch)
    <3>1. CASE batch = <<>>
      BY <1>1, <2>1, <3>1 DEF TornDays, StillTorn
    <3>2. CASE batch # <<>>
      <4>1. torn' = [torn EXCEPT ![day] = FALSE]
        BY <2>1, <3>2
      <4>2. /\ torn' \in [1..Days -> BOOLEAN] /\ ~torn'[day]
            /\ \A d \in 1..Days : d # day => torn'[d] = torn[d]
        BY <1>1, <4>1
      <4>3. TornDays' = TornDays \ {day}
        BY <1>1, <4>2 DEF TornDays
      <4> QED
        BY <3>2, <4>2, <4>3 DEF StillTorn
    <3> QED
      BY <3>1, <3>2
  <2>3. /\ files' \in [1..Days -> Seq(Lines)]
        /\ \A d \in 1..Days : d # day => files'[d] = files[d]
        /\ Recorded' = Recorded \cup Range(batch)
        /\ Cardinality(Garbled') + Cardinality(StillTorn(batch))
             <= Cardinality(Garbled) + Cardinality(TornDays)
    BY <2>1, AppendedEffect
  <2>4. age' \in 0..FlushInterval
    BY <1>1, <2>1 DEF TypeOK
  <2>5. failures' \in 0..MaxFailures /\ tears' \in 0..failures'
    BY <2>1 DEF TypeOK
  <2>6. FlushTypes
    BY <1>1, <2>1, <2>2, <2>3, <2>4, <2>5 DEF FlushTypes
  <2>7. FlushMoves(batch)
    BY <1>1, <2>1, <2>3 DEF FlushMoves
  <2>8. TearsPaid'
    <3>1. Cardinality(StillTorn(batch)) \in Nat /\ Cardinality(Garbled') \in Nat
      BY FinitelyMany, FinitelyManyNext, StillTornFinite
    <3> QED
      BY <1>1, <2>1, <2>2, <2>3, <3>1, FinitelyMany DEF TearsPaid
  <2> QED
    BY <2>1, <2>6, <2>7, <2>8 DEF FlushWaits
<1>3. CASE FlushFails(batch)
  <2>1. PICK k \in 0..Len(batch), tear \in BOOLEAN :
          /\ tear => k < Len(batch)
          /\ files' = Appended(SubSeq(batch, 1, k))
          /\ torn' = [torn EXCEPT ![day] = tear \/ (k = 0 /\ @)]
          /\ tears' = IF tear THEN tears + 1 ELSE tears
    BY <1>3 DEF FlushFails
  <2>2. /\ batch # <<>> /\ failures < MaxFailures /\ failures' = failures + 1
        /\ buffer' = batch /\ age' = age /\ waited' = waited
    BY <1>3 DEF FlushFails
  <2> DEFINE lines == SubSeq(batch, 1, k)
             now == tear \/ (k = 0 /\ torn[day])
  <2>3. lines \in Batches /\ Range(lines) \subseteq Range(batch) /\ (lines = <<>> <=> k = 0)
    BY <2>1, RangeOfPrefix
  <2>4. files' = Appended(lines) /\ torn' = [torn EXCEPT ![day] = now]
    BY <2>1
  <2> HIDE DEF lines
  <2>5. /\ files' \in [1..Days -> Seq(Lines)]
        /\ \A d \in 1..Days : d # day => files'[d] = files[d]
        /\ Recorded' = Recorded \cup Range(lines)
        /\ Cardinality(Garbled') + Cardinality(StillTorn(lines))
             <= Cardinality(Garbled) + Cardinality(TornDays)
    BY <2>3, <2>4, AppendedEffect
  <2>6. /\ torn' \in [1..Days -> BOOLEAN]
        /\ torn'[day] <=> now
        /\ \A d \in 1..Days : d # day => torn'[d] = torn[d]
    <3>1. now \in BOOLEAN
      OBVIOUS
    <3> HIDE DEF now
    <3>2. /\ torn' \in [1..Days -> BOOLEAN] /\ torn'[day] = now
          /\ \A d \in 1..Days : d # day => torn'[d] = torn[d]
      BY <1>1, <2>4, <3>1
    <3> QED
      BY <3>1, <3>2
  <2>7. TornDays' \subseteq StillTorn(lines) \cup (IF tear THEN {day} ELSE {})
    <3> SUFFICES ASSUME NEW d \in TornDays', d \notin StillTorn(lines)
                 PROVE  tear /\ d = day
      OBVIOUS
    <3>1. d \in 1..Days /\ torn'[d]
      BY DEF TornDays
    <3>2. d = day
      BY <2>6, <3>1 DEF TornDays, StillTorn
    <3>3. now
      BY <2>6, <3>1, <3>2
    <3>4. ASSUME k = 0, torn[day] PROVE FALSE
      BY <2>3, <3>1, <3>2, <3>4 DEF TornDays, StillTorn
    <3> QED
      BY <3>2, <3>3, <3>4
  <2>8. failures' \in 0..MaxFailures /\ tears' \in 0..failures'
    BY <2>1, <2>2, StorageAssumption DEF TypeOK
  <2>9. FlushTypes
    <3>1. age' \in 0..FlushInterval /\ waited' \in 0..FlushInterval + 1
      BY <2>2 DEF TypeOK
    <3> QED
      BY <2>2, <2>5, <2>6, <2>8, <3>1, Zenon DEF FlushTypes
  <2>10. FlushMoves(batch)
    BY <2>2, <2>3, <2>5 DEF FlushMoves
  <2>11. TearsPaid'
    <3>1. /\ Cardinality(StillTorn(lines)) \in Nat /\ Cardinality(Garbled') \in Nat
          /\ IsFiniteSet(StillTorn(lines))
      BY FinitelyManyNext, StillTornFinite
    <3>2. Cardinality(TornDays') <= Cardinality(StillTorn(lines)) + (IF tear THEN 1 ELSE 0)
          /\ Cardinality(TornDays') \in Nat
      <4>1. CASE tear
        <5>1. /\ IsFiniteSet(StillTorn(lines) \cup {day})
              /\ Cardinality(StillTorn(lines) \cup {day})
                   = IF day \in StillTorn(lines) THEN Cardinality(StillTorn(lines))
                     ELSE Cardinality(StillTorn(lines)) + 1
          BY <3>1, FS_AddElement
        <5>2. TornDays' \in SUBSET (StillTorn(lines) \cup {day})
          BY <2>7, <4>1
        <5>3. Cardinality(TornDays') <= Cardinality(StillTorn(lines) \cup {day})
          BY <5>1, <5>2, FS_Subset
        <5> QED
          BY <3>1, <4>1, <5>1, <5>3, FinitelyManyNext
      <4>2. CASE ~tear
        <5>1. TornDays' \in SUBSET StillTorn(lines)
          BY <2>7, <4>2
        <5> QED
          BY <3>1, <4>2, <5>1, FS_Subset, FinitelyManyNext
      <4> QED
        BY <4>1, <4>2
    <3>3. CASE tear
      BY <1>1, <2>1, <2>5, <3>1, <3>2, <3>3, FinitelyMany DEF TearsPaid
    <3>4. CASE ~tear
      BY <1>1, <2>1, <2>5, <3>1, <3>2, <3>4, FinitelyMany DEF TearsPaid
    <3> QED
      BY <3>3, <3>4
  <2> QED
    BY <2>2, <2>9, <2>10, <2>11 DEF FlushWaits
<1> QED
  BY <1>2, <1>3

(***************************************************************************)
(* The order of the lines, as long as no flush has failed                  *)
(***************************************************************************)
AllLines(f) == UNION {Range(f[d]) : d \in 1..Days}

\* The files f in turn, followed by the lines of b, rise.
Rises(f, b) ==
    /\ \A c, d \in 1..Days : c < d => Rising(f[c] \o f[d])
    /\ \A d \in 1..Days : Rising(f[d] \o b)

LEMMA RisesIff ==
    ASSUME NEW f \in [1..Days -> Seq(Lines)], NEW b \in Batches
    PROVE  Rises(f, b) <=>
              /\ \A d \in 1..Days : Rising(f[d])
              /\ \A c, d \in 1..Days : c < d =>
                    \A x \in Range(f[c]), y \in Range(f[d]) : x < y
              /\ Rising(b)
              /\ \A d \in 1..Days : \A x \in Range(f[d]), y \in Range(b) : x < y
<1>1. b \in Seq(Int) /\ \A d \in 1..Days : f[d] \in Seq(Int)
  BY LineTypes, SeqMonotonic DEF Batches
<1>2. ASSUME NEW c \in 1..Days, NEW d \in 1..Days
      PROVE  Rising(f[c] \o f[d]) <=>
                /\ Rising(f[c]) /\ Rising(f[d])
                /\ \A x \in Range(f[c]), y \in Range(f[d]) : x < y
  BY <1>1, RisingConcat
<1>3. ASSUME NEW d \in 1..Days
      PROVE  Rising(f[d] \o b) <=>
                /\ Rising(f[d]) /\ Rising(b)
                /\ \A x \in Range(f[d]), y \in Range(b) : x < y
  BY <1>1, RisingConcat
<1>4. 1 \in 1..Days
  BY StorageAssumption
<1> QED
  BY <1>2, <1>3, <1>4, Zenon DEF Rises

LEMMA AppendRises ==
    ASSUME NEW f \in [1..Days -> Seq(Lines)], NEW b \in Batches, NEW e \in Events,
           Rises(f, b), \A x \in AllLines(f) \cup Range(b) : x < e
    PROVE  Rises(f, Append(b, e))
<1>1. /\ \A d \in 1..Days : Rising(f[d])
      /\ \A c, d \in 1..Days : c < d =>
            \A x \in Range(f[c]), y \in Range(f[d]) : x < y
      /\ Rising(b)
      /\ \A d \in 1..Days : \A x \in Range(f[d]), y \in Range(b) : x < y
  BY RisesIff
<1>2. Append(b, e) \in Batches /\ Range(Append(b, e)) = Range(b) \cup {e}
  BY RangeOfAppend
<1>3. Rising(Append(b, e))
  <2>1. /\ Append(b, e) \in Batches /\ Len(b) \in Nat /\ Len(Append(b, e)) = Len(b) + 1
        /\ Append(b, e)[Len(b) + 1] = e
        /\ \A i \in 1..Len(b) : Append(b, e)[i] = b[i]
    BY DEF Batches
  <2>2. \A i \in 1..Len(b) : b[i] < e
    BY RangeOf DEF Batches
  <2> HIDE DEF Batches
  <2> QED
    BY <1>1, <2>1, <2>2 DEF Rising
<1>4. \A d \in 1..Days : \A x \in Range(f[d]) : x < e
  BY DEF AllLines
<1>5. \A d \in 1..Days : \A x \in Range(f[d]), y \in Range(Append(b, e)) : x < y
  BY <1>1, <1>2, <1>4
<1> QED
  BY <1>1, <1>2, <1>3, <1>5, RisesIff

MovesTo(f, g, b, today) ==
    /\ \A d \in 1..Days : d > today => f[d] = <<>>
    /\ g[today] = f[today] \o b
    /\ \A d \in 1..Days : d # today => g[d] = f[d]

\* Moving the batch to today's file, the last that has lines, keeps the order.
LEMMA FlushRises ==
    ASSUME NEW f \in [1..Days -> Seq(Lines)], NEW g \in [1..Days -> Seq(Lines)],
           NEW b \in Batches, NEW today \in 1..Days,
           Rises(f, b), MovesTo(f, g, b, today)
    PROVE  Rises(g, <<>>) /\ AllLines(g) = AllLines(f) \cup Range(b)
<1> USE DEF MovesTo
<1>1. /\ \A d \in 1..Days : Rising(f[d])
      /\ \A c, d \in 1..Days : c < d =>
            \A x \in Range(f[c]), y \in Range(f[d]) : x < y
      /\ Rising(b)
      /\ \A d \in 1..Days : \A x \in Range(f[d]), y \in Range(b) : x < y
      /\ Rising(f[today] \o b)
  BY RisesIff DEF Rises
<1>2. /\ <<>> \in Batches /\ Range(<<>>) = {} /\ Rising(<<>>)
  <2>1. <<>> \in Batches /\ Len(<<>>) = 0
    BY EmptySeq DEF Batches
  <2>2. Rising(<<>>)
    BY <2>1 DEF Rising
  <2> QED
    BY <2>1, <2>2, RangeOf DEF Batches
<1>3. Range(g[today]) = Range(f[today]) \cup Range(b) /\ Rising(g[today])
  <2>1. f[today] \in Seq(Lines) /\ b \in Seq(Lines)
    BY LineTypes
  <2> QED
    BY <1>1, <2>1, RangeOfConcat
<1>4. \A d \in 1..Days : d > today => Range(f[d]) = {}
  BY <1>2
<1>5. \A d \in 1..Days : Rising(g[d])
  BY <1>1, <1>3
<1>6. ASSUME NEW c \in 1..Days, NEW d \in 1..Days, c < d,
             NEW x \in Range(g[c]), NEW y \in Range(g[d])
      PROVE  x < y
  <2>1. CASE d = today
    <3>1. c # today /\ x \in Range(f[c])
      BY <1>6, <2>1
    <3>2. y \in Range(f[today]) \/ y \in Range(b)
      BY <1>3, <1>6, <2>1
    <3> QED
      BY <1>1, <1>6, <2>1, <3>1, <3>2
  <2>2. CASE d # today /\ c = today
    BY <1>4, <1>6, <2>2
  <2>3. CASE d # today /\ c # today
    BY <1>1, <1>6, <2>3
  <2> QED
    BY <2>1, <2>2, <2>3
<1>7. Rises(g, <<>>)
  BY <1>2, <1>5, <1>6, RisesIff
<1>8. AllLines(g) = AllLines(f) \cup Range(b)
  <2>1. \A l : (\E d \in 1..Days : l \in Range(g[d])) <=>
                  (\E d \in 1..Days : l \in Range(f[d])) \/ l \in Range(b)
    BY <1>3
  <2> QED
    BY <2>1 DEF AllLines
<1> QED
  BY <1>7, <1>8

(***************************************************************************)
(* The invariant is inductive                                              *)
(***************************************************************************)
\* ExactLog in the terms of the lemmas.
LEMMA ExactLogIff ==
    ExactLog <=> (failures = 0 => /\ AllLines(files) \cup Range(buffer) = Accepted
                                  /\ Rises(files, buffer))
BY Zenon DEF ExactLog, AllLines, Rises

LEMMA ExactLogNext ==
    ExactLog' <=> (failures' = 0 => /\ AllLines(files') \cup Range(buffer') = Accepted'
                                    /\ Rises(files', buffer'))
BY Zenon DEF ExactLog, AllLines, Rises

LEMMA InitIInv == Init => IInv
<1> SUFFICES ASSUME Init PROVE IInv
  OBVIOUS
<1>1. /\ <<>> \in Batches /\ Len(<<>>) = 0 /\ Range(<<>>) = {} /\ <<>> \in Seq(Lines)
  <2>1. <<>> \in Batches /\ <<>> \in Seq(Lines) /\ Len(<<>>) = 0
    BY EmptySeq DEF Batches
  <2> QED
    BY <2>1, RangeOf DEF Batches
<1>2. /\ buffer = <<>> /\ \A d \in 1..Days : files[d] = <<>>
      /\ \A d \in 1..Days : torn[d] = FALSE
  BY DEF Init
<1>3. Garbled = {} /\ TornDays = {} /\ Recorded = {} /\ AllLines(files) = {}
  BY <1>1, <1>2 DEF Garbled, TornDays, Recorded, Readable, AllLines
<1>4. TypeOK
  <2>1. /\ buffer \in Seq(Events) /\ age \in 0..FlushInterval /\ day \in 1..Days
        /\ up \in BOOLEAN /\ offered \in 0..MaxEvents /\ gone \subseteq Events
        /\ failures \in 0..MaxFailures /\ tears \in 0..failures
        /\ waited \in 0..FlushInterval + 1
    BY <1>1, StorageAssumption DEF Init, Batches
  <2>2. files \in [1..Days -> Seq(Lines)] /\ torn \in [1..Days -> BOOLEAN]
    BY <1>1 DEF Init
  <2> QED
    BY <2>1, <2>2 DEF TypeOK, Lines
<1>5. Written /\ NoneForgotten /\ NoFuture /\ Waiting
  BY <1>1, <1>2, <1>3, StorageAssumption
     DEF Init, Written, NoneForgotten, NoFuture, Waiting, Accepted
<1>6. TearsPaid
  BY <1>3, FS_EmptySet DEF Init, TearsPaid
<1>7. ExactLog
  <2>1. AllLines(files) \cup Range(buffer) = Accepted
    <3>1. 1..0 = {} /\ offered = 0
      BY DEF Init
    <3> QED
      BY <1>1, <1>2, <1>3, <3>1 DEF Accepted
  <2>2. Rises(files, buffer)
    <3>1. <<>> \o <<>> = <<>> /\ Rising(<<>>)
      BY <1>1, ConcatEmptySeq DEF Rising
    <3> QED
      BY <1>2, <3>1 DEF Rises
  <2> QED
    BY <2>1, <2>2, ExactLogIff
<1> QED
  BY <1>4, <1>5, <1>6, <1>7 DEF IInv

\* What write() and flush() share: a batch is buffered or flushed.
LEMMA BatchKeepsIInv ==
    ASSUME IInv, NEW batch \in Batches,
           FlushOK(batch) \/ FlushFails(batch)
           \/ (age < FlushInterval /\ buffer' = batch
                 /\ UNCHANGED <<age, waited, diskVars, histVars>>),
           Range(buffer) \subseteq Range(batch),
           Range(batch) \subseteq Range(buffer) \cup ((1..offered') \ (1..offered)),
           buffer = <<>> \/ batch # <<>>,
           offered' \in offered..MaxEvents, UNCHANGED <<up, day, gone>>, up,
           (1..offered') \ (1..offered) \subseteq Range(batch),
           failures = 0 => Rises(files, batch)
    PROVE  IInv' /\ FlushMoves(batch)
<1>1. FlushTypes /\ FlushMoves(batch) /\ TearsPaid'
  <2>1. CASE FlushOK(batch) \/ FlushFails(batch)
    BY <2>1, FlushEffect DEF IInv
  <2>2. CASE /\ age < FlushInterval /\ buffer' = batch
             /\ UNCHANGED <<age, waited, diskVars, histVars>>
    <3>1. FlushTypes
      BY <2>2, Zenon DEF IInv, TypeOK, FlushTypes, diskVars, histVars, Lines
    <3>2. FlushMoves(batch) /\ TearsPaid'
      BY <2>2 DEF IInv, FlushMoves, TearsPaid, Recorded, Readable, Garbled, TornDays,
                  diskVars, histVars
    <3> QED
      BY <3>1, <3>2
  <2> QED
    BY <2>1, <2>2
<1>2. TypeOK'
  <2>1. offered' \in 0..MaxEvents
    BY DEF IInv, TypeOK
  <2> QED
    BY <1>1, <2>1, Zenon DEF IInv, TypeOK, FlushTypes, Batches, Lines
<1>3. 1..offered \subseteq 1..offered'
  BY DEF IInv, TypeOK
<1>4. Written'
  BY <1>1, <1>3 DEF IInv, Written, FlushMoves
<1>5. NoneForgotten'
  BY <1>1 DEF IInv, NoneForgotten, Accepted, FlushMoves
<1>6. NoFuture'
  BY <1>1 DEF IInv, TypeOK, NoFuture, FlushMoves
<1>7. Waiting'
  <2>1. CASE FlushOK(batch) \/ FlushFails(batch)
    <3>1. FlushWaits
      BY <2>1, FlushEffect DEF IInv
    <3> QED
      BY <1>1, <3>1, StorageAssumption DEF IInv, Waiting, FlushWaits, FlushTypes
  <2>2. CASE /\ age < FlushInterval /\ buffer' = batch
             /\ UNCHANGED <<age, waited, diskVars, histVars>>
    BY <2>2 DEF IInv, Waiting
  <2> QED
    BY <2>1, <2>2
<1>8. ExactLog'
  <2> SUFFICES ASSUME failures' = 0
               PROVE  /\ AllLines(files') \cup Range(buffer') = Accepted'
                      /\ Rises(files', buffer')
    BY ExactLogNext
  <2>1. /\ failures = 0 /\ ~FlushFails(batch)
    BY DEF IInv, TypeOK, FlushFails, FlushOK, histVars
  <2>2. /\ AllLines(files) \cup Range(buffer) = Accepted
        /\ Rises(files, batch)
    BY <2>1, ExactLogIff DEF IInv
  <2>3. AllLines(files) \cup Range(batch) = Accepted'
    BY <1>3, <2>2 DEF Accepted, IInv, Written
  <2>4. CASE FlushOK(batch)
    <3>1. files' = Appended(batch) /\ buffer' = <<>>
      BY <2>4 DEF FlushOK
    <3>2. TornDays = {}
      BY <2>1, FinitelyMany, FS_EmptySet DEF IInv, TypeOK, TearsPaid
    <3>3. /\ files' \in [1..Days -> Seq(Lines)]
          /\ \A d \in 1..Days : d # day => files'[d] = files[d]
          /\ files'[day] = files[day] \o batch
      BY <3>1, <3>2, AppendedEffect DEF IInv, TypeOK, TornDays
    <3>4. /\ Rises(files', <<>>) /\ AllLines(files') = AllLines(files) \cup Range(batch)
      <4>1. /\ files \in [1..Days -> Seq(Lines)] /\ day \in 1..Days
            /\ \A d \in 1..Days : d > day => files[d] = <<>>
        BY DEF IInv, TypeOK, NoFuture, Lines
      <4>2. MovesTo(files, files', batch, day)
        BY <3>3, <4>1 DEF MovesTo
      <4> QED
        BY <2>2, <3>3, <4>1, <4>2, FlushRises
    <3>5. Range(<<>>) = {}
      BY EmptySeq, RangeOf
    <3> QED
      BY <2>3, <3>1, <3>4, <3>5
  <2>5. CASE buffer' = batch /\ UNCHANGED diskVars
    BY <2>2, <2>3, <2>5 DEF diskVars
  <2> QED
    BY <2>1, <2>4, <2>5
<1> QED
  BY <1>1, <1>2, <1>4, <1>5, <1>6, <1>7, <1>8 DEF IInv

LEMMA WriteKeepsIInv ==
    ASSUME IInv, Write
    PROVE  IInv' /\ FlushMoves(Append(buffer, offered + 1))
<1> DEFINE e == offered + 1
           batch == Append(buffer, e)
<1>1. /\ up /\ e \in Events /\ offered' = e /\ UNCHANGED <<up, day, gone>>
      /\ offered \in Nat /\ offered' \in offered..MaxEvents
      /\ (1..offered') \ (1..offered) = {e}
      /\ \A x \in 1..offered : x < e
  BY StorageAssumption DEF Write, IInv, TypeOK, Events
<1>2. /\ buffer \in Batches /\ batch \in Batches
      /\ Range(batch) = Range(buffer) \cup {e} /\ batch # <<>>
  <2>1. buffer \in Batches
    BY DEF IInv, TypeOK, Batches
  <2>2. batch \in Batches /\ Range(batch) = Range(buffer) \cup {e}
    BY <1>1, <2>1, RangeOfAppend
  <2> HIDE DEF batch
  <2> QED
    BY <2>1, <2>2, RangeOf DEF Batches
<1>3. ASSUME failures = 0 PROVE Rises(files, batch)
  <2>1. /\ AllLines(files) \cup Range(buffer) = Accepted /\ Rises(files, buffer)
    BY <1>3, ExactLogIff DEF IInv
  <2>2. files \in [1..Days -> Seq(Lines)]
    BY DEF IInv, TypeOK, Lines
  <2>3. \A x \in AllLines(files) \cup Range(buffer) : x < e
    BY <1>1, <2>1 DEF Accepted
  <2> QED
    BY <1>1, <1>2, <2>1, <2>2, <2>3, AppendRises
<1>4. \/ FlushOK(batch) \/ FlushFails(batch)
      \/ (age < FlushInterval /\ buffer' = batch
            /\ UNCHANGED <<age, waited, diskVars, histVars>>)
  <2>1. CASE age >= FlushInterval
    BY <2>1 DEF Write
  <2>2. CASE ~(age >= FlushInterval)
    <3>1. age < FlushInterval
      BY <2>2, StorageAssumption DEF IInv, TypeOK
    <3> QED
      BY <2>2, <3>1 DEF Write
  <2> QED
    BY <2>1, <2>2
<1> HIDE DEF batch, e
<1>5. IInv' /\ FlushMoves(batch)
  BY <1>1, <1>2, <1>3, <1>4, BatchKeepsIInv
<1> QED
  BY <1>5 DEF batch, e

LEMMA FlushKeepsIInv ==
    ASSUME IInv, Flush
    PROVE  IInv' /\ FlushMoves(buffer)
<1>1. /\ FlushOK(buffer) \/ FlushFails(buffer)
      /\ up /\ offered' = offered /\ UNCHANGED <<up, day, gone>>
      /\ buffer \in Batches /\ offered \in 0..MaxEvents
      /\ offered' \in offered..MaxEvents /\ (1..offered') \ (1..offered) = {}
  BY StorageAssumption DEF Flush, IInv, TypeOK, Batches
<1>2. failures = 0 => Rises(files, buffer)
  BY ExactLogIff DEF IInv
<1> QED
  BY <1>1, <1>2, BatchKeepsIInv

LEMMA RefuseKeepsIInv ==
    ASSUME IInv, Refuse
    PROVE  IInv'
<1> DEFINE e == offered + 1
<1>1. /\ up /\ e \in Events /\ offered' = e /\ gone' = gone \cup {e}
      /\ offered' \in 0..MaxEvents /\ 1..offered' = (1..offered) \cup {e} /\ e \notin 1..offered
      /\ UNCHANGED <<buffer, age, day, files, torn, up, failures, tears, waited>>
  BY StorageAssumption DEF Refuse, IInv, TypeOK, Events, diskVars, histVars
<1> HIDE DEF e
<1>2. Accepted' = Accepted
  BY <1>1 DEF Accepted, IInv, Written
<1>3. /\ Recorded' = Recorded /\ Garbled' = Garbled /\ TornDays' = TornDays
      /\ AllLines(files') = AllLines(files)
  BY <1>1 DEF Recorded, Readable, Garbled, TornDays
<1>4. TypeOK'
  BY <1>1, Zenon DEF IInv, TypeOK
<1>5. Written' /\ NoneForgotten' /\ TearsPaid' /\ NoFuture' /\ Waiting'
  BY <1>1, <1>2, <1>3 DEF IInv, Written, NoneForgotten, TearsPaid, NoFuture, Waiting
<1>6. ExactLog'
  BY <1>1, <1>2, ExactLogIff, ExactLogNext DEF IInv
<1> QED
  BY <1>4, <1>5, <1>6 DEF IInv

LEMMA EndKeepsIInv ==
    ASSUME IInv, End
    PROVE  IInv'
<1>1. /\ gone' = gone \cup (Range(buffer) \ Recorded) /\ up' = FALSE
      /\ buffer' = <<>> /\ waited' = 0
      /\ UNCHANGED <<age, day, files, torn, offered, failures, tears>>
  BY DEF End, diskVars, histVars
<1>2. /\ <<>> \in Batches /\ Range(<<>>) = {} /\ buffer \in Batches
      /\ Range(buffer) \subseteq Events
  <2>1. <<>> \in Batches /\ buffer \in Batches
    BY EmptySeq DEF Batches, IInv, TypeOK
  <2> QED
    BY <2>1, RangeOf DEF Batches
<1>3. /\ Recorded' = Recorded /\ Garbled' = Garbled /\ TornDays' = TornDays
  BY <1>1 DEF Recorded, Readable, Garbled, TornDays
<1>4. TypeOK'
  <2>1. /\ buffer' \in Seq(Events) /\ gone' \subseteq Events /\ up' \in BOOLEAN
        /\ waited' \in 0..FlushInterval + 1
    <3>1. buffer' \in Seq(Events) /\ gone' \subseteq Events
      BY <1>1, <1>2 DEF IInv, TypeOK, Batches
    <3>2. waited' \in 0..FlushInterval + 1
      BY <1>1, StorageAssumption
    <3> QED
      BY <1>1, <3>1, <3>2, Zenon
  <2> QED
    BY <1>1, <2>1, Zenon DEF IInv, TypeOK
<1>5. Written' /\ NoneForgotten' /\ TearsPaid' /\ NoFuture'
  BY <1>1, <1>2, <1>3 DEF IInv, Written, NoneForgotten, TearsPaid, NoFuture, Accepted
<1>6. Waiting'
  BY <1>1, StorageAssumption DEF IInv, TypeOK, Waiting
<1>7. ExactLog'
  <2> SUFFICES ASSUME failures = 0
               PROVE  AllLines(files) = Accepted' /\ Rises(files, <<>>)
    BY <1>1, <1>2, ExactLogNext
  <2>1. AllLines(files) \cup Range(buffer) = Accepted /\ Rises(files, buffer)
    BY ExactLogIff DEF IInv
  <2>2. files \in [1..Days -> Seq(Lines)]
    BY DEF IInv, TypeOK, Lines
  <2>3. Rises(files, <<>>)
    <3>1. Rising(<<>>)
      BY <1>2, EmptySeq DEF Rising
    <3> QED
      BY <1>2, <2>1, <2>2, <3>1, RisesIff
  <2>4. AllLines(files) = Recorded
    <3>1. Recorded \subseteq 1..offered /\ 1..offered \subseteq Events
      <4>1. offered \in 0..MaxEvents /\ MaxEvents \in Nat
        BY StorageAssumption DEF IInv, TypeOK
      <4>2. 1..offered \subseteq Events
        BY <4>1 DEF Events
      <4> QED
        BY <4>2 DEF IInv, Written
    <3>2. Accepted \subseteq Events
      BY <3>1 DEF Accepted
    <3>3. Garbled = {}
      <4>1. ASSUME NEW e \in Garbled PROVE FALSE
        <5>1. -e \in AllLines(files) /\ e \in Events
          BY DEF Garbled, AllLines
        <5> QED
          BY <2>1, <3>2, <5>1, LineTypes
      <4> QED
        BY <4>1
    <3>4. Recorded = Readable \cup Garbled
      BY DEF Recorded, Garbled
    <3>5. AllLines(files) \subseteq Readable
      BY <2>1, <3>2 DEF AllLines, Readable
    <3>6. Readable \subseteq AllLines(files)
      BY DEF AllLines, Readable
    <3> QED
      BY <3>3, <3>4, <3>5, <3>6
  <2>5. gone \cap Recorded = {}
    BY <2>1, <2>4 DEF Accepted
  <2> QED
    BY <1>1, <2>1, <2>3, <2>4, <2>5 DEF Accepted
<1> QED
  BY <1>4, <1>5, <1>6, <1>7 DEF IInv

LEMMA NextIInv == IInv /\ [Next]_vars => IInv'
<1>1. ASSUME IInv, Restart \/ Tick PROVE IInv'
  <2>1. UNCHANGED <<buffer, day, files, torn, offered, gone, failures, tears>>
    BY <1>1 DEF Restart, Tick, diskVars, histVars
  <2>2. /\ Recorded' = Recorded /\ Garbled' = Garbled /\ TornDays' = TornDays
        /\ Accepted' = Accepted
    BY <2>1 DEF Recorded, Readable, Garbled, TornDays, Accepted
  <2>3. age' \in 0..FlushInterval /\ waited' \in 0..FlushInterval + 1 /\ Waiting'
    <3>1. /\ age \in 0..FlushInterval /\ waited \in 0..FlushInterval + 1
          /\ FlushInterval \in Nat
          /\ buffer = <<>> => waited = 0
          /\ waited <= age \/ age = FlushInterval
          /\ up \/ buffer = <<>>
      BY <1>1, StorageAssumption DEF IInv, TypeOK, Waiting
    <3>2. CASE Restart
      <4>1. age' = 0 /\ waited' = waited /\ buffer' = buffer /\ up' /\ ~up
        BY <3>2 DEF Restart
      <4> QED
        BY <3>1, <4>1 DEF Waiting
    <3>3. CASE Tick
      <4>1. /\ up /\ up' = up /\ buffer' = buffer
            /\ age' = IF age < FlushInterval THEN age + 1 ELSE age
            /\ waited' = IF buffer # <<>> /\ waited <= FlushInterval
                         THEN waited + 1 ELSE waited
        BY <3>3 DEF Tick
      <4>2. age' \in 0..FlushInterval /\ waited' \in 0..FlushInterval + 1
        BY <3>1, <4>1
      <4>3. /\ buffer = <<>> => waited' = 0
            /\ waited' <= age' \/ age' = FlushInterval
        BY <3>1, <4>1
      <4> QED
        BY <4>1, <4>2, <4>3 DEF Waiting
    <3> QED
      BY <1>1, <3>2, <3>3
  <2>4. up' \in BOOLEAN
    BY <1>1, Zenon DEF Restart, Tick, IInv, TypeOK
  <2>5. TypeOK'
    BY <1>1, <2>1, <2>3, <2>4, Zenon DEF IInv, TypeOK
  <2>6. Written' /\ NoneForgotten' /\ TearsPaid' /\ NoFuture'
    BY <1>1, <2>1, <2>2 DEF IInv, Written, NoneForgotten, TearsPaid, NoFuture
  <2>7. ExactLog'
    BY <1>1, <2>1, <2>2, ExactLogIff, ExactLogNext DEF IInv
  <2> QED
    BY <2>3, <2>5, <2>6, <2>7 DEF IInv
<1>2. ASSUME IInv, Midnight PROVE IInv'
  <2>1. /\ day' \in 1..Days /\ day' > day /\ day \in 1..Days
        /\ UNCHANGED <<buffer, age, files, torn, up, offered, gone, failures, tears, waited>>
    BY <1>2, StorageAssumption DEF Midnight, diskVars, histVars, IInv, TypeOK
  <2>2. /\ Recorded' = Recorded /\ Garbled' = Garbled /\ TornDays' = TornDays
        /\ Accepted' = Accepted
    BY <2>1 DEF Recorded, Readable, Garbled, TornDays, Accepted
  <2>3. TypeOK'
    BY <1>2, <2>1, Zenon DEF IInv, TypeOK
  <2>4. NoFuture'
    BY <1>2, <2>1 DEF IInv, NoFuture
  <2>5. Written' /\ NoneForgotten' /\ TearsPaid' /\ Waiting'
    BY <1>2, <2>1, <2>2 DEF IInv, Written, NoneForgotten, TearsPaid, Waiting
  <2>6. ExactLog'
    BY <1>2, <2>1, <2>2, ExactLogIff, ExactLogNext DEF IInv
  <2> QED
    BY <2>3, <2>4, <2>5, <2>6 DEF IInv
<1>3. ASSUME IInv, UNCHANGED vars PROVE IInv'
  <2>1. UNCHANGED <<buffer, age, day, files, torn, up, offered, gone, failures, tears, waited>>
    BY <1>3 DEF vars
  <2>2. /\ Recorded' = Recorded /\ Garbled' = Garbled /\ TornDays' = TornDays
        /\ Accepted' = Accepted
    BY <2>1 DEF Recorded, Readable, Garbled, TornDays, Accepted
  <2>3. TypeOK'
    BY <1>3, <2>1, Zenon DEF IInv, TypeOK
  <2>4. Written' /\ NoneForgotten' /\ TearsPaid' /\ NoFuture' /\ Waiting'
    BY <1>3, <2>1, <2>2 DEF IInv, Written, NoneForgotten, TearsPaid, NoFuture, Waiting
  <2>5. ExactLog'
    BY <1>3, <2>1, <2>2, ExactLogIff, ExactLogNext DEF IInv
  <2> QED
    BY <2>3, <2>4, <2>5 DEF IInv
<1> QED
  BY <1>1, <1>2, <1>3, WriteKeepsIInv, FlushKeepsIInv, RefuseKeepsIInv, EndKeepsIInv DEF Next

(***************************************************************************)
(* The theorems                                                            *)
(***************************************************************************)
\* The inductive invariant holds at every step.
THEOREM IInvHolds == Spec => []IInv
BY InitIInv, NextIInv, PTL DEF Spec

\* Every variable keeps its type.
THEOREM TypeCorrect == Spec => []TypeOK
<1>1. IInv => TypeOK
  BY DEF IInv
<1> QED
  BY <1>1, IInvHolds, PTL

\* While no flush has failed, the files of all days in turn and then the buffer
\* are exactly the accepted events, in the order of their write().
THEOREM ExactLogHolds == Spec => []ExactLog
<1>1. IInv => ExactLog
  BY DEF IInv
<1> QED
  BY <1>1, IInvHolds, PTL

\* However often _do_flush() fails, no more events are lost than writes broke off
\* within a line.
THEOREM LossIsTornHolds == Spec => []LossIsTorn
<1>1. IInv => LossIsTorn
  <2> SUFFICES ASSUME IInv PROVE LossIsTorn
    OBVIOUS
  <2>1. Accepted \ (Readable \cup Range(buffer)) \in SUBSET Garbled
    BY DEF IInv, NoneForgotten, Recorded, Garbled
  <2>2. /\ Cardinality(Accepted \ (Readable \cup Range(buffer))) <= Cardinality(Garbled)
        /\ Cardinality(Accepted \ (Readable \cup Range(buffer))) \in Nat
    BY <2>1, FinitelyMany, FS_Subset, FS_CardinalityType
  <2>3. tears \in Nat /\ Cardinality(Garbled) + Cardinality(TornDays) <= tears
    BY DEF IInv, TypeOK, TearsPaid
  <2> QED
    BY <2>2, <2>3, FinitelyMany DEF LossIsTorn
<1> QED
  BY <1>1, IInvHolds, PTL

LEMMA StepBoundsWait ==
    ASSUME IInv, [Next]_vars, offered' > offered, waited >= FlushInterval, buffer # <<>>
    PROVE  buffer' = <<>> \/ failures' > failures \/ gone' # gone
<1>1. offered \in 0..MaxEvents /\ FlushInterval \in Nat
  BY StorageAssumption DEF IInv, TypeOK
<1>2. age >= FlushInterval
  BY <1>1 DEF IInv, TypeOK, Waiting
<1>3. CASE Write
  <2>1. FlushOK(Append(buffer, offered + 1)) \/ FlushFails(Append(buffer, offered + 1))
    BY <1>2, <1>3 DEF Write
  <2> QED
    BY <2>1 DEF FlushOK, FlushFails, IInv, TypeOK
<1>4. CASE Refuse
  BY <1>1, <1>4 DEF Refuse, IInv, Written
<1>5. CASE Flush \/ End \/ Restart \/ Tick \/ Midnight \/ UNCHANGED vars
  BY <1>1, <1>5 DEF Flush, End, Restart, Tick, Midnight, vars
<1> QED
  BY <1>3, <1>4, <1>5 DEF Next

\* A write() that finds events which have waited for the interval leaves them in
\* the buffer only if its flush failed, or if it was itself refused.
THEOREM WriteBoundsWaitHolds == Spec => WriteBoundsWait
BY IInvHolds, StepBoundsWait, PTL DEF Spec, WriteBoundsWait

(***************************************************************************)
(* Refinement of EventStore                                                *)
(***************************************************************************)
LEMMA StepImplementsStore ==
    ASSUME IInv, [Next]_vars
    PROVE  [Store!Next]_(Store!vars)
<1> USE DEF Store!vars
<1>1. ASSUME Write PROVE Store!Next
  <2>1. /\ offered + 1 \in Events /\ buffer \in Batches /\ offered \in Nat
        /\ offered < MaxEvents /\ offered' = offered + 1
    BY <1>1, StorageAssumption DEF Write, IInv, TypeOK, Events, Batches
  <2>2. Range(Append(buffer, offered + 1)) = Range(buffer) \cup {offered + 1}
    BY <2>1, RangeOfAppend
  <2>3. FlushMoves(Append(buffer, offered + 1))
    BY <1>1, WriteKeepsIInv
  <2>4. offered + 1 \notin Recorded
    BY <2>1 DEF IInv, Written
  <2>5. Store!Keep((Range(buffer) \ Recorded) \cup {offered + 1})
    BY <2>2, <2>3, <2>4 DEF FlushMoves, Store!Keep
  <2>6. up /\ UNCHANGED <<up, gone>>
    BY <1>1 DEF Write
  <2> QED
    BY <2>1, <2>5, <2>6 DEF Store!Next, Store!Write
<1>2. ASSUME Refuse PROVE Store!Next
  <2>1. buffer' = buffer /\ Recorded' = Recorded
    BY <1>2 DEF Refuse, diskVars, Recorded, Readable
  <2> QED
    BY <1>2, <2>1 DEF Refuse, Store!Next, Store!Refuse
<1>3. ASSUME Flush PROVE Store!Next
  <2>1. FlushMoves(buffer) /\ up /\ UNCHANGED <<up, offered, gone>>
    BY <1>3, FlushKeepsIInv DEF Flush
  <2> QED
    BY <2>1 DEF FlushMoves, Store!Keep, Store!Flush, Store!Next
<1>4. ASSUME End PROVE Store!Next
  <2>1. Range(buffer') = {}
    BY <1>4, EmptySeq, RangeOf DEF End
  <2>2. Recorded' = Recorded
    BY <1>4 DEF End, diskVars, Recorded, Readable
  <2> QED
    BY <1>4, <2>1, <2>2 DEF End, Store!End, Store!Next
<1>5. ASSUME Restart PROVE Store!Next
  <2>1. buffer' = buffer /\ Recorded' = Recorded
    BY <1>5 DEF Restart, diskVars, Recorded, Readable
  <2> QED
    BY <1>5, <2>1 DEF Restart, Store!Restart, Store!Next
<1>6. ASSUME Tick \/ Midnight \/ UNCHANGED vars PROVE UNCHANGED Store!vars
  <2>1. UNCHANGED <<buffer, files, up, offered, gone>>
    BY <1>6 DEF Tick, Midnight, vars, diskVars
  <2> QED
    BY <2>1 DEF Recorded, Readable
<1> QED
  BY <1>1, <1>2, <1>3, <1>4, <1>5, <1>6 DEF Next

\* The JSONL backend keeps the promise of a store: whatever fails, an event stays
\* in memory until its line has been written, unless the process ends before.
THEOREM ImplementsStore == Spec => StoreSpec
<1>1. Init => Store!Init
  <2>1. Range(<<>>) = {} /\ <<>> \in Batches
    BY EmptySeq, RangeOf DEF Batches
  <2> QED
    BY <2>1 DEF Init, Store!Init, Recorded, Readable
<1> QED
  BY <1>1, IInvHolds, StepImplementsStore, PTL DEF Spec, StoreSpec, Store!Spec
=============================================================================
