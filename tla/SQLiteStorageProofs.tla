------------------------- MODULE SQLiteStorageProofs -------------------------
(***************************************************************************)
(* Theorems about SQLiteStorage, for every flush interval, every number of *)
(* events and of flushes that raise: what the table holds, that a poison   *)
(* event stops all storing, and that the backend implements EventStore.    *)
(***************************************************************************)
EXTENDS SQLiteStorage, SequenceTheorems, WellFoundedInduction, TLAPS

Batches == Seq(Events)

\* What the storage holds was written to it.
Written == Range(buffer) \cup Range(txn) \cup Range(rows) \cup gone \subseteq 1..offered

\* What the open transaction holds is still buffered, and can be inserted.
TxnIsBuffered == Range(txn) \subseteq Range(buffer) \ poison

RowsArePure == Range(rows) \cap poison = {}

\* An open transaction that no fault has touched was left by a poison event, and
\* that is still in the buffer.
TxnIsBlocked == faults = 0 /\ txn # <<>> => Range(buffer) \cap poison # {}

IInv == /\ TypeOK /\ Written /\ TxnIsBuffered /\ RowsArePure /\ TxnIsBlocked
        /\ ExactRows

(***************************************************************************)
(* Sequences of events                                                     *)
(***************************************************************************)
LEMMA SmallestOf ==
    ASSUME NEW T \in SUBSET Nat, T # {}
    PROVE  \E x \in T : \A y \in T : x <= y
<1>1. PICK x \in T : \A y \in T : ~(<<y, x>> \in OpToRel(<, Nat))
  BY NatLessThanWellFounded, WFMin
<1>2. \A y \in T : ~(y < x)
  BY <1>1 DEF OpToRel
<1> QED
  BY <1>2

LEMMA RangeOf ==
    ASSUME NEW s \in Batches
    PROVE  /\ Range(s) = {s[i] : i \in 1..Len(s)}
           /\ Range(s) \subseteq Events
           /\ Len(s) \in Nat
           /\ s = <<>> <=> Range(s) = {}
           /\ s = <<>> <=> Len(s) = 0
<1>1. DOMAIN s = 1..Len(s) /\ Len(s) \in Nat /\ \A i \in 1..Len(s) : s[i] \in Events
  BY DEF Batches
<1>2. Range(s) = {s[i] : i \in 1..Len(s)}
  BY <1>1, Zenon DEF Range
<1>3. s = <<>> <=> Len(s) = 0
  BY DEF Batches
<1> QED
  BY <1>1, <1>2, <1>3

LEMMA RangeOfAppend ==
    ASSUME NEW s \in Batches, NEW e \in Events
    PROVE  Append(s, e) \in Batches /\ Range(Append(s, e)) = Range(s) \cup {e}
<1> DEFINE t == Append(s, e)
<1>1. /\ t \in Batches
      /\ Len(s) \in Nat /\ Len(t) = Len(s) + 1 /\ t[Len(s) + 1] = e
      /\ \A i \in 1..Len(s) : t[i] = s[i]
  BY DEF Batches
<1>2. Range(t) = {t[i] : i \in 1..Len(t)} /\ Range(s) = {s[i] : i \in 1..Len(s)}
  BY <1>1, RangeOf
<1> HIDE DEF t
<1>3. Range(t) = Range(s) \cup {e}
  BY <1>1, <1>2
<1> QED
  BY <1>1, <1>3 DEF t

LEMMA RangeOfConcat ==
    ASSUME NEW s \in Batches, NEW t \in Batches
    PROVE  s \o t \in Batches /\ Range(s \o t) = Range(s) \cup Range(t)
BY RangeConcatenation DEF Batches

LEMMA RangeOfPrefix ==
    ASSUME NEW s \in Batches, NEW k \in 0..Len(s)
    PROVE  /\ SubSeq(s, 1, k) \in Batches
           /\ Range(SubSeq(s, 1, k)) = {s[i] : i \in 1..k}
           /\ SubSeq(s, 1, k) = <<>> <=> k = 0
<1> DEFINE t == SubSeq(s, 1, k)
<1>1. t \in Batches /\ Len(t) = k /\ \A i \in 1..k : t[i] = s[i]
  BY DEF Batches
<1> HIDE DEF t
<1>2. Range(t) = {t[i] : i \in 1..k} /\ (t = <<>> <=> k = 0)
  BY <1>1, RangeOf
<1>3. Range(t) = {s[i] : i \in 1..k}
  BY <1>1, <1>2
<1> QED
  BY <1>1, <1>2, <1>3 DEF t

\* Insertable() stops before the first poison event, if there is one.
LEMMA InsertableFits ==
    ASSUME NEW s \in Batches, NEW bad
    PROVE  LET k == Insertable(s, bad)
           IN  /\ k \in 0..Len(s)
               /\ \A i \in 1..k : s[i] \notin bad
               /\ k < Len(s) => s[k + 1] \in bad
<1> DEFINE P(k) == /\ \A i \in 1..k : s[i] \notin bad
                   /\ k < Len(s) => s[k + 1] \in bad
           T == {i \in 1..Len(s) : s[i] \in bad}
<1>1. Len(s) \in Nat
  BY RangeOf
<1>2. \E k \in 0..Len(s) : P(k)
  <2>1. CASE T = {}
    BY <1>1, <2>1
  <2>2. CASE T # {}
    <3>1. T \in SUBSET Nat
      OBVIOUS
    <3>2. PICK i \in T : \A j \in T : i <= j
      BY <2>2, <3>1, SmallestOf
    <3>3. i - 1 \in 0..Len(s) /\ P(i - 1)
      BY <1>1, <3>2
    <3> QED
      BY <3>3
  <2> QED
    BY <2>1, <2>2
<1> QED
  BY <1>2 DEF Insertable

(***************************************************************************)
(* What a flush does, whether it commits or raises                         *)
(***************************************************************************)
FlushTypes ==
    /\ buffer' \in Batches /\ txn' \in Batches /\ rows' \in Batches
    /\ age' \in 0..FlushInterval
    /\ raised' \in 0..MaxRaises /\ faults' \in 0..raised'

\* Nothing but events of the batch is stored, and nothing leaves the batch
\* unless it is stored.
FlushMoves(batch, bad) ==
    /\ Range(rows) \subseteq Range(rows')
    /\ Range(rows') \subseteq Range(rows) \cup Range(batch)
    /\ Range(buffer') \subseteq Range(batch)
    /\ Range(batch) \subseteq Range(buffer') \cup Range(rows')
    /\ Range(txn') \subseteq Range(buffer') \ bad
    /\ Range(rows') \cap bad = {}
    /\ Range(batch) \cap bad # {} => rows' = rows

\* Without a fault of the database the batch stays behind the rows.
FlushExact(batch, bad) ==
    /\ faults' = 0 /\ txn' # <<>> => Range(buffer') \cap bad # {}
    /\ faults' = 0 => faults = 0 /\ rows' \o buffer' = rows \o batch

LEMMA FlushEffect ==
    ASSUME TypeOK, NEW batch \in Batches, NEW bad,
           Range(txn) \subseteq Range(batch) \ bad, Range(rows) \cap bad = {},
           faults = 0 /\ txn # <<>> => Range(batch) \cap bad # {},
           DoFlush(batch, bad)
    PROVE  FlushTypes /\ FlushMoves(batch, bad) /\ FlushExact(batch, bad)
<1> DEFINE k == Insertable(batch, bad)
<1>1. /\ Len(batch) \in Nat /\ k \in 0..Len(batch)
      /\ \A i \in 1..k : batch[i] \notin bad
      /\ k < Len(batch) => batch[k + 1] \in bad
  BY InsertableFits, RangeOf
<1>2. /\ Range(batch) = {batch[i] : i \in 1..Len(batch)}
      /\ batch = <<>> <=> Range(batch) = {}
      /\ k < Len(batch) <=> Range(batch) \cap bad # {}
  <2> HIDE DEF k
  <2>1. /\ Range(batch) = {batch[i] : i \in 1..Len(batch)}
        /\ batch = <<>> <=> Range(batch) = {}
    BY RangeOf
  <2>2. ASSUME k < Len(batch) PROVE Range(batch) \cap bad # {}
    <3>1. k + 1 \in 1..Len(batch)
      BY <1>1, <2>2
    <3> QED
      BY <1>1, <2>1, <2>2, <3>1
  <2>3. ASSUME ~(k < Len(batch)) PROVE Range(batch) \cap bad = {}
    <3>1. k = Len(batch)
      BY <1>1, <2>3
    <3> QED
      BY <1>1, <2>1, <3>1
  <2> QED
    BY <2>1, <2>2, <2>3
<1>3. /\ txn \in Batches /\ rows \in Batches /\ buffer \in Batches /\ <<>> \in Batches
      /\ Range(<<>>) = {}
  <2>1. <<>> \in Batches
    BY EmptySeq DEF Batches
  <2> QED
    BY <2>1, RangeOf DEF TypeOK, Batches
<1>4. ASSUME NEW n \in 0..k
      PROVE  /\ txn \o SubSeq(batch, 1, n) \in Batches
             /\ Range(txn \o SubSeq(batch, 1, n)) \subseteq Range(batch) \ bad
  <2> HIDE DEF k
  <2>1. /\ SubSeq(batch, 1, n) \in Batches
        /\ Range(SubSeq(batch, 1, n)) = {batch[i] : i \in 1..n}
    BY <1>1, RangeOfPrefix
  <2>2. Range(SubSeq(batch, 1, n)) \subseteq Range(batch) \ bad
    BY <1>1, <1>2, <2>1
  <2> QED
    BY <1>3, <2>1, <2>2, RangeOfConcat
<1>5. CASE FlushOK(batch, bad)
  <2>1. /\ k = Len(batch) /\ Range(batch) \cap bad = {}
        /\ buffer' = <<>> /\ UNCHANGED <<raised, faults>>
        /\ age' = IF batch = <<>> THEN age ELSE 0
    BY <1>1, <1>2, <1>5 DEF FlushOK
  <2>2. CASE batch = <<>>
    <3>1. txn = <<>> /\ rows' = rows /\ txn' = txn
      BY <1>2, <1>3, <1>5, <2>2, RangeOf DEF FlushOK
    <3>2. FlushTypes /\ FlushMoves(batch, bad)
      BY <1>3, <2>1, <2>2, <3>1 DEF TypeOK, FlushTypes, FlushMoves
    <3>3. FlushExact(batch, bad)
      BY <2>1, <2>2, <3>1 DEF FlushExact
    <3> QED
      BY <3>2, <3>3
  <2>3. CASE batch # <<>>
    <3>1. rows' = rows \o txn \o batch /\ txn' = <<>>
      BY <1>5, <2>3 DEF FlushOK
    <3>2. /\ rows' \in Batches
          /\ Range(rows') = Range(rows) \cup Range(txn) \cup Range(batch)
      BY <1>3, <3>1, RangeOfConcat
    <3>3. FlushTypes
      BY <1>3, <2>1, <3>1, <3>2, SQLiteAssumption DEF TypeOK, FlushTypes
    <3>4. FlushMoves(batch, bad)
      BY <1>3, <2>1, <3>1, <3>2 DEF FlushMoves
    <3>5. ASSUME faults = 0 PROVE rows' \o buffer' = rows \o batch
      <4>1. txn = <<>>
        BY <2>1, <3>5
      <4>2. rows \o txn = rows
        BY <1>3, <4>1, ConcatEmptySeq DEF Batches
      <4>3. rows' = rows \o batch
        BY <3>1, <4>2
      <4>4. rows' \o <<>> = rows'
        BY <3>2, ConcatEmptySeq DEF Batches
      <4> QED
        BY <2>1, <4>3, <4>4
    <3> QED
      BY <2>1, <3>1, <3>3, <3>4, <3>5 DEF FlushExact
  <2> QED
    BY <2>2, <2>3
<1>6. CASE FlushPoisoned(batch, bad)
  <2>1. /\ k < Len(batch) /\ txn' = txn \o SubSeq(batch, 1, k)
        /\ raised < MaxRaises /\ raised' = raised + 1
        /\ buffer' = batch /\ UNCHANGED <<age, rows, faults>>
    BY <1>6 DEF FlushPoisoned
  <2>2. txn' \in Batches /\ Range(txn') \subseteq Range(batch) \ bad
    BY <1>1, <1>4, <2>1
  <2> HIDE DEF k
  <2>3. FlushTypes
    BY <1>3, <2>1, <2>2, SQLiteAssumption DEF TypeOK, FlushTypes
  <2> QED
    BY <1>2, <2>1, <2>2, <2>3 DEF FlushMoves, FlushExact
<1>7. CASE FlushFaults(batch, bad)
  <2>1. /\ \E n \in 0..k : txn' \in {txn \o SubSeq(batch, 1, n), <<>>}
        /\ raised < MaxRaises /\ raised' = raised + 1 /\ faults' = faults + 1
        /\ buffer' = batch /\ UNCHANGED <<age, rows>>
    BY <1>7 DEF FlushFaults
  <2>2. txn' \in Batches /\ Range(txn') \subseteq Range(batch) \ bad
    BY <1>3, <1>4, <2>1
  <2> HIDE DEF k
  <2>3. FlushTypes
    BY <1>3, <2>1, <2>2, SQLiteAssumption DEF TypeOK, FlushTypes
  <2>4. faults' # 0
    BY <2>1 DEF TypeOK
  <2> QED
    BY <1>2, <2>1, <2>2, <2>3, <2>4 DEF FlushMoves, FlushExact
<1> QED
  BY <1>5, <1>6, <1>7 DEF DoFlush

(***************************************************************************)
(* The invariant is inductive                                              *)
(***************************************************************************)
LEMMA InitIInv == Init => IInv
<1> SUFFICES ASSUME Init PROVE IInv
  OBVIOUS
<1>1. <<>> \in Batches /\ Len(<<>>) = 0
  BY EmptySeq DEF Batches
<1>2. /\ buffer = <<>> /\ txn = <<>> /\ rows = <<>>
      /\ Range(buffer) = {} /\ Range(txn) = {} /\ Range(rows) = {}
  BY <1>1, RangeOf DEF Init
<1>3. TypeOK
  BY <1>1, <1>2, SQLiteAssumption DEF Init, TypeOK, Batches
<1>4. Written /\ TxnIsBuffered /\ RowsArePure /\ TxnIsBlocked
  BY <1>2 DEF Init, Written, TxnIsBuffered, RowsArePure, TxnIsBlocked
<1>5. ExactRows
  <2>1. rows \o buffer = <<>>
    BY <1>1, <1>2, ConcatEmptySeq DEF Batches
  <2> QED
    BY <1>1, <1>2, <2>1 DEF Init, ExactRows
<1> QED
  BY <1>3, <1>4, <1>5 DEF IInv

\* The rows and what is to follow them, in the order they were written.
Ordered(all, accepted) ==
    /\ Range(all) = accepted
    /\ \A i, j \in 1..Len(all) : i < j => all[i] < all[j]

LEMMA AppendKeepsOrder ==
    ASSUME NEW s \in Batches, NEW e \in Events, NEW accepted,
           Ordered(s, accepted), \A d \in Range(s) : d < e
    PROVE  Ordered(Append(s, e), accepted \cup {e})
<1>1. /\ Append(s, e) \in Batches /\ Range(Append(s, e)) = Range(s) \cup {e}
      /\ Range(s) = {s[i] : i \in 1..Len(s)}
  BY RangeOfAppend, RangeOf
<1>2. /\ Len(s) \in Nat /\ Len(Append(s, e)) = Len(s) + 1 /\ Append(s, e)[Len(s) + 1] = e
      /\ \A i \in 1..Len(s) : Append(s, e)[i] = s[i] /\ s[i] < e
  BY <1>1 DEF Batches
<1> QED
  BY <1>1, <1>2 DEF Ordered

LEMMA WriteEffect ==
    ASSUME IInv, Write
    PROVE  /\ FlushTypes
           /\ FlushMoves(Append(buffer, offered + 1), poison')
           /\ FlushExact(Append(buffer, offered + 1), poison')
<1> DEFINE batch == Append(buffer, offered + 1)
           e == offered + 1
<1>1. /\ up /\ e \in Events /\ offered' = e /\ UNCHANGED <<up, gone>>
      /\ offered' \in 0..MaxEvents
      /\ poison' \in {poison, poison \cup {e}} /\ poison' \subseteq Events
  BY SQLiteAssumption DEF Write, IInv, TypeOK, Events
<1>2. /\ batch \in Batches /\ Range(batch) = Range(buffer) \cup {e}
      /\ buffer \in Batches /\ rows \in Batches /\ txn \in Batches
  BY <1>1, RangeOfAppend DEF IInv, TypeOK, Batches
<1>3. /\ Range(txn) \subseteq Range(batch) \ poison' /\ Range(rows) \cap poison' = {}
      /\ faults = 0 /\ txn # <<>> => Range(batch) \cap poison' # {}
  BY <1>1, <1>2 DEF IInv, TypeOK, Written, TxnIsBuffered, RowsArePure, TxnIsBlocked
<1>4. CASE age >= FlushInterval
  <2>1. DoFlush(batch, poison')
    BY <1>4 DEF Write
  <2> QED
    BY <1>2, <1>3, <2>1, FlushEffect DEF IInv
<1>5. CASE ~(age >= FlushInterval)
  <2>1. buffer' = batch /\ UNCHANGED <<age, txn, rows, raised, faults>>
    BY <1>5 DEF Write
  <2> QED
    BY <1>2, <1>3, <2>1 DEF IInv, TypeOK, FlushTypes, FlushMoves, FlushExact, Batches
<1> QED
  BY <1>4, <1>5

LEMMA WriteKeepsIInv ==
    ASSUME IInv, Write
    PROVE  IInv'
<1> DEFINE batch == Append(buffer, offered + 1)
           e == offered + 1
<1>1. /\ up /\ e \in Events /\ offered' = e /\ UNCHANGED <<up, gone>>
      /\ offered' \in 0..MaxEvents
      /\ poison' \in {poison, poison \cup {e}} /\ poison' \subseteq Events
  BY SQLiteAssumption DEF Write, IInv, TypeOK, Events
<1>2. /\ batch \in Batches /\ Range(batch) = Range(buffer) \cup {e}
      /\ buffer \in Batches /\ rows \in Batches /\ txn \in Batches
  BY <1>1, RangeOfAppend DEF IInv, TypeOK, Batches
<1>3. faults = 0 => Ordered(rows \o batch, (1..offered') \ gone')
  <2>1. ASSUME faults = 0 PROVE Ordered(rows \o buffer, (1..offered) \ gone)
    BY <2>1 DEF IInv, ExactRows, Ordered
  <2>2. rows \o batch = Append(rows \o buffer, e) /\ rows \o buffer \in Batches
    BY <1>1, <1>2 DEF Batches
  <2>3. \A d \in Range(rows \o buffer) : d < e
    BY <1>2, RangeOfConcat DEF IInv, TypeOK, Written
  <2>4. (1..offered') \ gone' = ((1..offered) \ gone) \cup {e}
    BY <1>1 DEF IInv, TypeOK, Written
  <2> HIDE DEF e, batch
  <2>5. ASSUME faults = 0 PROVE Ordered(rows \o batch, (1..offered') \ gone')
    <3>1. Ordered(Append(rows \o buffer, e), ((1..offered) \ gone) \cup {e})
      BY <1>1, <2>1, <2>2, <2>3, <2>5, AppendKeepsOrder
    <3> QED
      BY <2>2, <2>4, <3>1
  <2> QED
    BY <2>5
<1>4. /\ FlushTypes /\ FlushMoves(batch, poison') /\ FlushExact(batch, poison')
  BY WriteEffect
<1>5. TypeOK'
  BY <1>1, <1>4 DEF FlushTypes, IInv, TypeOK, Batches
<1>6. Written' /\ TxnIsBuffered' /\ RowsArePure' /\ TxnIsBlocked'
  BY <1>1, <1>2, <1>4 DEF FlushMoves, FlushExact, IInv, TypeOK, Written, TxnIsBuffered,
                          RowsArePure, TxnIsBlocked
<1>7. ExactRows'
  BY <1>3, <1>4 DEF FlushExact, ExactRows, Ordered
<1> QED
  BY <1>5, <1>6, <1>7 DEF IInv

LEMMA FlushKeepsIInv ==
    ASSUME IInv, Flush
    PROVE  IInv'
<1>1. DoFlush(buffer, poison) /\ UNCHANGED <<up, offered, poison, gone>>
  BY DEF Flush
<1>2. buffer \in Batches /\ Range(buffer) = Range(buffer)
  BY DEF IInv, TypeOK, Batches
<1>3. /\ FlushTypes /\ FlushMoves(buffer, poison) /\ FlushExact(buffer, poison)
  BY <1>1, <1>2, FlushEffect DEF IInv, TxnIsBuffered, RowsArePure, TxnIsBlocked
<1>4. TypeOK'
  BY <1>1, <1>3 DEF FlushTypes, IInv, TypeOK, Batches
<1>5. Written' /\ TxnIsBuffered' /\ RowsArePure' /\ TxnIsBlocked'
  BY <1>1, <1>3 DEF FlushMoves, FlushExact, IInv, Written, TxnIsBuffered, RowsArePure,
                    TxnIsBlocked
<1>6. ExactRows'
  BY <1>1, <1>3 DEF FlushExact, IInv, ExactRows
<1> QED
  BY <1>4, <1>5, <1>6 DEF IInv

LEMMA EndKeepsIInv ==
    ASSUME IInv, End
    PROVE  IInv'
<1>1. /\ gone' = gone \cup (Range(buffer) \ Range(rows)) /\ up' = FALSE
      /\ buffer' = <<>> /\ txn' = <<>>
      /\ UNCHANGED <<age, rows, offered, poison, raised, faults>>
  BY DEF End
<1>2. /\ <<>> \in Batches /\ Range(<<>>) = {}
      /\ buffer \in Batches /\ rows \in Batches
  BY EmptySeq, RangeOf DEF Batches, IInv, TypeOK
<1>3. TypeOK'
  BY <1>1, <1>2, RangeOf DEF IInv, TypeOK, Batches
<1>4. Written' /\ TxnIsBuffered' /\ RowsArePure' /\ TxnIsBlocked'
  BY <1>1, <1>2 DEF IInv, Written, TxnIsBuffered, RowsArePure, TxnIsBlocked
<1>5. ExactRows'
  <2> SUFFICES ASSUME faults = 0
               PROVE  Ordered(rows, (1..offered) \ gone')
    BY <1>1, <1>2, ConcatEmptySeq DEF ExactRows, Ordered, Batches
  <2>1. /\ Range(rows \o buffer) = Range(rows) \cup Range(buffer)
        /\ Range(rows \o buffer) = (1..offered) \ gone
        /\ \A i, j \in 1..Len(rows \o buffer) :
              i < j => (rows \o buffer)[i] < (rows \o buffer)[j]
    BY <1>2, RangeOfConcat DEF IInv, ExactRows
  <2>2. /\ Len(rows) \in Nat /\ Len(buffer) \in Nat
        /\ Len(rows \o buffer) = Len(rows) + Len(buffer)
        /\ \A i \in 1..Len(rows) : (rows \o buffer)[i] = rows[i]
    BY <1>2 DEF Batches
  <2>3. Range(rows) = (1..offered) \ gone'
    BY <1>1, <2>1
  <2>4. \A i, j \in 1..Len(rows) : i < j => rows[i] < rows[j]
    BY <2>1, <2>2
  <2> QED
    BY <2>3, <2>4 DEF Ordered
<1> QED
  BY <1>3, <1>4, <1>5 DEF IInv

LEMMA NextIInv == IInv /\ [Next]_vars => IInv'
<1>1. ASSUME IInv, Restart \/ Tick PROVE IInv'
  <2>1. UNCHANGED <<buffer, txn, rows, offered, poison, gone, raised, faults>>
    BY <1>1 DEF Restart, Tick
  <2>2. age' \in 0..FlushInterval
    <3>1. CASE Restart
      BY <3>1, SQLiteAssumption DEF Restart
    <3>2. CASE Tick
      BY <1>1, <3>2, SQLiteAssumption DEF Tick, IInv, TypeOK
    <3> QED
      BY <1>1, <3>1, <3>2
  <2>3. up' \in BOOLEAN
    BY <1>1, Zenon DEF Restart, Tick, IInv, TypeOK
  <2>4. TypeOK'
    BY <1>1, <2>1, <2>2, <2>3 DEF IInv, TypeOK
  <2> QED
    BY <1>1, <2>1, <2>4 DEF IInv, Written, TxnIsBuffered, RowsArePure, TxnIsBlocked,
                            ExactRows
<1>2. ASSUME IInv, UNCHANGED vars PROVE IInv'
  BY <1>2 DEF vars, IInv, TypeOK, Written, TxnIsBuffered, RowsArePure, TxnIsBlocked,
              ExactRows
<1> QED
  BY <1>1, <1>2, WriteKeepsIInv, FlushKeepsIInv, EndKeepsIInv DEF Next

\* The table and the buffer hold what the storage says they do, whenever it is
\* asked: the inductive invariant holds at every step.
THEOREM IInvHolds == Spec => []IInv
BY InitIInv, NextIInv, PTL DEF Spec

\* Every variable keeps its type.
THEOREM TypeCorrect == Spec => []TypeOK
<1>1. IInv => TypeOK
  BY DEF IInv
<1> QED
  BY <1>1, IInvHolds, PTL

\* As long as the database raises nothing itself, the table followed by the
\* buffer is the accepted events in order: _do_flush() never commits what an
\* earlier one left in the open transaction next to its own copy of it.
THEOREM ExactRowsHolds == Spec => []ExactRows
<1>1. IInv => ExactRows
  BY DEF IInv
<1> QED
  BY <1>1, IInvHolds, PTL

LEMMA FlushMovesNow ==
    ASSUME IInv, Flush
    PROVE  FlushMoves(buffer, poison)
BY FlushEffect DEF Flush, IInv, TypeOK, TxnIsBuffered, RowsArePure, TxnIsBlocked, Batches

LEMMA StepFreezes ==
    ASSUME IInv, IInv', [Next]_vars
    PROVE  /\ Range(rows') \cap poison' = {}
           /\ Range(buffer) \cap poison # {} => rows' = rows
<1>1. Range(rows') \cap poison' = {}
  BY DEF IInv, RowsArePure
<1>2. ASSUME Write, Range(buffer) \cap poison # {} PROVE rows' = rows
  <2>1. /\ offered + 1 \in Events /\ buffer \in Batches
        /\ poison \subseteq poison'
    BY <1>2, SQLiteAssumption DEF Write, IInv, TypeOK, Events, Batches
  <2>2. Range(Append(buffer, offered + 1)) \cap poison' # {}
    BY <1>2, <2>1, RangeOfAppend
  <2> QED
    BY <1>2, <2>2, WriteEffect DEF FlushMoves
<1>3. ASSUME Flush, Range(buffer) \cap poison # {} PROVE rows' = rows
  BY <1>3, FlushMovesNow DEF FlushMoves
<1>4. ASSUME End \/ Restart \/ Tick \/ UNCHANGED vars PROVE rows' = rows
  BY <1>4 DEF End, Restart, Tick, vars
<1> QED
  BY <1>1, <1>2, <1>3, <1>4 DEF Next

\* An event that cannot be inserted is never in the table, and while one is in
\* the buffer nothing else reaches the table either.
THEOREM PoisonFreezesHolds == Spec => PoisonFreezes
BY IInvHolds, StepFreezes, PTL DEF Spec, PoisonFreezes

(***************************************************************************)
(* Refinement of EventStore                                                *)
(***************************************************************************)
LEMMA StepImplementsStore ==
    ASSUME IInv, [Next]_vars
    PROVE  [Store!Next]_(Store!vars)
<1> USE DEF Store!vars
<1>1. ASSUME Write PROVE Store!Next
  <2>1. /\ offered + 1 \in Events /\ buffer \in Batches
        /\ offered < MaxEvents /\ offered' = offered + 1
    BY <1>1, SQLiteAssumption DEF Write, IInv, TypeOK, Events, Batches
  <2>2. Range(Append(buffer, offered + 1)) = Range(buffer) \cup {offered + 1}
    BY <2>1, RangeOfAppend
  <2>3. FlushMoves(Append(buffer, offered + 1), poison')
    BY <1>1, WriteEffect
  <2>4. offered + 1 \notin Range(rows)
    BY <2>1 DEF IInv, TypeOK, Written
  <2>5. Store!Keep((Range(buffer) \ Range(rows)) \cup {offered + 1})
    BY <2>2, <2>3, <2>4 DEF FlushMoves, Store!Keep
  <2>6. up /\ UNCHANGED <<up, gone>>
    BY <1>1 DEF Write
  <2> QED
    BY <2>1, <2>5, <2>6 DEF Store!Next, Store!Write
<1>2. ASSUME Flush PROVE Store!Next
  BY <1>2, FlushMovesNow DEF Flush, FlushMoves, Store!Keep, Store!Flush, Store!Next
<1>3. ASSUME End PROVE Store!Next
  <2>1. Range(buffer') = {}
    BY <1>3, EmptySeq, RangeOf DEF End, Batches
  <2> QED
    BY <1>3, <2>1 DEF End, Store!End, Store!Next
<1>4. ASSUME Restart PROVE Store!Next
  BY <1>4 DEF Restart, Store!Restart, Store!Next
<1>5. ASSUME Tick \/ UNCHANGED vars PROVE UNCHANGED Store!vars
  BY <1>5 DEF Tick, vars
<1> QED
  BY <1>1, <1>2, <1>3, <1>4, <1>5 DEF Next

\* The SQLite backend keeps the promise of a store: an event stays in memory until
\* its row is committed, unless the process ends before, and a committed row stays.
THEOREM ImplementsStore == Spec => StoreSpec
<1>1. Init => Store!Init
  <2>1. <<>> \in Batches
    BY EmptySeq DEF Batches
  <2> QED
    BY <2>1, RangeOf DEF Init, Store!Init
<1> QED
  BY <1>1, IInvHolds, StepImplementsStore, PTL DEF Spec, StoreSpec, Store!Spec
=============================================================================
