--------------------------- MODULE LogBridgeProofs ---------------------------
(***************************************************************************)
(* Theorems about LogBridge, for every number of lines and of rotations,   *)
(* whether or not lines are written in two pieces: lines are published     *)
(* once and in order, or a second time when a read raced with a rotation,  *)
(* and none is lost in a way that `excused' does not name.                 *)
(***************************************************************************)
EXTENDS LogBridge, SequenceTheorems, WellFoundedInduction, TLAPS

\* A log that was not rotated only grows, and a read ends within the log that was
\* asked for its size.
Grows == /\ ~rotated => pos <= size
         /\ moved => rotated /\ watch = "opening"
         /\ watch = "opening" /\ ~moved => stat <= size /\ (~rotated => pos <= stat)

\* The watcher has lines in hand just while it publishes them.
InHand == batch # {} <=> watch = "publishing"

\* What was published, or is in hand, lies before the position, unless it was
\* read behind a rotation.
Passed(n) == Tail1(n) <= Seen \/ (n \in raced /\ Tail1(n) <= end)

ReadBefore == /\ Seen <= end
              /\ \A n \in Range(published) \cup batch : Passed(n)
              /\ \A n \in Range(published), m \in batch : n < m \/ n \in raced

\* What was published twice, or will be when the batch is, lies before the
\* position and is not read again; a read that races with a rotation returns
\* lines that were not published before.
Repeats(n) == \E i, j \in 1..Len(published) :
                  i < j /\ published[i] = n /\ published[j] = n

OnceMore == /\ \A n \in LineNumbers : Repeats(n) => Tail1(n) <= Seen /\ n \notin batch
            /\ \A n \in batch \cap Range(published) : Tail1(n) <= Seen
            /\ moved => \A n \in Range(published) : Tail1(n) <= base

\* The losses are known as soon as a line is begun: one that is still half
\* written has not been passed over unless it is excused.
NoneForgotten ==
    watch # "off" => \A n \in LineNumbers :
        Head1(n) <= end => n \in Range(published) \cup batch \cup excused \cup Unseen

IInv == /\ TypeOK /\ Grows /\ InHand /\ ReadBefore /\ OnceMore /\ NoneForgotten
        /\ InOrderOnce

(***************************************************************************)
(* Lines in hand                                                           *)
(***************************************************************************)
LEMMA SmallestOf ==
    ASSUME NEW T \in SUBSET Nat, T # {}
    PROVE  \E x \in T : \A y \in T : x <= y
<1>1. PICK x \in T : \A y \in T : ~(<<y, x>> \in OpToRel(<, Nat))
  BY NatLessThanWellFounded, WFMin
<1>2. \A y \in T : ~(y < x)
  BY <1>1 DEF OpToRel
<1> QED
  BY <1>2

\* First() finds the line that the watcher publishes next.
LEMMA FirstIsFirst ==
    ASSUME NEW lines \in SUBSET LineNumbers, lines # {}
    PROVE  First(lines) \in lines /\ \A m \in lines : First(lines) <= m
<1>1. lines \in SUBSET Nat
  BY BridgeAssumption DEF LineNumbers
<1>2. \E n \in lines : \A m \in lines : n <= m
  BY <1>1, SmallestOf
<1> QED
  BY <1>2 DEF First

LEMMA RangeOfLines ==
    ASSUME NEW s \in Seq(LineNumbers)
    PROVE  /\ Range(s) \subseteq LineNumbers
           /\ \A i \in 1..Len(s) : s[i] \in Range(s)
<1>1. DOMAIN s = 1..Len(s) /\ \A i \in 1..Len(s) : s[i] \in LineNumbers
  OBVIOUS
<1>2. Range(s) = {s[i] : i \in 1..Len(s)}
  BY <1>1, Zenon DEF Range
<1> QED
  BY <1>1, <1>2

LEMMA LineNumbersAreNatural == \A n \in LineNumbers : n \in Nat
BY BridgeAssumption DEF LineNumbers

LEMMA LinesRead ==
    ASSUME TypeOK
    PROVE  \A n \in Range(published) \cup batch : n \in LineNumbers /\ n \in Nat
<1>1. Range(published) \subseteq LineNumbers
  BY RangeOfLines DEF TypeOK
<1>2. batch \subseteq LineNumbers
  BY DEF TypeOK
<1> QED
  BY <1>1, <1>2, LineNumbersAreNatural

\* The published lines after one more of them.
LEMMA RangeOfAppend ==
    ASSUME NEW s \in Seq(LineNumbers), NEW n \in LineNumbers
    PROVE  Range(Append(s, n)) = Range(s) \cup {n}
<1> DEFINE t == Append(s, n)
<1>1. /\ Len(s) \in Nat /\ DOMAIN s = 1..Len(s)
      /\ DOMAIN t = 1..Len(s) + 1 /\ t[Len(s) + 1] = n
      /\ \A i \in 1..Len(s) : t[i] = s[i]
  OBVIOUS
<1>2. Range(t) = {t[i] : i \in 1..Len(s) + 1} /\ Range(s) = {s[i] : i \in 1..Len(s)}
  BY <1>1 DEF Range
<1> HIDE DEF t
<1>3. Range(t) = Range(s) \cup {n}
  BY <1>1, <1>2
<1> QED
  BY <1>3 DEF t

(***************************************************************************)
(* The invariant is inductive                                              *)
(***************************************************************************)
LEMMA InitIInv == Init => IInv
<1> SUFFICES ASSUME Init PROVE IInv
  OBVIOUS
<1> USE BridgeAssumption DEF Init
<1>1. published \in Seq(LineNumbers) /\ Len(published) = 0
  BY EmptySeq
<1>2. Range(published) = {}
  <2>1. published = <<>>
    OBVIOUS
  <2> QED
    BY ONLY <2>1 DEF Range
<1>3. TypeOK
  <2>1. /\ base \in 0..2 * MaxLines /\ end \in base..2 * MaxLines
        /\ rotations \in 0..MaxRotations /\ pos \in 0..2 * MaxLines
        /\ stat \in 0..2 * MaxLines
    OBVIOUS
  <2>2. batch \subseteq LineNumbers /\ excused \subseteq LineNumbers /\ raced \subseteq LineNumbers
    OBVIOUS
  <2> QED
    BY <1>1, <2>1, <2>2 DEF TypeOK
<1>4. Grows /\ InHand /\ ReadBefore /\ NoneForgotten
  BY <1>2 DEF Grows, InHand, ReadBefore, NoneForgotten, Seen, Unseen, size
<1>5. InOrderOnce /\ OnceMore
  BY <1>1, <1>2 DEF InOrderOnce, OnceMore, Repeats
<1> QED
  BY <1>3, <1>4, <1>5 DEF IInv

LEMMA LogKeepsIInv ==
    ASSUME IInv, AppendUnits \/ Rotate
    PROVE  IInv'
<1> USE BridgeAssumption DEF IInv
<1>1. \A n \in Range(published) \cup batch : n \in LineNumbers /\ n \in Nat
  BY LinesRead
<1>2. CASE AppendUnits
  <2> USE <1>2 DEF AppendUnits, raceVars
  <2>1. PICK k \in {1, 2} : end' = end + k /\ end + k <= 2 * MaxLines
    OBVIOUS
  <2>2. TypeOK'
    BY <2>1 DEF TypeOK
  <2>3. Seen' = Seen /\ Unseen' = Unseen
    BY DEF Seen, Unseen
  <2>4. Grows' /\ InHand' /\ InOrderOnce' /\ OnceMore'
    BY <2>1, <2>3 DEF TypeOK, Grows, InHand, InOrderOnce, OnceMore, Repeats, size
  <2>5. ReadBefore'
    BY <1>1, <2>1, <2>3 DEF TypeOK, ReadBefore, Passed, Seen, Tail1, LineNumbers
  <2>6. NoneForgotten'
    BY <2>1, <2>3 DEF TypeOK, ReadBefore, NoneForgotten, Unseen, Seen, Head1, LineNumbers
  <2> QED
    BY <2>2, <2>4, <2>5, <2>6
<1>3. CASE Rotate
  <2> USE <1>3 DEF Rotate
  <2>1. TypeOK'
    BY DEF TypeOK, Unseen
  <2>2. Grows' /\ InHand' /\ InOrderOnce'
    BY DEF Grows, InHand, InOrderOnce
  <2>3. /\ Seen \in Int /\ Seen <= end /\ Seen' = end /\ end' = end /\ base' = end
        /\ end \in Int
    BY DEF TypeOK, ReadBefore, Seen
  <2>4. \A n \in Range(published) \cup batch : Tail1(n) <= end
    <3>1. \A n \in Range(published) \cup batch : Passed(n)
      BY DEF ReadBefore
    <3> QED
      BY <1>1, <2>3, <3>1 DEF Passed, Tail1
  <2>5. ReadBefore'
    BY <1>1, <2>3, <2>4 DEF TypeOK, ReadBefore, Passed
  <2>6. OnceMore'
    <3>1. \A n \in LineNumbers : Repeats(n)' <=> Repeats(n)
      BY DEF Repeats
    <3>2. \A n \in LineNumbers : Repeats(n) => Tail1(n) <= Seen /\ n \notin batch
      BY DEF OnceMore
    <3>3. \A n \in LineNumbers : Repeats(n) => Tail1(n) <= Seen' /\ n \notin batch
      BY <2>3, <3>2, LineNumbersAreNatural DEF Tail1
    <3> QED
      BY <2>3, <2>4, <3>1, <3>3 DEF OnceMore
  <2>7. NoneForgotten'
    <3>1. \A n \in LineNumbers : Head1(n) <= end => Tail1(n) <= end
      BY DEF TypeOK, Head1, Tail1, LineNumbers
    <3> QED
      BY <3>1 DEF NoneForgotten, Unseen
  <2> QED
    BY <2>1, <2>2, <2>5, <2>6, <2>7
<1> QED
  BY <1>2, <1>3

LEMMA StartKeepsIInv ==
    ASSUME IInv, Start \/ Stop
    PROVE  IInv'
<1> USE BridgeAssumption DEF IInv
<1>1. \A n \in Range(published) \cup batch : n \in LineNumbers /\ n \in Nat
  BY LinesRead
<1>2. CASE Start
  <2> USE <1>2 DEF Start, logVars, raceVars
  <2>1. TypeOK'
    <3>1. pos' \in 0..2 * MaxLines /\ excused' \subseteq LineNumbers
      BY DEF TypeOK, size
    <3> QED
      BY <3>1 DEF TypeOK
  <2>2. Grows' /\ InHand' /\ InOrderOnce' /\ batch = {}
    BY DEF TypeOK, Grows, InHand, InOrderOnce, size
  <2>3. Seen \in Int /\ Seen <= end /\ Seen' = end /\ end' = end /\ end \in Int
    BY DEF TypeOK, ReadBefore, Seen, size
  <2>4. \A n \in Range(published) : Tail1(n) <= end
    <3>1. \A n \in Range(published) \cup batch : Passed(n)
      BY DEF ReadBefore
    <3> QED
      BY <1>1, <2>3, <3>1 DEF Passed, Tail1
  <2>5. ReadBefore'
    BY <2>2, <2>3, <2>4 DEF ReadBefore, Passed
  <2>6. OnceMore'
    <3>1. \A n \in LineNumbers : Repeats(n)' <=> Repeats(n)
      BY DEF Repeats
    <3>2. \A n \in LineNumbers : Repeats(n) => Tail1(n) <= Seen
      BY DEF OnceMore
    <3>3. \A n \in LineNumbers : Repeats(n) => Tail1(n) <= Seen'
      BY <2>3, <3>2, LineNumbersAreNatural DEF Tail1
    <3>4. ~moved' /\ batch' = {} /\ UNCHANGED published
      BY <2>2 DEF Grows, InHand
    <3> QED
      BY <3>1, <3>3, <3>4 DEF OnceMore
  <2>7. NoneForgotten'
    BY DEF NoneForgotten
  <2> QED
    BY <2>1, <2>2, <2>5, <2>6, <2>7
<1>3. CASE Stop
  <2> USE <1>3 DEF Stop, logVars
  <2>1. TypeOK'
    <3>1. stat' \in 0..2 * MaxLines /\ excused' \subseteq LineNumbers /\ batch' \subseteq LineNumbers
      BY DEF TypeOK
    <3> QED
      BY <3>1 DEF TypeOK
  <2>2. Grows' /\ InHand' /\ InOrderOnce' /\ NoneForgotten'
    BY DEF Grows, InHand, InOrderOnce, NoneForgotten, size
  <2>3. ReadBefore' /\ OnceMore'
    BY DEF ReadBefore, Passed, OnceMore, Repeats, Seen
  <2> QED
    BY <2>1, <2>2, <2>3
<1> QED
  BY <1>2, <1>3

\* A read that nothing raced with.
LEMMA ReadAloneKeepsIInv ==
    ASSUME IInv, Read, ~moved
    PROVE  IInv'
<1> USE BridgeAssumption DEF IInv
<1>1. \A n \in Range(published) : n \in LineNumbers /\ n \in Nat
  BY LinesRead
<1>2. /\ watch = "opening" /\ pos' = stat /\ batch' \subseteq LineNumbers
      /\ watch' = IF batch' = {} THEN "asleep" ELSE "publishing"
      /\ excused' = excused \cup Overgrown(stat) \cup {n \in LineNumbers : Head1(n) = base + stat}
      /\ rotated' = FALSE /\ moved' = FALSE /\ stat' = 0
      /\ UNCHANGED <<base, end, rotations, published, raced>>
  BY DEF Read, logVars
<1>3. \A m \in LineNumbers : m \in batch' <=> /\ Head1(m) > base + LastPos(stat)
                                             /\ Tail1(m) <= base + stat
  BY DEF Read, Grows, TypeOK, size, Tail1, LineNumbers
<1>4. batch = {} /\ stat <= size /\ (~rotated => pos <= stat)
  BY <1>2 DEF InHand, Grows
<1>5. TypeOK'
  <2>1. excused' \subseteq LineNumbers
    BY <1>2 DEF TypeOK, Overgrown
  <2>2. pos' \in 0..2 * MaxLines /\ stat' \in 0..2 * MaxLines
    BY <1>2 DEF TypeOK
  <2> QED
    BY <1>2, <2>1, <2>2 DEF TypeOK
<1>6. Grows' /\ InHand' /\ InOrderOnce'
  BY <1>2, <1>4 DEF Grows, InHand, InOrderOnce, TypeOK, size
<1>7. /\ Seen \in Int /\ Seen' \in Int /\ base + LastPos(stat) \in Int
      /\ Seen <= base + LastPos(stat) /\ base + LastPos(stat) <= Seen'
      /\ Seen' = base + stat /\ Seen' <= end /\ end \in Int
  BY <1>2, <1>4 DEF TypeOK, Seen, LastPos, size
<1>8. \A m \in batch' : m \in Nat /\ Seen < Head1(m) /\ Tail1(m) <= Seen'
  <2>1. \A m \in batch' : m \in LineNumbers /\ m \in Nat
    BY <1>2, LineNumbersAreNatural
  <2> QED
    BY <1>3, <1>7, <2>1 DEF Head1
<1>9. ReadBefore'
  <2>1. \A n \in Range(published) : n \in Nat /\ (Tail1(n) <= Seen \/ (n \in raced /\ Tail1(n) <= end))
    <3>1. \A n \in Range(published) : Passed(n)
      BY DEF ReadBefore
    <3> QED
      BY <1>1, <3>1 DEF Passed
  <2>2. \A n \in Range(published') \cup batch' : Passed(n)'
    BY <1>2, <1>7, <1>8, <2>1 DEF Passed, Tail1
  <2>3. \A n \in Range(published'), m \in batch' : n < m \/ n \in raced'
    BY <1>2, <1>7, <1>8, <2>1 DEF Head1, Tail1
  <2> QED
    BY <1>7, <1>2, <2>2, <2>3 DEF ReadBefore
<1>10. OnceMore'
  <2>1. \A n \in LineNumbers : Repeats(n)' <=> Repeats(n)
    BY <1>2 DEF Repeats
  <2>2. \A n \in LineNumbers : Repeats(n) => Tail1(n) <= Seen
    BY DEF OnceMore
  <2> QED
    <3>1. \A n \in LineNumbers : Repeats(n) => Tail1(n) <= Seen' /\ n \notin batch'
      BY <1>7, <1>8, <2>2, LineNumbersAreNatural DEF Head1, Tail1
    <3>2. ~moved'
      BY <1>2
    <3> QED
      BY <1>8, <2>1, <3>1, <3>2 DEF OnceMore
<1>11. NoneForgotten'
  BY <1>2, <1>3, <1>4 DEF TypeOK, NoneForgotten, LastPos, Unseen, Seen, Overgrown, size,
                          Head1, Tail1, LineNumbers
<1> QED
  BY <1>5, <1>6, <1>9, <1>10, <1>11

\* A read of a log that was rotated after it had been asked for its size.
LEMMA ReadBehindRotationKeepsIInv ==
    ASSUME IInv, Read, moved
    PROVE  IInv'
<1> USE BridgeAssumption DEF IInv
<1>1. \A n \in Range(published) : n \in LineNumbers /\ n \in Nat
  BY LinesRead
<1>2. /\ watch = "opening" /\ pos' = stat /\ batch' \subseteq LineNumbers
      /\ watch' = IF batch' = {} THEN "asleep" ELSE "publishing"
      /\ raced' = raced \cup batch'
      /\ rotated' = TRUE /\ moved' = FALSE /\ stat' = 0
      /\ UNCHANGED <<base, end, rotations, published, excused>>
  BY DEF Read, logVars
<1>3. batch = {} /\ rotated /\ Seen = base /\ Seen' = base
  BY <1>2 DEF InHand, Grows, Seen, TypeOK
<1>4. \A m \in batch' : m \in Nat /\ Head1(m) > base /\ Tail1(m) <= end
  <2>1. LastPos(stat) \in Nat /\ base \in Nat
    BY DEF TypeOK, LastPos
  <2>2. \A m \in batch' : /\ m \in Nat /\ Tail1(m) <= end
                           /\ Head1(m) > base + LastPos(stat)
    BY LineNumbersAreNatural DEF Read
  <2> QED
    BY <2>1, <2>2 DEF Head1
<1>5. \A n \in Range(published) : n \in Nat /\ Tail1(n) <= base
  BY <1>1 DEF OnceMore
<1>6. TypeOK'
  <2>1. pos' \in 0..2 * MaxLines /\ stat' \in 0..2 * MaxLines /\ raced' \subseteq LineNumbers
    BY <1>2 DEF TypeOK
  <2> QED
    BY <1>2, <2>1 DEF TypeOK
<1>7. Grows' /\ InHand'
  BY <1>2, <1>3 DEF Grows, InHand, size
<1>8. InOrderOnce'
  BY <1>2 DEF InOrderOnce
<1>9. ReadBefore'
  BY <1>2, <1>3, <1>4, <1>5 DEF ReadBefore, Passed, TypeOK, Head1, Tail1
<1>10. OnceMore'
  <2>1. \A n \in LineNumbers : Repeats(n)' <=> Repeats(n)
    BY <1>2 DEF Repeats
  <2>2. \A n \in batch' : n \notin Range(published)
    BY <1>4, <1>5 DEF Head1, Tail1, TypeOK
  <2>3. \A n \in LineNumbers : Repeats(n) => n \in Range(published) /\ Tail1(n) <= Seen
    BY RangeOfLines DEF Repeats, TypeOK, OnceMore
  <2> QED
    BY <1>2, <1>3, <2>1, <2>2, <2>3 DEF OnceMore
<1>11. NoneForgotten'
  BY <1>2, <1>3 DEF NoneForgotten, Unseen
<1> QED
  BY <1>6, <1>7, <1>8, <1>9, <1>10, <1>11

LEMMA PollKeepsIInv ==
    ASSUME IInv, ReadNothing \/ Stat \/ OpenFails \/ Wake
    PROVE  IInv'
<1> USE BridgeAssumption DEF IInv
<1>1. /\ UNCHANGED <<base, end, rotations, pos, batch, published, rotated, raced>>
      /\ excused \subseteq excused' /\ excused' \subseteq LineNumbers
      /\ watch # "off" /\ watch # "publishing" /\ watch' \in {"asleep", "opening", "polling"}
      /\ stat' \in 0..2 * MaxLines /\ moved' = FALSE
  BY DEF ReadNothing, Stat, OpenFails, Wake, logVars, raceVars, TypeOK, Grows, size, Overgrown
<1>2. watch' = "opening" => stat' = size
  BY DEF ReadNothing, Stat, OpenFails, Wake
<1>3. TypeOK'
  BY <1>1 DEF TypeOK
<1>4. Grows' /\ InHand' /\ InOrderOnce'
  BY <1>1, <1>2 DEF TypeOK, Grows, InHand, InOrderOnce, size
<1>5. Seen' = Seen /\ Unseen' = Unseen
  BY <1>1 DEF Seen, Unseen
<1>6. ReadBefore' /\ OnceMore' /\ NoneForgotten'
  BY <1>1, <1>5 DEF ReadBefore, Passed, OnceMore, Repeats, NoneForgotten
<1> QED
  BY <1>3, <1>4, <1>6

LEMMA BatchKeepsIInv ==
    ASSUME IInv, Publish \/ Drop \/ Raise
    PROVE  IInv'
<1> USE BridgeAssumption DEF IInv
<1> DEFINE n == First(batch)
<1>1. batch \subseteq LineNumbers /\ LineNumbers \subseteq Nat
  BY DEF TypeOK, LineNumbers
<1>2. batch # {} => n \in batch /\ \A m \in batch : n <= m
  BY <1>1, FirstIsFirst
<1> HIDE DEF n
<1>3. CASE Publish
  <2>1. /\ watch = "publishing" /\ published' = Append(published, n)
        /\ UNCHANGED <<base, end, rotations, pos, rotated, excused, stat, moved, raced>>
        /\ batch' = batch \ {n}
        /\ watch' = IF batch' = {} THEN "asleep" ELSE "publishing"
    BY <1>3 DEF Publish, Continue, logVars, raceVars, n
  <2>2. n \in batch /\ n \in LineNumbers /\ (\A m \in batch : n <= m)
    BY <1>1, <1>2, <2>1 DEF InHand
  <2>3. Range(published') = Range(published) \cup {n}
    BY <2>1, <2>2, RangeOfAppend DEF TypeOK
  <2>4. TypeOK'
    BY <2>1, <2>2 DEF TypeOK
  <2>5. Grows' /\ InHand' /\ ~moved /\ Seen' = Seen /\ Unseen' = Unseen
    BY <2>1 DEF Grows, InHand, size, Seen, Unseen
  <2>6. ReadBefore'
    BY <1>1, <2>1, <2>2, <2>3, <2>5 DEF ReadBefore, Passed
  <2>7. NoneForgotten'
    BY <2>1, <2>3, <2>5 DEF NoneForgotten
  <2>8. /\ Len(published) \in Nat /\ Len(published') = Len(published) + 1
        /\ \A i \in 1..Len(published) : published'[i] = published[i]
        /\ published'[Len(published) + 1] = n
        /\ \A i \in 1..Len(published) : published[i] \in Range(published)
    BY <2>1, <2>2, RangeOfLines DEF TypeOK
  <2>9. ~Repeats(n)
    BY <2>2 DEF OnceMore
  <2>10. InOrderOnce'
    <3>1. \A i \in 1..Len(published) : published[i] < n \/ published[i] \in raced
      BY <2>2, <2>8 DEF ReadBefore
    <3>2. \A i, j \in 1..Len(published) :
              i < j /\ published[i] = published[j] => published[j] # n
      BY <2>9 DEF Repeats
    <3> QED
      BY <2>1, <2>8, <3>1, <3>2 DEF InOrderOnce
  <2>11. OnceMore'
    <3>1. \A m \in LineNumbers : Repeats(m)' => Repeats(m) \/ (m = n /\ n \in Range(published))
      BY <2>8 DEF Repeats
    <3> QED
      BY <2>1, <2>2, <2>3, <2>5, <3>1 DEF OnceMore
  <2> QED
    BY <2>4, <2>5, <2>6, <2>7, <2>10, <2>11
<1>4. CASE Drop \/ Raise
  <2>1. /\ watch = "publishing" /\ excused' \subseteq LineNumbers
        /\ UNCHANGED <<base, end, rotations, pos, rotated, published, stat, moved, raced>>
        /\ batch' \subseteq batch /\ batch \subseteq batch' \cup excused'
        /\ excused \subseteq excused'
        /\ watch' = IF batch' = {} THEN "asleep" ELSE "publishing"
    BY <1>1, <1>2, <1>4 DEF Drop, Raise, Continue, logVars, raceVars, n, InHand, TypeOK
  <2>2. TypeOK'
    BY <2>1 DEF TypeOK
  <2>3. Grows' /\ InHand' /\ InOrderOnce' /\ Seen' = Seen /\ Unseen' = Unseen
    BY <2>1 DEF Grows, InHand, InOrderOnce, size, Seen, Unseen
  <2>4. ReadBefore' /\ OnceMore' /\ NoneForgotten'
    BY <2>1, <2>3 DEF ReadBefore, Passed, OnceMore, Repeats, NoneForgotten
  <2> QED
    BY <2>2, <2>3, <2>4
<1> QED
  BY <1>3, <1>4

LEMMA NextIInv == IInv /\ [Next]_vars => IInv'
<1>1. ASSUME IInv, UNCHANGED vars PROVE IInv'
  BY <1>1 DEF IInv, vars, logVars, raceVars, TypeOK, Grows, InHand, ReadBefore, Passed, Seen,
              OnceMore, Repeats, NoneForgotten, Unseen, InOrderOnce, size
<1> QED
  BY <1>1, LogKeepsIInv, StartKeepsIInv, ReadAloneKeepsIInv, ReadBehindRotationKeepsIInv,
     PollKeepsIInv, BatchKeepsIInv DEF Next, WatchStep

(***************************************************************************)
(* The theorems                                                            *)
(***************************************************************************)
\* The invariant holds of the bridge and its log in every state.
THEOREM IInvHolds == Spec => []IInv
BY InitIInv, NextIInv, PTL DEF Spec

\* Every variable of the bridge keeps its type: no position lies behind the
\* longest log there can be, and no line is read that has no number.
THEOREM TypeCorrect == Spec => []TypeOK
<1>1. IInv => TypeOK
  BY DEF IInv
<1> QED
  BY <1>1, IInvHolds, PTL

\* Lines are published once and in order, whatever polls, rotations and restarts
\* come between, but for those read behind a rotation, which come at most twice.
THEOREM InOrderOnceHolds == Spec => []InOrderOnce
<1>1. IInv => InOrderOnce
  BY DEF IInv
<1> QED
  BY <1>1, IInvHolds, PTL

\* A complete line is published, in hand, still to be read, or lost in one of
\* the ways that are known.
THEOREM NothingElseLostHolds == Spec => []NothingElseLost
<1>1. IInv => NothingElseLost
  BY DEF IInv, NoneForgotten, NothingElseLost, TypeOK, LineNumbers, Head1, Tail1
<1> QED
  BY <1>1, IInvHolds, PTL
=============================================================================
