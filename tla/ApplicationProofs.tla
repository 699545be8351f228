--------------------------- MODULE ApplicationProofs ---------------------------
(***************************************************************************)
(* Theorems about what app.py decides.                                     *)
(*                                                                         *)
(* Routing, for every set of addresses and payloads, every window and      *)
(* every threshold: the count a connection is judged by is exact, and what *)
(* the rules must be like for the response to escalate.                    *)
(*                                                                         *)
(* Lifecycle, for every number of ports, of child processes and of         *)
(* signals: which ports stop() leaves open, and that a signal never brings *)
(* the command line program to it.  Its definitions that have the name of  *)
(* one of Routing carry the prefix Life, so that both can be extended.     *)
(***************************************************************************)
EXTENDS Routing, Lifecycle, SequenceTheorems, FiniteSetTheorems,
        WellFoundedInduction, TLAPS

Times == Seq(Nat)
Connection == [ip : IPs, at : Nat]
Connections == Seq(Connection)

\* The connections of ip among m.
Of(m, ip) == {k \in 1..Len(m) : m[k].ip = ip}

\* The times in r are those of different connections of ip, and a connection of ip
\* that has no time in r was made before the window that ends at t.
Follows(m, r, ip, t) ==
    \E g \in [1..Len(r) -> Of(m, ip)] :
        /\ \A i, j \in 1..Len(r) : g[i] = g[j] => i = j
        /\ \A i \in 1..Len(r) : m[g[i]].at = r[i]
        /\ \A k \in Of(m, ip) : (\A i \in 1..Len(r) : g[i] # k) => m[k].at < t - Window

\* The times in r do not fall, and none is later than t.
UpTo(r, t) == /\ \A i, j \in 1..Len(r) : i < j => r[i] <= r[j]
              /\ \A i \in 1..Len(r) : r[i] <= t

Typed == /\ now \in Nat
         /\ records \in [IPs -> Times]
         /\ made \in Connections

Tracks == "frequency" \in Enabled =>
            \A ip \in IPs : UpTo(records[ip], now) /\ Follows(made, records[ip], ip, now)

IInv == Typed /\ Tracks /\ WindowExact

(***************************************************************************)
(* The window                                                              *)
(***************************************************************************)
LEMMA SmallestOf ==
    ASSUME NEW T \in SUBSET Nat, T # {}
    PROVE  \E x \in T : \A y \in T : x <= y
<1>1. PICK x \in T : \A y \in T : ~(<<y, x>> \in OpToRel(<, Nat))
  BY NatLessThanWellFounded, WFMin
<1>2. \A y \in T : ~(y < x)
  BY <1>1 DEF OpToRel
<1> QED
  BY <1>2

\* Cleaning drops a first part that lies before the window, and nothing from there on.
LEMMA CleanedDrops ==
    ASSUME NEW r \in Times, NEW at \in Nat
    PROVE  \E n \in 0..Len(r) :
              /\ Cleaned(r, at) \in Times /\ Len(Cleaned(r, at)) = Len(r) - n
              /\ \A i \in 1..(Len(r) - n) : Cleaned(r, at)[i] = r[n + i]
              /\ \A i \in 1..n : r[i] < at - Window
              /\ n < Len(r) => r[n + 1] >= at - Window
<1> DEFINE T == {i \in 1..Len(r) : r[i] >= at - Window}
           first == IF T # {} THEN Min(T) ELSE 0
<1>1. /\ Len(r) \in Nat /\ \A i \in 1..Len(r) : r[i] \in Nat
      /\ Window \in Nat
  BY RoutingAssumption DEF Times
<1>2. Cleaned(r, at) = IF first = 0 THEN <<>> ELSE SubSeq(r, first, Len(r))
  BY DEF Cleaned, SelectInSeq
<1>3. CASE T = {}
  <2>1. Cleaned(r, at) = <<>>
    BY <1>2, <1>3
  <2>2. <<>> \in Times /\ Len(<<>>) = 0
    BY EmptySeq DEF Times
  <2>3. \A i \in 1..Len(r) : r[i] < at - Window
    BY <1>1, <1>3
  <2> QED
    BY <1>1, <2>1, <2>2, <2>3
<1>4. CASE T # {}
  <2>1. /\ Min(T) \in T /\ \A y \in T : Min(T) <= y
    <3>1. \E x \in T : \A y \in T : x <= y
      <4>1. T \in SUBSET Nat
        OBVIOUS
      <4> QED
        BY <1>4, <4>1, SmallestOf
    <3> HIDE DEF T
    <3> QED
      BY <3>1 DEF Min
  <2> DEFINE f == Min(T)
  <2>2. f \in 1..Len(r) /\ r[f] >= at - Window
    BY <2>1
  <2>3. \A i \in 1..(f - 1) : r[i] < at - Window
    <3> SUFFICES ASSUME NEW i \in 1..(f - 1), ~(r[i] < at - Window) PROVE FALSE
      OBVIOUS
    <3>1. i \in T
      BY <1>1, <2>2
    <3> QED
      BY <2>1, <2>2, <3>1
  <2>4. Cleaned(r, at) = SubSeq(r, f, Len(r))
    <3>1. f # 0
      BY <1>1, <2>2
    <3> HIDE DEF T
    <3>2. first = f
      BY <1>4
    <3> HIDE DEF first
    <3> QED
      BY <1>2, <3>1, <3>2
  <2> HIDE DEF f
  <2>5. /\ SubSeq(r, f, Len(r)) \in Times
        /\ Len(SubSeq(r, f, Len(r))) = Len(r) - (f - 1)
        /\ \A i \in 1..(Len(r) - (f - 1)) : SubSeq(r, f, Len(r))[i] = r[(f - 1) + i]
    BY <1>1, <2>2 DEF Times
  <2>6. f - 1 \in 0..Len(r) /\ (f - 1) + 1 = f
    BY <1>1, <2>2
  <2> QED
    BY <2>2, <2>3, <2>4, <2>5, <2>6
<1> QED
  BY <1>3, <1>4

\* The times that remain do not fall either and lie in the window.
LEMMA CleanedUpTo ==
    ASSUME NEW r \in Times, NEW at \in Nat, NEW t, UpTo(r, t)
    PROVE  /\ UpTo(Cleaned(r, at), t)
           /\ \A i \in 1..Len(Cleaned(r, at)) : Cleaned(r, at)[i] >= at - Window
<1> DEFINE c == Cleaned(r, at)
<1>1. PICK n \in 0..Len(r) :
        /\ c \in Times /\ Len(c) = Len(r) - n
        /\ \A i \in 1..(Len(r) - n) : c[i] = r[n + i]
        /\ n < Len(r) => r[n + 1] >= at - Window
  BY CleanedDrops
<1>2. /\ Len(r) \in Nat /\ \A i \in 1..Len(r) : r[i] \in Nat
      /\ Window \in Nat
  BY RoutingAssumption DEF Times
<1> HIDE DEF c
<1>3. \A i \in 1..Len(c) : n + i \in 1..Len(r) /\ c[i] = r[n + i]
  BY <1>1, <1>2
<1>4. \A i \in 1..Len(c) : c[i] >= at - Window
  <2> SUFFICES ASSUME NEW i \in 1..Len(c) PROVE c[i] >= at - Window
    OBVIOUS
  <2>1. n + 1 \in 1..Len(r) /\ n + i \in 1..Len(r) /\ n + 1 <= n + i
    BY <1>1, <1>2
  <2>2. r[n + 1] <= r[n + i] /\ r[n + 1] \in Nat /\ r[n + i] \in Nat
    BY <1>2, <2>1 DEF UpTo
  <2> QED
    BY <1>1, <1>2, <1>3, <2>1, <2>2
<1>5. UpTo(c, t)
  <2>1. \A i, j \in 1..Len(c) : i < j => c[i] <= c[j]
    <3> SUFFICES ASSUME NEW i \in 1..Len(c), NEW j \in 1..Len(c), i < j
                 PROVE  c[i] <= c[j]
      OBVIOUS
    <3>1. n + i \in 1..Len(r) /\ n + j \in 1..Len(r) /\ n + i < n + j
      BY <1>1, <1>3
    <3> QED
      BY <1>3, <3>1 DEF UpTo
  <2> QED
    BY <1>3, <2>1 DEF UpTo
<1> QED
  BY <1>4, <1>5 DEF c

(***************************************************************************)
(* The times of an address and its connections                             *)
(***************************************************************************)
LEMMA FollowsCleaned ==
    ASSUME NEW m, NEW r \in Times, NEW ip, NEW t \in Nat, NEW at \in Nat, t <= at,
           \A k \in Of(m, ip) : m[k].at \in Nat,
           Follows(m, r, ip, t)
    PROVE  Follows(m, Cleaned(r, at), ip, at)
<1> DEFINE c == Cleaned(r, at)
<1>1. PICK n \in 0..Len(r) :
        /\ c \in Times /\ Len(c) = Len(r) - n
        /\ \A i \in 1..(Len(r) - n) : c[i] = r[n + i]
        /\ \A i \in 1..n : r[i] < at - Window
  BY CleanedDrops
<1>2. PICK g \in [1..Len(r) -> Of(m, ip)] :
        /\ \A i, j \in 1..Len(r) : g[i] = g[j] => i = j
        /\ \A i \in 1..Len(r) : m[g[i]].at = r[i]
        /\ \A k \in Of(m, ip) : (\A i \in 1..Len(r) : g[i] # k) => m[k].at < t - Window
  BY DEF Follows
<1>3. Len(r) \in Nat /\ Window \in Nat
  BY RoutingAssumption DEF Times
<1> DEFINE h == [i \in 1..Len(c) |-> g[n + i]]
<1> HIDE DEF c
<1>4. \A i \in 1..Len(c) : n + i \in 1..Len(r) /\ c[i] = r[n + i]
  BY <1>1, <1>3
<1>5. /\ h \in [1..Len(c) -> Of(m, ip)]
      /\ \A i \in 1..Len(c) : h[i] = g[n + i]
  BY <1>2, <1>4
<1> HIDE DEF h
<1>6. ASSUME NEW i \in 1..Len(c), NEW j \in 1..Len(c), h[i] = h[j] PROVE i = j
  <2>1. n + i = n + j
    BY <1>2, <1>4, <1>5, <1>6
  <2> QED
    BY <2>1
<1>7. \A i \in 1..Len(c) : m[h[i]].at = c[i]
  BY <1>2, <1>4, <1>5
<1>8. ASSUME NEW k \in Of(m, ip), \A i \in 1..Len(c) : h[i] # k
      PROVE  m[k].at < at - Window
  <2>1. CASE \E i \in 1..Len(r) : g[i] = k
    <3>1. PICK i \in 1..Len(r) : g[i] = k
      BY <2>1
    <3>2. i <= n
      <4>1. ASSUME i > n PROVE FALSE
        <5>1. i - n \in 1..Len(c) /\ n + (i - n) = i
          BY <1>1, <1>3, <4>1
        <5> QED
          BY <1>5, <1>8, <3>1, <5>1
      <4> QED
        BY <1>3, <4>1
    <3>3. r[i] < at - Window /\ m[g[i]].at = r[i]
      BY <1>1, <1>2, <3>2
    <3> QED
      BY <3>1, <3>3
  <2>2. CASE ~ \E i \in 1..Len(r) : g[i] = k
    <3>1. m[k].at < t - Window /\ m[k].at \in Nat
      BY <1>2, <2>2
    <3> QED
      BY <1>3, <3>1
  <2> QED
    BY <2>1, <2>2
<1>9. Follows(m, c, ip, at)
  BY <1>5, <1>6, <1>7, <1>8 DEF Follows
<1> QED
  BY <1>9 DEF c

LEMMA FollowsLater ==
    ASSUME NEW m, NEW r, NEW ip, NEW t \in Nat, NEW u \in Nat, t <= u,
           \A k \in Of(m, ip) : m[k].at \in Nat,
           Follows(m, r, ip, t)
    PROVE  Follows(m, r, ip, u)
<1>1. PICK g \in [1..Len(r) -> Of(m, ip)] :
        /\ \A i, j \in 1..Len(r) : g[i] = g[j] => i = j
        /\ \A i \in 1..Len(r) : m[g[i]].at = r[i]
        /\ \A k \in Of(m, ip) : (\A i \in 1..Len(r) : g[i] # k) => m[k].at < t - Window
  BY DEF Follows
<1>2. \A k \in Of(m, ip) : (\A i \in 1..Len(r) : g[i] # k) => m[k].at < u - Window
  BY <1>1, RoutingAssumption
<1> QED
  BY <1>1, <1>2 DEF Follows

\* A new connection of ip is recorded.
LEMMA FollowsNew ==
    ASSUME NEW m \in Connections, NEW ip \in IPs, NEW t \in Nat, NEW at \in Nat,
           NEW r \in Times, Follows(m, r, ip, t)
    PROVE  Follows(Append(m, [ip |-> ip, at |-> at]), Append(r, at), ip, t)
<1> DEFINE e == [ip |-> ip, at |-> at]
           m2 == Append(m, e)
           r2 == Append(r, at)
<1>1. PICK g \in [1..Len(r) -> Of(m, ip)] :
        /\ \A i, j \in 1..Len(r) : g[i] = g[j] => i = j
        /\ \A i \in 1..Len(r) : m[g[i]].at = r[i]
        /\ \A k \in Of(m, ip) : (\A i \in 1..Len(r) : g[i] # k) => m[k].at < t - Window
  BY DEF Follows
<1>2. e.ip = ip /\ e.at = at /\ e \in Connection
  BY DEF Connection
<1> HIDE DEF e
<1>3. /\ Len(m) \in Nat /\ Len(m2) = Len(m) + 1 /\ m2[Len(m) + 1] = e
      /\ \A k \in 1..Len(m) : m2[k] = m[k]
  BY <1>2 DEF Connections
<1>4. /\ Len(r) \in Nat /\ Len(r2) = Len(r) + 1 /\ r2[Len(r) + 1] = at
      /\ \A i \in 1..Len(r) : r2[i] = r[i]
  BY DEF Times
<1> HIDE DEF m2, r2
<1>5. Of(m2, ip) = Of(m, ip) \cup {Len(m) + 1}
  BY <1>2, <1>3 DEF Of
<1> DEFINE h == [i \in 1..Len(r2) |-> IF i \in 1..Len(r) THEN g[i] ELSE Len(m) + 1]
<1>6. /\ h \in [1..Len(r2) -> Of(m2, ip)]
      /\ \A i \in 1..Len(r) : h[i] = g[i] /\ h[i] \in 1..Len(m)
      /\ h[Len(r) + 1] = Len(m) + 1
      /\ 1..Len(r2) = (1..Len(r)) \cup {Len(r) + 1}
  <2>1. /\ 1..Len(r2) = (1..Len(r)) \cup {Len(r) + 1}
        /\ Len(r) + 1 \in 1..Len(r2) /\ Len(r) + 1 \notin 1..Len(r)
    BY <1>4
  <2>2. \A i \in 1..Len(r) : g[i] \in Of(m, ip) /\ g[i] \in 1..Len(m)
    BY <1>1 DEF Of
  <2>3. \A i \in 1..Len(r2) : (IF i \in 1..Len(r) THEN g[i] ELSE Len(m) + 1) \in Of(m2, ip)
    BY <1>5, <2>2
  <2>4. h \in [1..Len(r2) -> Of(m2, ip)]
    BY <2>3
  <2> QED
    BY <2>1, <2>2, <2>4
<1> HIDE DEF h
<1>7. \A i, j \in 1..Len(r2) : h[i] = h[j] => i = j
  <2> SUFFICES ASSUME NEW i \in 1..Len(r2), NEW j \in 1..Len(r2), h[i] = h[j]
               PROVE  i = j
    OBVIOUS
  <2>1. CASE i \in 1..Len(r) /\ j \in 1..Len(r)
    BY <1>1, <1>6, <2>1
  <2>2. CASE i \in 1..Len(r) /\ j = Len(r) + 1
    <3>1. h[i] \in 1..Len(m) /\ h[j] = Len(m) + 1
      BY <1>6, <2>2
    <3> QED
      BY <1>3, <3>1
  <2>3. CASE i = Len(r) + 1 /\ j \in 1..Len(r)
    <3>1. h[j] \in 1..Len(m) /\ h[i] = Len(m) + 1
      BY <1>6, <2>3
    <3> QED
      BY <1>3, <3>1
  <2> QED
    BY <1>6, <2>1, <2>2, <2>3
<1>8. \A i \in 1..Len(r2) : m2[h[i]].at = r2[i]
  <2> SUFFICES ASSUME NEW i \in 1..Len(r2) PROVE m2[h[i]].at = r2[i]
    OBVIOUS
  <2>1. CASE i \in 1..Len(r)
    BY <1>1, <1>3, <1>4, <1>6, <2>1
  <2>2. CASE i = Len(r) + 1
    BY <1>2, <1>3, <1>4, <1>6, <2>2
  <2> QED
    BY <1>6, <2>1, <2>2
<1>9. ASSUME NEW k \in Of(m2, ip), \A i \in 1..Len(r2) : h[i] # k
      PROVE  m2[k].at < t - Window
  <2>1. k \in Of(m, ip) /\ \A i \in 1..Len(r) : g[i] # k
    BY <1>5, <1>6, <1>9
  <2>2. k \in 1..Len(m)
    BY <2>1 DEF Of
  <2> QED
    BY <1>1, <1>3, <2>1, <2>2
<1>10. Follows(m2, r2, ip, t)
  BY <1>6, <1>7, <1>8, <1>9 DEF Follows
<1> QED
  BY <1>10 DEF m2, r2, e

\* A connection of another address changes nothing.
LEMMA FollowsOther ==
    ASSUME NEW m \in Connections, NEW ip \in IPs, NEW t \in Nat, NEW at \in Nat,
           NEW r \in Times, NEW other \in IPs \ {ip}, Follows(m, r, ip, t)
    PROVE  Follows(Append(m, [ip |-> other, at |-> at]), r, ip, t)
<1> DEFINE e == [ip |-> other, at |-> at]
           m2 == Append(m, e)
<1>1. e.ip = other /\ e \in Connection
  BY DEF Connection
<1> HIDE DEF e
<1>2. /\ Len(m) \in Nat /\ Len(m2) = Len(m) + 1 /\ m2[Len(m) + 1] = e
      /\ \A k \in 1..Len(m) : m2[k] = m[k]
  BY <1>1 DEF Connections
<1> HIDE DEF m2
<1>3. Of(m2, ip) = Of(m, ip) /\ \A k \in Of(m, ip) : m2[k] = m[k]
  BY <1>1, <1>2 DEF Of
<1>4. Follows(m2, r, ip, t)
  BY <1>3 DEF Follows
<1> QED
  BY <1>4 DEF m2, e

\* As many connections of ip are in the window as there are times that lie in it.
LEMMA CountExact ==
    ASSUME NEW m \in Connections, NEW ip, NEW t \in Nat, NEW r \in Times,
           Follows(m, r, ip, t), \A i \in 1..Len(r) : r[i] >= t - Window
    PROVE  Cardinality({k \in DOMAIN m : m[k].ip = ip /\ m[k].at >= t - Window}) = Len(r)
<1> DEFINE W == {k \in DOMAIN m : m[k].ip = ip /\ m[k].at >= t - Window}
<1>1. PICK g \in [1..Len(r) -> Of(m, ip)] :
        /\ \A i, j \in 1..Len(r) : g[i] = g[j] => i = j
        /\ \A i \in 1..Len(r) : m[g[i]].at = r[i]
        /\ \A k \in Of(m, ip) : (\A i \in 1..Len(r) : g[i] # k) => m[k].at < t - Window
  BY DEF Follows
<1>2. /\ Len(r) \in Nat /\ Window \in Nat /\ DOMAIN m = 1..Len(m)
      /\ \A k \in 1..Len(m) : m[k].at \in Nat
  <2>1. m \in Seq(Connection) /\ Len(r) \in Nat /\ Window \in Nat
    BY RoutingAssumption DEF Times, Connections
  <2>2. DOMAIN m = 1..Len(m) /\ \A k \in 1..Len(m) : m[k] \in Connection
    BY <2>1
  <2> QED
    BY <2>1, <2>2 DEF Connection
<1>3. g \in [1..Len(r) -> W]
  BY <1>1, <1>2 DEF Of
<1>4. \A k \in W : \E i \in 1..Len(r) : g[i] = k
  <2> SUFFICES ASSUME NEW k \in W, \A i \in 1..Len(r) : g[i] # k PROVE FALSE
    OBVIOUS
  <2>1. k \in Of(m, ip) /\ m[k].at >= t - Window /\ m[k].at \in Nat
    BY <1>2 DEF Of
  <2>2. m[k].at < t - Window
    BY <1>1, <2>1
  <2> QED
    BY <1>2, <2>1, <2>2
<1> HIDE DEF W
<1>5. g \in Bijection(1..Len(r), W)
  BY <1>1, <1>3, <1>4 DEF Bijection, Injection, Surjection, IsInjective
<1>6. IsFiniteSet(1..Len(r)) /\ Cardinality(1..Len(r)) = Len(r)
  <2>1. 1 \in Int /\ Len(r) \in Int
    BY <1>2
  <2>2. /\ IsFiniteSet(1..Len(r))
        /\ Cardinality(1..Len(r)) = IF 1 > Len(r) THEN 0 ELSE Len(r) - 1 + 1
    BY <2>1, FS_Interval
  <2> QED
    BY <1>2, <2>2
<1>7. Cardinality(W) = Len(r)
  BY <1>5, <1>6, FS_Bijection DEF ExistsBijection
<1> QED
  BY <1>7 DEF W

LEMMA OfTyped ==
    ASSUME NEW m \in Connections, NEW ip
    PROVE  \A k \in Of(m, ip) : m[k].at \in Nat
<1>1. \A k \in 1..Len(m) : m[k] \in Connection
  BY DEF Connections
<1> QED
  BY <1>1 DEF Of, Connection

LEMMA UpToLater ==
    ASSUME NEW r \in Times, NEW t \in Nat, NEW u \in Nat, t <= u, UpTo(r, t)
    PROVE  UpTo(r, u)
<1>1. \A i \in 1..Len(r) : r[i] \in Nat
  BY DEF Times
<1> QED
  BY <1>1 DEF UpTo

LEMMA UpToNew ==
    ASSUME NEW r \in Times, NEW t \in Nat, UpTo(r, t)
    PROVE  Append(r, t) \in Times /\ UpTo(Append(r, t), t)
<1> DEFINE s == Append(r, t)
<1>1. /\ s \in Times /\ Len(r) \in Nat /\ Len(s) = Len(r) + 1 /\ s[Len(r) + 1] = t
      /\ \A i \in 1..Len(r) : s[i] = r[i] /\ r[i] <= t
  BY DEF Times, UpTo
<1> HIDE DEF s
<1>2. \A i \in 1..Len(s) : i \in 1..Len(r) \/ i = Len(r) + 1
  BY <1>1
<1>3. \A i \in 1..Len(s) : s[i] <= t
  BY <1>1, <1>2
<1>4. ASSUME NEW i \in 1..Len(s), NEW j \in 1..Len(s), i < j PROVE s[i] <= s[j]
  <2>1. i \in 1..Len(r)
    BY <1>1, <1>4
  <2> QED
    BY <1>1, <1>2, <1>4, <2>1 DEF UpTo
<1> QED
  BY <1>1, <1>3, <1>4 DEF UpTo, s

\* Cleaning what follows the connections of ip still does, and is all in the window.
LEMMA CleanedFollows ==
    ASSUME NEW m \in Connections, NEW r \in Times, NEW ip, NEW t \in Nat, NEW at \in Nat,
           t <= at, UpTo(r, t), Follows(m, r, ip, t)
    PROVE  /\ Cleaned(r, at) \in Times
           /\ UpTo(Cleaned(r, at), at) /\ Follows(m, Cleaned(r, at), ip, at)
           /\ \A i \in 1..Len(Cleaned(r, at)) : Cleaned(r, at)[i] >= at - Window
<1>1. Cleaned(r, at) \in Times
  BY CleanedDrops
<1>2. /\ UpTo(Cleaned(r, at), t)
      /\ \A i \in 1..Len(Cleaned(r, at)) : Cleaned(r, at)[i] >= at - Window
  BY CleanedUpTo
<1>3. UpTo(Cleaned(r, at), at)
  BY <1>1, <1>2, UpToLater
<1>4. Follows(m, Cleaned(r, at), ip, at)
  BY FollowsCleaned, OfTyped
<1> QED
  BY <1>1, <1>2, <1>3, <1>4

(***************************************************************************)
(* The invariant is inductive                                              *)
(***************************************************************************)
LEMMA InitIInv == Init => IInv
<1> SUFFICES ASSUME Init PROVE IInv
  OBVIOUS
<1>1. /\ <<>> \in Times /\ <<>> \in Connections /\ Len(<<>>) = 0
  BY EmptySeq DEF Times, Connections
<1>2. Typed
  BY <1>1 DEF Init, Typed
<1>3. ASSUME NEW ip \in IPs
      PROVE  UpTo(records[ip], now) /\ Follows(made, records[ip], ip, now)
  <2>1. records[ip] = <<>> /\ made = <<>> /\ 1..0 = {}
    BY DEF Init
  <2>2. UpTo(<<>>, now)
    BY <1>1, <2>1 DEF UpTo
  <2>3. Of(<<>>, ip) = {}
    BY <1>1, <2>1 DEF Of
  <2>4. Follows(<<>>, <<>>, ip, now)
    <3>1. [i \in 1..Len(<<>>) |-> 0] \in [1..Len(<<>>) -> Of(<<>>, ip)]
      BY <1>1, <2>1
    <3> QED
      BY <1>1, <2>1, <2>3, <3>1 DEF Follows
  <2> QED
    BY <2>1, <2>2, <2>4
<1>4. WindowExact
  BY DEF Init, WindowExact, Routed
<1> QED
  BY <1>2, <1>3, <1>4 DEF IInv, Tracks

LEMMA ConnectKeepsIInv ==
    ASSUME IInv, NEW ip \in IPs, NEW payload \in Payloads, NEW port \in Ports,
           Connect(ip, payload, port)
    PROVE  IInv'
<1> DEFINE r == records[ip]
           e == [ip |-> ip, at |-> now]
           c == Recorded(ip)
           tracked == "frequency" \in Enabled
<1>1. PICK later \in {t \in {now, now + 1} : t <= MaxTime} :
        /\ now' = later
        /\ records' = IF tracked THEN [records EXCEPT ![ip] = Cleaned(c, later)] ELSE records
        /\ last'.analysis.count = IF tracked THEN Len(c) ELSE 0
  BY DEF Connect, Analysis
<1>2. made' = Append(made, e)
  BY DEF Connect
<1>3. /\ now \in Nat /\ later \in Nat /\ now <= later
      /\ made \in Connections /\ records \in [IPs -> Times] /\ r \in Times
  BY DEF IInv, Typed
<1>4. /\ made' \in Connections /\ Len(made') \in Nat /\ Len(made') = Len(made) + 1
      /\ made'[Len(made')].ip = ip /\ made'[Len(made')].at = now
  <2>1. e \in Connection /\ e.ip = ip /\ e.at = now
    BY <1>3 DEF Connection
  <2> HIDE DEF e
  <2>2. /\ Append(made, e) \in Connections /\ Len(Append(made, e)) = Len(made) + 1
        /\ Append(made, e)[Len(made) + 1] = e /\ Len(made) \in Nat
    BY <1>3, <2>1 DEF Connections
  <2> QED
    BY <1>2, <2>1, <2>2
<1>5. CASE ~tracked
  <2>1. Typed'
    BY <1>1, <1>3, <1>4, <1>5 DEF Typed
  <2> QED
    BY <1>5, <2>1 DEF IInv, Tracks, WindowExact
<1>6. CASE tracked
  <2>1. \A other \in IPs : /\ records[other] \in Times /\ UpTo(records[other], now)
                           /\ Follows(made, records[other], other, now)
    BY <1>3, <1>6 DEF IInv, Tracks
  <2>2. Append(r, now) \in Times /\ UpTo(Append(r, now), now)
    BY <1>3, <2>1, UpToNew
  <2>3. Follows(made', Append(r, now), ip, now)
    BY <1>2, <1>3, <2>1, FollowsNew
  <2>4. /\ c \in Times /\ UpTo(c, now) /\ Follows(made', c, ip, now)
        /\ \A i \in 1..Len(c) : c[i] >= now - Window
    BY <1>3, <1>4, <2>2, <2>3, CleanedFollows DEF Recorded
  <2> HIDE DEF c, r
  <2> DEFINE kept == Cleaned(c, later)
  <2>5. kept \in Times /\ UpTo(kept, later) /\ Follows(made', kept, ip, later)
    BY <1>3, <1>4, <2>4, CleanedFollows
  <2> HIDE DEF kept
  <2>6. records' = [records EXCEPT ![ip] = kept]
    BY <1>1, <1>6 DEF kept
  <2>7. Typed'
    BY <1>1, <1>3, <1>4, <2>5, <2>6 DEF Typed
  <2>8. ASSUME NEW other \in IPs
        PROVE  UpTo(records'[other], later) /\ Follows(made', records'[other], other, later)
    <3>1. CASE other = ip
      BY <1>3, <2>5, <2>6, <3>1
    <3>2. CASE other # ip
      <4>1. records'[other] = records[other]
        BY <1>3, <2>6, <3>2
      <4>2. Follows(made', records[other], other, now)
        BY <1>2, <1>3, <2>1, <3>2, FollowsOther
      <4>3. Follows(made', records[other], other, later)
        BY <1>3, <1>4, <4>2, FollowsLater, OfTyped
      <4>4. UpTo(records[other], later)
        BY <1>3, <2>1, UpToLater
      <4> QED
        BY <4>1, <4>3, <4>4
    <3> QED
      BY <3>1, <3>2
  <2>9. WindowExact'
    <3>1. Cardinality({k \in DOMAIN made' : made'[k].ip = ip /\ made'[k].at >= now - Window})
            = Len(c)
      BY <1>3, <1>4, <2>4, CountExact
    <3> QED
      BY <1>1, <1>4, <1>6, <3>1 DEF WindowExact
  <2> QED
    BY <1>1, <2>7, <2>8, <2>9 DEF IInv, Tracks
<1> QED
  BY <1>5, <1>6

LEMMA SweepKeepsIInv ==
    ASSUME IInv, Sweep
    PROVE  IInv'
<1>1. /\ UNCHANGED <<now, made, last>>
      /\ \E done \in SUBSET IPs :
            records' = [ip \in IPs |-> IF ip \in done THEN Cleaned(records[ip], now)
                                                      ELSE records[ip]]
  BY DEF Sweep
<1>2. /\ now \in Nat /\ made \in Connections /\ records \in [IPs -> Times]
  BY DEF IInv, Typed
<1>3. \A ip \in IPs : Cleaned(records[ip], now) \in Times
  BY <1>2, CleanedDrops
<1>4. /\ records' \in [IPs -> Times]
      /\ \A ip \in IPs : records'[ip] \in {records[ip], Cleaned(records[ip], now)}
  BY <1>1, <1>2, <1>3
<1>5. ASSUME "frequency" \in Enabled, NEW ip \in IPs
      PROVE  UpTo(records'[ip], now) /\ Follows(made, records'[ip], ip, now)
  <2>1. UpTo(records[ip], now) /\ Follows(made, records[ip], ip, now)
    BY <1>5 DEF IInv, Tracks
  <2>2. /\ UpTo(Cleaned(records[ip], now), now)
        /\ Follows(made, Cleaned(records[ip], now), ip, now)
    BY <1>2, <2>1, CleanedFollows
  <2> QED
    BY <1>4, <2>1, <2>2
<1> QED
  BY <1>1, <1>2, <1>4, <1>5 DEF IInv, Typed, Tracks, WindowExact, Routed

LEMMA TickKeepsIInv ==
    ASSUME IInv, Tick
    PROVE  IInv'
<1>1. /\ now \in Nat /\ now' = now + 1 /\ now' \in Nat
      /\ UNCHANGED <<records, made, last>>
      /\ made \in Connections /\ records \in [IPs -> Times]
  BY DEF Tick, IInv, Typed
<1>2. ASSUME "frequency" \in Enabled, NEW ip \in IPs
      PROVE  UpTo(records[ip], now') /\ Follows(made, records[ip], ip, now')
  <2>1. UpTo(records[ip], now) /\ Follows(made, records[ip], ip, now)
    BY <1>2 DEF IInv, Tracks
  <2> QED
    BY <1>1, <2>1, UpToLater, FollowsLater, OfTyped
<1> QED
  BY <1>1, <1>2 DEF IInv, Typed, Tracks, WindowExact, Routed

LEMMA NextIInv == IInv /\ [Next]_vars => IInv'
<1>1. ASSUME IInv, UNCHANGED vars PROVE IInv'
  BY <1>1 DEF vars, IInv, Typed, Tracks, WindowExact, Routed
<1> QED
  BY <1>1, ConnectKeepsIInv, SweepKeepsIInv, TickKeepsIInv DEF Next

\* The inductive invariant holds at every step.
THEOREM IInvHolds == Spec => []IInv
BY InitIInv, NextIInv, PTL DEF Spec

\* The count analyze() judges a connection by is the number of connections its
\* address made within the window, whatever was cleaned or swept before.
THEOREM WindowExactHolds == Spec => []WindowExact
<1>1. IInv => WindowExact
  BY DEF IInv
<1> QED
  BY <1>1, IInvHolds, PTL

(***************************************************************************)
(* The score and where it leads                                            *)
(***************************************************************************)
LEMMA QuotientRises ==
    ASSUME NEW a \in Nat, NEW b \in Nat, NEW d \in Nat \ {0}, a <= b
    PROVE  a \div d \in Nat /\ a \div d <= b \div d
<1>1. a \div d <= b \div d
  OBVIOUS
<1>2. a \div d \in Int /\ 0 <= a \div d
  OBVIOUS
<1> QED
  BY <1>1, <1>2

LEMMA QuotientBelow ==
    ASSUME NEW a \in Nat, NEW q \in Nat, NEW d \in Nat \ {0}, a < d * q
    PROVE  a \div d < q
OBVIOUS

\* get_frequency_score() lies between 0 and 140, is below 50 until the threshold is
\* reached, and never falls when the count rises.
THEOREM FrequencyRises ==
    ASSUME NEW n \in Nat, NEW m \in Nat, n <= m
    PROVE  /\ FrequencyScore(n) \in 0..140
           /\ n < Threshold => FrequencyScore(n) < 50
           /\ FrequencyScore(n) <= FrequencyScore(m)
<1> DEFINE T == Threshold
<1>1. T \in Nat \ {0}
  BY RoutingAssumption
<1>2. ASSUME NEW k \in Nat
      PROVE  /\ (40 * k) \div T \in Nat /\ (30 * k) \div T \in Nat
             /\ k < T => (40 * k) \div T < 40
             /\ k < 3 * T => (30 * k) \div T < 90
  <2>1. 40 * k \in Nat /\ 30 * k \in Nat
    OBVIOUS
  <2>2. (40 * k) \div T \in Nat /\ (30 * k) \div T \in Nat
    BY <1>1, <2>1, QuotientRises
  <2>3. k < T => 40 * k < T * 40
    BY <1>1
  <2>4. k < 3 * T => 30 * k < T * 90
    BY <1>1
  <2> QED
    BY <1>1, <2>1, <2>2, <2>3, <2>4, QuotientBelow
<1>3. (40 * n) \div T <= (40 * m) \div T /\ (30 * n) \div T <= (30 * m) \div T
  <2>1. /\ 40 * n \in Nat /\ 40 * m \in Nat /\ 40 * n <= 40 * m
        /\ 30 * n \in Nat /\ 30 * m \in Nat /\ 30 * n <= 30 * m
    OBVIOUS
  <2> QED
    BY <1>1, <2>1, QuotientRises
<1> DEFINE p(k) == (40 * k) \div T
           q(k) == (30 * k) \div T
<1>4. \A k \in {n, m} : FrequencyScore(k) = IF k >= T THEN 50 + (IF k >= 3 * T THEN 90 ELSE q(k))
                                                      ELSE p(k)
  BY DEF FrequencyScore
<1>5. /\ p(n) \in Nat /\ q(n) \in Nat /\ p(m) \in Nat /\ q(m) \in Nat
      /\ n < T => p(n) < 40
      /\ n < 3 * T => q(n) < 90
      /\ m < 3 * T => q(m) < 90
      /\ p(n) <= p(m) /\ q(n) <= q(m)
  BY <1>2, <1>3
<1> HIDE DEF p, q, T
<1>6. FrequencyScore(n) \in 0..140 /\ (n < T => FrequencyScore(n) < 50)
  BY <1>1, <1>4, <1>5
<1>7. FrequencyScore(n) <= FrequencyScore(m)
  BY <1>1, <1>4, <1>5
<1> QED
  BY <1>6, <1>7 DEF T

(***************************************************************************)
(* The rules                                                               *)
(***************************************************************************)
\* There is a first among rules that match, so route() takes one.
LEMMA FirstRule ==
    ASSUME NEW M \in SUBSET DOMAIN Rules, M # {}
    PROVE  LET i == CHOOSE i \in M : \A j \in M \ {i} : Before(i, j)
           IN  i \in M /\ \A j \in M \ {i} : Before(i, j)
<1> DEFINE First(i, N) == i \in N /\ \A j \in N \ {i} : Before(i, j)
           Upto(n) == {i \in M : i <= n}
           Bad == {n \in 0..Len(Rules) : Upto(n) # {} /\ ~\E i : First(i, Upto(n))}
<1>1. /\ Len(Rules) \in Nat /\ DOMAIN Rules = 1..Len(Rules)
      /\ \A i \in DOMAIN Rules : Rules[i].priority \in Int
  BY RoutingAssumption DEF Range
<1>2. Bad = {}
  <2> SUFFICES ASSUME Bad # {} PROVE FALSE
    OBVIOUS
  <2>1. Bad \in SUBSET Nat
    BY <1>1
  <2>2. PICK n \in Bad : \A m \in Bad : n <= m
    BY <2>1, SmallestOf
  <2>3. n \in 0..Len(Rules) /\ Upto(n) # {} /\ ~\E i : First(i, Upto(n))
    BY <2>2
  <2>4. n # 0
    BY <1>1, <2>3
  <2>5. n - 1 \in 0..Len(Rules) /\ n - 1 \notin Bad
    <3>1. n \in Nat /\ n - 1 \in 0..Len(Rules) /\ ~(n <= n - 1)
      BY <1>1, <2>3, <2>4
    <3> HIDE DEF Bad
    <3> QED
      BY <2>2, <3>1
  <2>6. Upto(n - 1) = {} \/ \E i : First(i, Upto(n - 1))
    BY <2>5
  <2>7. n \in M /\ Upto(n) = Upto(n - 1) \cup {n}
    <3>1. \A i \in M : i <= n <=> i <= n - 1 \/ i = n
      <4>1. n \in Int /\ \A i \in M : i \in Int
        BY <1>1, <2>3
      <4> HIDE DEF Bad
      <4> QED
        BY <4>1
    <3>2. CASE n \in M
      BY <3>1, <3>2, <2>3
    <3>3. CASE n \notin M
      <4>1. Upto(n) = Upto(n - 1)
        BY <3>1, <3>3
      <4> HIDE DEF Upto, First
      <4> QED
        BY <4>1, <2>3, <2>6
    <3> QED
      BY <3>2, <3>3
  <2>8. CASE Upto(n - 1) = {}
    <3>1. First(n, Upto(n))
      BY <2>7, <2>8
    <3> QED
      BY <3>1, <2>3
  <2>9. CASE \E i : First(i, Upto(n - 1))
    <3>1. PICK i : First(i, Upto(n - 1))
      BY <2>9
    <3>2. i \in M /\ i < n /\ i \in DOMAIN Rules /\ n \in DOMAIN Rules /\ i \in Upto(n - 1)
      BY <3>1, <2>7, <1>1
    <3> HIDE DEF Upto
    <3>3. CASE Rules[n].priority > Rules[i].priority
      <4>1. Before(n, i)
        BY <3>3 DEF Before
      <4>2. \A j \in Upto(n - 1) \ {i} : Before(n, j)
        <5> SUFFICES ASSUME NEW j \in Upto(n - 1) \ {i} PROVE Before(n, j)
          OBVIOUS
        <5>1. Before(i, j) /\ j \in DOMAIN Rules
          BY <3>1 DEF Upto
        <5>2. /\ Rules[i].priority \in Int /\ Rules[j].priority \in Int
              /\ Rules[n].priority \in Int
          BY <1>1, <3>2, <5>1
        <5> QED
          BY <3>3, <5>1, <5>2 DEF Before
      <4>3. First(n, Upto(n))
        BY <4>1, <4>2, <2>7
      <4> QED
        BY <4>3, <2>3
    <3>4. CASE ~(Rules[n].priority > Rules[i].priority)
      <4>1. Rules[i].priority \in Int /\ Rules[n].priority \in Int
        BY <1>1, <3>2
      <4>2. Before(i, n)
        BY <3>2, <3>4, <4>1 DEF Before
      <4>3. First(i, Upto(n))
        BY <3>1, <3>2, <4>2, <2>7
      <4> QED
        BY <4>3, <2>3
    <3> QED
      BY <3>3, <3>4
  <2> QED
    BY <2>6, <2>8, <2>9
<1>3. Upto(Len(Rules)) = M
  BY <1>1
<1>4. \E i : First(i, M)
  <2>1. Len(Rules) \notin Bad /\ Len(Rules) \in 0..Len(Rules)
    <3> HIDE DEF Bad
    <3> QED
      BY <1>1, <1>2
  <2> HIDE DEF Upto, First
  <2> QED
    BY <1>3, <2>1
<1> QED
  BY <1>4

\* What route() does with a connection: the first of the rules that match, if there
\* is one and the address is not whitelisted.
LEMMA RouteEffect ==
    ASSUME NEW a
    PROVE  \/ /\ a.ip \in Whitelist \/ \A i \in DOMAIN Rules : ~Matches(Rules[i], a)
              /\ Destination(a) = "none"
           \/ /\ a.ip \notin Whitelist
              /\ \E i \in DOMAIN Rules :
                    /\ Matches(Rules[i], a) /\ Destination(a) = Reached(Rules[i])
                    /\ \A j \in DOMAIN Rules :
                          Matches(Rules[j], a) /\ j # i => Before(i, j)
<1> DEFINE M == {i \in DOMAIN Rules : Matches(Rules[i], a)}
           f == CHOOSE i \in M : \A j \in M \ {i} : Before(i, j)
<1>1. CASE a.ip \in Whitelist \/ M = {}
  <2>1. Destination(a) = Reached(LogOnly)
    BY <1>1 DEF Destination, Route
  <2> QED
    BY <1>1, <2>1 DEF Reached, LogOnly
<1>2. CASE ~(a.ip \in Whitelist \/ M = {})
  <2>1. Destination(a) = Reached(Rules[f])
    BY <1>2 DEF Destination, Route
  <2>2. f \in M /\ \A j \in M \ {f} : Before(f, j)
    <3>1. M \in SUBSET DOMAIN Rules /\ M # {}
      BY <1>2
    <3> HIDE DEF M
    <3> QED
      BY <3>1, FirstRule
  <2> HIDE DEF f
  <2> QED
    BY <1>2, <2>1, <2>2
<1> QED
  BY <1>1, <1>2

(***************************************************************************)
(* The connection routed last                                              *)
(***************************************************************************)
\* What is known of it.
Judged ==
    Routed =>
        /\ last.payload \in Payloads
        /\ last.scored \in Nat /\ last.analysis.count \in Nat
        /\ last.scored <= last.analysis.count
        /\ "frequency" \notin Enabled => last.analysis.count = 0
        /\ last.analysis = Analysis(last.analysis.ip, last.payload, last.analysis.local_port,
                                    last.analysis.count, last.scored)
        /\ last.goes = Destination(last.analysis)

LEMMA JudgedHolds == Spec => []Judged
<1>1. Init => Judged
  BY DEF Init, Judged, Routed
<1>2. IInv /\ Judged /\ [Next]_vars => Judged'
  <2> SUFFICES ASSUME IInv, Judged, [Next]_vars PROVE Judged'
    OBVIOUS
  <2>1. ASSUME NEW ip \in IPs, NEW payload \in Payloads, NEW port \in Ports,
               Connect(ip, payload, port)
        PROVE  Judged'
    <3>1. PICK count, scored :
            /\ count = IF "frequency" \in Enabled THEN Len(Recorded(ip)) ELSE 0
            /\ scored = IF "frequency" \in Enabled
                        THEN Len(Cleaned(Recorded(ip), now')) ELSE 0
            /\ last' = [payload |-> payload,
                        analysis |-> Analysis(ip, payload, port, count, scored),
                        scored |-> scored,
                        goes |-> Destination(Analysis(ip, payload, port, count, scored))]
      BY <2>1 DEF Connect
    <3>2. /\ scored \in Nat /\ count \in Nat /\ scored <= count
          /\ "frequency" \notin Enabled => count = 0
      <4>1. /\ now \in Nat /\ now' \in Nat /\ records[ip] \in Times
        BY <2>1 DEF Connect, IInv, Typed
      <4>2. Append(records[ip], now) \in Times
        BY <4>1 DEF Times
      <4>3. Recorded(ip) \in Times
        BY <4>1, <4>2, CleanedDrops DEF Recorded
      <4>4. /\ Len(Recorded(ip)) \in Nat /\ Len(Cleaned(Recorded(ip), now')) \in Nat
            /\ Len(Cleaned(Recorded(ip), now')) <= Len(Recorded(ip))
        <5>1. PICK n \in 0..Len(Recorded(ip)) :
                /\ Cleaned(Recorded(ip), now') \in Times
                /\ Len(Cleaned(Recorded(ip), now')) = Len(Recorded(ip)) - n
          BY <4>1, <4>3, CleanedDrops
        <5> QED
          BY <4>3, <5>1 DEF Times
      <4> QED
        BY <3>1, <4>4
    <3> DEFINE a == Analysis(ip, payload, port, count, scored)
    <3>3. a.ip = ip /\ a.local_port = port /\ a.count = count
      BY DEF Analysis
    <3>4. /\ last'.payload = payload /\ last'.scored = scored /\ last'.analysis = a
          /\ last'.goes = Destination(a)
      BY <3>1
    <3> HIDE DEF a
    <3>5. a = Analysis(a.ip, payload, a.local_port, a.count, scored)
      BY <3>3 DEF a
    <3>6. last'.analysis.count = count
      BY <3>3, <3>4
    <3>7. last'.analysis = Analysis(last'.analysis.ip, last'.payload, last'.analysis.local_port,
                                    last'.analysis.count, last'.scored)
      BY <3>4, <3>5, Zenon
    <3> QED
      BY <3>2, <3>4, <3>6, <3>7, Zenon DEF Judged
  <2>2. CASE Tick \/ Sweep \/ UNCHANGED vars
    <3>1. UNCHANGED <<made, last>>
      BY <2>2 DEF Tick, Sweep, vars
    <3> QED
      BY <3>1 DEF Judged, Routed
  <2> QED
    BY <2>1, <2>2 DEF Next
<1> QED
  BY <1>1, <1>2, IInvHolds, PTL DEF Spec

\* With fewer connections in the window the same first bytes are not judged more
\* dangerous, and only a rule that asks for a score or a frequency can be one that
\* matches now and did not then.
LEMMA MoreConnections ==
    ASSUME IntegerScores, NEW ip, NEW payload \in Payloads, NEW port,
           NEW n \in Nat, NEW m \in Nat, NEW count \in Nat, n <= m, m <= count,
           NEW a, a = Analysis(ip, payload, port, count, m),
           NEW b, b = Analysis(ip, payload, port, n, n)
    PROVE  /\ b.level <= a.level
           /\ \A rule \in Range(Rules) :
                /\ Matches(rule, b) => Matches(rule, a)
                /\ Matches(rule, a) /\ ~Matches(rule, b) => \E cond \in rule.conditions : Rising(cond)
<1> DEFINE c == Content[payload].score
           f(k) == IF "frequency" \in Enabled THEN FrequencyScore(k) ELSE 0
           score(k) == AtMost100(c + f(k))
<1>1. c \in Int
  BY DEF IntegerScores
<1>2. f(n) \in Int /\ f(m) \in Int /\ f(n) <= f(m)
  <2>1. m <= m
    OBVIOUS
  <2>2. /\ FrequencyScore(n) \in 0..140 /\ FrequencyScore(m) \in 0..140
        /\ FrequencyScore(n) <= FrequencyScore(m)
    BY <2>1, FrequencyRises, Zenon
  <2>3. CASE "frequency" \in Enabled
    <3>1. f(n) = FrequencyScore(n) /\ f(m) = FrequencyScore(m)
      BY <2>3
    <3> HIDE DEF f
    <3> QED
      BY <2>2, <3>1
  <2>4. CASE "frequency" \notin Enabled
    BY <2>4
  <2> QED
    BY <2>3, <2>4
<1>3. score(n) \in Int /\ score(m) \in Int /\ score(n) <= score(m)
  <2> HIDE DEF c, f
  <2> QED
    BY <1>1, <1>2 DEF AtMost100
<1>4. ThreatLevel(score(n)) <= ThreatLevel(score(m))
  <2> HIDE DEF score
  <2> QED
    BY <1>3, ContentAssumption DEF ThreatLevel
<1>5. /\ b.level = ThreatLevel(score(n)) /\ a.level = ThreatLevel(score(m))
      /\ b.score = score(n) /\ a.score = score(m)
      /\ b.count = n /\ a.count = count
      /\ b.high <=> "frequency" \in Enabled /\ n >= Threshold
      /\ a.high <=> "frequency" \in Enabled /\ count >= Threshold
      /\ a.ip = b.ip /\ a.protocol = b.protocol
      /\ a.local_port = b.local_port /\ a.tags = b.tags
  BY DEF Analysis
<1>6. b.high => a.high
  BY <1>5, RoutingAssumption
<1> HIDE DEF score
<1>7. ASSUME NEW rule \in Range(Rules), NEW cond \in rule.conditions
      PROVE  /\ Holds(cond, b) => Holds(cond, a)
             /\ Holds(cond, a) /\ ~Holds(cond, b) => Rising(cond)
  <2>1. CASE cond.type = "score_threshold"
    <3>1. cond.value \in Int
      BY <1>7, <2>1, RoutingAssumption
    <3>2. Holds(cond, a) <=> a.score >= cond.value
      BY <2>1 DEF Holds
    <3>3. Holds(cond, b) <=> b.score >= cond.value
      BY <2>1 DEF Holds
    <3> QED
      BY <1>3, <1>5, <2>1, <3>1, <3>2, <3>3 DEF Rising
  <2>2. CASE cond.type = "frequency_threshold"
    <3>1. cond.value \in Int
      BY <1>7, <2>2, RoutingAssumption
    <3>2. Holds(cond, a) <=> a.high \/ a.count >= cond.value
      BY <2>2 DEF Holds
    <3>3. Holds(cond, b) <=> b.high \/ b.count >= cond.value
      BY <2>2 DEF Holds
    <3>4. b.count >= cond.value => a.count >= cond.value
      BY <1>5, <3>1
    <3> QED
      BY <1>6, <2>2, <3>2, <3>3, <3>4 DEF Rising
  <2>3. CASE ~Rising(cond)
    <3>1. Holds(cond, a) = Holds(cond, b)
      BY <1>5, <2>3 DEF Holds, Rising
    <3> QED
      BY <3>1
  <2> QED
    BY <2>1, <2>2, <2>3 DEF Rising
<1> QED
  BY <1>4, <1>5, <1>7 DEF Matches

\* The response escalates with the frequency, whatever the thresholds and the
\* signatures, for every list of rules that escalates; the lists that do are those
\* of EscalatingRules, the shipped one among them.
THEOREM EscalationHolds ==
    ASSUME IntegerScores, EscalatingRules
    PROVE  Spec => []Escalation
<1>1. Judged => Escalation
  <2> SUFFICES ASSUME Judged, Routed, NEW n \in 1..last.scored
               PROVE  LET b == Analysis(last.analysis.ip, last.payload,
                                        last.analysis.local_port, n, n)
                      IN  /\ b.level <= last.analysis.level
                          /\ Grip(Destination(b)) <= Grip(last.goes)
    BY DEF Escalation
  <2> DEFINE a == last.analysis
             b == Analysis(a.ip, last.payload, a.local_port, n, n)
  <2>1. /\ last.payload \in Payloads /\ n \in Nat /\ last.scored \in Nat /\ a.count \in Nat
        /\ n <= last.scored /\ last.scored <= a.count
        /\ a = Analysis(a.ip, last.payload, a.local_port, a.count, last.scored)
        /\ last.goes = Destination(a)
    BY DEF Judged
  <2>2. a.ip = b.ip
    BY DEF Analysis
  <2> HIDE DEF a, b
  <2>3. /\ b.level <= a.level
        /\ \A rule \in Range(Rules) :
              /\ Matches(rule, b) => Matches(rule, a)
              /\ Matches(rule, a) /\ ~Matches(rule, b) => \E cond \in rule.conditions : Rising(cond)
    BY <2>1, MoreConnections DEF b
  <2>4. \A i \in DOMAIN Rules : Rules[i] \in Range(Rules) /\ Rules[i].priority \in Int /\ i \in Int
    BY RoutingAssumption DEF Range
  <2>5. \A goes : Grip(goes) \in 0..2
    BY DEF Grip
  <2>6. Grip("none") = 0
    BY DEF Grip
  <2>7. Grip(Destination(b)) <= Grip(Destination(a))
    <3>1. CASE Destination(b) = "none"
      BY <2>5, <2>6, <3>1
    <3>2. CASE Destination(b) # "none"
      <4>1. PICK j \in DOMAIN Rules :
              /\ b.ip \notin Whitelist /\ Matches(Rules[j], b) /\ Destination(b) = Reached(Rules[j])
              /\ \A k \in DOMAIN Rules : Matches(Rules[k], b) /\ k # j => Before(j, k)
        BY <3>2, RouteEffect
      <4>2. Matches(Rules[j], a)
        BY <2>3, <2>4, <4>1
      <4>3. PICK i \in DOMAIN Rules :
              /\ Matches(Rules[i], a) /\ Destination(a) = Reached(Rules[i])
              /\ \A k \in DOMAIN Rules : Matches(Rules[k], a) /\ k # i => Before(i, k)
        BY <2>2, <4>1, <4>2, RouteEffect
      <4>4. CASE i = j
        BY <2>5, <4>1, <4>3, <4>4
      <4>5. CASE i # j
        <5>1. Before(i, j)
          BY <4>2, <4>3, <4>5
        <5>2. Rules[i].priority >= Rules[j].priority /\ ~Before(j, i)
          BY <2>4, <5>1 DEF Before
        <5>3. ~Matches(Rules[i], b)
          BY <4>1, <4>5, <5>2
        <5>4. \E cond \in Rules[i].conditions : Rising(cond)
          BY <2>3, <2>4, <4>3, <5>3
        <5>5. Grip(Reached(Rules[i])) >= Grip(Reached(Rules[j]))
          BY <4>5, <5>2, <5>4, EscalatingRules DEF EscalatingRules
        <5>6. Grip(Reached(Rules[i])) \in Int /\ Grip(Reached(Rules[j])) \in Int
          BY <2>5
        <5> QED
          BY <4>1, <4>3, <5>5, <5>6
      <4> QED
        BY <4>4, <4>5
    <3> QED
      BY <3>1, <3>2
  <2> QED
    BY <2>1, <2>3, <2>7 DEF a, b
<1> QED
  BY <1>1, JudgedHolds, PTL

\* Whatever the rules, a whitelisted address is only logged.
THEOREM WhitelistedAreLogged ==
    Spec => [](Routed /\ last.analysis.ip \in Whitelist => last.goes = "none")
<1>1. Judged => (Routed /\ last.analysis.ip \in Whitelist => last.goes = "none")
  BY RouteEffect DEF Judged
<1> QED
  BY <1>1, JudgedHolds, PTL

(***************************************************************************)
(* Types                                                                   *)
(***************************************************************************)
\* The bounds of the model.
Bounded == /\ now \in 0..MaxTime
           /\ records \in [IPs -> Seq(0..MaxTime)]
           /\ made \in Seq([ip : IPs, at : 0..MaxTime])
           /\ Len(made) <= MaxConns

LEMMA CleanedBounded ==
    ASSUME NEW r \in Seq(0..MaxTime), NEW at \in Nat
    PROVE  Cleaned(r, at) \in Seq(0..MaxTime)
<1> DEFINE c == Cleaned(r, at)
<1>0. Len(r) \in Nat /\ \A i \in 1..Len(r) : r[i] \in 0..MaxTime
  <2> DEFINE T == 0..MaxTime
  <2>1. r \in Seq(T)
    OBVIOUS
  <2> HIDE DEF T
  <2>2. Len(r) \in Nat /\ \A i \in 1..Len(r) : r[i] \in T
    BY <2>1
  <2> QED
    BY <2>2 DEF T
<1>1. r \in Times
  <2>1. \A i \in 1..Len(r) : r[i] \in Nat
    BY <1>0, RoutingAssumption
  <2> QED
    BY <1>0, <2>1 DEF Times
<1>2. PICK n \in 0..Len(r) :
        /\ c \in Times /\ Len(c) = Len(r) - n
        /\ \A i \in 1..(Len(r) - n) : c[i] = r[n + i]
  BY <1>1, CleanedDrops
<1> HIDE DEF c
<1>3. \A i \in 1..Len(c) : c[i] \in 0..MaxTime
  <2> SUFFICES ASSUME NEW i \in 1..Len(c) PROVE c[i] \in 0..MaxTime
    OBVIOUS
  <2>1. n + i \in 1..Len(r) /\ c[i] = r[n + i]
    BY <1>0, <1>2
  <2> QED
    BY <1>0, <2>1
<1>4. c \in Seq(0..MaxTime)
  BY <1>2, <1>3 DEF Times
<1> QED
  BY <1>4 DEF c

LEMMA BoundedHolds == Spec => []Bounded
<1>1. Init => Bounded
  <2> SUFFICES ASSUME Init PROVE Bounded
    OBVIOUS
  <2>1. <<>> \in Seq(0..MaxTime) /\ <<>> \in Seq([ip : IPs, at : 0..MaxTime]) /\ Len(<<>>) = 0
    BY EmptySeq
  <2> QED
    BY <2>1, RoutingAssumption DEF Init, Bounded
<1>2. IInv /\ Bounded /\ [Next]_vars => Bounded'
  <2> SUFFICES ASSUME IInv, Bounded, [Next]_vars PROVE Bounded'
    OBVIOUS
  <2>1. MaxTime \in Nat /\ MaxConns \in Nat /\ now \in 0..MaxTime /\ now \in Nat
    BY RoutingAssumption DEF Bounded
  <2>2. ASSUME NEW ip \in IPs, NEW payload \in Payloads, NEW port \in Ports,
               Connect(ip, payload, port)
        PROVE  Bounded'
    <3>1. PICK later \in {t \in {now, now + 1} : t <= MaxTime} :
            /\ now' = later
            /\ records' = IF "frequency" \in Enabled
                          THEN [records EXCEPT ![ip] = Cleaned(Recorded(ip), later)] ELSE records
      BY <2>2 DEF Connect
    <3>2. now' \in 0..MaxTime /\ later \in Nat
      BY <2>1, <3>1
    <3>3. records' \in [IPs -> Seq(0..MaxTime)]
      <4>1. Append(records[ip], now) \in Seq(0..MaxTime)
        BY <2>1 DEF Bounded
      <4>2. Cleaned(Recorded(ip), later) \in Seq(0..MaxTime)
        BY <2>1, <3>2, <4>1, CleanedBounded DEF Recorded
      <4> QED
        BY <3>1, <4>2 DEF Bounded
    <3>4. /\ made' \in Seq([ip : IPs, at : 0..MaxTime])
          /\ Len(made') <= MaxConns
      <4> DEFINE Entries == [ip : IPs, at : 0..MaxTime]
                 e == [ip |-> ip, at |-> now]
      <4>1. e \in Entries
        BY <2>1
      <4>2. made \in Seq(Entries) /\ Len(made) < MaxConns /\ made' = Append(made, e)
        BY <2>2 DEF Connect, Bounded
      <4> HIDE DEF Entries, e
      <4>3. made' \in Seq(Entries) /\ Len(made') = Len(made) + 1 /\ Len(made) \in Nat
        BY <4>1, <4>2
      <4>4. Len(made') <= MaxConns
        BY <2>1, <4>2, <4>3
      <4> QED
        BY <4>3, <4>4 DEF Entries
    <3> QED
      BY <3>2, <3>3, <3>4 DEF Bounded
  <2>3. CASE Sweep
    <3>1. PICK done \in SUBSET IPs :
            records' = [ip \in IPs |-> IF ip \in done THEN Cleaned(records[ip], now)
                                                      ELSE records[ip]]
      BY <2>3 DEF Sweep
    <3>2. \A ip \in IPs : records[ip] \in Seq(0..MaxTime)
      BY DEF Bounded
    <3>3. \A ip \in IPs : Cleaned(records[ip], now) \in Seq(0..MaxTime)
      BY <2>1, <3>2, CleanedBounded
    <3>4. records' \in [IPs -> Seq(0..MaxTime)]
      BY <3>1, <3>2, <3>3
    <3> QED
      BY <2>3, <3>4 DEF Sweep, Bounded
  <2>4. CASE Tick
    <3>1. now' \in 0..MaxTime
      BY <2>1, <2>4 DEF Tick
    <3> QED
      BY <2>4, <3>1 DEF Tick, Bounded
  <2>5. CASE UNCHANGED vars
    BY <2>5 DEF vars, Bounded
  <2> QED
    BY <2>2, <2>3, <2>4, <2>5 DEF Next
<1> QED
  BY <1>1, <1>2, IInvHolds, PTL DEF Spec

\* Every variable keeps its type: no more connections are counted than were made and
\* no score exceeds 100, as long as no signature has a negative score.
THEOREM TypeCorrect ==
    ASSUME NaturalScores
    PROVE  Spec => []TypeOK
<1>1. IInv /\ Judged /\ Bounded => TypeOK
  <2> SUFFICES ASSUME IInv, Judged, Bounded PROVE TypeOK
    OBVIOUS
  <2>1. ASSUME made # <<>>
        PROVE  /\ last.analysis.count \in 0..MaxConns
               /\ last.scored \in 0..last.analysis.count
    <3>1. /\ last.scored \in Nat /\ last.analysis.count \in Nat
          /\ last.scored <= last.analysis.count
          /\ "frequency" \notin Enabled => last.analysis.count = 0
      BY <2>1 DEF Judged, Routed
    <3>2. Len(made) \in Nat /\ Len(made) <= MaxConns /\ MaxConns \in Nat
          /\ DOMAIN made = 1..Len(made)
      BY RoutingAssumption DEF Bounded
    <3>3. CASE "frequency" \in Enabled
      <4> DEFINE Counted == {i \in DOMAIN made : /\ made[i].ip = made[Len(made)].ip
                                                /\ made[i].at >= made[Len(made)].at - Window}
      <4>1. last.analysis.count = Cardinality(Counted)
        BY <2>1, <3>3 DEF IInv, WindowExact, Routed
      <4>2. Counted \subseteq 1..Len(made)
        BY <3>2
      <4> HIDE DEF Counted
      <4>3. IsFiniteSet(1..Len(made)) /\ Cardinality(1..Len(made)) = Len(made)
        <5>1. 1 \in Int /\ Len(made) \in Int
          BY <3>2
        <5>2. /\ IsFiniteSet(1..Len(made))
              /\ Cardinality(1..Len(made)) = IF 1 > Len(made) THEN 0 ELSE Len(made) - 1 + 1
          BY <5>1, FS_Interval
        <5> QED
          BY <3>2, <5>2
      <4>4. Cardinality(Counted) <= Len(made)
        BY <4>2, <4>3, FS_Subset
      <4> QED
        BY <3>1, <3>2, <4>1, <4>4
    <3> QED
      BY <3>1, <3>2, <3>3
  <2>2. ASSUME made # <<>>
        PROVE  last.analysis.score \in 0..100
    <3> DEFINE c == Content[last.payload].score
               f == IF "frequency" \in Enabled THEN FrequencyScore(last.scored) ELSE 0
    <3>1. /\ last.payload \in Payloads /\ last.scored \in Nat
          /\ last.analysis = Analysis(last.analysis.ip, last.payload, last.analysis.local_port,
                                      last.analysis.count, last.scored)
      BY <2>2 DEF Judged, Routed
    <3>2. last.analysis.score = AtMost100(c + f)
      BY <3>1 DEF Analysis
    <3>3. c \in Nat
      BY <3>1, NaturalScores DEF NaturalScores
    <3>4. f \in Nat
      <4>1. last.scored <= last.scored
        BY <3>1
      <4>2. FrequencyScore(last.scored) \in 0..140
        BY <3>1, <4>1, FrequencyRises, Zenon
      <4> QED
        BY <4>2
    <3> HIDE DEF c, f
    <3> QED
      BY <3>2, <3>3, <3>4 DEF AtMost100
  <2>3. ASSUME made # <<>>
        PROVE  last.goes \in Destinations
    <3>1. last.goes = Destination(last.analysis)
      BY <2>3 DEF Judged, Routed
    <3>2. \A d : Reached(d) \in Destinations
      BY DEF Reached, PortMap, Destinations
    <3> QED
      BY <3>1, <3>2 DEF Destination
  <2> QED
    BY <2>1, <2>2, <2>3 DEF Bounded, TypeOK
<1> QED
  BY <1>1, IInvHolds, JudgedHolds, BoundedHolds, PTL

(***************************************************************************)
(* The life cycle of the process                                           *)
(***************************************************************************)
\* The stages of stop().
Stopping == {"unbridging", "joining", "gathering", "done"}

\* The handlers of run_command() are in place only when start() has failed, and
\* then nobody waits for the event they set.
EventIsLate ==
    handler = "event" \/ shutdownSet => main \in {"failed", "exited"}

\* All ports are in _servers before anything can be stopped.
BoundSoFar == /\ main = "new" => bound = 0
              /\ main = "binding" => bound < PortCount
              /\ main = "serving" => bound = PortCount

\* A gateway that no longer runs has closed its ports, but for those that were
\* bound after a signal.
ClosedOrEarly ==
    /\ main = "binding" /\ ~gwRunning => early
    /\ main = "serving" /\ ~gwRunning => open = {} \/ early
    /\ main \in Stopping => open = {} \/ early

\* The invariant of the life cycle.
LifeInv == LifeTypeOK /\ EventIsLate /\ BoundSoFar /\ ClosedOrEarly /\ SignalsNeverStop

(***************************************************************************)
(* The invariant of the life cycle is inductive                            *)
(***************************************************************************)
\* Before start() there are neither ports nor signals.
LEMMA InitLifeInv == LifeInit => LifeInv
<1> SUFFICES ASSUME LifeInit PROVE LifeInv
  OBVIOUS
<1>1. LifeTypeOK
  <2>1. /\ signals \in 0..MaxSignals /\ shuts \in 0..signals
        /\ bound \in 0..PortCount /\ open \subseteq 1..PortCount /\ children \in 0..Children
    BY LifecycleAssumption DEF LifeInit
  <2> QED
    BY <2>1, Zenon DEF LifeInit, LifeTypeOK, Stages
<1>2. EventIsLate
  BY Zenon DEF LifeInit, EventIsLate
<1>3. BoundSoFar /\ ClosedOrEarly /\ SignalsNeverStop
  BY DEF LifeInit, BoundSoFar, ClosedOrEarly, SignalsNeverStop, Stopping
<1> QED
  BY <1>1, <1>2, <1>3 DEF LifeInv

\* Only ports are opened.
LEMMA PortsKeepType ==
    ASSUME open \subseteq 1..PortCount,
           (\E port \in 1..PortCount : BindPort(port)) \/ CloseServers \/ UNCHANGED open
    PROVE  open' \subseteq 1..PortCount
BY DEF BindPort, CloseServers

\* start() binds the ports one by one, and a failure ends it.
LEMMA StartKeepsLifeInv ==
    ASSUME LifeInv, Begin \/ BeginFails \/ Bound
    PROVE  LifeInv'
<1> USE LifecycleAssumption
    DEF LifeInv, LifeTypeOK, EventIsLate, BoundSoFar, ClosedOrEarly, SignalsNeverStop,
        Stages, Stopping, Goto
<1>1. CASE Begin
  <2> USE <1>1 DEF Begin, BindPort
  <2>1. LifeTypeOK'
    <3>1. (open \subseteq 1..PortCount)'
      BY PortsKeepType, 1 \in 1..PortCount
    <3> QED
      BY <3>1
  <2>2. ClosedOrEarly'
    OBVIOUS
  <2>3. EventIsLate' /\ BoundSoFar'
    OBVIOUS
  <2>4. SignalsNeverStop'
    OBVIOUS
  <2> QED
    BY <2>1, <2>2, <2>3, <2>4
<1>2. CASE BeginFails
  BY <1>2 DEF BeginFails, gwVars
<1>3. CASE Bound
  <2> USE <1>3 DEF Bound, BindPort, sigVars
  <2>1. LifeTypeOK'
    <3>1. bound' \in 0..PortCount /\ (bound' < PortCount => bound' + 1 \in 1..PortCount)
      OBVIOUS
    <3>2. (open \subseteq 1..PortCount)'
      BY <3>1, PortsKeepType
    <3> QED
      BY <3>1, <3>2
  <2>2. ClosedOrEarly'
    OBVIOUS
  <2>3. EventIsLate' /\ BoundSoFar'
    OBVIOUS
  <2>4. SignalsNeverStop'
    OBVIOUS
  <2> QED
    BY <2>1, <2>2, <2>3, <2>4
<1> QED
  BY <1>1, <1>2, <1>3

\* Whenever a signal comes and whenever _shutdown() runs.
LEMMA SignalKeepsLifeInv ==
    ASSUME LifeInv, Signal \/ Shutdown
    PROVE  LifeInv'
<1> USE LifecycleAssumption
    DEF LifeInv, LifeTypeOK, EventIsLate, BoundSoFar, ClosedOrEarly, SignalsNeverStop,
        Stages, Stopping, Alive, procVars
<1>1. CASE Signal
  BY <1>1 DEF Signal, gwVars
<1>2. CASE Shutdown
  <2> USE <1>2 DEF Shutdown, CloseServers
  <2>1. LifeTypeOK'
    <3>1. (open \subseteq 1..PortCount)'
      BY PortsKeepType
    <3>2. (gwRunning \in BOOLEAN /\ early \in BOOLEAN)'
      OBVIOUS
    <3>3. (shuts \in 0..signals)'
      OBVIOUS
    <3> QED
      BY <3>1, <3>2, <3>3
  <2>2. ClosedOrEarly'
    OBVIOUS
  <2>3. EventIsLate' /\ BoundSoFar'
    OBVIOUS
  <2>4. SignalsNeverStop'
    OBVIOUS
  <2> QED
    BY <2>1, <2>2, <2>3, <2>4
<1> QED
  BY <1>1, <1>2

\* stop() stage by stage.
LEMMA StopKeepsLifeInv ==
    ASSUME LifeInv, Stop \/ Unbridged \/ Joined \/ JoinTimeout \/ Gathered
    PROVE  LifeInv'
<1> USE LifecycleAssumption
    DEF LifeInv, LifeTypeOK, EventIsLate, BoundSoFar, ClosedOrEarly, SignalsNeverStop,
        Stages, Stopping, Goto, sigVars, gwVars
<1>1. CASE Stop
  BY <1>1 DEF Stop, CloseServers
<1>2. CASE Unbridged
  BY <1>2 DEF Unbridged
<1>3. CASE JoinTimeout
  BY <1>3 DEF JoinTimeout
<1>4. CASE Joined
  BY <1>4 DEF Joined, Finish
<1>5. CASE Gathered
  BY <1>5 DEF Gathered, Finish
<1> QED
  BY <1>1, <1>2, <1>3, <1>4, <1>5

\* The end of the process.
LEMMA ExitKeepsLifeInv ==
    ASSUME LifeInv, MainEnds \/ Kill
    PROVE  LifeInv'
<1>1. PICK stages : Exit(stages)
  BY DEF MainEnds, Kill
<1> QED
  BY <1>1, LifecycleAssumption
  DEF LifeInv, LifeTypeOK, Exit, Goto, EventIsLate, BoundSoFar, ClosedOrEarly,
      SignalsNeverStop, Stages, Stopping

\* Every step keeps the invariant of the life cycle.
LEMMA NextLifeInv == LifeInv /\ [LifeNext]_lifeVars => LifeInv'
<1> SUFFICES ASSUME LifeInv, [LifeNext]_lifeVars PROVE LifeInv'
  OBVIOUS
<1>1. CASE LifeNext
  BY <1>1, StartKeepsLifeInv, SignalKeepsLifeInv, StopKeepsLifeInv, ExitKeepsLifeInv
  DEF LifeNext
<1>2. CASE UNCHANGED lifeVars
  BY <1>2
  DEF lifeVars, procVars, sigVars, gwVars, LifeInv, LifeTypeOK, EventIsLate, BoundSoFar,
      ClosedOrEarly, SignalsNeverStop
<1> QED
  BY <1>1, <1>2

(***************************************************************************)
(* What start(), stop() and the signals guarantee                          *)
(***************************************************************************)
\* The invariant holds in every state of the process.
THEOREM LifeInvHolds == LifeSpec => []LifeInv
BY InitLifeInv, NextLifeInv, PTL DEF LifeSpec

\* Every variable of the process keeps its type: each port is bound once, and
\* no more tasks of _shutdown() are made than signals come.
THEOREM LifeTypeCorrect == LifeSpec => []LifeTypeOK
<1>1. LifeInv => LifeTypeOK
  BY DEF LifeInv
<1> QED
  BY <1>1, LifeInvHolds, PTL

\* stop() leaves no listener open unless a signal came while ports were bound.
THEOREM StopClosesHolds == LifeSpec => []StopCloses
<1>1. LifeInv => StopCloses
  BY DEF LifeInv, ClosedOrEarly, Stopping, StopCloses
<1> QED
  BY <1>1, LifeInvHolds, PTL

\* No signal, whenever it comes, brings the command line program to stop().
THEOREM SignalsNeverStopHolds == LifeSpec => []SignalsNeverStop
<1>1. LifeInv => SignalsNeverStop
  BY DEF LifeInv
<1> QED
  BY <1>1, LifeInvHolds, PTL
================================================================================
