---------------------------- MODULE SequenceFacts ----------------------------
(***************************************************************************)
(* Facts about sequences, and about numbers, that several proofs use.      *)
(***************************************************************************)
EXTENDS Naturals, Sequences, SequencesExt, SequenceTheorems, WellFoundedInduction, TLAPS

\* RemoveAt keeps the type, shortens the sequence by one and adds nothing to it.
LEMMA RemoveAtFacts ==
    ASSUME NEW S, NEW s \in Seq(S), NEW k \in DOMAIN s
    PROVE  /\ RemoveAt(s, k) \in Seq(S)
           /\ Len(RemoveAt(s, k)) = Len(s) - 1
           /\ \A i \in DOMAIN RemoveAt(s, k) : \E j \in DOMAIN s : RemoveAt(s, k)[i] = s[j]
<1> DEFINE p == SubSeq(s, 1, k-1)
           q == SubSeq(s, k+1, Len(s))
<1>1. p \in Seq(S) /\ Len(p) = k - 1 /\ \A i \in 1 .. (k-1) : p[i] = s[i]
  BY SubSeqProperties
<1>2. q \in Seq(S) /\ Len(q) = Len(s) - k
      /\ \A i \in 1 .. (Len(s) - k) : q[i] = s[k + i]
  BY SubSeqProperties
<1>3. RemoveAt(s, k) = p \o q
  BY DEF RemoveAt
<1> HIDE DEF p, q
<1>4. p \o q \in Seq(S) /\ Len(p \o q) = Len(s) - 1
  BY <1>1, <1>2
<1>5. ASSUME NEW i \in DOMAIN (p \o q)
      PROVE  \E j \in DOMAIN s : (p \o q)[i] = s[j]
  <2>1. CASE i <= k - 1
    BY <1>1, <1>2, <1>4, <2>1
  <2>2. CASE i > k - 1
    <3>1. (p \o q)[i] = q[i - (k - 1)] /\ i - (k - 1) \in 1 .. (Len(s) - k)
      BY <1>1, <1>2, <1>4, <2>2
    <3> QED
      BY <1>2, <3>1
  <2> QED
    BY <1>4, <2>1, <2>2
<1> QED
  BY <1>3, <1>4, <1>5

\* Head and Tail take nothing from outside the sequence.
LEMMA TailFacts ==
    ASSUME NEW S, NEW s \in Seq(S), s # <<>>
    PROVE  /\ Tail(s) \in Seq(S)
           /\ Head(s) \in S /\ 1 \in DOMAIN s /\ Head(s) = s[1]
           /\ \A i \in DOMAIN Tail(s) : i + 1 \in DOMAIN s /\ Tail(s)[i] = s[i + 1]
BY HeadTailProperties

\* Append keeps the type, and what is in the longer sequence was there or is new.
LEMMA AppendFacts ==
    ASSUME NEW S, NEW s \in Seq(S), NEW e \in S
    PROVE  /\ Append(s, e) \in Seq(S)
           /\ Len(Append(s, e)) = Len(s) + 1
           /\ \A i \in DOMAIN Append(s, e) :
                 Append(s, e)[i] = e \/ (i \in DOMAIN s /\ Append(s, e)[i] = s[i])
BY AppendProperties

\* RemoveAt takes away one place and keeps all others.
LEMMA RemoveAtKeeps ==
    ASSUME NEW S, NEW s \in Seq(S), NEW k \in DOMAIN s
    PROVE  \A j \in DOMAIN s \ {k} : \E i \in DOMAIN RemoveAt(s, k) : RemoveAt(s, k)[i] = s[j]
<1> DEFINE p == SubSeq(s, 1, k-1)
           q == SubSeq(s, k+1, Len(s))
<1>1. p \in Seq(S) /\ Len(p) = k - 1 /\ \A i \in 1 .. (k-1) : p[i] = s[i]
  BY SubSeqProperties
<1>2. q \in Seq(S) /\ Len(q) = Len(s) - k
      /\ \A i \in 1 .. (Len(s) - k) : q[i] = s[k + i]
  BY SubSeqProperties
<1>3. RemoveAt(s, k) = p \o q
  BY DEF RemoveAt
<1> HIDE DEF p, q
<1>4. p \o q \in Seq(S) /\ Len(p \o q) = Len(s) - 1
  BY <1>1, <1>2
<1>5. ASSUME NEW j \in DOMAIN s, j < k
      PROVE  j \in DOMAIN (p \o q) /\ (p \o q)[j] = s[j]
  BY <1>1, <1>2, <1>4, <1>5
<1>6. ASSUME NEW j \in DOMAIN s, j > k
      PROVE  (j - 1) \in DOMAIN (p \o q) /\ (p \o q)[j - 1] = s[j]
  <2>1. (j - 1) \in DOMAIN (p \o q) /\ (p \o q)[j - 1] = q[j - k]
    BY <1>1, <1>2, <1>4, <1>6
  <2>2. j - k \in 1 .. (Len(s) - k) /\ k + (j - k) = j
    BY <1>6
  <2> QED
    BY <1>2, <2>1, <2>2
<1>7. \A j \in DOMAIN s \ {k} : j \in Nat /\ k \in Nat /\ (j < k \/ j > k)
  OBVIOUS
<1> QED
  BY <1>3, <1>5, <1>6, <1>7

\* A sequence holds nothing but its head and what its tail holds.
LEMMA TailRange ==
    ASSUME NEW S, NEW s \in Seq(S), s # <<>>
    PROVE  Range(s) = {Head(s)} \cup Range(Tail(s))
<1>1. /\ DOMAIN s = 1 .. Len(s) /\ Len(s) \in Nat /\ Len(s) > 0 /\ Head(s) = s[1]
      /\ Len(Tail(s)) = Len(s) - 1 /\ DOMAIN Tail(s) = 1 .. (Len(s) - 1)
      /\ \A i \in 1 .. (Len(s) - 1) : Tail(s)[i] = s[i + 1]
  BY HeadTailProperties, LenProperties, EmptySeq
<1>2. ASSUME NEW i \in DOMAIN s PROVE s[i] \in {Head(s)} \cup Range(Tail(s))
  <2>1. CASE i = 1
    BY <1>1, <2>1
  <2>2. CASE i # 1
    <3>1. i - 1 \in DOMAIN Tail(s) /\ Tail(s)[i - 1] = s[i]
      BY <1>1, <1>2, <2>2
    <3> QED
      BY <3>1 DEF Range
  <2> QED
    BY <2>1, <2>2
<1>3. ASSUME NEW i \in DOMAIN Tail(s) PROVE Tail(s)[i] \in Range(s)
  <2>1. i + 1 \in DOMAIN s /\ Tail(s)[i] = s[i + 1]
    BY <1>1, <1>3
  <2> QED
    BY <2>1 DEF Range
<1>4. Head(s) \in Range(s)
  BY <1>1 DEF Range
<1> QED
  BY <1>2, <1>3, <1>4 DEF Range

\* Appending adds the new element and no other.
LEMMA AppendRange ==
    ASSUME NEW S, NEW s \in Seq(S), NEW e \in S
    PROVE  Range(Append(s, e)) = Range(s) \cup {e}
<1>1. /\ Len(s) \in Nat
      /\ Append(s, e) \in Seq(S) /\ Len(Append(s, e)) = Len(s) + 1
      /\ \A k \in 1 .. Len(s) : Append(s, e)[k] = s[k]
      /\ Append(s, e)[Len(s) + 1] = e
  BY AppendProperties
<1>2. DOMAIN Append(s, e) = 1 .. (Len(s) + 1) /\ DOMAIN s = 1 .. Len(s)
  BY <1>1
<1>3. Range(Append(s, e)) \subseteq Range(s) \cup {e}
  <2> SUFFICES ASSUME NEW k \in 1 .. (Len(s) + 1) PROVE Append(s, e)[k] \in Range(s) \cup {e}
    BY <1>2 DEF Range
  <2>1. CASE k \in 1 .. Len(s)
    BY <1>1, <1>2, <2>1 DEF Range
  <2>2. CASE k = Len(s) + 1
    BY <1>1, <2>2
  <2> QED
    BY <1>1, <2>1, <2>2
<1>4. Range(s) \cup {e} \subseteq Range(Append(s, e))
  BY <1>1, <1>2 DEF Range
<1> QED
  BY <1>3, <1>4

\* The last item of a sequence that was lengthened by one.
LEMMA LastOfConcat ==
    ASSUME NEW S, NEW s \in Seq(S), NEW t \in Seq(S), Len(t) = 1
    PROVE  s \o t # <<>> /\ (s \o t)[Len(s \o t)] = t[1]
<1>1. Len(s) \in Nat
  BY LenProperties
<1>2. Len(s \o t) = Len(s) + Len(t) /\ s \o t \in Seq(S)
  BY ConcatProperties
<1>3. /\ Len(s \o t) = Len(s) + 1 /\ Len(s \o t) \in 1 .. Len(s) + Len(t)
      /\ ~(Len(s \o t) <= Len(s)) /\ Len(s \o t) - Len(s) = 1
  BY <1>1, <1>2
<1>4. (s \o t)[Len(s \o t)] = t[1]
  BY <1>3, ConcatProperties
<1>5. s \o t # <<>>
  BY <1>1, <1>3, EmptySeq
<1> QED
  BY <1>4, <1>5

\* A sequence ends with its head, or as its tail does.
LEMMA LastOfTail ==
    ASSUME NEW S, NEW s \in Seq(S), s # <<>>
    PROVE  /\ Tail(s) = <<>> => Head(s) = s[Len(s)]
           /\ Tail(s) # <<>> => Tail(s)[Len(Tail(s))] = s[Len(s)]
<1>1. Len(s) \in Nat /\ Len(s) >= 1 /\ Head(s) = s[1]
  OBVIOUS
<1>2. /\ Tail(s) \in Seq(S) /\ Len(Tail(s)) = Len(s) - 1
      /\ \A k \in 1 .. Len(Tail(s)) : Tail(s)[k] = s[k + 1]
  BY HeadTailProperties
<1>3. Tail(s) = <<>> => Len(Tail(s)) = 0
  BY EmptySeq
<1>4. CASE Tail(s) = <<>>
  BY <1>1, <1>2, <1>3, <1>4
<1>5. CASE Tail(s) # <<>>
  <2>1. Len(Tail(s)) \in Nat \ {0}
    BY <1>2, <1>5, EmptySeq
  <2>2. Len(Tail(s)) \in 1 .. Len(Tail(s)) /\ Len(Tail(s)) + 1 = Len(s)
    BY <1>1, <1>2, <2>1
  <2> QED
    BY <1>2, <1>5, <2>2
<1> QED
  BY <1>4, <1>5

\* The items of RemoveAt, one by one.
LEMMA RemoveAtItems ==
    ASSUME NEW S, NEW s \in Seq(S), NEW k \in DOMAIN s
    PROVE  /\ DOMAIN RemoveAt(s, k) = 1 .. (Len(s) - 1)
           /\ \A i \in 1 .. (Len(s) - 1) :
                 RemoveAt(s, k)[i] = IF i < k THEN s[i] ELSE s[i + 1]
<1> DEFINE p == SubSeq(s, 1, k-1)
           q == SubSeq(s, k+1, Len(s))
<1>1. p \in Seq(S) /\ Len(p) = k - 1 /\ \A i \in 1 .. (k-1) : p[i] = s[i]
  BY SubSeqProperties
<1>2. q \in Seq(S) /\ Len(q) = Len(s) - k
      /\ \A i \in 1 .. (Len(s) - k) : q[i] = s[k + i]
  BY SubSeqProperties
<1>3. RemoveAt(s, k) = p \o q
  BY DEF RemoveAt
<1> HIDE DEF p, q
<1>4. Len(s) \in Nat /\ k \in 1 .. Len(s)
  BY LenProperties
<1>5. Len(p \o q) = Len(s) - 1 /\ DOMAIN (p \o q) = 1 .. (Len(s) - 1)
  BY <1>1, <1>2, <1>4
<1>7. Len(p) + Len(q) = Len(s) - 1
  BY <1>1, <1>2, <1>4
<1>8. \A i \in 1 .. (Len(s) - 1) : (p \o q)[i] = IF i <= Len(p) THEN p[i] ELSE q[i - Len(p)]
  BY <1>1, <1>2, <1>7, ConcatProperties
<1>6. ASSUME NEW i \in 1 .. (Len(s) - 1)
      PROVE  (p \o q)[i] = IF i < k THEN s[i] ELSE s[i + 1]
  <2>1. CASE i < k
    BY <1>1, <1>2, <1>4, <2>1
  <2>2. CASE ~(i < k)
    <3>. PICK x \in 1 .. (Len(s) - k) : i = x + (k - 1)
      <4>1. i - (k - 1) \in 1 .. (Len(s) - k) /\ i = (i - (k - 1)) + (k - 1)
        BY <1>4, <2>2
      <4> QED
        BY <4>1
    <3>1. ~(i <= Len(p)) /\ i - Len(p) = x /\ k + x = i + 1
      BY <1>1, <1>4, <2>2
    <3>2. (p \o q)[i] = q[x] /\ q[x] = s[k + x]
      BY <1>2, <1>8, <3>1
    <3> QED
      BY <2>2, <3>1, <3>2
  <2> QED
    BY <2>1, <2>2
<1> QED
  BY <1>3, <1>5, <1>6

\* Of a sequence without duplicates, RemoveAt takes exactly the item at its place.
LEMMA RemoveAtDistinct ==
    ASSUME NEW S, NEW s \in Seq(S), NEW k \in DOMAIN s,
           \A i, j \in DOMAIN s : s[i] = s[j] => i = j
    PROVE  /\ \A i, j \in DOMAIN RemoveAt(s, k) : RemoveAt(s, k)[i] = RemoveAt(s, k)[j] => i = j
           /\ Range(RemoveAt(s, k)) = Range(s) \ {s[k]}
<1>. PICK r : r = RemoveAt(s, k)
  OBVIOUS
<1>1. Len(s) \in Nat /\ k \in 1 .. Len(s) /\ DOMAIN s = 1 .. Len(s)
  BY LenProperties
<1>2. /\ DOMAIN r = 1 .. (Len(s) - 1)
      /\ \A i \in 1 .. (Len(s) - 1) : r[i] = IF i < k THEN s[i] ELSE s[i + 1]
  BY RemoveAtItems
<1>3. ASSUME NEW i \in DOMAIN r, NEW j \in DOMAIN r, r[i] = r[j] PROVE i = j
  BY <1>1, <1>2, <1>3
<1>4. ASSUME NEW i \in DOMAIN r PROVE r[i] \in Range(s) \ {s[k]}
  <2>1. \E j \in DOMAIN s : r[i] = s[j] /\ j # k
    BY <1>1, <1>2
  <2> QED
    BY <2>1 DEF Range
<1>5. ASSUME NEW j \in DOMAIN s, s[j] # s[k] PROVE s[j] \in Range(r)
  <2>1. CASE j < k
    <3>1. j \in DOMAIN r /\ r[j] = s[j]
      BY <1>1, <1>2, <2>1
    <3> QED
      BY <3>1 DEF Range
  <2>2. CASE ~(j < k)
    <3>1. j - 1 \in DOMAIN r /\ r[j - 1] = s[j]
      BY <1>1, <1>2, <1>5, <2>2
    <3> QED
      BY <3>1 DEF Range
  <2> QED
    BY <2>1, <2>2
<1> QED
  BY <1>3, <1>4, <1>5 DEF Range

\* Append makes no duplicate of an item that is new.
LEMMA AppendDistinct ==
    ASSUME NEW S, NEW s \in Seq(S), NEW e \in S, e \notin Range(s),
           \A i, j \in DOMAIN s : s[i] = s[j] => i = j
    PROVE  \A i, j \in DOMAIN Append(s, e) : Append(s, e)[i] = Append(s, e)[j] => i = j
<1>. PICK r : r = Append(s, e)
  OBVIOUS
<1>1. /\ Len(s) \in Nat /\ DOMAIN s = 1 .. Len(s) /\ DOMAIN r = 1 .. (Len(s) + 1)
      /\ \A k \in 1 .. Len(s) : r[k] = s[k]
      /\ r[Len(s) + 1] = e
  BY AppendProperties, LenProperties
<1>2. \A k \in 1 .. Len(s) : r[k] # e
  BY <1>1 DEF Range
<1> QED
  BY <1>1, <1>2

\* RemoveAt keeps the order of what is left.
LEMMA RemoveAtOrder ==
    ASSUME NEW S, NEW s \in Seq(S), NEW k \in DOMAIN s,
           NEW i \in DOMAIN RemoveAt(s, k), NEW j \in DOMAIN RemoveAt(s, k), i < j
    PROVE  \E a, b \in DOMAIN s : a < b /\ RemoveAt(s, k)[i] = s[a] /\ RemoveAt(s, k)[j] = s[b]
<1>. PICK r : r = RemoveAt(s, k)
  OBVIOUS
<1>1. Len(s) \in Nat /\ DOMAIN s = 1 .. Len(s)
  BY LenProperties
<1>2. /\ DOMAIN r = 1 .. (Len(s) - 1)
      /\ \A m \in 1 .. (Len(s) - 1) : r[m] = IF m < k THEN s[m] ELSE s[m + 1]
  BY RemoveAtItems
<1>. PICK a \in DOMAIN s : a = IF i < k THEN i ELSE i + 1
  BY <1>1, <1>2
<1>. PICK b \in DOMAIN s : b = IF j < k THEN j ELSE j + 1
  BY <1>1, <1>2
<1>3. r[i] = s[a] /\ r[j] = s[b]
  BY <1>2
<1>4. a < b
  BY <1>1, <1>2
<1> QED
  BY <1>3, <1>4

\* A set of numbers has a least one.
LEMMA LeastNumber ==
    ASSUME NEW T \in SUBSET Nat, T # {}
    PROVE  \E x \in T : \A y \in T : x <= y
<1>1. \E x \in T : \A y \in T : ~(<<y, x>> \in OpToRel(<, Nat))
    BY NatLessThanWellFounded, WFMin
<1>2. PICK x \in T : \A y \in T : ~(<<y, x>> \in OpToRel(<, Nat))
    BY <1>1
<1>3. ASSUME NEW y \in T
      PROVE  x <= y
    <2>1. x \in Nat /\ y \in Nat
        OBVIOUS
    <2>2. ~(<<y, x>> \in OpToRel(<, Nat))
        BY <1>2
    <2>3. ~(y < x)
        BY <2>1, <2>2 DEF OpToRel
    <2> QED BY <2>1, <2>3
<1> QED BY <1>2, <1>3

\* What holds at 0, and at k + 1 whenever it holds at k, holds all the way to L.
LEMMA UpTo ==
    ASSUME NEW L \in Nat, NEW P, 0 \in P, \A k \in 0 .. L : k < L /\ k \in P => k + 1 \in P
    PROVE  \A k \in 0 .. L : k \in P
<1>. PICK T : T = {k \in 0 .. L : k \notin P}
  OBVIOUS
<1> SUFFICES ASSUME T # {} PROVE FALSE
  OBVIOUS
<1>1. T \in SUBSET Nat
  OBVIOUS
<1>2. PICK x \in T : \A y \in T : x <= y
  BY <1>1, LeastNumber
<1>3. x \in 0 .. L /\ x \notin P /\ x # 0
  OBVIOUS
<1>4. x - 1 \in 0 .. L /\ x - 1 < L /\ ~(x <= x - 1) /\ x - 1 + 1 = x
  BY <1>3
<1>5. x - 1 \in P
  BY <1>2, <1>4
<1> QED
  BY <1>3, <1>4, <1>5

\* The results of a loop: each iteration takes that of the one before.
RunOf(f, L, step, r) == f[0] = r /\ \A k \in 1 .. L : f[k] = step[k][f[k - 1]]

LEMMA LoopRuns ==
    ASSUME NEW R, NEW L \in Nat, NEW step \in [1 .. L -> [R -> R]], NEW r \in R
    PROVE  \E f \in [0 .. L -> R] : RunOf(f, L, step, r)
<1> DEFINE Runs(m, f) == f[0] = r /\ \A k \in 1 .. m : f[k] = step[k][f[k - 1]]
           P == {m \in 0 .. L : \E f \in [0 .. L -> R] : Runs(m, f)}
<1>1. 0 \in P
  <2>1. PICK f : f = [k \in 0 .. L |-> r]
    OBVIOUS
  <2>2. f \in [0 .. L -> R] /\ Runs(0, f)
    BY <2>1
  <2> QED
    BY <2>2
<1>2. ASSUME NEW m \in 0 .. L, m < L, m \in P
      PROVE  m + 1 \in P
  <2>1. PICK f \in [0 .. L -> R] : Runs(m, f)
    BY <1>2
  <2>2. PICK h : h = [f EXCEPT ![m + 1] = step[m + 1][f[m]]]
    OBVIOUS
  <2>3. m + 1 \in 1 .. L /\ m \in 0 .. L /\ f[m] \in R
    BY <1>2, <2>1
  <2>4. h \in [0 .. L -> R]
    BY <2>2, <2>3
  <2>5. h[0] = r
    BY <2>1, <2>2, <2>3
  <2>6. ASSUME NEW k \in 1 .. (m + 1) PROVE h[k] = step[k][h[k - 1]]
    <3>0. k - 1 \in 0 .. L /\ k - 1 # m + 1 /\ k \in 0 .. L
      BY <1>2
    <3>1. h[k - 1] = f[k - 1]
      BY <2>2, <3>0
    <3>2. CASE k = m + 1
      BY <2>2, <2>3, <3>1, <3>2
    <3>3. CASE k # m + 1
      <4>1. k \in 1 .. m /\ h[k] = f[k]
        BY <2>2, <3>0, <3>3
      <4> QED
        BY <2>1, <3>1, <4>1
    <3> QED
      BY <3>2, <3>3
  <2> QED
    BY <2>3, <2>4, <2>5, <2>6
<1>3. L \in P
  <2>1. \A k \in 0 .. L : k \in P
    <3> HIDE DEF P
    <3> QED
      BY <1>1, <1>2, UpTo
  <2> QED
    BY <2>1
<1>4. PICK f \in [0 .. L -> R] : Runs(L, f)
  BY <1>3
<1> QED
  BY <1>4 DEF RunOf

\* The places of two sequences put together.
Joined(s, t, u, l, m) ==
    /\ DOMAIN u = 1 .. (l + m) /\ DOMAIN s = 1 .. l /\ DOMAIN t = 1 .. m
    /\ \A k \in 1 .. l : u[k] = s[k]
    /\ \A k \in 1 .. m : u[l + k] = t[k]

LEMMA ConcatItems ==
    ASSUME NEW S, NEW s \in Seq(S), NEW t \in Seq(S)
    PROVE  \E l, m \in Nat : Joined(s, t, s \o t, l, m)
<1>1. Len(s) \in Nat /\ Len(t) \in Nat /\ DOMAIN s = 1 .. Len(s) /\ DOMAIN t = 1 .. Len(t)
  BY LenProperties
<1>. PICK l \in Nat : l = Len(s)
  BY <1>1
<1>. PICK m \in Nat : m = Len(t)
  BY <1>1
<1>2. s \o t \in Seq(S) /\ Len(s \o t) = l + m
  BY ConcatProperties
<1>3. DOMAIN (s \o t) = 1 .. (l + m)
  BY <1>2, LenProperties
<1>4. \A k \in 1 .. l : (s \o t)[k] = s[k]
  BY ConcatProperties
<1>5. \A k \in 1 .. m : (s \o t)[l + k] = t[k]
  BY ConcatProperties
<1> QED
  BY <1>1, <1>3, <1>4, <1>5 DEF Joined

\* A joined sequence holds what its parts hold.
LEMMA ConcatRange ==
    ASSUME NEW S, NEW s \in Seq(S), NEW t \in Seq(S)
    PROVE  Range(s \o t) = Range(s) \cup Range(t)
<1>. PICK u : u = s \o t
  OBVIOUS
<1>. PICK l \in Nat, m \in Nat : Joined(s, t, u, l, m)
  BY ConcatItems
<1>1. ASSUME NEW i \in DOMAIN u PROVE u[i] \in Range(s) \cup Range(t)
  <2>1. CASE i \in 1 .. l
    BY <2>1 DEF Joined, Range
  <2>2. CASE i \notin 1 .. l
    <3>1. i - l \in 1 .. m /\ l + (i - l) = i
      BY <1>1, <2>2 DEF Joined
    <3> QED
      BY <3>1 DEF Joined, Range
  <2> QED
    BY <2>1, <2>2
<1>2. ASSUME NEW i \in DOMAIN s PROVE s[i] \in Range(u)
  <2>1. i \in DOMAIN u /\ u[i] = s[i]
    BY <1>2 DEF Joined
  <2> QED
    BY <2>1 DEF Range
<1>3. ASSUME NEW i \in DOMAIN t PROVE t[i] \in Range(u)
  <2>1. l + i \in DOMAIN u /\ u[l + i] = t[i]
    BY <1>3 DEF Joined
  <2> QED
    BY <2>1 DEF Range
<1>4. Range(u) \subseteq Range(s) \cup Range(t)
  BY <1>1 DEF Range
<1>5. Range(s) \subseteq Range(u) /\ Range(t) \subseteq Range(u)
  BY <1>2, <1>3 DEF Range
<1> QED
  BY <1>4, <1>5

\* Sequences without duplicates that share nothing make one without duplicates.
LEMMA ConcatDistinct ==
    ASSUME NEW S, NEW s \in Seq(S), NEW t \in Seq(S), Range(s) \cap Range(t) = {},
           \A i, j \in DOMAIN s : s[i] = s[j] => i = j,
           \A i, j \in DOMAIN t : t[i] = t[j] => i = j
    PROVE  \A i, j \in DOMAIN (s \o t) : (s \o t)[i] = (s \o t)[j] => i = j
<1>. PICK u : u = s \o t
  OBVIOUS
<1>. PICK l \in Nat, m \in Nat : Joined(s, t, u, l, m)
  BY ConcatItems
<1>1. \A i \in DOMAIN u : i \notin 1 .. l => i - l \in 1 .. m /\ l + (i - l) = i
  BY DEF Joined
<1>2. \A i \in DOMAIN u : i \notin 1 .. l => i - l \in DOMAIN t /\ u[i] = t[i - l]
  BY <1>1 DEF Joined
<1>3. \A i \in 1 .. l : i \in DOMAIN s /\ u[i] = s[i]
  BY DEF Joined
<1>4. \A i \in DOMAIN u : i \in 1 .. l => u[i] \in Range(s)
  BY <1>3 DEF Range
<1>5. \A i \in DOMAIN u : i \notin 1 .. l => u[i] \in Range(t)
  BY <1>2 DEF Range
<1>6. ASSUME NEW i \in DOMAIN u, NEW j \in DOMAIN u, u[i] = u[j] PROVE i = j
  <2>1. i \in Nat /\ j \in Nat
    BY DEF Joined
  <2>2. CASE i \in 1 .. l /\ j \in 1 .. l
    BY <1>3, <1>6, <2>2
  <2>3. CASE i \in 1 .. l /\ j \notin 1 .. l
    BY <1>6, <1>4, <1>5, <2>3
  <2>4. CASE i \notin 1 .. l /\ j \in 1 .. l
    BY <1>6, <1>4, <1>5, <2>4
  <2>5. CASE i \notin 1 .. l /\ j \notin 1 .. l
    <3>1. i - l = j - l
      BY <1>2, <1>6, <2>5
    <3> QED
      BY <2>1, <3>1
  <2> QED
    BY <2>2, <2>3, <2>4, <2>5
<1> QED
  BY <1>6
=============================================================================
