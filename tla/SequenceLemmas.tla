--------------------------- MODULE SequenceLemmas ---------------------------
(***************************************************************************)
(* Facts about sequences used as queues and as lists of subscribers: what  *)
(* Append, Tail and RemoveAt keep of the elements.                         *)
(***************************************************************************)
EXTENDS Naturals, SequencesExt, SequenceTheorems, TLAPS

\* A queue gains one element at its end.
LEMMA ToSetAppend ==
    ASSUME NEW S, NEW s \in Seq(S), NEW x \in S
    PROVE  /\ Append(s, x) \in Seq(S) /\ Append(s, x) # <<>>
           /\ Len(Append(s, x)) = Len(s) + 1
           /\ ToSet(Append(s, x)) = ToSet(s) \cup {x}
           /\ \A i \in DOMAIN s : Append(s, x)[i] = s[i]
           /\ Append(s, x)[Len(s) + 1] = x
           /\ DOMAIN Append(s, x) = DOMAIN s \cup {Len(s) + 1}
           /\ Len(s) + 1 \notin DOMAIN s
  <1>1. /\ Append(s, x) \in Seq(S)
        /\ Len(Append(s, x)) = Len(s) + 1
        /\ \A i \in 1..Len(s) : Append(s, x)[i] = s[i]
        /\ Append(s, x)[Len(s) + 1] = x
        /\ Append(s, x) # <<>>
    BY AppendProperties
  <1>2. Len(s) \in Nat /\ DOMAIN s = 1..Len(s) /\ DOMAIN Append(s, x) = 1..(Len(s) + 1)
    BY <1>1, LenProperties
  <1>3. 1..(Len(s) + 1) = 1..Len(s) \cup {Len(s) + 1} /\ Len(s) + 1 \notin 1..Len(s)
    BY <1>2
  <1> QED
    BY <1>1, <1>2, <1>3 DEF ToSet

\* A queue loses its first element, and the others move up.
LEMMA ToSetTail ==
    ASSUME NEW S, NEW s \in Seq(S), s # <<>>
    PROVE  /\ Tail(s) \in Seq(S) /\ Head(s) \in S
           /\ Head(s) = s[1] /\ 1 \in DOMAIN s
           /\ Len(s) \in Nat \ {0} /\ Len(Tail(s)) = Len(s) - 1
           /\ \A i \in 1..(Len(s) - 1) : Tail(s)[i] = s[i + 1]
           /\ DOMAIN s = 1..Len(s) /\ DOMAIN Tail(s) = 1..(Len(s) - 1)
           /\ ToSet(s) = {Head(s)} \cup ToSet(Tail(s))
  <1>1. /\ Tail(s) \in Seq(S) /\ Head(s) \in S /\ Head(s) = s[1]
        /\ Len(Tail(s)) = Len(s) - 1
        /\ \A i \in 1..(Len(s) - 1) : Tail(s)[i] = s[i + 1]
    BY HeadTailProperties
  <1>2. Len(s) \in Nat \ {0} /\ DOMAIN s = 1..Len(s) /\ DOMAIN Tail(s) = 1..(Len(s) - 1)
    BY <1>1, LenProperties, EmptySeq
  <1>3. \A i \in 1..Len(s) : i = 1 \/ (i - 1 \in 1..(Len(s) - 1) /\ i = (i - 1) + 1)
    BY <1>2
  <1>4. \A i \in 1..(Len(s) - 1) : i + 1 \in 1..Len(s)
    BY <1>2
  <1>5. 1 \in 1..Len(s)
    BY <1>2
  <1>6. ToSet(s) = {Head(s)} \cup ToSet(Tail(s))
    <2>1. \A x \in ToSet(s) : x = Head(s) \/ x \in ToSet(Tail(s))
      <3> SUFFICES ASSUME NEW i \in 1..Len(s), i # 1 PROVE s[i] \in ToSet(Tail(s))
        BY <1>1, <1>2 DEF ToSet
      <3>1. i - 1 \in 1..(Len(s) - 1) /\ i = (i - 1) + 1
        BY <1>3
      <3>2. Tail(s)[i - 1] = s[i]
        BY <1>1, <3>1
      <3> QED
        BY <1>2, <3>1, <3>2 DEF ToSet
    <2>2. ToSet(Tail(s)) \subseteq ToSet(s) /\ Head(s) \in ToSet(s)
      BY <1>1, <1>2, <1>4, <1>5 DEF ToSet
    <2> QED
      BY <2>1, <2>2
  <1> QED
    BY <1>1, <1>2, <1>5, <1>6

\* retain drops one element and keeps the order of the rest.
LEMMA RemoveAtFacts ==
    ASSUME NEW S, NEW s \in Seq(S), NEW i \in 1..Len(s)
    PROVE  /\ RemoveAt(s, i) \in Seq(S)
           /\ Len(RemoveAt(s, i)) = Len(s) - 1
           /\ \A j \in i..(Len(s) - 1) : RemoveAt(s, i)[j] = s[j + 1]
           /\ ToSet(RemoveAt(s, i)) \subseteq ToSet(s)
           /\ \A x \in ToSet(s) : x # s[i] => x \in ToSet(RemoveAt(s, i))
  <1> DEFINE n == Len(s)
             f == SubSeq(s, 1, i - 1)
             g == SubSeq(s, i + 1, n)
             r == f \o g
  <1>1. n \in Nat /\ DOMAIN s = 1..n
    BY LenProperties
  <1>2. /\ f \in Seq(S) /\ Len(f) = i - 1 /\ \A j \in 1..(i - 1) : f[j] = s[j]
    <2>1. \A j \in 1..(i - 1) : s[j] \in S
      BY <1>1, ElementOfSeq
    <2> QED
      BY <1>1, <2>1, SubSeqProperties
  <1>3. /\ g \in Seq(S) /\ Len(g) = n - i /\ \A j \in 1..(n - i) : g[j] = s[j + i]
    <2>1. \A j \in (i + 1)..n : s[j] \in S
      BY <1>1, ElementOfSeq
    <2>2. /\ g \in Seq(S) /\ Len(g) = IF i + 1 <= n THEN n - (i + 1) + 1 ELSE 0
          /\ \A j \in 1..(n - (i + 1) + 1) : g[j] = s[(i + 1) + j - 1]
      BY <1>1, <2>1, SubSeqProperties
    <2>3. /\ n - (i + 1) + 1 = n - i /\ (i + 1 <= n \/ n - i = 0)
          /\ \A j \in 1..(n - i) : (i + 1) + j - 1 = j + i
      <3>1. n \in Nat /\ i \in Nat /\ i <= n
        BY <1>1
      <3> HIDE DEF n
      <3> QED
        BY <3>1
    <2>4. \A j \in 1..(n - i) : g[j] = s[j + i]
      <3> SUFFICES ASSUME NEW j \in 1..(n - i) PROVE g[j] = s[j + i]
        OBVIOUS
      <3> HIDE DEF g
      <3>1. j \in 1..(n - (i + 1) + 1) /\ (i + 1) + j - 1 = j + i
        BY <2>3
      <3> QED
        BY <2>2, <3>1
    <2>5. Len(g) = n - i
      <3> HIDE DEF g
      <3> QED
        BY <2>2, <2>3
    <2> QED
      BY <2>2, <2>4, <2>5
  <1>4. /\ r \in Seq(S) /\ Len(r) = n - 1
        /\ \A j \in 1..(n - 1) : r[j] = IF j < i THEN s[j] ELSE s[j + 1]
    <2>1. /\ r \in Seq(S) /\ Len(r) = (i - 1) + (n - i)
          /\ \A j \in 1..((i - 1) + (n - i)) : r[j] = IF j <= i - 1 THEN f[j] ELSE g[j - (i - 1)]
      <3> HIDE DEF f, g
      <3>1. /\ f \o g \in Seq(S) /\ Len(f \o g) = Len(f) + Len(g)
            /\ \A j \in 1..(Len(f) + Len(g)) :
                  (f \o g)[j] = IF j <= Len(f) THEN f[j] ELSE g[j - Len(f)]
        BY <1>2, <1>3, ConcatProperties
      <3> QED
        BY <1>2, <1>3, <3>1
    <2>2. (i - 1) + (n - i) = n - 1
      BY <1>1
    <2>3. ASSUME NEW j \in 1..(n - 1)
          PROVE  r[j] = IF j < i THEN s[j] ELSE s[j + 1]
      <3>1. CASE j < i
        <4>1. j <= i - 1 /\ j \in 1..(i - 1)
          BY <1>1, <3>1
        <4> QED
          BY <1>2, <2>1, <2>2, <3>1, <4>1
      <3>2. CASE ~(j < i)
        <4>1. ~(j <= i - 1) /\ j - (i - 1) \in 1..(n - i) /\ (j - (i - 1)) + i = j + 1
          BY <1>1, <3>2
        <4> QED
          BY <1>3, <2>1, <2>2, <3>2, <4>1
      <3> QED
        BY <3>1, <3>2
    <2> QED
      BY <2>1, <2>2, <2>3
  <1>5. r = RemoveAt(s, i)
    BY DEF RemoveAt
  <1>6. DOMAIN r = 1..(n - 1)
    BY <1>1, <1>4, LenProperties
  <1> HIDE DEF r, n
  <1>7. ToSet(r) \subseteq ToSet(s)
    <2>1. \A j \in 1..(n - 1) : j \in 1..n /\ j + 1 \in 1..n
      BY <1>1
    <2> QED
      BY <1>1, <1>4, <1>6, <2>1 DEF ToSet
  <1>8. \A x \in ToSet(s) : x # s[i] => x \in ToSet(r)
    <2> SUFFICES ASSUME NEW j \in 1..n, j # i PROVE s[j] \in ToSet(r)
      BY <1>1 DEF ToSet
    <2>0. i \in 1..n
      BY DEF n
    <2>1. CASE j < i
      <3>1. j \in 1..(n - 1)
        BY <1>1, <2>0, <2>1
      <3> QED
        BY <1>4, <1>6, <2>1, <3>1 DEF ToSet
    <2>2. CASE j > i
      <3>1. j - 1 \in 1..(n - 1) /\ ~(j - 1 < i) /\ (j - 1) + 1 = j
        BY <1>1, <2>0, <2>2
      <3>2. r[j - 1] = s[j]
        BY <1>4, <3>1
      <3> QED
        BY <1>6, <3>1, <3>2 DEF ToSet
    <2> QED
      BY <1>1, <2>0, <2>1, <2>2
  <1>9. \A j \in i..(n - 1) : r[j] = s[j + 1]
    <2>1. \A j \in i..(n - 1) : j \in 1..(n - 1) /\ ~(j < i)
      BY <1>1 DEF n
    <2> QED
      BY <1>4, <2>1
  <1> QED
    BY <1>4, <1>5, <1>7, <1>8, <1>9 DEF n

\* A queue without duplicates loses its head, and nothing else.
LEMMA DistinctTail ==
    ASSUME NEW S, NEW s \in Seq(S), s # <<>>,
           \A i, j \in DOMAIN s : s[i] = s[j] => i = j
    PROVE  /\ \A i, j \in DOMAIN Tail(s) : Tail(s)[i] = Tail(s)[j] => i = j
           /\ \A x \in S : (\E i \in DOMAIN Tail(s) : Tail(s)[i] = x)
                          <=> (\E i \in DOMAIN s : s[i] = x) /\ x # Head(s)
  <1>1. /\ Head(s) = s[1] /\ 1 \in DOMAIN s /\ Len(s) \in Nat \ {0}
        /\ \A i \in 1..(Len(s) - 1) : Tail(s)[i] = s[i + 1]
        /\ DOMAIN s = 1..Len(s) /\ DOMAIN Tail(s) = 1..(Len(s) - 1)
    BY ToSetTail
  <1>2. \A i \in DOMAIN Tail(s) : i + 1 \in DOMAIN s /\ i + 1 # 1 /\ Tail(s)[i] = s[i + 1]
    BY <1>1
  <1>3. ASSUME NEW i \in DOMAIN s, i # 1
        PROVE  i - 1 \in DOMAIN Tail(s) /\ Tail(s)[i - 1] = s[i]
    <2>1. i - 1 \in 1..(Len(s) - 1) /\ (i - 1) + 1 = i
      BY <1>1, <1>3
    <2> QED
      BY <1>1, <2>1
  <1>4. ASSUME NEW i \in DOMAIN Tail(s), NEW j \in DOMAIN Tail(s), Tail(s)[i] = Tail(s)[j]
        PROVE  i = j
    <2>1. i + 1 = j + 1
      BY <1>2, <1>4
    <2> QED
      BY <1>1, <2>1
  <1>5. ASSUME NEW x \in S
        PROVE  (\E i \in DOMAIN Tail(s) : Tail(s)[i] = x)
                 <=> (\E i \in DOMAIN s : s[i] = x) /\ x # Head(s)
    <2>1. ASSUME NEW i \in DOMAIN Tail(s), Tail(s)[i] = x
          PROVE  (\E k \in DOMAIN s : s[k] = x) /\ x # Head(s)
      BY <1>1, <1>2, <2>1
    <2>2. ASSUME NEW i \in DOMAIN s, s[i] = x, x # Head(s)
          PROVE  \E k \in DOMAIN Tail(s) : Tail(s)[k] = x
      BY <1>1, <1>3, <2>2
    <2> QED
      BY <2>1, <2>2
  <1> QED
    BY <1>4, <1>5
=============================================================================
