----------------------------- MODULE SeqLemmas -----------------------------
(***************************************************************************)
(* Queues as sequences without repetition: what linking and unlinking do   *)
(* to the elements they hold, and inserting and replacing one.  For the    *)
(* proofs of DispQueue_proofs, Dispatch_proofs, Futex_proofs, and          *)
(* Flock_proofs.                                                           *)
(***************************************************************************)
EXTENDS Integers, Sequences, SequencesExt, SequenceTheorems, TLAPS

\* No element occurs twice.
Injective(s) == \A i, j \in DOMAIN s : s[i] = s[j] => i = j

\* RemoveAt() shortens a sequence by the one element.
LEMMA RemoveAtProperties ==
    ASSUME NEW S, NEW s \in Seq(S), NEW i \in DOMAIN s
    PROVE  /\ RemoveAt(s, i) \in Seq(S)
           /\ Len(RemoveAt(s, i)) = Len(s) - 1
           /\ \A j \in 1 .. Len(s) - 1 :
                  RemoveAt(s, i)[j] = IF j < i THEN s[j] ELSE s[j + 1]
<1> DEFINE a == SubSeq(s, 1, i - 1)
           b == SubSeq(s, i + 1, Len(s))
<1>1. Len(s) \in Nat /\ i \in 1 .. Len(s) /\ \A j \in 1 .. Len(s) : s[j] \in S
  BY LenProperties, ElementOfSeq
<1>2. /\ a \in Seq(S) /\ Len(a) = i - 1
      /\ \A j \in 1 .. i - 1 : a[j] = s[j]
  BY <1>1, SubSeqProperties
<1>3. /\ b \in Seq(S) /\ Len(b) = Len(s) - i
      /\ \A j \in 1 .. Len(s) - i : b[j] = s[i + j]
  BY <1>1, SubSeqProperties
<1>4. RemoveAt(s, i) = a \o b
  BY DEF RemoveAt
<1> HIDE DEF a, b
<1>5. /\ a \o b \in Seq(S) /\ Len(a \o b) = Len(a) + Len(b)
      /\ \A j \in 1 .. Len(a) + Len(b) :
             (a \o b)[j] = IF j <= Len(a) THEN a[j] ELSE b[j - Len(a)]
  BY <1>2, <1>3, ConcatProperties
<1>6. Len(a) + Len(b) = Len(s) - 1
  BY <1>1, <1>2, <1>3
<1>7. ASSUME NEW j \in 1 .. Len(s) - 1
      PROVE  RemoveAt(s, i)[j] = IF j < i THEN s[j] ELSE s[j + 1]
  <2>1. (a \o b)[j] = IF j <= i - 1 THEN a[j] ELSE b[j - (i - 1)]
    BY <1>2, <1>5, <1>6
  <2>2. CASE j < i
    BY <2>1, <2>2, <1>1, <1>2, <1>4
  <2>3. CASE ~ (j < i)
    <3>1. j - (i - 1) \in 1 .. Len(s) - i /\ i + (j - (i - 1)) = j + 1
      BY <2>3, <1>1
    <3>2. b[j - (i - 1)] = s[j + 1]
      BY <3>1, <1>3
    <3>3. ~ (j <= i - 1)
      BY <2>3, <1>1
    <3>4. (a \o b)[j] = s[j + 1]
      BY <2>1, <3>2, <3>3
    <3> QED BY <3>4, <2>3, <1>4
  <2> QED BY <2>2, <2>3
<1> QED
  BY <1>4, <1>5, <1>6, <1>7

Holds(s, x) == \E i \in DOMAIN s : s[i] = x

\* Append() adds one element.
LEMMA AppendHolds ==
    ASSUME NEW S, NEW s \in Seq(S), NEW p \in S
    PROVE  /\ Append(s, p) \in Seq(S)
           /\ \A x : Holds(Append(s, p), x) <=> Holds(s, x) \/ x = p
           /\ Injective(s) /\ ~ Holds(s, p) => Injective(Append(s, p))
<1> DEFINE t == Append(s, p)
<1>1. /\ t \in Seq(S) /\ Len(s) \in Nat
      /\ DOMAIN s = 1 .. Len(s) /\ DOMAIN t = 1 .. Len(s) + 1
      /\ \A i \in 1 .. Len(s) : t[i] = s[i]
      /\ t[Len(s) + 1] = p
  BY AppendProperties, LenProperties
<1> HIDE DEF t
<1>2. \A x : Holds(t, x) <=> Holds(s, x) \/ x = p
  BY <1>1 DEF Holds
<1>3. Injective(s) /\ ~ Holds(s, p) => Injective(t)
  BY <1>1 DEF Holds, Injective
<1> QED BY <1>1, <1>2, <1>3 DEF t

\* So does linking at the head.
LEMMA PrependHolds ==
    ASSUME NEW S, NEW s \in Seq(S), NEW p \in S
    PROVE  /\ << p >> \o s \in Seq(S)
           /\ \A x : Holds(<< p >> \o s, x) <=> Holds(s, x) \/ x = p
           /\ Injective(s) /\ ~ Holds(s, p) => Injective(<< p >> \o s)
<1> DEFINE t == << p >> \o s
<1>1. << p >> \in Seq(S) /\ Len(<< p >>) = 1 /\ << p >>[1] = p
  OBVIOUS
<1>2. /\ t \in Seq(S) /\ Len(s) \in Nat /\ Len(t) = 1 + Len(s)
      /\ DOMAIN s = 1 .. Len(s) /\ DOMAIN t = 1 .. Len(t)
      /\ \A i \in 1 .. 1 + Len(s) : t[i] = IF i <= 1 THEN << p >>[i] ELSE s[i - 1]
  BY <1>1, ConcatProperties, LenProperties
<1> HIDE DEF t
<1>3. t[1] = p /\ \A i \in 1 .. Len(s) : t[i + 1] = s[i]
  BY <1>1, <1>2
<1>4. \A i \in DOMAIN t :
          (i = 1 /\ t[i] = p) \/ (i - 1 \in DOMAIN s /\ t[i] = s[i - 1])
  BY <1>1, <1>2
<1>5. 1 \in DOMAIN t /\ \A j \in DOMAIN s : j + 1 \in DOMAIN t
  BY <1>2
<1>6. \A x : Holds(t, x) => Holds(s, x) \/ x = p
  BY <1>4 DEF Holds
<1>7. \A x : Holds(s, x) \/ x = p => Holds(t, x)
  BY <1>2, <1>3, <1>5 DEF Holds
<1>8. ASSUME Injective(s), ~ Holds(s, p), NEW i \in DOMAIN t, NEW j \in DOMAIN t, t[i] = t[j]
      PROVE  i = j
  <2>1. i \in Int /\ j \in Int
    BY <1>2
  <2>2. CASE i = 1 /\ t[i] = p
    BY <2>2, <1>4, <1>8 DEF Holds
  <2>3. CASE i - 1 \in DOMAIN s /\ t[i] = s[i - 1]
    <3>1. j - 1 \in DOMAIN s /\ t[j] = s[j - 1]
      BY <2>3, <1>4, <1>8 DEF Holds
    <3>2. i - 1 = j - 1
      BY <2>3, <3>1, <1>8 DEF Injective
    <3> QED BY <3>2, <2>1
  <2> QED BY <2>2, <2>3, <1>4
<1>9. Injective(s) /\ ~ Holds(s, p) => Injective(t)
  BY <1>8 DEF Injective
<1> QED BY <1>2, <1>6, <1>7, <1>9 DEF t

\* RemoveAt() takes one element away.
LEMMA RemoveHolds ==
    ASSUME NEW S, NEW s \in Seq(S), NEW i \in DOMAIN s, Injective(s)
    PROVE  /\ RemoveAt(s, i) \in Seq(S)
           /\ \A x : Holds(RemoveAt(s, i), x) <=> Holds(s, x) /\ x # s[i]
           /\ Injective(RemoveAt(s, i))
<1> DEFINE t == RemoveAt(s, i)
<1>1. /\ t \in Seq(S) /\ Len(s) \in Nat
      /\ DOMAIN s = 1 .. Len(s) /\ DOMAIN t = 1 .. Len(s) - 1
      /\ \A j \in 1 .. Len(s) - 1 : t[j] = IF j < i THEN s[j] ELSE s[j + 1]
  BY RemoveAtProperties, LenProperties
<1> HIDE DEF t
<1>2. \A j \in DOMAIN t : \E n \in DOMAIN s \ {i} : t[j] = s[n]
  BY <1>1
<1>3. \A n \in DOMAIN s \ {i} : \E j \in DOMAIN t : t[j] = s[n]
  <2> SUFFICES ASSUME NEW n \in DOMAIN s \ {i} PROVE \E j \in DOMAIN t : t[j] = s[n]
    OBVIOUS
  <2>1. CASE n < i
    BY <2>1, <1>1
  <2>2. CASE n > i
    <3>1. n - 1 \in 1 .. Len(s) - 1 /\ ~ (n - 1 < i) /\ (n - 1) + 1 = n
      BY <2>2, <1>1
    <3> QED BY <3>1, <1>1
  <2> QED BY <2>1, <2>2, <1>1
<1>4. \A x : Holds(t, x) <=> Holds(s, x) /\ x # s[i]
  BY <1>2, <1>3 DEF Holds, Injective
<1>5. Injective(t)
  BY <1>1 DEF Injective
<1> QED BY <1>1, <1>4, <1>5 DEF t

\* InsertAt() puts one element in at place i and moves the rest up.
LEMMA InsertAtProperties ==
    ASSUME NEW S, NEW s \in Seq(S), NEW i \in 1 .. Len(s) + 1, NEW p \in S
    PROVE  /\ InsertAt(s, i, p) \in Seq(S)
           /\ Len(InsertAt(s, i, p)) = Len(s) + 1
           /\ \A j \in 1 .. Len(s) + 1 :
                  InsertAt(s, i, p)[j] = IF j < i THEN s[j] ELSE IF j = i THEN p ELSE s[j - 1]
<1> DEFINE a == SubSeq(s, 1, i - 1)
           b == SubSeq(s, i, Len(s))
<1>1. Len(s) \in Nat /\ i \in Nat /\ \A j \in 1 .. Len(s) : s[j] \in S
  BY LenProperties, ElementOfSeq
<1>2. /\ a \in Seq(S) /\ Len(a) = i - 1
      /\ \A j \in 1 .. i - 1 : a[j] = s[j]
  BY <1>1, SubSeqProperties
<1>3. /\ b \in Seq(S) /\ Len(b) = Len(s) - i + 1
      /\ \A j \in 1 .. Len(s) - i + 1 : b[j] = s[i + j - 1]
  BY <1>1, SubSeqProperties
<1>4. InsertAt(s, i, p) = (a \o << p >>) \o b
  BY DEF InsertAt
<1> HIDE DEF a, b
<1>5. << p >> \in Seq(S) /\ Len(<< p >>) = 1 /\ << p >>[1] = p
  OBVIOUS
<1> DEFINE c == a \o << p >>
<1>6. /\ c \in Seq(S) /\ Len(c) = i
      /\ \A j \in 1 .. i : c[j] = IF j < i THEN s[j] ELSE p
  <2>1. /\ c \in Seq(S) /\ Len(c) = Len(a) + 1
        /\ \A j \in 1 .. Len(a) + 1 : c[j] = IF j <= Len(a) THEN a[j] ELSE << p >>[j - Len(a)]
    BY <1>2, <1>5, ConcatProperties
  <2>2. c[i] = p
    BY <1>1, <1>2, <1>5, <2>1
  <2>3. ASSUME NEW j \in 1 .. i, j < i PROVE c[j] = s[j]
    BY <1>1, <1>2, <2>1, <2>3
  <2> QED BY <1>1, <1>2, <2>1, <2>2, <2>3
<1> HIDE DEF c
<1>7. /\ c \o b \in Seq(S) /\ Len(c \o b) = Len(c) + Len(b)
      /\ \A j \in 1 .. Len(c) + Len(b) :
             (c \o b)[j] = IF j <= Len(c) THEN c[j] ELSE b[j - Len(c)]
  BY <1>3, <1>6, ConcatProperties
<1>8. Len(c) + Len(b) = Len(s) + 1
  BY <1>1, <1>3, <1>6
<1>9. ASSUME NEW j \in 1 .. Len(s) + 1
      PROVE  (c \o b)[j] = IF j < i THEN s[j] ELSE IF j = i THEN p ELSE s[j - 1]
  <2>1. (c \o b)[j] = IF j <= i THEN c[j] ELSE b[j - i]
    BY <1>6, <1>7, <1>8
  <2>2. CASE j <= i
    BY <1>1, <1>6, <2>1, <2>2
  <2>3. CASE ~ (j <= i)
    <3>1. j - i \in 1 .. Len(s) - i + 1 /\ i + (j - i) - 1 = j - 1
      BY <2>3, <1>1
    <3>2. b[j - i] = s[j - 1]
      BY <3>1, <1>3
    <3> QED BY <1>1, <2>1, <2>3, <3>2
  <2> QED BY <2>2, <2>3
<1> QED BY <1>4, <1>7, <1>8, <1>9 DEF c

\* It adds one element.
LEMMA InsertHolds ==
    ASSUME NEW S, NEW s \in Seq(S), NEW i \in 1 .. Len(s) + 1, NEW p \in S
    PROVE  /\ InsertAt(s, i, p) \in Seq(S)
           /\ \A x : Holds(InsertAt(s, i, p), x) <=> Holds(s, x) \/ x = p
           /\ Injective(s) /\ ~ Holds(s, p) => Injective(InsertAt(s, i, p))
<1> DEFINE t == InsertAt(s, i, p)
<1>1. /\ t \in Seq(S) /\ Len(s) \in Nat
      /\ DOMAIN s = 1 .. Len(s) /\ DOMAIN t = 1 .. Len(s) + 1
      /\ \A j \in 1 .. Len(s) + 1 : t[j] = IF j < i THEN s[j] ELSE IF j = i THEN p ELSE s[j - 1]
  <2>1. /\ t \in Seq(S) /\ Len(t) = Len(s) + 1
        /\ \A j \in 1 .. Len(s) + 1 : t[j] = IF j < i THEN s[j] ELSE IF j = i THEN p ELSE s[j - 1]
    BY InsertAtProperties
  <2> HIDE DEF t
  <2> QED BY <2>1, LenProperties
<1> HIDE DEF t
<1>2. t[i] = p /\ \A j \in DOMAIN t : t[j] = p \/ \E n \in DOMAIN s : t[j] = s[n]
  <2>1. t[i] = p
    BY <1>1
  <2>2. ASSUME NEW j \in DOMAIN t, j # i PROVE \E n \in DOMAIN s : t[j] = s[n]
    <3>1. CASE j < i
      BY <1>1, <3>1
    <3>2. CASE j > i
      <4>1. j - 1 \in DOMAIN s /\ t[j] = s[j - 1]
        BY <1>1, <3>2
      <4> QED BY <4>1
    <3> QED BY <1>1, <2>2, <3>1, <3>2
  <2> QED BY <2>1, <2>2
<1>3. ASSUME NEW n \in DOMAIN s PROVE \E j \in DOMAIN t : t[j] = s[n]
  <2>1. CASE n < i
    BY <1>1, <2>1
  <2>2. CASE n >= i
    <3>1. n + 1 \in DOMAIN t /\ ~ (n + 1 < i) /\ n + 1 # i /\ (n + 1) - 1 = n
      BY <1>1, <2>2
    <3> QED BY <1>1, <3>1
  <2> QED BY <1>1, <2>1, <2>2
<1>4. \A x : Holds(t, x) <=> Holds(s, x) \/ x = p
  BY <1>1, <1>2, <1>3 DEF Holds
<1>5. ASSUME Injective(s), ~ Holds(s, p), NEW j \in DOMAIN t, NEW k \in DOMAIN t, t[j] = t[k]
      PROVE  j = k
  <2> DEFINE from(m) == IF m < i THEN m ELSE m - 1
  <2>1. ASSUME NEW m \in DOMAIN t, m # i
        PROVE  from(m) \in DOMAIN s /\ t[m] = s[from(m)] /\ t[m] # p
    BY <1>1, <1>5, <2>1 DEF Holds
  <2>2. CASE j = i \/ k = i
    BY <1>2, <1>5, <2>1, <2>2
  <2>3. CASE j # i /\ k # i
    <3>1. from(j) = from(k)
      BY <1>5, <2>1, <2>3 DEF Injective
    <3> QED BY <1>1, <2>3, <3>1
  <2> QED BY <2>2, <2>3
<1> QED BY <1>1, <1>4, <1>5 DEF Injective, t

\* One element changes.
LEMMA ReplaceHolds ==
    ASSUME NEW S, NEW s \in Seq(S), NEW i \in DOMAIN s, NEW p \in S, Injective(s)
    PROVE  /\ [s EXCEPT ![i] = p] \in Seq(S) /\ Len([s EXCEPT ![i] = p]) = Len(s)
           /\ \A x : Holds([s EXCEPT ![i] = p], x) <=> (Holds(s, x) /\ x # s[i]) \/ x = p
           /\ ~ Holds(s, p) \/ p = s[i] => Injective([s EXCEPT ![i] = p])
<1> DEFINE t == [s EXCEPT ![i] = p]
<1>1. /\ t \in Seq(S) /\ Len(s) \in Nat /\ Len(t) = Len(s)
      /\ DOMAIN s = 1 .. Len(s) /\ DOMAIN t = 1 .. Len(s)
      /\ \A j \in 1 .. Len(s) : t[j] = IF j = i THEN p ELSE s[j]
  BY ExceptSeq, LenProperties
<1> HIDE DEF t
<1>2. \A x : Holds(t, x) <=> (Holds(s, x) /\ x # s[i]) \/ x = p
  BY <1>1 DEF Holds, Injective
<1>3. ~ Holds(s, p) \/ p = s[i] => Injective(t)
  BY <1>1 DEF Holds, Injective
<1> QED BY <1>1, <1>2, <1>3 DEF t

(***************************************************************************)
(* The order of two elements.                                              *)
(***************************************************************************)

\* p stands before q.
Precedes(s, p, q) == \E i, j \in DOMAIN s : i < j /\ s[i] = p /\ s[j] = q

\* Linking at the back keeps the order, and puts the new element behind the others.
LEMMA AppendOrder ==
    ASSUME NEW S, NEW s \in Seq(S), NEW x \in S, NEW p, NEW q
    PROVE  /\ Precedes(s, p, q) => Precedes(Append(s, x), p, q)
           /\ Holds(s, p) => Precedes(Append(s, x), p, x)
<1> DEFINE t == Append(s, x)
<1>1. /\ Len(s) \in Nat /\ DOMAIN s = 1 .. Len(s) /\ DOMAIN t = 1 .. Len(s) + 1
      /\ \A i \in 1 .. Len(s) : t[i] = s[i]
      /\ t[Len(s) + 1] = x
  BY AppendProperties, LenProperties
<1> HIDE DEF t
<1>2. Precedes(s, p, q) => Precedes(t, p, q)
  BY <1>1 DEF Precedes
<1>3. ASSUME NEW i \in DOMAIN s, s[i] = p PROVE Precedes(t, p, x)
  <2>1. i \in DOMAIN t /\ Len(s) + 1 \in DOMAIN t /\ i < Len(s) + 1
    BY <1>1
  <2> QED BY <1>1, <1>3, <2>1 DEF Precedes
<1> QED BY <1>2, <1>3 DEF t, Holds

\* So does linking at the head.
LEMMA PrependOrder ==
    ASSUME NEW S, NEW s \in Seq(S), NEW x \in S, NEW p, NEW q, Precedes(s, p, q)
    PROVE  Precedes(<< x >> \o s, p, q)
<1> DEFINE t == << x >> \o s
<1>1. << x >> \in Seq(S) /\ Len(<< x >>) = 1
  OBVIOUS
<1>2. /\ Len(s) \in Nat /\ Len(t) = 1 + Len(s) /\ t \in Seq(S)
      /\ DOMAIN s = 1 .. Len(s) /\ DOMAIN t = 1 .. Len(t)
      /\ \A i \in 1 .. 1 + Len(s) : t[i] = IF i <= 1 THEN << x >>[i] ELSE s[i - 1]
  BY <1>1, ConcatProperties, LenProperties
<1> HIDE DEF t
<1>3. PICK i, j \in DOMAIN s : i < j /\ s[i] = p /\ s[j] = q
  BY DEF Precedes
<1>4. i + 1 \in DOMAIN t /\ j + 1 \in DOMAIN t /\ i + 1 < j + 1
  BY <1>2, <1>3
<1>5. t[i + 1] = p /\ t[j + 1] = q
  BY <1>2, <1>3
<1> QED BY <1>4, <1>5 DEF Precedes, t

\* Taking another element away keeps it too.
LEMMA RemoveOrder ==
    ASSUME NEW S, NEW s \in Seq(S), NEW n \in DOMAIN s, NEW p, NEW q,
           s[n] # p, s[n] # q, Precedes(s, p, q)
    PROVE  Precedes(RemoveAt(s, n), p, q)
<1> DEFINE t == RemoveAt(s, n)
           To(i) == IF i < n THEN i ELSE i - 1
<1>1. /\ Len(s) \in Nat /\ DOMAIN s = 1 .. Len(s) /\ DOMAIN t = 1 .. Len(s) - 1
      /\ \A j \in 1 .. Len(s) - 1 : t[j] = IF j < n THEN s[j] ELSE s[j + 1]
  BY RemoveAtProperties, LenProperties
<1> HIDE DEF t
<1>2. PICK i, j \in DOMAIN s : i < j /\ s[i] = p /\ s[j] = q
  BY DEF Precedes
<1>3. i # n /\ j # n
  BY <1>2
<1>4. \A m \in DOMAIN s \ {n} : To(m) \in DOMAIN t /\ t[To(m)] = s[m]
  BY <1>1
<1>5. To(i) < To(j)
  BY <1>1, <1>2, <1>3
<1> HIDE DEF To
<1>6. To(i) \in DOMAIN t /\ t[To(i)] = p /\ To(j) \in DOMAIN t /\ t[To(j)] = q
  BY <1>2, <1>3, <1>4
<1> QED BY <1>5, <1>6 DEF Precedes, t
=============================================================================
