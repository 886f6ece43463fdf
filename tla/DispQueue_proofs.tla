-------------------------- MODULE DispQueue_proofs --------------------------
(***************************************************************************)
(* What the routines of DispQueue do to a well-formed queue state: lemmas  *)
(* for the proofs about Dispatch.                                          *)
(***************************************************************************)
EXTENDS DispQueue, SeqLemmas, FiniteSetTheorems, SequenceTheorems, WellFoundedInduction, TLAPS

(***************************************************************************)
(* Bitmaps and sequences.                                                  *)
(***************************************************************************)

\* A non-empty bitmap has a highest bit, and bt_gethighbit() returns it.
LEMMA HighBit ==
    ASSUME NEW bits \in SUBSET Pri, bits # {}
    PROVE  /\ bt_gethighbit(bits) \in bits
           /\ \A j \in bits : j <= bt_gethighbit(bits)
<1> DEFINE down == {MaxPri - b : b \in bits}
<1>1. \A b \in bits : b \in Int /\ 0 <= b /\ b <= MaxPri
  BY MaxPriAssumption DEF Pri
<1>2. \A b \in bits : MaxPri - b \in Nat
  BY <1>1, MaxPriAssumption
<1>3. down \subseteq Nat /\ down # {}
  BY <1>2
<1>4. PICK x \in down : \A y \in down : ~ (<< y, x >> \in OpToRel(<, Nat))
  <2> HIDE DEF down
  <2> QED BY <1>3, NatLessThanWellFounded, WFMin
<1>5. \A y \in down : ~ (y < x)
  BY <1>3, <1>4 DEF OpToRel
<1>6. PICK b \in bits : x = MaxPri - b
  OBVIOUS
<1>7. ASSUME NEW j \in bits PROVE j <= b
  <2>1. MaxPri - j \in down
    OBVIOUS
  <2>2. ~ (MaxPri - j < MaxPri - b)
    BY <2>1, <1>5, <1>6
  <2> QED BY <2>2, <1>1, MaxPriAssumption
<1> QED
  BY <1>7 DEF bt_gethighbit

(***************************************************************************)
(* dq_sruninc() and dq_srundec() keep the counts and the bitmap in step    *)
(* with the sets of processes they count: at[k] at priority k, all on the  *)
(* queues together.                                                        *)
(***************************************************************************)
CountedAs(d, at, all) ==
    /\ \A k \in Pri : /\ d.cnt[k] = Cardinality(at[k])
                      /\ k \in d.act <=> d.cnt[k] > 0
    /\ d.run = Cardinality(all)
    /\ d.max = IF d.act = {} THEN -1 ELSE bt_gethighbit(d.act)

\* The highest bit is the only one that no other exceeds.
LEMMA HighBitUnique ==
    ASSUME NEW bits \in SUBSET Pri, NEW k \in bits, \A j \in bits : j <= k
    PROVE  bt_gethighbit(bits) = k
<1>1. \A j \in bits : j \in Int
  BY MaxPriAssumption DEF Pri
<1>2. /\ bt_gethighbit(bits) \in bits
      /\ \A j \in bits : j <= bt_gethighbit(bits)
  BY HighBit
<1> QED
  BY <1>1, <1>2

\* dq_sruninc() when p becomes one of those counted at priority k.
LEMMA IncCounted ==
    ASSUME IsFiniteSet(Proc), NEW d \in Dispq, NEW k \in Pri, NEW p \in Proc,
           NEW at \in [Pri -> SUBSET Proc], NEW all \in SUBSET Proc,
           CountedAs(d, at, all), p \notin at[k], p \notin all
    PROVE  /\ dq_sruninc(d, k) \in Dispq
           /\ dq_sruninc(d, k).q = d.q
           /\ CountedAs(dq_sruninc(d, k), [at EXCEPT ![k] = @ \cup {p}], all \cup {p})
<1> DEFINE e == dq_sruninc(d, k)
           at2 == [at EXCEPT ![k] = @ \cup {p}]
<1>1. \A m \in Pri : IsFiniteSet(at[m]) /\ Cardinality(at[m]) \in Nat
  BY FS_Subset, FS_CardinalityType
<1>2. IsFiniteSet(all) /\ Cardinality(all) \in Nat
  BY FS_Subset, FS_CardinalityType
<1>3. /\ Cardinality(at2[k]) = Cardinality(at[k]) + 1
      /\ \A m \in Pri \ {k} : Cardinality(at2[m]) = Cardinality(at[m])
  BY <1>1, FS_AddElement
<1>4. Cardinality(all \cup {p}) = Cardinality(all) + 1
  BY <1>2, FS_AddElement
<1>5. /\ e.q = d.q /\ e.run = d.run + 1
      /\ e.cnt = [d.cnt EXCEPT ![k] = @ + 1]
      /\ e.act = IF d.cnt[k] = 0 THEN d.act \cup {k} ELSE d.act
      /\ e.max = IF d.cnt[k] = 0 /\ k > d.max THEN k ELSE d.max
  BY DEF dq_sruninc
<1>6. e \in Dispq
  BY DEF Dispq, dq_sruninc
<1> HIDE DEF e
<1>7. \A m \in Pri : e.cnt[m] = Cardinality(at2[m]) /\ (m \in e.act <=> e.cnt[m] > 0)
  BY <1>1, <1>3, <1>5 DEF CountedAs, Dispq
<1>8. e.run = Cardinality(all \cup {p})
  BY <1>4, <1>5 DEF CountedAs
<1>9. e.max = IF e.act = {} THEN -1 ELSE bt_gethighbit(e.act)
  <2>1. CASE d.cnt[k] # 0
    <3>1. e.act = d.act /\ e.max = d.max
      BY <1>5, <2>1
    <3> QED BY <3>1 DEF CountedAs
  <2>2. CASE d.cnt[k] = 0
    <3>1. e.act = d.act \cup {k} /\ e.act \in SUBSET Pri /\ k \in e.act
      BY <1>5, <2>2 DEF Dispq
    <3>2. \A j \in d.act : j \in Int /\ 0 <= j /\ j <= d.max
      <4>1. \A j \in d.act : j \in Int /\ 0 <= j
        BY MaxPriAssumption DEF Dispq, Pri
      <4>2. d.act \in SUBSET Pri
        BY DEF Dispq
      <4>3. ASSUME NEW j \in d.act PROVE j <= d.max
        BY <4>2, HighBit DEF CountedAs
      <4> QED BY <4>1, <4>3
    <3>3. k \in Int /\ 0 <= k /\ d.max \in Int
      BY MaxPriAssumption DEF Dispq, Pri
    <3>4. CASE k > d.max
      <4>1. e.max = k /\ \A j \in e.act : j <= k
        BY <1>5, <2>2, <3>1, <3>2, <3>3, <3>4
      <4> QED BY <3>1, <4>1, HighBitUnique
    <3>5. CASE ~ (k > d.max)
      <4>1. d.act # {} /\ d.max = bt_gethighbit(d.act)
        BY <3>3, <3>5 DEF CountedAs
      <4>2. d.max \in e.act /\ \A j \in e.act : j <= d.max
        <5>1. d.act \in SUBSET Pri /\ d.max \in d.act
          BY <4>1, HighBit DEF Dispq
        <5> QED BY <3>1, <3>2, <3>3, <3>5, <5>1
      <4>3. e.max = d.max
        BY <1>5, <3>5
      <4> QED BY <3>1, <4>2, <4>3, HighBitUnique
    <3> QED BY <3>4, <3>5
  <2> QED BY <2>1, <2>2
<1>10. CountedAs(e, at2, all \cup {p})
  <2> HIDE DEF at2
  <2> QED BY <1>7, <1>8, <1>9 DEF CountedAs
<1> QED
  BY <1>5, <1>6, <1>10 DEF e

\* The type of dq_sruninc(), which leaves the links alone.
LEMMA IncType ==
    ASSUME NEW d \in Dispq, NEW k \in Pri
    PROVE  dq_sruninc(d, k) \in Dispq /\ dq_sruninc(d, k).q = d.q
  BY DEF dq_sruninc, Dispq

\* dq_srundec() when p, counted at priority k only, is counted no more.
LEMMA DecCounted ==
    ASSUME IsFiniteSet(Proc), NEW d \in Dispq, NEW k \in Pri, NEW p \in Proc,
           NEW at \in [Pri -> SUBSET Proc], NEW all \in SUBSET Proc,
           CountedAs(d, at, all), p \in at[k],
           \A m \in Pri \ {k} : p \notin at[m],
           \A x \in Proc : x \in all <=> \E m \in Pri : x \in at[m]
    PROVE  /\ dq_srundec(d, k) \in Dispq
           /\ dq_srundec(d, k).q = d.q
           /\ CountedAs(dq_srundec(d, k), [at EXCEPT ![k] = @ \ {p}], all \ {p})
<1> DEFINE e == dq_srundec(d, k)
           at2 == [at EXCEPT ![k] = @ \ {p}]
<1>1. \A m \in Pri : IsFiniteSet(at[m]) /\ Cardinality(at[m]) \in Nat
  BY FS_Subset, FS_CardinalityType
<1>2. IsFiniteSet(all) /\ Cardinality(all) \in Nat
  BY FS_Subset, FS_CardinalityType
<1>3. /\ Cardinality(at2[k]) = Cardinality(at[k]) - 1
      /\ \A m \in Pri \ {k} : Cardinality(at2[m]) = Cardinality(at[m])
  BY <1>1, FS_RemoveElement
<1>4. Cardinality(all \ {p}) = Cardinality(all) - 1
  BY <1>2, FS_RemoveElement
<1>5. /\ e.q = d.q /\ e.run = d.run - 1
      /\ e.cnt = [d.cnt EXCEPT ![k] = @ - 1]
      /\ e.act = IF d.cnt[k] = 1 THEN d.act \ {k} ELSE d.act
      /\ e.max = IF d.cnt[k] # 1 THEN d.max
                 ELSE IF d.run = 1 THEN -1
                 ELSE IF k = d.max THEN bt_gethighbit(d.act \ {k})
                 ELSE d.max
  BY DEF dq_srundec
<1>6. \A m \in Pri : e.cnt[m] = Cardinality(at2[m]) /\ (m \in e.act <=> e.cnt[m] > 0)
  <2>1. d.cnt[k] \in Nat \ {0}
    BY <1>1, FS_EmptySet DEF CountedAs
  <2> QED BY <2>1, <1>1, <1>3, <1>5 DEF CountedAs, Dispq
<1>7. e.run = Cardinality(all \ {p})
  BY <1>4, <1>5 DEF CountedAs
<1>8. d.act \in SUBSET Pri /\ k \in d.act
  BY <1>1, FS_EmptySet DEF CountedAs, Dispq
<1>9. /\ e.max = IF e.act = {} THEN -1 ELSE bt_gethighbit(e.act)
      /\ e.max \in Pri \cup {-1}
  <2>1. CASE d.cnt[k] # 1
    BY <2>1, <1>5 DEF CountedAs, Dispq
  <2>2. CASE d.cnt[k] = 1 /\ d.run = 1
    <3>1. all = {p}
      <4>1. p \in all
        OBVIOUS
      <4>2. Cardinality(all) = 1
        BY <2>2 DEF CountedAs
      <4>3. PICK x : all = {x}
        BY <4>2, <1>2, FS_Singleton
      <4> QED BY <4>1, <4>3
    <3>2. \A m \in Pri \ {k} : at[m] = {}
      BY <3>1
    <3>3. \A m \in Pri \ {k} : m \notin d.act
      BY <3>2, FS_EmptySet DEF CountedAs
    <3>4. e.act = {}
      BY <3>3, <2>2, <1>5, <1>8
    <3> QED BY <3>4, <2>2, <1>5
  <2>3. CASE d.cnt[k] = 1 /\ d.run # 1
    <3>1. e.act = d.act \ {k} /\ e.act \in SUBSET Pri
      BY <2>3, <1>5, <1>8
    <3>2. PICK x \in all : x # p
      BY <2>3, <1>2, FS_Singleton DEF CountedAs
    <3>3. PICK m \in Pri : x \in at[m]
      BY <3>2
    <3>4. m # k
      BY <3>2, <3>3, <2>3, <1>1, FS_Singleton DEF CountedAs
    <3>5. m \in e.act
      BY <3>1, <3>3, <3>4, <1>1, FS_EmptySet DEF CountedAs
    <3>6. CASE k = d.max
      BY <3>1, <3>5, <3>6, <2>3, <1>5, HighBit
    <3>7. CASE k # d.max
      <4>1. d.max = bt_gethighbit(d.act)
        BY <1>8 DEF CountedAs
      <4>2. d.max \in d.act /\ \A j \in d.act : j <= d.max
        BY <4>1, <1>8, HighBit
      <4>3. d.max \in e.act /\ \A j \in e.act : j <= d.max
        BY <4>2, <3>1, <3>7
      <4>4. e.max = d.max
        BY <3>7, <2>3, <1>5
      <4>5. bt_gethighbit(e.act) = d.max
        BY <4>3, <3>1, HighBitUnique
      <4> QED BY <4>3, <4>4, <4>5, <3>1
    <3> QED BY <3>6, <3>7
  <2> QED BY <2>1, <2>2, <2>3
<1>10. e \in Dispq
  <2>1. /\ e = [q |-> e.q, cnt |-> e.cnt, run |-> e.run, act |-> e.act, max |-> e.max]
    BY DEF dq_srundec
  <2>2. /\ e.q \in [Pri -> Seq(Proc)] /\ e.cnt \in [Pri -> Int] /\ e.run \in Int
        /\ e.act \in SUBSET Pri
    BY <1>5 DEF Dispq
  <2> HIDE DEF e
  <2> QED BY <2>1, <2>2, <1>9 DEF Dispq
<1>11. CountedAs(e, at2, all \ {p})
  <2> HIDE DEF e, at2
  <2> QED BY <1>6, <1>7, <1>9 DEF CountedAs
<1> QED
  BY <1>5, <1>10, <1>11

(***************************************************************************)
(* The routines on a queue state whose counts and bitmap are right and     *)
(* where no process is linked twice, ok being the schedulable processes.   *)
(***************************************************************************)
Sound(d, ok) == d \in Dispq /\ Distinct(d) /\ Counted(d, ok)

At(d, ok) == [m \in Pri |-> {x \in ok : OnQueue(d, x, m)}]
All(d, ok) == {x \in ok : OnSome(d, x)}

\* Counted() in terms of the two families of sets.
LEMMA CountedIsCountedAs ==
    ASSUME NEW d, NEW ok
    PROVE  Counted(d, ok) <=> CountedAs(d, At(d, ok), All(d, ok))
  BY DEF Counted, CountedAs, At, All

\* The sets of schedulable processes are finite sets of processes.
LEMMA AtType ==
    ASSUME NEW d, NEW ok \in SUBSET Proc
    PROVE  /\ At(d, ok) \in [Pri -> SUBSET Proc] /\ All(d, ok) \in SUBSET Proc
           /\ \A x \in Proc : x \in All(d, ok) <=> \E m \in Pri : x \in At(d, ok)[m]
  BY DEF At, All, OnSome

\* A process is on one queue at most.
LEMMA OneQueue ==
    ASSUME NEW d, Distinct(d), NEW x, NEW k \in Pri, NEW m \in Pri,
           OnQueue(d, x, k), OnQueue(d, x, m)
    PROVE  k = m
  BY DEF Distinct, OnQueue

\* The link half of setbackdq() and setfrontdq(): the queue of priority k gains
\* p, which was on none, wherever in it that is.
LEMMA LinkCounted ==
    ASSUME IsFiniteSet(Proc), NEW ok \in SUBSET Proc, NEW d, Sound(d, ok),
           NEW e \in Dispq, NEW k \in Pri, NEW p \in Proc, ~ OnSome(d, p),
           e.cnt = d.cnt, e.run = d.run, e.act = d.act, e.max = d.max,
           \A x \in Proc, m \in Pri :
               OnQueue(e, x, m) <=> OnQueue(d, x, m) \/ (x = p /\ m = k)
    PROVE  Counted(IF p \in ok THEN dq_sruninc(e, k) ELSE e, ok)
<1> DEFINE f == dq_sruninc(e, k)
<1>1. CountedAs(e, At(d, ok), All(d, ok))
  <2>1. CountedAs(d, At(d, ok), All(d, ok))
    BY CountedIsCountedAs DEF Sound
  <2> QED BY <2>1 DEF CountedAs
<1>2. CASE p \in ok
  <2>1. p \notin At(d, ok)[k] /\ p \notin All(d, ok)
    BY DEF At, All, OnSome
  <2>2. /\ f.q = e.q
        /\ CountedAs(f, [At(d, ok) EXCEPT ![k] = @ \cup {p}], All(d, ok) \cup {p})
    BY <1>1, <2>1, AtType, IncCounted
  <2>3. \A x \in Proc, m \in Pri : OnQueue(f, x, m) <=> OnQueue(e, x, m)
    BY <2>2 DEF OnQueue
  <2>4. At(f, ok) = [At(d, ok) EXCEPT ![k] = @ \cup {p}]
    <3>1. \A x \in ok, m \in Pri :
              OnQueue(f, x, m) <=> OnQueue(d, x, m) \/ (x = p /\ m = k)
      BY <2>3
    <3>2. \A m \in Pri : {x \in ok : OnQueue(f, x, m)} =
              IF m = k THEN {x \in ok : OnQueue(d, x, m)} \cup {p}
              ELSE {x \in ok : OnQueue(d, x, m)}
      BY <1>2, <3>1
    <3> QED BY <3>2 DEF At
  <2>5. All(f, ok) = All(d, ok) \cup {p}
    BY <1>2, <2>3 DEF All, OnSome
  <2> QED BY <1>2, <2>2, <2>4, <2>5, CountedIsCountedAs
<1>3. CASE p \notin ok
  <2>1. At(e, ok) = At(d, ok) /\ All(e, ok) = All(d, ok)
    BY <1>3 DEF At, All, OnSome
  <2> QED BY <1>1, <1>3, <2>1, CountedIsCountedAs
<1> QED BY <1>2, <1>3

\* The same of dispdeq(): the queue of priority k loses p.
LEMMA UnlinkCounted ==
    ASSUME IsFiniteSet(Proc), NEW ok \in SUBSET Proc, NEW d, Sound(d, ok),
           NEW e \in Dispq, NEW k \in Pri, NEW p \in Proc, OnQueue(d, p, k),
           e.cnt = d.cnt, e.run = d.run, e.act = d.act, e.max = d.max,
           \A x \in Proc, m \in Pri : OnQueue(e, x, m) <=> OnQueue(d, x, m) /\ x # p
    PROVE  /\ Counted(IF p \in ok THEN dq_srundec(e, k) ELSE e, ok)
           /\ (IF p \in ok THEN dq_srundec(e, k) ELSE e) \in Dispq
<1> DEFINE f == dq_srundec(e, k)
<1>1. CountedAs(e, At(d, ok), All(d, ok))
  <2>1. CountedAs(d, At(d, ok), All(d, ok))
    BY CountedIsCountedAs DEF Sound
  <2> QED BY <2>1 DEF CountedAs
<1>2. CASE p \in ok
  <2>1. p \in At(d, ok)[k] /\ \A m \in Pri \ {k} : p \notin At(d, ok)[m]
    BY <1>2, OneQueue DEF At, Sound
  <2>2. /\ f \in Dispq /\ f.q = e.q
        /\ CountedAs(f, [At(d, ok) EXCEPT ![k] = @ \ {p}], All(d, ok) \ {p})
    BY <1>1, <2>1, AtType, DecCounted
  <2>3. \A x \in Proc, m \in Pri : OnQueue(f, x, m) <=> OnQueue(e, x, m)
    BY <2>2 DEF OnQueue
  <2>4. At(f, ok) = [At(d, ok) EXCEPT ![k] = @ \ {p}]
    <3>1. \A m \in Pri : At(f, ok)[m] = At(d, ok)[m] \ {p}
      BY <2>3 DEF At
    <3>2. ASSUME NEW m \in Pri \ {k} PROVE At(f, ok)[m] = At(d, ok)[m]
      <4>1. p \notin At(d, ok)[m] /\ At(f, ok)[m] = At(d, ok)[m] \ {p}
        BY <3>1, <2>1
      <4> QED BY <4>1, Zenon
    <3>3. At(f, ok) = [m \in Pri |-> At(f, ok)[m]]
      BY DEF At
    <3> QED BY <3>1, <3>2, <3>3, AtType
  <2>5. All(f, ok) = All(d, ok) \ {p}
    BY <2>3 DEF All, OnSome
  <2> QED BY <1>2, <2>2, <2>4, <2>5, CountedIsCountedAs
<1>3. CASE p \notin ok
  <2>1. At(e, ok) = At(d, ok) /\ All(e, ok) = All(d, ok)
    BY <1>3 DEF At, All, OnSome
  <2> QED BY <1>1, <1>3, <2>1, CountedIsCountedAs
<1> QED BY <1>2, <1>3

\* Distinct() a queue at a time.
LEMMA DistinctByQueue ==
    ASSUME NEW d
    PROVE  Distinct(d) <=>
               /\ \A m \in Pri : Injective(d.q[m])
               /\ \A x : \A k, m \in Pri : OnQueue(d, x, k) /\ OnQueue(d, x, m) => k = m
<1>1. ASSUME Distinct(d)
      PROVE  /\ \A m \in Pri : Injective(d.q[m])
             /\ \A x : \A k, m \in Pri : OnQueue(d, x, k) /\ OnQueue(d, x, m) => k = m
  BY <1>1 DEF Distinct, Injective, OnQueue
<1>2. ASSUME \A m \in Pri : Injective(d.q[m]),
             \A x : \A k, m \in Pri : OnQueue(d, x, k) /\ OnQueue(d, x, m) => k = m
      PROVE  Distinct(d)
  <2> SUFFICES ASSUME NEW k \in Pri, NEW m \in Pri,
                      NEW i \in DOMAIN d.q[k], NEW j \in DOMAIN d.q[m],
                      d.q[k][i] = d.q[m][j]
               PROVE  k = m /\ i = j
    BY DEF Distinct
  <2>1. OnQueue(d, d.q[k][i], k) /\ OnQueue(d, d.q[k][i], m)
    BY DEF OnQueue
  <2>2. k = m
    BY <2>1, <1>2
  <2> QED BY <2>2, <1>2 DEF Injective
<1> QED BY <1>1, <1>2

\* A queue state e whose queue k holds what it held in d, and p, which was
\* on none.
Gains(d, e, k, p) ==
    /\ Distinct(d) /\ ~ OnSome(d, p)
    /\ \A m \in Pri \ {k} : e.q[m] = d.q[m]
    /\ Injective(e.q[k])
    /\ \A x : OnQueue(e, x, k) <=> OnQueue(d, x, k) \/ x = p

\* Linking a process on one queue leaves the queues distinct.
LEMMA Linked ==
    ASSUME NEW d, NEW e, NEW k \in Pri, NEW p, Gains(d, e, k, p)
    PROVE  /\ Distinct(e)
           /\ \A x : \A m \in Pri :
                  OnQueue(e, x, m) <=> OnQueue(d, x, m) \/ (x = p /\ m = k)
<1>1. \A x : \A m \in Pri \ {k} : OnQueue(e, x, m) <=> OnQueue(d, x, m)
  BY DEF Gains, OnQueue
<1>2. \A x : \A m \in Pri : OnQueue(e, x, m) <=> OnQueue(d, x, m) \/ (x = p /\ m = k)
  BY <1>1 DEF Gains
<1>3. \A m \in Pri : Injective(d.q[m])
  BY DistinctByQueue DEF Gains
<1>4. \A m \in Pri : Injective(e.q[m])
  BY <1>3 DEF Gains
<1>5. \A x : \A m, n \in Pri : OnQueue(e, x, m) /\ OnQueue(e, x, n) => m = n
  BY <1>2, DistinctByQueue DEF Gains, OnSome
<1> QED BY <1>2, <1>4, <1>5, DistinctByQueue

\* A queue state e whose queue k holds what it held in d, but not p.
Loses(d, e, k, p) ==
    /\ Distinct(d) /\ OnQueue(d, p, k)
    /\ \A m \in Pri \ {k} : e.q[m] = d.q[m]
    /\ Injective(e.q[k])
    /\ \A x : OnQueue(e, x, k) <=> OnQueue(d, x, k) /\ x # p

\* Unlinking a process leaves the queues distinct.
LEMMA Unlinked ==
    ASSUME NEW d, NEW e, NEW k \in Pri, NEW p, Loses(d, e, k, p)
    PROVE  /\ Distinct(e)
           /\ \A x : \A m \in Pri : OnQueue(e, x, m) <=> OnQueue(d, x, m) /\ x # p
<1>1. \A x : \A m \in Pri \ {k} : OnQueue(e, x, m) <=> OnQueue(d, x, m)
  BY DEF Loses, OnQueue
<1>2. \A m \in Pri \ {k} : ~ OnQueue(d, p, m)
  BY OneQueue DEF Loses
<1>3. \A x : \A m \in Pri : OnQueue(e, x, m) <=> OnQueue(d, x, m) /\ x # p
  BY <1>1, <1>2 DEF Loses
<1>4. \A m \in Pri : Injective(d.q[m])
  BY DistinctByQueue DEF Loses
<1>5. \A m \in Pri : Injective(e.q[m])
  BY <1>4 DEF Loses
<1>6. \A x : \A m, n \in Pri : OnQueue(e, x, m) /\ OnQueue(e, x, n) => m = n
  BY <1>3, DistinctByQueue DEF Loses
<1> QED BY <1>3, <1>5, <1>6, DistinctByQueue

(***************************************************************************)
(* The routines: each keeps a sound queue state sound, and moves the one   *)
(* process it is given.                                                    *)
(***************************************************************************)
Joined(d, e, p, k) ==
    \A x : \A m \in Pri : OnQueue(e, x, m) <=> OnQueue(d, x, m) \/ (x = p /\ m = k)
Left(d, e, p) == \A x : \A m \in Pri : OnQueue(e, x, m) <=> OnQueue(d, x, m) /\ x # p

\* The queue of priority k becomes t, which is that queue with p.
Fits(d, p, k, t) ==
    /\ t \in Seq(Proc) /\ Injective(t)
    /\ \A x : Holds(t, x) <=> Holds(d.q[k], x) \/ x = p
Relink(d, p, k, t, ok) == LET e == [d EXCEPT !.q[k] = t]
                          IN  IF p \in ok THEN dq_sruninc(e, k) ELSE e

\* A process is linked on one queue and counted.
LEMMA LinkSound ==
    ASSUME IsFiniteSet(Proc), NEW ok \in SUBSET Proc, NEW d, Sound(d, ok),
           NEW k \in Pri, NEW p \in Proc, ~ OnSome(d, p), NEW t, Fits(d, p, k, t)
    PROVE  Sound(Relink(d, p, k, t, ok), ok) /\ Joined(d, Relink(d, p, k, t, ok), p, k)
<1> DEFINE e == [d EXCEPT !.q[k] = t]
           f == IF p \in ok THEN dq_sruninc(e, k) ELSE e
<1>1. d \in Dispq /\ Distinct(d)
  BY DEF Sound
<1>2. /\ e.cnt = d.cnt /\ e.run = d.run /\ e.act = d.act /\ e.max = d.max
      /\ e.q[k] = t /\ \A m \in Pri \ {k} : e.q[m] = d.q[m]
  BY <1>1 DEF Dispq
<1>3. e \in Dispq
  BY <1>1 DEF Dispq, Fits
<1> HIDE DEF e
<1>4. Gains(d, e, k, p)
  BY <1>1, <1>2 DEF Gains, Fits, OnQueue, Holds
<1>5. /\ Distinct(e)
      /\ \A x : \A m \in Pri : OnQueue(e, x, m) <=> OnQueue(d, x, m) \/ (x = p /\ m = k)
  BY <1>4, Linked
<1>6. Counted(f, ok)
  BY <1>2, <1>3, <1>5, LinkCounted
<1>7. f \in Dispq /\ f.q = e.q
  BY <1>3, IncType
<1>8. Distinct(f)
  BY <1>5, <1>7 DEF Distinct
<1>9. \A x : \A m \in Pri : OnQueue(f, x, m) <=> OnQueue(e, x, m)
  BY <1>7 DEF OnQueue
<1>10. Sound(f, ok)
  BY <1>6, <1>7, <1>8 DEF Sound
<1> QED
  BY <1>5, <1>9, <1>10 DEF e, Relink, Joined

\* setbackdq() on a process that is on no queue.
LEMMA SetbackSound ==
    ASSUME IsFiniteSet(Proc), NEW ok \in SUBSET Proc, NEW d, Sound(d, ok),
           NEW k \in Pri, NEW p \in Proc, ~ OnSome(d, p)
    PROVE  /\ Sound(setbackdq(d, p, k, p \in ok), ok)
           /\ Joined(d, setbackdq(d, p, k, p \in ok), p, k)
<1> DEFINE t == Append(d.q[k], p)
<1>1. d.q[k] \in Seq(Proc) /\ Injective(d.q[k]) /\ ~ Holds(d.q[k], p)
  BY DistinctByQueue DEF Sound, Dispq, OnSome, OnQueue, Holds
<1>2. Fits(d, p, k, t)
  BY <1>1, AppendHolds DEF Fits
<1>3. setbackdq(d, p, k, p \in ok) = Relink(d, p, k, t, ok)
  BY DEF setbackdq, Relink
<1> HIDE DEF t
<1> QED
  BY <1>2, <1>3, LinkSound

\* setfrontdq() on a process that is on no queue.
LEMMA SetfrontSound ==
    ASSUME IsFiniteSet(Proc), NEW ok \in SUBSET Proc, NEW d, Sound(d, ok),
           NEW k \in Pri, NEW p \in Proc, ~ OnSome(d, p)
    PROVE  /\ Sound(setfrontdq(d, p, k, p \in ok), ok)
           /\ Joined(d, setfrontdq(d, p, k, p \in ok), p, k)
<1> DEFINE t == << p >> \o d.q[k]
<1>1. d.q[k] \in Seq(Proc) /\ Injective(d.q[k]) /\ ~ Holds(d.q[k], p)
  BY DistinctByQueue DEF Sound, Dispq, OnSome, OnQueue, Holds
<1>2. Fits(d, p, k, t)
  BY <1>1, PrependHolds DEF Fits
<1>3. setfrontdq(d, p, k, p \in ok) = Relink(d, p, k, t, ok)
  BY DEF setfrontdq, Relink
<1> HIDE DEF t
<1> QED
  BY <1>2, <1>3, LinkSound

\* dq_srundec() leaves the links alone.
LEMMA DecType ==
    ASSUME NEW d \in Dispq, NEW k \in Pri
    PROVE  dq_srundec(d, k).q = d.q
  BY DEF dq_srundec

\* dispdeq() on a process that is on its queue.
LEMMA DispdeqSound ==
    ASSUME IsFiniteSet(Proc), NEW ok \in SUBSET Proc, NEW d, Sound(d, ok),
           NEW k \in Pri, NEW p \in Proc, OnQueue(d, p, k)
    PROVE  /\ Sound(dispdeq(d, p, k, p \in ok), ok)
           /\ Left(d, dispdeq(d, p, k, p \in ok), p)
<1> DEFINE i == CHOOSE n \in DOMAIN d.q[k] : d.q[k][n] = p
           t == RemoveAt(d.q[k], i)
           e == [d EXCEPT !.q[k] = t]
           f == IF p \in ok THEN dq_srundec(e, k) ELSE e
<1>1. dispdeq(d, p, k, p \in ok) = f
  BY DEF dispdeq
<1>2. d \in Dispq /\ Distinct(d) /\ d.q[k] \in Seq(Proc) /\ Injective(d.q[k])
  BY DistinctByQueue DEF Sound, Dispq
<1>3. i \in DOMAIN d.q[k] /\ d.q[k][i] = p
  BY DEF OnQueue
<1> HIDE DEF i
<1>4. t \in Seq(Proc) /\ Injective(t) /\ \A x : Holds(t, x) <=> Holds(d.q[k], x) /\ x # p
  BY <1>2, <1>3, RemoveHolds
<1> HIDE DEF t
<1>5. /\ e.cnt = d.cnt /\ e.run = d.run /\ e.act = d.act /\ e.max = d.max
      /\ e.q[k] = t /\ \A m \in Pri \ {k} : e.q[m] = d.q[m]
  BY <1>2 DEF Dispq
<1>6. e \in Dispq
  BY <1>2, <1>4 DEF Dispq
<1> HIDE DEF e
<1>7. Loses(d, e, k, p)
  BY <1>2, <1>4, <1>5 DEF Loses, OnQueue, Holds
<1>8. Distinct(e) /\ \A x : \A m \in Pri : OnQueue(e, x, m) <=> OnQueue(d, x, m) /\ x # p
  BY <1>7, Unlinked
<1>9. Counted(f, ok)
  BY <1>5, <1>6, <1>8, UnlinkCounted
<1>10. f \in Dispq
  BY <1>5, <1>6, <1>8, UnlinkCounted
<1>11. f.q = e.q
  BY <1>6, DecType
<1>12. Distinct(f)
  BY <1>8, <1>11 DEF Distinct
<1>13. \A x : \A m \in Pri : OnQueue(f, x, m) <=> OnQueue(e, x, m)
  BY <1>11 DEF OnQueue
<1> HIDE DEF f
<1> QED
  BY <1>1, <1>8, <1>9, <1>10, <1>12, <1>13 DEF Sound, Left

\* dispdeq() followed by setbackdq(), at the old and at the new priority.
Moved(d, e, p, k) == \A x : \A m \in Pri : OnQueue(e, x, m) <=> IF x = p THEN m = k
                                                               ELSE OnQueue(d, x, m)

\* dispdeq() and setbackdq() at another priority.
LEMMA MoveSound ==
    ASSUME IsFiniteSet(Proc), NEW ok \in SUBSET Proc, NEW d, Sound(d, ok),
           NEW k \in Pri, NEW p \in Proc, OnQueue(d, p, k), NEW n \in Pri
    PROVE  LET e == setbackdq(dispdeq(d, p, k, p \in ok), p, n, p \in ok)
           IN  Sound(e, ok) /\ Moved(d, e, p, n)
<1> DEFINE c == dispdeq(d, p, k, p \in ok)
           e == setbackdq(c, p, n, p \in ok)
<1>1. Sound(c, ok) /\ Left(d, c, p)
  BY DispdeqSound
<1> HIDE DEF c
<1>2. ~ OnSome(c, p)
  BY <1>1 DEF Left, OnSome
<1>3. Sound(e, ok) /\ Joined(c, e, p, n)
  BY <1>1, <1>2, SetbackSound
<1> HIDE DEF e
<1>4. Moved(d, e, p, n)
  BY <1>1, <1>3 DEF Left, Joined, Moved
<1> QED BY <1>3, <1>4 DEF e, c

(***************************************************************************)
(* Processes that start and stop being schedulable.                        *)
(***************************************************************************)

\* dq_sruninc() for a process on the queue of priority k whose SLOAD goes on.
LEMMA LoadSound ==
    ASSUME IsFiniteSet(Proc), NEW ok \in SUBSET Proc, NEW d, Sound(d, ok),
           NEW k \in Pri, NEW p \in Proc \ ok, OnQueue(d, p, k)
    PROVE  /\ Sound(dq_sruninc(d, k), ok \cup {p})
           /\ dq_sruninc(d, k).q = d.q
<1> DEFINE f == dq_sruninc(d, k)
           ok2 == ok \cup {p}
<1>1. CountedAs(d, At(d, ok), All(d, ok))
  BY CountedIsCountedAs DEF Sound
<1>2. p \notin At(d, ok)[k] /\ p \notin All(d, ok)
  BY DEF At, All
<1>3. d \in Dispq /\ Distinct(d)
  BY DEF Sound
<1>4. /\ f \in Dispq /\ f.q = d.q
      /\ CountedAs(f, [At(d, ok) EXCEPT ![k] = @ \cup {p}], All(d, ok) \cup {p})
  BY <1>1, <1>2, <1>3, AtType, IncCounted
<1> HIDE DEF f
<1>5. \A x \in Proc, m \in Pri : OnQueue(f, x, m) <=> OnQueue(d, x, m)
  BY <1>4 DEF OnQueue
<1>6. \A m \in Pri \ {k} : ~ OnQueue(d, p, m)
  BY <1>3, OneQueue
<1>7. At(f, ok2) = [At(d, ok) EXCEPT ![k] = @ \cup {p}]
  <2>1. \A m \in Pri : At(f, ok2)[m] = IF m = k THEN At(d, ok)[m] \cup {p} ELSE At(d, ok)[m]
    BY <1>5, <1>6 DEF At
  <2>2. At(f, ok2) = [m \in Pri |-> At(f, ok2)[m]]
    BY DEF At
  <2> HIDE DEF ok2
  <2> QED BY <2>1, <2>2, AtType
<1>8. All(f, ok2) = All(d, ok) \cup {p}
  BY <1>5 DEF All, OnSome
<1>9. Counted(f, ok2)
  <2> HIDE DEF ok2
  <2> QED BY <1>4, <1>7, <1>8, CountedIsCountedAs
<1>10. Distinct(f)
  BY <1>3, <1>4 DEF Distinct
<1> QED BY <1>4, <1>9, <1>10 DEF Sound, f

\* dq_srundec() for a process on the queue of priority k whose SLOAD goes off.
LEMMA UnloadSound ==
    ASSUME IsFiniteSet(Proc), NEW ok \in SUBSET Proc, NEW d, Sound(d, ok),
           NEW k \in Pri, NEW p \in ok, OnQueue(d, p, k)
    PROVE  /\ Sound(dq_srundec(d, k), ok \ {p})
           /\ dq_srundec(d, k).q = d.q
<1> DEFINE f == dq_srundec(d, k)
           ok2 == ok \ {p}
<1>1. CountedAs(d, At(d, ok), All(d, ok))
  BY CountedIsCountedAs DEF Sound
<1>2. d \in Dispq /\ Distinct(d) /\ p \in Proc
  BY DEF Sound
<1>3. p \in At(d, ok)[k] /\ \A m \in Pri \ {k} : p \notin At(d, ok)[m]
  BY <1>2, OneQueue DEF At
<1>4. /\ f \in Dispq /\ f.q = d.q
      /\ CountedAs(f, [At(d, ok) EXCEPT ![k] = @ \ {p}], All(d, ok) \ {p})
  BY <1>1, <1>2, <1>3, AtType, DecCounted
<1> HIDE DEF f
<1>5. \A x \in Proc, m \in Pri : OnQueue(f, x, m) <=> OnQueue(d, x, m)
  BY <1>4 DEF OnQueue
<1>6. At(f, ok2) = [At(d, ok) EXCEPT ![k] = @ \ {p}]
  <2>1. \A m \in Pri : At(f, ok2)[m] = At(d, ok)[m] \ {p}
    BY <1>5 DEF At
  <2>2. ASSUME NEW m \in Pri \ {k} PROVE At(f, ok2)[m] = At(d, ok)[m]
    <3>1. p \notin At(d, ok)[m] /\ At(f, ok2)[m] = At(d, ok)[m] \ {p}
      BY <2>1, <1>3
    <3> HIDE DEF ok2
    <3> QED BY <3>1, Zenon
  <2>3. At(f, ok2) = [m \in Pri |-> At(f, ok2)[m]]
    BY DEF At
  <2> HIDE DEF ok2
  <2> QED BY <2>1, <2>2, <2>3, AtType
<1>7. All(f, ok2) = All(d, ok) \ {p}
  BY <1>5 DEF All, OnSome
<1>8. Counted(f, ok2)
  <2> HIDE DEF ok2
  <2> QED BY <1>4, <1>6, <1>7, CountedIsCountedAs
<1>9. Distinct(f)
  BY <1>2, <1>4 DEF Distinct
<1> QED BY <1>4, <1>8, <1>9 DEF Sound, f

\* A process on no queue may start or stop being schedulable.
LEMMA OffQueueSound ==
    ASSUME NEW ok \in SUBSET Proc, NEW d, Sound(d, ok), NEW p, ~ OnSome(d, p)
    PROVE  Sound(d, ok \cup {p}) /\ Sound(d, ok \ {p})
<1>1. \A k \in Pri : ~ OnQueue(d, p, k)
  BY DEF OnSome
<1>2. \A k \in Pri : {x \in ok \cup {p} : OnQueue(d, x, k)} = {x \in ok : OnQueue(d, x, k)}
  BY <1>1
<1>3. \A k \in Pri : {x \in ok \ {p} : OnQueue(d, x, k)} = {x \in ok : OnQueue(d, x, k)}
  BY <1>1
<1>4. /\ {x \in ok \cup {p} : OnSome(d, x)} = {x \in ok : OnSome(d, x)}
      /\ {x \in ok \ {p} : OnSome(d, x)} = {x \in ok : OnSome(d, x)}
  OBVIOUS
<1> QED BY <1>2, <1>3, <1>4 DEF Sound, Counted

\* The process pswtch() takes is schedulable and on the highest queue that has
\* a schedulable process.
LEMMA FirstIsHighest ==
    ASSUME IsFiniteSet(Proc), NEW ok \in SUBSET Proc, NEW d, Sound(d, ok), d.max # -1
    PROVE  /\ d.max \in Pri
           /\ \A p : IsFirst(d, ok, p) => p \in ok /\ OnQueue(d, p, d.max)
           /\ \A p \in ok, k \in Pri : OnQueue(d, p, k) => k <= d.max
<1>1. d \in Dispq /\ Distinct(d) /\ Counted(d, ok)
  BY DEF Sound
<1>2. d.max \in Pri
  BY <1>1 DEF Dispq
<1>3. ASSUME NEW p, IsFirst(d, ok, p) PROVE p \in ok /\ OnQueue(d, p, d.max)
  BY <1>3 DEF IsFirst, OnQueue
<1>4. ASSUME NEW p \in ok, NEW k \in Pri, OnQueue(d, p, k) PROVE k <= d.max
  <2> DEFINE at == {x \in ok : OnQueue(d, x, k)}
  <2>1. IsFiniteSet(at) /\ at # {}
    BY <1>4, FS_Subset
  <2>2. Cardinality(at) \in Nat /\ Cardinality(at) # 0
    BY <2>1, FS_EmptySet, FS_CardinalityType
  <2>3. d.cnt[k] > 0
    BY <1>1, <2>2 DEF Counted
  <2>4. k \in d.act /\ d.max = bt_gethighbit(d.act)
    BY <1>1, <2>3 DEF Counted
  <2> QED BY <1>1, <2>4, HighBit DEF Dispq
<1> QED BY <1>2, <1>3, <1>4

\* The queues the system starts with.
LEMMA InitSound ==
    ASSUME IsFiniteSet(Proc), NEW k \in Pri, NEW s \in Seq(Proc), Injective(s)
    PROVE  /\ Sound(dispinit(k, s), Proc)
           /\ \A x : \A m \in Pri :
                  OnQueue(dispinit(k, s), x, m) <=> m = k /\ Holds(s, x)
<1> DEFINE d == dispinit(k, s)
           on == {x \in Proc : Holds(s, x)}
<1>1. Len(s) \in Nat /\ s \in [1 .. Len(s) -> Proc] /\ DOMAIN s = 1 .. Len(s)
  BY LenProperties, ElementOfSeq
<1>2. /\ d.q = [m \in Pri |-> IF m = k THEN s ELSE << >>]
      /\ d.cnt = [m \in Pri |-> IF m = k THEN Len(s) ELSE 0]
      /\ d.run = Len(s)
      /\ d.act = IF Len(s) = 0 THEN {} ELSE {k}
      /\ d.max = IF Len(s) = 0 THEN -1 ELSE k
  BY DEF dispinit
<1>3. d \in Dispq
  BY <1>1 DEF dispinit, Dispq
<1> HIDE DEF d
<1>4. \A x : \A m \in Pri : OnQueue(d, x, m) <=> m = k /\ Holds(s, x)
  BY <1>2 DEF OnQueue, Holds
<1>5. Distinct(d)
  BY <1>2 DEF Distinct, Injective
<1>6. IsFiniteSet(on) /\ Cardinality(on) = Len(s)
  <2>1. s \in Bijection(1 .. Len(s), on)
    BY <1>1 DEF Bijection, Injection, IsInjective, Surjection, Holds, Injective
  <2>2. IsFiniteSet(1 .. Len(s)) /\ Cardinality(1 .. Len(s)) = Len(s)
    BY <1>1, FS_Interval
  <2>3. IsFiniteSet(on)
    BY FS_Subset
  <2>4. ExistsBijection(1 .. Len(s), on)
    BY <2>1 DEF ExistsBijection
  <2> HIDE DEF on
  <2> QED BY <2>2, <2>3, <2>4, FS_Bijection
<1>7. \A m \in Pri : {x \in Proc : OnQueue(d, x, m)} = IF m = k THEN on ELSE {}
  BY <1>4
<1>8. {x \in Proc : OnSome(d, x)} = on
  BY <1>4 DEF OnSome
<1>9. d.max = IF d.act = {} THEN -1 ELSE bt_gethighbit(d.act)
  <2>1. bt_gethighbit({k}) = k
    BY HighBit
  <2> QED BY <2>1, <1>2
<1> HIDE DEF on
<1>10. ASSUME NEW m \in Pri
       PROVE  /\ d.cnt[m] = Cardinality({x \in Proc : OnQueue(d, x, m)})
              /\ m \in d.act <=> d.cnt[m] > 0
  <2>1. CASE m = k
    <3>1. Cardinality({x \in Proc : OnQueue(d, x, m)}) = Len(s)
      BY <2>1, <1>6, <1>7
    <3>2. d.cnt[m] = Len(s) /\ (m \in d.act <=> Len(s) # 0)
      BY <2>1, <1>2
    <3> QED BY <3>1, <3>2, <1>1
  <2>2. CASE m # k
    <3>1. Cardinality({x \in Proc : OnQueue(d, x, m)}) = 0
      BY <2>2, <1>7, FS_EmptySet
    <3> QED BY <3>1, <2>2, <1>2
  <2> QED BY <2>1, <2>2
<1>11. Counted(d, Proc)
  BY <1>2, <1>6, <1>8, <1>9, <1>10 DEF Counted
<1> QED BY <1>3, <1>4, <1>5, <1>11 DEF Sound, d

(***************************************************************************)
(* The order of two processes on one queue.                                *)
(***************************************************************************)

\* The queues of e have p before q wherever those of d have.
KeepsOrder(d, e, p, q) == \A k \in Pri : Precedes(d.q[k], p, q) => Precedes(e.q[k], p, q)

\* Linking a process keeps the order of two others, or of the same.
LEMMA LinkOrder ==
    ASSUME NEW d \in Dispq, NEW k \in Pri, NEW x \in Proc, NEW b, NEW p, NEW q
    PROVE  /\ KeepsOrder(d, setbackdq(d, x, k, b), p, q)
           /\ KeepsOrder(d, setfrontdq(d, x, k, b), p, q)
           /\ OnQueue(d, p, k) => Precedes(setbackdq(d, x, k, b).q[k], p, x)
<1>1. d.q \in [Pri -> Seq(Proc)] /\ d.q[k] \in Seq(Proc)
  BY DEF Dispq
<1>2. setbackdq(d, x, k, b).q = [d.q EXCEPT ![k] = Append(@, x)]
  BY DEF setbackdq, dq_sruninc, Dispq
<1>3. setfrontdq(d, x, k, b).q = [d.q EXCEPT ![k] = << x >> \o @]
  BY DEF setfrontdq, dq_sruninc, Dispq
<1>4. KeepsOrder(d, setbackdq(d, x, k, b), p, q)
  BY <1>1, <1>2, AppendOrder DEF KeepsOrder
<1>5. KeepsOrder(d, setfrontdq(d, x, k, b), p, q)
  BY <1>1, <1>3, PrependOrder DEF KeepsOrder
<1>6. OnQueue(d, p, k) => Precedes(setbackdq(d, x, k, b).q[k], p, x)
  BY <1>1, <1>2, AppendOrder DEF OnQueue, Holds
<1> QED BY <1>4, <1>5, <1>6

\* Unlinking a process keeps the order of two others.
LEMMA UnlinkOrder ==
    ASSUME NEW d \in Dispq, NEW k \in Pri, NEW x, NEW b, NEW p, NEW q, x # p, x # q
    PROVE  KeepsOrder(d, dispdeq(d, x, k, b), p, q)
<1>1. d.q \in [Pri -> Seq(Proc)] /\ d.q[k] \in Seq(Proc)
  BY DEF Dispq
<1>2. CASE ~ OnQueue(d, x, k)
  BY <1>2 DEF dispdeq, KeepsOrder
<1>3. CASE OnQueue(d, x, k)
  <2> DEFINE i == CHOOSE n \in DOMAIN d.q[k] : d.q[k][n] = x
  <2>1. i \in DOMAIN d.q[k] /\ d.q[k][i] = x
    BY <1>3 DEF OnQueue
  <2> HIDE DEF i
  <2>2. dispdeq(d, x, k, b).q = [d.q EXCEPT ![k] = RemoveAt(@, i)]
    BY <1>3 DEF dispdeq, dq_srundec, Dispq, i
  <2>3. Precedes(d.q[k], p, q) => Precedes(RemoveAt(d.q[k], i), p, q)
    BY <1>1, <2>1, RemoveOrder
  <2> QED BY <1>1, <2>2, <2>3 DEF KeepsOrder
<1> QED BY <1>2, <1>3
=============================================================================
