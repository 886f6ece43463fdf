------------------------------ MODULE Sem_proofs ------------------------------
(***************************************************************************)
(* Semaphore sets, their sleepers and the adjustments of SEM_UNDO, for any *)
(* number of processes, sets and semaphores and any lists of operations,   *)
(* when no set is removed under a call that is in copyin().                *)
(***************************************************************************)
EXTENDS Sem, IndLemmas, TLAPS

Op == [num : Nat, op : Int, undo : BOOLEAN, nowait : BOOLEAN]
SemCell == [val : SemVal, semncnt : Nat, semzcnt : Nat]
Count == {"semncnt", "semzcnt"}

Tables ==
    /\ sema \in [Id -> [alloc : BOOLEAN, key : Key \cup {IPC_PRIVATE}, seq : Nat,
                        base : SemNum, nsems : 0 .. SEMMSL]]
    /\ sem \in [SemNum -> SemCell]
    /\ semmap \in SUBSET SemNum /\ lost \in SUBSET SemNum
    /\ has_undo \in SUBSET Proc /\ IsFiniteSet(has_undo) /\ Cardinality(has_undo) <= SEMMNU
    /\ pc \in [Proc -> Place]
    /\ wchan \in [Proc -> Chan \cup {NoChan}]
    /\ p_sig \in SUBSET Proc
    /\ arg \in [Proc -> [call : {"none", "semop", "SETALL", "IPC_SET"}, semid : Nat,
                         sp : Id, ops : Seq(Op), again : BOOLEAN]]

\* SetsSound, with sets that are all on semaphores that there are.
Apart ==
    /\ \A i \in Allocated : Members(i) \subseteq SemNum /\ Members(i) \cap lost = {}
    /\ \A i, j \in Allocated : i # j =>
        /\ Members(i) \cap Members(j) = {}
        /\ sema[i].key = sema[j].key => sema[i].key = IPC_PRIVATE
    /\ \A s \in SemNum :
        s \in semmap <=> s \notin lost /\ \A i \in Allocated : s \notin Members(i)
    /\ Cardinality(Starts) <= SEMMAP - 2

\* The call of a process names a set by its index, or a set that is gone.
Named(c) ==
    /\ c.sp = c.semid % NIDS
    /\ c.semid = semid(c.sp) => sema[c.sp].alloc

InRange(c) == \A n \in DOMAIN c.ops : c.ops[n].num < sema[c.sp].nsems

\* SleepersCounted, and what the call of a process may rely on when it goes on.
Held(p) ==
    /\ pc[p] \in {"copyin", "asleep", "woken"} => Named(arg[p])
    /\ pc[p] = "copyin" => /\ semconv(arg[p].semid)
                           /\ arg[p].again => InRange(arg[p])
    /\ pc[p] \in {"asleep", "woken"} =>
        wchan[p] \in Chan /\ (semconv(arg[p].semid) => InRange(arg[p]))
    /\ pc[p] = "asleep" =>
        /\ semconv(arg[p].semid) /\ wchan[p][2] \in Members(arg[p].sp)
        /\ sem[wchan[p][2]][wchan[p][1]] > 0

\* UndoSound, with the room that a process has for adjustments.
Keys == {k \in Nat \X Nat : semconv(k[1]) /\ k[2] < sema[k[1] % NIDS].nsems}
Aoe == (-SEMAEM .. SEMAEM) \ {0}
Aoes(keys) ==
    {f \in UNION {[K -> Aoe] : K \in SUBSET keys} :
        IsFiniteSet(DOMAIN f) /\ Cardinality(DOMAIN f) <= SEMUME}

Adjusting ==
    /\ undo \in [Proc -> Aoes(Keys)]
    /\ \A p \in Proc : DOMAIN undo[p] # {} => p \in has_undo

IInv == Tables /\ Apart /\ (\A p \in Proc : Held(p)) /\ Adjusting

-----------------------------------------------------------------------------
(* Numbers.                                                                *)

LEMMA Semid ==
    ASSUME SemAssumption, NEW seq \in Nat, NEW i \in Id
    PROVE  /\ seq * NIDS + i \in Nat
           /\ (seq * NIDS + i) % NIDS = i
           /\ (seq + 1) * NIDS + i = seq * NIDS + i + NIDS
BY DEF SemAssumption, Id

LEMMA Index ==
    ASSUME SemAssumption, NEW s \in Nat
    PROVE  s % NIDS \in Id
BY DEF SemAssumption, Id

-----------------------------------------------------------------------------
(* Adjustments.                                                            *)

LEMMA AoesFacts ==
    ASSUME NEW keys, NEW f \in Aoes(keys)
    PROVE  /\ f = [k \in DOMAIN f |-> f[k]] /\ DOMAIN f \subseteq keys
           /\ \A k \in DOMAIN f : f[k] \in Aoe
           /\ IsFiniteSet(DOMAIN f) /\ Cardinality(DOMAIN f) <= SEMUME
BY DEF Aoes

LEMMA AoesIntro ==
    ASSUME NEW keys, NEW f, f = [k \in DOMAIN f |-> f[k]], DOMAIN f \subseteq keys,
           \A k \in DOMAIN f : f[k] \in Aoe,
           IsFiniteSet(DOMAIN f), Cardinality(DOMAIN f) <= SEMUME
    PROVE  f \in Aoes(keys)
<1>1. f \in [DOMAIN f -> Aoe]
  OBVIOUS
<1> QED BY <1>1 DEF Aoes

\* Fewer adjustments, or the same ones for more sets.
LEMMA AoesRestrict ==
    ASSUME NEW keys, NEW f \in Aoes(keys), NEW K \in SUBSET DOMAIN f,
           NEW more, K \subseteq more, SemAssumption
    PROVE  Restrict(f, K) \in Aoes(more)
<1> DEFINE g == Restrict(f, K)
<1>1. g = [k \in DOMAIN g |-> g[k]] /\ DOMAIN g = K /\ \A k \in DOMAIN g : g[k] \in Aoe
  BY AoesFacts DEF Restrict
<1>2. IsFiniteSet(K) /\ Cardinality(K) <= SEMUME
  <2>1. IsFiniteSet(DOMAIN f) /\ Cardinality(DOMAIN f) <= SEMUME /\ SEMUME \in Nat
    BY AoesFacts DEF SemAssumption
  <2>2. IsFiniteSet(K) /\ Cardinality(K) <= Cardinality(DOMAIN f)
    BY <2>1, FS_Subset
  <2>3. Cardinality(K) \in Nat /\ Cardinality(DOMAIN f) \in Nat
    BY <2>1, <2>2, FS_CardinalityType
  <2> QED BY <2>1, <2>2, <2>3
<1> HIDE DEF g
<1>3. g \in Aoes(more)
  BY <1>1, <1>2, AoesIntro
<1> QED BY <1>3 DEF g

LEMMA NoAoes ==
    ASSUME NEW keys, SemAssumption
    PROVE  Empty \in Aoes(keys) /\ DOMAIN Empty = {}
<1>1. DOMAIN Empty = {} /\ Empty = [k \in DOMAIN Empty |-> Empty[k]]
  BY DEF Empty
<1>2. IsFiniteSet(DOMAIN Empty) /\ Cardinality(DOMAIN Empty) <= SEMUME
  <2>1. IsFiniteSet({}) /\ Cardinality({}) = 0
    BY FS_EmptySet
  <2> QED BY <1>1, <2>1 DEF SemAssumption
<1>3. \A k \in DOMAIN Empty : Empty[k] \in Aoe
  BY <1>1
<1>4. Empty \in Aoes(keys)
  BY <1>1, <1>2, <1>3, AoesIntro
<1> QED BY <1>1, <1>4

\* An adjustment that semaoe() does not refuse.
LEMMA AoesAdd ==
    ASSUME SemAssumption, NEW keys, NEW f \in Aoes(keys), NEW k \in keys, NEW v \in Int,
           v # 0, v \in -SEMAEM .. SEMAEM,
           k \notin DOMAIN f => Cardinality(DOMAIN f) < SEMUME,
           k \in DOMAIN f => f[k] - v \in -SEMAEM .. SEMAEM
    PROVE  semaoe(f, v, k) \in Aoes(keys)
<1> DEFINE g == semaoe(f, v, k)
<1>1. f = [j \in DOMAIN f |-> f[j]] /\ DOMAIN f \subseteq keys
      /\ (\A j \in DOMAIN f : f[j] \in Aoe)
      /\ IsFiniteSet(DOMAIN f) /\ Cardinality(DOMAIN f) <= SEMUME /\ SEMUME \in Nat /\ SEMAEM \in Nat
  BY AoesFacts DEF SemAssumption
<1>2. g = [j \in DOMAIN g |-> g[j]]
  BY DEF semaoe
<1>3. CASE k \notin DOMAIN f
  <2>1. 0 - v # 0 /\ 0 - v \in Aoe
    BY <1>1 DEF Aoe
  <2>2. DOMAIN g = DOMAIN f \cup {k} /\ \A j \in DOMAIN g : g[j] \in Aoe
    BY <1>1, <1>3, <2>1 DEF semaoe
  <2>3. IsFiniteSet(DOMAIN g) /\ Cardinality(DOMAIN g) = Cardinality(DOMAIN f) + 1
    BY <1>1, <1>3, <2>2, FS_AddElement
  <2>4. Cardinality(DOMAIN f) \in Nat
    BY <1>1, FS_CardinalityType
  <2>5. Cardinality(DOMAIN g) <= SEMUME
    BY <1>1, <1>3, <2>3, <2>4
  <2> HIDE DEF g
  <2>6. g \in Aoes(keys)
    BY <1>1, <1>2, <2>2, <2>3, <2>5, AoesIntro
  <2> QED BY <2>6 DEF g
<1>4. CASE k \in DOMAIN f /\ f[k] - v = 0
  <2>1. DOMAIN g = DOMAIN f \ {k} /\ \A j \in DOMAIN g : g[j] \in Aoe
    BY <1>1, <1>4 DEF semaoe
  <2>2. IsFiniteSet(DOMAIN g) /\ Cardinality(DOMAIN g) = Cardinality(DOMAIN f) - 1
    BY <1>1, <1>4, <2>1, FS_RemoveElement
  <2>3. Cardinality(DOMAIN f) \in Nat
    BY <1>1, FS_CardinalityType
  <2>4. Cardinality(DOMAIN g) <= SEMUME
    BY <1>1, <2>2, <2>3
  <2> HIDE DEF g
  <2>5. g \in Aoes(keys)
    BY <1>1, <1>2, <2>1, <2>2, <2>4, AoesIntro
  <2> QED BY <2>5 DEF g
<1>5. CASE k \in DOMAIN f /\ f[k] - v # 0
  <2>1. f[k] - v \in Aoe
    BY <1>1, <1>5 DEF Aoe
  <2>2. DOMAIN g = DOMAIN f /\ \A j \in DOMAIN g : g[j] \in Aoe
    BY <1>1, <1>5, <2>1 DEF semaoe
  <2> HIDE DEF g
  <2>3. g \in Aoes(keys)
    BY <1>1, <1>2, <2>2, AoesIntro
  <2> QED BY <2>3 DEF g
<1> QED BY <1>3, <1>4, <1>5

\* What semaoe() does, semaoe() of the opposite takes back: a zero is never kept.
LEMMA AoesBack ==
    ASSUME NEW keys, NEW f \in Aoes(keys), NEW k, NEW v \in Int, v # 0, SemAssumption
    PROVE  semaoe(semaoe(f, v, k), -v, k) = f
<1> DEFINE g == semaoe(f, v, k)
           h == semaoe(g, -v, k)
<1>1. f = [j \in DOMAIN f |-> f[j]]
      /\ (\A j \in DOMAIN f : f[j] \in Int /\ f[j] # 0)
  BY AoesFacts DEF Aoe, SemAssumption
<1>2. CASE k \notin DOMAIN f
  <2>1. DOMAIN g = DOMAIN f \cup {k} /\ g[k] = 0 - v /\ \A j \in DOMAIN f : g[j] = f[j]
    BY <1>2 DEF semaoe
  <2>2. 0 - v - (-v) = 0
    OBVIOUS
  <2> HIDE DEF g
  <2>3. DOMAIN h = DOMAIN f /\ \A j \in DOMAIN f : h[j] = f[j]
    BY <1>2, <2>1, <2>2 DEF semaoe
  <2>4. h = [j \in DOMAIN h |-> h[j]]
    BY DEF semaoe
  <2> HIDE DEF h
  <2>5. h = f
    BY <1>1, <2>3, <2>4
  <2> QED BY <2>5 DEF h, g
<1>3. CASE k \in DOMAIN f /\ f[k] - v = 0
  <2>1. DOMAIN g = DOMAIN f \ {k} /\ \A j \in DOMAIN g : g[j] = f[j]
    BY <1>3 DEF semaoe
  <2>2. 0 - (-v) = f[k] /\ 0 - (-v) # 0
    BY <1>1, <1>3
  <2> HIDE DEF g
  <2>3. DOMAIN h = DOMAIN f /\ \A j \in DOMAIN f : h[j] = f[j]
    BY <1>3, <2>1, <2>2 DEF semaoe
  <2>4. h = [j \in DOMAIN h |-> h[j]]
    BY DEF semaoe
  <2> HIDE DEF h
  <2>5. h = f
    BY <1>1, <2>3, <2>4
  <2> QED BY <2>5 DEF h, g
<1>4. CASE k \in DOMAIN f /\ f[k] - v # 0
  <2>1. DOMAIN g = DOMAIN f /\ g[k] = f[k] - v /\ \A j \in DOMAIN f : j # k => g[j] = f[j]
    BY <1>4 DEF semaoe
  <2>2. g[k] - (-v) = f[k] /\ f[k] # 0
    BY <1>1, <1>4, <2>1
  <2> HIDE DEF g
  <2>3. DOMAIN h = DOMAIN f /\ \A j \in DOMAIN f : h[j] = f[j]
    BY <1>4, <2>1, <2>2 DEF semaoe
  <2>4. h = [j \in DOMAIN h |-> h[j]]
    BY DEF semaoe
  <2> HIDE DEF h
  <2>5. h = f
    BY <1>1, <2>3, <2>4
  <2> QED BY <2>5 DEF h, g
<1> QED BY <1>2, <1>3, <1>4

-----------------------------------------------------------------------------
(* The loop of semop().  A pass over a list: after[i] is what i operations *)
(* have left, back[i] what semundo() has left of it i operations later.    *)

After(p, ops, base, s, f) ==
    f = [i \in 0 .. Len(ops) |-> IF i = 0 THEN Start(p) ELSE Try(f[i - 1], ops[i], base, s)]
Back(w, ops, base, s, f) ==
    f = [i \in 0 .. w.done |->
            IF i = 0 THEN w ELSE TakeBack(f[i - 1], ops[w.done - i + 1], base, s)]

\* The recursive functions exist.
LEMMA AfterExists ==
    ASSUME NEW p \in Proc, NEW ops \in Seq(Op), NEW base, NEW s
    PROVE  \E f : After(p, ops, base, s, f) /\ Perform(p, ops, base, s) = f[Len(ops)]
<1> DEFINE Upto(n, f) ==
        f = [i \in 0 .. n |-> IF i = 0 THEN Start(p) ELSE Try(f[i - 1], ops[i], base, s)]
    S == {n \in Nat : \E f : Upto(n, f)}
<1>1. 0 \in S
  <2>1. Upto(0, [i \in 0 .. 0 |-> Start(p)])
    OBVIOUS
  <2> QED BY <2>1
<1>2. ASSUME NEW n \in Nat, n \in S PROVE n + 1 \in S
  <2>1. PICK f : Upto(n, f)
    BY <1>2
  <2> DEFINE g == [i \in 0 .. n + 1 |-> IF i <= n THEN f[i] ELSE Try(f[n], ops[n + 1], base, s)]
  <2>2. ASSUME NEW i \in 0 .. n + 1
        PROVE  g[i] = IF i = 0 THEN Start(p) ELSE Try(g[i - 1], ops[i], base, s)
    <3>1. CASE i = 0
      BY <2>1, <3>1
    <3>2. CASE i \in 1 .. n
      <4>1. g[i] = f[i] /\ g[i - 1] = f[i - 1]
        BY <3>2
      <4>2. f[i] = Try(f[i - 1], ops[i], base, s)
        BY <2>1, <3>2
      <4> QED BY <3>2, <4>1, <4>2
    <3>3. CASE i = n + 1
      <4>1. g[i] = Try(f[n], ops[n + 1], base, s) /\ g[i - 1] = f[n]
        BY <3>3
      <4> QED BY <3>3, <4>1
    <3> QED BY <3>1, <3>2, <3>3
  <2>3. g = [i \in 0 .. n + 1 |-> g[i]]
    OBVIOUS
  <2> HIDE DEF g
  <2>4. Upto(n + 1, g)
    BY <2>2, <2>3
  <2> HIDE DEF Upto
  <2>5. n + 1 \in Nat
    OBVIOUS
  <2> QED BY <2>4, <2>5
<1> HIDE DEF S
<1>3. Len(ops) \in Nat
  OBVIOUS
<1>4. Len(ops) \in S
  <2>1. \A i \in 0 .. Len(ops) - 1 : i \in S => i + 1 \in S
    BY <1>2, <1>3
  <2>2. \A i \in 0 .. Len(ops) : i \in S
    BY <1>1, <1>3, <2>1, UpTo
  <2> QED BY <1>3, <2>2
<1>5. \E f : After(p, ops, base, s, f)
  BY <1>4 DEF S, After
<1> DEFINE g == CHOOSE f : After(p, ops, base, s, f)
<1>6. After(p, ops, base, s, g)
  BY <1>5
<1>7. Perform(p, ops, base, s) = g[Len(ops)]
  BY DEF Perform, After
<1> QED BY <1>6, <1>7

LEMMA BackExists ==
    ASSUME NEW w, w.done \in Nat, NEW ops, NEW base, NEW s
    PROVE  \E f : Back(w, ops, base, s, f) /\ semundo(w, ops, base, s) = f[w.done]
<1> DEFINE Upto(n, f) ==
        f = [i \in 0 .. n |->
                IF i = 0 THEN w ELSE TakeBack(f[i - 1], ops[w.done - i + 1], base, s)]
    S == {n \in Nat : \E f : Upto(n, f)}
<1>1. 0 \in S
  <2>1. Upto(0, [i \in 0 .. 0 |-> w])
    OBVIOUS
  <2> QED BY <2>1
<1>2. ASSUME NEW n \in Nat, n \in S PROVE n + 1 \in S
  <2>1. PICK f : Upto(n, f)
    BY <1>2
  <2> DEFINE g == [i \in 0 .. n + 1 |->
                    IF i <= n THEN f[i] ELSE TakeBack(f[n], ops[w.done - i + 1], base, s)]
  <2>2. ASSUME NEW i \in 0 .. n + 1
        PROVE  g[i] = IF i = 0 THEN w ELSE TakeBack(g[i - 1], ops[w.done - i + 1], base, s)
    <3>1. CASE i = 0
      BY <2>1, <3>1
    <3>2. CASE i \in 1 .. n
      <4>1. g[i] = f[i] /\ g[i - 1] = f[i - 1]
        BY <3>2
      <4>2. f[i] = TakeBack(f[i - 1], ops[w.done - i + 1], base, s)
        BY <2>1, <3>2
      <4> QED BY <3>2, <4>1, <4>2
    <3>3. CASE i = n + 1
      <4>1. g[i] = TakeBack(f[n], ops[w.done - i + 1], base, s) /\ g[i - 1] = f[n]
        BY <3>3
      <4> QED BY <3>3, <4>1
    <3> QED BY <3>1, <3>2, <3>3
  <2>3. g = [i \in 0 .. n + 1 |-> g[i]]
    OBVIOUS
  <2> HIDE DEF g
  <2>4. Upto(n + 1, g)
    BY <2>2, <2>3
  <2> HIDE DEF Upto
  <2>5. n + 1 \in Nat
    OBVIOUS
  <2> QED BY <2>4, <2>5
<1> HIDE DEF S
<1>4. w.done \in S
  BY <1>1, <1>2, UpTo
<1>5. \E f : Back(w, ops, base, s, f)
  BY <1>4 DEF S, Back
<1> DEFINE g == CHOOSE f : Back(w, ops, base, s, f)
<1>6. Back(w, ops, base, s, g)
  BY <1>5
<1>7. semundo(w, ops, base, s) = g[w.done]
  BY DEF semundo, Back
<1> QED BY <1>6, <1>7

Ends == {"ok", "ERANGE", "ENOSPC", "EINVAL", "semncnt", "semzcnt"}

\* The work in progress of p after i operations on a set that it names rightly.
Working(w, p, i) ==
    /\ w \in [sem : [SemNum -> SemCell], aoe : Aoes(Keys), has : BOOLEAN,
              woke : SUBSET Chan, end : Ends, done : 0 .. i]
    /\ DOMAIN w.aoe # {} \/ p \in has_undo => w.has
    /\ w.has => p \in has_undo \/ Cardinality(has_undo) < SEMMNU
    /\ \A c \in Count, x \in SemNum :
        w.sem[x][c] = sem[x][c] \/ (w.sem[x][c] = 0 /\ << c, x >> \in w.woke)
    /\ w.end = "ok" <=> w.done = i

\* Such a set and a list for it.
Fit(ops, base, s) ==
    /\ ops \in Seq(Op) /\ s \in Nat /\ semconv(s)
    /\ base = sema[s % NIDS].base
    /\ \A n \in DOMAIN ops : ops[n].num < sema[s % NIDS].nsems

LEMMA FitKey ==
    ASSUME SemAssumption, Tables, Apart, NEW ops, NEW base, NEW s, Fit(ops, base, s),
           NEW n \in 1 .. Len(ops)
    PROVE  /\ ops[n] \in Op /\ base + ops[n].num \in SemNum
           /\ base + ops[n].num \in Members(s % NIDS)
           /\ << s, ops[n].num >> \in Keys
<1>1. s % NIDS \in Id /\ sema[s % NIDS].alloc
  BY Index DEF Fit, semconv
<1>2. ops[n] \in Op /\ ops[n].num \in Nat /\ ops[n].num < sema[s % NIDS].nsems
  <2>1. ops[n] \in Op /\ n \in DOMAIN ops
    BY DEF Fit
  <2> QED BY <2>1 DEF Fit, Op
<1>3. base \in Nat /\ sema[s % NIDS].nsems \in Nat /\ base = sema[s % NIDS].base
  BY <1>1 DEF Fit, Tables, SemNum, SemAssumption
<1>4. base + ops[n].num \in Members(s % NIDS)
  BY <1>2, <1>3 DEF Members
<1>5. base + ops[n].num \in SemNum
  BY <1>1, <1>4 DEF Apart, Allocated
<1>6. << s, ops[n].num >> \in Keys
  BY <1>2 DEF Fit, Keys
<1> QED BY <1>2, <1>4, <1>5, <1>6

\* An operation that the code finds possible.
LEMMA OperateWorks ==
    ASSUME SemAssumption, Tables, NEW p \in Proc, NEW i \in Nat, NEW w, Working(w, p, i),
           w.end = "ok",
           NEW op \in Op, NEW x \in SemNum, NEW k \in Keys, Verdict(w, op, x, k) = "ok"
    PROVE  Working(Operate(w, op, x, k), p, i + 1)
<1> DEFINE cell == w.sem[x]
           n == Operate(w, op, x, k)
<1>1. w.sem \in [SemNum -> SemCell] /\ w.aoe \in Aoes(Keys) /\ w.has \in BOOLEAN
      /\ w.woke \in SUBSET Chan /\ w.done = i
  BY DEF Working
<1>2. cell.val \in SemVal /\ cell.semncnt \in Nat /\ cell.semzcnt \in Nat
      /\ op.op \in Int /\ op.undo \in BOOLEAN
  BY <1>1 DEF SemCell, Op
<1>3. cell.val + op.op \in SemVal
  <2>1. SEMVMX \in Nat /\ cell.val \in Int /\ cell.val >= 0 /\ cell.val <= SEMVMX
    BY <1>2 DEF SemVal, SemAssumption
  <2>2. CASE op.op > 0
    <3>1. ~(cell.val + op.op > SEMVMX)
      BY <1>2, <2>2 DEF Verdict
    <3> QED BY <1>2, <2>1, <2>2, <3>1 DEF SemVal
  <2>3. CASE op.op < 0
    <3>1. cell.val >= -op.op
      BY <1>2, <2>3 DEF Verdict
    <3> QED BY <1>2, <2>1, <2>3, <3>1 DEF SemVal
  <2>4. CASE op.op = 0
    BY <1>2, <2>1, <2>4
  <2> QED BY <1>2, <2>2, <2>3, <2>4
<1>4. op.undo /\ op.op # 0 => AoeError(w, op.op, k) = "ok"
  BY <1>2 DEF Verdict
<1>5. /\ n.sem = [w.sem EXCEPT ![x] = n.sem[x]]
      /\ n.sem[x].val = cell.val + op.op
      /\ n.sem[x] \in SemCell
      /\ \A c \in Count : n.sem[x][c] = cell[c] \/ (n.sem[x][c] = 0 /\ << c, x >> \in n.woke)
      /\ w.woke \subseteq n.woke /\ n.woke \in SUBSET Chan
  <2>1. Cleared(cell, op.op) \subseteq Count
    BY DEF Cleared, Count
  <2>2. n.woke = w.woke \cup (Cleared(cell, op.op) \X {x})
    BY <1>1 DEF Operate, Working
  <2>3. n.sem[x] = [val |-> cell.val + op.op,
                    semncnt |-> IF "semncnt" \in Cleared(cell, op.op) THEN 0 ELSE cell.semncnt,
                    semzcnt |-> IF "semzcnt" \in Cleared(cell, op.op) THEN 0 ELSE cell.semzcnt]
    BY <1>1 DEF Operate, Working
  <2>4. n.sem = [w.sem EXCEPT ![x] = n.sem[x]]
    BY <1>1, <2>3 DEF Operate, Working
  <2> HIDE DEF n
  <2>5. n.sem[x] \in SemCell /\ n.sem[x].val = cell.val + op.op
    BY <1>2, <1>3, <2>3 DEF SemCell
  <2>6. \A c \in Count : n.sem[x][c] = cell[c] \/ (n.sem[x][c] = 0 /\ << c, x >> \in n.woke)
    BY <2>2, <2>3 DEF Count
  <2>7. n.woke \in SUBSET Chan
    BY <1>1, <2>1, <2>2 DEF Chan, Count
  <2> QED BY <2>2, <2>4, <2>5, <2>6, <2>7
<1>6. /\ n.aoe \in Aoes(Keys) /\ n.has \in BOOLEAN
      /\ DOMAIN n.aoe # {} \/ p \in has_undo => n.has
      /\ n.has => p \in has_undo \/ Cardinality(has_undo) < SEMMNU
  <2>1. n.aoe = (IF op.undo /\ op.op # 0 THEN semaoe(w.aoe, op.op, k) ELSE w.aoe)
        /\ n.has = (w.has \/ (op.undo /\ op.op # 0))
    BY DEF Operate, Working
  <2>2. CASE ~(op.undo /\ op.op # 0)
    BY <1>1, <2>1, <2>2 DEF Working
  <2>3. CASE op.undo /\ op.op # 0
    <3>1. /\ op.op \in -SEMAEM .. SEMAEM
          /\ ~w.has => ~(Cardinality(has_undo) >= SEMMNU)
          /\ k \notin DOMAIN w.aoe => ~(Cardinality(DOMAIN w.aoe) >= SEMUME)
          /\ k \in DOMAIN w.aoe => w.aoe[k] - op.op \in -SEMAEM .. SEMAEM
      BY <1>2, <1>4, <2>3 DEF AoeError, SemAssumption
    <3>2. Cardinality(DOMAIN w.aoe) \in Nat /\ SEMUME \in Nat
      BY <1>1, AoesFacts, FS_CardinalityType DEF SemAssumption
    <3>3. n.aoe \in Aoes(Keys)
      BY <1>1, <1>2, <2>1, <2>3, <3>1, <3>2, AoesAdd
    <3>4. Cardinality(has_undo) \in Nat /\ SEMMNU \in Nat
      BY FS_CardinalityType DEF Tables, SemAssumption
    <3>5. w.has \/ Cardinality(has_undo) < SEMMNU
      BY <1>1, <3>1, <3>4
    <3> QED BY <2>1, <2>3, <3>3, <3>5 DEF Working
  <2> QED BY <2>2, <2>3
<1>7. n.end = "ok" /\ n.done = i + 1
      /\ n = [sem |-> n.sem, aoe |-> n.aoe, has |-> n.has, woke |-> n.woke,
              end |-> n.end, done |-> n.done]
  <2>1. w = [sem |-> w.sem, aoe |-> w.aoe, has |-> w.has, woke |-> w.woke,
             end |-> w.end, done |-> w.done]
    BY DEF Working
  <2> DEFINE cleared == Cleared(cell, op.op)
      s == [val |-> cell.val + op.op,
            semncnt |-> IF "semncnt" \in cleared THEN 0 ELSE cell.semncnt,
            semzcnt |-> IF "semzcnt" \in cleared THEN 0 ELSE cell.semzcnt]
      a == IF op.undo /\ op.op # 0 THEN semaoe(w.aoe, op.op, k) ELSE w.aoe
      h == w.has \/ (op.undo /\ op.op # 0)
      c == w.woke \cup (cleared \X {x})
  <2>2. n = [w EXCEPT !.sem = [w.sem EXCEPT ![x] = s], !.aoe = a, !.has = h, !.woke = c,
                      !.done = w.done + 1]
    BY DEF Operate
  <2> HIDE DEF n, cleared, s, a, h, c
  <2>3. n = [sem |-> [w.sem EXCEPT ![x] = s], aoe |-> a, has |-> h, woke |-> c,
             end |-> w.end, done |-> w.done + 1]
    BY <2>1, <2>2
  <2> QED BY <1>1, <2>3
<1> HIDE DEF n
<1>8. n.sem \in [SemNum -> SemCell]
  BY <1>1, <1>5
<1>9. \A c \in Count, y \in SemNum :
        n.sem[y][c] = sem[y][c] \/ (n.sem[y][c] = 0 /\ << c, y >> \in n.woke)
  <2> SUFFICES ASSUME NEW c \in Count, NEW y \in SemNum
               PROVE  n.sem[y][c] = sem[y][c] \/ (n.sem[y][c] = 0 /\ << c, y >> \in n.woke)
    OBVIOUS
  <2>1. w.sem[y][c] = sem[y][c] \/ (w.sem[y][c] = 0 /\ << c, y >> \in n.woke)
    BY <1>5 DEF Working
  <2>2. y # x => n.sem[y] = w.sem[y]
    BY <1>1, <1>5
  <2>3. n.sem[x][c] = w.sem[x][c] \/ (n.sem[x][c] = 0 /\ << c, x >> \in n.woke)
    BY <1>5
  <2> QED BY <2>1, <2>2, <2>3
<1>10. n \in [sem : [SemNum -> SemCell], aoe : Aoes(Keys), has : BOOLEAN,
              woke : SUBSET Chan, end : Ends, done : 0 .. i + 1]
  BY <1>5, <1>6, <1>7, <1>8 DEF Ends
<1> QED BY <1>6, <1>7, <1>9, <1>10 DEF Working, n

LEMMA AfterStep ==
    ASSUME NEW p, NEW ops, Len(ops) \in Nat, NEW base, NEW s, NEW f, After(p, ops, base, s, f),
           NEW i \in 0 .. Len(ops) - 1
    PROVE  f[i + 1] = Try(f[i], ops[i + 1], base, s)
BY DEF After

LEMMA BackStep ==
    ASSUME NEW w, NEW ops, w.done \in Nat, NEW base, NEW s, NEW f, Back(w, ops, base, s, f),
           NEW j \in 0 .. w.done - 1
    PROVE  f[j + 1] = TakeBack(f[j], ops[w.done - j], base, s)
<1>1. f[j + 1] = TakeBack(f[j + 1 - 1], ops[w.done - (j + 1) + 1], base, s)
  BY DEF Back
<1>2. j + 1 - 1 = j /\ w.done - (j + 1) + 1 = w.done - j
  OBVIOUS
<1> QED BY <1>1, <1>2

LEMMA StartWorks ==
    ASSUME Tables, Adjusting, NEW p \in Proc
    PROVE  Working(Start(p), p, 0)
<1> DEFINE w == Start(p)
<1>1. /\ w.sem = sem /\ w.aoe = undo[p] /\ w.has = (p \in has_undo)
      /\ w.woke = {} /\ w.end = "ok" /\ w.done = 0
      /\ w = [sem |-> w.sem, aoe |-> w.aoe, has |-> w.has, woke |-> w.woke,
              end |-> w.end, done |-> w.done]
  BY DEF Start
<1>2. undo[p] \in Aoes(Keys) /\ (DOMAIN undo[p] # {} => p \in has_undo)
  BY DEF Adjusting
<1>3. sem \in [SemNum -> SemCell]
  BY DEF Tables
<1> HIDE DEF w
<1>4. w \in [sem : [SemNum -> SemCell], aoe : Aoes(Keys), has : BOOLEAN,
             woke : SUBSET Chan, end : Ends, done : 0 .. 0]
  <2>1. w.sem \in [SemNum -> SemCell] /\ w.aoe \in Aoes(Keys)
    BY <1>1, <1>2, <1>3
  <2>2. w.has \in BOOLEAN
    BY <1>1
  <2>3. w.woke \in SUBSET Chan /\ w.end \in Ends /\ w.done \in 0 .. 0
    BY <1>1 DEF Ends
  <2> QED BY <1>1, <2>1, <2>2, <2>3
<1> QED BY <1>1, <1>2, <1>4 DEF Working, w

LEMMA WorkingForm ==
    ASSUME NEW w, NEW p, NEW i \in Nat, Working(w, p, i)
    PROVE  /\ w = [sem |-> w.sem, aoe |-> w.aoe, has |-> w.has, woke |-> w.woke,
                   end |-> w.end, done |-> w.done]
           /\ w.sem \in [SemNum -> SemCell] /\ w.aoe \in Aoes(Keys) /\ w.has \in BOOLEAN
           /\ w.woke \in SUBSET Chan /\ w.end \in Ends /\ w.done \in 0 .. i
BY DEF Working

LEMMA VerdictType ==
    ASSUME NEW w, NEW op \in Op, NEW x, NEW k
    PROVE  Verdict(w, op, x, k) \in Ends
<1>1. op.op \in Int
  BY DEF Op
<1>2. \A v : AoeError(w, v, k) \in Ends
  BY DEF AoeError, Ends
<1> QED BY <1>1, <1>2 DEF Verdict, Ends

\* One turn of the loop: it is over already, or the operation is done, or it
\* ends the loop.
LEMMA TryWorks ==
    ASSUME SemAssumption, Tables, Apart, NEW p \in Proc, NEW ops, NEW base, NEW s,
           Fit(ops, base, s),
           NEW i \in 0 .. Len(ops) - 1, NEW w, Working(w, p, i)
    PROVE  LET op == ops[i + 1]
               v == Verdict(w, op, base + op.num, << s, op.num >>)
               n == Try(w, op, base, s)
           IN /\ Working(n, p, i + 1)
              /\ \/ w.end # "ok" /\ n = w
                 \/ /\ w.end = "ok" /\ v = "ok"
                    /\ n = Operate(w, op, base + op.num, << s, op.num >>)
                    /\ n.end = "ok"
                 \/ /\ w.end = "ok" /\ n.end # "ok" /\ n.done = w.done
                    /\ n.sem = w.sem /\ n.aoe = w.aoe
<1> DEFINE op == ops[i + 1]
           x == base + op.num
           k == << s, op.num >>
           v == Verdict(w, op, x, k)
           n == Try(w, op, base, s)
<1>1. i \in Nat /\ i + 1 \in 1 .. Len(ops) /\ Len(ops) \in Nat
  BY DEF Fit
<1>2. op \in Op /\ x \in SemNum /\ k \in Keys
  BY <1>1, FitKey
<1>3. CASE w.end # "ok"
  <2>1. n = w
    BY <1>3 DEF Try
  <2> HIDE DEF n
  <2>2. Working(w, p, i + 1)
    <3>1. w.done \in 0 .. i /\ w.done # i
      BY <1>3, <1>1, WorkingForm DEF Working
    <3>2. w.done \in 0 .. i + 1 /\ w.done # i + 1
      BY <1>1, <3>1
    <3>3. w \in [sem : [SemNum -> SemCell], aoe : Aoes(Keys), has : BOOLEAN,
                 woke : SUBSET Chan, end : Ends, done : 0 .. i + 1]
      <4>1. /\ w = [sem |-> w.sem, aoe |-> w.aoe, has |-> w.has, woke |-> w.woke,
                     end |-> w.end, done |-> w.done]
            /\ w.sem \in [SemNum -> SemCell] /\ w.aoe \in Aoes(Keys) /\ w.has \in BOOLEAN
            /\ w.woke \in SUBSET Chan /\ w.end \in Ends
        BY <1>1, WorkingForm
      <4> QED BY <3>2, <4>1
    <3> QED BY <1>3, <3>2, <3>3 DEF Working
  <2> QED BY <1>3, <2>1, <2>2 DEF n
<1>4. CASE w.end = "ok" /\ v = "ok"
  <2>1. n = Operate(w, op, x, k)
    BY <1>4 DEF Try
  <2> HIDE DEF n, op
  <2>2. Working(n, p, i + 1)
    BY <1>1, <1>2, <1>4, <2>1, OperateWorks
  <2>3. n.done = i + 1
    <3>1. w.done = i
      BY <1>4 DEF Working
    <3>2. w = [sem |-> w.sem, aoe |-> w.aoe, has |-> w.has, woke |-> w.woke,
               end |-> w.end, done |-> w.done]
      BY <1>1, WorkingForm
    <3> QED BY <2>1, <3>1, <3>2 DEF Operate
  <2>4. n.end = "ok"
    BY <2>2, <2>3 DEF Working
  <2> QED BY <1>4, <2>1, <2>2, <2>4 DEF n, op
<1>5. CASE w.end = "ok" /\ v # "ok"
  <2>1. n = [w EXCEPT !.end = v]
    BY <1>5 DEF Try
  <2>2. v \in Ends
    BY <1>2, VerdictType
  <2> HIDE DEF n, op, v
  <2>3. w = [sem |-> w.sem, aoe |-> w.aoe, has |-> w.has, woke |-> w.woke,
             end |-> w.end, done |-> w.done]
    BY <1>1, WorkingForm
  <2>4. n = [sem |-> w.sem, aoe |-> w.aoe, has |-> w.has, woke |-> w.woke,
             end |-> v, done |-> w.done]
    BY <2>1, <2>3
  <2>5. n.done = i /\ i # i + 1 /\ i \in 0 .. i + 1 /\ n.end # "ok"
    BY <1>1, <1>5, <2>4 DEF Working
  <2>6. n \in [sem : [SemNum -> SemCell], aoe : Aoes(Keys), has : BOOLEAN,
               woke : SUBSET Chan, end : Ends, done : 0 .. i + 1]
    BY <1>1, <2>2, <2>4, <2>5, WorkingForm
  <2>7. Working(n, p, i + 1)
    BY <2>4, <2>5, <2>6 DEF Working
  <2> QED BY <1>5, <2>4, <2>5, <2>7 DEF n, op
<1> QED BY <1>3, <1>4, <1>5

LEMMA AllWork ==
    ASSUME SemAssumption, Tables, Apart, Adjusting, NEW p \in Proc, NEW ops, NEW base, NEW s,
           Fit(ops, base, s), NEW f, After(p, ops, base, s, f)
    PROVE  \A i \in 0 .. Len(ops) : Working(f[i], p, i)
<1> DEFINE S == {i \in 0 .. Len(ops) : Working(f[i], p, i)}
<1>1. Len(ops) \in Nat
  BY DEF Fit
<1>2. 0 \in S
  BY <1>1, StartWorks DEF After
<1>3. ASSUME NEW i \in 0 .. Len(ops) - 1, i \in S PROVE i + 1 \in S
  <2>1. f[i + 1] = Try(f[i], ops[i + 1], base, s)
    BY <1>1 DEF After
  <2>2. Working(f[i], p, i)
    BY <1>3
  <2>3. Working(Try(f[i], ops[i + 1], base, s), p, i + 1)
    BY <2>2, TryWorks
  <2> QED BY <1>1, <2>1, <2>3
<1> HIDE DEF S
<1>4. \A i \in 0 .. Len(ops) : i \in S
  BY <1>1, <1>2, <1>3, UpTo
<1> QED BY <1>4 DEF S

\* The pass stands where its last operation left it.
LEMMA Reached ==
    ASSUME SemAssumption, Tables, Apart, Adjusting, NEW p \in Proc, NEW ops, NEW base, NEW s,
           Fit(ops, base, s), NEW f, After(p, ops, base, s, f), NEW m \in 0 .. Len(ops)
    PROVE  /\ \A j \in 0 .. f[m].done : f[j].end = "ok"
           /\ f[m].sem = f[f[m].done].sem /\ f[m].aoe = f[f[m].done].aoe
<1> DEFINE Good(i) == /\ \A j \in 0 .. f[i].done : f[j].end = "ok"
                      /\ f[i].sem = f[f[i].done].sem /\ f[i].aoe = f[f[i].done].aoe
           S == {i \in 0 .. Len(ops) : Good(i)}
<1>1. Len(ops) \in Nat
  BY DEF Fit
<1>2. \A i \in 0 .. Len(ops) : Working(f[i], p, i)
  BY AllWork
<1>3. 0 \in S
  <2>1. f[0] = Start(p) /\ f[0].done = 0 /\ f[0].end = "ok"
    BY <1>1 DEF After, Start
  <2> QED BY <1>1, <2>1
<1>4. ASSUME NEW i \in 0 .. Len(ops) - 1, i \in S PROVE i + 1 \in S
  <2>1. f[i + 1] = Try(f[i], ops[i + 1], base, s)
    BY <1>1 DEF After
  <2>2. Working(f[i], p, i) /\ Working(f[i + 1], p, i + 1)
    BY <1>1, <1>2
  <2>3. \/ f[i].end # "ok" /\ f[i + 1] = f[i]
        \/ f[i].end = "ok" /\ f[i + 1].end = "ok"
        \/ /\ f[i].end = "ok" /\ f[i + 1].done = f[i].done
           /\ f[i + 1].sem = f[i].sem /\ f[i + 1].aoe = f[i].aoe
    <3> DEFINE op == ops[i + 1]
               v == Verdict(f[i], op, base + op.num, << s, op.num >>)
               n == Try(f[i], op, base, s)
    <3>1. \/ f[i].end # "ok" /\ n = f[i]
          \/ /\ f[i].end = "ok" /\ v = "ok"
             /\ n = Operate(f[i], op, base + op.num, << s, op.num >>)
             /\ n.end = "ok"
          \/ /\ f[i].end = "ok" /\ n.end # "ok" /\ n.done = f[i].done
             /\ n.sem = f[i].sem /\ n.aoe = f[i].aoe
      BY <2>2, TryWorks
    <3> HIDE DEF n, v
    <3>2. f[i + 1] = n
      BY <2>1 DEF n
    <3> QED BY <3>1, <3>2
  <2>4. Good(i)
    BY <1>4
  <2>5. CASE f[i].end # "ok" /\ f[i + 1] = f[i]
    BY <1>1, <2>4, <2>5
  <2>6. CASE f[i].end = "ok" /\ f[i + 1].end = "ok"
    <3>1. f[i].done = i /\ f[i + 1].done = i + 1
      BY <2>2, <2>6 DEF Working
    <3>2. \A j \in 0 .. i + 1 : f[j].end = "ok"
      BY <1>1, <2>4, <2>6, <3>1
    <3> QED BY <1>1, <3>1, <3>2
  <2>7. CASE /\ f[i].end = "ok" /\ f[i + 1].done = f[i].done
             /\ f[i + 1].sem = f[i].sem /\ f[i + 1].aoe = f[i].aoe
    BY <1>1, <2>4, <2>7
  <2> QED BY <2>3, <2>5, <2>6, <2>7
<1> HIDE DEF S
<1>5. \A i \in 0 .. Len(ops) : i \in S
  BY <1>1, <1>3, <1>4, UpTo
<1> QED BY <1>5 DEF S

\* w with the values and the adjustments of v.
Undone(w, v) ==
    [sem |-> [x \in SemNum |-> [val |-> v.sem[x].val, semncnt |-> w.sem[x].semncnt,
                                semzcnt |-> w.sem[x].semzcnt]],
     aoe |-> v.aoe, has |-> w.has, woke |-> w.woke, end |-> w.end, done |-> w.done]

\* One operation done and taken back.
LEMMA TakeBackUndoes ==
    ASSUME SemAssumption, Tables, NEW p \in Proc, NEW i \in Nat, NEW v, Working(v, p, i),
           NEW op \in Op, NEW base \in Nat, NEW s, base + op.num \in SemNum, NEW w
    PROVE  TakeBack(Undone(w, Operate(v, op, base + op.num, << s, op.num >>)), op, base, s)
             = Undone(w, v)
<1> DEFINE x == base + op.num
           k == << s, op.num >>
           n == Operate(v, op, x, k)
           b == TakeBack(Undone(w, n), op, base, s)
<1>1. v = [sem |-> v.sem, aoe |-> v.aoe, has |-> v.has, woke |-> v.woke,
           end |-> v.end, done |-> v.done]
      /\ v.sem \in [SemNum -> SemCell] /\ v.aoe \in Aoes(Keys)
  BY WorkingForm
<1>2. op.op \in Int /\ op.undo \in BOOLEAN /\ x \in SemNum
  BY DEF Op
<1>3. /\ n.sem[x].val = v.sem[x].val + op.op
      /\ \A y \in SemNum : y # x => n.sem[y].val = v.sem[y].val
      /\ n.aoe = IF op.undo /\ op.op # 0 THEN semaoe(v.aoe, op.op, k) ELSE v.aoe
  BY <1>1, <1>2 DEF Operate
<1>4. b = [sem |-> [Undone(w, n).sem EXCEPT ![x].val = @ - op.op],
           aoe |-> IF op.undo /\ op.op # 0 THEN semaoe(n.aoe, -op.op, k) ELSE n.aoe,
           has |-> w.has, woke |-> w.woke, end |-> w.end, done |-> w.done]
  <2> DEFINE u == Undone(w, n)
             e == [u.sem EXCEPT ![x].val = @ - op.op]
             a == IF op.undo /\ op.op # 0 THEN semaoe(u.aoe, -op.op, k) ELSE u.aoe
  <2>1. b = [u EXCEPT !.sem = e, !.aoe = a]
    BY DEF TakeBack
  <2>2. u = [sem |-> u.sem, aoe |-> u.aoe, has |-> u.has, woke |-> u.woke,
             end |-> u.end, done |-> u.done]
    BY DEF Undone
  <2>3. /\ u.aoe = n.aoe /\ u.has = w.has /\ u.woke = w.woke
        /\ u.end = w.end /\ u.done = w.done
    BY DEF Undone
  <2> HIDE DEF n, b, e, a, u
  <2>4. b = [sem |-> e, aoe |-> a, has |-> u.has, woke |-> u.woke,
             end |-> u.end, done |-> u.done]
    BY <2>1, <2>2
  <2> QED BY <2>3, <2>4 DEF a, e, u
<1>5. (IF op.undo /\ op.op # 0 THEN semaoe(n.aoe, -op.op, k) ELSE n.aoe) = v.aoe
  BY <1>1, <1>2, <1>3, AoesBack
<1> HIDE DEF n
<1>6. [Undone(w, n).sem EXCEPT ![x].val = @ - op.op] = Undone(w, v).sem
  <2>1. v.sem[x].val \in Int
    BY <1>1, <1>2 DEF SemCell, SemVal
  <2>2. v.sem[x].val + op.op - op.op = v.sem[x].val
    BY <1>2, <2>1
  <2> DEFINE cells == Undone(w, n).sem
             l == [cells EXCEPT ![x].val = @ - op.op]
             r == Undone(w, v).sem
  <2>3. \A y \in SemNum :
          /\ cells[y] = [val |-> n.sem[y].val, semncnt |-> w.sem[y].semncnt,
                         semzcnt |-> w.sem[y].semzcnt]
          /\ r[y] = [val |-> v.sem[y].val, semncnt |-> w.sem[y].semncnt,
                     semzcnt |-> w.sem[y].semzcnt]
    BY DEF Undone
  <2>4. /\ cells = [y \in SemNum |-> cells[y]] /\ DOMAIN cells = SemNum
        /\ r = [y \in SemNum |-> r[y]]
    BY DEF Undone
  <2> HIDE DEF cells, r, x
  <2>5. l = [y \in SemNum |-> l[y]]
    BY <2>4
  <2>6. \A y \in SemNum : y # x => l[y] = r[y]
    <3> SUFFICES ASSUME NEW y \in SemNum, y # x PROVE l[y] = r[y]
      OBVIOUS
    <3>1. l[y] = cells[y]
      BY <2>4
    <3>2. cells[y] = r[y]
      BY <1>3, <2>3
    <3> QED BY <3>1, <3>2
  <2>7. l[x] = r[x]
    <3>1. cells[x] = [val |-> n.sem[x].val, semncnt |-> w.sem[x].semncnt,
                      semzcnt |-> w.sem[x].semzcnt]
      BY <1>2, <2>3
    <3>2. cells[x].val = n.sem[x].val
      BY <3>1
    <3>3. l[x] = [cells[x] EXCEPT !.val = v.sem[x].val]
      <4>1. l[x] = [cells[x] EXCEPT !.val = n.sem[x].val - op.op]
        BY <1>2, <2>4, <3>2
      <4>2. n.sem[x].val - op.op = v.sem[x].val
        BY <1>2, <1>3, <2>1
      <4> QED BY <4>1, <4>2
    <3>4. l[x] = [val |-> v.sem[x].val, semncnt |-> w.sem[x].semncnt,
                  semzcnt |-> w.sem[x].semzcnt]
      BY <3>1, <3>3
    <3> QED BY <1>2, <2>3, <3>4
  <2> HIDE DEF l
  <2>8. l = r
    BY <2>4, <2>5, <2>6, <2>7
  <2> QED BY <2>8 DEF l, r, cells
<1>7. Undone(w, v) = [sem |-> Undone(w, v).sem, aoe |-> v.aoe, has |-> w.has, woke |-> w.woke,
                      end |-> w.end, done |-> w.done]
  BY DEF Undone
<1> QED BY <1>4, <1>5, <1>6, <1>7 DEF n

\* The turn of semundo() after j of d, and the turn i of semop() that it undoes.
LEMMA TurnBack ==
    ASSUME NEW m \in Nat, NEW d \in 0 .. m, NEW j \in 0 .. d - 1
    PROVE  LET i == d - j - 1
           IN /\ i \in 0 .. m - 1 /\ i \in Nat /\ i + 1 \in 1 .. m
              /\ i \in 0 .. d /\ i + 1 \in 0 .. d
              /\ d - j = i + 1 /\ d - (j + 1) = i /\ d - (j + 1) + 1 = i + 1
              /\ j + 1 \in 0 .. d
OBVIOUS

\* semundo() restores every value and every adjustment, and only those.
LEMMA Rollback ==
    ASSUME SemAssumption, Tables, Apart, Adjusting, NEW p \in Proc, NEW ops, NEW base, NEW s,
           Fit(ops, base, s)
    PROVE  LET w == Perform(p, ops, base, s)
           IN semundo(w, ops, base, s) = Undone(w, Start(p))
<1> DEFINE w == Perform(p, ops, base, s)
           m == Len(ops)
<1>1. m \in Nat /\ ops \in Seq(Op)
  BY DEF Fit
<1>2. PICK f : After(p, ops, base, s, f) /\ w = f[m]
  BY <1>1, AfterExists
<1>3. \A i \in 0 .. m : Working(f[i], p, i)
  BY <1>2, AllWork
<1>4. w.done \in 0 .. m
  <2>1. Working(w, p, m)
    BY <1>1, <1>2, <1>3
  <2> HIDE DEF w, m
  <2> QED BY <1>1, <2>1, WorkingForm
<1>5. PICK g : Back(w, ops, base, s, g) /\ semundo(w, ops, base, s) = g[w.done]
  BY <1>4, BackExists
<1>6. /\ \A j \in 0 .. w.done : f[j].end = "ok"
      /\ w.sem = f[w.done].sem /\ w.aoe = f[w.done].aoe
  BY <1>1, <1>2, Reached
<1> HIDE DEF w
<1> DEFINE d == w.done
           S == {j \in 0 .. d : g[j] = Undone(w, f[d - j])}
<1>7. 0 \in S
  <2>1. g[0] = w
    BY <1>4, <1>5 DEF Back
  <2>2. w = [sem |-> w.sem, aoe |-> w.aoe, has |-> w.has, woke |-> w.woke,
             end |-> w.end, done |-> w.done] /\ w.sem \in [SemNum -> SemCell]
    BY <1>1, <1>2, <1>3, WorkingForm
  <2>3. w.sem = [x \in SemNum |-> [val |-> w.sem[x].val, semncnt |-> w.sem[x].semncnt,
                                   semzcnt |-> w.sem[x].semzcnt]]
    BY <2>2 DEF SemCell
  <2>4. w = Undone(w, f[d])
    BY <1>6, <2>2, <2>3 DEF Undone
  <2> QED BY <1>4, <2>1, <2>4
<1>8. ASSUME NEW j \in 0 .. d - 1, j \in S PROVE j + 1 \in S
  <2> DEFINE i == d - j - 1
             op == ops[i + 1]
  <2>1. /\ i \in 0 .. m - 1 /\ i \in Nat /\ i + 1 \in 1 .. m /\ i \in 0 .. d /\ i + 1 \in 0 .. d
        /\ d - j = i + 1 /\ d - (j + 1) = i /\ d - (j + 1) + 1 = i + 1
        /\ j + 1 \in 0 .. d
    BY <1>1, <1>4, TurnBack
  <2>2. g[j + 1] = TakeBack(g[j], op, base, s)
    <3>1. g[j + 1] = TakeBack(g[j], ops[w.done - j], base, s)
      BY <1>4, <1>5, BackStep
    <3> QED BY <2>1, <3>1
  <2>3. g[j] = Undone(w, f[i + 1])
    BY <1>8, <2>1
  <2>4. op \in Op /\ base + op.num \in SemNum
    BY <2>1, FitKey
  <2>5. Working(f[i], p, i) /\ f[i].end = "ok" /\ f[i + 1].end = "ok"
    BY <1>3, <1>6, <2>1
  <2>6. f[i + 1] = Try(f[i], op, base, s)
    <3> HIDE DEF i
    <3> QED BY <1>1, <1>2, <2>1, AfterStep
  <2>7. f[i + 1] = Operate(f[i], op, base + op.num, << s, op.num >>)
    BY <2>1, <2>5, <2>6, TryWorks
  <2>8. base \in Nat
    <3>1. s % NIDS \in Id
      BY Index DEF Fit
    <3> QED BY <3>1 DEF Fit, Tables, SemNum, SemAssumption
  <2> HIDE DEF op, i
  <2>9. g[j + 1] = Undone(w, f[i])
    BY <2>1, <2>2, <2>3, <2>4, <2>5, <2>7, <2>8, TakeBackUndoes
  <2> QED BY <2>1, <2>9
<1>9. d \in Nat
  BY <1>4
<1> HIDE DEF S
<1>10. \A j \in 0 .. d : j \in S
  BY <1>7, <1>8, <1>9, UpTo
<1>11. g[d] = Undone(w, f[0])
  BY <1>9, <1>10 DEF S
<1>12. f[0] = Start(p)
  BY <1>1, <1>2 DEF After
<1> QED BY <1>5, <1>11, <1>12 DEF w

\* What a whole pass leaves behind: w is how far it came, u the same rolled
\* back, when the list was not done.
PassDone(p, ops, w, u) ==
    /\ u.sem \in [SemNum -> SemCell] /\ u.aoe \in Aoes(Keys)
    /\ DOMAIN u.aoe # {} \/ p \in has_undo => u.has
    /\ u.has => p \in has_undo \/ Cardinality(has_undo) < SEMMNU
    /\ w.woke \in SUBSET Chan
    /\ \A c \in Count, x \in SemNum :
        u.sem[x][c] = sem[x][c] \/ (u.sem[x][c] = 0 /\ << c, x >> \in w.woke)
    /\ w.end # "ok" =>
        /\ w.done + 1 \in 1 .. Len(ops)
        /\ u.aoe = undo[p] /\ \A x \in SemNum : u.sem[x].val = sem[x].val

LEMMA PassResult ==
    ASSUME SemAssumption, Tables, Apart, Adjusting, NEW p \in Proc, NEW ops, NEW base, NEW s,
           Fit(ops, base, s)
    PROVE  LET w == Perform(p, ops, base, s)
               u == IF w.end = "ok" THEN w ELSE semundo(w, ops, base, s)
           IN PassDone(p, ops, w, u)
<1> DEFINE w == Perform(p, ops, base, s)
           u == IF w.end = "ok" THEN w ELSE semundo(w, ops, base, s)
           m == Len(ops)
<1>1. m \in Nat /\ ops \in Seq(Op)
  BY DEF Fit
<1>2. Working(w, p, m)
  <2>1. PICK f : After(p, ops, base, s, f) /\ w = f[m]
    BY <1>1, AfterExists
  <2>2. \A i \in 0 .. m : Working(f[i], p, i)
    BY <2>1, AllWork
  <2> QED BY <1>1, <2>1, <2>2
<1>3. w.end # "ok" => u = Undone(w, Start(p))
  BY Rollback
<1> HIDE DEF w
<1>4. /\ w.sem \in [SemNum -> SemCell] /\ w.aoe \in Aoes(Keys) /\ w.has \in BOOLEAN
      /\ w.woke \in SUBSET Chan /\ w.end \in Ends /\ w.done \in 0 .. m
  BY <1>1, <1>2, WorkingForm
<1>5. /\ DOMAIN w.aoe # {} \/ p \in has_undo => w.has
      /\ w.has => p \in has_undo \/ Cardinality(has_undo) < SEMMNU
      /\ \A c \in Count, x \in SemNum :
          w.sem[x][c] = sem[x][c] \/ (w.sem[x][c] = 0 /\ << c, x >> \in w.woke)
      /\ w.end # "ok" => w.done + 1 \in 1 .. m
  <2>1. w.end # "ok" => w.done # m
    BY <1>2 DEF Working
  <2>2. w.end # "ok" => w.done + 1 \in 1 .. m
    BY <1>1, <1>4, <2>1
  <2> QED BY <1>2, <2>2 DEF Working
<1>6. ASSUME w.end = "ok" PROVE PassDone(p, ops, w, u)
  <2>1. u = w
    BY <1>6
  <2> HIDE DEF u
  <2> QED BY <1>4, <1>5, <1>6, <2>1 DEF PassDone
<1>7. ASSUME w.end # "ok" PROVE PassDone(p, ops, w, u)
  <2>1. u = Undone(w, Start(p))
    BY <1>3, <1>7
  <2> HIDE DEF u
  <2>2. /\ u.sem = [x \in SemNum |-> [val |-> sem[x].val, semncnt |-> w.sem[x].semncnt,
                                      semzcnt |-> w.sem[x].semzcnt]]
        /\ u.aoe = undo[p] /\ u.has = w.has
    BY <2>1 DEF Undone, Start
  <2>3. \A x \in SemNum : sem[x].val \in SemVal /\ w.sem[x].semncnt \in Nat /\ w.sem[x].semzcnt \in Nat
    BY <1>4 DEF Tables, SemCell
  <2>4. u.sem \in [SemNum -> SemCell]
    BY <2>2, <2>3 DEF SemCell
  <2>5. \A x \in SemNum : u.sem[x].val = sem[x].val
    BY <2>2
  <2>6. \A c \in Count, x \in SemNum : u.sem[x][c] = w.sem[x][c]
    BY <2>2 DEF Count
  <2>7. undo[p] \in Aoes(Keys) /\ (DOMAIN undo[p] # {} => p \in has_undo)
    BY DEF Adjusting
  <2>8. DOMAIN u.aoe # {} \/ p \in has_undo => u.has
    BY <1>5, <2>2, <2>7
  <2>9. \A c \in Count, x \in SemNum :
          u.sem[x][c] = sem[x][c] \/ (u.sem[x][c] = 0 /\ << c, x >> \in w.woke)
    <3> SUFFICES ASSUME NEW c \in Count, NEW x \in SemNum
                 PROVE  \/ u.sem[x][c] = sem[x][c]
                        \/ u.sem[x][c] = 0 /\ << c, x >> \in w.woke
      OBVIOUS
    <3>1. w.sem[x][c] = sem[x][c] \/ (w.sem[x][c] = 0 /\ << c, x >> \in w.woke)
      BY <1>5
    <3>2. u.sem[x][c] = w.sem[x][c]
      BY <2>6
    <3> QED BY <3>1, <3>2
  <2> QED BY <1>4, <1>5, <1>7, <2>2, <2>4, <2>5, <2>7, <2>8, <2>9 DEF PassDone
<1> QED BY <1>6, <1>7 DEF w, u

-----------------------------------------------------------------------------
(* Steps that leave the sets alone.                                        *)

LEMMA SameSets ==
    ASSUME sema' = sema
    PROVE  /\ Keys' = Keys /\ Allocated' = Allocated
           /\ \A s : semconv(s)' <=> semconv(s)
           /\ \A i : semid(i)' = semid(i) /\ Members(i)' = Members(i)
           /\ \A c : (Named(c)' <=> Named(c)) /\ (InRange(c)' <=> InRange(c))
BY DEF Keys, Allocated, semconv, semid, Members, Named, InRange

LEMMA SameApart ==
    ASSUME Apart, sema' = sema, semmap' = semmap, lost' = lost
    PROVE  Apart'
BY DEF Apart, Allocated, Members, Starts

\* A process that is where it was, or was woken, or is in user mode again is
\* all right when each count that became 0 woke its sleepers.
LEMMA StillHeld ==
    ASSUME IInv, sema' = sema, NEW W, NEW q \in Proc,
           \A c \in Count, x \in SemNum :
               sem[x][c] > 0 => sem'[x][c] > 0 \/ << c, x >> \in W,
           \/ pc'[q] \in {"user", "gone"}
           \/ /\ pc'[q] = (IF pc[q] = "asleep" /\ wchan[q] \in W THEN "woken" ELSE pc[q])
              /\ wchan'[q] = wchan[q] /\ arg'[q] = arg[q]
    PROVE  Held(q)'
<1>1. CASE pc'[q] \in {"user", "gone"}
  BY <1>1 DEF Held
<1>2. CASE /\ pc'[q] = (IF pc[q] = "asleep" /\ wchan[q] \in W THEN "woken" ELSE pc[q])
           /\ wchan'[q] = wchan[q] /\ arg'[q] = arg[q]
  <2>1. Held(q)
    BY DEF IInv
  <2>2. ASSUME pc'[q] = "asleep"
        PROVE  /\ pc[q] = "asleep"
               /\ sem'[wchan[q][2]][wchan[q][1]] > 0
    <3>1. pc[q] = "asleep" /\ wchan[q] \notin W
      BY <1>2, <2>2
    <3>2. wchan[q] \in Chan /\ sem[wchan[q][2]][wchan[q][1]] > 0
      BY <2>1, <3>1 DEF Held
    <3>3. PICK c \in Count, x \in SemNum : wchan[q] = << c, x >>
      BY <3>2 DEF Chan, Count
    <3> QED BY <3>1, <3>2, <3>3
  <2>3. /\ semconv(arg[q].semid)' <=> semconv(arg[q].semid)
        /\ Named(arg[q])' <=> Named(arg[q])
        /\ InRange(arg[q])' <=> InRange(arg[q])
        /\ Members(arg[q].sp)' = Members(arg[q].sp)
    BY <1>2 DEF semconv, semid, Members, Named, InRange
  <2>4. pc[q] = "asleep" \/ pc'[q] = pc[q]
    BY <1>2
  <2> QED BY <1>2, <2>1, <2>2, <2>3, <2>4 DEF Held
<1> QED BY <1>1, <1>2

LEMMA SameAdjusting ==
    ASSUME Adjusting, sema' = sema, undo' = undo, has_undo' = has_undo
    PROVE  Adjusting'
BY SameSets DEF Adjusting

\* semunrm(), when the adjustments that stay are of sets that stay.
LEMMA SemunrmKept ==
    ASSUME SemAssumption, Adjusting, NEW s, NEW nums, undo' = semunrm(s, nums),
           has_undo' = has_undo,
           \A k \in Keys : ~(k[1] = s /\ k[2] \in nums) => k \in Keys'
    PROVE  Adjusting'
<1> DEFINE K(p) == {k \in DOMAIN undo[p] : ~(k[1] = s /\ k[2] \in nums)}
<1>1. ASSUME NEW p \in Proc
      PROVE  Restrict(undo[p], K(p)) \in Aoes(Keys') /\ DOMAIN Restrict(undo[p], K(p)) = K(p)
  <2>1. undo[p] \in Aoes(Keys)
    BY DEF Adjusting
  <2>2. DOMAIN undo[p] \subseteq Keys
    BY <2>1, AoesFacts
  <2>3. K(p) \in SUBSET DOMAIN undo[p] /\ K(p) \subseteq Keys'
    BY <2>2
  <2> HIDE DEF K
  <2> QED BY <2>1, <2>3, AoesRestrict DEF Restrict
<1>2. undo' = [p \in Proc |-> Restrict(undo[p], K(p))]
  BY DEF semunrm
<1>3. \A p \in Proc : K(p) \subseteq DOMAIN undo[p]
  OBVIOUS
<1> HIDE DEF K
<1>4. undo' \in [Proc -> Aoes(Keys')]
  BY <1>1, <1>2
<1>5. \A p \in Proc : DOMAIN undo'[p] # {} => p \in has_undo'
  BY <1>1, <1>2, <1>3 DEF Adjusting
<1> QED BY <1>4, <1>5 DEF Adjusting

CallType == [call : {"none", "semop", "SETALL", "IPC_SET"}, semid : Nat,
             sp : Id, ops : Seq(Op), again : BOOLEAN]

\* What semconv() says of a call.
LEMMA SemconvOf ==
    ASSUME NEW c, Named(c)
    PROVE  semconv(c.semid) <=> sema[c.sp].alloc /\ c.semid = semid(c.sp)
BY DEF Named, semconv

\* It says yes of every set that there is.
LEMMA SemidOf ==
    ASSUME SemAssumption, Tables, NEW i \in Id
    PROVE  semid(i) \in Nat /\ semid(i) % NIDS = i /\ (sema[i].alloc => semconv(semid(i)))
<1>1. sema[i].seq \in Nat
  BY DEF Tables
<1>2. semid(i) \in Nat /\ semid(i) % NIDS = i
  BY <1>1, Semid DEF semid
<1> QED BY <1>2 DEF semconv

LEMMA AoesMono ==
    ASSUME NEW keys, NEW more, keys \subseteq more, NEW f \in Aoes(keys)
    PROVE  f \in Aoes(more)
BY AoesFacts, AoesIntro

\* Two semaphores of two sets are two.
LEMMA OneSet ==
    ASSUME Apart, NEW i \in Allocated, NEW j \in Allocated, NEW s \in Members(i), s \in Members(j)
    PROVE  i = j
BY DEF Apart

-----------------------------------------------------------------------------
(* The runs of the free map.                                               *)

LEMMA Numbered ==
    ASSUME SemAssumption, NEW S \in SUBSET SemNum
    PROVE  IsFiniteSet(S) /\ Cardinality(S) \in Nat
<1>1. IsFiniteSet(SemNum)
  BY FS_Interval DEF SemNum, SemAssumption
<1>2. IsFiniteSet(S)
  BY <1>1, FS_Subset
<1> QED BY <1>2, FS_CardinalityType

LEMMA Fewer ==
    ASSUME SemAssumption, NEW S \in SUBSET SemNum, NEW T \in SUBSET S
    PROVE  Cardinality(T) <= Cardinality(S)
BY Numbered, FS_Subset

\* One of them goes and another comes.
LEMMA Swapped ==
    ASSUME SemAssumption, NEW S \in SUBSET SemNum, NEW b \in S, NEW e,
           NEW T \in SUBSET ((S \ {b}) \cup {e})
    PROVE  Cardinality(T) <= Cardinality(S)
<1> DEFINE R == S \ {b}
           U == R \cup {e}
<1>1. IsFiniteSet(S) /\ Cardinality(S) \in Nat
  BY Numbered
<1>2. IsFiniteSet(R) /\ Cardinality(R) = Cardinality(S) - 1
  BY <1>1, FS_RemoveElement
<1> HIDE DEF R
<1>3. IsFiniteSet(U) /\ (Cardinality(U) = Cardinality(R) \/ Cardinality(U) = Cardinality(R) + 1)
  BY <1>2, FS_AddElement
<1>4. T \in SUBSET U
  BY DEF R
<1> HIDE DEF U
<1>5. IsFiniteSet(T) /\ Cardinality(T) <= Cardinality(U)
  BY <1>3, <1>4, FS_Subset
<1>6. Cardinality(T) \in Nat /\ Cardinality(U) \in Nat
  BY <1>3, <1>5, FS_CardinalityType
<1> QED BY <1>1, <1>2, <1>3, <1>5, <1>6

\* rmalloc() cuts the front off a run.
LEMMA FrontTaken ==
    ASSUME SemAssumption, semmap \in SUBSET SemNum, NEW n \in Nat \ {0}, Fits(n) # {},
           NEW b, b = rmalloc(n), semmap' = semmap \ (b .. b + n - 1)
    PROVE  /\ b \in SemNum /\ b .. b + n - 1 \subseteq semmap
           /\ Cardinality(Starts') <= Cardinality(Starts)
<1>1. Fits(n) \in SUBSET Nat
  BY DEF Fits, SemNum, SemAssumption
<1>2. \E x \in Fits(n) : \A y \in Fits(n) : x <= y
  BY <1>1, Least
<1>3. b \in Fits(n) /\ \A y \in Fits(n) : b <= y
  BY <1>2 DEF rmalloc
<1>4. b \in Nat /\ b \in SemNum /\ b .. b + n - 1 \subseteq semmap
  BY <1>1, <1>3 DEF Fits
<1>5. b \in Starts
  <2>1. b \in semmap
    BY <1>4
  <2>2. ASSUME b - 1 \in semmap PROVE FALSE
    <3>1. b - 1 \in SemNum
      BY <2>2
    <3>2. b - 1 .. (b - 1) + n - 1 \subseteq semmap
      <4> SUFFICES ASSUME NEW x \in b - 1 .. (b - 1) + n - 1 PROVE x \in semmap
        OBVIOUS
      <4>1. x = b - 1 \/ x \in b .. b + n - 1
        BY <1>4
      <4> QED BY <1>4, <2>2, <4>1
    <3>3. b <= b - 1
      BY <1>3, <3>1, <3>2 DEF Fits
    <3> QED BY <1>4, <3>3
  <2> QED BY <2>1, <2>2 DEF Starts
<1>6. Starts' \subseteq (Starts \ {b}) \cup {b + n}
  <2> SUFFICES ASSUME NEW x \in semmap, x \notin b .. b + n - 1,
                      x - 1 \notin semmap \ (b .. b + n - 1), x # b + n
               PROVE  x \in Starts \ {b}
    BY DEF Starts
  <2>1. x \in Int /\ x # b
    BY <1>4 DEF SemNum, SemAssumption
  <2>2. x - 1 \notin b .. b + n - 1
    BY <1>4, <2>1
  <2> QED BY <2>1, <2>2 DEF Starts
<1>7. Starts \in SUBSET SemNum
  BY DEF Starts
<1>8. Cardinality(Starts') <= Cardinality(Starts)
  BY <1>5, <1>6, <1>7, Swapped
<1> QED BY <1>4, <1>8

\* rmfree() joins a run that is beside the semaphores, at either end, or takes an entry.
LEMMA RunReturned ==
    ASSUME SemAssumption, semmap \in SUBSET SemNum, NEW base \in Nat, NEW n \in Nat,
           NEW S, S = base .. base + n - 1, S \subseteq SemNum, S \cap semmap = {},
           Cardinality(Starts) <= SEMMAP - 2, semmap' = semmap \cup (S \ Lost(S))
    PROVE  Cardinality(Starts') <= SEMMAP - 2
<1>1. /\ Starts \in SUBSET SemNum /\ Starts' \in SUBSET SemNum
      /\ Cardinality(Starts) \in Nat /\ Cardinality(Starts') \in Nat /\ SEMMAP \in Nat
      /\ IsFiniteSet(Starts)
  <2>1. Starts \in SUBSET SemNum /\ Starts' \in SUBSET SemNum
    BY DEF Starts
  <2> QED BY <2>1, Numbered DEF SemAssumption
<1>2. SemNum \subseteq Int
  BY DEF SemNum, SemAssumption
<1>3. CASE Lost(S) = S
  <2>1. semmap' = semmap
    BY <1>3
  <2>2. Starts' = Starts
    BY <2>1 DEF Starts
  <2> QED BY <2>2
<1>4. CASE Lost(S) = {}
  <2>1. semmap' = semmap \cup S
    BY <1>4
  <2>2. Starts' \subseteq Starts \cup {base}
    <3> SUFFICES ASSUME NEW x \in semmap \cup S, x - 1 \notin semmap \cup S, x # base
                 PROVE  x \in Starts
      BY <2>1 DEF Starts
    <3>1. x \notin S
      BY <1>2
    <3> QED BY <3>1 DEF Starts
  <2>3. CASE ~Beside(S) /\ Cardinality(Starts) < SEMMAP - 2
    <3> DEFINE U == Starts \cup {base}
    <3>1. IsFiniteSet(U) /\ (Cardinality(U) = Cardinality(Starts) \/ Cardinality(U) = Cardinality(Starts) + 1)
      BY <1>1, FS_AddElement
    <3> HIDE DEF U
    <3>2. Cardinality(Starts') <= Cardinality(U)
      BY <2>2, <3>1, FS_Subset DEF U
    <3> QED BY <1>1, <2>3, <3>1, <3>2
  <2>4. CASE \E s \in S : s - 1 \in semmap
    <3>1. PICK s \in S : s - 1 \in semmap
      BY <2>4
    <3>2. s = base
      BY <1>2, <3>1
    <3>3. base \notin Starts'
      BY <2>1, <3>1, <3>2 DEF Starts
    <3>4. Cardinality(Starts') <= Cardinality(Starts)
      BY <1>1, <2>2, <3>3, Fewer
    <3> QED BY <1>1, <3>4
  <2>5. CASE \E s \in S : s + 1 \in semmap
    <3>1. PICK s \in S : s + 1 \in semmap
      BY <2>5
    <3>2. s \in Int /\ s + 1 \in Int /\ s + 1 - 1 = s
      BY <1>2, <3>1
    <3>3. s + 1 \in Starts
      BY <3>1, <3>2 DEF Starts
    <3>4. s + 1 \notin Starts'
      BY <2>1, <3>1, <3>2 DEF Starts
    <3>5. Starts' \subseteq (Starts \ {s + 1}) \cup {base}
      BY <2>2, <3>4
    <3>6. Cardinality(Starts') <= Cardinality(Starts)
      BY <1>1, <3>3, <3>5, Swapped
    <3> QED BY <1>1, <3>6
  <2>6. CASE S = {}
    <3>1. Starts' = Starts
      BY <2>1, <2>6 DEF Starts
    <3> QED BY <3>1
  <2>7. S = {} \/ Beside(S) \/ Cardinality(Starts) < SEMMAP - 2
    BY <1>4 DEF Lost
  <2>8. Beside(S) => \E s \in S : s - 1 \in semmap \/ s + 1 \in semmap
    BY DEF Beside
  <2> QED BY <2>3, <2>4, <2>5, <2>6, <2>7, <2>8
<1> QED BY <1>3, <1>4 DEF Lost

-----------------------------------------------------------------------------
(* The steps.                                                              *)

LEMMA InitHolds ==
    ASSUME SemAssumption, Init
    PROVE  IInv
<1>1. Allocated = {}
  BY DEF Init, Allocated
<1>2. Tables
  <2>1. sema \in [Id -> [alloc : BOOLEAN, key : Key \cup {IPC_PRIVATE}, seq : Nat,
                         base : SemNum, nsems : 0 .. SEMMSL]]
    BY DEF Init, SemAssumption, SemNum
  <2>2. sem \in [SemNum -> SemCell]
    BY DEF Init, SemAssumption, SemCell, SemVal
  <2>3. IsFiniteSet({}) /\ Cardinality({}) = 0 /\ SEMMNU \in Nat
    BY FS_EmptySet DEF SemAssumption
  <2>4. pc \in [Proc -> Place] /\ wchan \in [Proc -> Chan \cup {NoChan}]
    BY DEF Init, Place
  <2>5. NoCall \in CallType
    <3>1. 0 \in Id /\ << >> \in Seq(Op)
      BY DEF Id, SemAssumption
    <3> QED BY <3>1 DEF NoCall, CallType
  <2> QED BY <2>1, <2>2, <2>3, <2>4, <2>5 DEF Init, Tables, CallType
<1>3. Apart
  <2>1. Starts \subseteq {0}
    BY DEF Init, Starts, SemNum, SemAssumption
  <2>2. 0 \in SemNum
    BY DEF SemNum, SemAssumption
  <2>3. Cardinality(Starts) <= Cardinality({0}) /\ Cardinality({0}) = 1
    BY <2>1, <2>2, Fewer, FS_Singleton
  <2>4. Cardinality(Starts) \in Nat
    BY <2>1, <2>2, Numbered
  <2>5. Cardinality(Starts) <= SEMMAP - 2
    BY <2>3, <2>4 DEF SemAssumption
  <2> QED BY <1>1, <2>5 DEF Apart, Init
<1>4. \A p \in Proc : Held(p)
  BY DEF Init, Held
<1>5. Adjusting
  BY NoAoes DEF Init, Adjusting
<1> QED BY <1>2, <1>3, <1>4, <1>5 DEF IInv

LEMMA SemgetStep ==
    ASSUME SemAssumption, IInv, NEW key \in Key, NEW n \in 1 .. SEMMSL, semget(key, n)
    PROVE  IInv'
<1> DEFINE b == rmalloc(n)
           new == b .. b + n - 1
<1>1. PICK i \in Id :
        /\ ~sema[i].alloc
        /\ sema' = [sema EXCEPT ![i] = [alloc |-> TRUE, key |-> key, seq |-> @.seq,
                                        base |-> b, nsems |-> n]]
  BY DEF semget
<1>2. /\ ~Found(key) /\ Fits(n) # {} /\ semmap' = semmap \ new /\ lost' = lost
      /\ sem' = sem /\ undo' = undo /\ has_undo' = has_undo /\ pc' = pc /\ arg' = arg
      /\ wchan' = wchan /\ p_sig' = p_sig
  BY DEF semget, undoVars
<1>3. Tables /\ Apart /\ (\A p \in Proc : Held(p)) /\ Adjusting
  BY DEF IInv
<1>4. b \in SemNum /\ new \subseteq semmap /\ Cardinality(Starts') <= Cardinality(Starts)
  <2>1. n \in Nat \ {0} /\ semmap \in SUBSET SemNum
    BY <1>3 DEF SemAssumption, Tables
  <2> QED BY <1>2, <2>1, FrontTaken
<1>5. sema \in [Id -> [alloc : BOOLEAN, key : Key \cup {IPC_PRIVATE}, seq : Nat,
                       base : SemNum, nsems : 0 .. SEMMSL]]
  BY <1>3 DEF Tables
<1> HIDE DEF b
<1>6. /\ \A j \in Id : j # i => sema'[j] = sema[j]
      /\ sema'[i] = [alloc |-> TRUE, key |-> key, seq |-> sema[i].seq, base |-> b, nsems |-> n]
  BY <1>1, <1>5
<1>7. n \in 0 .. SEMMSL
  BY DEF SemAssumption
<1>8. Tables'
  <2>1. sema[i].seq \in Nat
    BY <1>5
  <2>2. sema'[i] \in [alloc : BOOLEAN, key : Key \cup {IPC_PRIVATE}, seq : Nat,
                      base : SemNum, nsems : 0 .. SEMMSL]
    BY <1>4, <1>6, <1>7, <2>1
  <2>3. sema' = [sema EXCEPT ![i] = sema'[i]]
    BY <1>1, <1>5
  <2>4. sema' \in [Id -> [alloc : BOOLEAN, key : Key \cup {IPC_PRIVATE}, seq : Nat,
                          base : SemNum, nsems : 0 .. SEMMSL]]
    BY <1>5, <2>2, <2>3
  <2> QED BY <1>2, <1>3, <2>4 DEF Tables
<1>9. /\ Allocated' = Allocated \cup {i} /\ i \notin Allocated
      /\ Members(i)' = new
      /\ \A j \in Allocated : Members(j)' = Members(j) /\ j \in Id /\ sema'[j] = sema[j]
      /\ \A j \in Id : semid(j)' = semid(j)
  BY <1>1, <1>6 DEF Allocated, Members, semid
<1>10. Apart'
  <2>1. \A s \in SemNum :
            s \in semmap <=> s \notin lost /\ \A j \in Allocated : s \notin Members(j)
    BY <1>3 DEF Apart
  <2>2. new \subseteq SemNum
    BY <1>3, <1>4 DEF Tables
  <2>3. \A j \in Allocated : Members(j) \cap new = {}
    BY <1>4, <2>1, <2>2
  <2>4. \A j \in Allocated : sema[j].key = key => key = IPC_PRIVATE
    BY <1>2 DEF Found, Allocated
  <2> HIDE DEF new
  <2>6. \A s \in SemNum :
            s \in semmap' <=> s \notin lost' /\ \A j \in Allocated' : s \notin Members(j)'
    BY <1>2, <1>9, <2>1
  <2>7. \A j, k \in Allocated' : j # k =>
          /\ Members(j)' \cap Members(k)' = {}
          /\ sema'[j].key = sema'[k].key => sema'[j].key = IPC_PRIVATE
    <3>1. \A j, k \in Allocated : j # k =>
            /\ Members(j) \cap Members(k) = {}
            /\ sema[j].key = sema[k].key => sema[j].key = IPC_PRIVATE
      BY <1>3 DEF Apart
    <3>2. sema'[i].key = key
      BY <1>6
    <3> QED BY <1>9, <2>3, <2>4, <3>1, <3>2
  <2>8. \A j \in Allocated' : Members(j)' \subseteq SemNum /\ Members(j)' \cap lost' = {}
    <3>1. new \cap lost = {}
      BY <1>4, <2>1, <2>2 DEF new
    <3> QED BY <1>2, <1>3, <1>9, <2>2, <3>1 DEF Apart
  <2>9. Cardinality(Starts') <= SEMMAP - 2
    <3>1. Starts \in SUBSET SemNum /\ Starts' \in SUBSET SemNum
      BY <1>3, <1>8 DEF Tables, Starts
    <3>2. Cardinality(Starts) \in Nat /\ Cardinality(Starts') \in Nat
      BY <3>1, Numbered
    <3> QED BY <1>3, <1>4, <3>2 DEF Apart, SemAssumption
  <2> QED BY <2>6, <2>7, <2>8, <2>9 DEF Apart
<1>11. ASSUME NEW s \in Nat, semconv(s) PROVE s % NIDS \in Allocated /\ semconv(s)'
  <2>1. s % NIDS \in Id
    BY Index
  <2> QED BY <1>6, <1>9, <1>11, <2>1 DEF semconv, Allocated
<1>12. ASSUME NEW q \in Proc PROVE Held(q)'
  <2>1. Held(q) /\ arg[q] \in CallType
    BY <1>3 DEF Tables, CallType
  <2>2. arg[q].sp \in Id /\ arg[q].semid \in Nat
    BY <2>1 DEF CallType
  <2>3. semid(arg[q].sp)' = semid(arg[q].sp)
    BY <1>2, <1>9, <2>2
  <2>4. Named(arg[q]) => Named(arg[q])'
    BY <1>1, <1>2, <1>6, <2>2, <2>3 DEF Named
  <2>5. Named(arg[q]) => (semconv(arg[q].semid) <=> semconv(arg[q].semid)')
    <3>1. ASSUME Named(arg[q]), semconv(arg[q].semid)' PROVE semconv(arg[q].semid)
      <4>1. arg[q].semid = semid(arg[q].sp)
        BY <1>2, <2>3, <3>1 DEF Named, semconv
      <4> QED BY <3>1, <4>1 DEF Named, semconv
    <3> QED BY <1>2, <1>11, <2>2, <3>1
  <2>6. Named(arg[q]) /\ semconv(arg[q].semid) => arg[q].sp \in Allocated
    BY <2>2 DEF Named, semconv, Allocated
  <2>7. arg[q].sp \in Allocated =>
          /\ InRange(arg[q])' <=> InRange(arg[q])
          /\ Members(arg[q].sp)' = Members(arg[q].sp)
    BY <1>2, <1>9 DEF InRange
  <2>8. arg'[q] = arg[q] /\ pc'[q] = pc[q] /\ wchan'[q] = wchan[q] /\ sem' = sem
    BY <1>2
  <2> QED BY <1>2, <2>1, <2>4, <2>5, <2>6, <2>7, <2>8 DEF Held
<1>13. Adjusting'
  <2>1. Keys \subseteq Keys'
    <3> SUFFICES ASSUME NEW k \in Keys PROVE k \in Keys'
      OBVIOUS
    <3>1. k \in Nat \X Nat /\ semconv(k[1]) /\ k[2] < sema[k[1] % NIDS].nsems
      BY DEF Keys
    <3>2. k[1] \in Nat
      BY <3>1
    <3> QED BY <1>9, <1>11, <3>1, <3>2 DEF Keys
  <2> QED BY <1>2, <1>3, <2>1, AoesMono DEF Adjusting
<1> QED BY <1>8, <1>10, <1>12, <1>13 DEF IInv

LEMMA RemoveStep ==
    ASSUME SemAssumption, ~RemoveRaces, IInv, NEW i \in Id, Remove(i)
    PROVE  IInv'
<1> DEFINE S == Members(i)
           W == Rmid(S)
<1>1. /\ sema[i].alloc
      /\ \A q \in Proc : pc[q] \in {"copyin", "asleep", "woken"} /\ arg[q].sp = i =>
            pc[q] # "copyin" /\ arg[q].semid # NextSeq(i) * NIDS + i
      /\ undo' = semunrm(semid(i), 0 .. sema[i].nsems)
      /\ sem' = [s \in SemNum |-> IF s \in S THEN [val |-> 0, semncnt |-> 0, semzcnt |-> 0]
                                  ELSE sem[s]]
      /\ pc' = wakeprocs(pc, W)
      /\ semmap' = semmap \cup (S \ Lost(S)) /\ lost' = lost \cup Lost(S)
      /\ sema' = [sema EXCEPT ![i].alloc = FALSE, ![i].seq = NextSeq(i)]
      /\ has_undo' = has_undo /\ arg' = arg /\ wchan' = wchan /\ p_sig' = p_sig
  BY DEF Remove, Settled
<1>2. Tables /\ Apart /\ (\A p \in Proc : Held(p)) /\ Adjusting
  BY DEF IInv
<1>3. sema \in [Id -> [alloc : BOOLEAN, key : Key \cup {IPC_PRIVATE}, seq : Nat,
                       base : SemNum, nsems : 0 .. SEMMSL]]
  BY <1>2 DEF Tables
<1>4. i \in Allocated /\ S \subseteq SemNum
  BY <1>1, <1>2 DEF Apart, Allocated
<1>5. /\ \A j \in Id : j # i => sema'[j] = sema[j]
      /\ sema'[i] = [alloc |-> FALSE, key |-> sema[i].key, seq |-> NextSeq(i),
                     base |-> sema[i].base, nsems |-> sema[i].nsems]
      /\ sema' = [sema EXCEPT ![i] = sema'[i]]
  BY <1>1, <1>3
<1>6. NextSeq(i) \in Nat
  BY <1>3 DEF NextSeq
<1>7. Lost(S) \subseteq S
  BY DEF Lost
<1>8. Tables'
  <2>1. sema'[i] \in [alloc : BOOLEAN, key : Key \cup {IPC_PRIVATE}, seq : Nat,
                      base : SemNum, nsems : 0 .. SEMMSL]
    BY <1>3, <1>5, <1>6
  <2>2. sema' \in [Id -> [alloc : BOOLEAN, key : Key \cup {IPC_PRIVATE}, seq : Nat,
                          base : SemNum, nsems : 0 .. SEMMSL]]
    BY <1>3, <1>5, <2>1
  <2>3. 0 \in SemVal
    BY DEF SemVal, SemAssumption
  <2>4. sem' \in [SemNum -> SemCell]
    BY <1>1, <1>2, <2>3 DEF Tables, SemCell
  <2>5. semmap' \in SUBSET SemNum /\ lost' \in SUBSET SemNum
    <3> HIDE DEF S
    <3> QED BY <1>1, <1>2, <1>4, <1>7 DEF Tables
  <2>6. pc' \in [Proc -> Place]
    BY <1>1, <1>2 DEF Tables, wakeprocs, Place
  <2> QED BY <1>1, <1>2, <2>2, <2>4, <2>5, <2>6 DEF Tables
<1>9. /\ Allocated' = Allocated \ {i}
      /\ \A j \in Allocated' : Members(j)' = Members(j) /\ sema'[j] = sema[j] /\ j \in Id
      /\ \A j \in Id : j # i => semid(j)' = semid(j)
  BY <1>3, <1>5 DEF Allocated, Members, semid
<1>10. semid(i)' = NextSeq(i) * NIDS + i
  BY <1>5 DEF semid
<1>11. Apart'
  <2>1. \A j \in Allocated' : S \cap Members(j) = {}
    BY <1>2, <1>4, <1>9 DEF Apart
  <2>2. \A s \in SemNum :
            s \in semmap <=> s \notin lost /\ \A j \in Allocated : s \notin Members(j)
    BY <1>2 DEF Apart
  <2>3. S \cap lost = {} /\ S \cap semmap = {}
    BY <1>2, <1>4, <2>2 DEF Apart
  <2>4. Cardinality(Starts') <= SEMMAP - 2
    <3>1. sema[i].base \in Nat /\ sema[i].nsems \in Nat
      BY <1>3 DEF SemNum, SemAssumption
    <3>2. S = sema[i].base .. sema[i].base + sema[i].nsems - 1
      BY DEF Members
    <3>3. semmap \in SUBSET SemNum /\ Cardinality(Starts) <= SEMMAP - 2
      BY <1>2 DEF Tables, Apart
    <3> HIDE DEF S
    <3> QED BY <1>1, <1>4, <2>3, <3>1, <3>2, <3>3, RunReturned
  <2> HIDE DEF S
  <2>5. \A s \in SemNum :
            s \in semmap' <=> s \notin lost' /\ \A j \in Allocated' : s \notin Members(j)'
    <3> SUFFICES ASSUME NEW s \in SemNum
                 PROVE  s \in semmap' <=> s \notin lost' /\ \A j \in Allocated' : s \notin Members(j)
      BY <1>9
    <3>1. CASE s \in S
      BY <1>1, <2>1, <2>3, <3>1
    <3>2. CASE s \notin S
      <4>1. (\A j \in Allocated' : s \notin Members(j)) <=> \A j \in Allocated : s \notin Members(j)
        BY <1>9, <3>2 DEF S
      <4>2. (s \in semmap' <=> s \in semmap) /\ (s \in lost' <=> s \in lost)
        BY <1>1, <1>7, <3>2
      <4> QED BY <2>2, <4>1, <4>2
    <3> QED BY <3>1, <3>2
  <2>6. \A j \in Allocated' : Members(j)' \subseteq SemNum /\ Members(j)' \cap lost' = {}
    <3>1. \A j \in Allocated' : Members(j) \subseteq SemNum /\ Members(j) \cap lost = {}
      BY <1>2, <1>9 DEF Apart
    <3> QED BY <1>1, <1>7, <1>9, <2>1, <3>1
  <2>7. \A j, k \in Allocated' : j # k =>
            /\ Members(j)' \cap Members(k)' = {}
            /\ sema'[j].key = sema'[k].key => sema'[j].key = IPC_PRIVATE
    BY <1>2, <1>9 DEF Apart
  <2> QED BY <2>4, <2>5, <2>6, <2>7 DEF Apart
<1>12. ASSUME NEW s \in Nat, semconv(s), s % NIDS # i
       PROVE  s % NIDS \in Allocated' /\ semconv(s)'
  <2>1. s % NIDS \in Id
    BY Index
  <2> QED BY <1>5, <1>9, <1>12, <2>1 DEF semconv, Allocated
<1>13. ASSUME NEW q \in Proc PROVE Held(q)'
  <2>1. Held(q) /\ arg[q] \in CallType /\ arg'[q] = arg[q] /\ wchan'[q] = wchan[q]
    BY <1>1, <1>2 DEF Tables, CallType
  <2>2. arg[q].sp \in Id /\ arg[q].semid \in Nat
    BY <2>1 DEF CallType
  <2>3. \/ pc'[q] = pc[q] /\ ~(pc[q] = "asleep" /\ wchan[q] \in W)
        \/ pc[q] = "asleep" /\ pc'[q] = "woken"
    BY <1>1 DEF wakeprocs
  <2>4. pc[q] \in {"copyin", "asleep", "woken"} /\ Named(arg[q]) => Named(arg[q])'
    <3> SUFFICES ASSUME pc[q] \in {"copyin", "asleep", "woken"}, Named(arg[q])
                 PROVE  Named(arg[q])'
      OBVIOUS
    <3>1. CASE arg[q].sp = i
      <4>1. arg[q].semid # semid(i)'
        BY <1>1, <1>10, <3>1
      <4>2. semid(arg[q].sp)' = semid(i)'
        BY <2>1, <3>1 DEF semid
      <4> QED BY <2>1, <3>1, <4>1, <4>2 DEF Named
    <3>2. CASE arg[q].sp # i
      <4>1. semid(arg[q].sp)' = semid(arg[q].sp) /\ sema'[arg[q].sp] = sema[arg[q].sp]
        BY <1>1, <1>5, <1>9, <2>2, <3>2
      <4> QED BY <1>1, <4>1 DEF Named
    <3> QED BY <3>1, <3>2
  <2>5. ASSUME Named(arg[q]), semconv(arg[q].semid)'
        PROVE  arg[q].sp # i /\ semconv(arg[q].semid)
    <3>1. arg[q].sp = arg[q].semid % NIDS
      BY <2>5 DEF Named
    <3>2. arg[q].sp # i
      <4>1. ~sema'[i].alloc
        BY <1>5
      <4>2. sema'[arg[q].semid % NIDS].alloc
        BY <2>1, <2>5 DEF semconv
      <4> QED BY <3>1, <4>1, <4>2
    <3>3. arg[q].semid = semid(arg[q].sp)
      BY <1>1, <1>9, <2>2, <2>5, <3>1, <3>2 DEF semconv
    <3> QED BY <2>5, <3>1, <3>2, <3>3 DEF Named, semconv
  <2>6. ASSUME Named(arg[q]), semconv(arg[q].semid), arg[q].sp # i
        PROVE  /\ semconv(arg[q].semid)' /\ arg[q].sp \in Allocated'
               /\ Members(arg[q].sp)' = Members(arg[q].sp)
               /\ InRange(arg[q])' <=> InRange(arg[q])
    <3>1. arg[q].sp = arg[q].semid % NIDS
      BY <2>6 DEF Named
    <3>2. semconv(arg[q].semid)' /\ arg[q].sp \in Allocated'
      BY <1>1, <1>12, <2>2, <2>6, <3>1
    <3>3. Members(arg[q].sp)' = Members(arg[q].sp)
      BY <1>1, <1>9, <3>2
    <3>4. InRange(arg[q])' <=> InRange(arg[q])
      BY <1>1, <1>9, <3>2 DEF InRange
    <3> QED BY <3>2, <3>3, <3>4
  <2>7. CASE pc'[q] = "asleep"
    <3>1. pc[q] = "asleep" /\ wchan[q] \notin W
      BY <2>3, <2>7
    <3>2. /\ Named(arg[q]) /\ semconv(arg[q].semid) /\ InRange(arg[q])
          /\ wchan[q] \in Chan /\ wchan[q][2] \in Members(arg[q].sp)
          /\ sem[wchan[q][2]][wchan[q][1]] > 0
      BY <2>1, <3>1 DEF Held
    <3>3. wchan[q][2] \notin S
      BY <3>1, <3>2 DEF Rmid, Chans, Chan
    <3>4. arg[q].sp # i
      BY <3>2, <3>3
    <3>5. sem'[wchan[q][2]] = sem[wchan[q][2]]
      BY <1>1, <3>2, <3>3 DEF Chan
    <3> QED BY <2>1, <2>4, <2>6, <2>7, <3>1, <3>2, <3>4, <3>5 DEF Held
  <2>8. CASE pc'[q] = "copyin"
    <3>1. pc[q] = "copyin" /\ arg[q].sp # i
      BY <1>1, <2>3, <2>8
    <3>2. Named(arg[q]) /\ semconv(arg[q].semid) /\ (arg[q].again => InRange(arg[q]))
      BY <2>1, <3>1 DEF Held
    <3> QED BY <2>1, <2>4, <2>6, <2>8, <3>1, <3>2 DEF Held
  <2>9. CASE pc'[q] = "woken"
    <3>1. pc[q] \in {"asleep", "woken"}
      BY <2>3, <2>9
    <3>2. Named(arg[q]) /\ wchan[q] \in Chan /\ (semconv(arg[q].semid) => InRange(arg[q]))
      BY <2>1, <3>1 DEF Held
    <3> QED BY <2>1, <2>4, <2>5, <2>6, <2>9, <3>1, <3>2 DEF Held
  <2> QED BY <2>7, <2>8, <2>9 DEF Held
<1>14. Adjusting'
  <2>1. ASSUME NEW k \in Keys, ~(k[1] = semid(i) /\ k[2] \in 0 .. sema[i].nsems)
        PROVE  k \in Keys'
    <3>1. k \in Nat \X Nat /\ k[1] \in Nat /\ k[2] \in Nat
          /\ semconv(k[1]) /\ k[2] < sema[k[1] % NIDS].nsems
      BY DEF Keys
    <3>2. k[1] % NIDS # i
      <4>1. ASSUME k[1] % NIDS = i PROVE FALSE
        <5>1. k[1] = semid(i)
          BY <3>1, <4>1 DEF semconv
        <5>2. k[2] \in 0 .. sema[i].nsems
          BY <1>3, <3>1, <4>1
        <5> QED BY <2>1, <5>1, <5>2
      <4> QED BY <4>1
    <3> QED BY <1>9, <1>12, <3>1, <3>2 DEF Keys
  <2> QED BY <1>1, <1>2, <2>1, SemunrmKept
<1> QED BY <1>8, <1>11, <1>13, <1>14 DEF IInv

LEMMA SetValStep ==
    ASSUME SemAssumption, IInv, NEW i \in Id, NEW num \in 0 .. SEMMSL - 1, NEW v \in SemVal,
           SetVal(i, num, v)
    PROVE  IInv'
<1> DEFINE s == sema[i].base + num
           W == Wakes(sem[s], v) \X {s}
<1>1. /\ sema[i].alloc /\ num < sema[i].nsems
      /\ sem' = [sem EXCEPT ![s] = Cell(sem[s], v)]
      /\ pc' = wakeprocs(pc, W) /\ undo' = semunrm(semid(i), {num})
      /\ sema' = sema /\ semmap' = semmap /\ lost' = lost /\ has_undo' = has_undo /\ arg' = arg
      /\ wchan' = wchan /\ p_sig' = p_sig
  BY DEF SetVal
<1>2. Tables /\ Apart /\ Adjusting
  BY DEF IInv
<1>3. s \in SemNum
  <2>1. i \in Allocated /\ num \in Int /\ 0 <= num /\ sema[i].base \in Int /\ sema[i].nsems \in Int
    BY <1>1, <1>2 DEF Tables, Allocated, SemNum, SemAssumption
  <2>2. s \in Members(i)
    BY <1>1, <2>1 DEF Members
  <2>3. Members(i) \subseteq SemNum
    BY <1>2, <2>1 DEF Apart
  <2> QED BY <2>2, <2>3
<1>4. sem \in [SemNum -> SemCell] /\ Cell(sem[s], v) \in SemCell
  BY <1>2, <1>3 DEF Tables, Cell, SemCell
<1> HIDE DEF s
<1>5. Tables'
  <2>1. sem' \in [SemNum -> SemCell]
    BY <1>1, <1>4
  <2>2. pc' \in [Proc -> Place]
    BY <1>1, <1>2 DEF Tables, wakeprocs, Place
  <2> QED BY <1>1, <1>2, <2>1, <2>2 DEF Tables
<1>6. \A c \in Count, x \in SemNum : sem[x][c] > 0 => sem'[x][c] > 0 \/ << c, x >> \in W
  BY <1>1, <1>3, <1>4 DEF Cell, Wakes, Count
<1>7. ASSUME NEW q \in Proc PROVE Held(q)'
  BY <1>1, <1>6, StillHeld DEF wakeprocs
<1>8. Adjusting'
  BY <1>1, <1>2, SemunrmKept, SameSets
<1> QED BY <1>1, <1>2, <1>5, <1>7, <1>8, SameApart DEF IInv

\* A call that p makes, or is in the middle of.
LEMMA CallsHold ==
    ASSUME SemAssumption, IInv, NEW p \in Proc, NEW c \in Calls(p), CopiedIn(p, c)
    PROVE  /\ c \in CallType /\ Named(c) /\ semconv(c.semid) /\ c.sp \in Allocated
           /\ c.again => pc[p] = "copyin" /\ InRange(c)
<1>1. Tables /\ Apart /\ Held(p)
  BY DEF IInv
<1>2. ASSUME NEW i \in Allocated, NEW ops \in Seq(Op), NEW name \in {"semop", "SETALL", "IPC_SET"},
             c = Call(name, i, ops)
      PROVE  /\ c \in CallType /\ Named(c) /\ semconv(c.semid) /\ c.sp \in Allocated
             /\ ~c.again
  <2>1. i \in Id /\ sema[i].alloc
    BY DEF Allocated
  <2>2. semid(i) \in Nat /\ semid(i) % NIDS = i /\ semconv(semid(i))
    BY <1>1, <2>1, SemidOf
  <2>3. c.semid = semid(i) /\ c.sp = i /\ c.again = FALSE /\ c.ops = ops /\ c.call = name
    BY <1>2 DEF Call
  <2>4. c \in CallType
    BY <1>2, <2>1, <2>2 DEF Call, CallType
  <2> QED BY <2>1, <2>2, <2>3, <2>4 DEF Named
<1>3. CASE pc[p] = "copyin" /\ arg[p] = c
  <2>1. c \in CallType
    BY <1>1, <1>3 DEF Tables, CallType
  <2>2. Named(c) /\ semconv(c.semid) /\ (c.again => InRange(c))
    BY <1>1, <1>3 DEF Held
  <2>3. c.sp \in Id /\ sema[c.sp].alloc
    BY <2>1, <2>2 DEF CallType, Named, semconv
  <2> QED BY <1>3, <2>1, <2>2, <2>3 DEF Allocated
<1>4. CASE pc[p] = "user"
  <2>1. OpLists \subseteq Seq(Op) /\ << >> \in Seq(Op)
    BY DEF SemAssumption, Op
  <2>2. \E i \in Allocated, ops \in Seq(Op), name \in {"semop", "SETALL", "IPC_SET"} :
            c = Call(name, i, ops)
    <3> DEFINE A == {Call("semop", i, ops) : i \in Allocated, ops \in OpLists}
               B == {Call(name, i, << >>) : name \in {"SETALL", "IPC_SET"}, i \in Allocated}
    <3>1. c \in A \/ c \in B
      BY <1>4 DEF Calls
    <3>2. CASE c \in A
      <4>1. PICK i \in Allocated, ops \in OpLists : c = Call("semop", i, ops)
        BY <3>2
      <4> QED BY <2>1, <4>1
    <3>3. CASE c \in B
      <4>1. PICK i \in Allocated, name \in {"SETALL", "IPC_SET"} : c = Call(name, i, << >>)
        BY <3>3
      <4> QED BY <2>1, <4>1
    <3> QED BY <3>1, <3>2, <3>3
  <2> QED BY <1>2, <2>2
<1> QED BY <1>3, <1>4 DEF CopiedIn

LEMMA BeginStep ==
    ASSUME SemAssumption, IInv, NEW p \in Proc, NEW c \in Calls(p), Begin(p, c)
    PROVE  IInv'
<1>1. /\ pc[p] = "user" /\ arg' = [arg EXCEPT ![p] = c] /\ pc' = [pc EXCEPT ![p] = "copyin"]
      /\ sema' = sema /\ sem' = sem /\ semmap' = semmap /\ lost' = lost /\ undo' = undo
      /\ has_undo' = has_undo /\ wchan' = wchan /\ p_sig' = p_sig
  BY DEF Begin, semVars, undoVars
<1>2. Tables /\ Apart /\ Adjusting
  BY DEF IInv
<1>3. /\ c \in CallType /\ Named(c) /\ semconv(c.semid)
      /\ c.again => pc[p] = "copyin"
  BY <1>1, CallsHold DEF CopiedIn
<1>4. Tables'
  BY <1>1, <1>2, <1>3 DEF Tables, CallType, Place
<1>5. arg'[p] = c /\ pc'[p] = "copyin"
  BY <1>1, <1>2 DEF Tables
<1>6. Held(p)'
  <2>1. ~c.again
    BY <1>1, <1>3
  <2>2. Named(arg[p])'
    BY <1>1, <1>3, <1>5 DEF Named, semid
  <2>3. semconv(arg[p].semid)'
    BY <1>1, <1>3, <1>5 DEF semconv, semid
  <2> QED BY <1>5, <2>1, <2>2, <2>3 DEF Held
<1>7. ASSUME NEW q \in Proc, q # p PROVE Held(q)'
  BY <1>1, <1>2, <1>7, StillHeld, pc'[q] = (IF pc[q] = "asleep" /\ wchan[q] \in {} THEN "woken" ELSE pc[q])
     DEF Tables
<1> QED BY <1>1, <1>2, <1>4, <1>6, <1>7, SameApart, SameAdjusting DEF IInv

\* NoCall, which Return() leaves behind.
LEMMA NoCallType ==
    ASSUME SemAssumption
    PROVE  NoCall \in CallType
<1>1. 0 \in Id /\ << >> \in Seq(Op)
  BY DEF Id, SemAssumption
<1> QED BY <1>1 DEF NoCall, CallType

LEMMA SetAllStep ==
    ASSUME SemAssumption, IInv, NEW p \in Proc, NEW c \in Calls(p),
           NEW vals \in [0 .. SEMMSL - 1 -> SemVal], SetAll(p, c, vals)
    PROVE  IInv'
<1> DEFINE S == Members(c.sp)
           v(s) == vals[s - sema[c.sp].base]
           W == UNION {Wakes(sem[s], v(s)) \X {s} : s \in S}
<1>1. /\ CopiedIn(p, c)
      /\ undo' = semunrm(c.semid, 0 .. sema[c.sp].nsems)
      /\ sem' = [s \in SemNum |-> IF s \in S THEN Cell(sem[s], v(s)) ELSE sem[s]]
      /\ pc' = [wakeprocs(pc, W) EXCEPT ![p] = "user"]
      /\ arg' = [arg EXCEPT ![p] = NoCall] /\ p_sig' = p_sig \ {p}
      /\ sema' = sema /\ semmap' = semmap /\ lost' = lost /\ has_undo' = has_undo /\ wchan' = wchan
  BY DEF SetAll, Return
<1>2. Tables /\ Apart /\ Adjusting
  BY DEF IInv
<1>3. c.sp \in Id /\ c.sp \in Allocated
  BY <1>1, CallsHold DEF CallType
<1>4. S \subseteq SemNum
  BY <1>2, <1>3 DEF Apart
<1>5. \A s \in S : v(s) \in SemVal
  <2>1. sema[c.sp].nsems \in 0 .. SEMMSL /\ sema[c.sp].base \in Nat /\ SEMMSL \in Nat
    BY <1>2, <1>3 DEF Tables, SemNum, SemAssumption
  <2>2. \A s \in S : s - sema[c.sp].base \in 0 .. SEMMSL - 1
    BY <2>1 DEF Members
  <2> QED BY <2>2
<1>6. sem \in [SemNum -> SemCell] /\ pc \in [Proc -> Place] /\ arg \in [Proc -> CallType]
  BY <1>2 DEF Tables, CallType
<1> HIDE DEF S, v
<1>7. \A s \in S : Cell(sem[s], v(s)) \in SemCell
  BY <1>4, <1>5, <1>6 DEF Cell, SemCell
<1>8. \A x \in Count, s \in SemNum : sem[s][x] > 0 => sem'[s][x] > 0 \/ << x, s >> \in W
  <2> SUFFICES ASSUME NEW x \in Count, NEW s \in SemNum, sem[s][x] > 0,
                      ~(sem'[s][x] > 0)
               PROVE  << x, s >> \in W
    OBVIOUS
  <2>1. s \in S /\ sem'[s] = Cell(sem[s], v(s))
    BY <1>1
  <2>2. x \in Wakes(sem[s], v(s))
    BY <2>1 DEF Cell, Wakes, Count
  <2> QED BY <2>1, <2>2
<1> HIDE DEF W
<1>9. Tables'
  <2>1. sem' \in [SemNum -> SemCell]
    BY <1>1, <1>6, <1>7
  <2>2. wakeprocs(pc, W) \in [Proc -> Place]
    BY <1>6 DEF wakeprocs, Place
  <2>3. pc' \in [Proc -> Place] /\ arg' \in [Proc -> CallType]
    BY <1>1, <1>6, <2>2, NoCallType DEF Place
  <2> QED BY <1>1, <1>2, <2>1, <2>3 DEF Tables, CallType
<1>10. ASSUME NEW q \in Proc PROVE Held(q)'
  <2>1. pc'[q] = IF q = p THEN "user"
                 ELSE IF pc[q] = "asleep" /\ wchan[q] \in W THEN "woken" ELSE pc[q]
    BY <1>1 DEF wakeprocs
  <2>2. q # p => arg'[q] = arg[q]
    BY <1>1, <1>6
  <2> QED BY <1>1, <1>8, <2>1, <2>2, StillHeld
<1>11. Adjusting'
  BY <1>1, <1>2, SemunrmKept, SameSets
<1> QED BY <1>1, <1>2, <1>9, <1>10, <1>11, SameApart DEF IInv

LEMMA IpcSetStep ==
    ASSUME SemAssumption, IInv, NEW p \in Proc, NEW c \in Calls(p), IpcSet(p, c)
    PROVE  IInv'
<1>1. /\ CopiedIn(p, c)
      /\ sema' = [sema EXCEPT ![c.sp].alloc = TRUE]
      /\ pc' = [pc EXCEPT ![p] = "user"]
      /\ arg' = [arg EXCEPT ![p] = NoCall] /\ p_sig' = p_sig \ {p}
      /\ sem' = sem /\ semmap' = semmap /\ lost' = lost /\ undo' = undo /\ has_undo' = has_undo
      /\ wchan' = wchan
  BY DEF IpcSet, Return, undoVars
<1>2. Tables /\ Apart /\ Adjusting
  BY DEF IInv
<1>3. c.sp \in Id /\ sema[c.sp].alloc = TRUE
  BY <1>1, <1>2, CallsHold DEF CallType, Allocated, Tables
<1>4. sema' = sema
  <2>1. sema[c.sp] = [alloc |-> TRUE, key |-> sema[c.sp].key, seq |-> sema[c.sp].seq,
                      base |-> sema[c.sp].base, nsems |-> sema[c.sp].nsems]
    BY <1>2, <1>3 DEF Tables
  <2> DEFINE r == sema[c.sp]
  <2>2. [r EXCEPT !.alloc = TRUE] = r
    <3>1. DOMAIN r = {"alloc", "key", "seq", "base", "nsems"} /\ r.alloc = TRUE
      BY <2>1
    <3>2. r = [f \in DOMAIN r |-> r[f]]
      BY <2>1
    <3> HIDE DEF r
    <3> QED BY <3>1, <3>2
  <2>3. sema = [i \in Id |-> sema[i]]
    BY <1>2 DEF Tables
  <2>4. sema' = [sema EXCEPT ![c.sp] = [r EXCEPT !.alloc = TRUE]]
    BY <1>1
  <2> QED BY <1>3, <2>2, <2>3, <2>4
<1>5. pc \in [Proc -> Place] /\ arg \in [Proc -> CallType]
  BY <1>2 DEF Tables, CallType
<1>6. Tables'
  <2>1. pc' \in [Proc -> Place] /\ arg' \in [Proc -> CallType]
    BY <1>1, <1>5, NoCallType DEF Place
  <2> QED BY <1>1, <1>2, <1>4, <2>1 DEF Tables, CallType
<1>7. ASSUME NEW q \in Proc PROVE Held(q)'
  <2> DEFINE W == {}
  <2>1. pc'[q] = "user" \/ (pc'[q] = pc[q] /\ arg'[q] = arg[q])
    BY <1>1, <1>5
  <2>2. pc'[q] = pc[q] => pc'[q] = (IF pc[q] = "asleep" /\ wchan[q] \in W THEN "woken" ELSE pc[q])
    OBVIOUS
  <2>3. \A x \in Count, s \in SemNum :
          sem[s][x] > 0 => sem'[s][x] > 0 \/ << x, s >> \in W
    BY <1>1
  <2>4. wchan'[q] = wchan[q]
    BY <1>1
  <2> HIDE DEF W
  <2> QED BY <1>4, <2>1, <2>2, <2>3, <2>4, StillHeld
<1> QED BY <1>1, <1>2, <1>4, <1>6, <1>7, SameApart, SameAdjusting DEF IInv

\* Where everybody else is, when p moves and the sleepers on W are woken.
Others(p, places, W) ==
    \A q \in Proc : q # p =>
        places[q] = IF pc[q] = "asleep" /\ wchan[q] \in W THEN "woken" ELSE pc[q]

\* The counts of sems that became 0 woke W.
Cleaned(sems, W) ==
    \A x \in Count, s \in SemNum : sem[s][x] > 0 => sems[s][x] > 0 \/ << x, s >> \in W

LEMMA OthersHeld ==
    ASSUME IInv, sema' = sema, NEW p \in Proc, NEW W, Others(p, pc', W), Cleaned(sem', W),
           \A q \in Proc : q # p => wchan'[q] = wchan[q] /\ arg'[q] = arg[q],
           NEW q \in Proc, q # p
    PROVE  Held(q)'
BY StillHeld DEF Others, Cleaned

\* A sleep that a signal ends.
LEMMA InterruptedKept ==
    ASSUME SemAssumption, IInv, sema' = sema, NEW p \in Proc, NEW c \in Chan,
           NEW sems \in [SemNum -> SemCell], NEW places \in [Proc -> Place], NEW W,
           Others(p, places, W),
           \A x \in Count, s \in SemNum : << x, s >> # c /\ sem[s][x] > 0 =>
               sems[s][x] > 0 \/ << x, s >> \in W,
           Interrupted(p, c, sems, places)
    PROVE  /\ sem' \in [SemNum -> SemCell] /\ pc' \in [Proc -> Place]
           /\ wchan' \in [Proc -> Chan \cup {NoChan}] /\ arg' \in [Proc -> CallType]
           /\ p_sig' \in SUBSET Proc /\ pc'[p] = "user"
           /\ \A q \in Proc : Held(q)'
<1> DEFINE x == c[1]
           s == c[2]
           last == sems[s][x] <= 1
           W2 == W \cup (IF last THEN {c} ELSE {})
<1>1. /\ sem' = [sems EXCEPT ![s][x] = IF last THEN 0 ELSE @ - 1]
      /\ pc' = [wakeprocs(places, IF last THEN {c} ELSE {}) EXCEPT ![p] = "user"]
      /\ wchan' = [wchan EXCEPT ![p] = NoChan]
      /\ arg' = [arg EXCEPT ![p] = NoCall] /\ p_sig' = p_sig \ {p}
  BY DEF Interrupted, Return
<1>2. x \in Count /\ s \in SemNum /\ c = << x, s >>
  BY DEF Chan, Count
<1>3. Tables
  BY DEF IInv
<1>4. sems[s] \in SemCell /\ sems[s][x] \in Nat
  BY <1>2 DEF SemCell, Count
<1> DEFINE n == IF last THEN 0 ELSE sems[s][x] - 1
<1>5. n \in Nat /\ (~last => n > 0)
  BY <1>4
<1> HIDE DEF x, s, last
<1>6. sem' = [sems EXCEPT ![s] = [sems[s] EXCEPT ![x] = n]]
  BY <1>1, <1>2
<1> HIDE DEF n
<1>7. [sems[s] EXCEPT ![x] = n] \in SemCell
  BY <1>2, <1>4, <1>5 DEF SemCell, Count
<1>8. sem' \in [SemNum -> SemCell]
  BY <1>6, <1>7
<1>9. pc' \in [Proc -> Place] /\ pc'[p] = "user"
  BY <1>1 DEF wakeprocs, Place
<1>10. wchan' \in [Proc -> Chan \cup {NoChan}] /\ arg' \in [Proc -> CallType]
       /\ p_sig' \in SUBSET Proc
  BY <1>1, <1>3, NoCallType DEF Tables, CallType
<1>11. Others(p, pc', W2)
  BY <1>1 DEF Others, wakeprocs
<1>12. Cleaned(sem', W2)
  <2> SUFFICES ASSUME NEW y \in Count, NEW t \in SemNum, sem[t][y] > 0
               PROVE  sem'[t][y] > 0 \/ << y, t >> \in W2
    BY DEF Cleaned
  <2>1. CASE << y, t >> = c
    <3>1. y = x /\ t = s
      BY <1>2, <2>1
    <3>2. sem'[s][x] = n
      BY <1>2, <1>4, <1>6 DEF SemCell, Count
    <3> QED BY <1>5, <2>1, <3>1, <3>2
  <2>2. CASE << y, t >> # c
    <3>1. sem'[t][y] = sems[t][y]
      BY <1>2, <1>4, <1>6, <2>2 DEF SemCell, Count
    <3> QED BY <2>2, <3>1
  <2> QED BY <2>1, <2>2
<1> HIDE DEF W2
<1>13. \A q \in Proc : q # p => wchan'[q] = wchan[q] /\ arg'[q] = arg[q]
  BY <1>1, <1>3 DEF Tables
<1>14. \A q \in Proc : q # p => Held(q)'
  BY <1>11, <1>12, <1>13, OthersHeld
<1>15. Held(p)'
  BY <1>9 DEF Held
<1> QED BY <1>8, <1>9, <1>10, <1>14, <1>15

\* A pass of semop() on a set that is there.
LEMMA PassStep ==
    ASSUME SemAssumption, IInv, NEW p \in Proc, NEW c \in CallType,
           pc[p] \in {"user", "copyin", "woken"},
           Named(c), semconv(c.semid), InRange(c), Pass(p, c)
    PROVE  IInv'
<1> DEFINE ops == c.ops
           base == sema[c.sp].base
           w == Perform(p, ops, base, c.semid)
           u == IF w.end = "ok" THEN w ELSE semundo(w, ops, base, c.semid)
           waits == w.end \in {"semncnt", "semzcnt"} /\ ~ops[w.done + 1].nowait
           chan == << w.end, base + ops[w.done + 1].num >>
           counted == [u.sem EXCEPT ![chan[2]][chan[1]] = @ + 1]
           places == wakeprocs(pc, w.woke)
<1>1. /\ undo' = [undo EXCEPT ![p] = u.aoe]
      /\ has_undo' = IF u.has THEN has_undo \cup {p} ELSE has_undo
      /\ sema' = sema /\ semmap' = semmap /\ lost' = lost
      /\ \/ /\ ~waits
            /\ sem' = u.sem
            /\ pc' = [places EXCEPT ![p] = "user"]
            /\ wchan' = [wchan EXCEPT ![p] = NoChan]
            /\ Return(p)
         \/ waits /\ Interrupted(p, chan, counted, places)
         \/ /\ waits
            /\ sem' = counted
            /\ pc' = [places EXCEPT ![p] = "asleep"]
            /\ wchan' = [wchan EXCEPT ![p] = chan]
            /\ arg' = [arg EXCEPT ![p] = c]
            /\ p_sig' = p_sig
  BY DEF Pass
<1>2. Tables /\ Apart /\ Adjusting
  BY DEF IInv
<1>3. ops \in Seq(Op) /\ c.semid \in Nat /\ c.sp \in Id /\ c.sp = c.semid % NIDS
  BY DEF CallType, Named
<1>4. Fit(ops, base, c.semid)
  BY <1>3 DEF Fit, InRange
<1>5. PassDone(p, ops, w, u)
  BY <1>2, <1>4, PassResult
<1>6. w.end # "ok" => /\ base + ops[w.done + 1].num \in SemNum
                      /\ base + ops[w.done + 1].num \in Members(c.sp)
  <2>1. w.end # "ok" => w.done + 1 \in 1 .. Len(ops)
    BY <1>5 DEF PassDone
  <2> HIDE DEF w, ops, base
  <2> QED BY <1>2, <1>3, <1>4, <2>1, FitKey
<1> HIDE DEF w, u, base
<1>7. /\ u.sem \in [SemNum -> SemCell] /\ u.aoe \in Aoes(Keys)
      /\ DOMAIN u.aoe # {} \/ p \in has_undo => u.has
      /\ u.has => p \in has_undo \/ Cardinality(has_undo) < SEMMNU
      /\ \A x \in Count, s \in SemNum :
          u.sem[s][x] = sem[s][x] \/ (u.sem[s][x] = 0 /\ << x, s >> \in w.woke)
  BY <1>5 DEF PassDone
<1>8. waits => chan \in Chan /\ chan[2] \in Members(c.sp)
  BY <1>6 DEF Chan
<1>9. Others(p, places, w.woke) /\ places \in [Proc -> Place]
  BY <1>2 DEF Others, wakeprocs, Tables, Place
<1> HIDE DEF places
<1>10. waits => /\ counted \in [SemNum -> SemCell]
                /\ Cleaned(counted, w.woke) /\ counted[chan[2]][chan[1]] > 0
  <2> SUFFICES ASSUME waits
               PROVE  /\ counted \in [SemNum -> SemCell]
                      /\ Cleaned(counted, w.woke) /\ counted[chan[2]][chan[1]] > 0
    OBVIOUS
  <2>1. PICK x \in Count, s \in SemNum : chan = << x, s >>
    BY <1>8 DEF Chan, Count
  <2> HIDE DEF chan
  <2>2. u.sem[s] \in SemCell /\ u.sem[s][x] \in Nat
    BY <1>7 DEF SemCell, Count
  <2>3. counted = [u.sem EXCEPT ![s] = [u.sem[s] EXCEPT ![x] = u.sem[s][x] + 1]]
    BY <2>1
  <2> DEFINE n == u.sem[s][x] + 1
  <2>4. n \in Nat /\ n > 0
    BY <2>2
  <2> HIDE DEF n
  <2>5. [u.sem[s] EXCEPT ![x] = n] \in SemCell /\ [u.sem[s] EXCEPT ![x] = n][x] = n
        /\ \A y \in Count : y # x => [u.sem[s] EXCEPT ![x] = n][y] = u.sem[s][y]
    BY <2>2, <2>4 DEF SemCell, Count
  <2>6. counted = [u.sem EXCEPT ![s] = [u.sem[s] EXCEPT ![x] = n]]
    BY <2>3 DEF n
  <2> HIDE DEF counted
  <2>7. counted \in [SemNum -> SemCell] /\ counted[s][x] = n
    BY <1>7, <2>5, <2>6
  <2>8. \A y \in Count, t \in SemNum : << y, t >> # << x, s >> => counted[t][y] = u.sem[t][y]
    BY <1>7, <2>5, <2>6
  <2>9. Cleaned(counted, w.woke)
    <3> SUFFICES ASSUME NEW y \in Count, NEW t \in SemNum, sem[t][y] > 0
                 PROVE  counted[t][y] > 0 \/ << y, t >> \in w.woke
      BY DEF Cleaned
    <3>1. CASE << y, t >> = << x, s >>
      BY <2>4, <2>7, <3>1
    <3>2. CASE << y, t >> # << x, s >>
      BY <1>7, <2>8, <3>2
    <3> QED BY <3>1, <3>2
  <2> QED BY <2>1, <2>4, <2>7, <2>9
<1> HIDE DEF waits, chan, counted
<1>11. /\ sem' \in [SemNum -> SemCell] /\ pc' \in [Proc -> Place]
       /\ wchan' \in [Proc -> Chan \cup {NoChan}] /\ arg' \in [Proc -> CallType]
       /\ p_sig' \in SUBSET Proc /\ \A q \in Proc : Held(q)'
  <2>1. pc \in [Proc -> Place] /\ wchan \in [Proc -> Chan \cup {NoChan}]
        /\ arg \in [Proc -> CallType] /\ p_sig \in SUBSET Proc
    BY <1>2 DEF Tables, CallType
  <2>2. CASE /\ sem' = u.sem
             /\ pc' = [places EXCEPT ![p] = "user"]
             /\ wchan' = [wchan EXCEPT ![p] = NoChan]
             /\ Return(p)
    <3>1. arg' = [arg EXCEPT ![p] = NoCall] /\ p_sig' = p_sig \ {p}
      BY <2>2 DEF Return
    <3>2. /\ pc' \in [Proc -> Place] /\ pc'[p] = "user"
          /\ wchan' \in [Proc -> Chan \cup {NoChan}] /\ arg' \in [Proc -> CallType]
          /\ p_sig' \in SUBSET Proc
      BY <1>9, <2>1, <2>2, <3>1, NoCallType DEF Place
    <3>3. Others(p, pc', w.woke)
      BY <1>9, <2>2 DEF Others
    <3>4. Cleaned(sem', w.woke)
      BY <1>7, <2>2 DEF Cleaned
    <3>5. \A q \in Proc : q # p => wchan'[q] = wchan[q] /\ arg'[q] = arg[q]
      BY <2>1, <2>2, <3>1
    <3>6. \A q \in Proc : q # p => Held(q)'
      BY <1>1, <3>3, <3>4, <3>5, OthersHeld
    <3>7. Held(p)'
      BY <3>2 DEF Held
    <3> QED BY <1>7, <2>2, <3>2, <3>6, <3>7
  <2>3. CASE waits /\ Interrupted(p, chan, counted, places)
    <3>1. \A x \in Count, s \in SemNum : << x, s >> # chan /\ sem[s][x] > 0 =>
               counted[s][x] > 0 \/ << x, s >> \in w.woke
      BY <1>10, <2>3 DEF Cleaned
    <3> QED BY <1>1, <1>8, <1>9, <1>10, <2>3, <3>1, InterruptedKept
  <2>4. CASE /\ waits
             /\ sem' = counted
             /\ pc' = [places EXCEPT ![p] = "asleep"]
             /\ wchan' = [wchan EXCEPT ![p] = chan]
             /\ arg' = [arg EXCEPT ![p] = c]
             /\ p_sig' = p_sig
    <3>1. /\ pc' \in [Proc -> Place] /\ pc'[p] = "asleep"
          /\ wchan' \in [Proc -> Chan \cup {NoChan}] /\ wchan'[p] = chan
          /\ arg' \in [Proc -> CallType] /\ arg'[p] = c
      BY <1>8, <1>9, <2>1, <2>4 DEF Place
    <3>2. Others(p, pc', w.woke)
      BY <1>9, <2>4 DEF Others
    <3>3. \A q \in Proc : q # p => wchan'[q] = wchan[q] /\ arg'[q] = arg[q]
      BY <2>1, <2>4
    <3>4. \A q \in Proc : q # p => Held(q)'
      BY <1>1, <1>10, <2>4, <3>2, <3>3, OthersHeld
    <3>5. /\ Named(arg[p])' /\ semconv(arg[p].semid)' /\ InRange(arg[p])'
          /\ Members(arg[p].sp)' = Members(c.sp)
      BY <1>1, <3>1 DEF Named, semconv, semid, InRange, Members
    <3>6. Held(p)'
      BY <1>8, <1>10, <2>4, <3>1, <3>5 DEF Held
    <3> QED BY <1>10, <2>1, <2>4, <3>1, <3>4, <3>6
  <2> QED BY <1>1, <2>2, <2>3, <2>4
<1>12. /\ has_undo' \in SUBSET Proc /\ IsFiniteSet(has_undo')
       /\ Cardinality(has_undo') <= SEMMNU
  <2>1. /\ has_undo \in SUBSET Proc /\ IsFiniteSet(has_undo)
        /\ Cardinality(has_undo) <= SEMMNU /\ Cardinality(has_undo) \in Nat
        /\ SEMMNU \in Nat
    BY <1>2, FS_CardinalityType DEF Tables, SemAssumption
  <2>2. CASE u.has /\ p \notin has_undo
    <3>1. has_undo' = has_undo \cup {p}
      BY <1>1, <2>2
    <3>2. IsFiniteSet(has_undo') /\ Cardinality(has_undo') = Cardinality(has_undo) + 1
      BY <2>1, <2>2, <3>1, FS_AddElement
    <3>3. Cardinality(has_undo) < SEMMNU
      BY <1>7, <2>2
    <3> QED BY <2>1, <3>1, <3>2, <3>3
  <2>3. CASE ~u.has \/ p \in has_undo
    <3>1. has_undo' = has_undo
      BY <1>1, <2>3
    <3> QED BY <2>1, <3>1
  <2> QED BY <2>2, <2>3
<1>13. Tables'
  BY <1>1, <1>2, <1>11, <1>12 DEF Tables, CallType
<1>14. Adjusting'
  <2>1. Keys' = Keys
    BY <1>1, SameSets
  <2>2. undo' \in [Proc -> Aoes(Keys)]
    BY <1>1, <1>2, <1>7 DEF Adjusting
  <2>3. ASSUME NEW q \in Proc, DOMAIN undo'[q] # {} PROVE q \in has_undo'
    <3>1. CASE q = p
      <4>1. undo'[p] = u.aoe
        BY <1>1, <1>2 DEF Adjusting
      <4> QED BY <1>1, <1>7, <2>3, <3>1, <4>1
    <3>2. CASE q # p
      <4>1. undo'[q] = undo[q]
        BY <1>1, <1>2, <3>2 DEF Adjusting
      <4>2. q \in has_undo
        BY <1>2, <2>3, <4>1 DEF Adjusting
      <4> QED BY <1>1, <4>2
    <3> QED BY <3>1, <3>2
  <2> QED BY <2>1, <2>2, <2>3 DEF Adjusting
<1> QED BY <1>1, <1>2, <1>11, <1>13, <1>14, SameApart DEF IInv

LEMMA SemopStep ==
    ASSUME SemAssumption, IInv, NEW p \in Proc, NEW c \in Calls(p), semop(p, c)
    PROVE  IInv'
<1>1. Tables /\ Apart /\ Adjusting /\ CopiedIn(p, c)
  BY DEF IInv, semop
<1>2. /\ c \in CallType /\ Named(c) /\ semconv(c.semid)
      /\ c.again => InRange(c)
  BY <1>1, CallsHold
<1>3. CASE TooBig(c)
  <2>1. /\ pc' = [pc EXCEPT ![p] = "user"]
        /\ arg' = [arg EXCEPT ![p] = NoCall] /\ p_sig' = p_sig \ {p}
        /\ sema' = sema /\ sem' = sem /\ semmap' = semmap /\ lost' = lost /\ undo' = undo
        /\ has_undo' = has_undo /\ wchan' = wchan
    BY <1>3 DEF semop, Return, semVars, undoVars
  <2>2. pc \in [Proc -> Place] /\ arg \in [Proc -> CallType]
    BY <1>1 DEF Tables, CallType
  <2>3. Tables'
    <3>1. pc' \in [Proc -> Place] /\ arg' \in [Proc -> CallType]
      BY <2>1, <2>2, NoCallType DEF Place
    <3> QED BY <1>1, <2>1, <3>1 DEF Tables, CallType
  <2>4. Others(p, pc', {}) /\ Cleaned(sem', {})
    BY <2>1, <2>2 DEF Others, Cleaned
  <2>5. \A q \in Proc : q # p => wchan'[q] = wchan[q] /\ arg'[q] = arg[q]
    BY <2>1, <2>2
  <2>6. \A q \in Proc : q # p => Held(q)'
    BY <2>1, <2>4, <2>5, OthersHeld
  <2>7. Held(p)'
    BY <2>1, <2>2 DEF Held
  <2> QED BY <1>1, <2>1, <2>3, <2>6, <2>7, SameApart, SameAdjusting DEF IInv
<1>4. CASE ~TooBig(c)
  <2>1. Pass(p, c) /\ InRange(c)
    <3>1. c.again \in BOOLEAN /\ c.ops \in Seq(Op) /\ sema[c.sp].nsems \in Int
      BY <1>1, <1>2 DEF CallType, Tables
    <3>2. \A n \in DOMAIN c.ops : c.ops[n].num \in Int
      <4>1. \A n \in DOMAIN c.ops : c.ops[n] \in Op
        BY <3>1
      <4> QED BY <4>1 DEF Op
    <3> QED BY <1>2, <1>4, <3>1, <3>2 DEF semop, TooBig, InRange
  <2>2. pc[p] \in {"user", "copyin"}
    BY <1>1 DEF CopiedIn
  <2> QED BY <1>2, <2>1, <2>2, PassStep
<1> QED BY <1>3, <1>4

LEMMA ResumeStep ==
    ASSUME SemAssumption, IInv, NEW p \in Proc, Resume(p)
    PROVE  IInv'
<1>1. Tables /\ Apart /\ Adjusting /\ Held(p) /\ pc[p] = "woken"
  BY DEF IInv, Resume
<1>2. pc \in [Proc -> Place] /\ arg \in [Proc -> CallType]
      /\ wchan \in [Proc -> Chan \cup {NoChan}] /\ sem \in [SemNum -> SemCell]
  BY <1>1 DEF Tables, CallType
<1>3. /\ Named(arg[p]) /\ wchan[p] \in Chan /\ (semconv(arg[p].semid) => InRange(arg[p]))
      /\ arg[p] \in CallType
  BY <1>1, <1>2 DEF Held
<1>4. CASE /\ Interrupted(p, wchan[p], sem, pc)
           /\ UNCHANGED << sema, semmap, lost, undoVars >>
  <2>1. sema' = sema /\ semmap' = semmap /\ lost' = lost /\ undo' = undo /\ has_undo' = has_undo
    BY <1>4 DEF undoVars
  <2>2. Others(p, pc, {})
    BY DEF Others
  <2>3. \A x \in Count, s \in SemNum : << x, s >> # wchan[p] /\ sem[s][x] > 0 =>
            sem[s][x] > 0 \/ << x, s >> \in {}
    OBVIOUS
  <2>4. /\ sem' \in [SemNum -> SemCell] /\ pc' \in [Proc -> Place]
        /\ wchan' \in [Proc -> Chan \cup {NoChan}] /\ arg' \in [Proc -> CallType]
        /\ p_sig' \in SUBSET Proc /\ \A q \in Proc : Held(q)'
    BY <1>2, <1>3, <1>4, <2>1, <2>2, <2>3, InterruptedKept
  <2>5. Tables'
    BY <1>1, <2>1, <2>4 DEF Tables, CallType
  <2> QED BY <1>1, <2>1, <2>4, <2>5, SameApart, SameAdjusting DEF IInv
<1>5. CASE /\ pc' = [pc EXCEPT ![p] = "user"]
           /\ wchan' = [wchan EXCEPT ![p] = NoChan]
           /\ Return(p)
           /\ UNCHANGED << semVars, undoVars >>
  <2>1. /\ arg' = [arg EXCEPT ![p] = NoCall] /\ p_sig' = p_sig \ {p}
        /\ sema' = sema /\ sem' = sem /\ semmap' = semmap /\ lost' = lost /\ undo' = undo
        /\ has_undo' = has_undo
    BY <1>5 DEF Return, semVars, undoVars
  <2>2. Tables'
    <3>1. pc' \in [Proc -> Place] /\ arg' \in [Proc -> CallType]
          /\ wchan' \in [Proc -> Chan \cup {NoChan}]
      BY <1>2, <1>5, <2>1, NoCallType DEF Place
    <3> QED BY <1>1, <2>1, <3>1 DEF Tables, CallType
  <2>3. Others(p, pc', {}) /\ Cleaned(sem', {})
    BY <1>2, <1>5, <2>1 DEF Others, Cleaned
  <2>4. \A q \in Proc : q # p => wchan'[q] = wchan[q] /\ arg'[q] = arg[q]
    BY <1>2, <1>5, <2>1
  <2>5. \A q \in Proc : q # p => Held(q)'
    BY <2>1, <2>3, <2>4, OthersHeld
  <2>6. Held(p)'
    BY <1>2, <1>5 DEF Held
  <2> QED BY <1>1, <2>1, <2>2, <2>5, <2>6, SameApart, SameAdjusting DEF IInv
<1> DEFINE c == [arg[p] EXCEPT !.again = TRUE]
<1>6. /\ c \in CallType /\ c.semid = arg[p].semid /\ c.sp = arg[p].sp /\ c.ops = arg[p].ops
      /\ c.again
  BY <1>3 DEF CallType
<1>7. Named(c) /\ (semconv(c.semid) => InRange(c))
  <2> HIDE DEF c
  <2> QED BY <1>3, <1>6 DEF Named, InRange
<1>8. CASE ~Gone(p) /\ Pass(p, c)
  <2>1. semconv(c.semid)
    BY <1>6, <1>8 DEF Gone
  <2> HIDE DEF c
  <2> QED BY <1>1, <1>6, <1>7, <1>8, <2>1, PassStep
<1>9. CASE /\ ~Gone(p)
           /\ pc' = [pc EXCEPT ![p] = "copyin"]
           /\ wchan' = [wchan EXCEPT ![p] = NoChan]
           /\ arg' = [arg EXCEPT ![p].again = TRUE]
           /\ UNCHANGED << semVars, undoVars, p_sig >>
  <2>1. semconv(c.semid)
    BY <1>6, <1>9 DEF Gone
  <2>2. arg' = [arg EXCEPT ![p] = c]
    BY <1>9
  <2> HIDE DEF c
  <2>3. /\ sema' = sema /\ sem' = sem /\ semmap' = semmap /\ lost' = lost /\ undo' = undo
        /\ has_undo' = has_undo /\ p_sig' = p_sig
    BY <1>9 DEF semVars, undoVars
  <2>4. Tables'
    <3>1. pc' \in [Proc -> Place] /\ arg' \in [Proc -> CallType]
          /\ wchan' \in [Proc -> Chan \cup {NoChan}]
      BY <1>2, <1>6, <1>9, <2>2 DEF Place
    <3> QED BY <1>1, <2>3, <3>1 DEF Tables, CallType
  <2>5. Others(p, pc', {}) /\ Cleaned(sem', {})
    BY <1>2, <1>9, <2>3 DEF Others, Cleaned
  <2>6. \A q \in Proc : q # p => wchan'[q] = wchan[q] /\ arg'[q] = arg[q]
    BY <1>2, <1>9, <2>2
  <2>7. \A q \in Proc : q # p => Held(q)'
    BY <2>3, <2>5, <2>6, OthersHeld
  <2>8. arg'[p] = c /\ pc'[p] = "copyin"
    BY <1>2, <1>9, <2>2
  <2>9. Named(arg[p])' /\ semconv(arg[p].semid)' /\ InRange(arg[p])'
    BY <1>7, <2>1, <2>3, <2>8 DEF Named, semconv, semid, InRange
  <2>10. Held(p)'
    BY <2>8, <2>9 DEF Held
  <2> QED BY <1>1, <2>3, <2>4, <2>7, <2>10, SameApart, SameAdjusting DEF IInv
<1> HIDE DEF c
<1> QED BY <1>4, <1>5, <1>8, <1>9 DEF Resume, c

LEMMA SignalStep ==
    ASSUME IInv, NEW p \in Proc, Signal(p)
    PROVE  IInv'
<1>1. /\ pc' = [pc EXCEPT ![p] = IF @ = "asleep" THEN "woken" ELSE @]
      /\ p_sig' = p_sig \cup {p}
      /\ sema' = sema /\ sem' = sem /\ semmap' = semmap /\ lost' = lost /\ undo' = undo
      /\ has_undo' = has_undo /\ arg' = arg /\ wchan' = wchan
  BY DEF Signal, semVars, undoVars
<1>2. Tables /\ Apart /\ Adjusting /\ pc \in [Proc -> Place]
  BY DEF IInv, Tables
<1>3. Tables'
  <2>1. pc' \in [Proc -> Place]
    BY <1>1, <1>2 DEF Place
  <2> QED BY <1>1, <1>2, <2>1 DEF Tables
<1>4. Others(p, pc', {}) /\ Cleaned(sem', {})
  BY <1>1, <1>2 DEF Others, Cleaned
<1>5. \A q \in Proc : q # p => wchan'[q] = wchan[q] /\ arg'[q] = arg[q]
  BY <1>1
<1>6. \A q \in Proc : q # p => Held(q)'
  BY <1>1, <1>4, <1>5, OthersHeld
<1>7. Held(p)'
  <2>1. Held(p) /\ (pc'[p] = pc[p] \/ (pc[p] = "asleep" /\ pc'[p] = "woken"))
    BY <1>1, <1>2 DEF IInv
  <2>2. /\ Named(arg[p])' <=> Named(arg[p])
        /\ semconv(arg[p].semid)' <=> semconv(arg[p].semid)
        /\ InRange(arg[p])' <=> InRange(arg[p])
        /\ Members(arg[p].sp)' = Members(arg[p].sp)
    BY <1>1 DEF Named, semconv, semid, InRange, Members
  <2> QED BY <1>1, <2>1, <2>2 DEF Held
<1> QED BY <1>1, <1>2, <1>3, <1>6, <1>7, SameApart, SameAdjusting DEF IInv

\* A process has one adjustment for a semaphore.
LEMMA OneKey ==
    ASSUME SemAssumption, IInv, NEW p \in Proc
    PROVE  /\ \A k \in DOMAIN undo[p] :
                /\ semconv(k[1]) /\ Target(k) \in SemNum /\ undo[p][k] \in Int
           /\ \A j, k \in DOMAIN undo[p] : Target(j) = Target(k) => j = k
<1>1. Tables /\ Apart /\ undo[p] \in Aoes(Keys)
  BY DEF IInv, Adjusting
<1>2. ASSUME NEW k \in DOMAIN undo[p]
      PROVE  /\ k = << k[1], k[2] >> /\ k[2] \in Nat /\ semconv(k[1]) /\ k[1] % NIDS \in Allocated
             /\ Target(k) = sema[k[1] % NIDS].base + k[2]
             /\ Target(k) \in Members(k[1] % NIDS) /\ sema[k[1] % NIDS].base \in Nat
             /\ Target(k) \in SemNum /\ undo[p][k] \in Int
  <2>1. k \in Keys /\ undo[p][k] \in Aoe
    BY <1>1, AoesFacts
  <2>2. /\ k = << k[1], k[2] >> /\ k[1] \in Nat /\ k[2] \in Nat
        /\ semconv(k[1]) /\ k[2] < sema[k[1] % NIDS].nsems
    BY <2>1 DEF Keys
  <2>3. k[1] % NIDS \in Id /\ k[1] % NIDS \in Allocated
    BY <2>2, Index DEF semconv, Allocated
  <2>4. sema[k[1] % NIDS].base \in Nat /\ sema[k[1] % NIDS].nsems \in Nat
    BY <1>1, <2>3 DEF Tables, SemNum, SemAssumption
  <2>5. Target(k) = sema[k[1] % NIDS].base + k[2]
    BY DEF Target
  <2>6. Target(k) \in Members(k[1] % NIDS)
    BY <2>2, <2>4, <2>5 DEF Members
  <2>7. undo[p][k] \in Int
    BY <2>1 DEF Aoe, SemAssumption
  <2>8. Target(k) \in SemNum
    BY <1>1, <2>3, <2>6 DEF Apart
  <2> QED BY <2>2, <2>3, <2>4, <2>5, <2>6, <2>7, <2>8
<1>3. ASSUME NEW j \in DOMAIN undo[p], NEW k \in DOMAIN undo[p], Target(j) = Target(k)
      PROVE  j = k
  <2>1. j[1] % NIDS = k[1] % NIDS
    BY <1>1, <1>2, <1>3, OneSet
  <2>2. j[1] = k[1]
    BY <1>2, <2>1 DEF semconv
  <2>3. j[2] = k[2]
    <3>1. /\ Target(j) = sema[k[1] % NIDS].base + j[2]
          /\ Target(k) = sema[k[1] % NIDS].base + k[2]
      BY <1>2, <2>1
    <3>2. j[2] \in Nat /\ k[2] \in Nat /\ sema[k[1] % NIDS].base \in Nat
      BY <1>2
    <3> DEFINE b == sema[k[1] % NIDS].base
    <3>3. b + j[2] = b + k[2]
      BY <1>3, <3>1
    <3> HIDE DEF b
    <3>4. b \in Nat
      BY <3>2 DEF b
    <3> QED BY <3>2, <3>3, <3>4
  <2> QED BY <1>2, <2>2, <2>3
<1> QED BY <1>2, <1>3

\* semexit(): the values, the counts and the adjustments.
LEMMA SemexitKept ==
    ASSUME SemAssumption, IInv, NEW p \in Proc, NEW place \in {"user", "gone"},
           semexit(p, place), sema' = sema, arg' = arg, wchan' = wchan
    PROVE  /\ sem' \in [SemNum -> SemCell] /\ pc' \in [Proc -> Place]
           /\ has_undo' \in SUBSET Proc /\ IsFiniteSet(has_undo')
           /\ Cardinality(has_undo') <= SEMMNU
           /\ \A q \in Proc : Held(q)'
           /\ Adjusting'
           /\ undo'[p] = Empty /\ pc'[p] = place
           /\ \A q \in Proc : q # p => (pc'[q] = "gone" => pc[q] = "gone")
           /\ \A s \in SemNum :
               LET v == sem[s].val + Adjustment(p, s)
               IN sem'[s].val = IF v \in SemVal THEN v ELSE sem[s].val
<1> DEFINE ks == {k \in DOMAIN undo[p] : semconv(k[1]) /\ Applies(p, k)}
           hit == {Target(k) : k \in ks}
           v(s) == undo[p][CHOOSE k \in ks : Target(k) = s]
           woke == UNION {Released(s, v(s)) \X {s} : s \in hit}
           count(c, s) == IF << c, s >> \in woke THEN 0 ELSE sem[s][c]
<1>1. /\ sem' = [s \in SemNum |->
                IF s \notin hit THEN sem[s] ELSE
                [val |-> sem[s].val + v(s),
                 semncnt |-> count("semncnt", s), semzcnt |-> count("semzcnt", s)]]
      /\ undo' = [undo EXCEPT ![p] = Empty]
      /\ has_undo' = has_undo \ {p}
      /\ pc' = [wakeprocs(pc, woke) EXCEPT ![p] = place]
  BY DEF semexit
<1>2. Tables /\ Apart /\ Adjusting
  BY DEF IInv
<1>3. sem \in [SemNum -> SemCell] /\ pc \in [Proc -> Place]
  BY <1>2 DEF Tables
<1>4. ASSUME NEW s \in hit
      PROVE  sem[s].val + v(s) \in SemVal
  <2>1. PICK k \in ks : Target(k) = s /\ v(s) = undo[p][k]
    <3>1. \E k \in ks : Target(k) = s
      OBVIOUS
    <3> HIDE DEF ks, hit
    <3> QED BY <3>1
  <2>2. sem[Target(k)].val + undo[p][k] \in SemVal
    BY DEF Applies, SemVal
  <2> QED BY <2>1, <2>2
<1> HIDE DEF ks, hit, v, woke
<1>5. sem' \in [SemNum -> SemCell]
  <2> SUFFICES ASSUME NEW s \in SemNum PROVE sem'[s] \in SemCell
    BY <1>1
  <2>1. \A c \in Count : count(c, s) \in Nat
    BY <1>3 DEF SemCell, Count
  <2> HIDE DEF count
  <2> QED BY <1>1, <1>3, <1>4, <2>1 DEF SemCell, Count
<1>6. pc' \in [Proc -> Place] /\ pc'[p] = place /\ Others(p, pc', woke)
  BY <1>1, <1>3 DEF wakeprocs, Place, Others
<1>7. Cleaned(sem', woke)
  <2> SUFFICES ASSUME NEW c \in Count, NEW s \in SemNum, sem[s][c] > 0
               PROVE  sem'[s][c] > 0 \/ << c, s >> \in woke
    BY DEF Cleaned
  <2>1. CASE s \notin hit
    BY <1>1, <2>1
  <2>2. CASE s \in hit
    <3>1. sem'[s][c] = count(c, s)
      BY <1>1, <2>2 DEF Count
    <3> QED BY <3>1
  <2> QED BY <2>1, <2>2
<1>8. \A q \in Proc : Held(q)'
  <2>1. \A q \in Proc : q # p => Held(q)'
    BY <1>6, <1>7, OthersHeld
  <2>2. Held(p)'
    BY <1>6 DEF Held
  <2> QED BY <2>1, <2>2
<1>9. /\ has_undo' \in SUBSET Proc /\ IsFiniteSet(has_undo')
      /\ Cardinality(has_undo') <= SEMMNU
  <2>1. /\ has_undo \in SUBSET Proc /\ IsFiniteSet(has_undo)
        /\ Cardinality(has_undo) <= SEMMNU /\ Cardinality(has_undo) \in Nat
        /\ SEMMNU \in Nat
    BY <1>2, FS_CardinalityType DEF Tables, SemAssumption
  <2>2. IsFiniteSet(has_undo') /\ Cardinality(has_undo') <= Cardinality(has_undo)
    BY <1>1, <2>1, FS_Subset
  <2>3. Cardinality(has_undo') \in Nat
    BY <2>2, FS_CardinalityType
  <2> QED BY <1>1, <2>1, <2>2, <2>3
<1>10. undo'[p] = Empty /\ \A q \in Proc : q # p => undo'[q] = undo[q]
  BY <1>1, <1>2 DEF Adjusting
<1>11. Adjusting'
  <2>1. Keys' = Keys
    BY SameSets
  <2>2. Empty \in Aoes(Keys) /\ DOMAIN Empty = {}
    BY NoAoes
  <2>3. undo' \in [Proc -> Aoes(Keys)]
    BY <1>1, <1>2, <2>2 DEF Adjusting
  <2>4. \A q \in Proc : DOMAIN undo'[q] # {} => q \in has_undo'
    BY <1>1, <1>2, <1>10, <2>2 DEF Adjusting
  <2> QED BY <2>1, <2>3, <2>4 DEF Adjusting
<1>12. \A q \in Proc : q # p => (pc'[q] = "gone" => pc[q] = "gone")
  BY <1>6 DEF Others
<1>13. ASSUME NEW s \in SemNum
       PROVE  LET a == sem[s].val + Adjustment(p, s)
              IN sem'[s].val = IF a \in SemVal THEN a ELSE sem[s].val
  <2> DEFINE as == {k \in DOMAIN undo[p] : semconv(k[1]) /\ Target(k) = s}
             a == sem[s].val + Adjustment(p, s)
  <2>1. sem[s].val \in SemVal /\ sem[s].val \in Int
    BY <1>3 DEF SemCell, SemVal
  <2>2. CASE as = {}
    <3>1. Adjustment(p, s) = 0 /\ s \notin hit
      BY <2>2 DEF Adjustment, hit, ks
    <3>2. sem'[s].val = sem[s].val /\ a = sem[s].val
      BY <1>1, <2>1, <3>1
    <3> QED BY <3>2
  <2>3. CASE as # {}
    <3>1. PICK k \in as : TRUE
      BY <2>3
    <3>2. \A j \in DOMAIN undo[p] : Target(j) = s => j = k
      BY <3>1, OneKey
    <3>3. as = {k}
      BY <3>1, <3>2
    <3>4. Adjustment(p, s) = undo[p][k]
      BY <3>3 DEF Adjustment
    <3>5. k \in DOMAIN undo[p] /\ Target(k) = s /\ semconv(k[1])
      BY <3>1
    <3>6. CASE Applies(p, k)
      <4>1. k \in ks /\ s \in hit
        BY <3>5, <3>6 DEF ks, hit
      <4>2. \A j \in ks : Target(j) = s => j = k
        BY <3>2 DEF ks
      <4>3. v(s) = undo[p][k]
        BY <3>5, <4>1, <4>2 DEF v
      <4>4. sem'[s].val = a
        BY <1>1, <3>4, <4>1, <4>3
      <4>5. a \in SemVal
        BY <3>4, <3>5, <3>6 DEF Applies, SemVal
      <4> QED BY <4>4, <4>5
    <3>7. CASE ~Applies(p, k)
      <4>1. s \notin hit
        BY <3>2, <3>7 DEF ks, hit
      <4>2. a \notin SemVal
        BY <3>4, <3>5, <3>7 DEF Applies, SemVal
      <4>3. sem'[s].val = sem[s].val
        BY <1>1, <4>1
      <4> QED BY <4>2, <4>3
    <3> QED BY <3>6, <3>7
  <2> QED BY <2>2, <2>3
<1> QED BY <1>5, <1>6, <1>8, <1>9, <1>10, <1>11, <1>12, <1>13

LEMMA SemexitStep ==
    ASSUME SemAssumption, IInv, NEW p \in Proc, NEW place \in {"user", "gone"},
           semexit(p, place), UNCHANGED << sema, semmap, lost, arg, wchan, p_sig >>
    PROVE  IInv'
<1>1. /\ sem' \in [SemNum -> SemCell] /\ pc' \in [Proc -> Place]
      /\ has_undo' \in SUBSET Proc /\ IsFiniteSet(has_undo')
      /\ Cardinality(has_undo') <= SEMMNU
      /\ \A q \in Proc : Held(q)'
      /\ Adjusting'
  BY SemexitKept
<1>2. Tables /\ Apart
  BY DEF IInv
<1>3. Tables'
  BY <1>1, <1>2 DEF Tables
<1> QED BY <1>1, <1>2, <1>3, SameApart DEF IInv

\* A step that only moves a process between user mode and a free slot.
LEMMA SlotStep ==
    ASSUME IInv, NEW p \in Proc, NEW place \in {"user", "gone"},
           pc' = [pc EXCEPT ![p] = place],
           UNCHANGED << semVars, undoVars, arg, wchan, p_sig >>
    PROVE  IInv'
<1>1. /\ sema' = sema /\ sem' = sem /\ semmap' = semmap /\ lost' = lost /\ undo' = undo
      /\ has_undo' = has_undo /\ arg' = arg /\ wchan' = wchan /\ p_sig' = p_sig
  BY DEF semVars, undoVars
<1>2. Tables /\ Apart /\ Adjusting /\ pc \in [Proc -> Place]
  BY DEF IInv, Tables
<1>3. pc' \in [Proc -> Place] /\ pc'[p] = place
  BY <1>2 DEF Place
<1>4. Tables'
  BY <1>1, <1>2, <1>3 DEF Tables
<1>5. Others(p, pc', {}) /\ Cleaned(sem', {})
  BY <1>1, <1>2 DEF Others, Cleaned
<1>6. \A q \in Proc : q # p => Held(q)'
  BY <1>1, <1>5, OthersHeld
<1>7. Held(p)'
  BY <1>3 DEF Held
<1> QED BY <1>1, <1>2, <1>4, <1>6, <1>7, SameApart, SameAdjusting DEF IInv

LEMMA ExitStep ==
    ASSUME SemAssumption, IInv, NEW p \in Proc, Exit(p)
    PROVE  IInv'
<1>1. CASE p \in Thread
  <2>1. pc' = [pc EXCEPT ![p] = "gone"] /\ UNCHANGED << semVars, undoVars, arg, wchan, p_sig >>
    BY <1>1 DEF Exit, semVars, undoVars
  <2> QED BY <2>1, SlotStep
<1>2. CASE p \notin Thread
  <2>1. semexit(p, "gone") /\ UNCHANGED << sema, semmap, lost, arg, wchan, p_sig >>
    BY <1>2 DEF Exit
  <2> QED BY <2>1, SemexitStep
<1> QED BY <1>1, <1>2

LEMMA NextHolds ==
    ASSUME SemAssumption, ~RemoveRaces, IInv, [Next]_vars
    PROVE  IInv'
<1>1. CASE UNCHANGED vars
  <2>1. /\ sema' = sema /\ sem' = sem /\ semmap' = semmap /\ lost' = lost /\ undo' = undo
        /\ has_undo' = has_undo /\ pc' = pc /\ arg' = arg /\ wchan' = wchan /\ p_sig' = p_sig
    BY <1>1 DEF vars, semVars, undoVars
  <2>2. Keys' = Keys
    BY <2>1, SameSets
  <2>3. \A q \in Proc : Held(q)' <=> Held(q)
    BY <2>1 DEF Held, Named, semconv, semid, InRange, Members
  <2>4. Apart'
    BY <2>1, SameApart DEF IInv
  <2> QED BY <2>1, <2>2, <2>3, <2>4 DEF IInv, Tables, Adjusting
<1>2. ASSUME NEW key \in Key, NEW n \in 1 .. SEMMSL, semget(key, n) PROVE IInv'
  BY <1>2, SemgetStep
<1>3. ASSUME NEW i \in Id, Remove(i) PROVE IInv'
  BY <1>3, RemoveStep
<1>4. ASSUME NEW i \in Id, NEW num \in 0 .. SEMMSL - 1, NEW v \in SemVal, SetVal(i, num, v)
      PROVE  IInv'
  BY <1>4, SetValStep
<1>5. ASSUME NEW p \in Proc, NEW c \in Calls(p),
             \/ Begin(p, c) \/ semop(p, c) \/ IpcSet(p, c)
             \/ \E vals \in [0 .. SEMMSL - 1 -> SemVal] : SetAll(p, c, vals)
      PROVE  IInv'
  BY <1>5, BeginStep, SemopStep, IpcSetStep, SetAllStep
<1>6. ASSUME NEW p \in Proc, Resume(p) \/ Signal(p) \/ Exit(p) PROVE IInv'
  BY <1>6, ResumeStep, SignalStep, ExitStep
<1>7. ASSUME NEW p \in Proc, ForkFails(p) PROVE IInv'
  BY <1>7, SemexitStep DEF ForkFails
<1>8. ASSUME NEW p \in Proc, newproc(p) PROVE IInv'
  BY <1>8, SlotStep DEF newproc
<1> QED BY <1>1, <1>2, <1>3, <1>4, <1>5, <1>6, <1>7, <1>8 DEF Next

-----------------------------------------------------------------------------
(* Slots that are free.                                                    *)

\* A slot that is free after a step was free before it, with no adjustment
\* more than it had.
StaysGone(q) == pc'[q] = "gone" => pc[q] = "gone" /\ (undo[q] = Empty => undo'[q] = Empty)

LEMMA GoneKept ==
    ASSUME SemAssumption, IInv, Next, ~ \E p \in Proc : Exit(p), NEW q \in Proc
    PROVE  StaysGone(q)
<1>1. pc \in [Proc -> Place] /\ undo = [p \in Proc |-> undo[p]]
  BY DEF IInv, Tables, Adjusting
<1>2. ASSUME NEW s, NEW nums, undo[q] = Empty PROVE semunrm(s, nums)[q] = Empty
  <2>1. DOMAIN Empty = {} /\ Empty = [k \in {} |-> 0]
    BY DEF Empty
  <2>2. semunrm(s, nums)[q]
          = Restrict(Empty, {k \in DOMAIN Empty : ~(k[1] = s /\ k[2] \in nums)})
    BY <1>2 DEF semunrm
  <2>3. {k \in DOMAIN Empty : ~(k[1] = s /\ k[2] \in nums)} = {}
    BY <2>1
  <2> QED BY <2>1, <2>2, <2>3 DEF Restrict
<1>3. ASSUME NEW key \in Key, NEW n \in 1 .. SEMMSL, semget(key, n) PROVE StaysGone(q)
  BY <1>3 DEF semget, undoVars, StaysGone
<1>4. ASSUME NEW i \in Id, Remove(i) PROVE StaysGone(q)
  BY <1>2, <1>4 DEF Remove, wakeprocs, StaysGone
<1>5. ASSUME NEW i \in Id, NEW num, NEW v, SetVal(i, num, v) PROVE StaysGone(q)
  BY <1>2, <1>5 DEF SetVal, wakeprocs, StaysGone
<1>6. ASSUME NEW p \in Proc, NEW c, Begin(p, c) PROVE StaysGone(q)
  BY <1>1, <1>6 DEF Begin, undoVars, StaysGone
<1>7. ASSUME NEW p \in Proc, NEW c, IpcSet(p, c) PROVE StaysGone(q)
  BY <1>1, <1>7 DEF IpcSet, undoVars, StaysGone
<1>8. ASSUME NEW p \in Proc, NEW c, NEW vals, SetAll(p, c, vals) PROVE StaysGone(q)
  BY <1>1, <1>2, <1>8 DEF SetAll, wakeprocs, StaysGone
<1>9. ASSUME NEW p \in Proc, NEW sems, NEW c, NEW places, Interrupted(p, c, sems, places),
             \A r \in Proc : places[r] = "gone" => pc[r] = "gone"
      PROVE  (pc'[q] = "gone" => pc[q] = "gone" /\ q # p) /\ pc'[p] = "user"
  BY <1>9 DEF Interrupted, wakeprocs
<1>10. ASSUME NEW p \in Proc, NEW c, Pass(p, c) PROVE StaysGone(q)
  <2> DEFINE base == sema[c.sp].base
             w == Perform(p, c.ops, base, c.semid)
             u == IF w.end = "ok" THEN w ELSE semundo(w, c.ops, base, c.semid)
             chan == << w.end, base + c.ops[w.done + 1].num >>
             sems == [u.sem EXCEPT ![chan[2]][chan[1]] = @ + 1]
             places == wakeprocs(pc, w.woke)
  <2>1. /\ undo' = [undo EXCEPT ![p] = u.aoe]
        /\ \/ pc' = [places EXCEPT ![p] = "user"]
           \/ Interrupted(p, chan, sems, places)
           \/ pc' = [places EXCEPT ![p] = "asleep"]
    BY <1>10 DEF Pass
  <2> HIDE DEF base, w, u, chan, sems
  <2>2. \A r \in Proc : places[r] = "gone" => pc[r] = "gone"
    BY DEF wakeprocs
  <2>3. places = [r \in Proc |-> places[r]]
    BY DEF wakeprocs
  <2> HIDE DEF places
  <2>4. pc'[q] = "gone" => pc[q] = "gone" /\ q # p
    BY <1>9, <2>1, <2>2, <2>3
  <2>5. q # p => undo'[q] = undo[q]
    BY <1>1, <2>1
  <2> QED BY <2>4, <2>5 DEF StaysGone
<1>11. ASSUME NEW p \in Proc, NEW c, semop(p, c) PROVE StaysGone(q)
  BY <1>1, <1>10, <1>11 DEF semop, undoVars, StaysGone
<1>12. ASSUME NEW p \in Proc, Resume(p) PROVE StaysGone(q)
  <2>1. CASE Interrupted(p, wchan[p], sem, pc) /\ UNCHANGED << sema, semmap, lost, undoVars >>
    BY <1>9, <2>1 DEF undoVars, StaysGone
  <2>2. CASE \E c : Pass(p, c)
    BY <1>10, <2>2
  <2>3. CASE /\ \/ pc' = [pc EXCEPT ![p] = "user"]
                \/ pc' = [pc EXCEPT ![p] = "copyin"]
             /\ undo' = undo
    BY <1>1, <2>3 DEF StaysGone
  <2> QED BY <1>12, <2>1, <2>2, <2>3 DEF Resume, undoVars
<1>13. ASSUME NEW p \in Proc, Signal(p) PROVE StaysGone(q)
  BY <1>1, <1>13 DEF Signal, undoVars, StaysGone
<1>14. ASSUME NEW p \in Proc, ForkFails(p) PROVE StaysGone(q)
  <2>1. /\ pc'[p] = "user" /\ \A r \in Proc : r # p => (pc'[r] = "gone" => pc[r] = "gone")
    BY <1>14, SemexitKept DEF ForkFails
  <2>2. undo' = [undo EXCEPT ![p] = Empty]
    BY <1>14 DEF ForkFails, semexit
  <2> QED BY <1>1, <2>1, <2>2 DEF StaysGone
<1>15. ASSUME NEW p \in Proc, newproc(p) PROVE StaysGone(q)
  BY <1>1, <1>15 DEF newproc, undoVars, StaysGone
<1> QED BY <1>3, <1>4, <1>5, <1>6, <1>7, <1>8, <1>11, <1>12, <1>13, <1>14, <1>15 DEF Next

-----------------------------------------------------------------------------
(* What a pass that goes through comes to.                                 *)

\* The adjustment for k, 0 if there is none.
Entry(aoe, k) == IF k \in DOMAIN aoe THEN aoe[k] ELSE 0

\* What one operation changes.
LEMMA OperateChanges ==
    ASSUME SemAssumption, Tables, NEW p \in Proc, NEW i \in Nat, NEW w, Working(w, p, i),
           NEW op \in Op, NEW x \in SemNum, NEW k \in Keys
    PROVE  LET n == Operate(w, op, x, k)
           IN /\ \A y \in SemNum :
                    n.sem[y].val = w.sem[y].val + IF y = x THEN op.op ELSE 0
              /\ \A y \in SemNum, c \in Count :
                    n.sem[y][c] = IF y = x /\ c \in Cleared(w.sem[x], op.op)
                                  THEN 0 ELSE w.sem[y][c]
              /\ n.woke = w.woke \cup (Cleared(w.sem[x], op.op) \X {x})
<1> DEFINE n == Operate(w, op, x, k)
           cleared == Cleared(w.sem[x], op.op)
<1>1. /\ w = [sem |-> w.sem, aoe |-> w.aoe, has |-> w.has, woke |-> w.woke,
              end |-> w.end, done |-> w.done]
      /\ w.sem \in [SemNum -> SemCell] /\ w.aoe \in Aoes(Keys)
  BY WorkingForm
<1>2. op.op \in Int /\ op.undo \in BOOLEAN
  BY DEF Op
<1>3. /\ n.sem = [w.sem EXCEPT ![x] =
                [val |-> w.sem[x].val + op.op,
                 semncnt |-> IF "semncnt" \in cleared THEN 0 ELSE w.sem[x].semncnt,
                 semzcnt |-> IF "semzcnt" \in cleared THEN 0 ELSE w.sem[x].semzcnt]]
      /\ n.woke = w.woke \cup (cleared \X {x})
      /\ n.aoe = IF op.undo /\ op.op # 0 THEN semaoe(w.aoe, op.op, k) ELSE w.aoe
  BY <1>1 DEF Operate
<1> HIDE DEF n, cleared
<1>4. \A y \in SemNum : w.sem[y].val \in Int
  BY <1>1 DEF SemCell, SemVal
<1>5. \A y \in SemNum : n.sem[y].val = w.sem[y].val + IF y = x THEN op.op ELSE 0
  BY <1>1, <1>2, <1>3, <1>4
<1>6. \A y \in SemNum, c \in Count :
        n.sem[y][c] = IF y = x /\ c \in cleared THEN 0 ELSE w.sem[y][c]
  BY <1>1, <1>3 DEF Count
<1> QED BY <1>3, <1>5, <1>6 DEF n, cleared

LEMMA OperateAdjusts ==
    ASSUME SemAssumption, Tables, NEW p \in Proc, NEW i \in Nat, NEW w, Working(w, p, i),
           NEW op \in Op, NEW x, NEW k, NEW n, n = Operate(w, op, x, k), NEW j
    PROVE  /\ Entry(w.aoe, j) \in Int
           /\ op.undo /\ j = k => Entry(n.aoe, j) = Entry(w.aoe, j) - op.op
           /\ ~(op.undo /\ j = k) => Entry(n.aoe, j) = Entry(w.aoe, j)
<1>1. /\ w = [sem |-> w.sem, aoe |-> w.aoe, has |-> w.has, woke |-> w.woke,
              end |-> w.end, done |-> w.done]
      /\ w.aoe \in Aoes(Keys) /\ op.op \in Int
  BY WorkingForm DEF Op
<1>2. n.aoe = IF op.undo /\ op.op # 0 THEN semaoe(w.aoe, op.op, k) ELSE w.aoe
  BY <1>1 DEF Operate
<1>3. Entry(w.aoe, j) \in Int
  <2>1. j \in DOMAIN w.aoe => w.aoe[j] \in Aoe
    BY <1>1, AoesFacts
  <2> QED BY <2>1 DEF Entry, Aoe, SemAssumption
<1>4. CASE op.undo /\ op.op # 0
  <2> DEFINE e == Entry(w.aoe, k) - op.op
             keys == IF e = 0 THEN DOMAIN w.aoe \ {k} ELSE DOMAIN w.aoe \cup {k}
  <2>1. n.aoe = [l \in keys |-> IF l = k THEN e ELSE w.aoe[l]]
    BY <1>2, <1>4 DEF semaoe, Entry
  <2>2. DOMAIN n.aoe = keys /\ \A l \in keys : n.aoe[l] = IF l = k THEN e ELSE w.aoe[l]
    BY <2>1
  <2>3. CASE j = k
    <3>1. Entry(n.aoe, k) = e
      <4> HIDE DEF e
      <4>1. k \in keys <=> e # 0
        OBVIOUS
      <4> QED BY <2>2, <4>1 DEF Entry
    <3> QED BY <1>3, <1>4, <2>3, <3>1
  <2>4. CASE j # k
    <3>1. j \in keys <=> j \in DOMAIN w.aoe
      BY <2>4
    <3>2. Entry(n.aoe, j) = Entry(w.aoe, j)
      <4> HIDE DEF e, keys
      <4> QED BY <2>2, <2>4, <3>1 DEF Entry
    <3> QED BY <1>3, <2>4, <3>2
  <2> QED BY <2>3, <2>4
<1>5. CASE ~(op.undo /\ op.op # 0)
  <2>1. n.aoe = w.aoe
    BY <1>2, <1>5
  <2>2. op.undo /\ j = k => op.op = 0
    BY <1>5
  <2> QED BY <1>3, <2>1, <2>2
<1> QED BY <1>4, <1>5

\* A turn after which the pass goes on has done its operation.
LEMMA TurnDone ==
    ASSUME SemAssumption, Tables, Apart, Adjusting, NEW p \in Proc, NEW ops, NEW base, NEW s,
           Fit(ops, base, s), NEW f, After(p, ops, base, s, f),
           NEW i \in 0 .. Len(ops) - 1, f[i + 1].end = "ok"
    PROVE  LET op == ops[i + 1]
               x == base + op.num
               k == << s, op.num >>
           IN /\ Working(f[i], p, i) /\ f[i].end = "ok"
              /\ Verdict(f[i], op, x, k) = "ok"
              /\ f[i + 1] = Operate(f[i], op, x, k)
<1> DEFINE op == ops[i + 1]
           x == base + op.num
           k == << s, op.num >>
           v == Verdict(f[i], op, x, k)
           n == Try(f[i], op, base, s)
<1>1. Len(ops) \in Nat /\ i \in Nat /\ i \in 0 .. Len(ops)
  BY DEF Fit
<1>2. Working(f[i], p, i)
  BY <1>1, AllWork
<1>3. \/ f[i].end # "ok" /\ n = f[i]
      \/ f[i].end = "ok" /\ v = "ok" /\ n = Operate(f[i], op, x, k)
      \/ n.end # "ok"
  BY <1>2, TryWorks
<1>4. f[i + 1] = n
  BY <1>1 DEF After
<1> HIDE DEF n, v, op
<1> QED BY <1>2, <1>3, <1>4 DEF v, op

\* While a pass goes on, all its turns have done theirs.
LEMMA AllDone ==
    ASSUME SemAssumption, Tables, Apart, Adjusting, NEW p \in Proc, NEW ops, NEW base, NEW s,
           Fit(ops, base, s), NEW f, After(p, ops, base, s, f),
           NEW m \in 0 .. Len(ops), f[m].end = "ok"
    PROVE  \A j \in 0 .. m : f[j].end = "ok"
<1>1. f[m].done = m
  BY AllWork DEF Working
<1> QED BY <1>1, Reached

\* The values and the adjustments are what they were and the sum of the
\* operations done.
LEMMA PassAdds ==
    ASSUME SemAssumption, Tables, Apart, Adjusting, NEW p \in Proc, NEW ops, NEW base, NEW s,
           Fit(ops, base, s), NEW f, After(p, ops, base, s, f),
           NEW m \in 0 .. Len(ops), f[m].end = "ok", NEW x \in SemNum
    PROVE  /\ Total(ops, On(ops, base, x) \cap (1 .. m)) \in Int
           /\ f[m].sem[x].val = sem[x].val + Total(ops, On(ops, base, x) \cap (1 .. m))
<1> DEFINE h == [n \in DOMAIN ops |-> ops[n].op]
           D == On(ops, base, x) \cap (1 .. m)
           a == [i \in 0 .. m |-> f[i].sem[x].val]
<1>1. ops \in Seq(Op) /\ Len(ops) \in Nat /\ m \in Nat /\ DOMAIN ops = 1 .. Len(ops)
  BY DEF Fit
<1>2. Numbers(h, D)
  <2> SUFFICES ASSUME NEW i \in D PROVE h[i] \in Int
    BY DEF Numbers
  <2>1. i \in DOMAIN ops
    BY DEF On
  <2>2. ops[i] \in Op
    BY <1>1, <2>1
  <2> QED BY <2>1, <2>2 DEF Op
<1>3. \A i \in 0 .. m : Working(f[i], p, i) /\ f[i].end = "ok"
  BY <1>1, AllWork, AllDone
<1>4. a[0] = sem[x].val /\ a[0] \in Int
  BY <1>1 DEF After, Start, Tables, SemCell, SemVal
<1>5. ASSUME NEW i \in 1 .. m PROVE a[i] = a[i - 1] + IF i \in D THEN h[i] ELSE 0
  <2> DEFINE op == ops[i]
  <2>1. /\ i - 1 \in 0 .. Len(ops) - 1 /\ i - 1 \in Nat /\ (i - 1) + 1 = i /\ i \in 1 .. Len(ops)
        /\ i - 1 \in 0 .. m /\ i \in 0 .. m
    BY <1>1
  <2>2. f[i] = Operate(f[i - 1], op, base + op.num, << s, op.num >>)
    BY <1>3, <2>1, TurnDone
  <2>3. op \in Op /\ base + op.num \in SemNum /\ << s, op.num >> \in Keys
    BY <2>1, FitKey
  <2> HIDE DEF op
  <2>4. f[i].sem[x].val = f[i - 1].sem[x].val + IF x = base + op.num THEN op.op ELSE 0
    BY <1>3, <2>1, <2>2, <2>3, OperateChanges
  <2>5. i \in D <=> x = base + op.num
    BY <1>1, <2>1 DEF On, op
  <2>6. h[i] = op.op
    BY <1>1, <2>1 DEF op
  <2> QED BY <2>1, <2>4, <2>5, <2>6
<1>6. Running(a, h, D, m)
  BY <1>5 DEF Running
<1> HIDE DEF a, h
<1>7. D \in SUBSET (1 .. m)
  OBVIOUS
<1>8. D \cap (1 .. m) = D /\ m \in 0 .. m
  BY <1>1
<1> HIDE DEF D
<1>9. /\ SumFunctionOnSet(h, D \cap (1 .. m)) \in Int
      /\ a[m] = a[0] + SumFunctionOnSet(h, D \cap (1 .. m))
  BY <1>1, <1>2, <1>4, <1>7, <1>8, <1>6, RunningTotal
<1>10. Total(ops, D) = SumFunctionOnSet(h, D) /\ a[m] = f[m].sem[x].val
  BY <1>8 DEF Total, h, a
<1> QED BY <1>4, <1>8, <1>9, <1>10 DEF D

LEMMA PassAdjusts ==
    ASSUME SemAssumption, Tables, Apart, Adjusting, NEW p \in Proc, NEW ops, NEW base, NEW s,
           Fit(ops, base, s), NEW f, After(p, ops, base, s, f),
           NEW m \in 0 .. Len(ops), f[m].end = "ok", NEW x \in SemNum
    PROVE  LET N == {n \in On(ops, base, x) : ops[n].undo}
           IN Entry(f[m].aoe, << s, x - base >>)
                = Entry(undo[p], << s, x - base >>) - Total(ops, N \cap (1 .. m))
<1> DEFINE h == [n \in DOMAIN ops |-> ops[n].op]
           k == << s, x - base >>
           D == {n \in On(ops, base, x) : ops[n].undo} \cap (1 .. m)
           a == [i \in 0 .. m |-> 0 - Entry(f[i].aoe, k)]
<1>1. ops \in Seq(Op) /\ Len(ops) \in Nat /\ m \in Nat /\ DOMAIN ops = 1 .. Len(ops)
  BY DEF Fit
<1>2. Numbers(h, D)
  <2> SUFFICES ASSUME NEW i \in D PROVE h[i] \in Int
    BY DEF Numbers
  <2>1. i \in DOMAIN ops
    BY DEF On
  <2>2. ops[i] \in Op
    BY <1>1, <2>1
  <2> QED BY <2>1, <2>2 DEF Op
<1>3. \A i \in 0 .. m : Working(f[i], p, i) /\ f[i].end = "ok"
  BY <1>1, AllWork, AllDone
<1>4. \A i \in 0 .. m : Entry(f[i].aoe, k) \in Int
  <2> SUFFICES ASSUME NEW i \in 0 .. m PROVE Entry(f[i].aoe, k) \in Int
    OBVIOUS
  <2>1. f[i].aoe \in Aoes(Keys)
    BY <1>1, <1>3, WorkingForm
  <2>2. k \in DOMAIN f[i].aoe => f[i].aoe[k] \in Aoe
    BY <2>1, AoesFacts
  <2> HIDE DEF k
  <2> QED BY <2>2 DEF Entry, Aoe, SemAssumption
<1>5. f[0].aoe = undo[p] /\ 0 \in 0 .. m
  BY <1>1 DEF After, Start
<1>6. base \in Nat /\ x \in Nat
  <2>1. s % NIDS \in Id
    BY Index DEF Fit
  <2> QED BY <2>1 DEF Fit, Tables, SemNum, SemAssumption
<1>7. ASSUME NEW i \in 1 .. m PROVE a[i] = a[i - 1] + IF i \in D THEN h[i] ELSE 0
  <2> DEFINE op == ops[i]
  <2>1. /\ i - 1 \in 0 .. Len(ops) - 1 /\ i - 1 \in Nat /\ (i - 1) + 1 = i /\ i \in 1 .. Len(ops)
        /\ i - 1 \in 0 .. m /\ i \in 0 .. m
    BY <1>1
  <2>2. f[i] = Operate(f[i - 1], op, base + op.num, << s, op.num >>)
    BY <1>3, <2>1, TurnDone
  <2>3. op \in Op /\ base + op.num \in SemNum /\ << s, op.num >> \in Keys
    BY <2>1, FitKey
  <2>4. op.num \in Nat /\ op.op \in Int
    BY <2>3 DEF Op
  <2>5. i \in D <=> op.undo /\ x = base + op.num
    BY <1>1, <2>1 DEF On
  <2>6. h[i] = op.op
    BY <1>1, <2>1
  <2>7. k = << s, op.num >> <=> x = base + op.num
    <3>1. x - base = op.num <=> x = base + op.num
      BY <1>6, <2>4
    <3> QED BY <3>1
  <2> HIDE DEF op, k, D, h
  <2>8. /\ op.undo /\ k = << s, op.num >> => Entry(f[i].aoe, k) = Entry(f[i - 1].aoe, k) - op.op
        /\ ~(op.undo /\ k = << s, op.num >>) => Entry(f[i].aoe, k) = Entry(f[i - 1].aoe, k)
    <3>1. Working(f[i - 1], p, i - 1)
      BY <1>3, <2>1
    <3>2. PICK w, n, c, y, l, o, j : /\ w = f[i - 1] /\ n = f[i] /\ c = i - 1 /\ o = op
                                     /\ y = base + op.num /\ l = << s, op.num >> /\ j = k
      OBVIOUS
    <3>3. c \in Nat /\ Working(w, p, c) /\ n = Operate(w, o, y, l) /\ o \in Op
      BY <2>1, <2>2, <2>3, <3>1, <3>2
    <3>4. /\ o.undo /\ j = l => Entry(n.aoe, j) = Entry(w.aoe, j) - o.op
          /\ ~(o.undo /\ j = l) => Entry(n.aoe, j) = Entry(w.aoe, j)
      BY <3>3, OperateAdjusts
    <3> QED BY <3>2, <3>4
  <2>9. Entry(f[i - 1].aoe, k) \in Int
    BY <1>4, <2>1
  <2>10. a[i] = 0 - Entry(f[i].aoe, k) /\ a[i - 1] = 0 - Entry(f[i - 1].aoe, k)
    BY <2>1
  <2> HIDE DEF a
  <2> QED BY <2>4, <2>5, <2>6, <2>7, <2>8, <2>9, <2>10
<1>8. Running(a, h, D, m)
  BY <1>7 DEF Running
<1>9. D \in SUBSET (1 .. m)
  OBVIOUS
<1>10. D \cap (1 .. m) = D /\ m \in 0 .. m
  BY <1>1
<1>11. a[m] = 0 - Entry(f[m].aoe, k) /\ a[0] = 0 - Entry(undo[p], k) /\ a[0] \in Int
  BY <1>4, <1>5, <1>10
<1>12. Entry(f[m].aoe, k) \in Int /\ Entry(undo[p], k) \in Int
  BY <1>4, <1>5, <1>10
<1>13. Total(ops, D) = SumFunctionOnSet(h, D)
  BY DEF Total
<1> HIDE DEF D, a, h, k
<1>14. /\ SumFunctionOnSet(h, D \cap (1 .. m)) \in Int
       /\ a[m] = a[0] + SumFunctionOnSet(h, D \cap (1 .. m))
  BY <1>1, <1>2, <1>9, <1>10, <1>11, <1>8, RunningTotal
<1>15. Entry(f[m].aoe, k) = Entry(undo[p], k) - Total(ops, D)
  <2>1. Total(ops, D) \in Int /\ a[m] = a[0] + Total(ops, D)
    BY <1>10, <1>13, <1>14
  <2> QED BY <1>11, <1>12, <2>1
<1> QED BY <1>15 DEF D, k

\* The adjustment of a process for a semaphore of a set is the one that semop()
\* keeps under its number.
LEMMA AdjustmentIs ==
    ASSUME SemAssumption, IInv, NEW p \in Proc, NEW i \in Allocated, NEW x \in Members(i)
    PROVE  Adjustment(p, x) = Entry(undo[p], << semid(i), x - sema[i].base >>)
<1> DEFINE ks == {k \in DOMAIN undo[p] : semconv(k[1]) /\ Target(k) = x}
           e == << semid(i), x - sema[i].base >>
<1>1. Tables /\ Apart /\ undo[p] \in Aoes(Keys) /\ i \in Id /\ sema[i].alloc
  BY DEF IInv, Adjusting, Allocated
<1>2. semid(i) \in Nat /\ semid(i) % NIDS = i /\ semconv(semid(i))
  BY <1>1, SemidOf
<1>3. sema[i].base \in Nat /\ sema[i].nsems \in Nat /\ x \in Nat /\ x >= sema[i].base
  BY <1>1 DEF Tables, SemNum, SemAssumption, Members
<1>4. Target(e) = x
  BY <1>2, <1>3 DEF Target
<1>5. ASSUME NEW k \in ks PROVE k = e
  <2>1. k \in DOMAIN undo[p] /\ k \in Keys /\ Target(k) = x /\ semconv(k[1])
    BY <1>1, AoesFacts
  <2>2. k = << k[1], k[2] >> /\ k[1] \in Nat /\ k[2] \in Nat /\ k[2] < sema[k[1] % NIDS].nsems
    BY <2>1 DEF Keys
  <2>3. k[1] % NIDS \in Allocated /\ k[1] % NIDS \in Id
    BY <2>1, <2>2, Index DEF semconv, Allocated
  <2>4. sema[k[1] % NIDS].base \in Nat /\ sema[k[1] % NIDS].nsems \in Nat
    BY <1>1, <2>3 DEF Tables, SemNum, SemAssumption
  <2>5. x \in Members(k[1] % NIDS)
    <3>1. PICK j : j = k[1] % NIDS
      OBVIOUS
    <3>2. x = sema[j].base + k[2]
      BY <2>1, <3>1 DEF Target
    <3>3. sema[j].base \in Nat /\ sema[j].nsems \in Nat /\ k[2] \in Nat /\ k[2] < sema[j].nsems
      BY <2>2, <2>4, <3>1
    <3>4. x \in sema[j].base .. sema[j].base + sema[j].nsems - 1
      BY <3>2, <3>3
    <3> QED BY <3>1, <3>4 DEF Members
  <2>6. k[1] % NIDS = i
    BY <1>1, <2>3, <2>5, OneSet
  <2>7. k[1] = semid(i)
    BY <2>1, <2>6 DEF semconv
  <2>8. k[2] = x - sema[i].base
    BY <1>3, <2>1, <2>2, <2>6 DEF Target
  <2> QED BY <2>2, <2>7, <2>8
<1>6. CASE e \in DOMAIN undo[p]
  <2>1. ks = {e}
    <3>1. e \in ks
      BY <1>2, <1>4, <1>6
    <3> QED BY <1>5, <3>1
  <2> HIDE DEF e
  <2>2. Adjustment(p, x) = undo[p][e]
    BY <2>1 DEF Adjustment
  <2> QED BY <1>6, <2>2 DEF Entry, e
<1>7. CASE e \notin DOMAIN undo[p]
  <2>1. ks = {}
    <3>1. \A k \in ks : k \in DOMAIN undo[p]
      OBVIOUS
    <3> HIDE DEF e, ks
    <3> QED BY <1>5, <1>7, <3>1
  <2>2. Adjustment(p, x) = 0
    BY <2>1 DEF Adjustment
  <2> HIDE DEF ks
  <2> QED BY <1>7, <2>2 DEF Entry
<1> QED BY <1>6, <1>7

\* A list that semop() passes on to its loop.
LEMMA ListFits ==
    ASSUME SemAssumption, IInv, NEW i \in Allocated, NEW ops \in OpLists,
           ~TooBig(Call("semop", i, ops))
    PROVE  Fit(ops, sema[i].base, semid(i))
<1>1. Tables
  BY DEF IInv
<1>2. i \in Id /\ sema[i].alloc /\ semid(i) \in Nat /\ semid(i) % NIDS = i /\ semconv(semid(i))
  BY <1>1, SemidOf DEF Allocated
<1>3. ops \in Seq(Op)
  BY DEF SemAssumption, Op
<1>4. \A n \in DOMAIN ops : ops[n].num < sema[i].nsems
  <2>1. \A n \in DOMAIN ops : ops[n] \in Op
    BY <1>3
  <2>2. \A n \in DOMAIN ops : ops[n].num \in Int
    BY <2>1 DEF Op
  <2>3. sema[i].nsems \in Int
    BY <1>1, <1>2 DEF Tables
  <2> QED BY <2>2, <2>3 DEF TooBig, Call
<1> QED BY <1>2, <1>3, <1>4 DEF Fit

\* The pass that goes through.
Undoing(ops, N) == {n \in N : ops[n].undo}

LEMMA AllDoes ==
    ASSUME SemAssumption, IInv, NEW p \in Proc, NEW i \in Allocated, NEW ops \in OpLists,
           ~TooBig(Call("semop", i, ops)),
           NEW w, w = Perform(p, ops, sema[i].base, semid(i)), w.end = "ok",
           NEW x \in Members(i)
    PROVE  LET N == On(ops, sema[i].base, x)
           IN /\ w.sem[x].val = sem[x].val + Total(ops, N)
              /\ Entry(w.aoe, << semid(i), x - sema[i].base >>)
                   = Adjustment(p, x) - Total(ops, Undoing(ops, N))
<1> DEFINE base == sema[i].base
           s == semid(i)
           N == On(ops, base, x)
           M == {n \in N : ops[n].undo}
<1>1. Tables /\ Apart /\ Adjusting /\ Fit(ops, base, s)
  BY ListFits DEF IInv
<1>2. ops \in Seq(Op) /\ Len(ops) \in Nat /\ Len(ops) \in 0 .. Len(ops)
  BY <1>1 DEF Fit
<1>3. x \in SemNum
  <2>1. Members(i) \subseteq SemNum
    BY <1>1 DEF Apart
  <2> QED BY <2>1
<1>4. N \cap (1 .. Len(ops)) = N /\ M \cap (1 .. Len(ops)) = M
  BY <1>2 DEF On
<1>5. Adjustment(p, x) = Entry(undo[p], << s, x - base >>)
  BY AdjustmentIs
<1> HIDE DEF base, s
<1>6. PICK f : After(p, ops, base, s, f) /\ w = f[Len(ops)]
  BY <1>2, AfterExists DEF base, s
<1>7. w.sem[x].val = sem[x].val + Total(ops, N)
  <2>1. w.sem[x].val = sem[x].val + Total(ops, N \cap (1 .. Len(ops)))
    BY <1>1, <1>2, <1>3, <1>6, PassAdds
  <2> QED BY <1>4, <2>1
<1>8. Entry(w.aoe, << s, x - base >>) = Entry(undo[p], << s, x - base >>) - Total(ops, M)
  <2>1. Entry(w.aoe, << s, x - base >>)
          = Entry(undo[p], << s, x - base >>) - Total(ops, M \cap (1 .. Len(ops)))
    BY <1>1, <1>2, <1>3, <1>6, PassAdjusts
  <2> QED BY <1>4, <2>1
<1> QED BY <1>5, <1>7, <1>8 DEF base, s, Undoing

\* The pass that does not.
LEMMA NothingDone ==
    ASSUME SemAssumption, IInv, NEW p \in Proc, NEW i \in Allocated, NEW ops \in OpLists,
           ~TooBig(Call("semop", i, ops)),
           NEW w, w = Perform(p, ops, sema[i].base, semid(i)),
           NEW u, u = semundo(w, ops, sema[i].base, semid(i))
    PROVE  u.aoe = undo[p] /\ \A s \in SemNum : u.sem[s].val = sem[s].val
<1>1. Tables /\ Apart /\ Adjusting /\ Fit(ops, sema[i].base, semid(i))
  BY ListFits DEF IInv
<1>2. u = Undone(w, Start(p))
  BY <1>1, Rollback
<1> QED BY <1>2 DEF Undone, Start

-----------------------------------------------------------------------------
(* Sleepers that could not do their list.                                  *)

\* A list that tests no semaphore for zero after an operation that changes it.
ZeroFirst(ops) ==
    \A j, n \in DOMAIN ops :
        j < n /\ ops[n].op = 0 /\ ops[j].num = ops[n].num => ops[j].op = 0

\* The operations on semaphore x before the n-th, and what it means that the
\* n-th sends the process to sleep on count c of x while its value is val.
Before(ops, base, x, n) == Total(ops, On(ops, base, x) \cap (1 .. n - 1))
Stops(ops, base, c, x, n, val) ==
    /\ base + ops[n].num = x /\ Before(ops, base, x, n) \in Int
    /\ IF c = "semncnt" THEN val + Before(ops, base, x, n) < -ops[n].op
       ELSE ops[n].op = 0 /\ Before(ops, base, x, n) = 0 /\ val # 0

\* An operation of the list a process sleeps for still stops it.
Stopped(p) ==
    LET x == wchan[p][2]
    IN \E n \in DOMAIN arg[p].ops :
        Stops(arg[p].ops, sema[arg[p].sp].base, wchan[p][1], x, n, sem[x].val)

Barred(p) ==
    /\ pc[p] \in {"copyin", "asleep", "woken"} => ZeroFirst(arg[p].ops)
    /\ pc[p] = "asleep" => Stopped(p)

\* No value changed so that a sleeper might go on who is not among W.
Settles(sems, W) ==
    \A x \in SemNum :
        /\ sem[x].semncnt > 0 /\ << "semncnt", x >> \notin W => sems[x].val <= sem[x].val
        /\ sem[x].semzcnt > 0 /\ << "semzcnt", x >> \notin W /\ sem[x].val # 0
            => sems[x].val # 0

LEMMA StaysStopped ==
    ASSUME NEW ops, NEW n, ops[n].op \in Int, NEW base, NEW c, NEW x, NEW val \in Int, NEW new \in Int,
           Stops(ops, base, c, x, n, val),
           c = "semncnt" => new <= val,
           c # "semncnt" => (val # 0 => new # 0)
    PROVE  Stops(ops, base, c, x, n, new)
<1> DEFINE b == Before(ops, base, x, n)
           k == ops[n].op
<1>1. b \in Int /\ base + ops[n].num = x /\ k \in Int
  BY DEF Stops
<1>2. CASE c = "semncnt"
  <2>1. val + b < -k
    BY <1>2 DEF Stops
  <2> HIDE DEF b, k
  <2>2. new + b < -k
    BY <1>1, <1>2, <2>1
  <2> QED BY <1>1, <1>2, <2>2 DEF Stops, b, k
<1>3. CASE c # "semncnt"
  BY <1>3 DEF Stops
<1> QED BY <1>2, <1>3

\* A process that stays asleep stays stopped.
LEMMA StillBarred ==
    ASSUME SemAssumption, IInv, IInv', NEW W, Settles(sem', W), NEW q \in Proc, Barred(q),
           pc'[q] \in {"copyin", "asleep", "woken"} =>
               /\ pc[q] \in {"copyin", "asleep", "woken"}
               /\ wchan'[q] = wchan[q] /\ arg'[q] = arg[q],
           pc'[q] = "asleep" => pc[q] = "asleep" /\ wchan[q] \notin W,
           \A i \in Allocated : sema'[i].base = sema[i].base
    PROVE  Barred(q)'
<1>1. Held(q) /\ Tables /\ Tables'
  BY DEF IInv
<1>2. pc'[q] \in {"copyin", "asleep", "woken"} => ZeroFirst(arg'[q].ops)
  BY DEF Barred
<1>3. ASSUME pc'[q] = "asleep" PROVE Stopped(q)'
  <2>1. pc[q] = "asleep" /\ wchan[q] \notin W /\ wchan'[q] = wchan[q] /\ arg'[q] = arg[q]
    BY <1>3
  <2> DEFINE ops == arg[q].ops
             base == sema[arg[q].sp].base
             c == wchan[q][1]
             x == wchan[q][2]
  <2>2. /\ wchan[q] \in Chan /\ wchan[q] = << c, x >> /\ c \in Count /\ x \in SemNum
        /\ sem[x][c] > 0
    BY <1>1, <2>1 DEF Held, Chan, Count
  <2>3. arg[q].sp \in Allocated
    <3>1. Named(arg[q]) /\ semconv(arg[q].semid)
      BY <1>1, <2>1 DEF Held
    <3>2. arg[q].sp \in Id
      BY <1>1 DEF Tables
    <3> QED BY <3>1, <3>2 DEF Named, semconv, Allocated
  <2>4. PICK n \in DOMAIN ops : Stops(ops, base, c, x, n, sem[x].val)
    BY <2>1 DEF Barred, Stopped
  <2>5. ops[n].op \in Int
    <3>1. ops \in Seq(Op)
      BY <1>1 DEF Tables
    <3>2. ops[n] \in Op
      BY <3>1
    <3> QED BY <3>2 DEF Op
  <2>6. sem[x].val \in Int /\ sem'[x].val \in Int
    <3>1. sem \in [SemNum -> SemCell] /\ sem' \in [SemNum -> SemCell]
      BY <1>1 DEF Tables
    <3>2. sem[x].val \in SemVal /\ sem'[x].val \in SemVal
      BY <2>2, <3>1 DEF SemCell
    <3> QED BY <3>2 DEF SemVal
  <2> HIDE DEF ops, base, c, x
  <2>7. c = "semncnt" => sem'[x].val <= sem[x].val
    BY <2>1, <2>2 DEF Settles
  <2>8. c # "semncnt" => (sem[x].val # 0 => sem'[x].val # 0)
    BY <2>1, <2>2 DEF Settles, Count
  <2>9. Stops(ops, base, c, x, n, sem'[x].val)
    BY <2>4, <2>5, <2>6, <2>7, <2>8, StaysStopped
  <2>10. sema'[arg'[q].sp].base = base /\ arg'[q].ops = ops /\ wchan'[q][1] = c /\ wchan'[q][2] = x
    BY <2>1, <2>3 DEF ops, base, c, x
  <2> QED BY <2>9, <2>10 DEF Stopped
<1> QED BY <1>2, <1>3 DEF Barred

\* Who ends the loop: the operation after those that were done.
LEMMA EndsAt ==
    ASSUME SemAssumption, Tables, Apart, Adjusting, NEW p \in Proc, NEW ops, NEW base, NEW s,
           Fit(ops, base, s), NEW f, After(p, ops, base, s, f),
           NEW w, w = f[Len(ops)], w.end # "ok"
    PROVE  LET d == w.done
               op == ops[d + 1]
           IN /\ d \in 0 .. Len(ops) - 1
              /\ w.end = Verdict(f[d], op, base + op.num, << s, op.num >>)
<1> DEFINE V(d) == Verdict(f[d], ops[d + 1], base + ops[d + 1].num, << s, ops[d + 1].num >>)
           Good(i) == f[i].end # "ok" => f[i].done \in 0 .. i - 1 /\ f[i].end = V(f[i].done)
           S == {i \in 0 .. Len(ops) : Good(i)}
<1>1. Len(ops) \in Nat
  BY DEF Fit
<1>2. \A i \in 0 .. Len(ops) : Working(f[i], p, i)
  BY AllWork
<1>3. ASSUME NEW i \in 0 .. Len(ops)
      PROVE  f[i] = [sem |-> f[i].sem, aoe |-> f[i].aoe, has |-> f[i].has, woke |-> f[i].woke,
                     end |-> f[i].end, done |-> f[i].done]
  BY <1>2, WorkingForm
<1>4. 0 \in S
  <2>1. f[0].end = "ok"
    BY <1>1 DEF After, Start
  <2> QED BY <1>1, <2>1
<1>5. ASSUME NEW i \in 0 .. Len(ops) - 1, i \in S PROVE i + 1 \in S
  <2>1. f[i + 1] = Try(f[i], ops[i + 1], base, s)
    BY <1>1 DEF After
  <2>2. Working(f[i], p, i) /\ Good(i) /\ i + 1 \in 0 .. Len(ops)
    BY <1>1, <1>2, <1>5
  <2>3. CASE f[i].end # "ok"
    <3>1. f[i + 1] = f[i]
      BY <2>1, <2>3 DEF Try
    <3>2. f[i].done \in 0 .. i - 1 /\ f[i].end = V(f[i].done)
      BY <2>2, <2>3
    <3> HIDE DEF V
    <3>3. f[i + 1].done \in 0 .. (i + 1) - 1 /\ f[i + 1].end = V(f[i + 1].done)
      BY <3>1, <3>2
    <3> QED BY <2>2, <3>3
  <2>4. CASE f[i].end = "ok" /\ V(i) = "ok"
    <3>1. f[i + 1] = Operate(f[i], ops[i + 1], base + ops[i + 1].num, << s, ops[i + 1].num >>)
      BY <2>1, <2>4 DEF Try
    <3>2. f[i + 1].end = "ok"
      <4>1. f[i] = [sem |-> f[i].sem, aoe |-> f[i].aoe, has |-> f[i].has, woke |-> f[i].woke,
                    end |-> f[i].end, done |-> f[i].done]
        BY <1>1, <1>3
      <4> QED BY <2>4, <3>1, <4>1 DEF Operate
    <3> HIDE DEF V
    <3>3. Good(i + 1)
      BY <3>2
    <3> HIDE DEF Good
    <3> QED BY <2>2, <3>3
  <2>5. CASE f[i].end = "ok" /\ V(i) # "ok"
    <3>1. f[i + 1] = [f[i] EXCEPT !.end = V(i)]
      BY <2>1, <2>5 DEF Try
    <3>2. f[i] = [sem |-> f[i].sem, aoe |-> f[i].aoe, has |-> f[i].has, woke |-> f[i].woke,
                  end |-> f[i].end, done |-> f[i].done]
      BY <1>1, <1>3
    <3>3. f[i].done = i
      BY <2>2, <2>5 DEF Working
    <3> HIDE DEF V
    <3>4. f[i + 1].done = i /\ f[i + 1].end = V(i)
      BY <3>1, <3>2, <3>3
    <3>5. i \in 0 .. (i + 1) - 1
      BY <1>1
    <3>6. Good(i + 1)
      BY <3>4, <3>5
    <3> HIDE DEF Good
    <3> QED BY <2>2, <3>6
  <2> QED BY <2>3, <2>4, <2>5
<1> HIDE DEF S
<1>6. \A i \in 0 .. Len(ops) : i \in S
  BY <1>1, <1>4, <1>5, UpTo
<1>7. Good(Len(ops))
  BY <1>1, <1>6 DEF S
<1> QED BY <1>7

\* What the verdicts say of the value.
LEMMA VerdictMeans ==
    ASSUME NEW w, NEW op \in Op, NEW x, NEW k, NEW v, v = Verdict(w, op, x, k),
           w.sem[x].val \in Int
    PROVE  /\ v = "semncnt" => w.sem[x].val < -op.op
           /\ v = "semzcnt" => op.op = 0 /\ w.sem[x].val # 0
           /\ op.op < 0 /\ w.sem[x].val < -op.op => v = "semncnt"
           /\ op.op = 0 /\ w.sem[x].val # 0 => v = "semzcnt"
<1>1. op.op \in Int
  BY DEF Op
<1>2. AoeError(w, op.op, k) \in {"ok", "ERANGE", "ENOSPC", "EINVAL"}
  BY DEF AoeError
<1>3. CASE op.op > 0
  BY <1>1, <1>2, <1>3 DEF Verdict
<1>4. CASE op.op < 0
  BY <1>1, <1>2, <1>4 DEF Verdict
<1>5. CASE op.op = 0
  BY <1>1, <1>2, <1>5 DEF Verdict
<1> QED BY <1>1, <1>3, <1>4, <1>5

\* Operations that are all 0 add up to 0.
LEMMA NothingBefore ==
    ASSUME NEW ops \in Seq(Op), NEW base \in Nat, NEW n \in DOMAIN ops, ZeroFirst(ops), ops[n].op = 0
    PROVE  Before(ops, base, base + ops[n].num, n) = 0
<1> DEFINE x == base + ops[n].num
           D == On(ops, base, x) \cap (1 .. n - 1)
           h == [j \in DOMAIN ops |-> ops[j].op]
           a == [i \in 0 .. n - 1 |-> 0]
<1>1. n - 1 \in Nat /\ n \in Nat /\ DOMAIN ops = 1 .. Len(ops) /\ n - 1 \in 0 .. n - 1
  OBVIOUS
<1>2. \A j \in D : h[j] = 0
  <2> SUFFICES ASSUME NEW j \in D PROVE h[j] = 0
    OBVIOUS
  <2>1. j \in DOMAIN ops /\ base + ops[j].num = base + ops[n].num /\ j < n
    BY <1>1 DEF On
  <2>2. ops[j] \in Op /\ ops[n] \in Op
    BY <2>1
  <2>3. ops[j].num \in Nat /\ ops[n].num \in Nat
    BY <2>2 DEF Op
  <2>4. ops[j].num = ops[n].num
    BY <2>1, <2>3
  <2>5. ops[j].op = 0
    BY <2>1, <2>4 DEF ZeroFirst
  <2> QED BY <2>1, <2>5
<1>3. a[0] = 0 /\ a[n - 1] = 0
  BY <1>1
<1>4. Running(a, h, D, n - 1)
  <2> SUFFICES ASSUME NEW i \in 1 .. n - 1
               PROVE  a[i] = a[i - 1] + IF i \in D THEN h[i] ELSE 0
    BY DEF Running
  <2>1. a[i] = 0 /\ a[i - 1] = 0
    BY <1>1
  <2> HIDE DEF a, D, h
  <2> QED BY <1>2, <2>1
<1>5. D \in SUBSET (1 .. n - 1) /\ D \cap (1 .. n - 1) = D
  OBVIOUS
<1>6. Before(ops, base, x, n) = SumFunctionOnSet(h, D)
  BY DEF Before, Total
<1> HIDE DEF a, D, h, x
<1>7. Numbers(h, D)
  BY <1>2 DEF Numbers
<1>8. /\ SumFunctionOnSet(h, D \cap (1 .. n - 1)) \in Int
      /\ a[n - 1] = a[0] + SumFunctionOnSet(h, D \cap (1 .. n - 1))
  BY <1>1, <1>3, <1>4, <1>5, <1>7, RunningTotal
<1>9. SumFunctionOnSet(h, D) = 0
  <2>1. SumFunctionOnSet(h, D) \in Int /\ a[n - 1] = a[0] + SumFunctionOnSet(h, D)
    BY <1>5, <1>8
  <2> QED BY <1>3, <2>1
<1> QED BY <1>6, <1>9 DEF x

\* The value that the n-th operation finds, when the pass comes to it.
LEMMA FindsBefore ==
    ASSUME SemAssumption, Tables, Apart, Adjusting, NEW p \in Proc, NEW ops, NEW base, NEW s,
           Fit(ops, base, s), NEW f, After(p, ops, base, s, f),
           NEW d \in 0 .. Len(ops) - 1, f[d].end = "ok", NEW x \in SemNum
    PROVE  /\ Before(ops, base, x, d + 1) \in Int
           /\ f[d].sem[x].val = sem[x].val + Before(ops, base, x, d + 1)
           /\ f[d].sem[x].val \in SemVal /\ f[d].sem[x].val \in Int
<1>1. Len(ops) \in Nat /\ d \in 0 .. Len(ops) /\ (d + 1) - 1 = d /\ d \in Nat
  BY DEF Fit
<1>2. /\ Total(ops, On(ops, base, x) \cap (1 .. d)) \in Int
      /\ f[d].sem[x].val = sem[x].val + Total(ops, On(ops, base, x) \cap (1 .. d))
  <2>1. PICK m \in 0 .. Len(ops) : m = d
    BY <1>1
  <2>2. f[m].end = "ok"
    BY <2>1
  <2>3. /\ Total(ops, On(ops, base, x) \cap (1 .. m)) \in Int
        /\ f[m].sem[x].val = sem[x].val + Total(ops, On(ops, base, x) \cap (1 .. m))
    BY <2>2, PassAdds
  <2> QED BY <2>1, <2>3
<1>3. f[d].sem \in [SemNum -> SemCell]
  BY <1>1, AllWork, WorkingForm
<1>4. f[d].sem[x].val \in SemVal
  BY <1>3 DEF SemCell
<1> QED BY <1>1, <1>2, <1>4 DEF Before, SemVal

\* A pass that would send the process to sleep finds an operation that stops it.
LEMMA SleeperStopped ==
    ASSUME SemAssumption, Tables, Apart, Adjusting, NEW p \in Proc, NEW ops, NEW base, NEW s,
           Fit(ops, base, s), ZeroFirst(ops), NEW w, w = Perform(p, ops, base, s),
           w.end \in Count
    PROVE  LET n == w.done + 1
               x == base + ops[n].num
           IN n \in DOMAIN ops /\ x \in SemNum /\ Stops(ops, base, w.end, x, n, sem[x].val)
<1>1. ops \in Seq(Op) /\ Len(ops) \in Nat /\ DOMAIN ops = 1 .. Len(ops)
  BY DEF Fit
<1>2. PICK f : After(p, ops, base, s, f) /\ w = f[Len(ops)]
  BY <1>1, AfterExists
<1>3. w.end # "ok"
  BY DEF Count
<1> DEFINE d == w.done
           op == ops[d + 1]
           x == base + op.num
           v == Verdict(f[d], op, x, << s, op.num >>)
<1>4. d \in 0 .. Len(ops) - 1 /\ w.end = v
  BY <1>2, <1>3, EndsAt
<1>5. f[d].end = "ok"
  <2>1. \A j \in 0 .. f[Len(ops)].done : f[j].end = "ok"
    BY <1>1, <1>2, Reached
  <2> QED BY <1>2, <1>4, <2>1
<1>6. d + 1 \in DOMAIN ops /\ op \in Op /\ x \in SemNum
  <2>1. d + 1 \in 1 .. Len(ops)
    BY <1>1, <1>4
  <2> QED BY <1>1, <2>1, FitKey
<1> HIDE DEF d
<1>7. /\ Before(ops, base, x, d + 1) \in Int
      /\ f[d].sem[x].val = sem[x].val + Before(ops, base, x, d + 1)
      /\ f[d].sem[x].val \in Int
  BY <1>2, <1>4, <1>5, <1>6, FindsBefore
<1>8. /\ v = "semncnt" => f[d].sem[x].val < -op.op
      /\ v = "semzcnt" => op.op = 0 /\ f[d].sem[x].val # 0
  BY <1>6, <1>7, VerdictMeans
<1>9. CASE w.end = "semncnt"
  <2> HIDE DEF v
  <2> QED BY <1>4, <1>6, <1>7, <1>8, <1>9 DEF Stops, d
<1>10. CASE w.end = "semzcnt"
  <2>1. base \in Nat
    <3>1. s % NIDS \in Id
      BY Index DEF Fit
    <3> QED BY <3>1 DEF Fit, Tables, SemNum, SemAssumption
  <2>2. Before(ops, base, x, d + 1) = 0
    <3> HIDE DEF v
    <3> QED BY <1>1, <1>4, <1>6, <1>8, <1>10, <2>1, NothingBefore
  <2>3. sem[x].val \in Int
    BY <1>6 DEF Tables, SemCell, SemVal
  <2> HIDE DEF v
  <2> QED BY <1>4, <1>6, <1>7, <1>8, <1>10, <2>2, <2>3 DEF Stops, d
<1> QED BY <1>9, <1>10 DEF Count

\* A list with such an operation does not go through.
LEMMA StoppedPass ==
    ASSUME SemAssumption, Tables, Apart, Adjusting, NEW p \in Proc, NEW ops, NEW base, NEW s,
           Fit(ops, base, s), NEW n \in DOMAIN ops, NEW x \in SemNum, NEW c,
           Stops(ops, base, c, x, n, sem[x].val)
    PROVE  Perform(p, ops, base, s).end # "ok"
<1>1. ops \in Seq(Op) /\ Len(ops) \in Nat /\ DOMAIN ops = 1 .. Len(ops)
  BY DEF Fit
<1>2. PICK f : After(p, ops, base, s, f) /\ Perform(p, ops, base, s) = f[Len(ops)]
  BY <1>1, AfterExists
<1>3. SUFFICES ASSUME f[Len(ops)].end = "ok" PROVE FALSE
  BY <1>2
<1>4. \A j \in 0 .. Len(ops) : f[j].end = "ok"
  BY <1>1, <1>2, <1>3, AllDone
<1> DEFINE d == n - 1
           op == ops[n]
           k == << s, op.num >>
<1>5. d \in 0 .. Len(ops) - 1 /\ d \in 0 .. Len(ops) /\ d + 1 \in 0 .. Len(ops) /\ d + 1 = n
  BY <1>1
<1> HIDE DEF d
<1>6. Verdict(f[d], op, x, k) = "ok"
  <2>1. f[d + 1].end = "ok"
    BY <1>4, <1>5
  <2>2. Verdict(f[d], ops[d + 1], base + ops[d + 1].num, << s, ops[d + 1].num >>) = "ok"
    BY <1>2, <1>5, <2>1, TurnDone
  <2> QED BY <1>5, <2>2 DEF Stops
<1>7. /\ Before(ops, base, x, n) \in Int
      /\ f[d].sem[x].val = sem[x].val + Before(ops, base, x, n)
      /\ f[d].sem[x].val \in SemVal /\ f[d].sem[x].val \in Int
  BY <1>2, <1>4, <1>5, FindsBefore
<1>8. op \in Op /\ op.op \in Int
  <2>1. op \in Op
    BY <1>1
  <2> QED BY <2>1 DEF Op
<1>9. /\ op.op < 0 /\ f[d].sem[x].val < -op.op => Verdict(f[d], op, x, k) = "semncnt"
      /\ op.op = 0 /\ f[d].sem[x].val # 0 => Verdict(f[d], op, x, k) = "semzcnt"
  <2>1. PICK w, v : w = f[d] /\ v = Verdict(w, op, x, k)
    OBVIOUS
  <2>2. w.sem[x].val \in Int
    BY <1>7, <2>1
  <2> HIDE DEF op, k
  <2>3. /\ op.op < 0 /\ w.sem[x].val < -op.op => v = "semncnt"
        /\ op.op = 0 /\ w.sem[x].val # 0 => v = "semzcnt"
    BY <1>8, <2>1, <2>2, VerdictMeans
  <2> QED BY <2>1, <2>3
<1> HIDE DEF op, k
<1>10. CASE c = "semncnt"
  <2>1. f[d].sem[x].val < -op.op
    BY <1>7, <1>10 DEF Stops, op
  <2>2. op.op < 0
    BY <1>7, <1>8, <2>1 DEF SemVal
  <2> QED BY <1>6, <1>9, <2>1, <2>2
<1>11. CASE c # "semncnt"
  <2>1. op.op = 0 /\ Before(ops, base, x, n) = 0 /\ sem[x].val # 0
    BY <1>11 DEF Stops, op
  <2>2. f[d].sem[x].val # 0
    <3>1. sem[x].val \in Int
      BY DEF Tables, SemCell, SemVal
    <3> QED BY <1>7, <2>1, <3>1
  <2> QED BY <1>6, <1>9, <2>1, <2>2
<1> QED BY <1>10, <1>11

LEMMA SameSettles ==
    ASSUME Tables, NEW sems, \A x \in SemNum : sems[x].val = sem[x].val, NEW W
    PROVE  Settles(sems, W)
<1>1. \A x \in SemNum : sem[x].val \in Int
  BY DEF Tables, SemCell, SemVal
<1> QED BY <1>1 DEF Settles

\* An operation that lets a sleeper go on wakes it.
LEMMA OperateSettles ==
    ASSUME SemAssumption, Tables, NEW p \in Proc, NEW i \in Nat, NEW w, Working(w, p, i),
           NEW op \in Op, NEW x \in SemNum, NEW k \in Keys,
           NEW n, n = Operate(w, op, x, k), Settles(w.sem, w.woke)
    PROVE  Settles(n.sem, n.woke)
<1> DEFINE cleared == Cleared(w.sem[x], op.op)
<1>1. /\ \A y \in SemNum : n.sem[y].val = w.sem[y].val + IF y = x THEN op.op ELSE 0
      /\ n.woke = w.woke \cup (cleared \X {x})
  BY OperateChanges
<1>2. w.sem \in [SemNum -> SemCell] /\ op.op \in Int
  BY WorkingForm DEF Op
<1>3. \A y \in SemNum : w.sem[y].val \in Nat /\ sem[y].val \in Nat
  <2>1. \A y \in SemNum : w.sem[y].val \in SemVal /\ sem[y].val \in SemVal
    BY <1>2 DEF Tables, SemCell
  <2> QED BY <2>1 DEF SemVal
<1>4. \A c \in Count : sem[x][c] > 0 /\ << c, x >> \notin w.woke => w.sem[x][c] > 0
  BY DEF Working
<1> SUFFICES ASSUME NEW y \in SemNum
             PROVE  /\ sem[y].semncnt > 0 /\ << "semncnt", y >> \notin n.woke
                        => n.sem[y].val <= sem[y].val
                    /\ sem[y].semzcnt > 0 /\ << "semzcnt", y >> \notin n.woke /\ sem[y].val # 0
                        => n.sem[y].val # 0
  BY DEF Settles
<1>5. CASE y # x
  <2>1. n.sem[y].val = w.sem[y].val
    BY <1>1, <1>3, <1>5
  <2>2. \A c : << c, y >> \notin n.woke => << c, y >> \notin w.woke
    BY <1>1
  <2> QED BY <2>1, <2>2 DEF Settles
<1>6. CASE y = x
  <2>1. n.sem[x].val = w.sem[x].val + op.op
    BY <1>1
  <2>2. \A c : << c, x >> \notin n.woke => << c, x >> \notin w.woke /\ c \notin cleared
    BY <1>1
  <2>3. ASSUME sem[x].semncnt > 0, << "semncnt", x >> \notin n.woke
        PROVE  n.sem[x].val <= sem[x].val
    <3>1. << "semncnt", x >> \notin w.woke /\ "semncnt" \notin cleared
      BY <2>2, <2>3
    <3>2. w.sem[x].semncnt > 0
      BY <1>4, <2>3, <3>1 DEF Count
    <3>3. ~(op.op > 0)
      BY <3>1, <3>2 DEF Cleared
    <3>4. w.sem[x].val <= sem[x].val
      BY <2>3, <3>1 DEF Settles
    <3> QED BY <1>2, <1>3, <2>1, <3>3, <3>4
  <2>4. ASSUME sem[x].semzcnt > 0, << "semzcnt", x >> \notin n.woke, sem[x].val # 0
        PROVE  n.sem[x].val # 0
    <3>1. << "semzcnt", x >> \notin w.woke /\ "semzcnt" \notin cleared
      BY <2>2, <2>4
    <3>2. w.sem[x].semzcnt > 0
      BY <1>4, <2>4, <3>1 DEF Count
    <3>3. ~(op.op < 0 /\ w.sem[x].val + op.op = 0)
      BY <3>1, <3>2 DEF Cleared
    <3>4. w.sem[x].val # 0
      BY <2>4, <3>1 DEF Settles
    <3> QED BY <1>2, <1>3, <2>1, <3>3, <3>4
  <2> QED BY <1>6, <2>3, <2>4
<1> QED BY <1>5, <1>6

\* So does a pass.
LEMMA PassSettles ==
    ASSUME SemAssumption, Tables, Apart, Adjusting, NEW p \in Proc, NEW ops, NEW base, NEW s,
           Fit(ops, base, s), NEW w, w = Perform(p, ops, base, s),
           NEW u, u = IF w.end = "ok" THEN w ELSE semundo(w, ops, base, s)
    PROVE  Settles(u.sem, w.woke)
<1>1. ops \in Seq(Op) /\ Len(ops) \in Nat
  BY DEF Fit
<1>2. PICK f : After(p, ops, base, s, f) /\ w = f[Len(ops)]
  BY <1>1, AfterExists
<1>3. CASE w.end = "ok"
  <2> DEFINE S == {i \in 0 .. Len(ops) : Settles(f[i].sem, f[i].woke)}
  <2>1. 0 \in S
    <3>1. f[0].sem = sem
      BY <1>1, <1>2 DEF After, Start
    <3> QED BY <1>1, <3>1, SameSettles
  <2>2. ASSUME NEW i \in 0 .. Len(ops) - 1, i \in S PROVE i + 1 \in S
    <3> DEFINE op == ops[i + 1]
    <3>1. i \in Nat /\ i + 1 \in 0 .. Len(ops) /\ i + 1 \in 1 .. Len(ops) /\ Len(ops) \in 0 .. Len(ops)
      BY <1>1
    <3>2. f[i + 1].end = "ok"
      BY <1>2, <1>3, <3>1, AllDone
    <3>3. Working(f[i], p, i) /\ f[i + 1] = Operate(f[i], op, base + op.num, << s, op.num >>)
      BY <1>2, <3>2, TurnDone
    <3>4. op \in Op /\ base + op.num \in SemNum /\ << s, op.num >> \in Keys
      BY <3>1, FitKey
    <3> HIDE DEF op
    <3>5. Settles(f[i + 1].sem, f[i + 1].woke)
      BY <2>2, <3>1, <3>3, <3>4, OperateSettles
    <3> QED BY <3>1, <3>5
  <2> HIDE DEF S
  <2>3. \A i \in 0 .. Len(ops) : i \in S
    BY <1>1, <2>1, <2>2, UpTo
  <2>4. Len(ops) \in S
    BY <1>1, <2>3
  <2> QED BY <1>2, <1>3, <2>4 DEF S
<1>4. CASE w.end # "ok"
  <2>1. PassDone(p, ops, w, u)
    BY PassResult
  <2>2. \A x \in SemNum : u.sem[x].val = sem[x].val
    BY <1>4, <2>1 DEF PassDone
  <2> QED BY <2>2, SameSettles
<1> QED BY <1>3, <1>4

\* A sleep that a signal ends changes no value and puts nobody to sleep.
LEMMA InterruptedSettles ==
    ASSUME NEW p \in Proc, NEW c \in Chan, NEW sems \in [SemNum -> SemCell], NEW places,
           Interrupted(p, c, sems, places)
    PROVE  /\ \A x \in SemNum : sem'[x].val = sems[x].val
           /\ pc'[p] = "user"
           /\ \A q \in Proc : q # p =>
                /\ pc'[q] \in {"copyin", "asleep", "woken"} =>
                    places[q] \in {"copyin", "asleep", "woken"}
                /\ pc'[q] = "asleep" => places[q] = "asleep"
<1> DEFINE last == sems[c[2]][c[1]] <= 1
<1>1. /\ sem' = [sems EXCEPT ![c[2]][c[1]] = IF last THEN 0 ELSE @ - 1]
      /\ pc' = [wakeprocs(places, IF last THEN {c} ELSE {}) EXCEPT ![p] = "user"]
  BY DEF Interrupted
<1> HIDE DEF last
<1>2. PICK x \in Count, s \in SemNum : c = << x, s >>
  BY DEF Chan, Count
<1>3. \A y \in SemNum : sem'[y].val = sems[y].val
  <2> DEFINE n == IF last THEN 0 ELSE sems[s][x] - 1
  <2>1. sem' = [sems EXCEPT ![s] = [sems[s] EXCEPT ![x] = n]]
    BY <1>1, <1>2
  <2> HIDE DEF n
  <2>2. [sems[s] EXCEPT ![x] = n].val = sems[s].val
    BY DEF Count, SemCell
  <2> QED BY <2>1, <2>2
<1>4. /\ pc'[p] = "user"
      /\ \A q \in Proc : q # p =>
            /\ pc'[q] \in {"copyin", "asleep", "woken"} =>
                places[q] \in {"copyin", "asleep", "woken"}
            /\ pc'[q] = "asleep" => places[q] = "asleep"
  BY <1>1 DEF wakeprocs
<1> QED BY <1>3, <1>4

\* A pass: who sleeps on cannot go on, and who goes to sleep could not.
LEMMA PassBarred ==
    ASSUME SemAssumption, IInv, IInv', NEW p \in Proc, NEW c \in CallType,
           pc[p] \in {"user", "copyin", "woken"},
           Named(c), semconv(c.semid), InRange(c), ZeroFirst(c.ops), Pass(p, c),
           NEW q \in Proc, Barred(q)
    PROVE  Barred(q)'
<1> DEFINE ops == c.ops
           base == sema[c.sp].base
           w == Perform(p, ops, base, c.semid)
           u == IF w.end = "ok" THEN w ELSE semundo(w, ops, base, c.semid)
           n == w.done + 1
           waits == w.end \in {"semncnt", "semzcnt"} /\ ~ops[n].nowait
           x == base + ops[n].num
           chan == << w.end, x >>
           counted == [u.sem EXCEPT ![chan[2]][chan[1]] = @ + 1]
           places == wakeprocs(pc, w.woke)
<1>1. /\ sema' = sema
      /\ \/ /\ sem' = u.sem
            /\ pc' = [places EXCEPT ![p] = "user"]
            /\ wchan' = [wchan EXCEPT ![p] = NoChan]
            /\ arg' = [arg EXCEPT ![p] = NoCall]
         \/ /\ waits /\ Interrupted(p, chan, counted, places)
            /\ wchan' = [wchan EXCEPT ![p] = NoChan]
            /\ arg' = [arg EXCEPT ![p] = NoCall]
         \/ /\ waits
            /\ sem' = counted
            /\ pc' = [places EXCEPT ![p] = "asleep"]
            /\ wchan' = [wchan EXCEPT ![p] = chan]
            /\ arg' = [arg EXCEPT ![p] = c]
  BY DEF Pass, Interrupted, Return
<1>2. Tables /\ Apart /\ Adjusting
  BY DEF IInv
<1>3. /\ pc \in [Proc -> Place] /\ arg \in [Proc -> CallType]
      /\ wchan \in [Proc -> Chan \cup {NoChan}]
  BY <1>2 DEF Tables, CallType
<1>4. ops \in Seq(Op) /\ c.semid \in Nat /\ c.sp \in Id /\ c.sp = c.semid % NIDS
  BY DEF CallType, Named
<1>5. Fit(ops, base, c.semid)
  BY <1>4 DEF Fit, InRange
<1>6. PassDone(p, ops, w, u)
  BY <1>2, <1>5, PassResult
<1>7. Settles(u.sem, w.woke)
  BY <1>2, <1>5, PassSettles
<1>8. waits => n \in DOMAIN ops /\ x \in SemNum /\ Stops(ops, base, w.end, x, n, sem[x].val)
  <2>1. waits => w.end \in Count
    BY DEF Count
  <2> HIDE DEF w, waits, base
  <2> QED BY <1>2, <1>5, <2>1, SleeperStopped DEF w
<1> HIDE DEF w, u, base
<1>9. u.sem \in [SemNum -> SemCell] /\ (waits => \A y \in SemNum : u.sem[y].val = sem[y].val)
  BY <1>6 DEF PassDone
<1>10. waits => /\ chan \in Chan /\ counted \in [SemNum -> SemCell]
                /\ \A y \in SemNum : counted[y].val = u.sem[y].val
  <2> SUFFICES ASSUME waits
               PROVE  /\ chan \in Chan /\ counted \in [SemNum -> SemCell]
                      /\ \A y \in SemNum : counted[y].val = u.sem[y].val
    OBVIOUS
  <2>1. PICK e \in Count, s \in SemNum : chan = << e, s >> /\ chan \in Chan
    BY <1>8 DEF Chan, Count
  <2> HIDE DEF chan
  <2> DEFINE v == u.sem[s][e] + 1
  <2>2. u.sem[s] \in SemCell /\ v \in Nat
    BY <1>9 DEF SemCell, Count
  <2>3. counted = [u.sem EXCEPT ![s] = [u.sem[s] EXCEPT ![e] = v]]
    BY <2>1
  <2> HIDE DEF v, counted
  <2>4. /\ [u.sem[s] EXCEPT ![e] = v] \in SemCell
        /\ [u.sem[s] EXCEPT ![e] = v].val = u.sem[s].val
    BY <2>2 DEF SemCell, Count
  <2> QED BY <1>9, <2>1, <2>3, <2>4
<1>11. \A r \in Proc : /\ places[r] \in {"copyin", "asleep", "woken"} =>
                              pc[r] \in {"copyin", "asleep", "woken"}
                       /\ places[r] = "asleep" => pc[r] = "asleep" /\ wchan[r] \notin w.woke
  BY DEF wakeprocs
<1>12. places = [r \in Proc |-> places[r]]
  BY DEF wakeprocs
<1> HIDE DEF places, chan, counted, waits, x, n
<1>13. /\ Settles(sem', w.woke) /\ pc'[p] \in {"user", "asleep"}
       /\ \A r \in Proc : r # p =>
            /\ wchan'[r] = wchan[r] /\ arg'[r] = arg[r]
            /\ pc'[r] \in {"copyin", "asleep", "woken"} =>
                places[r] \in {"copyin", "asleep", "woken"}
            /\ pc'[r] = "asleep" => places[r] = "asleep"
  <2>1. CASE /\ sem' = u.sem
             /\ pc' = [places EXCEPT ![p] = "user"]
             /\ wchan' = [wchan EXCEPT ![p] = NoChan]
             /\ arg' = [arg EXCEPT ![p] = NoCall]
    BY <1>3, <1>7, <1>12, <2>1
  <2>2. CASE /\ waits /\ Interrupted(p, chan, counted, places)
             /\ wchan' = [wchan EXCEPT ![p] = NoChan]
             /\ arg' = [arg EXCEPT ![p] = NoCall]
    <3>1. /\ \A y \in SemNum : sem'[y].val = sem[y].val
          /\ pc'[p] = "user"
          /\ \A r \in Proc : r # p =>
                /\ pc'[r] \in {"copyin", "asleep", "woken"} =>
                    places[r] \in {"copyin", "asleep", "woken"}
                /\ pc'[r] = "asleep" => places[r] = "asleep"
      BY <1>9, <1>10, <2>2, InterruptedSettles
    <3>2. Settles(sem', w.woke)
      BY <1>2, <3>1, SameSettles
    <3>3. \A r \in Proc : r # p => wchan'[r] = wchan[r] /\ arg'[r] = arg[r]
      BY <1>3, <2>2
    <3> QED BY <3>1, <3>2, <3>3
  <2>3. CASE /\ waits
             /\ sem' = counted
             /\ pc' = [places EXCEPT ![p] = "asleep"]
             /\ wchan' = [wchan EXCEPT ![p] = chan]
             /\ arg' = [arg EXCEPT ![p] = c]
    <3>1. Settles(sem', w.woke)
      <4>1. \A y \in SemNum : sem'[y].val = sem[y].val
        BY <1>9, <1>10, <2>3
      <4> QED BY <1>2, <4>1, SameSettles
    <3> QED BY <1>3, <1>12, <2>3, <3>1
  <2> QED BY <1>1, <2>1, <2>2, <2>3
<1>14. CASE q # p
  <2>1. /\ wchan'[q] = wchan[q] /\ arg'[q] = arg[q]
        /\ pc'[q] \in {"copyin", "asleep", "woken"} => pc[q] \in {"copyin", "asleep", "woken"}
        /\ pc'[q] = "asleep" => pc[q] = "asleep" /\ wchan[q] \notin w.woke
    BY <1>11, <1>13, <1>14
  <2>2. \A i \in Allocated : sema'[i].base = sema[i].base
    BY <1>1
  <2> QED BY <1>13, <2>1, <2>2, StillBarred
<1>15. CASE q = p
  <2>1. CASE pc'[p] # "asleep"
    BY <1>13, <1>15, <2>1 DEF Barred
  <2>2. CASE pc'[p] = "asleep"
    <3>1. /\ waits /\ sem' = counted /\ wchan'[p] = chan /\ arg'[p] = c
      <4>1. ~(pc' = [places EXCEPT ![p] = "user"])
        BY <1>12, <2>2
      <4>2. waits => ~Interrupted(p, chan, counted, places)
        BY <1>10, <2>2, InterruptedSettles
      <4> QED BY <1>1, <1>3, <4>1, <4>2
    <3>2. sem'[x].val = sem[x].val
      BY <1>8, <1>9, <1>10, <3>1
    <3>3. n \in DOMAIN ops /\ Stops(ops, base, w.end, x, n, sem'[x].val)
      BY <1>8, <3>1, <3>2
    <3>4. /\ arg'[p].ops = ops /\ sema'[arg'[p].sp].base = base
          /\ wchan'[p][1] = w.end /\ wchan'[p][2] = x
      BY <1>1, <3>1 DEF chan, base
    <3>5. Stopped(p)'
      BY <3>3, <3>4 DEF Stopped
    <3> QED BY <1>15, <3>4, <3>5 DEF Barred
  <2> QED BY <2>1, <2>2
<1> QED BY <1>14, <1>15

\* The lists of the calls that p may go on with.
LEMMA CallsZeroFirst ==
    ASSUME \A ops \in OpLists : ZeroFirst(ops), NEW p \in Proc, Barred(p),
           NEW c \in Calls(p)
    PROVE  ZeroFirst(c.ops)
<1> DEFINE A == {c1 \in {arg[p]} : pc[p] = "copyin"}
           B == {Call("semop", i, ops) : i \in Allocated, ops \in OpLists}
           C == {Call(name, i, << >>) : name \in {"SETALL", "IPC_SET"}, i \in Allocated}
<1>1. c \in A \/ c \in B \/ c \in C
  BY DEF Calls
<1>2. CASE c \in A
  BY <1>2 DEF Barred
<1>3. CASE c \in B
  <2>1. PICK i \in Allocated, ops \in OpLists : c = Call("semop", i, ops)
    BY <1>3
  <2>2. c.ops = ops
    BY <2>1 DEF Call
  <2> QED BY <2>2
<1>4. CASE c \in C
  <2>1. PICK name \in {"SETALL", "IPC_SET"}, i \in Allocated : c = Call(name, i, << >>)
    BY <1>4
  <2>2. c.ops = << >>
    BY <2>1 DEF Call
  <2> QED BY <2>2 DEF ZeroFirst
<1> QED BY <1>1, <1>2, <1>3, <1>4

\* A step that moves p alone, to a place where it is not asleep.
LEMMA MoveBarred ==
    ASSUME SemAssumption, IInv, IInv', sema' = sema, NEW p \in Proc, NEW place \in Place,
           place \in {"copyin", "woken"} => ZeroFirst(arg'[p].ops), place # "asleep",
           pc' = [pc EXCEPT ![p] = place],
           \A x \in SemNum : sem'[x].val = sem[x].val,
           \A q \in Proc : q # p => wchan'[q] = wchan[q] /\ arg'[q] = arg[q],
           NEW q \in Proc, Barred(q)
    PROVE  Barred(q)'
<1>1. Tables
  BY DEF IInv
<1>2. pc \in [Proc -> Place]
  BY <1>1 DEF Tables
<1>3. CASE q = p
  BY <1>2, <1>3 DEF Barred
<1>4. CASE q # p
  <2>1. Settles(sem', {})
    BY <1>1, SameSettles
  <2>2. pc'[q] = pc[q] /\ wchan'[q] = wchan[q] /\ arg'[q] = arg[q]
    BY <1>2, <1>4
  <2>3. \A i \in Allocated : sema'[i].base = sema[i].base
    OBVIOUS
  <2> QED BY <2>1, <2>2, <2>3, StillBarred
<1> QED BY <1>3, <1>4

LEMMA SemgetBarred ==
    ASSUME SemAssumption, IInv, IInv', NEW key \in Key, NEW n \in 1 .. SEMMSL, semget(key, n),
           NEW q \in Proc, Barred(q)
    PROVE  Barred(q)'
<1>1. Tables
  BY DEF IInv
<1>2. PICK i \in Id :
        /\ ~sema[i].alloc
        /\ sema' = [sema EXCEPT ![i] = [alloc |-> TRUE, key |-> key, seq |-> @.seq,
                                        base |-> rmalloc(n), nsems |-> n]]
  BY DEF semget
<1>3. sem' = sem /\ pc' = pc /\ arg' = arg /\ wchan' = wchan
  BY DEF semget, undoVars
<1>4. \A j \in Allocated : sema'[j].base = sema[j].base
  <2>1. \A j \in Allocated : j \in Id /\ j # i
    BY <1>2 DEF Allocated
  <2>2. \A j \in Id : j # i => sema'[j] = sema[j]
    BY <1>1, <1>2 DEF Tables
  <2> QED BY <2>1, <2>2
<1>5. Settles(sem', {})
  BY <1>1, <1>3, SameSettles
<1> QED BY <1>3, <1>4, <1>5, StillBarred

LEMMA RemoveBarred ==
    ASSUME SemAssumption, IInv, IInv', NEW i \in Id, Remove(i), NEW q \in Proc, Barred(q)
    PROVE  Barred(q)'
<1> DEFINE S == Members(i)
           W == Rmid(S)
<1>1. /\ sem' = [s \in SemNum |-> IF s \in S THEN [val |-> 0, semncnt |-> 0, semzcnt |-> 0]
                                  ELSE sem[s]]
      /\ pc' = wakeprocs(pc, W)
      /\ sema' = [sema EXCEPT ![i].alloc = FALSE, ![i].seq = NextSeq(i)]
      /\ arg' = arg /\ wchan' = wchan
  BY DEF Remove
<1>2. Tables
  BY DEF IInv
<1>3. \A j \in Allocated : sema'[j].base = sema[j].base
  BY <1>1, <1>2 DEF Allocated, Tables
<1>4. Settles(sem', W)
  <2> SUFFICES ASSUME NEW x \in SemNum
               PROVE  /\ sem[x].semncnt > 0 /\ << "semncnt", x >> \notin W
                          => sem'[x].val <= sem[x].val
                      /\ sem[x].semzcnt > 0 /\ << "semzcnt", x >> \notin W /\ sem[x].val # 0
                          => sem'[x].val # 0
    BY DEF Settles
  <2>1. sem[x].val \in Nat
    BY <1>2 DEF Tables, SemCell, SemVal
  <2>2. CASE x \in S
    <3>1. sem'[x].val = 0
      BY <1>1, <2>2
    <3>2. sem[x].semzcnt > 0 => << "semzcnt", x >> \in W
      BY <2>2 DEF Rmid, Chans
    <3> QED BY <2>1, <3>1, <3>2
  <2>3. CASE x \notin S
    <3>1. sem'[x] = sem[x]
      BY <1>1, <2>3
    <3> QED BY <2>1, <3>1
  <2> QED BY <2>2, <2>3
<1> HIDE DEF W
<1>5. /\ pc'[q] \in {"copyin", "asleep", "woken"} => pc[q] \in {"copyin", "asleep", "woken"}
      /\ pc'[q] = "asleep" => pc[q] = "asleep" /\ wchan[q] \notin W
  BY <1>1 DEF wakeprocs
<1> QED BY <1>1, <1>3, <1>4, <1>5, StillBarred

\* SETVAL and SETALL wake those whom the new value may let go on.
LEMMA CellSettles ==
    ASSUME SemAssumption, NEW cell \in SemCell, NEW v \in SemVal
    PROVE  /\ Cell(cell, v).val = v
           /\ cell.semncnt > 0 /\ "semncnt" \notin Wakes(cell, v) => v <= cell.val
           /\ cell.semzcnt > 0 /\ "semzcnt" \notin Wakes(cell, v) => v # 0
<1>1. cell.val \in Nat /\ v \in Nat
  BY DEF SemCell, SemVal
<1>2. Cell(cell, v).val = v
  BY DEF Cell
<1>3. cell.semncnt > 0 /\ "semncnt" \notin Wakes(cell, v) => v = 0
  BY DEF Wakes
<1>4. cell.semzcnt > 0 /\ "semzcnt" \notin Wakes(cell, v) => v # 0
  BY DEF Wakes
<1> QED BY <1>1, <1>2, <1>3, <1>4

LEMMA SetValBarred ==
    ASSUME SemAssumption, IInv, IInv', NEW i \in Id, NEW num \in 0 .. SEMMSL - 1, NEW v \in SemVal,
           SetVal(i, num, v), NEW q \in Proc, Barred(q)
    PROVE  Barred(q)'
<1> DEFINE s == sema[i].base + num
           W == Wakes(sem[s], v) \X {s}
<1>1. /\ sem' = [sem EXCEPT ![s] = Cell(sem[s], v)]
      /\ pc' = wakeprocs(pc, W) /\ sema' = sema /\ arg' = arg /\ wchan' = wchan
  BY DEF SetVal
<1>2. sem \in [SemNum -> SemCell]
  BY DEF IInv, Tables
<1> HIDE DEF s
<1>3. Settles(sem', W)
  <2> SUFFICES ASSUME NEW x \in SemNum
               PROVE  /\ sem[x].semncnt > 0 /\ << "semncnt", x >> \notin W
                          => sem'[x].val <= sem[x].val
                      /\ sem[x].semzcnt > 0 /\ << "semzcnt", x >> \notin W /\ sem[x].val # 0
                          => sem'[x].val # 0
    BY DEF Settles
  <2>1. sem[x] \in SemCell /\ sem[x].val \in Nat
    BY <1>2 DEF SemCell, SemVal
  <2>2. CASE x = s
    <3>1. sem'[x] = Cell(sem[x], v)
      BY <1>1, <1>2, <2>2
    <3>2. \A c : << c, x >> \notin W => c \notin Wakes(sem[x], v)
      BY <2>2
    <3> QED BY <2>1, <3>1, <3>2, CellSettles
  <2>3. CASE x # s
    <3>1. sem'[x] = sem[x]
      BY <1>1, <1>2, <2>3
    <3> QED BY <2>1, <3>1
  <2> QED BY <2>2, <2>3
<1> HIDE DEF W
<1>4. /\ pc'[q] \in {"copyin", "asleep", "woken"} => pc[q] \in {"copyin", "asleep", "woken"}
      /\ pc'[q] = "asleep" => pc[q] = "asleep" /\ wchan[q] \notin W
  BY <1>1 DEF wakeprocs
<1>5. \A j \in Allocated : sema'[j].base = sema[j].base
  BY <1>1
<1> QED BY <1>1, <1>3, <1>4, <1>5, StillBarred

LEMMA SetAllBarred ==
    ASSUME SemAssumption, IInv, IInv', NEW p \in Proc, NEW c \in Calls(p),
           NEW vals \in [0 .. SEMMSL - 1 -> SemVal], SetAll(p, c, vals), NEW q \in Proc, Barred(q)
    PROVE  Barred(q)'
<1> DEFINE S == Members(c.sp)
           v(s) == vals[s - sema[c.sp].base]
           W == UNION {Wakes(sem[s], v(s)) \X {s} : s \in S}
<1>1. /\ CopiedIn(p, c)
      /\ sem' = [s \in SemNum |-> IF s \in S THEN Cell(sem[s], v(s)) ELSE sem[s]]
      /\ pc' = [wakeprocs(pc, W) EXCEPT ![p] = "user"]
      /\ arg' = [arg EXCEPT ![p] = NoCall] /\ sema' = sema /\ wchan' = wchan
  BY DEF SetAll, Return
<1>2. Tables
  BY DEF IInv
<1>3. c.sp \in Id /\ c.sp \in Allocated
  BY <1>1, CallsHold DEF CallType
<1>4. \A s \in S : v(s) \in SemVal
  <2>1. sema[c.sp].nsems \in 0 .. SEMMSL /\ sema[c.sp].base \in Nat /\ SEMMSL \in Nat
    <3>1. sema[c.sp].nsems \in 0 .. SEMMSL /\ sema[c.sp].base \in SemNum
      BY <1>2, <1>3 DEF Tables
    <3> QED BY <3>1 DEF SemNum, SemAssumption
  <2> SUFFICES ASSUME NEW s \in S PROVE v(s) \in SemVal
    OBVIOUS
  <2>2. s - sema[c.sp].base \in 0 .. SEMMSL - 1
    <3> DEFINE b == sema[c.sp].base
               n == sema[c.sp].nsems
    <3>1. s \in b .. b + n - 1
      BY DEF Members
    <3>2. b \in Nat /\ n \in Nat /\ n <= SEMMSL /\ SEMMSL \in Nat
      BY <2>1
    <3> HIDE DEF S, b, n
    <3>3. s - b \in 0 .. SEMMSL - 1
      BY <3>1, <3>2
    <3> QED BY <3>3 DEF b
  <2> QED BY <2>2
<1>5. sem \in [SemNum -> SemCell] /\ arg \in [Proc -> CallType]
  BY <1>2 DEF Tables, CallType
<1> HIDE DEF S, v
<1>6. Settles(sem', W)
  <2> SUFFICES ASSUME NEW x \in SemNum
               PROVE  /\ sem[x].semncnt > 0 /\ << "semncnt", x >> \notin W
                          => sem'[x].val <= sem[x].val
                      /\ sem[x].semzcnt > 0 /\ << "semzcnt", x >> \notin W /\ sem[x].val # 0
                          => sem'[x].val # 0
    BY DEF Settles
  <2>1. sem[x] \in SemCell /\ sem[x].val \in Nat
    BY <1>5 DEF SemCell, SemVal
  <2>2. CASE x \in S
    <3>1. sem'[x] = Cell(sem[x], v(x)) /\ v(x) \in SemVal
      BY <1>1, <1>4, <2>2
    <3>2. \A d : << d, x >> \notin W => d \notin Wakes(sem[x], v(x))
      BY <2>2
    <3> QED BY <2>1, <3>1, <3>2, CellSettles
  <2>3. CASE x \notin S
    <3>1. sem'[x] = sem[x]
      BY <1>1, <2>3
    <3> QED BY <2>1, <3>1
  <2> QED BY <2>2, <2>3
<1> HIDE DEF W
<1>7. /\ pc'[q] \in {"copyin", "asleep", "woken"} =>
            q # p /\ pc[q] \in {"copyin", "asleep", "woken"}
      /\ pc'[q] = "asleep" => pc[q] = "asleep" /\ wchan[q] \notin W
  BY <1>1 DEF wakeprocs
<1>8. q # p => arg'[q] = arg[q]
  BY <1>1, <1>5
<1>9. \A j \in Allocated : sema'[j].base = sema[j].base
  BY <1>1
<1> QED BY <1>1, <1>6, <1>7, <1>8, <1>9, StillBarred

\* The end of a process wakes those whom what it takes back may let go on.
LEMMA SemexitBarred ==
    ASSUME SemAssumption, IInv, IInv', NEW p \in Proc, NEW place \in {"user", "gone"},
           semexit(p, place), sema' = sema, arg' = arg, wchan' = wchan, NEW q \in Proc, Barred(q)
    PROVE  Barred(q)'
<1> DEFINE ks == {k \in DOMAIN undo[p] : semconv(k[1]) /\ Applies(p, k)}
           hit == {Target(k) : k \in ks}
           v(s) == undo[p][CHOOSE k \in ks : Target(k) = s]
           W == UNION {Released(s, v(s)) \X {s} : s \in hit}
<1>1. /\ \A s \in SemNum : IF s \notin hit THEN sem'[s] = sem[s]
                           ELSE sem'[s].val = sem[s].val + v(s)
      /\ pc' = [wakeprocs(pc, W) EXCEPT ![p] = place]
  BY DEF semexit
<1>2. sem \in [SemNum -> SemCell]
  BY DEF IInv, Tables
<1>3. \A s \in hit : v(s) \in Int
  <2> SUFFICES ASSUME NEW s \in hit PROVE v(s) \in Int
    OBVIOUS
  <2>1. \E k \in ks : Target(k) = s
    OBVIOUS
  <2>2. (CHOOSE k \in ks : Target(k) = s) \in ks
    BY <2>1
  <2>3. (CHOOSE k \in ks : Target(k) = s) \in DOMAIN undo[p]
    BY <2>2
  <2> QED BY <2>3, OneKey
<1> HIDE DEF hit, v
<1>4. Settles(sem', W)
  <2> SUFFICES ASSUME NEW x \in SemNum
               PROVE  /\ sem[x].semncnt > 0 /\ << "semncnt", x >> \notin W
                          => sem'[x].val <= sem[x].val
                      /\ sem[x].semzcnt > 0 /\ << "semzcnt", x >> \notin W /\ sem[x].val # 0
                          => sem'[x].val # 0
    BY DEF Settles
  <2>1. sem[x] \in SemCell /\ sem[x].val \in Nat
    BY <1>2 DEF SemCell, SemVal
  <2>2. CASE x \in hit
    <3>1. sem'[x].val = sem[x].val + v(x) /\ v(x) \in Int
      BY <1>1, <1>3, <2>2
    <3>2. \A d : << d, x >> \notin W => d \notin Released(x, v(x))
      BY <2>2
    <3>3. sem[x].semncnt > 0 /\ "semncnt" \notin Released(x, v(x)) => ~(v(x) > 0)
      BY DEF Released
    <3>4. sem[x].semzcnt > 0 /\ "semzcnt" \notin Released(x, v(x)) => sem[x].val + v(x) # 0
      BY DEF Released
    <3> QED BY <2>1, <3>1, <3>2, <3>3, <3>4
  <2>3. CASE x \notin hit
    BY <1>1, <2>1, <2>3
  <2> QED BY <2>2, <2>3
<1> HIDE DEF W
<1>5. /\ pc'[q] \in {"copyin", "asleep", "woken"} => pc[q] \in {"copyin", "asleep", "woken"}
      /\ pc'[q] = "asleep" => pc[q] = "asleep" /\ wchan[q] \notin W
  BY <1>1 DEF wakeprocs
<1>6. \A j \in Allocated : sema'[j].base = sema[j].base
  OBVIOUS
<1> QED BY <1>4, <1>5, <1>6, StillBarred

LEMMA BeginBarred ==
    ASSUME SemAssumption, \A ops \in OpLists : ZeroFirst(ops), IInv, IInv',
           NEW p \in Proc, NEW c \in Calls(p), Begin(p, c), \A q \in Proc : Barred(q),
           NEW q \in Proc
    PROVE  Barred(q)'
<1>1. /\ arg' = [arg EXCEPT ![p] = c] /\ pc' = [pc EXCEPT ![p] = "copyin"]
      /\ sema' = sema /\ sem' = sem /\ wchan' = wchan
  BY DEF Begin, semVars
<1>2. arg \in [Proc -> CallType]
  BY DEF IInv, Tables, CallType
<1>3. ZeroFirst(arg'[p].ops)
  <2>1. ZeroFirst(c.ops)
    BY CallsZeroFirst
  <2> QED BY <1>1, <1>2, <2>1
<1>4. \A r \in Proc : r # p => wchan'[r] = wchan[r] /\ arg'[r] = arg[r]
  BY <1>1, <1>2
<1>5. "copyin" \in Place /\ "copyin" # "asleep" /\ \A x \in SemNum : sem'[x].val = sem[x].val
  BY <1>1 DEF Place
<1> QED BY <1>1, <1>3, <1>4, <1>5, MoveBarred

\* A process that goes back to user mode and changes no value.
LEMMA ReturnBarred ==
    ASSUME SemAssumption, IInv, IInv', NEW p \in Proc, pc' = [pc EXCEPT ![p] = "user"],
           arg' = [arg EXCEPT ![p] = NoCall],
           wchan' = wchan \/ wchan' = [wchan EXCEPT ![p] = NoChan],
           sema' = sema, sem' = sem, NEW q \in Proc, Barred(q)
    PROVE  Barred(q)'
<1>1. arg \in [Proc -> CallType] /\ wchan \in [Proc -> Chan \cup {NoChan}]
  BY DEF IInv, Tables, CallType
<1>2. \A r \in Proc : r # p => wchan'[r] = wchan[r] /\ arg'[r] = arg[r]
  BY <1>1
<1>3. "user" \in Place /\ "user" \notin {"copyin", "woken", "asleep"}
  BY DEF Place
<1> QED BY <1>2, <1>3, MoveBarred

LEMMA SemopBarred ==
    ASSUME SemAssumption, \A ops \in OpLists : ZeroFirst(ops), IInv, IInv',
           NEW p \in Proc, NEW c \in Calls(p), semop(p, c), \A q \in Proc : Barred(q),
           NEW q \in Proc
    PROVE  Barred(q)'
<1>1. Tables /\ CopiedIn(p, c)
  BY DEF IInv, semop
<1>2. c \in CallType /\ Named(c) /\ semconv(c.semid) /\ (c.again => InRange(c))
  BY <1>1, CallsHold
<1>3. CASE TooBig(c)
  <2>1. /\ pc' = [pc EXCEPT ![p] = "user"] /\ arg' = [arg EXCEPT ![p] = NoCall]
        /\ sema' = sema /\ sem' = sem /\ wchan' = wchan
    BY <1>3 DEF semop, Return, semVars
  <2> QED BY <2>1, ReturnBarred
<1>4. CASE ~TooBig(c)
  <2>1. Pass(p, c) /\ InRange(c)
    <3>1. c.again \in BOOLEAN /\ c.ops \in Seq(Op) /\ sema[c.sp].nsems \in Int
      BY <1>1, <1>2 DEF CallType, Tables
    <3>2. \A n \in DOMAIN c.ops : c.ops[n].num \in Int
      <4>1. \A n \in DOMAIN c.ops : c.ops[n] \in Op
        BY <3>1
      <4> QED BY <4>1 DEF Op
    <3> QED BY <1>2, <1>4, <3>1, <3>2 DEF semop, TooBig, InRange
  <2>2. pc[p] \in {"user", "copyin", "woken"}
    BY <1>1 DEF CopiedIn
  <2>3. ZeroFirst(c.ops)
    BY CallsZeroFirst
  <2> QED BY <1>2, <2>1, <2>2, <2>3, PassBarred
<1> QED BY <1>3, <1>4

LEMMA IpcSetBarred ==
    ASSUME SemAssumption, IInv, IInv', NEW p \in Proc, NEW c \in Calls(p), IpcSet(p, c),
           NEW q \in Proc, Barred(q)
    PROVE  Barred(q)'
<1>1. /\ CopiedIn(p, c) /\ sema' = [sema EXCEPT ![c.sp].alloc = TRUE]
      /\ pc' = [pc EXCEPT ![p] = "user"] /\ arg' = [arg EXCEPT ![p] = NoCall]
      /\ sem' = sem /\ wchan' = wchan
  BY DEF IpcSet, Return
<1>2. Tables
  BY DEF IInv
<1>3. pc \in [Proc -> Place] /\ arg \in [Proc -> CallType]
  BY <1>2 DEF Tables, CallType
<1>4. \A i \in Allocated : sema'[i].base = sema[i].base
  BY <1>1, <1>2 DEF Allocated, Tables
<1>5. Settles(sem', {})
  BY <1>1, <1>2, SameSettles
<1>6. pc'[q] \in {"copyin", "asleep", "woken"} => pc'[q] = pc[q] /\ arg'[q] = arg[q]
  BY <1>1, <1>3
<1> QED BY <1>1, <1>4, <1>5, <1>6, StillBarred

LEMMA ResumeBarred ==
    ASSUME SemAssumption, IInv, IInv', NEW p \in Proc, Resume(p), \A q \in Proc : Barred(q),
           NEW q \in Proc
    PROVE  Barred(q)'
<1>1. Tables /\ Held(p) /\ pc[p] = "woken"
  BY DEF IInv, Resume
<1>2. pc \in [Proc -> Place] /\ arg \in [Proc -> CallType]
      /\ wchan \in [Proc -> Chan \cup {NoChan}] /\ sem \in [SemNum -> SemCell]
  BY <1>1 DEF Tables, CallType
<1>3. /\ Named(arg[p]) /\ wchan[p] \in Chan /\ (semconv(arg[p].semid) => InRange(arg[p]))
      /\ arg[p] \in CallType /\ ZeroFirst(arg[p].ops)
  BY <1>1, <1>2 DEF Held, Barred
<1>4. CASE /\ Interrupted(p, wchan[p], sem, pc)
           /\ UNCHANGED << sema, semmap, lost, undoVars >>
  <2>1. /\ \A x \in SemNum : sem'[x].val = sem[x].val
        /\ pc'[p] = "user"
        /\ \A r \in Proc : r # p =>
              /\ pc'[r] \in {"copyin", "asleep", "woken"} =>
                  pc[r] \in {"copyin", "asleep", "woken"}
              /\ pc'[r] = "asleep" => pc[r] = "asleep"
    BY <1>2, <1>3, <1>4, InterruptedSettles
  <2>2. /\ wchan' = [wchan EXCEPT ![p] = NoChan] /\ arg' = [arg EXCEPT ![p] = NoCall]
        /\ sema' = sema
    BY <1>4 DEF Interrupted, Return
  <2>3. CASE q = p
    BY <2>1, <2>3 DEF Barred
  <2>4. CASE q # p
    <3>1. Settles(sem', {})
      BY <1>1, <2>1, SameSettles
    <3>2. wchan'[q] = wchan[q] /\ arg'[q] = arg[q]
      BY <1>2, <2>2, <2>4
    <3>3. \A i \in Allocated : sema'[i].base = sema[i].base
      BY <2>2
    <3> QED BY <2>1, <2>4, <3>1, <3>2, <3>3, StillBarred
  <2> QED BY <2>3, <2>4
<1>5. CASE /\ pc' = [pc EXCEPT ![p] = "user"]
           /\ wchan' = [wchan EXCEPT ![p] = NoChan]
           /\ Return(p)
           /\ UNCHANGED << semVars, undoVars >>
  <2>1. arg' = [arg EXCEPT ![p] = NoCall] /\ sema' = sema /\ sem' = sem
    BY <1>5 DEF Return, semVars
  <2> QED BY <1>5, <2>1, ReturnBarred
<1> DEFINE c == [arg[p] EXCEPT !.again = TRUE]
<1>6. /\ c \in CallType /\ c.semid = arg[p].semid /\ c.sp = arg[p].sp /\ c.ops = arg[p].ops
  BY <1>3 DEF CallType
<1>7. CASE ~Gone(p) /\ Pass(p, c)
  <2> HIDE DEF c
  <2>1. semconv(c.semid) /\ Named(c) /\ InRange(c) /\ ZeroFirst(c.ops)
    BY <1>3, <1>6, <1>7 DEF Gone, Named, InRange
  <2> QED BY <1>1, <1>6, <1>7, <2>1, PassBarred
<1>8. CASE /\ pc' = [pc EXCEPT ![p] = "copyin"]
           /\ wchan' = [wchan EXCEPT ![p] = NoChan]
           /\ arg' = [arg EXCEPT ![p].again = TRUE]
           /\ UNCHANGED << semVars, undoVars, p_sig >>
  <2>1. sema' = sema /\ sem' = sem /\ arg' = [arg EXCEPT ![p] = c]
    BY <1>8 DEF semVars
  <2> HIDE DEF c
  <2>2. arg'[p].ops = arg[p].ops
    BY <1>2, <1>6, <2>1
  <2>3. \A r \in Proc : r # p => wchan'[r] = wchan[r] /\ arg'[r] = arg[r]
    BY <1>2, <1>8, <2>1
  <2>4. "copyin" \in Place /\ "copyin" # "asleep" /\ \A x \in SemNum : sem'[x].val = sem[x].val
    BY <2>1 DEF Place
  <2>5. ZeroFirst(arg'[p].ops)
    BY <1>3, <2>2
  <2> QED BY <1>8, <2>1, <2>3, <2>4, <2>5, MoveBarred
<1> HIDE DEF c
<1> QED BY <1>4, <1>5, <1>7, <1>8 DEF Resume, c

LEMMA SignalBarred ==
    ASSUME SemAssumption, IInv, IInv', NEW p \in Proc, Signal(p), NEW q \in Proc, Barred(q)
    PROVE  Barred(q)'
<1>1. /\ pc[p] \in {"copyin", "asleep", "woken"}
      /\ pc' = [pc EXCEPT ![p] = IF @ = "asleep" THEN "woken" ELSE @]
      /\ sema' = sema /\ sem' = sem /\ arg' = arg /\ wchan' = wchan
  BY DEF Signal, semVars
<1>2. Tables
  BY DEF IInv
<1>3. Settles(sem', {})
  BY <1>1, <1>2, SameSettles
<1>4. /\ pc'[q] \in {"copyin", "asleep", "woken"} => pc[q] \in {"copyin", "asleep", "woken"}
      /\ pc'[q] = "asleep" => pc[q] = "asleep"
  BY <1>1, <1>2 DEF Tables
<1>5. \A i \in Allocated : sema'[i].base = sema[i].base
  BY <1>1
<1> QED BY <1>1, <1>3, <1>4, <1>5, StillBarred

\* A slot that is taken or becomes free, with nothing done to a semaphore.
LEMMA SlotBarred ==
    ASSUME SemAssumption, IInv, IInv', NEW p \in Proc, NEW place \in {"user", "gone"},
           pc' = [pc EXCEPT ![p] = place], sema' = sema, sem' = sem, arg' = arg, wchan' = wchan,
           NEW q \in Proc, Barred(q)
    PROVE  Barred(q)'
<1>1. place \in Place /\ place \notin {"copyin", "asleep", "woken"}
  BY DEF Place
<1> QED BY <1>1, MoveBarred

LEMMA NextBarred ==
    ASSUME SemAssumption, ~RemoveRaces, \A ops \in OpLists : ZeroFirst(ops),
           IInv, \A q \in Proc : Barred(q), [Next]_vars, NEW q \in Proc
    PROVE  Barred(q)'
<1>1. IInv' /\ Barred(q)
  BY NextHolds
<1>2. CASE UNCHANGED vars
  <2>1. sema' = sema /\ sem' = sem /\ pc' = pc /\ arg' = arg /\ wchan' = wchan
    BY <1>2 DEF vars, semVars
  <2> QED BY <1>1, <2>1 DEF Barred, Stopped
<1>3. ASSUME NEW key \in Key, NEW n \in 1 .. SEMMSL, semget(key, n) PROVE Barred(q)'
  BY <1>1, <1>3, SemgetBarred
<1>4. ASSUME NEW i \in Id, Remove(i) PROVE Barred(q)'
  BY <1>1, <1>4, RemoveBarred
<1>5. ASSUME NEW i \in Id, NEW num \in 0 .. SEMMSL - 1, NEW v \in SemVal, SetVal(i, num, v)
      PROVE  Barred(q)'
  BY <1>1, <1>5, SetValBarred
<1>6. ASSUME NEW p \in Proc, NEW c \in Calls(p),
             \/ Begin(p, c) \/ semop(p, c) \/ IpcSet(p, c)
             \/ \E vals \in [0 .. SEMMSL - 1 -> SemVal] : SetAll(p, c, vals)
      PROVE  Barred(q)'
  <2>1. CASE Begin(p, c)
    BY <1>1, <2>1, BeginBarred
  <2>2. CASE semop(p, c)
    BY <1>1, <2>2, SemopBarred
  <2>3. CASE IpcSet(p, c)
    BY <1>1, <2>3, IpcSetBarred
  <2>4. ASSUME NEW vals \in [0 .. SEMMSL - 1 -> SemVal], SetAll(p, c, vals) PROVE Barred(q)'
    BY <1>1, <2>4, SetAllBarred
  <2> QED BY <1>6, <2>1, <2>2, <2>3, <2>4
<1>7. ASSUME NEW p \in Proc, Resume(p) PROVE Barred(q)'
  BY <1>1, <1>7, ResumeBarred
<1>8. ASSUME NEW p \in Proc, Signal(p) PROVE Barred(q)'
  BY <1>1, <1>8, SignalBarred
<1>9. ASSUME NEW p \in Proc, Exit(p) PROVE Barred(q)'
  <2>1. CASE p \in Thread
    <3>1. /\ pc' = [pc EXCEPT ![p] = "gone"] /\ sem' = sem
          /\ sema' = sema /\ arg' = arg /\ wchan' = wchan
      BY <1>9, <2>1 DEF Exit
    <3> QED BY <1>1, <3>1, SlotBarred
  <2>2. CASE p \notin Thread
    <3>1. semexit(p, "gone") /\ sema' = sema /\ arg' = arg /\ wchan' = wchan
      BY <1>9, <2>2 DEF Exit
    <3> QED BY <1>1, <3>1, SemexitBarred
  <2> QED BY <2>1, <2>2
<1>10. ASSUME NEW p \in Proc, ForkFails(p) PROVE Barred(q)'
  <2>1. semexit(p, "user") /\ sema' = sema /\ arg' = arg /\ wchan' = wchan
    BY <1>10 DEF ForkFails
  <2> QED BY <1>1, <2>1, SemexitBarred
<1>11. ASSUME NEW p \in Proc, newproc(p) PROVE Barred(q)'
  <2>1. /\ pc' = [pc EXCEPT ![p] = "user"] /\ sem' = sem
        /\ sema' = sema /\ arg' = arg /\ wchan' = wchan
    BY <1>11 DEF newproc, semVars
  <2> QED BY <1>1, <2>1, SlotBarred
<1> QED BY <1>2, <1>3, <1>4, <1>5, <1>6, <1>7, <1>8, <1>9, <1>10, <1>11 DEF Next

-----------------------------------------------------------------------------
(* Enough entries for the free map.                                        *)

\* Each run of the free map begins where a set ends, except one at 0.
LEMMA RunsFew ==
    ASSUME SemAssumption, IInv, lost = {}, NEW A \in SUBSET Allocated, IsFiniteSet(A),
           NEW R \in SUBSET Starts, \A s \in R : \E j \in A : s - 1 \in Members(j)
    PROVE  Cardinality(R) <= Cardinality(A)
<1>1. Tables /\ Apart
  BY DEF IInv
<1>2. R \in SUBSET SemNum /\ R \subseteq semmap /\ SemNum \subseteq Int
  BY <1>1 DEF Tables, Starts, SemNum, SemAssumption
<1>3. IsFiniteSet(R) /\ Cardinality(R) \in Nat /\ Cardinality(A) \in Nat
  BY <1>2, Numbered, FS_CardinalityType
<1> DEFINE f == [s \in R |-> CHOOSE j \in A : s - 1 \in Members(j)]
<1>4. f \in [R -> A] /\ \A s \in R : s - 1 \in Members(f[s])
  OBVIOUS
<1> HIDE DEF f
<1>5. ASSUME NEW s \in R, NEW t \in R, f[s] = f[t] PROVE s = t
  <2>1. PICK j \in Allocated : f[s] = j /\ f[t] = j
    BY <1>4, <1>5
  <2>2. s \notin Members(j) /\ t \notin Members(j) /\ s \in Int /\ t \in Int
    BY <1>1, <1>2, <2>1 DEF Apart
  <2>3. s - 1 \in Members(j) /\ t - 1 \in Members(j)
    BY <1>4, <2>1
  <2>4. sema[j].base \in Int /\ sema[j].nsems \in Int
    BY <1>1 DEF Tables, Allocated, SemNum, SemAssumption
  <2> QED BY <2>2, <2>3, <2>4 DEF Members
<1>6. ~(Cardinality(A) < Cardinality(R))
  BY <1>3, <1>4, <1>5, FS_PigeonHole
<1> QED BY <1>3, <1>6

\* rmfree() finds an entry, when there is one for each set.
LEMMA NoneGoes ==
    ASSUME SemAssumption, NIDS <= SEMMAP - 2, IInv, lost = {}, NEW i \in Allocated
    PROVE  Lost(Members(i)) = {}
<1> DEFINE S == Members(i)
<1>1. SUFFICES ASSUME S # {}, ~Beside(S) PROVE Cardinality(Starts) < SEMMAP - 2
  BY DEF Lost
<1>2. Tables /\ Apart
  BY DEF IInv
<1>3. S \subseteq SemNum /\ i \in Id /\ SemNum \subseteq Int
  BY <1>2 DEF Apart, Allocated, SemNum, SemAssumption
<1>4. \A s \in SemNum : s \in semmap \/ \E j \in Allocated : s \in Members(j)
  BY <1>2 DEF Apart
<1>5. \A s \in S : s - 1 \notin semmap /\ s + 1 \notin semmap
  BY <1>1 DEF Beside
<1> DEFINE A == Allocated \ {i}
           R == Starts \ {0}
<1>6. IsFiniteSet(Allocated) /\ Cardinality(Allocated) <= NIDS /\ Cardinality(Allocated) \in Nat
  <2>1. IsFiniteSet(Id) /\ Cardinality(Id) = NIDS
    BY FS_Interval DEF Id, SemAssumption
  <2>2. Allocated \in SUBSET Id
    BY DEF Allocated
  <2>3. IsFiniteSet(Allocated) /\ Cardinality(Allocated) <= Cardinality(Id)
    BY <2>1, <2>2, FS_Subset
  <2> QED BY <2>1, <2>3, FS_CardinalityType
<1>7. IsFiniteSet(A) /\ Cardinality(A) = Cardinality(Allocated) - 1
  BY <1>6, FS_RemoveElement
<1>8. Starts \in SUBSET SemNum /\ IsFiniteSet(Starts) /\ Cardinality(Starts) \in Nat
  <2>1. Starts \in SUBSET SemNum
    BY <1>2 DEF Tables, Starts
  <2> QED BY <2>1, Numbered
<1>9. \A s \in R : \E j \in A : s - 1 \in Members(j)
  <2> SUFFICES ASSUME NEW s \in R PROVE \E j \in A : s - 1 \in Members(j)
    OBVIOUS
  <2>1. s \in SemNum /\ s # 0 /\ s \in semmap /\ s - 1 \notin semmap
    BY <1>8 DEF Starts
  <2>2. s - 1 \in SemNum /\ s - 1 + 1 = s
    BY <2>1 DEF SemNum, SemAssumption
  <2>3. PICK j \in Allocated : s - 1 \in Members(j)
    BY <1>4, <2>1, <2>2
  <2>4. j # i
    BY <1>5, <2>1, <2>2, <2>3
  <2> QED BY <2>3, <2>4
<1> HIDE DEF S
<1>10. CASE 0 \notin Starts
  <2>1. R = Starts
    BY <1>10
  <2>2. Cardinality(Starts) <= Cardinality(A)
    BY <1>7, <1>9, <2>1, RunsFew
  <2> QED BY <1>6, <1>7, <1>8, <2>2 DEF SemAssumption
<1>11. CASE 0 \in Starts
  \* The set that ends where i begins is before no run either.
  <2>1. sema[i].base \in SemNum /\ sema[i].nsems \in Nat
    BY <1>2, <1>3 DEF Tables, SemAssumption
  <2> DEFINE b == sema[i].base
  <2>2. b \in S /\ b \in SemNum
    <3>1. b \in Int
      BY <1>3, <2>1
    <3>2. PICK x \in S : TRUE
      BY <1>1
    <3>3. x \in b .. b + sema[i].nsems - 1
      BY <3>2 DEF S, Members
    <3>4. b \in b .. b + sema[i].nsems - 1
      BY <2>1, <3>1, <3>3
    <3> QED BY <2>1, <3>4 DEF S, Members
  <2>3. b \notin semmap
    BY <1>2, <2>2 DEF Apart, S
  <2>4. b # 0
    BY <1>11, <2>3 DEF Starts
  <2>5. b - 1 \in SemNum /\ b - 1 \notin semmap /\ b - 1 + 1 = b
    BY <1>5, <2>2, <2>4 DEF SemNum, SemAssumption
  <2>6. PICK k \in Allocated : b - 1 \in Members(k)
    BY <1>4, <2>5
  <2>7. k # i
    <3>1. b \in Int
      BY <1>3, <2>1
    <3>2. b - 1 \notin Members(i)
      BY <2>1, <3>1 DEF Members
    <3> QED BY <2>6, <3>2
  <2> DEFINE B == A \ {k}
  <2>8. IsFiniteSet(B) /\ Cardinality(B) = Cardinality(A) - 1
    BY <1>7, <2>7, FS_RemoveElement
  <2>9. \A s \in R : s - 1 \notin Members(k)
    <3> SUFFICES ASSUME NEW s \in R, s - 1 \in Members(k) PROVE FALSE
      OBVIOUS
    <3>1. s \in SemNum /\ s \in semmap
      BY <1>8 DEF Starts
    <3>2. s \notin Members(k)
      BY <1>2, <3>1 DEF Apart
    <3>3. b \notin Members(k)
      BY <1>2, <2>2, <2>7, OneSet DEF S
    <3>4. sema[k].base \in Int /\ sema[k].nsems \in Int
      BY <1>2 DEF Tables, Allocated, SemNum, SemAssumption
    <3> DEFINE e == sema[k].base + sema[k].nsems
    <3>5. \A x \in Int : x - 1 \in Members(k) /\ x \notin Members(k) => x = e
      BY <3>4 DEF Members
    <3>6. s \in Int /\ b \in Int
      BY <1>3, <2>2, <3>1
    <3> HIDE DEF b, e
    <3>7. s = e /\ b = e
      BY <2>6, <3>2, <3>3, <3>5, <3>6
    <3> QED BY <2>3, <3>1, <3>7
  <2>10. \A s \in R : \E j \in B : s - 1 \in Members(j)
    BY <1>9, <2>9
  <2>11. Cardinality(R) <= Cardinality(B)
    <3>1. B \in SUBSET Allocated /\ R \in SUBSET Starts
      OBVIOUS
    <3>2. IsFiniteSet(B) /\ \A s \in R : \E j \in B : s - 1 \in Members(j)
      BY <2>8, <2>10
    <3> HIDE DEF B, R
    <3> QED BY <3>1, <3>2, RunsFew
  <2>12. Cardinality(R) = Cardinality(Starts) - 1
    BY <1>8, <1>11, FS_RemoveElement
  <2>13. Cardinality(A) = Cardinality(Allocated) - 1
    BY <1>7
  <2> HIDE DEF A, B, R
  <2> QED BY <1>6, <1>8, <2>8, <2>11, <2>12, <2>13 DEF SemAssumption
<1> QED BY <1>10, <1>11

LEMMA NoneLostStep ==
    ASSUME SemAssumption, NIDS <= SEMMAP - 2, IInv, lost = {}, [Next]_vars
    PROVE  lost' = {}
<1>1. CASE UNCHANGED vars
  BY <1>1 DEF vars, semVars
<1>2. ASSUME NEW key \in Key, NEW n \in 1 .. SEMMSL, semget(key, n) PROVE lost' = lost
  BY <1>2 DEF semget
<1>3. ASSUME NEW i \in Id, Remove(i) PROVE lost' = {}
  <2>1. i \in Allocated /\ lost' = lost \cup Lost(Members(i))
    BY <1>3 DEF Remove, Allocated
  <2> QED BY <2>1, NoneGoes
<1>4. ASSUME NEW i \in Id, NEW num \in 0 .. SEMMSL - 1, NEW v \in SemVal, SetVal(i, num, v)
      PROVE  lost' = lost
  BY <1>4 DEF SetVal
<1>5. ASSUME NEW p \in Proc, NEW c \in Calls(p),
             \/ Begin(p, c) \/ semop(p, c) \/ IpcSet(p, c)
             \/ \E vals \in [0 .. SEMMSL - 1 -> SemVal] : SetAll(p, c, vals)
      PROVE  lost' = lost
  <2>1. CASE Begin(p, c)
    BY <2>1 DEF Begin, semVars
  <2>2. CASE semop(p, c)
    BY <2>2 DEF semop, Pass, semVars
  <2>3. CASE IpcSet(p, c)
    BY <2>3 DEF IpcSet
  <2>4. ASSUME NEW vals \in [0 .. SEMMSL - 1 -> SemVal], SetAll(p, c, vals) PROVE lost' = lost
    BY <2>4 DEF SetAll
  <2> QED BY <1>5, <2>1, <2>2, <2>3, <2>4
<1>6. ASSUME NEW p \in Proc, Resume(p) PROVE lost' = lost
  BY <1>6 DEF Resume, Pass, semVars
<1>7. ASSUME NEW p \in Proc, Signal(p) \/ newproc(p) PROVE lost' = lost
  BY <1>7 DEF Signal, newproc, semVars
<1>8. ASSUME NEW p \in Proc, Exit(p) \/ ForkFails(p) PROVE lost' = lost
  BY <1>8 DEF Exit, ForkFails
<1> QED BY <1>1, <1>2, <1>3, <1>4, <1>5, <1>6, <1>7, <1>8 DEF Next

-----------------------------------------------------------------------------
(* Theorems.                                                               *)

LEMMA Inductive ==
    ASSUME ~RemoveRaces
    PROVE  Spec => []IInv
<1>1. Init => IInv
  BY InitHolds, SemAssumption
<1>2. IInv /\ [Next]_vars => IInv'
  BY NextHolds, SemAssumption
<1> QED BY <1>1, <1>2, PTL DEF Spec

(***************************************************************************)
(* No value of a semaphore, of an adjustment or of a table leaves its      *)
(* range, and no process has more adjustments than its structure has room  *)
(* for, whatever lists of operations semop() is given.                     *)
(***************************************************************************)
THEOREM TypeCorrect ==
    ASSUME ~RemoveRaces
    PROVE  Spec => []TypeOK
<1>1. IInv => TypeOK
  <2> SUFFICES ASSUME IInv PROVE TypeOK
    OBVIOUS
  <2>1. Tables /\ Adjusting
    BY DEF IInv
  <2>2. ASSUME NEW p \in Proc
        PROVE  /\ Cardinality(DOMAIN undo[p]) <= SEMUME
               /\ undo[p] # Empty => p \in has_undo
    <3>1. undo[p] \in Aoes(Keys) /\ (DOMAIN undo[p] # {} => p \in has_undo)
      BY <2>1 DEF Adjusting
    <3>2. undo[p] = [k \in DOMAIN undo[p] |-> undo[p][k]] /\ Cardinality(DOMAIN undo[p]) <= SEMUME
      BY <3>1, AoesFacts
    <3>3. DOMAIN undo[p] = {} => undo[p] = Empty
      BY <3>2 DEF Empty
    <3> QED BY <3>1, <3>2, <3>3
  <2> QED BY <2>1, <2>2 DEF Tables, TypeOK, SemCell
<1> QED BY <1>1, Inductive, PTL

(***************************************************************************)
(* semget() and IPC_RMID keep the sets apart, and a semaphore that is in   *)
(* no set is on the free map unless rmfree() has reported it as lost; the  *)
(* runs of the free map stay within its array.                             *)
(***************************************************************************)
THEOREM SetsKept ==
    ASSUME ~RemoveRaces
    PROVE  Spec => []SetsSound
<1>1. IInv => SetsSound
  BY DEF IInv, Tables, Apart, SetsSound
<1> QED BY <1>1, Inductive, PTL

(***************************************************************************)
(* rmfree() loses no semaphore when the free map has an entry for each     *)
(* identifier, SEMMAP - 2 of them: the free runs are between the sets.     *)
(***************************************************************************)
THEOREM NoneLost ==
    ASSUME ~RemoveRaces, NIDS <= SEMMAP - 2
    PROVE  Spec => [](lost = {})
<1>1. Init => lost = {}
  BY DEF Init
<1>2. IInv /\ lost = {} /\ [Next]_vars => (lost = {})'
  BY NoneLostStep, SemAssumption
<1> QED BY <1>1, <1>2, Inductive, PTL DEF Spec

(***************************************************************************)
(* A process asleep in semop() is counted where it sleeps, so that the     *)
(* next change that concerns it wakes it, and sleeps on a set that exists. *)
(***************************************************************************)
THEOREM SleepersKept ==
    ASSUME ~RemoveRaces
    PROVE  Spec => []SleepersCounted
<1>1. IInv => SleepersCounted
  BY DEF IInv, Held, Named, SleepersCounted, OnOwnSet
<1> QED BY <1>1, Inductive, PTL

(***************************************************************************)
(* An adjustment is never zero, never out of range and never for a set     *)
(* that was removed, so that semexit() changes nothing of a later set.     *)
(***************************************************************************)
THEOREM AdjustmentsKept ==
    ASSUME ~RemoveRaces
    PROVE  Spec => []UndoSound
<1>1. IInv => UndoSound
  <2> SUFFICES ASSUME IInv, NEW p \in Proc, NEW k \in DOMAIN undo[p]
               PROVE  /\ semconv(k[1]) /\ k[2] < sema[k[1] % NIDS].nsems
                      /\ undo[p][k] \in (-SEMAEM .. SEMAEM) \ {0}
    BY DEF UndoSound
  <2>1. undo[p] \in Aoes(Keys)
    BY DEF IInv, Adjusting
  <2> QED BY <2>1, AoesFacts DEF Keys, Aoe
<1> QED BY <1>1, Inductive, PTL

(***************************************************************************)
(* semop() is atomic, whatever the list: a pass that goes through adds to  *)
(* each value the sum of the operations on it, and to each adjustment the  *)
(* opposite of those with SEM_UNDO; one that does not is taken back whole. *)
(***************************************************************************)
THEOREM SemopAtomic ==
    ASSUME ~RemoveRaces
    PROVE  Spec => []AllOrNothing
<1>1. IInv => AllOrNothing
  <2> SUFFICES ASSUME IInv, NEW p \in Proc, NEW i \in Allocated, NEW ops \in OpLists,
                      ~TooBig(Call("semop", i, ops))
               PROVE  LET base == sema[i].base
                          w == Perform(p, ops, base, semid(i))
                          u == semundo(w, ops, base, semid(i))
                          aoe(k) == IF k \in DOMAIN w.aoe THEN w.aoe[k] ELSE 0
                      IN IF w.end = "ok"
                         THEN \A s \in Members(i) :
                              /\ w.sem[s].val = sem[s].val + Total(ops, On(ops, base, s))
                              /\ aoe(<< semid(i), s - base >>)
                                   = Adjustment(p, s)
                                      - Total(ops, {n \in On(ops, base, s) : ops[n].undo})
                         ELSE u.aoe = undo[p] /\ \A s \in SemNum : u.sem[s].val = sem[s].val
    BY DEF AllOrNothing
  <2> DEFINE base == sema[i].base
             w == Perform(p, ops, base, semid(i))
             u == semundo(w, ops, base, semid(i))
  <2>1. ASSUME w.end = "ok", NEW s \in Members(i)
        PROVE  /\ w.sem[s].val = sem[s].val + Total(ops, On(ops, base, s))
               /\ Entry(w.aoe, << semid(i), s - base >>)
                    = Adjustment(p, s) - Total(ops, Undoing(ops, On(ops, base, s)))
    <3> HIDE DEF u
    <3> QED BY <2>1, SemAssumption, AllDoes, SMTT(30)
  <2>2. u.aoe = undo[p] /\ \A s \in SemNum : u.sem[s].val = sem[s].val
    BY SemAssumption, NothingDone
  <2> HIDE DEF w, u, base
  <2>3. w.end = "ok" =>
        \A s \in Members(i) :
            /\ w.sem[s].val = sem[s].val + Total(ops, On(ops, base, s))
            /\ (IF << semid(i), s - base >> \in DOMAIN w.aoe
                THEN w.aoe[<< semid(i), s - base >>] ELSE 0)
                 = Adjustment(p, s) - Total(ops, {n \in On(ops, base, s) : ops[n].undo})
    BY <2>1 DEF Entry, Undoing
  <2> QED BY <2>2, <2>3 DEF w, u, base
<1> QED BY <1>1, Inductive, PTL

(***************************************************************************)
(* No process sleeps in semop() while the whole list it asked for could be *)
(* done, if no list tests a semaphore for zero after an operation of its   *)
(* own that changes it.                                                    *)
(***************************************************************************)
THEOREM SleepersNotIdle ==
    ASSUME ~RemoveRaces, \A ops \in OpLists : ZeroFirst(ops)
    PROVE  Spec => []NoIdleSleeper
<1> DEFINE AllBarred == \A q \in Proc : Barred(q)
<1>1. Init => AllBarred
  BY DEF Init, Barred
<1>2. IInv /\ AllBarred /\ [Next]_vars => AllBarred'
  BY SemAssumption, NextBarred
<1>3. IInv /\ AllBarred => NoIdleSleeper
  <2> SUFFICES ASSUME IInv, AllBarred, NEW p \in Proc, pc[p] = "asleep"
               PROVE  Perform(p, arg[p].ops, sema[arg[p].sp].base, arg[p].semid).end # "ok"
    BY DEF NoIdleSleeper
  <2> DEFINE ops == arg[p].ops
             base == sema[arg[p].sp].base
             s == arg[p].semid
             x == wchan[p][2]
  <2>1. Tables /\ Apart /\ Adjusting /\ Held(p)
    BY DEF IInv
  <2>2. /\ arg[p] \in CallType /\ Named(arg[p]) /\ semconv(s) /\ InRange(arg[p])
        /\ wchan[p] \in Chan
    BY <2>1 DEF Tables, CallType, Held
  <2>3. Fit(ops, base, s)
    BY <2>2 DEF Fit, InRange, CallType, Named
  <2>4. x \in SemNum
    BY <2>2 DEF Chan
  <2>5. PICK n \in DOMAIN ops : Stops(ops, base, wchan[p][1], x, n, sem[x].val)
    BY DEF Barred, Stopped
  <2> HIDE DEF ops, base, s, x
  <2>6. Perform(p, ops, base, s).end # "ok"
    BY SemAssumption, <2>1, <2>3, <2>4, <2>5, StoppedPass
  <2> QED BY <2>6 DEF ops, base, s
<1> HIDE DEF AllBarred
<1> QED BY <1>1, <1>2, <1>3, Inductive, PTL DEF Spec

(***************************************************************************)
(* semexit() takes back what the process did with SEM_UNDO, once, and only *)
(* as far as the value stays in range.                                     *)
(***************************************************************************)
THEOREM ExitTakesBack ==
    ASSUME ~RemoveRaces
    PROVE  Spec => ExitUndoes
<1> DEFINE Undoes ==
        \A p \in Proc \ Thread : pc[p] # "gone" /\ pc'[p] = "gone" =>
            /\ undo'[p] = Empty
            /\ \A s \in SemNum :
                LET v == sem[s].val + Adjustment(p, s)
                IN sem'[s].val = IF v \in SemVal THEN v ELSE sem[s].val
<1>1. IInv /\ [Next]_vars => [Undoes]_vars
  <2> SUFFICES ASSUME IInv, Next, NEW p \in Proc \ Thread, pc[p] # "gone", pc'[p] = "gone"
               PROVE  /\ undo'[p] = Empty
                      /\ \A s \in SemNum :
                          LET v == sem[s].val + Adjustment(p, s)
                          IN sem'[s].val = IF v \in SemVal THEN v ELSE sem[s].val
    OBVIOUS
  <2>1. PICK q \in Proc : Exit(q)
    BY SemAssumption, GoneKept DEF StaysGone
  <2>2. q = p
    <3>1. CASE q \in Thread
      BY <2>1, <3>1 DEF Exit, IInv, Tables
    <3>2. CASE q \notin Thread
      <4>1. semexit(q, "gone") /\ sema' = sema /\ arg' = arg /\ wchan' = wchan
        BY <2>1, <3>2 DEF Exit
      <4>2. \A r \in Proc : r # q => (pc'[r] = "gone" => pc[r] = "gone")
        BY <4>1, SemAssumption, SemexitKept
      <4> QED BY <4>2
    <3> QED BY <3>1, <3>2
  <2>3. semexit(p, "gone") /\ sema' = sema /\ arg' = arg /\ wchan' = wchan
    BY <2>1, <2>2 DEF Exit
  <2> QED BY <2>3, SemAssumption, SemexitKept
<1>2. (ExitUndoes <=> [][Undoes]_vars)
  BY DEF ExitUndoes
<1> HIDE DEF Undoes
<1> QED BY <1>1, <1>2, Inductive, PTL DEF Spec

(***************************************************************************)
(* Where no slot is a user thread's, the next process in a slot inherits   *)
(* no adjustments: every process that is gone went through semexit().      *)
(***************************************************************************)
THEOREM NoneInherited ==
    ASSUME ~RemoveRaces, Thread = {}
    PROVE  Spec => []UndoGone
<1>1. Init => UndoGone
  BY DEF Init, UndoGone
<1>2. IInv /\ UndoGone /\ [Next]_vars => UndoGone'
  <2> SUFFICES ASSUME IInv, UndoGone, [Next]_vars, NEW q \in Proc, pc'[q] = "gone"
               PROVE  undo'[q] = Empty
    BY DEF UndoGone
  <2>1. CASE UNCHANGED vars
    BY <2>1 DEF UndoGone, vars, undoVars
  <2>2. ASSUME NEW p \in Proc, Exit(p) PROVE undo'[q] = Empty
    <3>1. semexit(p, "gone") /\ sema' = sema /\ arg' = arg /\ wchan' = wchan
      BY <2>2 DEF Exit
    <3>2. CASE q = p
      BY <3>1, <3>2, SemAssumption, SemexitKept
    <3>3. CASE q # p
      <4>1. pc[q] = "gone"
        BY <3>1, <3>3, SemAssumption, SemexitKept
      <4>2. undo'[q] = undo[q]
        BY <3>1, <3>3 DEF semexit, IInv, Adjusting
      <4> QED BY <4>1, <4>2 DEF UndoGone
    <3> QED BY <3>2, <3>3
  <2>3. CASE Next /\ ~ \E p \in Proc : Exit(p)
    BY <2>3, SemAssumption, GoneKept DEF UndoGone, StaysGone
  <2> QED BY <2>1, <2>2, <2>3
<1> QED BY <1>1, <1>2, Inductive, PTL DEF Spec
=============================================================================
