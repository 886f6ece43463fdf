------------------------------- MODULE Flock_proofs -------------------------------
(***************************************************************************)
(* Record locking is right for any number of processes, files, bytes and   *)
(* records.  The walk of flckadj() has an invariant of its own (WalkInv),  *)
(* which each of its turns keeps; what it comes to (Done) gives the        *)
(* invariant of the system (IInv).  From that follow that the lists are    *)
(* sound, that no sleeper is forgotten, and that the calls do to the bytes *)
(* of a file what FlockMap promises.  That no circle of processes waits in *)
(* reclock() has an argument of its own, at the end.                       *)
(***************************************************************************)
EXTENDS Flock, SeqLemmas, IndLemmas, TLAPS

-----------------------------------------------------------------------------
(* Records, lists, and the bytes that a process has locked.                *)

Lck == [owner : Proc, type : Type \cup {"un"}, start : Byte, end : Byte]

\* Where the lock begins and ends, in numbers.
LEMMA RegflckSays ==
    ASSUME NEW ld, NEW r, r.start \in Int, r.end \in Int, ld.start \in Int, ld.end \in Int,
           r.start <= r.end, ld.start <= ld.end
    PROVE  /\ regflck(ld, r)[1] = "BEFORE" <=> ld.start < r.start
           /\ regflck(ld, r)[1] = "START" <=> ld.start = r.start
           /\ regflck(ld, r)[1] = "MIDDLE" <=> ld.start > r.start /\ ld.start <= r.end
           /\ regflck(ld, r)[1] = "END" <=> ld.start = r.end + 1
           /\ regflck(ld, r)[1] = "AFTER" <=> ld.start > r.end + 1
           /\ regflck(ld, r)[2] = "BEFORE" <=> ld.end < r.start - 1
           /\ regflck(ld, r)[2] = "START" <=> ld.end = r.start - 1
           /\ regflck(ld, r)[2] = "MIDDLE" <=> ld.end >= r.start /\ ld.end < r.end
           /\ regflck(ld, r)[2] = "END" <=> ld.end = r.end
           /\ regflck(ld, r)[2] = "AFTER" <=> ld.end > r.end
<1> DEFINE s == regflck(ld, r)[1]
           e == regflck(ld, r)[2]
<1>1. s = CASE ld.start < r.start -> "BEFORE"
            [] ld.start = r.start -> "START"
            [] ld.start > r.start /\ ld.start <= r.end -> "MIDDLE"
            [] ld.start = r.end + 1 -> "END"
            [] OTHER -> "AFTER"
  BY DEF regflck
<1>2. e = CASE ld.end < r.start - 1 -> "BEFORE"
            [] ld.end = r.start - 1 -> "START"
            [] ld.end >= r.start /\ ld.end < r.end -> "MIDDLE"
            [] ld.end = r.end -> "END"
            [] OTHER -> "AFTER"
  BY DEF regflck
<1> HIDE DEF s, e
<1>3. /\ s = "BEFORE" <=> ld.start < r.start
      /\ s = "START" <=> ld.start = r.start
      /\ s = "MIDDLE" <=> ld.start > r.start /\ ld.start <= r.end
      /\ s = "END" <=> ld.start = r.end + 1
      /\ s = "AFTER" <=> ld.start > r.end + 1
  BY <1>1
<1>4. /\ e = "BEFORE" <=> ld.end < r.start - 1
      /\ e = "START" <=> ld.end = r.start - 1
      /\ e = "MIDDLE" <=> ld.end >= r.start /\ ld.end < r.end
      /\ e = "END" <=> ld.end = r.end
      /\ e = "AFTER" <=> ld.end > r.end
  BY <1>2
<1> QED BY <1>3, <1>4 DEF s, e

\* Changes of single fields of the work.
WithEnd(w, e) == [w EXCEPT !.ld.end = e]
WithStart(w, e) == [w EXCEPT !.ld.start = e]
WithInsrtp(w, i) == [w EXCEPT !.insrtp = i]

\* What Adjust() does of a record of the caller, by where the lock begins and
\* ends.
LEMMA AdjustCases ==
    ASSUME NEW w, NEW r, NEW ld, r = w.list[w.at], ld = w.ld, w.room \in Int,
           r.start \in Int, r.end \in Int, ld.start \in Int, ld.end \in Int,
           r.start <= r.end, ld.start <= ld.end
    PROVE  \/ /\ ld.end < r.start /\ (ld.type = r.type => ld.end + 1 < r.start)
              /\ Adjust(w) = Stop(w)
           \/ /\ ld.type = r.type /\ r.start <= ld.start /\ ld.end <= r.end
              /\ Adjust(w) = End(w, "ok")
           \/ /\ ld.type # r.type /\ r.start <= ld.end /\ ld.end < r.end /\ w.room <= 0
              /\ Adjust(w) = End(w, "ENOLCK")
           \/ /\ ld.type = r.type /\ ld.start < r.start /\ r.start <= ld.end + 1 /\ ld.end < r.end
              /\ Adjust(w) = Stop(WithEnd(delflck(w), r.end))
           \/ /\ ld.type = r.type /\ ld.start < r.start /\ ld.end = r.end
              /\ Adjust(w) = Stop(delflck(w))
           \/ /\ ld.start = r.start /\ r.end <= ld.end
              /\ Adjust(w) = WithInsrtp(delflck(w), w.at - 1)
           \/ /\ ld.start < r.start /\ r.end <= ld.end /\ (ld.type = r.type => r.end < ld.end)
              /\ Adjust(w) = delflck(w)
           \/ /\ ld.type = r.type /\ r.start < ld.start /\ ld.start <= r.end + 1 /\ r.end < ld.end
              /\ Adjust(w) = WithInsrtp(WithStart(delflck(w), r.start), w.at - 1)
           \/ /\ ld.type # r.type /\ r.start < ld.start /\ ld.end < r.end /\ w.room > 0
              /\ Adjust(w) = Stop(Shorten(KeepTail(w)))
           \/ /\ ld.type # r.type /\ ld.start = r.start /\ ld.end < r.end /\ w.room > 0
              /\ Adjust(w) = Stop(WithInsrtp(delflck(KeepTail(w)), w.at - 1))
           \/ /\ ld.type # r.type /\ ld.start < r.start /\ r.start <= ld.end /\ ld.end < r.end
              /\ w.room > 0
              /\ Adjust(w) = Stop(WithInsrtp(delflck(KeepTail(w)), delflck(KeepTail(w)).insrtp))
           \/ /\ ld.type # r.type /\ r.start < ld.start /\ ld.start <= r.end /\ r.end <= ld.end
              /\ Adjust(w) = Skip(Shorten(w))
           \/ /\ ld.type # r.type /\ r.end + 1 = ld.start
              /\ Adjust(w) = Skip(w)
           \/ /\ r.end + 1 < ld.start
              /\ Adjust(w) = Skip(WithInsrtp(w, w.at))
<1> DEFINE same == ld.type = r.type
           s == regflck(ld, r)[1]
           e == regflck(ld, r)[2]
           gone == delflck(w)
           grown == [gone EXCEPT !.ld.end = r.end]
           tail == delflck(KeepTail(w))
<1>1. Adjust(w) =
         CASE e = "BEFORE" -> Stop(w)
         [] e = "START" -> IF same THEN Stop(grown) ELSE Stop(w)
         [] same /\ s \in {"START", "MIDDLE"} /\ e \in {"MIDDLE", "END"} -> End(w, "ok")
         [] s = "START" /\ e \in {"END", "AFTER"} /\ ~(same /\ e = "END") ->
                [gone EXCEPT !.insrtp = w.at - 1]
         [] s = "BEFORE" /\ e \in {"END", "AFTER"} ->
                IF same /\ e = "END" THEN Stop(gone) ELSE gone
         [] s = "BEFORE" /\ e = "MIDDLE" /\ same -> Stop(grown)
         [] e = "MIDDLE" /\ ~same ->
                IF w.room <= 0 THEN End(w, "ENOLCK")
                ELSE IF s = "MIDDLE" THEN Stop(Shorten(KeepTail(w)))
                ELSE Stop([tail EXCEPT !.insrtp = IF s = "START" THEN w.at - 1 ELSE @])
         [] s = "MIDDLE" /\ e \in {"END", "AFTER"} /\ ~same -> Skip(Shorten(w))
         [] s \in {"MIDDLE", "END"} /\ e = "AFTER" /\ same ->
                [gone EXCEPT !.ld.start = r.start, !.insrtp = w.at - 1]
         [] s = "END" /\ ~same -> Skip(w)
         [] s = "AFTER" -> Skip([w EXCEPT !.insrtp = w.at])
  BY DEF Adjust
<1> DEFINE a == [tail EXCEPT !.insrtp = w.at - 1]
           b == [tail EXCEPT !.insrtp = @]
           g == Stop(grown)
           i == [gone EXCEPT !.insrtp = w.at - 1]
           j == [gone EXCEPT !.ld.start = r.start, !.insrtp = w.at - 1]
           k == Skip([w EXCEPT !.insrtp = w.at])
<1>2. [tail EXCEPT !.insrtp = IF s = "START" THEN w.at - 1 ELSE @]
        = IF s = "START" THEN a ELSE b
  OBVIOUS
<1>3. Adjust(w) =
         CASE e = "BEFORE" -> Stop(w)
         [] e = "START" -> IF same THEN g ELSE Stop(w)
         [] same /\ s \in {"START", "MIDDLE"} /\ e \in {"MIDDLE", "END"} -> End(w, "ok")
         [] s = "START" /\ e \in {"END", "AFTER"} /\ ~(same /\ e = "END") -> i
         [] s = "BEFORE" /\ e \in {"END", "AFTER"} ->
                IF same /\ e = "END" THEN Stop(gone) ELSE gone
         [] s = "BEFORE" /\ e = "MIDDLE" /\ same -> g
         [] e = "MIDDLE" /\ ~same ->
                IF w.room <= 0 THEN End(w, "ENOLCK")
                ELSE IF s = "MIDDLE" THEN Stop(Shorten(KeepTail(w)))
                ELSE Stop(IF s = "START" THEN a ELSE b)
         [] s = "MIDDLE" /\ e \in {"END", "AFTER"} /\ ~same -> Skip(Shorten(w))
         [] s \in {"MIDDLE", "END"} /\ e = "AFTER" /\ same -> j
         [] s = "END" /\ ~same -> Skip(w)
         [] s = "AFTER" -> k
  BY <1>1, <1>2, Zenon
<1>4. /\ s = "BEFORE" <=> ld.start < r.start
      /\ s = "START" <=> ld.start = r.start
      /\ s = "MIDDLE" <=> ld.start > r.start /\ ld.start <= r.end
      /\ s = "END" <=> ld.start = r.end + 1
      /\ s = "AFTER" <=> ld.start > r.end + 1
      /\ e = "BEFORE" <=> ld.end < r.start - 1
      /\ e = "START" <=> ld.end = r.start - 1
      /\ e = "MIDDLE" <=> ld.end >= r.start /\ ld.end < r.end
      /\ e = "END" <=> ld.end = r.end
      /\ e = "AFTER" <=> ld.end > r.end
  BY RegflckSays
<1> HIDE DEF s, e, a, b, g, i, j, k, gone, grown, tail
<1>5. \/ ld.end < r.start /\ (same => ld.end + 1 < r.start) /\ Adjust(w) = Stop(w)
      \/ same /\ r.start <= ld.start /\ ld.end <= r.end /\ Adjust(w) = End(w, "ok")
      \/ /\ ~same /\ r.start <= ld.end /\ ld.end < r.end /\ w.room <= 0
         /\ Adjust(w) = End(w, "ENOLCK")
      \/ /\ same /\ ld.start < r.start /\ r.start <= ld.end + 1 /\ ld.end < r.end
         /\ Adjust(w) = g
      \/ same /\ ld.start < r.start /\ ld.end = r.end /\ Adjust(w) = Stop(gone)
      \/ ld.start = r.start /\ r.end <= ld.end /\ Adjust(w) = i
      \/ /\ ld.start < r.start /\ r.end <= ld.end /\ (same => r.end < ld.end)
         /\ Adjust(w) = gone
      \/ /\ same /\ r.start < ld.start /\ ld.start <= r.end + 1 /\ r.end < ld.end
         /\ Adjust(w) = j
      \/ /\ ~same /\ r.start < ld.start /\ ld.end < r.end /\ w.room > 0
         /\ Adjust(w) = Stop(Shorten(KeepTail(w)))
      \/ ~same /\ ld.start = r.start /\ ld.end < r.end /\ w.room > 0 /\ Adjust(w) = Stop(a)
      \/ /\ ~same /\ ld.start < r.start /\ r.start <= ld.end /\ ld.end < r.end
         /\ w.room > 0 /\ Adjust(w) = Stop(b)
      \/ /\ ~same /\ r.start < ld.start /\ ld.start <= r.end /\ r.end <= ld.end
         /\ Adjust(w) = Skip(Shorten(w))
      \/ ~same /\ r.end + 1 = ld.start /\ Adjust(w) = Skip(w)
      \/ r.end + 1 < ld.start /\ Adjust(w) = k
  <2> HIDE DEF same
  <2>1. CASE e \in {"BEFORE", "START"}
    BY <1>3, <1>4, <2>1
  <2>2. CASE e = "MIDDLE" /\ same
    BY <1>3, <1>4, <2>2
  <2>3. CASE e = "MIDDLE" /\ ~same
    BY <1>3, <1>4, <2>3
  <2>4. CASE e = "END"
    BY <1>3, <1>4, <2>4
  <2>5. CASE e = "AFTER"
    BY <1>3, <1>4, <2>5
  <2> QED BY <1>4, <2>1, <2>2, <2>3, <2>4, <2>5
<1>6. /\ a = WithInsrtp(tail, w.at - 1) /\ b = WithInsrtp(tail, tail.insrtp)
      /\ grown = WithEnd(gone, r.end) /\ i = WithInsrtp(gone, w.at - 1)
      /\ k = Skip(WithInsrtp(w, w.at))
  BY DEF a, b, grown, i, k, WithInsrtp, WithEnd
<1>7. j = WithInsrtp(WithStart(gone, r.start), w.at - 1)
  BY DEF j, WithInsrtp, WithStart
<1>8. gone = delflck(w) /\ tail = delflck(KeepTail(w)) /\ g = Stop(grown)
  BY DEF gone, tail, g
<1> QED BY <1>5, <1>6, <1>7, <1>8 DEF same

\* x ends before y begins, and they could not be one record.
Off(x, y) == x.end < y.start /\ (x.end + 1 = y.start => x.type # y.type)

\* A list is sound: in the order of the starts, and the records of one owner as
\* few as can be.
Proper(list) == \A x \in Record : Holds(list, x) => x.start <= x.end
Sorted(list) == \A m, n \in DOMAIN list : m <= n => list[m].start <= list[n].start
Apart(list) ==
    \A x, y \in Record :
        Holds(list, x) /\ Holds(list, y) /\ x # y /\ x.owner = y.owner => Off(x, y) \/ Off(y, x)
Good(list) ==
    list \in Seq(Record) /\ Proper(list) /\ Injective(list) /\ Sorted(list) /\ Apart(list)

\* p has a lock of type t on byte b.
Covers(x, p, b, t) == x.owner = p /\ x.type = t /\ x.start <= b /\ b <= x.end
Has(list, p, b, t) == \E x \in Record : Holds(list, x) /\ Covers(x, p, b, t)

\* A record r gives way to some pieces of it.
Pieces(New, r) ==
    /\ \A x \in New : /\ x.owner = r.owner /\ x.type = r.type
                      /\ r.start <= x.start /\ x.start <= x.end /\ x.end <= r.end
    /\ \A x, y \in New : x # y => x.end + 1 < y.start \/ y.end + 1 < x.start
Left(r, New, b) == r.start <= b /\ b <= r.end /\ \A x \in New : b < x.start \/ x.end < b

\* The fields of a record.
LEMMA RecordFields ==
    \A x \in Record : /\ x.start \in Int /\ x.end \in Int /\ 0 <= x.start /\ x.end <= MAXEND
                      /\ x.owner \in Proc /\ x.type \in Type /\ x.wakeflg \in BOOLEAN
  BY FlockAssumption DEF Record, Byte, FlockAssumption

\* A sound list in which pieces of r stand for r is sound, and only the owner of
\* r loses locks, on the bytes between the pieces.
LEMMA Rework ==
    ASSUME NEW list, NEW new, NEW r \in Record, NEW New \in SUBSET Record,
           Proper(list), Apart(list), Holds(list, r), Pieces(New, r),
           \A x \in Record : Holds(new, x) <=> (Holds(list, x) /\ x # r) \/ x \in New
    PROVE  /\ Proper(new) /\ Apart(new)
           /\ \A x \in Record : x.owner # r.owner => (Holds(new, x) <=> Holds(list, x))
           /\ \A p \in Proc, b \in Byte, t \in Type :
                /\ Has(new, p, b, t) => Has(list, p, b, t)
                /\ Has(list, p, b, t) /\ ~Has(new, p, b, t) => p = r.owner /\ Left(r, New, b)
<1> USE RecordFields
<1>1. Proper(new)
  BY DEF Proper, Pieces
<1>2. ASSUME NEW x \in Record, NEW y \in Record, Holds(new, x), x \in New, Holds(new, y), x # y,
             x.owner = y.owner
      PROVE  Off(x, y) \/ Off(y, x)
  <2>1. CASE y \in New
    BY <1>2, <2>1 DEF Pieces, Off
  <2>2. CASE y \notin New
    <3>1. Holds(list, y) /\ y # r /\ y.owner = r.owner /\ y.start <= y.end
      BY <1>2, <2>2 DEF Pieces, Proper
    <3>2. Off(r, y) \/ Off(y, r)
      BY <3>1 DEF Apart
    <3>3. x.type = r.type /\ r.start <= x.start /\ x.start <= x.end /\ x.end <= r.end
      BY <1>2 DEF Pieces
    <3> QED BY <3>2, <3>3 DEF Off
  <2> QED BY <2>1, <2>2
<1>3. Apart(new)
  <2> SUFFICES ASSUME NEW x \in Record, NEW y \in Record, Holds(new, x), Holds(new, y), x # y,
                      x.owner = y.owner
               PROVE  Off(x, y) \/ Off(y, x)
    BY DEF Apart
  <2>1. CASE x \in New \/ y \in New
    BY <1>2, <2>1
  <2>2. CASE x \notin New /\ y \notin New
    BY <2>2 DEF Apart
  <2> QED BY <2>1, <2>2
<1>4. ASSUME NEW x \in Record, x.owner # r.owner PROVE Holds(new, x) <=> Holds(list, x)
  BY <1>4 DEF Pieces
<1>5. ASSUME NEW p \in Proc, NEW b \in Byte, NEW t \in Type
      PROVE  /\ Has(new, p, b, t) => Has(list, p, b, t)
             /\ Has(list, p, b, t) /\ ~Has(new, p, b, t) => p = r.owner /\ Left(r, New, b)
  <2>0. b \in Int
    BY FlockAssumption DEF Byte, FlockAssumption
  <2>1. ASSUME NEW x \in Record, Holds(new, x), Covers(x, p, b, t)
        PROVE  Has(list, p, b, t)
    <3>1. CASE x \in New
      <4>1. Covers(r, p, b, t)
        BY <2>0, <2>1, <3>1 DEF Pieces, Covers
      <4> QED BY <4>1 DEF Has
    <3>2. CASE x \notin New
      BY <2>1, <3>2 DEF Has
    <3> QED BY <3>1, <3>2
  <2>2. ASSUME NEW x \in Record, Holds(list, x), Covers(x, p, b, t), ~Has(new, p, b, t)
        PROVE  p = r.owner /\ Left(r, New, b)
    <3>1. x = r
      BY <2>2 DEF Has
    <3>2. ASSUME NEW y \in New PROVE b < y.start \/ y.end < b
      <4>1. ~Covers(y, p, b, t)
        BY <2>2 DEF Has
      <4>2. y.owner = p /\ y.type = t
        BY <2>2, <3>1 DEF Covers, Pieces
      <4> QED BY <2>0, <4>1, <4>2 DEF Covers
    <3> QED BY <2>2, <3>1, <3>2 DEF Covers, Left
  <2> QED BY <2>1, <2>2 DEF Has
<1> QED BY <1>1, <1>3, <1>4, <1>5

\* The order of the starts.
LEMMA SortedRemove ==
    ASSUME NEW list \in Seq(Record), NEW i \in DOMAIN list, Sorted(list)
    PROVE  Sorted(RemoveAt(list, i))
<1> DEFINE new == RemoveAt(list, i)
<1>1. /\ new \in Seq(Record) /\ Len(new) = Len(list) - 1 /\ Len(list) \in Nat
      /\ \A j \in 1 .. Len(list) - 1 : new[j] = IF j < i THEN list[j] ELSE list[j + 1]
      /\ DOMAIN list = 1 .. Len(list) /\ DOMAIN new = 1 .. Len(list) - 1
  BY RemoveAtProperties, LenProperties
<1> HIDE DEF new
<1>2. ASSUME NEW m \in DOMAIN new, NEW n \in DOMAIN new, m <= n
      PROVE  new[m].start <= new[n].start
  <2> DEFINE from(j) == IF j < i THEN j ELSE j + 1
  <2>1. \A j \in DOMAIN new : from(j) \in DOMAIN list /\ new[j] = list[from(j)]
    BY <1>1
  <2>2. from(m) <= from(n)
    BY <1>1, <1>2
  <2> HIDE DEF from
  <2> QED BY <2>1, <2>2 DEF Sorted
<1> QED BY <1>2 DEF Sorted, new

\* An element goes in where its start belongs.
LEMMA SortedInsert ==
    ASSUME NEW list \in Seq(Record), NEW i \in 1 .. Len(list) + 1, NEW x \in Record, Sorted(list),
           i > 1 => list[i - 1].start <= x.start,
           i <= Len(list) => x.start <= list[i].start
    PROVE  Sorted(InsertAt(list, i, x))
<1> DEFINE new == InsertAt(list, i, x)
<1>1. /\ new \in Seq(Record) /\ Len(new) = Len(list) + 1
      /\ \A j \in 1 .. Len(list) + 1 :
            new[j] = IF j < i THEN list[j] ELSE IF j = i THEN x ELSE list[j - 1]
  BY InsertAtProperties
<1>2. DOMAIN list = 1 .. Len(list) /\ DOMAIN new = 1 .. Len(list) + 1 /\ Len(list) \in Nat
  BY <1>1, LenProperties
<1> HIDE DEF new
<1>3. \A j \in DOMAIN list : list[j].start \in Int
  BY <1>2, ElementOfSeq, RecordFields
<1>4. \A j \in DOMAIN list : (j < i => list[j].start <= x.start) /\ (j >= i => x.start <= list[j].start)
  <2> SUFFICES ASSUME NEW j \in DOMAIN list
               PROVE  (j < i => list[j].start <= x.start) /\ (j >= i => x.start <= list[j].start)
    OBVIOUS
  <2>1. CASE j < i
    <3>1. i - 1 \in DOMAIN list /\ j <= i - 1 /\ i > 1
      BY <1>2, <2>1
    <3>2. list[j].start <= list[i - 1].start
      BY <3>1 DEF Sorted
    <3> QED BY <1>2, <1>3, <2>1, <3>1, <3>2, RecordFields
  <2>2. CASE j >= i
    <3>1. i \in DOMAIN list
      BY <1>2, <2>2
    <3>2. list[i].start <= list[j].start
      BY <2>2, <3>1 DEF Sorted
    <3> QED BY <1>2, <1>3, <2>2, <3>1, <3>2, RecordFields
  <2> QED BY <1>2, <2>1, <2>2
<1>5. ASSUME NEW m \in DOMAIN new, NEW n \in DOMAIN new, m <= n
      PROVE  new[m].start <= new[n].start
  <2>1. CASE n < i
    <3>1. new[m] = list[m] /\ new[n] = list[n] /\ m \in DOMAIN list /\ n \in DOMAIN list
      BY <1>1, <1>2, <1>5, <2>1
    <3> QED BY <1>5, <3>1 DEF Sorted
  <2>2. CASE m > i
    <3>1. /\ new[m] = list[m - 1] /\ new[n] = list[n - 1]
          /\ m - 1 \in DOMAIN list /\ n - 1 \in DOMAIN list /\ m - 1 <= n - 1
      BY <1>1, <1>2, <1>5, <2>2
    <3> QED BY <3>1 DEF Sorted
  <2>3. CASE m <= i /\ n >= i
    <3>1. new[m].start <= x.start
      <4>1. CASE m = i
        BY <1>1, <4>1, RecordFields
      <4>2. CASE m < i
        BY <1>1, <1>2, <1>4, <4>2
      <4> QED BY <1>2, <2>3, <4>1, <4>2
    <3>2. x.start <= new[n].start
      <4>1. CASE n = i
        BY <1>1, <4>1, RecordFields
      <4>2. CASE n > i
        <5>1. new[n] = list[n - 1] /\ n - 1 \in DOMAIN list /\ n - 1 >= i
          BY <1>1, <1>2, <4>2
        <5> QED BY <1>4, <5>1
      <4> QED BY <1>2, <2>3, <4>1, <4>2
    <3>3. new[m].start \in Int /\ new[n].start \in Int /\ x.start \in Int
      BY <1>1, <1>2, ElementOfSeq, RecordFields
    <3> QED BY <3>1, <3>2, <3>3
  <2> QED BY <1>2, <1>5, <2>1, <2>2, <2>3
<1> QED BY <1>5 DEF Sorted, new

\* One with the same start takes the place of another.
LEMMA SortedReplace ==
    ASSUME NEW list \in Seq(Record), NEW i \in DOMAIN list, NEW x \in Record, Sorted(list),
           x.start = list[i].start
    PROVE  Sorted([list EXCEPT ![i] = x])
<1> DEFINE new == [list EXCEPT ![i] = x]
<1>1. DOMAIN new = DOMAIN list /\ \A j \in DOMAIN list : new[j].start = list[j].start
  OBVIOUS
<1> HIDE DEF new
<1> QED BY <1>1 DEF Sorted, new

-----------------------------------------------------------------------------
(* What the walk of flckadj() keeps, and what its parts do to its work.    *)

Names == File \X Proc \X Byte
Work == [file : File, list : Seq(Record), at : Nat \ {0}, ld : Lck, insrtp : Nat,
         woke : SUBSET Names, room : Int, result : {"go", "ok", "ENOLCK"}]

Own(w, n) == w.list[n].owner = w.ld.owner
Within(b, ld) == ld.start <= b /\ b <= ld.end

\* The walk w began with list L and lock ld; wherever it is:

\* the lock has grown over bytes that its owner had locked that way;
Grown(w, L, ld) ==
    /\ w.ld.owner = ld.owner /\ w.ld.type = ld.type
    /\ w.ld.start <= ld.start /\ ld.start <= ld.end /\ ld.end <= w.ld.end
    /\ \A b \in Byte : Within(b, w.ld) /\ ~Within(b, ld) => Has(L, ld.owner, b, ld.type)
\* the own records passed end before the lock, and when it is over no own record
\* meets the lock;
Passed(w) ==
    \/ \A n \in 1 .. w.at - 1 : n \in DOMAIN w.list /\ (Own(w, n) => Off(w.list[n], w.ld))
    \/ /\ w.at > Len(w.list)
       /\ \A n \in DOMAIN w.list : Own(w, n) => Off(w.list[n], w.ld) \/ Off(w.ld, w.list[n])
\* other owners have what they had;
Others(w, L) == \A x \in Record : x.owner # w.ld.owner => (Holds(w.list, x) <=> Holds(L, x))
\* the owner has what it had but for bytes of the lock that have been passed;
Lost(w, L, b, t) == Has(L, w.ld.owner, b, t) /\ ~Has(w.list, w.ld.owner, b, t)
Bytes(w, L) ==
    \A b \in Byte, t \in Type :
        /\ Has(w.list, w.ld.owner, b, t) => Has(L, w.ld.owner, b, t)
        /\ Lost(w, L, b, t) => Within(b, w.ld)
        /\ Lost(w, L, b, t) => \A n \in DOMAIN w.list : w.at <= n /\ Own(w, n) => b < w.list[n].start
\* the sleepers of every record that is gone are to be woken;
Wakes(w, L) ==
    \A x \in Record : Holds(L, x) /\ x.wakeflg => Holds(w.list, x) \/ Name(w.file, x) \in w.woke
\* records are neither lost nor more than there can be;
Room(w, L, room) == w.room + Len(w.list) = room + Len(L) /\ w.room >= 0
\* the lock can go in behind insrtp;
Point(w) ==
    w.ld.type # "un" =>
        /\ w.insrtp <= Len(w.list)
        /\ w.insrtp < w.at \/ (w.insrtp = w.at /\ w.list[w.at].start < w.ld.start)
        /\ \A n \in 1 .. w.insrtp : w.list[n].start <= w.ld.start
        /\ w.insrtp = 0 => \A n \in DOMAIN w.list : w.ld.start <= w.list[n].start
\* a walk that ended early found the lock in place or took part of it away.
Failed(list, L, ld) ==
    \E j \in ld.start - 1 .. ld.end :
        \A b \in Byte, t \in Type :
            Has(list, ld.owner, b, t) <=> Has(L, ld.owner, b, t) /\ ~(ld.start <= b /\ b <= j)
Ended(w, L) ==
    /\ w.result = "ok" => \A b \in Byte : Within(b, w.ld) => Has(w.list, w.ld.owner, b, w.ld.type)
    /\ w.result = "ENOLCK" => Failed(w.list, L, w.ld)

Content(w, L, ld, room) ==
    /\ w \in Work /\ Good(w.list)
    /\ Grown(w, L, ld) /\ Others(w, L) /\ Bytes(w, L) /\ Wakes(w, L) /\ Room(w, L, room)
WalkInv(w, L, ld, room) == Content(w, L, ld, room) /\ Passed(w) /\ Point(w) /\ Ended(w, L)

\* A walk that has made the lock grow has a record to spare, so that one that
\* fails for want of records fails with the lock it was called with.
Lean(w, ld) ==
    /\ w.ld # ld => w.room > 0
    /\ w.result = "ENOLCK" => w.room <= 0

\* It is not over, and the next record is one of the caller's.
AtOwn(w) == w.result = "go" /\ w.at \in DOMAIN w.list /\ Own(w, w.at)

\* The fields of a lock.
LEMMA LckFields ==
    \A x \in Lck : /\ x.start \in Int /\ x.end \in Int /\ 0 <= x.start /\ x.end <= MAXEND
                   /\ x.start \in Byte /\ x.end \in Byte
                   /\ x.owner \in Proc /\ x.type \in Type \cup {"un"}
  BY FlockAssumption DEF Lck, Byte, FlockAssumption

\* The elements of a list.
LEMMA Elements ==
    ASSUME NEW list \in Seq(Record)
    PROVE  /\ Len(list) \in Nat /\ DOMAIN list = 1 .. Len(list)
           /\ \A n \in DOMAIN list : list[n] \in Record /\ Holds(list, list[n])
  BY LenProperties, ElementOfSeq DEF Holds

\* The other records of the caller are off its record r at w.at, and so is what
\* has been passed off the lock.
LEMMA Sides ==
    ASSUME NEW w \in Work, Good(w.list), AtOwn(w)
    PROVE  /\ \A n \in 1 .. w.at - 1 : Own(w, n) => Off(w.list[n], w.list[w.at])
           /\ \A n \in DOMAIN w.list : n > w.at /\ Own(w, n) => Off(w.list[w.at], w.list[n])
           /\ \A n \in 1 .. w.at - 1 : w.list[n].start <= w.list[w.at].start
           /\ \A n \in DOMAIN w.list : n >= w.at => w.list[w.at].start <= w.list[n].start
           /\ w.list[w.at] \in Record /\ w.list[w.at].start <= w.list[w.at].end
           /\ Holds(w.list, w.list[w.at])
           /\ Passed(w) =>
                \A n \in 1 .. w.at - 1 : n \in DOMAIN w.list /\ (Own(w, n) => Off(w.list[n], w.ld))
<1> DEFINE list == w.list
           at == w.at
<1>1. /\ list \in Seq(Record) /\ at \in Nat \ {0} /\ w.ld \in Lck
      /\ list = w.list /\ at = w.at
  BY DEF Work
<1>2. /\ Len(list) \in Nat /\ DOMAIN list = 1 .. Len(list)
      /\ \A n \in DOMAIN list : list[n] \in Record /\ Holds(list, list[n])
  BY <1>1, Elements
<1>3. at \in DOMAIN list /\ list[at].owner = w.ld.owner
  BY <1>1 DEF AtOwn, Own
<1>4. Proper(list) /\ Injective(list) /\ Sorted(list) /\ Apart(list)
  BY <1>1 DEF Good
<1> HIDE DEF list, at
<1>5. ASSUME NEW m \in DOMAIN list, NEW n \in DOMAIN list, m < n, list[m].owner = list[n].owner
      PROVE  Off(list[m], list[n])
  <2>1. list[m] # list[n]
    BY <1>2, <1>4, <1>5 DEF Injective
  <2>2. Off(list[m], list[n]) \/ Off(list[n], list[m])
    BY <1>2, <1>4, <1>5, <2>1 DEF Apart
  <2>3. list[m].start <= list[n].start /\ list[n].start <= list[n].end
    BY <1>2, <1>4, <1>5 DEF Sorted, Proper
  <2>4. ~Off(list[n], list[m])
    BY <1>2, <2>3, RecordFields DEF Off
  <2> QED BY <2>2, <2>4
<1>6. \A n \in 1 .. at - 1 : n \in DOMAIN list /\ n < at /\ n <= at
  BY <1>1, <1>2, <1>3
<1>7. \A n \in 1 .. at - 1 : list[n].owner = w.ld.owner => Off(list[n], list[at])
  BY <1>3, <1>5, <1>6
<1>8. \A n \in DOMAIN list : n > at /\ list[n].owner = w.ld.owner => Off(list[at], list[n])
  <2> SUFFICES ASSUME NEW n \in DOMAIN list, n > at, list[n].owner = w.ld.owner
               PROVE  Off(list[at], list[n])
    OBVIOUS
  <2>1. at < n
    BY <1>1, <1>2
  <2> QED BY <1>3, <1>5, <2>1
<1>9. \A n \in 1 .. at - 1 : list[n].start <= list[at].start
  BY <1>3, <1>4, <1>6 DEF Sorted
<1>10. \A n \in DOMAIN list : n >= at => list[at].start <= list[n].start
  BY <1>1, <1>2, <1>3, <1>4 DEF Sorted
<1>11. list[at] \in Record /\ list[at].start <= list[at].end /\ Holds(list, list[at])
  BY <1>2, <1>3, <1>4 DEF Proper
<1>12. ~(at > Len(list))
  BY <1>1, <1>2, <1>3
<1>13. Passed(w) =>
         \A n \in 1 .. w.at - 1 : n \in DOMAIN w.list /\ (Own(w, n) => Off(w.list[n], w.ld))
  BY <1>12 DEF list, at, Passed
<1> QED BY <1>7, <1>8, <1>9, <1>10, <1>11, <1>13 DEF list, at, Own

\* v comes from w by putting New in the place of the record r at w.at.
Reworked(w, v, r, New) ==
    /\ v \in Work /\ v.file = w.file
    /\ v.ld.owner = w.ld.owner /\ v.ld.type = w.ld.type
    /\ v.ld.start <= w.ld.start /\ w.ld.end <= v.ld.end
    /\ \A b \in Byte : Within(b, v.ld) =>
            Within(b, w.ld) \/ (r.type = w.ld.type /\ r.start <= b /\ b <= r.end)
    /\ New \in SUBSET Record /\ Pieces(New, r)
    /\ \A x \in Record : Holds(v.list, x) <=> (Holds(w.list, x) /\ x # r) \/ x \in New
    /\ \A b \in Byte : Left(r, New, b) => Within(b, v.ld)
    /\ Sorted(v.list) /\ Injective(v.list)
    /\ v.woke = w.woke \cup Woken(w)
    /\ \A n \in DOMAIN v.list : v.at <= n =>
            \E m \in DOMAIN w.list : m > w.at /\ v.list[n] = w.list[m]
    /\ v.room + Len(v.list) = w.room + Len(w.list) /\ v.room >= 0

\* Putting pieces of the record in its place keeps what the walk keeps.
LEMMA Changed ==
    ASSUME NEW w, NEW v, NEW New, NEW L, NEW ld \in Lck, NEW room,
           Content(w, L, ld, room), AtOwn(w), Reworked(w, v, w.list[w.at], New)
    PROVE  Content(v, L, ld, room)
<1> DEFINE r == w.list[w.at]
           p == w.ld.owner
<1>1. /\ w \in Work /\ Good(w.list) /\ v \in Work /\ p \in Proc /\ v.ld.owner = p
      /\ w.list \in Seq(Record) /\ v.list \in Seq(Record)
      /\ w.ld \in Lck /\ v.ld \in Lck /\ v.at \in Int /\ w.at \in Nat
  <2>1. w \in Work /\ Good(w.list) /\ v \in Work /\ v.ld.owner = p
    BY DEF Content, Reworked
  <2> HIDE DEF p
  <2>2. w.list \in Seq(Record) /\ v.list \in Seq(Record) /\ w.ld \in Lck /\ v.ld \in Lck
        /\ v.at \in Int /\ w.at \in Nat
    BY <2>1 DEF Work
  <2> QED BY <2>1, <2>2, LckFields DEF p
<1>2. /\ \A n \in DOMAIN w.list : n > w.at /\ Own(w, n) => Off(r, w.list[n])
      /\ r \in Record /\ Holds(w.list, r) /\ r.owner = p
  BY <1>1, Sides, Elements DEF AtOwn, Own
<1> HIDE DEF r, p
<1>3. Reworked(w, v, r, New)
  BY DEF r
<1>4. /\ Proper(v.list) /\ Apart(v.list)
      /\ \A x \in Record : x.owner # p => (Holds(v.list, x) <=> Holds(w.list, x))
      /\ \A q \in Proc, b \in Byte, t \in Type :
            /\ Has(v.list, q, b, t) => Has(w.list, q, b, t)
            /\ Has(w.list, q, b, t) /\ ~Has(v.list, q, b, t) => q = p /\ Left(r, New, b)
  <2> DEFINE a == w.list
             c == v.list
  <2>1. /\ New \in SUBSET Record /\ Proper(a) /\ Apart(a) /\ Pieces(New, r)
        /\ \A x \in Record : Holds(c, x) <=> (Holds(a, x) /\ x # r) \/ x \in New
    BY <1>1, <1>3 DEF Reworked, Good
  <2> HIDE DEF a, c
  <2>2. Holds(a, r)
    BY <1>2 DEF a
  <2>3. /\ Proper(c) /\ Apart(c)
        /\ \A x \in Record : x.owner # r.owner => (Holds(c, x) <=> Holds(a, x))
        /\ \A q \in Proc, b \in Byte, t \in Type :
            /\ Has(c, q, b, t) => Has(a, q, b, t)
            /\ Has(a, q, b, t) /\ ~Has(c, q, b, t) => q = r.owner /\ Left(r, New, b)
    BY <1>2, <2>1, <2>2, Rework
  <2> QED BY <1>2, <2>3 DEF a, c
<1>5. Good(v.list)
  BY <1>1, <1>3, <1>4 DEF Good, Reworked
<1>6. \A b \in Byte : b \in Int
  BY FlockAssumption DEF Byte, FlockAssumption
<1>7. Grown(v, L, ld)
  <2>0. /\ w.ld.owner = ld.owner /\ w.ld.type = ld.type
        /\ w.ld.start <= ld.start /\ ld.start <= ld.end /\ ld.end <= w.ld.end
        /\ \A b \in Byte : Within(b, w.ld) /\ ~Within(b, ld) => Has(L, ld.owner, b, ld.type)
    BY DEF Content, Grown
  <2>1. v.ld.start <= ld.start /\ ld.end <= v.ld.end
    BY <1>1, <1>3, <2>0, LckFields DEF Reworked
  <2>2. ASSUME NEW b \in Byte, Within(b, v.ld), ~Within(b, ld)
        PROVE  Has(L, ld.owner, b, ld.type)
    <3>1. CASE Within(b, w.ld)
      BY <2>0, <2>2, <3>1
    <3>2. CASE r.type = w.ld.type /\ r.start <= b /\ b <= r.end
      <4>1. Has(w.list, p, b, r.type) /\ r.type \in Type
        BY <1>2, <3>2, RecordFields DEF Has, Covers
      <4>2. Has(L, p, b, r.type)
        BY <4>1 DEF Content, Bytes, p
      <4> QED BY <2>0, <3>2, <4>2 DEF p
    <3> QED BY <1>3, <2>2, <3>1, <3>2 DEF Reworked
  <2> QED BY <1>3, <2>0, <2>1, <2>2 DEF Grown, Reworked
<1>8. Others(v, L)
  <2>1. ASSUME NEW x \in Record, x.owner # p PROVE Holds(w.list, x) <=> Holds(L, x)
    BY <2>1 DEF Content, Others, p
  <2> QED BY <1>1, <1>4, <2>1 DEF Others
<1>9. Bytes(v, L)
  <2> SUFFICES ASSUME NEW b \in Byte, NEW t \in Type
               PROVE  /\ Has(v.list, p, b, t) => Has(L, p, b, t)
                      /\ Has(L, p, b, t) /\ ~Has(v.list, p, b, t) =>
                            /\ Within(b, v.ld)
                            /\ \A n \in DOMAIN v.list :
                                v.at <= n /\ Own(v, n) => b < v.list[n].start
    BY <1>1 DEF Bytes, Lost
  <2>1. /\ Has(w.list, p, b, t) => Has(L, p, b, t)
        /\ Has(L, p, b, t) /\ ~Has(w.list, p, b, t) =>
            /\ Within(b, w.ld)
            /\ \A n \in DOMAIN w.list : w.at <= n /\ Own(w, n) => b < w.list[n].start
    BY DEF Content, Bytes, Lost, p
  <2>2. ASSUME Has(L, p, b, t), ~Has(v.list, p, b, t)
        PROVE  /\ Within(b, v.ld)
               /\ \A n \in DOMAIN v.list : v.at <= n /\ Own(v, n) => b < v.list[n].start
    <3>1. ASSUME NEW n \in DOMAIN v.list, v.at <= n, Own(v, n)
          PROVE  \E m \in DOMAIN w.list : m > w.at /\ v.list[n] = w.list[m] /\ Own(w, m)
      <4>1. PICK m \in DOMAIN w.list : m > w.at /\ v.list[n] = w.list[m]
        BY <1>3, <3>1 DEF Reworked
      <4>2. Own(w, m)
        BY <1>1, <3>1, <4>1 DEF Own, p
      <4> QED BY <4>1, <4>2
    <3>2. CASE Has(w.list, p, b, t)
      <4>1. Left(r, New, b)
        BY <1>1, <1>4, <2>2, <3>2
      <4>2. Within(b, v.ld)
        BY <1>3, <4>1 DEF Reworked
      <4>3. ASSUME NEW n \in DOMAIN v.list, v.at <= n, Own(v, n) PROVE b < v.list[n].start
        <5>1. PICK m \in DOMAIN w.list : m > w.at /\ v.list[n] = w.list[m] /\ Own(w, m)
          BY <3>1, <4>3
        <5>2. r.end < v.list[n].start
          BY <1>2, <5>1 DEF Off
        <5>3. b <= r.end /\ b \in Int /\ r.end \in Int /\ v.list[n].start \in Int
          BY <1>1, <1>2, <1>6, <4>1, <4>3, Elements, RecordFields DEF Left
        <5> QED BY <5>2, <5>3
      <4> QED BY <4>2, <4>3
    <3>3. CASE ~Has(w.list, p, b, t)
      <4>1. Within(b, w.ld)
        BY <2>1, <2>2, <3>3
      <4>2. Within(b, v.ld)
        BY <1>1, <1>3, <1>6, <4>1, LckFields DEF Within, Reworked
      <4>3. ASSUME NEW n \in DOMAIN v.list, v.at <= n, Own(v, n) PROVE b < v.list[n].start
        <5>1. PICK m \in DOMAIN w.list : m > w.at /\ v.list[n] = w.list[m] /\ Own(w, m)
          BY <3>1, <4>3
        <5>2. w.at <= m
          BY <1>1, <5>1, Elements
        <5> QED BY <2>1, <2>2, <3>3, <5>1, <5>2
      <4> QED BY <4>2, <4>3
    <3> QED BY <3>2, <3>3
  <2>3. Has(v.list, p, b, t) => Has(L, p, b, t)
    BY <1>1, <1>4, <2>1
  <2> QED BY <2>2, <2>3
<1>10. Wakes(v, L)
  <2> SUFFICES ASSUME NEW x \in Record, Holds(L, x), x.wakeflg
               PROVE  Holds(v.list, x) \/ Name(v.file, x) \in v.woke
    BY DEF Wakes
  <2>1. Holds(w.list, x) \/ Name(w.file, x) \in w.woke
    BY DEF Content, Wakes
  <2>2. CASE x = r
    BY <1>3, <2>2 DEF Reworked, Woken, r
  <2>3. CASE x # r
    BY <1>3, <2>1, <2>3 DEF Reworked
  <2> QED BY <2>2, <2>3
<1>11. Room(v, L, room)
  BY <1>3 DEF Content, Room, Reworked
<1> QED BY <1>1, <1>5, <1>7, <1>8, <1>9, <1>10, <1>11 DEF Content

\* Where the records of v.list come from: those before w.at are those of w.list.
Placed(w, v, New) ==
    \A n \in DOMAIN v.list :
        \/ n < w.at /\ n \in DOMAIN w.list /\ v.list[n] = w.list[n]
        \/ n >= w.at /\ v.list[n] \in New
        \/ n >= w.at /\ \E m \in DOMAIN w.list : m > w.at /\ v.list[n] = w.list[m]

\* delflck(), field by field.
LEMMA DelFields ==
    ASSUME NEW w \in Work, w.at \in DOMAIN w.list
    PROVE  /\ delflck(w) \in Work
           /\ delflck(w).file = w.file /\ delflck(w).at = w.at /\ delflck(w).ld = w.ld
           /\ delflck(w).insrtp = w.insrtp /\ delflck(w).result = w.result
           /\ delflck(w).list = RemoveAt(w.list, w.at)
           /\ delflck(w).room = w.room + 1
           /\ delflck(w).woke = w.woke \cup Woken(w)
<1>1. w.list \in Seq(Record) /\ w.file \in File /\ w.woke \in SUBSET Names /\ w.room \in Int
  BY DEF Work
<1>2. w.list[w.at] \in Record
  BY <1>1, Elements
<1>3. Woken(w) \in SUBSET Names
  BY <1>1, <1>2 DEF Woken, Name, Names, Record
<1>4. RemoveAt(w.list, w.at) \in Seq(Record)
  BY <1>1, RemoveAtProperties
<1> DEFINE a == RemoveAt(w.list, w.at)
           b == w.woke \cup Woken(w)
<1>5. delflck(w) = [w EXCEPT !.list = a, !.room = @ + 1, !.woke = b]
  BY DEF delflck
<1>6. a \in Seq(Record) /\ b \in SUBSET Names
  BY <1>1, <1>3, <1>4
<1> DEFINE c == w.room + 1
<1>7. c \in Int /\ delflck(w) = [w EXCEPT !.list = a, !.room = c, !.woke = b]
  BY <1>1, <1>5
<1> HIDE DEF a, b, c
<1>8. [w EXCEPT !.list = a, !.room = c, !.woke = b] \in Work
  BY <1>6, <1>7 DEF Work
<1> QED BY <1>7, <1>8 DEF Work, a, b, c

\* The list without the record at w.at.
LEMMA Deleted ==
    ASSUME NEW w, NEW v, NEW L, NEW ld \in Lck, NEW room,
           Content(w, L, ld, room), AtOwn(w),
           v \in Work, v.file = w.file, v.list = RemoveAt(w.list, w.at), v.at >= w.at,
           v.woke = w.woke \cup Woken(w), v.room = w.room + 1,
           v.ld.owner = w.ld.owner, v.ld.type = w.ld.type,
           v.ld.start <= w.ld.start, w.ld.end <= v.ld.end,
           v.ld.start <= w.list[w.at].start, w.list[w.at].end <= v.ld.end,
           \A b \in Byte : Within(b, v.ld) =>
                \/ Within(b, w.ld)
                \/ /\ w.list[w.at].type = w.ld.type
                   /\ w.list[w.at].start <= b /\ b <= w.list[w.at].end
    PROVE  /\ Content(v, L, ld, room)
           /\ Placed(w, v, {})
           /\ Len(v.list) = Len(w.list) - 1
<1> DEFINE r == w.list[w.at]
<1>1. /\ w.list \in Seq(Record) /\ w.at \in Nat \ {0} /\ w.at \in DOMAIN w.list
      /\ Good(w.list) /\ w.room \in Int /\ w.ld \in Lck /\ v.ld \in Lck
      /\ v.list \in Seq(Record) /\ v.at \in Nat \ {0}
  BY DEF Content, AtOwn, Work
<1>2. /\ Len(w.list) \in Nat /\ DOMAIN w.list = 1 .. Len(w.list) /\ r \in Record
      /\ Len(v.list) = Len(w.list) - 1 /\ DOMAIN v.list = 1 .. Len(v.list)
      /\ \A j \in 1 .. Len(w.list) - 1 :
            v.list[j] = IF j < w.at THEN w.list[j] ELSE w.list[j + 1]
  <2>1. Len(w.list) \in Nat /\ DOMAIN w.list = 1 .. Len(w.list) /\ r \in Record
    BY <1>1, Elements
  <2>2. DOMAIN v.list = 1 .. Len(v.list)
    BY <1>1, Elements
  <2> DEFINE a == w.list
             i == w.at
  <2>3. a \in Seq(Record) /\ i \in DOMAIN a
    BY <1>1
  <2> HIDE DEF a, i
  <2>4. /\ Len(RemoveAt(a, i)) = Len(a) - 1
        /\ \A j \in 1 .. Len(a) - 1 : RemoveAt(a, i)[j] = IF j < i THEN a[j] ELSE a[j + 1]
    BY <2>3, RemoveAtProperties
  <2> QED BY <2>1, <2>2, <2>4 DEF a, i
<1>3. ASSUME NEW n \in DOMAIN v.list
      PROVE  \/ n < w.at /\ n \in DOMAIN w.list /\ v.list[n] = w.list[n]
             \/ n >= w.at /\ \E m \in DOMAIN w.list : m > w.at /\ v.list[n] = w.list[m]
  <2>1. CASE n < w.at
    BY <1>1, <1>2, <2>1
  <2>2. CASE n >= w.at
    <3>1. n + 1 \in DOMAIN w.list /\ n + 1 > w.at /\ v.list[n] = w.list[n + 1]
      BY <1>1, <1>2, <2>2
    <3> QED BY <2>2, <3>1
  <2> QED BY <1>1, <1>2, <2>1, <2>2
<1>4. Placed(w, v, {})
  BY <1>3 DEF Placed
<1>5. \A n \in DOMAIN v.list : v.at <= n =>
            \E m \in DOMAIN w.list : m > w.at /\ v.list[n] = w.list[m]
  BY <1>1, <1>2, <1>3
<1>6. Sorted(v.list) /\ Injective(v.list)
      /\ \A x : Holds(v.list, x) <=> Holds(w.list, x) /\ x # r
  BY <1>1, SortedRemove, RemoveHolds DEF Good
<1>7. {} \in SUBSET Record /\ Pieces({}, r)
  BY DEF Pieces
<1>8. ASSUME NEW b \in Byte, Left(r, {}, b) PROVE Within(b, v.ld)
  <2>1. b \in Int /\ r.start <= b /\ b <= r.end
    BY <1>8, FlockAssumption DEF Left, Byte, FlockAssumption
  <2>2. v.ld.start <= r.start /\ r.end <= v.ld.end
    OBVIOUS
  <2>3. v.ld.start \in Int /\ v.ld.end \in Int /\ r.start \in Int /\ r.end \in Int
    BY <1>1, <1>2, LckFields, RecordFields
  <2> QED BY <2>1, <2>2, <2>3 DEF Within
<1>9. v.room + Len(v.list) = w.room + Len(w.list) /\ v.room >= 0
  <2>1. w.room >= 0
    BY DEF Content, Room
  <2>2. Len(v.list) = Len(w.list) - 1 /\ Len(w.list) \in Int
    BY <1>2
  <2> QED BY <1>1, <2>1, <2>2
<1>10. Reworked(w, v, r, {})
  BY <1>5, <1>6, <1>7, <1>8, <1>9 DEF Reworked
<1>11. Content(v, L, ld, room)
  BY <1>10, Changed
<1> QED BY <1>2, <1>4, <1>11

\* The walk is over: what has been passed is off the lock on one side, and what
\* comes later is on the other.
LEMMA StopPassed ==
    ASSUME NEW w, NEW v, NEW New, NEW r, w \in Work, Good(w.list), AtOwn(w), Passed(w),
           r = w.list[w.at], v \in Work,
           Placed(w, v, New), v.at > Len(v.list),
           v.ld.owner = w.ld.owner, v.ld.type = w.ld.type, v.ld.start = w.ld.start,
           \A x \in New : Off(x, v.ld) \/ Off(v.ld, x),
           \A x \in Record : x.owner = w.ld.owner /\ Off(r, x) => Off(v.ld, x)
    PROVE  Passed(v)
<1>1. /\ \A n \in DOMAIN w.list : n > w.at /\ Own(w, n) => Off(r, w.list[n])
      /\ \A n \in 1 .. w.at - 1 : n \in DOMAIN w.list /\ (Own(w, n) => Off(w.list[n], w.ld))
  BY Sides
<1>2. /\ w.at \in Nat /\ DOMAIN w.list = 1 .. Len(w.list)
      /\ \A n \in DOMAIN w.list : w.list[n] \in Record
      /\ DOMAIN v.list = 1 .. Len(v.list)
  BY Elements DEF Work
<1>3. ASSUME NEW n \in DOMAIN v.list, Own(v, n)
      PROVE  Off(v.list[n], v.ld) \/ Off(v.ld, v.list[n])
  <2>1. CASE n < w.at /\ n \in DOMAIN w.list /\ v.list[n] = w.list[n]
    <3>1. Own(w, n) /\ n \in 1 .. w.at - 1
      BY <1>2, <1>3, <2>1 DEF Own
    <3>2. Off(w.list[n], w.ld)
      BY <1>1, <3>1
    <3> QED BY <2>1, <3>2 DEF Off
  <2>2. CASE v.list[n] \in New
    BY <2>2
  <2>3. ASSUME NEW m \in DOMAIN w.list, m > w.at, v.list[n] = w.list[m]
        PROVE  Off(v.ld, v.list[n])
    <3>1. Own(w, m)
      BY <1>3, <2>3 DEF Own
    <3> QED BY <1>1, <1>2, <2>3, <3>1 DEF Own
  <2> QED BY <2>1, <2>2, <2>3 DEF Placed
<1> QED BY <1>3 DEF Passed

\* The walk goes on: the own records that have been passed.
LEMMA GoPassed ==
    ASSUME NEW w, NEW v, NEW New, w \in Work, Good(w.list), AtOwn(w), Passed(w),
           Placed(w, v, New), v.at = w.at, w.at - 1 \in 0 .. Len(v.list), v.list \in Seq(Record),
           v.ld.owner = w.ld.owner, v.ld.type = w.ld.type,
           \/ v.ld.start = w.ld.start
           \/ v.ld.start = w.list[w.at].start /\ w.ld.type = w.list[w.at].type
    PROVE  Passed(v)
<1>1. /\ \A n \in 1 .. w.at - 1 : Own(w, n) => Off(w.list[n], w.list[w.at])
      /\ \A n \in 1 .. w.at - 1 : n \in DOMAIN w.list /\ (Own(w, n) => Off(w.list[n], w.ld))
  BY Sides
<1>2. DOMAIN v.list = 1 .. Len(v.list) /\ Len(v.list) \in Nat /\ w.at \in Nat
  BY Elements DEF Work
<1>3. ASSUME NEW n \in 1 .. v.at - 1
      PROVE  n \in DOMAIN v.list /\ (Own(v, n) => Off(v.list[n], v.ld))
  <2>1. n \in DOMAIN v.list /\ n < w.at /\ ~(n >= w.at)
    BY <1>2
  <2>2. v.list[n] = w.list[n]
    BY <2>1 DEF Placed
  <2>3. Own(v, n) => Own(w, n)
    BY <2>2 DEF Own
  <2> QED BY <1>1, <2>1, <2>2, <2>3 DEF Off
<1> QED BY <1>3 DEF Passed

\* insrtp stays where it is, at a record before w.at.
LEMMA PointKept ==
    ASSUME NEW w \in Work, NEW v \in Work, NEW New \in SUBSET Record, NEW r \in Record,
           Good(w.list), w.at \in DOMAIN w.list, Point(w), r = w.list[w.at], Placed(w, v, New),
           w.ld.start < r.start, \A x \in New : r.start <= x.start,
           v.ld.start = w.ld.start, v.ld.type = w.ld.type, v.insrtp = w.insrtp,
           v.at >= w.at, Len(v.list) >= Len(w.list) - 1
    PROVE  Point(v)
<1>1. /\ w.at \in Nat /\ DOMAIN w.list = 1 .. Len(w.list) /\ Len(w.list) \in Nat
      /\ DOMAIN v.list = 1 .. Len(v.list) /\ Len(v.list) \in Nat /\ v.at \in Nat
      /\ w.insrtp \in Nat /\ w.ld \in Lck /\ Sorted(w.list)
  BY Elements DEF Work, Good
<1> SUFFICES ASSUME v.ld.type # "un"
             PROVE  /\ v.insrtp <= Len(v.list)
                    /\ v.insrtp < v.at
                    /\ \A n \in 1 .. v.insrtp : v.list[n].start <= v.ld.start
                    /\ v.insrtp = 0 => \A n \in DOMAIN v.list : v.ld.start <= v.list[n].start
  BY DEF Point
<1>2. /\ w.insrtp < w.at
      /\ \A n \in 1 .. w.insrtp : w.list[n].start <= w.ld.start
      /\ w.insrtp = 0 => \A n \in DOMAIN w.list : w.ld.start <= w.list[n].start
  BY <1>1, RecordFields, LckFields DEF Point
<1>3. \A n \in 1 .. w.insrtp : n \in DOMAIN v.list /\ ~(n >= w.at)
  BY <1>1, <1>2
<1>4. \A n \in 1 .. v.insrtp : v.list[n].start <= v.ld.start
  BY <1>2, <1>3 DEF Placed
<1>5. ASSUME v.insrtp = 0, NEW n \in DOMAIN v.list PROVE v.ld.start <= v.list[n].start
  <2>1. CASE v.list[n] \in New
    BY <1>1, <2>1, RecordFields, LckFields
  <2>2. CASE v.list[n] \notin New
    BY <1>2, <1>5, <2>2 DEF Placed
  <2> QED BY <2>1, <2>2
<1> QED BY <1>1, <1>2, <1>4, <1>5

\* insrtp is now the record before w.at, where the lock begins.
LEMMA PointBefore ==
    ASSUME NEW w \in Work, NEW v \in Work, NEW New \in SUBSET Record, NEW r \in Record,
           Good(w.list), w.at \in DOMAIN w.list, r = w.list[w.at], Placed(w, v, New),
           v.ld.start = r.start, \A x \in New : r.start <= x.start,
           v.insrtp = w.at - 1, v.at >= w.at, Len(v.list) >= Len(w.list) - 1
    PROVE  Point(v)
<1>1. /\ w.at \in Nat \ {0} /\ DOMAIN w.list = 1 .. Len(w.list) /\ Len(w.list) \in Nat
      /\ DOMAIN v.list = 1 .. Len(v.list) /\ Len(v.list) \in Nat /\ v.at \in Nat
      /\ Sorted(w.list)
  BY Elements DEF Work, Good
<1>2. \A n \in 1 .. w.at - 1 : n \in DOMAIN v.list /\ n \in DOMAIN w.list /\ ~(n >= w.at) /\ n <= w.at
  BY <1>1
<1>3. ASSUME NEW n \in 1 .. v.insrtp PROVE v.list[n].start <= v.ld.start
  <2>1. n \in DOMAIN v.list /\ n \in DOMAIN w.list /\ ~(n >= w.at) /\ n <= w.at
    BY <1>1, <1>2
  <2>2. v.list[n] = w.list[n] /\ w.list[n].start <= w.list[w.at].start
    BY <1>1, <2>1 DEF Placed, Sorted
  <2> QED BY <2>2
<1>4. ASSUME v.insrtp = 0, NEW n \in DOMAIN v.list PROVE v.ld.start <= v.list[n].start
  <2>1. ~(n < w.at)
    BY <1>1, <1>4
  <2>2. ASSUME NEW m \in DOMAIN w.list, m > w.at PROVE r.start <= w.list[m].start
    <3>1. w.at <= m
      BY <1>1, <2>2
    <3> QED BY <3>1, <1>1 DEF Sorted
  <2> QED BY <2>1, <2>2 DEF Placed
<1>5. v.insrtp <= Len(v.list) /\ v.insrtp < v.at
  BY <1>1
<1> QED BY <1>3, <1>4, <1>5 DEF Point

\* insrtp is now the record at w.at, which the walk leaves behind.
LEMMA PointAt ==
    ASSUME NEW w \in Work, NEW v \in Work, NEW New \in SUBSET Record, NEW r \in Record,
           Good(w.list), w.at \in DOMAIN w.list, r = w.list[w.at], Placed(w, v, New),
           r.start < w.ld.start, v.ld.start = w.ld.start, v.list[w.at].start = r.start,
           v.insrtp = w.at, v.at > w.at, Len(v.list) >= Len(w.list)
    PROVE  Point(v)
<1>1. /\ w.at \in Nat \ {0} /\ DOMAIN w.list = 1 .. Len(w.list) /\ Len(w.list) \in Nat
      /\ DOMAIN v.list = 1 .. Len(v.list) /\ Len(v.list) \in Nat /\ v.at \in Nat
      /\ Sorted(w.list) /\ w.ld \in Lck
      /\ \A n \in DOMAIN w.list : w.list[n] \in Record
  BY Elements DEF Work, Good
<1>2. ASSUME NEW n \in 1 .. v.insrtp PROVE v.list[n].start <= v.ld.start
  <2>1. CASE n = w.at
    BY <1>1, <2>1, RecordFields, LckFields
  <2>2. CASE n # w.at
    <3>1. n \in DOMAIN v.list /\ n \in DOMAIN w.list /\ ~(n >= w.at) /\ n <= w.at
      BY <1>1, <2>2
    <3>2. v.list[n] = w.list[n] /\ w.list[n].start <= r.start
      BY <1>1, <3>1 DEF Placed, Sorted
    <3> QED BY <1>1, <3>1, <3>2, RecordFields, LckFields
  <2> QED BY <2>1, <2>2
<1> QED BY <1>1, <1>2 DEF Point

\* The steps of the walk, field by field.
LEMMA StopFields ==
    ASSUME NEW w \in Work
    PROVE  /\ Stop(w) \in Work /\ Stop(w).at = Len(w.list) + 1
           /\ Stop(w).file = w.file /\ Stop(w).list = w.list /\ Stop(w).ld = w.ld
           /\ Stop(w).insrtp = w.insrtp /\ Stop(w).woke = w.woke /\ Stop(w).room = w.room
           /\ Stop(w).result = w.result
<1> DEFINE a == Len(w.list) + 1
<1>1. a \in Nat \ {0}
  BY Elements DEF Work
<1>2. Stop(w) = [w EXCEPT !.at = a]
  BY DEF Stop
<1> HIDE DEF a
<1> QED BY <1>1, <1>2 DEF Work, a

\* Skip().
LEMMA SkipFields ==
    ASSUME NEW w \in Work
    PROVE  /\ Skip(w) \in Work /\ Skip(w).at = w.at + 1
           /\ Skip(w).file = w.file /\ Skip(w).list = w.list /\ Skip(w).ld = w.ld
           /\ Skip(w).insrtp = w.insrtp /\ Skip(w).woke = w.woke /\ Skip(w).room = w.room
           /\ Skip(w).result = w.result
<1> DEFINE a == w.at + 1
<1>1. a \in Nat \ {0}
  BY DEF Work
<1>2. Skip(w) = [w EXCEPT !.at = a]
  BY DEF Skip
<1> HIDE DEF a
<1> QED BY <1>1, <1>2 DEF Work, a

\* End().
LEMMA EndFields ==
    ASSUME NEW w \in Work, NEW e \in {"ok", "ENOLCK"}
    PROVE  /\ End(w, e) \in Work /\ End(w, e).result = e
           /\ End(w, e).file = w.file /\ End(w, e).list = w.list /\ End(w, e).ld = w.ld
           /\ End(w, e).at = w.at /\ End(w, e).insrtp = w.insrtp /\ End(w, e).woke = w.woke
           /\ End(w, e).room = w.room
  BY DEF Work, End

\* A new insrtp.
LEMMA InsrtpFields ==
    ASSUME NEW w \in Work, NEW i \in Nat
    PROVE  /\ WithInsrtp(w, i) \in Work /\ WithInsrtp(w, i).insrtp = i
           /\ WithInsrtp(w, i).file = w.file /\ WithInsrtp(w, i).list = w.list
           /\ WithInsrtp(w, i).ld = w.ld /\ WithInsrtp(w, i).at = w.at
           /\ WithInsrtp(w, i).woke = w.woke /\ WithInsrtp(w, i).room = w.room
           /\ WithInsrtp(w, i).result = w.result
  BY DEF Work, WithInsrtp

\* Inserting, field by field.
LEMMA InsFields ==
    ASSUME NEW w \in Work, NEW ld, NEW n, NewRecord(ld) \in Record, n + 1 \in 1 .. Len(w.list) + 1
    PROVE  /\ insflck(w, ld, n) \in Work
           /\ insflck(w, ld, n).list = InsertAt(w.list, n + 1, NewRecord(ld))
           /\ insflck(w, ld, n).room = w.room - 1
           /\ insflck(w, ld, n).file = w.file /\ insflck(w, ld, n).ld = w.ld
           /\ insflck(w, ld, n).at = w.at /\ insflck(w, ld, n).insrtp = w.insrtp
           /\ insflck(w, ld, n).woke = w.woke /\ insflck(w, ld, n).result = w.result
<1> DEFINE a == InsertAt(w.list, n + 1, NewRecord(ld))
           b == w.room - 1
<1>1. w.list \in Seq(Record) /\ w.room \in Int
  BY DEF Work
<1>2. a \in Seq(Record)
  BY <1>1, InsertAtProperties
<1>3. b \in Int
  BY <1>1
<1>4. insflck(w, ld, n) = [w EXCEPT !.list = a, !.room = b]
  BY DEF insflck
<1> HIDE DEF a, b
<1> QED BY <1>2, <1>3, <1>4 DEF Work, a, b

\* The head of record r before lock ld, and its tail behind it.
Before(r, ld) ==
    [owner |-> r.owner, type |-> r.type, start |-> r.start, end |-> ld.start - 1, wakeflg |-> FALSE]
Behind(r, ld) ==
    [owner |-> r.owner, type |-> r.type, start |-> ld.end + 1, end |-> r.end, wakeflg |-> FALSE]

\* Cutting off the end of a record, field by field.
LEMMA ShortenFields ==
    ASSUME NEW w \in Work, w.at \in DOMAIN w.list, w.list[w.at].start < w.ld.start
    PROVE  /\ Shorten(w) \in Work /\ Before(w.list[w.at], w.ld) \in Record
           /\ Shorten(w).list = [w.list EXCEPT ![w.at] = Before(w.list[w.at], w.ld)]
           /\ Shorten(w).woke = w.woke \cup Woken(w) /\ Shorten(w).insrtp = w.at
           /\ Shorten(w).file = w.file /\ Shorten(w).ld = w.ld /\ Shorten(w).at = w.at
           /\ Shorten(w).room = w.room /\ Shorten(w).result = w.result
<1> DEFINE r == w.list[w.at]
           h == Before(r, w.ld)
           a == [w.list EXCEPT ![w.at] = h]
           b == w.woke \cup Woken(w)
<1>1. /\ w.list \in Seq(Record) /\ w.ld \in Lck /\ w.file \in File /\ w.woke \in SUBSET Names
      /\ w.at \in Nat
  BY DEF Work
<1>2. r \in Record
  BY <1>1, Elements
<1>3. h \in Record
  <2>1. w.ld.start - 1 \in Byte
    BY <1>1, <1>2, LckFields, RecordFields, FlockAssumption DEF Byte, FlockAssumption
  <2> HIDE DEF r
  <2> QED BY <1>2, <2>1 DEF Record, Before
<1> DEFINE e == w.ld.start - 1
<1>4. h = [r EXCEPT !.end = e, !.wakeflg = FALSE]
  <2>1. e \in Byte
    BY <1>1, <1>2, LckFields, RecordFields, FlockAssumption DEF Byte, FlockAssumption
  <2>2. h = [owner |-> r.owner, type |-> r.type, start |-> r.start, end |-> e, wakeflg |-> FALSE]
    BY DEF Before
  <2> HIDE DEF r, e, h
  <2> DEFINE c == [r EXCEPT !.end = e, !.wakeflg = FALSE]
  <2>3. /\ c \in Record /\ c.owner = h.owner /\ c.type = h.type /\ c.start = h.start
        /\ c.end = h.end /\ c.wakeflg = h.wakeflg
    BY <1>2, <2>1, <2>2 DEF Record
  <2> HIDE DEF c
  <2>4. c = h
    BY <1>3, <2>3 DEF Record
  <2> QED BY <2>4 DEF c
<1>5. a \in Seq(Record)
  BY <1>1, <1>3, ExceptSeq
<1>6. b \in SUBSET Names
  BY <1>1, <1>2 DEF Woken, Name, Names, Record
<1>7. Shorten(w) = [w EXCEPT !.list = a, !.woke = b, !.insrtp = w.at]
  <2> DEFINE i == w.at
             s == w.list
  <2>1. [[s EXCEPT ![i].end = e] EXCEPT ![i].wakeflg = FALSE] = [s EXCEPT ![i] = h]
    <3> HIDE DEF s, i, h, e
    <3>1. i \in DOMAIN s /\ s[i] = r
      BY DEF s, i
    <3> HIDE DEF r
    <3> QED BY <1>4, <3>1
  <2>2. Shorten(w) = [w EXCEPT !.list = [[@ EXCEPT ![i].end = e] EXCEPT ![i].wakeflg = FALSE],
                               !.woke = b, !.insrtp = w.at]
    BY DEF Shorten, Work
  <2> QED BY <2>1, <2>2
<1> HIDE DEF a, b, h
<1> QED BY <1>1, <1>3, <1>5, <1>6, <1>7 DEF Work, a, b, h

\* The tail of the record at w.at goes where its start belongs.
LEMMA KeepTailFields ==
    ASSUME NEW w \in Work, NEW r, Good(w.list), AtOwn(w), r = w.list[w.at],
           r.start <= w.ld.end, w.ld.end < r.end
    PROVE  /\ KeepTail(w) \in Work /\ KeepTail(w).file = w.file /\ KeepTail(w).ld = w.ld
           /\ KeepTail(w).at = w.at /\ KeepTail(w).insrtp = w.insrtp
           /\ KeepTail(w).woke = w.woke /\ KeepTail(w).result = w.result
           /\ KeepTail(w).room = w.room - 1
           /\ Behind(r, w.ld) \in Record /\ ~Holds(w.list, Behind(r, w.ld))
           /\ Len(KeepTail(w).list) = Len(w.list) + 1
           /\ Sorted(KeepTail(w).list) /\ Injective(KeepTail(w).list)
           /\ \A x : Holds(KeepTail(w).list, x) <=> Holds(w.list, x) \/ x = Behind(r, w.ld)
           /\ \A n \in 1 .. w.at : n \in DOMAIN w.list /\ KeepTail(w).list[n] = w.list[n]
           /\ \A n \in DOMAIN KeepTail(w).list : n > w.at =>
                \/ KeepTail(w).list[n] = Behind(r, w.ld)
                \/ \E m \in DOMAIN w.list : m > w.at /\ KeepTail(w).list[n] = w.list[m]
<1> DEFINE list == w.list
           at == w.at
           t == Behind(r, w.ld)
           later == {n \in at .. Len(list) : \A m \in at .. n : list[m].start < w.ld.end + 1}
           k == CHOOSE n \in later : \A m \in later : m <= n
<1>1. /\ list \in Seq(Record) /\ at \in Nat \ {0} /\ w.ld \in Lck /\ at \in DOMAIN list
      /\ Len(list) \in Nat /\ DOMAIN list = 1 .. Len(list)
      /\ \A n \in DOMAIN list : list[n] \in Record /\ Holds(list, list[n])
      /\ Sorted(list) /\ Injective(list) /\ Apart(list)
  BY Elements DEF Work, Good, AtOwn
<1>2. r \in Record /\ Holds(list, r) /\ r = list[at]
  BY <1>1
<1>3. t \in Record
  <2>1. w.ld.end + 1 \in Byte
    BY <1>1, <1>2, LckFields, RecordFields, FlockAssumption DEF Byte, FlockAssumption
  <2> QED BY <1>2, <2>1 DEF Record, Behind
<1>4. NewRecord(Rest(w)) = t
  <2> DEFINE c == w.ld.end + 1
  <2>1. Rest(w) = [r EXCEPT !.start = c]
    BY DEF Rest
  <2> HIDE DEF c
  <2>2. Rest(w).owner = r.owner /\ Rest(w).type = r.type /\ Rest(w).start = c /\ Rest(w).end = r.end
    BY <1>2, <2>1 DEF Record
  <2> QED BY <2>2 DEF NewRecord, Behind, c
<1>5. t.owner = r.owner /\ t.start = w.ld.end + 1 /\ t.end = r.end
  BY DEF Behind
<1>6. ~Holds(list, t)
  <2>1. t # r
    BY <1>1, <1>2, <1>5, LckFields, RecordFields
  <2>2. ~Off(t, r) /\ ~Off(r, t)
    BY <1>1, <1>2, <1>5, LckFields, RecordFields DEF Off
  <2> HIDE DEF t
  <2> QED BY <1>1, <1>2, <1>3, <1>5, <2>1, <2>2 DEF Apart
<1> HIDE DEF t, k
<1>7. at \in later
  BY <1>1, <1>2, LckFields, RecordFields
<1>8. k \in later /\ \A m \in later : m <= k
  <2>1. later \in SUBSET (0 .. Len(list)) /\ later # {}
    BY <1>1, <1>7
  <2> HIDE DEF later
  <2>2. \E n \in later : \A m \in later : m <= n
    BY <1>1, <2>1, Greatest
  <2> QED BY <2>2 DEF k
<1>9. k \in at .. Len(list) /\ list[k].start < w.ld.end + 1 /\ k + 1 \in 1 .. Len(list) + 1
  BY <1>1, <1>8
<1>10. k + 1 <= Len(list) => w.ld.end + 1 <= list[k + 1].start
  <2>1. w.ld.end \in Int /\ \A n \in DOMAIN list : list[n].start \in Int
    BY <1>1, RecordFields, LckFields
  <2>2. k + 1 <= Len(list) => k + 1 \in DOMAIN list
    BY <1>1, <1>9
  <2> SUFFICES ASSUME k + 1 <= Len(list), list[k + 1].start < w.ld.end + 1 PROVE FALSE
    BY <2>1, <2>2
  <2>3. k + 1 \in later
    BY <1>1, <1>8
  <2> HIDE DEF later
  <2> QED BY <1>8, <1>9, <2>3
<1>11. KeepTail(w) = insflck(w, Rest(w), k)
  BY DEF KeepTail, k
<1> DEFINE v == KeepTail(w)
<1>12. /\ v \in Work /\ v.file = w.file /\ v.ld = w.ld /\ v.at = w.at /\ v.insrtp = w.insrtp
       /\ v.woke = w.woke /\ v.result = w.result /\ v.room = w.room - 1
       /\ v.list = InsertAt(list, k + 1, t)
  BY <1>3, <1>4, <1>9, <1>11, InsFields
<1> HIDE DEF v, later
<1> DEFINE new == InsertAt(list, k + 1, t)
<1>13. Sorted(new)
  <2>1. k + 1 > 1 /\ k + 1 - 1 = k
    BY <1>1, <1>9
  <2>2. list[k].start <= t.start /\ (k + 1 <= Len(list) => t.start <= list[k + 1].start)
    <3>1. k \in DOMAIN list /\ w.ld.end \in Int
      BY <1>1, <1>9, LckFields
    <3>2. list[k].start \in Int
      BY <1>1, <3>1, RecordFields
    <3> QED BY <1>5, <1>9, <1>10, <3>1, <3>2
  <2> QED BY <1>1, <1>3, <1>9, <2>1, <2>2, SortedInsert
<1>14. /\ Injective(new) /\ \A x : Holds(new, x) <=> Holds(list, x) \/ x = t
       /\ Len(new) = Len(list) + 1 /\ new \in Seq(Record)
       /\ \A j \in 1 .. Len(list) + 1 :
            new[j] = IF j < k + 1 THEN list[j] ELSE IF j = k + 1 THEN t ELSE list[j - 1]
  <2>1. list \in Seq(Record) /\ k + 1 \in 1 .. Len(list) + 1 /\ t \in Record
    BY <1>1, <1>3, <1>9
  <2> HIDE DEF list
  <2>2. /\ Len(new) = Len(list) + 1 /\ new \in Seq(Record)
        /\ \A j \in 1 .. Len(list) + 1 :
            new[j] = IF j < k + 1 THEN list[j] ELSE IF j = k + 1 THEN t ELSE list[j - 1]
    BY <2>1, InsertAtProperties
  <2>3. /\ \A x : Holds(new, x) <=> Holds(list, x) \/ x = t
        /\ Injective(list) /\ ~Holds(list, t) => Injective(new)
    BY <2>1, InsertHolds
  <2> QED BY <1>1, <1>6, <2>2, <2>3
<1>15. DOMAIN new = 1 .. Len(list) + 1
  BY <1>14, Elements
<1> HIDE DEF new
<1>16. \A n \in 1 .. at : n \in DOMAIN list /\ new[n] = list[n]
  <2> HIDE DEF list, at
  <2> SUFFICES ASSUME NEW n \in 1 .. at PROVE n \in DOMAIN list /\ new[n] = list[n]
    OBVIOUS
  <2>1. n \in 1 .. Len(list) /\ n < k + 1 /\ n \in 1 .. Len(list) + 1
    BY <1>1, <1>9
  <2> QED BY <1>1, <1>14, <2>1
<1>17. ASSUME NEW n \in DOMAIN new, n > at
       PROVE  new[n] = t \/ \E m \in DOMAIN list : m > at /\ new[n] = list[m]
  <2>1. CASE n < k + 1
    BY <1>1, <1>9, <1>14, <1>15, <1>17, <2>1
  <2>2. CASE n = k + 1
    BY <1>14, <1>15, <2>2
  <2>3. CASE n > k + 1
    <3>1. n - 1 \in DOMAIN list /\ n - 1 > at /\ new[n] = list[n - 1]
      BY <1>1, <1>9, <1>14, <1>15, <2>3
    <3> QED BY <3>1
  <2> QED BY <1>9, <1>15, <2>1, <2>2, <2>3
<1>18. v.list = new
  BY <1>12 DEF new
<1> HIDE DEF list, at
<1>19. list = w.list /\ at = w.at
  BY DEF list, at
<1> QED BY <1>3, <1>6, <1>12, <1>13, <1>14, <1>16, <1>17, <1>18, <1>19 DEF v, t

\* The lock grows to the end e, or to the start e.
LEMMA LdEndFields ==
    ASSUME NEW w \in Work, NEW e \in Byte, NEW v, v = WithEnd(w, e)
    PROVE  /\ v \in Work /\ v.file = w.file /\ v.list = w.list /\ v.at = w.at
           /\ v.insrtp = w.insrtp /\ v.woke = w.woke /\ v.room = w.room /\ v.result = w.result
           /\ v.ld.owner = w.ld.owner /\ v.ld.type = w.ld.type
           /\ v.ld.end = e /\ v.ld.start = w.ld.start
<1> DEFINE a == [w.ld EXCEPT !.end = e]
<1>1. w.ld \in Lck
  BY DEF Work
<1>2. a \in Lck /\ a.owner = w.ld.owner /\ a.type = w.ld.type /\ a.end = e /\ a.start = w.ld.start
  BY <1>1 DEF Lck
<1>3. v = [w EXCEPT !.ld = a]
  BY DEF WithEnd
<1> HIDE DEF a
<1> QED BY <1>2, <1>3 DEF Work

\* And the start.
LEMMA LdStartFields ==
    ASSUME NEW w \in Work, NEW e \in Byte, NEW v, v = WithStart(w, e)
    PROVE  /\ v \in Work /\ v.file = w.file /\ v.list = w.list /\ v.at = w.at
           /\ v.insrtp = w.insrtp /\ v.woke = w.woke /\ v.room = w.room /\ v.result = w.result
           /\ v.ld.owner = w.ld.owner /\ v.ld.type = w.ld.type
           /\ v.ld.start = e /\ v.ld.end = w.ld.end
<1> DEFINE a == [w.ld EXCEPT !.start = e]
<1>1. w.ld \in Lck
  BY DEF Work
<1>2. a \in Lck /\ a.owner = w.ld.owner /\ a.type = w.ld.type /\ a.start = e /\ a.end = w.ld.end
  BY <1>1 DEF Lck
<1>3. v = [w EXCEPT !.ld = a]
  BY DEF WithStart
<1> HIDE DEF a
<1> QED BY <1>2, <1>3 DEF Work

\* A walk that changes no lock.
LEMMA StayContent ==
    ASSUME NEW w, NEW v, NEW L, NEW ld, NEW room, Content(w, L, ld, room),
           v \in Work, v.file = w.file, v.list = w.list, v.ld = w.ld, v.woke = w.woke,
           v.room = w.room, v.at >= w.at
    PROVE  Content(v, L, ld, room)
<1>1. /\ w \in Work /\ Good(w.list) /\ Grown(w, L, ld) /\ Others(w, L) /\ Bytes(w, L)
      /\ Wakes(w, L) /\ Room(w, L, room)
  BY DEF Content
<1>2. v.at \in Nat /\ w.at \in Nat /\ w.list \in Seq(Record)
  BY <1>1 DEF Work
<1>3. \A n \in DOMAIN w.list : v.at <= n => w.at <= n
  BY <1>2, Elements
<1>4. Bytes(v, L)
  BY <1>1, <1>3 DEF Bytes, Lost, Own
<1>5. Grown(v, L, ld) /\ Others(v, L) /\ Wakes(v, L) /\ Room(v, L, room)
  BY <1>1 DEF Grown, Others, Wakes, Room
<1> QED BY <1>1, <1>4, <1>5 DEF Content

\* What a walk at a record r of the caller knows.
LEMMA AtFacts ==
    ASSUME NEW w, NEW L, NEW ld \in Lck, NEW room, NEW r, WalkInv(w, L, ld, room), AtOwn(w),
           r = w.list[w.at]
    PROVE  /\ w \in Work /\ Good(w.list) /\ Content(w, L, ld, room) /\ Passed(w) /\ Point(w)
           /\ w.list \in Seq(Record) /\ Len(w.list) \in Nat /\ DOMAIN w.list = 1 .. Len(w.list)
           /\ w.at \in 1 .. Len(w.list) /\ w.at \in Nat \ {0} /\ w.at \in DOMAIN w.list
           /\ w.ld \in Lck /\ w.room \in Int /\ w.room >= 0 /\ w.insrtp \in Nat
           /\ w.ld.start \in Int /\ w.ld.end \in Int /\ w.ld.start \in Byte /\ w.ld.end \in Byte
           /\ w.ld.start <= w.ld.end /\ w.result = "go"
           /\ r \in Record /\ Holds(w.list, r) /\ r.owner = w.ld.owner
           /\ r.start \in Int /\ r.end \in Int /\ r.start \in Byte /\ r.end \in Byte
           /\ r.start <= r.end /\ r.type \in Type
<1>1. w \in Work /\ Good(w.list) /\ Content(w, L, ld, room) /\ Passed(w) /\ Point(w)
  BY DEF WalkInv, Content
<1>2. /\ w.list \in Seq(Record) /\ w.ld \in Lck /\ w.room \in Int /\ w.insrtp \in Nat
      /\ w.at \in Nat \ {0} /\ w.at \in DOMAIN w.list /\ w.result = "go"
      /\ Own(w, w.at)
  BY <1>1 DEF Work, AtOwn
<1>3. /\ Len(w.list) \in Nat /\ DOMAIN w.list = 1 .. Len(w.list) /\ w.at \in 1 .. Len(w.list)
      /\ r \in Record /\ Holds(w.list, r)
  BY <1>2, Elements
<1>4. r.owner = w.ld.owner
  BY <1>2 DEF Own
<1>5. w.room >= 0
  BY <1>1 DEF Content, Room
<1>6. /\ w.ld.start \in Int /\ w.ld.end \in Int /\ w.ld.start \in Byte /\ w.ld.end \in Byte
  BY <1>2, LckFields
<1>7. w.ld.start <= w.ld.end
  BY <1>1, <1>6, LckFields DEF Content, Grown
<1>8. r.start <= r.end
  BY <1>1, <1>3 DEF Good, Proper
<1>9. r.start \in Int /\ r.end \in Int /\ r.start \in Byte /\ r.end \in Byte /\ r.type \in Type
  BY <1>3, RecordFields DEF Record
<1> QED BY <1>1, <1>2, <1>3, <1>4, <1>5, <1>6, <1>7, <1>8, <1>9

\* One turn of the walk from w leads to v: it is over or nearer to the end.
Nearer(w, v) ==
    v.result # "go" \/ v.at > Len(v.list) \/ Len(v.list) - v.at < Len(w.list) - w.at
Moves(w, v, L, ld, room) == WalkInv(v, L, ld, room) /\ Nearer(w, v) /\ v.file = w.file

\* With "go" it has not ended.
LEMMA GoEnded == ASSUME NEW w, NEW L, w.result = "go" PROVE Ended(w, L)
  BY DEF Ended

\* The same list, with r in it.
LEMMA SamePlaced ==
    ASSUME NEW w \in Work, NEW v, v.list = w.list
    PROVE  Placed(w, v, {w.list[w.at]})
<1>1. w.at \in Nat /\ DOMAIN w.list = 1 .. Len(w.list) /\ Len(w.list) \in Nat
  BY Elements DEF Work
<1>2. ASSUME NEW n \in DOMAIN w.list PROVE n < w.at \/ n = w.at \/ n > w.at
  BY <1>1
<1> QED BY <1>1, <1>2 DEF Placed

\* The walk goes on behind the record at w.at.
LEMMA SkipPassed ==
    ASSUME NEW w \in Work, NEW v, Passed(w), w.at \in DOMAIN w.list,
           DOMAIN v.list = DOMAIN w.list, v.at = w.at + 1,
           \A n \in 1 .. w.at - 1 : v.list[n] = w.list[n],
           v.ld = w.ld, Own(v, w.at) => Off(v.list[w.at], v.ld)
    PROVE  Passed(v)
<1>1. w.at \in Nat \ {0} /\ DOMAIN w.list = 1 .. Len(w.list) /\ Len(w.list) \in Nat
  BY Elements DEF Work
<1>2. \A n \in 1 .. w.at - 1 : n \in DOMAIN w.list /\ (Own(w, n) => Off(w.list[n], w.ld))
  BY <1>1 DEF Passed
<1>3. ASSUME NEW n \in 1 .. v.at - 1
      PROVE  n \in DOMAIN v.list /\ (Own(v, n) => Off(v.list[n], v.ld))
  <2>1. CASE n = w.at
    BY <1>3, <2>1
  <2>2. CASE n # w.at
    <3>1. n \in 1 .. w.at - 1
      BY <1>1, <2>2
    <3> QED BY <1>2, <3>1 DEF Own
  <2> QED BY <2>1, <2>2
<1> QED BY <1>3 DEF Passed

-----------------------------------------------------------------------------
(* A turn of the walk, case by case.                                       *)

\* flckadj(), one record at a time.  The lock ends before the record.
LEMMA EndsBefore ==
    ASSUME NEW w, NEW L, NEW ld \in Lck, NEW room, NEW r, WalkInv(w, L, ld, room), AtOwn(w),
           r = w.list[w.at], w.ld.end < r.start, w.ld.type = r.type => w.ld.end + 1 < r.start
    PROVE  Moves(w, Stop(w), L, ld, room)
<1> DEFINE v == Stop(w)
<1>1. /\ v \in Work /\ v.file = w.file /\ v.list = w.list /\ v.ld = w.ld /\ v.woke = w.woke
      /\ v.room = w.room /\ v.insrtp = w.insrtp /\ v.result = w.result
      /\ v.at = Len(w.list) + 1
  BY AtFacts, StopFields
<1> HIDE DEF v
<1>2. v.at >= w.at /\ v.at > Len(v.list)
  BY <1>1, AtFacts
<1>3. Content(v, L, ld, room)
  BY <1>1, <1>2, AtFacts, StayContent
<1>4. Placed(w, v, {r})
  BY <1>1, AtFacts, SamePlaced
<1>5. \A x \in Record : Off(r, x) => Off(w.ld, x)
  BY AtFacts, RecordFields DEF Off
<1>6. Off(w.ld, r)
  BY AtFacts DEF Off
<1>7. Passed(v)
  BY <1>1, <1>2, <1>4, <1>5, <1>6, AtFacts, StopPassed
<1>8. Point(v)
  <2>1. w.ld.start < r.start /\ r.start <= r.start /\ Len(v.list) >= Len(w.list) - 1
        /\ {r} \in SUBSET Record
    <3>1. /\ r \in Record /\ r.start \in Int /\ w.ld.start \in Int /\ w.ld.end \in Int
          /\ w.ld.start <= w.ld.end /\ Len(w.list) \in Nat
      BY AtFacts
    <3> QED BY <1>1, <3>1
  <2> QED BY <1>1, <1>2, <1>4, <2>1, AtFacts, PointKept
<1>9. Ended(v, L)
  BY <1>1, AtFacts, GoEnded
<1>10. Nearer(w, v)
  BY <1>2 DEF Nearer
<1> QED BY <1>1, <1>3, <1>7, <1>8, <1>9, <1>10 DEF Moves, WalkInv, v

\* The record has all of the lock.
LEMMA InPlace ==
    ASSUME NEW w, NEW L, NEW ld \in Lck, NEW room, NEW r, WalkInv(w, L, ld, room), AtOwn(w),
           r = w.list[w.at], w.ld.type = r.type, r.start <= w.ld.start, w.ld.end <= r.end
    PROVE  Moves(w, End(w, "ok"), L, ld, room)
<1> DEFINE v == End(w, "ok")
<1>1. /\ v \in Work /\ v.file = w.file /\ v.list = w.list /\ v.ld = w.ld /\ v.woke = w.woke
      /\ v.room = w.room /\ v.insrtp = w.insrtp /\ v.result = "ok" /\ v.at = w.at
  BY AtFacts, EndFields
<1> HIDE DEF v
<1>2. Content(v, L, ld, room)
  BY <1>1, AtFacts, StayContent
<1>3. Passed(v) /\ Point(v)
  BY <1>1, AtFacts DEF Passed, Point, Own
<1>4. \A b \in Byte : Within(b, w.ld) => Covers(r, w.ld.owner, b, w.ld.type)
  BY AtFacts, FlockAssumption DEF Within, Covers, Byte, FlockAssumption
<1>5. Ended(v, L)
  BY <1>1, <1>4, AtFacts DEF Ended, Has
<1>6. Nearer(w, v)
  BY <1>1 DEF Nearer
<1> QED BY <1>1, <1>2, <1>3, <1>5, <1>6 DEF Moves, WalkInv, v

\* There is no record to split it with.
LEMMA NoRoom ==
    ASSUME NEW w, NEW L, NEW ld \in Lck, NEW room, NEW r, WalkInv(w, L, ld, room), AtOwn(w),
           r = w.list[w.at], r.start <= w.ld.end
    PROVE  Moves(w, End(w, "ENOLCK"), L, ld, room)
<1> DEFINE v == End(w, "ENOLCK")
<1>1. /\ v \in Work /\ v.file = w.file /\ v.list = w.list /\ v.ld = w.ld /\ v.woke = w.woke
      /\ v.room = w.room /\ v.insrtp = w.insrtp /\ v.result = "ENOLCK" /\ v.at = w.at
  BY AtFacts, EndFields
<1> HIDE DEF v
<1>2. Content(v, L, ld, room)
  BY <1>1, AtFacts, StayContent
<1>3. Passed(v) /\ Point(v)
  BY <1>1, AtFacts DEF Passed, Point, Own
<1> DEFINE p == w.ld.owner
           i == w.ld.start
           j == IF i < r.start THEN r.start - 1 ELSE i - 1
<1>4. j \in i - 1 .. w.ld.end
  <2>1. i \in Int /\ r.start \in Int /\ w.ld.end \in Int /\ i <= w.ld.end
    BY AtFacts
  <2> HIDE DEF i
  <2> QED BY <2>1
<1>5. ASSUME NEW b \in Byte, NEW t \in Type
      PROVE  Has(w.list, p, b, t) <=> Has(L, p, b, t) /\ ~(i <= b /\ b <= j)
  <2>0. b \in Int
    BY FlockAssumption DEF Byte, FlockAssumption
  <2>1. ASSUME Has(w.list, p, b, t) PROVE Has(L, p, b, t)
    BY <1>5, <2>1, AtFacts DEF Content, Bytes
  <2>2. ASSUME Has(w.list, p, b, t), i <= b, b <= j PROVE FALSE
    <3>1. i < r.start /\ b < r.start
      BY <2>0, <2>2, AtFacts
    <3>2. PICK x \in Record : Holds(w.list, x) /\ Covers(x, p, b, t)
      BY <2>2 DEF Has
    <3>3. PICK n \in DOMAIN w.list : w.list[n] = x
      BY <3>2 DEF Holds
    <3>4. Own(w, n)
      BY <3>2, <3>3 DEF Own, Covers
    <3>5. CASE n < w.at
      <4>1. n \in 1 .. w.at - 1
        BY <3>5, AtFacts
      <4>2. Off(x, w.ld)
        BY <3>3, <3>4, <4>1, AtFacts, Sides
      <4> QED BY <2>0, <2>2, <3>2, <4>2, AtFacts, RecordFields DEF Off, Covers
    <3>6. CASE n >= w.at
      <4>1. r.start <= x.start
        BY <3>3, <3>6, AtFacts, Sides
      <4> QED BY <2>0, <3>1, <3>2, <4>1, AtFacts, RecordFields DEF Covers
    <3>7. n < w.at \/ n >= w.at
      BY AtFacts
    <3> QED BY <3>5, <3>6, <3>7
  <2>3. ASSUME Has(L, p, b, t), ~Has(w.list, p, b, t) PROVE i <= b /\ b <= j
    <3>1. Within(b, w.ld) /\ \A n \in DOMAIN w.list : w.at <= n /\ Own(w, n) => b < w.list[n].start
      BY <1>5, <2>3, AtFacts DEF Content, Bytes, Lost
    <3>2. b < r.start
      BY <3>1, AtFacts DEF AtOwn
    <3> QED BY <2>0, <3>1, <3>2, AtFacts DEF Within
  <2> QED BY <2>1, <2>2, <2>3
<1> HIDE DEF p, i, j
<1>6. Failed(w.list, L, w.ld)
  BY <1>4, <1>5 DEF Failed, p, i
<1>7. Ended(v, L)
  BY <1>1, <1>6 DEF Ended
<1>8. Nearer(w, v)
  BY <1>1 DEF Nearer
<1> QED BY <1>1, <1>2, <1>3, <1>7, <1>8 DEF Moves, WalkInv, v

\* The lock takes over a record of its type that ends behind it.
LEMMA GrowsEnd ==
    ASSUME NEW w, NEW L, NEW ld \in Lck, NEW room, NEW r, WalkInv(w, L, ld, room), AtOwn(w),
           r = w.list[w.at], w.ld.type = r.type, w.ld.start < r.start, r.start <= w.ld.end + 1,
           w.ld.end <= r.end,
           NEW v, \/ v = Stop(WithEnd(delflck(w), r.end))
                  \/ v = Stop(delflck(w)) /\ w.ld.end = r.end
    PROVE  Moves(w, v, L, ld, room)
<1>2. /\ v \in Work /\ v.file = w.file /\ v.list = RemoveAt(w.list, w.at)
      /\ v.ld.owner = w.ld.owner /\ v.ld.type = w.ld.type /\ v.ld.start = w.ld.start
      /\ v.ld.end = r.end
      /\ v.woke = w.woke \cup Woken(w) /\ v.room = w.room + 1 /\ v.insrtp = w.insrtp
      /\ v.result = w.result /\ v.at = Len(v.list) + 1
  <2>1. /\ delflck(w) \in Work /\ delflck(w).file = w.file /\ delflck(w).at = w.at
        /\ delflck(w).ld = w.ld /\ delflck(w).insrtp = w.insrtp /\ delflck(w).result = w.result
        /\ delflck(w).list = RemoveAt(w.list, w.at) /\ delflck(w).room = w.room + 1
        /\ delflck(w).woke = w.woke \cup Woken(w)
    BY AtFacts, DelFields
  <2>2. CASE v = Stop(delflck(w)) /\ w.ld.end = r.end
    BY <2>1, <2>2, StopFields
  <2>3. CASE v = Stop(WithEnd(delflck(w), r.end))
    <3> DEFINE u == delflck(w)
               g == WithEnd(u, r.end)
    <3> HIDE DEF u
    <3>1. /\ g \in Work /\ g.file = u.file /\ g.list = u.list /\ g.insrtp = u.insrtp
          /\ g.woke = u.woke /\ g.room = u.room /\ g.result = u.result
          /\ g.ld.owner = u.ld.owner /\ g.ld.type = u.ld.type
          /\ g.ld.end = r.end /\ g.ld.start = u.ld.start
      <4>1. u \in Work /\ r.end \in Byte
        BY <2>1, AtFacts DEF u
      <4> QED BY <4>1, LdEndFields
    <3> HIDE DEF g
    <3>2. /\ v \in Work /\ v.at = Len(g.list) + 1
          /\ v.file = g.file /\ v.list = g.list /\ v.ld = g.ld
          /\ v.insrtp = g.insrtp /\ v.woke = g.woke /\ v.room = g.room /\ v.result = g.result
      BY <2>3, <3>1, StopFields DEF g, u
    <3> QED BY <2>1, <3>1, <3>2 DEF u
  <2> QED BY <2>2, <2>3
<1>3. \A b \in Byte : Within(b, v.ld) =>
            Within(b, w.ld) \/ (r.type = w.ld.type /\ r.start <= b /\ b <= r.end)
  BY <1>2, AtFacts, FlockAssumption DEF Within, Byte, FlockAssumption
<1>4. v.at >= w.at
  <2>1. Len(v.list) = Len(w.list) - 1
    BY <1>2, AtFacts, RemoveAtProperties
  <2> QED BY <1>2, <2>1, AtFacts
<1>5. /\ Content(v, L, ld, room) /\ Placed(w, v, {}) /\ Len(v.list) = Len(w.list) - 1
  <2>1. /\ v.ld.start <= w.ld.start /\ w.ld.end <= v.ld.end
        /\ v.ld.start <= r.start /\ r.end <= v.ld.end
    BY <1>2, AtFacts
  <2>2. Content(w, L, ld, room)
    BY AtFacts
  <2> QED BY <1>2, <1>3, <1>4, <2>1, <2>2, Deleted
<1>6. Passed(v)
  <2>1. \A x \in Record : Off(r, x) => Off(v.ld, x)
    BY <1>2 DEF Off
  <2>2. v.at > Len(v.list)
    BY <1>2, <1>5, AtFacts
  <2> QED BY <1>2, <1>5, <2>1, <2>2, AtFacts, StopPassed
<1>7. Point(v)
  <2>1. Len(v.list) >= Len(w.list) - 1 /\ {} \in SUBSET Record /\ \A x \in {} : r.start <= x.start
    BY <1>5, AtFacts
  <2>2. w \in Work /\ r \in Record /\ Good(w.list) /\ w.at \in DOMAIN w.list /\ Point(w)
    BY AtFacts
  <2> QED BY <1>2, <1>4, <1>5, <2>1, <2>2, PointKept
<1>8. Ended(v, L)
  BY <1>2, AtFacts, GoEnded
<1>9. Nearer(w, v)
  BY <1>2, <1>5, AtFacts DEF Nearer
<1> QED BY <1>2, <1>5, <1>6, <1>7, <1>8, <1>9 DEF Moves, WalkInv

\* The record is deleted, and the walk goes on.
LEMMA Deletes ==
    ASSUME NEW w, NEW L, NEW ld \in Lck, NEW room, NEW r, WalkInv(w, L, ld, room), AtOwn(w),
           r = w.list[w.at], NEW v,
           \/ /\ w.ld.start = r.start /\ r.end <= w.ld.end
              /\ v = WithInsrtp(delflck(w), w.at - 1)
           \/ /\ w.ld.start < r.start /\ r.end <= w.ld.end
              /\ v = delflck(w)
           \/ /\ w.ld.type = r.type /\ r.start < w.ld.start /\ w.ld.start <= r.end + 1
              /\ r.end < w.ld.end
              /\ v = WithInsrtp(WithStart(delflck(w), r.start), w.at - 1)
    PROVE  Moves(w, v, L, ld, room)
<1>1. /\ delflck(w) \in Work /\ delflck(w).file = w.file /\ delflck(w).at = w.at
      /\ delflck(w).ld = w.ld /\ delflck(w).insrtp = w.insrtp /\ delflck(w).result = w.result
      /\ delflck(w).list = RemoveAt(w.list, w.at) /\ delflck(w).room = w.room + 1
      /\ delflck(w).woke = w.woke \cup Woken(w)
  BY AtFacts, DelFields
<1>2. w.at - 1 \in Nat /\ r.start \in Byte
  BY AtFacts
<1>3. /\ v \in Work /\ v.file = w.file /\ v.list = RemoveAt(w.list, w.at) /\ v.at = w.at
      /\ v.woke = w.woke \cup Woken(w) /\ v.room = w.room + 1 /\ v.result = w.result
      /\ v.ld.owner = w.ld.owner /\ v.ld.type = w.ld.type /\ v.ld.end = w.ld.end
      /\ \/ /\ w.ld.start = r.start /\ v.ld.start = r.start /\ v.insrtp = w.at - 1
         \/ /\ w.ld.start < r.start /\ v.ld.start = w.ld.start /\ v.insrtp = w.insrtp
         \/ /\ w.ld.type = r.type /\ r.start < w.ld.start /\ w.ld.start <= r.end + 1
            /\ v.ld.start = r.start /\ v.insrtp = w.at - 1
      /\ r.end <= w.ld.end
  <2>1. CASE /\ w.ld.start = r.start /\ r.end <= w.ld.end
             /\ v = WithInsrtp(delflck(w), w.at - 1)
    BY <1>1, <1>2, <2>1, InsrtpFields
  <2>2. CASE /\ w.ld.start < r.start /\ r.end <= w.ld.end /\ v = delflck(w)
    BY <1>1, <2>2
  <2>3. CASE /\ w.ld.type = r.type /\ r.start < w.ld.start /\ w.ld.start <= r.end + 1
             /\ r.end < w.ld.end
             /\ v = WithInsrtp(WithStart(delflck(w), r.start), w.at - 1)
    <3> DEFINE u == WithStart(delflck(w), r.start)
    <3>1. /\ u \in Work /\ u.file = w.file /\ u.list = RemoveAt(w.list, w.at) /\ u.at = w.at
          /\ u.woke = w.woke \cup Woken(w) /\ u.room = w.room + 1 /\ u.result = w.result
          /\ u.ld.owner = w.ld.owner /\ u.ld.type = w.ld.type /\ u.ld.end = w.ld.end
          /\ u.ld.start = r.start
      BY <1>1, <1>2, LdStartFields
    <3> HIDE DEF u
    <3>2. v = WithInsrtp(u, w.at - 1)
      BY <2>3 DEF u
    <3>3. r.end <= w.ld.end
      BY <2>3, AtFacts
    <3> QED BY <1>2, <2>3, <3>1, <3>2, <3>3, InsrtpFields
  <2> QED BY <2>1, <2>2, <2>3
<1>4. /\ w \in Work /\ Content(w, L, ld, room) /\ v.at >= w.at /\ r \in Record
      /\ Good(w.list) /\ w.at \in DOMAIN w.list /\ Point(w) /\ Passed(w)
      /\ w.ld.end <= v.ld.end /\ r.end <= v.ld.end
      /\ v.ld.start <= w.ld.start /\ v.ld.start <= r.start
  BY <1>3, AtFacts
<1>5. \A b \in Byte : Within(b, v.ld) =>
            Within(b, w.ld) \/ (r.type = w.ld.type /\ r.start <= b /\ b <= r.end)
  <2>1. /\ w.ld.start \in Int /\ w.ld.end \in Int /\ r.start \in Int /\ r.end \in Int
    BY AtFacts
  <2>2. \A b \in Byte : b \in Int
    BY FlockAssumption DEF Byte, FlockAssumption
  <2>3. /\ v.ld.end = w.ld.end
        /\ \/ v.ld.start = w.ld.start
           \/ r.type = w.ld.type /\ v.ld.start = r.start /\ w.ld.start <= r.end + 1
    BY <1>3
  <2> QED BY <2>1, <2>2, <2>3 DEF Within
<1>6. /\ Content(v, L, ld, room) /\ Placed(w, v, {}) /\ Len(v.list) = Len(w.list) - 1
  BY <1>3, <1>4, <1>5, Deleted
<1>7. Passed(v)
  <2>1. v.list \in Seq(Record)
    BY <1>3 DEF Work
  <2>2. w.at - 1 \in 0 .. Len(v.list)
    BY <1>6, AtFacts
  <2> QED BY <1>3, <1>4, <1>6, <2>1, <2>2, GoPassed
<1>8. Point(v)
  <2>1. Len(v.list) >= Len(w.list) - 1 /\ {} \in SUBSET Record /\ \A x \in {} : r.start <= x.start
    BY <1>6, AtFacts
  <2>2. CASE w.ld.start < r.start /\ v.ld.start = w.ld.start /\ v.insrtp = w.insrtp
    BY <1>3, <1>4, <1>6, <2>1, <2>2, PointKept
  <2>3. CASE v.ld.start = r.start /\ v.insrtp = w.at - 1
    BY <1>3, <1>4, <1>6, <2>1, <2>3, PointBefore
  <2> QED BY <1>3, <2>2, <2>3
<1>9. Ended(v, L)
  BY <1>3, AtFacts, GoEnded
<1>10. Nearer(w, v)
  BY <1>3, <1>6, AtFacts DEF Nearer
<1> QED BY <1>3, <1>6, <1>7, <1>8, <1>9, <1>10 DEF Moves, WalkInv

\* The record is not the caller's, or is one that the lock comes right behind, or
\* ends well before the lock.
LEMMA Skips ==
    ASSUME NEW w, NEW L, NEW ld \in Lck, NEW room, NEW r, WalkInv(w, L, ld, room),
           w.result = "go", w.at \in DOMAIN w.list, r = w.list[w.at], NEW v,
           \/ ~Own(w, w.at) /\ v = Skip(w)
           \/ AtOwn(w) /\ w.ld.type # r.type /\ r.end + 1 = w.ld.start /\ v = Skip(w)
           \/ AtOwn(w) /\ r.end + 1 < w.ld.start /\ v = Skip(WithInsrtp(w, w.at))
    PROVE  Moves(w, v, L, ld, room)
<1>1. w \in Work /\ Content(w, L, ld, room) /\ Passed(w) /\ Point(w)
  BY DEF WalkInv, Content
<1>2. w.at \in Nat /\ w.insrtp \in Nat
  BY <1>1 DEF Work
<1>3. /\ v \in Work /\ v.file = w.file /\ v.list = w.list /\ v.ld = w.ld /\ v.woke = w.woke
      /\ v.room = w.room /\ v.at = w.at + 1 /\ v.result = w.result
      /\ \/ v.insrtp = w.insrtp
         \/ v.insrtp = w.at /\ AtOwn(w) /\ r.end + 1 < w.ld.start
  <2>1. CASE v = Skip(w)
    BY <1>1, <2>1, SkipFields
  <2>2. CASE AtOwn(w) /\ r.end + 1 < w.ld.start /\ v = Skip(WithInsrtp(w, w.at))
    <3> DEFINE u == WithInsrtp(w, w.at)
    <3>1. /\ u \in Work /\ u.file = w.file /\ u.list = w.list /\ u.ld = w.ld /\ u.woke = w.woke
          /\ u.room = w.room /\ u.at = w.at /\ u.result = w.result /\ u.insrtp = w.at
      BY <1>1, <1>2, InsrtpFields
    <3> HIDE DEF u
    <3>2. v = Skip(u)
      BY <2>2 DEF u
    <3> QED BY <2>2, <3>1, <3>2, SkipFields
  <2> QED BY <2>1, <2>2
<1>4. v.at >= w.at /\ v.at > w.at
  BY <1>2, <1>3
<1>5. Content(v, L, ld, room)
  BY <1>1, <1>3, <1>4, StayContent
<1>6. Passed(v)
  <2>1. ASSUME Own(v, w.at) PROVE Off(v.list[w.at], v.ld)
    <3>1. AtOwn(w) /\ (r.end + 1 < w.ld.start \/ (w.ld.type # r.type /\ r.end + 1 = w.ld.start))
      BY <1>3, <2>1 DEF Own
    <3> QED BY <1>3, <3>1, AtFacts DEF Off
  <2> QED BY <1>1, <1>3, <2>1, SkipPassed
<1>7. Point(v)
  <2>1. CASE v.insrtp = w.insrtp
    <3>1. w.insrtp < w.at \/ w.insrtp = w.at => v.insrtp < v.at
      BY <1>2, <1>3, <2>1
    <3> QED BY <1>1, <1>3, <2>1, <3>1 DEF Point
  <2>2. CASE v.insrtp = w.at /\ AtOwn(w) /\ r.end + 1 < w.ld.start
    <3>1. r.start < w.ld.start /\ Len(v.list) >= Len(w.list) /\ r \in Record /\ Good(w.list)
          /\ {r} \in SUBSET Record
      BY <1>3, <2>2, AtFacts
    <3>2. Placed(w, v, {r})
      BY <1>1, <1>3, SamePlaced
    <3> QED BY <1>1, <1>3, <1>4, <2>2, <3>1, <3>2, PointAt
  <2> QED BY <1>3, <2>1, <2>2
<1>8. Ended(v, L)
  BY <1>3, GoEnded
<1>9. Nearer(w, v)
  <2>1. Len(w.list) \in Int /\ w.at \in Int
    BY <1>1, Elements DEF Work
  <2> QED BY <1>3, <2>1 DEF Nearer
<1> QED BY <1>3, <1>5, <1>6, <1>7, <1>8, <1>9 DEF Moves, WalkInv

\* The lock cuts off the end of the record.
LEMMA CutsEnd ==
    ASSUME NEW w, NEW L, NEW ld \in Lck, NEW room, NEW r, WalkInv(w, L, ld, room), AtOwn(w),
           r = w.list[w.at], w.ld.type # r.type, r.start < w.ld.start, w.ld.start <= r.end,
           r.end <= w.ld.end
    PROVE  Moves(w, Skip(Shorten(w)), L, ld, room)
<1> DEFINE v == Skip(Shorten(w))
           h == Before(r, w.ld)
<1>1. /\ v \in Work /\ v.file = w.file /\ v.ld = w.ld /\ v.room = w.room /\ v.result = w.result
      /\ v.list = [w.list EXCEPT ![w.at] = h] /\ v.at = w.at + 1 /\ v.insrtp = w.at
      /\ v.woke = w.woke \cup Woken(w) /\ h \in Record
  BY AtFacts, ShortenFields, SkipFields
<1>2. h.owner = r.owner /\ h.type = r.type /\ h.start = r.start /\ h.end = w.ld.start - 1
  BY DEF Before
<1> HIDE DEF v, h
<1>3. /\ w \in Work /\ Good(w.list) /\ Content(w, L, ld, room) /\ Passed(w) /\ Point(w)
      /\ w.list \in Seq(Record) /\ Len(w.list) \in Nat /\ DOMAIN w.list = 1 .. Len(w.list)
      /\ w.at \in Nat \ {0} /\ w.at \in DOMAIN w.list /\ w.room \in Int /\ w.room >= 0
      /\ r \in Record /\ Holds(w.list, r) /\ r.owner = w.ld.owner /\ w.ld \in Lck
      /\ r.start \in Int /\ r.end \in Int /\ w.ld.start \in Int /\ w.ld.end \in Int
  BY AtFacts
<1>4. Len(v.list) = Len(w.list) /\ DOMAIN v.list = DOMAIN w.list
      /\ \A n \in DOMAIN w.list : v.list[n] = IF n = w.at THEN h ELSE w.list[n]
  BY <1>1, <1>3
<1>5. ~Holds(w.list, h) /\ h # r
  <2>1. h # r
    BY <1>2, AtFacts
  <2>2. ~Off(h, r) /\ ~Off(r, h)
    BY <1>2, AtFacts DEF Off
  <2> QED BY <1>1, <1>2, <1>3, <2>1, <2>2 DEF Good, Apart
<1>6. /\ Injective(v.list) /\ Sorted(v.list)
      /\ \A x : Holds(v.list, x) <=> (Holds(w.list, x) /\ x # r) \/ x = h
  <2> DEFINE a == w.list
             i == w.at
  <2>1. /\ a \in Seq(Record) /\ i \in DOMAIN a /\ Injective(a) /\ Sorted(a) /\ ~Holds(a, h)
        /\ h.start = a[i].start /\ a[i] = r /\ v.list = [a EXCEPT ![i] = h]
    BY <1>1, <1>2, <1>3, <1>5 DEF Good
  <2> HIDE DEF a, i
  <2>2. /\ \A x : Holds(v.list, x) <=> (Holds(a, x) /\ x # r) \/ x = h
        /\ Injective(v.list)
    BY <1>1, <2>1, ReplaceHolds
  <2>3. Sorted(v.list)
    BY <1>1, <2>1, SortedReplace
  <2> QED BY <2>2, <2>3 DEF a
<1>7. Pieces({h}, r) /\ {h} \in SUBSET Record
  BY <1>1, <1>2, <1>3 DEF Pieces
<1>8. \A b \in Byte : Left(r, {h}, b) => Within(b, v.ld)
  <2>1. \A b \in Byte : b \in Int
    BY FlockAssumption DEF Byte, FlockAssumption
  <2>2. h.start = r.start /\ h.end = w.ld.start - 1 /\ v.ld = w.ld
        /\ r.end \in Int /\ w.ld.start \in Int /\ w.ld.end \in Int
    BY <1>1, <1>2, <1>3
  <2> SUFFICES ASSUME NEW b \in Byte, Left(r, {h}, b) PROVE Within(b, v.ld)
    OBVIOUS
  <2>3. r.start <= b /\ b <= r.end /\ (b < r.start \/ w.ld.start - 1 < b) /\ b \in Int
    BY <2>1, <2>2 DEF Left
  <2>4. w.ld.start <= b /\ b <= w.ld.end
    BY <1>3, <2>2, <2>3
  <2> QED BY <2>2, <2>4 DEF Within
<1>9. \A n \in DOMAIN v.list : v.at <= n =>
            \E m \in DOMAIN w.list : m > w.at /\ v.list[n] = w.list[m]
  <2>1. \A n \in DOMAIN w.list : n \in Int
    BY <1>3
  <2>2. v.at = w.at + 1 /\ w.at \in Int
    BY <1>1, <1>3
  <2> QED BY <1>4, <2>1, <2>2
<1>10. Reworked(w, v, r, {h})
  <2>1. /\ v.ld.owner = w.ld.owner /\ v.ld.type = w.ld.type
        /\ v.ld.start <= w.ld.start /\ w.ld.end <= v.ld.end
        /\ v.room + Len(v.list) = w.room + Len(w.list) /\ v.room >= 0
        /\ \A b \in Byte : Within(b, v.ld) => Within(b, w.ld)
    BY <1>1, <1>3, <1>4, AtFacts
  <2> QED BY <1>1, <1>6, <1>7, <1>8, <1>9, <2>1 DEF Reworked
<1>11. Content(v, L, ld, room)
  BY <1>3, <1>10, Changed
<1>12. Passed(v)
  <2>1. Off(v.list[w.at], v.ld)
    BY <1>1, <1>2, <1>3, <1>4, AtFacts DEF Off
  <2>2. \A n \in 1 .. w.at - 1 : v.list[n] = w.list[n]
    BY <1>3, <1>4
  <2> QED BY <1>1, <1>3, <1>4, <2>1, <2>2, SkipPassed
<1>13. Placed(w, v, {h})
  <2>1. ASSUME NEW n \in DOMAIN w.list PROVE n < w.at \/ n = w.at \/ n > w.at
    BY <1>3
  <2> QED BY <1>3, <1>4, <2>1 DEF Placed
<1>14. Point(v)
  <2>1. v.at > w.at /\ Len(v.list) >= Len(w.list) /\ v.list[w.at].start = r.start
    BY <1>1, <1>2, <1>3, <1>4
  <2> QED BY <1>1, <1>3, <1>7, <1>13, <2>1, PointAt
<1>15. Ended(v, L)
  BY <1>1, AtFacts, GoEnded
<1>16. Nearer(w, v)
  BY <1>1, <1>3, <1>4 DEF Nearer
<1> QED BY <1>1, <1>11, <1>12, <1>14, <1>15, <1>16 DEF Moves, WalkInv, v

\* u comes from w by putting in t, the tail of the caller's record r at w.at.
TailKept(w, r, t, u) ==
    /\ t \in Record /\ ~Holds(w.list, t) /\ t # r
    /\ t.owner = r.owner /\ t.type = r.type /\ t.start = w.ld.end + 1 /\ t.end = r.end
    /\ u \in Work /\ u.file = w.file /\ u.ld = w.ld /\ u.at = w.at /\ u.insrtp = w.insrtp
    /\ u.woke = w.woke /\ u.result = w.result /\ u.room = w.room - 1
    /\ u.list \in Seq(Record) /\ Len(u.list) = Len(w.list) + 1
    /\ DOMAIN u.list = 1 .. Len(u.list)
    /\ Sorted(u.list) /\ Injective(u.list) /\ u.at \in DOMAIN u.list /\ u.list[u.at] = r
    /\ \A x : Holds(u.list, x) <=> Holds(w.list, x) \/ x = t
    /\ \A n \in 1 .. w.at : n \in DOMAIN w.list /\ u.list[n] = w.list[n]
    /\ \A n \in DOMAIN u.list : n > w.at =>
         u.list[n] = t \/ \E m \in DOMAIN w.list : m > w.at /\ u.list[n] = w.list[m]
    /\ Woken(u) = Woken(w)
    /\ Off(w.ld, t)
    /\ \A x \in Record : Off(r, x) => Off(w.ld, x)

\* KeepTail() does.
LEMMA TailFacts ==
    ASSUME NEW w, NEW L, NEW ld \in Lck, NEW room, NEW r, WalkInv(w, L, ld, room), AtOwn(w),
           r = w.list[w.at], w.ld.type # r.type, r.start <= w.ld.end, w.ld.end < r.end,
           NEW t, t = Behind(r, w.ld), NEW u, u = KeepTail(w)
    PROVE  TailKept(w, r, t, u)
<1>1. w \in Work /\ Good(w.list)
  BY AtFacts
<1>2. /\ u \in Work /\ u.file = w.file /\ u.ld = w.ld /\ u.at = w.at /\ u.insrtp = w.insrtp
      /\ u.woke = w.woke /\ u.result = w.result /\ u.room = w.room - 1
      /\ t \in Record /\ ~Holds(w.list, t)
      /\ Len(u.list) = Len(w.list) + 1 /\ Sorted(u.list) /\ Injective(u.list)
      /\ \A x : Holds(u.list, x) <=> Holds(w.list, x) \/ x = t
      /\ \A n \in 1 .. w.at : n \in DOMAIN w.list /\ u.list[n] = w.list[n]
      /\ \A n \in DOMAIN u.list : n > w.at =>
                u.list[n] = t \/ \E m \in DOMAIN w.list : m > w.at /\ u.list[n] = w.list[m]
  BY <1>1, KeepTailFields
<1>3. t.owner = r.owner /\ t.type = r.type /\ t.start = w.ld.end + 1 /\ t.end = r.end
  BY DEF Behind
<1>4. t # r
  BY <1>2, AtFacts
<1>5. u.list \in Seq(Record) /\ DOMAIN u.list = 1 .. Len(u.list)
  BY <1>2, Elements DEF Work
<1>6. u.at \in DOMAIN u.list /\ u.list[u.at] = r
  <2>1. w.at \in 1 .. w.at /\ Len(w.list) \in Nat /\ w.at \in 1 .. Len(w.list)
    BY AtFacts
  <2> QED BY <1>2, <1>5, <2>1
<1>7. Woken(u) = Woken(w)
  BY <1>2, <1>6 DEF Woken
<1>8. Off(w.ld, t)
  BY <1>3, AtFacts DEF Off
<1>9. \A x \in Record : Off(r, x) => Off(w.ld, x)
  BY AtFacts, RecordFields DEF Off
<1> QED BY <1>2, <1>3, <1>4, <1>5, <1>6, <1>7, <1>8, <1>9 DEF TailKept

\* The lock cuts off the beginning of the record.
LEMMA CutsStart ==
    ASSUME NEW w, NEW L, NEW ld \in Lck, NEW room, NEW r, WalkInv(w, L, ld, room), AtOwn(w),
           r = w.list[w.at], w.ld.type # r.type, r.start <= w.ld.end, w.ld.end < r.end,
           NEW i, NEW v, v = Stop(WithInsrtp(delflck(KeepTail(w)), i)),
           \/ w.ld.start = r.start /\ i = w.at - 1
           \/ w.ld.start < r.start /\ i = delflck(KeepTail(w)).insrtp
    PROVE  Moves(w, v, L, ld, room)
<1> DEFINE t == Behind(r, w.ld)
           u == KeepTail(w)
           g == delflck(u)
<1>0. t = Behind(r, w.ld) /\ u = KeepTail(w) /\ g = delflck(u)
  OBVIOUS
<1> HIDE DEF t, u, g
<1>1. /\ t \in Record /\ ~Holds(w.list, t) /\ t # r
      /\ t.owner = r.owner /\ t.type = r.type /\ t.start = w.ld.end + 1 /\ t.end = r.end
      /\ u \in Work /\ u.file = w.file /\ u.ld = w.ld /\ u.at = w.at /\ u.insrtp = w.insrtp
      /\ u.woke = w.woke /\ u.result = w.result /\ u.room = w.room - 1
      /\ u.list \in Seq(Record) /\ Len(u.list) = Len(w.list) + 1
      /\ DOMAIN u.list = 1 .. Len(u.list)
      /\ Sorted(u.list) /\ Injective(u.list) /\ u.at \in DOMAIN u.list /\ u.list[u.at] = r
      /\ \A x : Holds(u.list, x) <=> Holds(w.list, x) \/ x = t
      /\ \A n \in 1 .. w.at : n \in DOMAIN w.list /\ u.list[n] = w.list[n]
      /\ \A n \in DOMAIN u.list : n > w.at =>
            u.list[n] = t \/ \E m \in DOMAIN w.list : m > w.at /\ u.list[n] = w.list[m]
      /\ Woken(u) = Woken(w)
      /\ Off(w.ld, t)
      /\ \A x \in Record : Off(r, x) => Off(w.ld, x)
  <2>1. TailKept(w, r, t, u)
    BY <1>0, TailFacts
  <2> QED BY <2>1 DEF TailKept
<1>2. /\ w \in Work /\ Good(w.list) /\ Content(w, L, ld, room) /\ Passed(w) /\ Point(w)
      /\ Len(w.list) \in Nat /\ DOMAIN w.list = 1 .. Len(w.list)
      /\ w.at \in Nat \ {0} /\ w.at \in DOMAIN w.list /\ w.room \in Int /\ w.room >= 0
      /\ r \in Record /\ w.insrtp \in Nat /\ w.result = "go"
      /\ w.ld.start \in Int /\ w.ld.end \in Int /\ r.start \in Int /\ r.end \in Int
      /\ w.ld.start <= w.ld.end
  BY AtFacts
<1>3. /\ g \in Work /\ g.file = w.file /\ g.at = w.at /\ g.ld = w.ld /\ g.insrtp = w.insrtp
      /\ g.result = w.result /\ g.list = RemoveAt(u.list, w.at) /\ g.room = u.room + 1
      /\ g.woke = w.woke \cup Woken(w)
  BY <1>0, <1>1, DelFields
<1>4. i \in Nat /\ v = Stop(WithInsrtp(g, i))
      /\ \/ w.ld.start = r.start /\ i = w.at - 1
         \/ w.ld.start < r.start /\ i = w.insrtp
  <2>1. v = Stop(WithInsrtp(g, i)) /\ w.at - 1 \in Nat
    BY <1>0, <1>2
  <2>2. i = delflck(KeepTail(w)).insrtp => i = w.insrtp
    BY <1>0, <1>3
  <2> QED BY <1>2, <2>1, <2>2
<1>5. /\ v \in Work /\ v.file = w.file /\ v.ld = w.ld /\ v.result = w.result
      /\ v.list = RemoveAt(u.list, w.at) /\ v.room = u.room + 1
      /\ v.woke = w.woke \cup Woken(w) /\ v.insrtp = i /\ v.at = Len(v.list) + 1
  <2> DEFINE a == WithInsrtp(g, i)
  <2>1. /\ a \in Work /\ a.file = g.file /\ a.list = g.list /\ a.ld = g.ld /\ a.woke = g.woke
        /\ a.room = g.room /\ a.at = g.at /\ a.result = g.result /\ a.insrtp = i
    BY <1>3, <1>4, InsrtpFields
  <2> HIDE DEF a
  <2>2. v = Stop(a)
    BY <1>4 DEF a
  <2>3. /\ v \in Work /\ v.at = Len(a.list) + 1
        /\ v.file = a.file /\ v.list = a.list /\ v.ld = a.ld
        /\ v.insrtp = a.insrtp /\ v.woke = a.woke /\ v.room = a.room /\ v.result = a.result
    BY <2>1, <2>2, StopFields
  <2> QED BY <1>3, <2>1, <2>3
<1>6. /\ v.list \in Seq(Record) /\ Len(v.list) = Len(w.list)
      /\ \A j \in 1 .. Len(w.list) : v.list[j] = IF j < w.at THEN u.list[j] ELSE u.list[j + 1]
      /\ Injective(v.list) /\ Sorted(v.list)
      /\ \A x : Holds(v.list, x) <=> Holds(u.list, x) /\ x # r
  <2> DEFINE a == u.list
             k == w.at
  <2>1. a \in Seq(Record) /\ k \in DOMAIN a /\ a[k] = r /\ Injective(a) /\ Sorted(a)
        /\ Len(a) = Len(w.list) + 1 /\ v.list = RemoveAt(a, k)
    BY <1>1, <1>5
  <2> HIDE DEF a, k
  <2>2. /\ Injective(RemoveAt(a, k)) /\ \A x : Holds(RemoveAt(a, k), x) <=> Holds(a, x) /\ x # r
    BY <2>1, RemoveHolds
  <2>3. Sorted(RemoveAt(a, k))
    BY <2>1, SortedRemove
  <2>4. /\ RemoveAt(a, k) \in Seq(Record) /\ Len(RemoveAt(a, k)) = Len(a) - 1
        /\ \A j \in 1 .. Len(a) - 1 : RemoveAt(a, k)[j] = IF j < k THEN a[j] ELSE a[j + 1]
    BY <2>1, RemoveAtProperties
  <2>5. Len(a) - 1 = Len(w.list)
    BY <1>2, <2>1
  <2> QED BY <2>1, <2>2, <2>3, <2>4, <2>5 DEF a, k
<1>7. DOMAIN v.list = 1 .. Len(w.list)
  BY <1>6, Elements
<1>8. Pieces({t}, r) /\ {t} \in SUBSET Record
  <2>1. /\ t \in Record /\ t.owner = r.owner /\ t.type = r.type
        /\ t.start = w.ld.end + 1 /\ t.end = r.end /\ r.start \in Int /\ r.end \in Int
        /\ w.ld.end \in Int
    BY <1>1, <1>2
  <2>2. r.start <= t.start /\ t.start <= t.end /\ t.end <= r.end
    BY <2>1
  <2> QED BY <2>1, <2>2 DEF Pieces
<1>9. \A b \in Byte : Left(r, {t}, b) => Within(b, v.ld)
  <2>1. \A b \in Byte : b \in Int
    BY FlockAssumption DEF Byte, FlockAssumption
  <2>2. w.ld.start <= r.start
    BY <1>2, <1>4
  <2>3. t.start = w.ld.end + 1 /\ t.end = r.end /\ v.ld = w.ld
    BY <1>1, <1>5
  <2>4. /\ w.ld.start \in Int /\ w.ld.end \in Int /\ r.start \in Int /\ r.end \in Int
    BY <1>2
  <2> QED BY <2>1, <2>2, <2>3, <2>4 DEF Left, Within
<1>10. v.at > Len(v.list) /\ v.at >= w.at
  BY <1>2, <1>5, <1>6
<1>11. \A n \in DOMAIN v.list : v.at <= n =>
            \E m \in DOMAIN w.list : m > w.at /\ v.list[n] = w.list[m]
  BY <1>2, <1>5, <1>6, <1>7
<1>12. Reworked(w, v, r, {t})
  <2>1. /\ v.ld.owner = w.ld.owner /\ v.ld.type = w.ld.type
        /\ v.ld.start <= w.ld.start /\ w.ld.end <= v.ld.end
        /\ v.room + Len(v.list) = w.room + Len(w.list) /\ v.room >= 0
        /\ \A b \in Byte : Within(b, v.ld) => Within(b, w.ld)
    <3>1. v.room = w.room - 1 + 1 /\ Len(v.list) = Len(w.list)
      BY <1>1, <1>5, <1>6
    <3>2. v.room = w.room
      BY <1>2, <3>1
    <3> QED BY <1>2, <1>5, <3>1, <3>2
  <2>2. \A x \in Record : Holds(v.list, x) <=> (Holds(w.list, x) /\ x # r) \/ x \in {t}
    BY <1>1, <1>6
  <2> QED BY <1>5, <1>6, <1>8, <1>9, <1>11, <2>1, <2>2 DEF Reworked
<1>13. Content(v, L, ld, room)
  BY <1>2, <1>12, Changed
<1>14. Placed(w, v, {t})
  <2> SUFFICES ASSUME NEW n \in DOMAIN v.list
               PROVE  \/ n < w.at /\ n \in DOMAIN w.list /\ v.list[n] = w.list[n]
                      \/ n >= w.at /\ v.list[n] \in {t}
                      \/ n >= w.at /\ \E m \in DOMAIN w.list : m > w.at /\ v.list[n] = w.list[m]
    BY DEF Placed
  <2>1. CASE n < w.at
    <3>1. n \in 1 .. w.at
      BY <1>2, <1>7, <2>1
    <3> QED BY <1>1, <1>6, <1>7, <2>1, <3>1
  <2>2. CASE n >= w.at
    <3>1. n \in 1 .. Len(w.list) /\ ~(n < w.at) /\ n + 1 \in 1 .. Len(w.list) + 1 /\ n + 1 > w.at
      BY <1>2, <1>7, <2>2
    <3>2. n + 1 \in DOMAIN u.list /\ v.list[n] = u.list[n + 1]
      BY <1>1, <1>6, <3>1
    <3> QED BY <1>1, <2>2, <3>1, <3>2
  <2> QED BY <1>2, <1>7, <2>1, <2>2
<1>15. Passed(v)
  <2>1. /\ v.ld.owner = w.ld.owner /\ v.ld.type = w.ld.type /\ v.ld.start = w.ld.start
        /\ \A x \in {t} : Off(x, v.ld) \/ Off(v.ld, x)
        /\ \A x \in Record : x.owner = w.ld.owner /\ Off(r, x) => Off(v.ld, x)
    BY <1>1, <1>5
  <2>2. w \in Work /\ Good(w.list) /\ Passed(w) /\ v \in Work
    BY <1>2, <1>5
  <2> QED BY <1>10, <1>14, <2>1, <2>2, StopPassed
<1>16. Point(v)
  <2>1. Len(v.list) >= Len(w.list) - 1 /\ \A x \in {t} : r.start <= x.start
    <3>1. t.start = w.ld.end + 1 /\ Len(v.list) = Len(w.list)
      BY <1>1, <1>6
    <3> QED BY <1>2, <3>1
  <2>2. CASE w.ld.start = r.start /\ i = w.at - 1
    BY <1>2, <1>5, <1>8, <1>10, <1>14, <2>1, <2>2, PointBefore
  <2>3. CASE w.ld.start < r.start /\ i = w.insrtp
    BY <1>2, <1>5, <1>8, <1>10, <1>14, <2>1, <2>3, PointKept
  <2> QED BY <1>4, <2>2, <2>3
<1>17. Ended(v, L)
  BY <1>2, <1>5, GoEnded
<1>18. Nearer(w, v)
  BY <1>10 DEF Nearer
<1> QED BY <1>5, <1>13, <1>15, <1>16, <1>17, <1>18 DEF Moves, WalkInv

\* The lock takes the middle out of the record.
LEMMA Splits ==
    ASSUME NEW w, NEW L, NEW ld \in Lck, NEW room, NEW r, WalkInv(w, L, ld, room), AtOwn(w),
           r = w.list[w.at], w.ld.type # r.type, r.start < w.ld.start, w.ld.end < r.end,
           w.room > 0
    PROVE  Moves(w, Stop(Shorten(KeepTail(w))), L, ld, room)
<1> DEFINE t == Behind(r, w.ld)
           h == Before(r, w.ld)
           u == KeepTail(w)
           g == Shorten(u)
           v == Stop(g)
<1>0. t = Behind(r, w.ld) /\ u = KeepTail(w) /\ g = Shorten(u) /\ v = Stop(g)
      /\ h = Before(r, w.ld)
  OBVIOUS
<1>1. h.owner = r.owner /\ h.type = r.type /\ h.start = r.start /\ h.end = w.ld.start - 1
  BY DEF Before
<1> HIDE DEF t, u, g, v, h
<1>2. /\ w \in Work /\ Good(w.list) /\ Content(w, L, ld, room) /\ Passed(w) /\ Point(w)
      /\ Len(w.list) \in Nat /\ DOMAIN w.list = 1 .. Len(w.list) /\ Holds(w.list, r)
      /\ w.at \in Nat \ {0} /\ w.at \in DOMAIN w.list /\ w.room \in Int /\ w.room >= 0
      /\ r \in Record /\ w.insrtp \in Nat /\ w.result = "go"
      /\ w.ld.start \in Int /\ w.ld.end \in Int /\ r.start \in Int /\ r.end \in Int
      /\ w.ld.start <= w.ld.end /\ w.list[w.at] = r
  BY AtFacts
<1>3. TailKept(w, r, t, u)
  <2>1. r.start <= w.ld.end
    BY <1>2
  <2> QED BY <1>0, <2>1, TailFacts
<1>4. /\ t \in Record /\ ~Holds(w.list, t) /\ t # r
      /\ t.owner = r.owner /\ t.type = r.type /\ t.start = w.ld.end + 1 /\ t.end = r.end
      /\ u \in Work /\ u.file = w.file /\ u.ld = w.ld /\ u.at = w.at
      /\ u.woke = w.woke /\ u.result = w.result /\ u.room = w.room - 1
      /\ u.list \in Seq(Record) /\ Len(u.list) = Len(w.list) + 1
      /\ DOMAIN u.list = 1 .. Len(u.list)
      /\ Sorted(u.list) /\ Injective(u.list) /\ w.at \in DOMAIN u.list /\ u.list[w.at] = r
      /\ Woken(u) = Woken(w)
  BY <1>3 DEF TailKept
<1>5. \A x : Holds(u.list, x) <=> Holds(w.list, x) \/ x = t
  BY <1>3 DEF TailKept
<1>6. /\ \A n \in 1 .. w.at : n \in DOMAIN w.list /\ u.list[n] = w.list[n]
      /\ \A n \in DOMAIN u.list : n > w.at =>
            u.list[n] = t \/ \E m \in DOMAIN w.list : m > w.at /\ u.list[n] = w.list[m]
  BY <1>3 DEF TailKept
<1>7. Off(w.ld, t) /\ \A x \in Record : Off(r, x) => Off(w.ld, x)
  BY <1>3 DEF TailKept
<1>8. /\ g \in Work /\ h \in Record /\ g.list = [u.list EXCEPT ![w.at] = h]
      /\ g.woke = w.woke \cup Woken(w) /\ g.insrtp = w.at /\ g.file = w.file /\ g.ld = w.ld
      /\ g.room = w.room - 1 /\ g.result = w.result
  BY <1>0, <1>4, ShortenFields
<1>9. /\ v \in Work /\ v.list = [u.list EXCEPT ![w.at] = h]
      /\ v.woke = w.woke \cup Woken(w) /\ v.insrtp = w.at /\ v.file = w.file /\ v.ld = w.ld
      /\ v.room = w.room - 1 /\ v.result = w.result /\ v.at = Len(v.list) + 1
  BY <1>0, <1>8, StopFields
<1>10. h # r /\ h # t /\ ~Holds(w.list, h)
  <2>1. h # r /\ h # t
    <3>1. r.start # t.start /\ r.end # w.ld.start - 1
      BY <1>2, <1>4
    <3> QED BY <1>1, <3>1
  <2>2. ~Off(h, r) /\ ~Off(r, h)
    <3>1. ~(w.ld.start - 1 < r.start) /\ ~(r.end < r.start)
      BY <1>2
    <3>2. ~(h.end < r.start) /\ ~(r.end < h.start)
      BY <1>1, <1>2, <3>1
    <3> QED BY <3>2 DEF Off
  <2> QED BY <1>1, <1>2, <1>8, <2>1, <2>2 DEF Good, Apart
<1>11. /\ Injective(v.list) /\ Sorted(v.list) /\ Len(v.list) = Len(u.list)
       /\ \A x : Holds(v.list, x) <=> (Holds(u.list, x) /\ x # r) \/ x = h
  <2> DEFINE a == u.list
             i == w.at
  <2>1. /\ a \in Seq(Record) /\ i \in DOMAIN a /\ Injective(a) /\ Sorted(a) /\ ~Holds(a, h)
        /\ h.start = a[i].start /\ a[i] = r /\ v.list = [a EXCEPT ![i] = h]
    BY <1>1, <1>4, <1>5, <1>9, <1>10
  <2> HIDE DEF a, i
  <2>2. /\ \A x : Holds(v.list, x) <=> (Holds(a, x) /\ x # r) \/ x = h
        /\ Injective(v.list) /\ Len(v.list) = Len(a)
    BY <1>8, <2>1, ReplaceHolds
  <2>3. Sorted(v.list)
    BY <1>8, <2>1, SortedReplace
  <2> QED BY <2>2, <2>3 DEF a
<1>12. DOMAIN v.list = DOMAIN u.list
       /\ \A n \in DOMAIN u.list : v.list[n] = IF n = w.at THEN h ELSE u.list[n]
  BY <1>9
<1>13. Pieces({h, t}, r) /\ {h, t} \in SUBSET Record
  <2>1. /\ t.owner = r.owner /\ t.type = r.type /\ t.start = w.ld.end + 1 /\ t.end = r.end
        /\ t \in Record /\ h \in Record
    BY <1>4, <1>8
  <2>2. /\ w.ld.start \in Int /\ w.ld.end \in Int /\ r.start \in Int /\ r.end \in Int
        /\ w.ld.start <= w.ld.end
    BY <1>2
  <2> QED BY <1>1, <2>1, <2>2 DEF Pieces
<1>14. \A b \in Byte : Left(r, {h, t}, b) => Within(b, v.ld)
  <2>1. \A b \in Byte : b \in Int
    BY FlockAssumption DEF Byte, FlockAssumption
  <2>2. /\ t.start = w.ld.end + 1 /\ t.end = r.end /\ v.ld = w.ld
        /\ h.start = r.start /\ h.end = w.ld.start - 1
    BY <1>1, <1>4, <1>9
  <2>3. /\ w.ld.start \in Int /\ w.ld.end \in Int /\ r.start \in Int /\ r.end \in Int
    BY <1>2
  <2> QED BY <2>1, <2>2, <2>3 DEF Left, Within
<1>15. v.at > Len(v.list) /\ v.at > w.at /\ Len(v.list) >= Len(w.list)
  BY <1>2, <1>4, <1>9, <1>11
<1>16. \A n \in DOMAIN v.list : v.at <= n => \E m \in DOMAIN w.list : m > w.at /\ v.list[n] = w.list[m]
  <2>1. DOMAIN v.list = 1 .. Len(v.list) /\ Len(v.list) \in Int /\ v.at = Len(v.list) + 1
    BY <1>2, <1>4, <1>9, <1>11, <1>12
  <2> QED BY <2>1
<1>17. Reworked(w, v, r, {h, t})
  <2>1. /\ v.ld.owner = w.ld.owner /\ v.ld.type = w.ld.type
        /\ v.ld.start <= w.ld.start /\ w.ld.end <= v.ld.end
        /\ \A b \in Byte : Within(b, v.ld) => Within(b, w.ld)
    BY <1>2, <1>9
  <2>2. v.room + Len(v.list) = w.room + Len(w.list) /\ v.room >= 0
    <3>1. v.room = w.room - 1 /\ Len(v.list) = Len(w.list) + 1
      BY <1>4, <1>9, <1>11
    <3>2. w.room \in Int /\ Len(w.list) \in Int
      BY <1>2
    <3> QED BY <3>1, <3>2
  <2>3. \A x \in Record : Holds(v.list, x) <=> (Holds(w.list, x) /\ x # r) \/ x \in {h, t}
    BY <1>4, <1>5, <1>11
  <2> QED BY <1>9, <1>11, <1>13, <1>14, <1>16, <2>1, <2>2, <2>3 DEF Reworked
<1>18. Content(v, L, ld, room)
  BY <1>2, <1>17, Changed
<1>19. Placed(w, v, {h, t})
  <2> SUFFICES ASSUME NEW n \in DOMAIN v.list
               PROVE  \/ n < w.at /\ n \in DOMAIN w.list /\ v.list[n] = w.list[n]
                      \/ n >= w.at /\ v.list[n] \in {h, t}
                      \/ n >= w.at /\ \E m \in DOMAIN w.list : m > w.at /\ v.list[n] = w.list[m]
    BY DEF Placed
  <2>1. CASE n < w.at
    <3>1. n \in 1 .. w.at /\ n # w.at
      BY <1>2, <1>4, <1>12, <2>1
    <3> QED BY <1>6, <1>12, <2>1, <3>1
  <2>2. CASE n = w.at
    BY <1>2, <1>12, <2>2
  <2>3. CASE n > w.at
    <3>1. n >= w.at /\ n # w.at /\ n \in DOMAIN u.list
      BY <1>2, <1>4, <1>12, <2>3
    <3> QED BY <1>6, <1>12, <2>3, <3>1
  <2> QED BY <1>2, <1>4, <1>12, <2>1, <2>2, <2>3
<1>20. Passed(v)
  <2>1. Off(h, w.ld)
    BY <1>1, <1>2 DEF Off
  <2>2. /\ v.ld.owner = w.ld.owner /\ v.ld.type = w.ld.type /\ v.ld.start = w.ld.start
        /\ \A x \in {h, t} : Off(x, v.ld) \/ Off(v.ld, x)
        /\ \A x \in Record : x.owner = w.ld.owner /\ Off(r, x) => Off(v.ld, x)
    BY <1>7, <1>9, <2>1
  <2>3. w \in Work /\ Good(w.list) /\ Passed(w) /\ v \in Work /\ r = w.list[w.at]
    BY <1>2, <1>9
  <2> QED BY <1>15, <1>19, <2>2, <2>3, StopPassed
<1>21. Point(v)
  <2>1. v.list[w.at].start = r.start
    BY <1>1, <1>4, <1>12
  <2>2. /\ w \in Work /\ v \in Work /\ r \in Record /\ Good(w.list) /\ w.at \in DOMAIN w.list
        /\ v.ld.start = w.ld.start /\ v.insrtp = w.at
    BY <1>2, <1>9
  <2> QED BY <1>13, <1>15, <1>19, <2>1, <2>2, PointAt
<1>22. Ended(v, L)
  BY <1>2, <1>9, GoEnded
<1>23. Nearer(w, v)
  BY <1>15 DEF Nearer
<1>24. Moves(w, v, L, ld, room)
  BY <1>9, <1>18, <1>20, <1>21, <1>22, <1>23 DEF WalkInv, Moves
<1> QED BY <1>0, <1>24

\* Whatever the turn finds, the walk stays sound.
LEMMA TurnKeeps ==
    ASSUME NEW w, NEW L, NEW ld \in Lck, NEW room, WalkInv(w, L, ld, room)
    PROVE  /\ WalkInv(Turn(w), L, ld, room) /\ Turn(w).file = w.file
           /\ Nearer(w, Turn(w)) \/ (Turn(w) = w /\ (w.result # "go" \/ w.at > Len(w.list)))
<1> DEFINE r == w.list[w.at]
<1>1. CASE w.result # "go" \/ w.at > Len(w.list)
  BY <1>1 DEF Turn
<1>2. CASE ~(w.result # "go" \/ w.at > Len(w.list))
  <2>1. w.result = "go" /\ w.at \in DOMAIN w.list
    <3>1. w.list \in Seq(Record) /\ w.at \in Nat \ {0}
      BY DEF WalkInv, Content, Work
    <3> QED BY <1>2, <3>1, Elements
  <2>2. CASE w.list[w.at].owner # w.ld.owner
    <3>1. Turn(w) = Skip(w) /\ ~Own(w, w.at)
      BY <1>2, <2>2 DEF Turn, Own
    <3> QED BY <2>1, <3>1, Skips DEF Moves
  <2>3. CASE w.list[w.at].owner = w.ld.owner
    <3>1. Turn(w) = Adjust(w)
      BY <1>2, <2>3 DEF Turn
    <3>2. AtOwn(w)
      BY <2>1, <2>3 DEF AtOwn, Own
    <3> HIDE DEF r
    <3>3. r = w.list[w.at]
      BY DEF r
    <3>4. /\ w.room \in Int /\ r.start \in Int /\ r.end \in Int
          /\ w.ld.start \in Int /\ w.ld.end \in Int /\ r.start <= r.end /\ w.ld.start <= w.ld.end
          /\ w \in Work
      BY <3>2, <3>3, AtFacts
    <3> DEFINE v == Adjust(w)
               l == w.ld
    <3> SUFFICES Moves(w, v, L, ld, room)
      BY <3>1 DEF Moves
    <3>5. \/ /\ l.end < r.start /\ (l.type = r.type => l.end + 1 < r.start)
             /\ v = Stop(w)
          \/ /\ l.type = r.type /\ r.start <= l.start /\ l.end <= r.end
             /\ v = End(w, "ok")
          \/ /\ l.type # r.type /\ r.start <= l.end /\ l.end < r.end /\ w.room <= 0
             /\ v = End(w, "ENOLCK")
          \/ /\ l.type = r.type /\ l.start < r.start /\ r.start <= l.end + 1 /\ l.end < r.end
             /\ v = Stop(WithEnd(delflck(w), r.end))
          \/ /\ l.type = r.type /\ l.start < r.start /\ l.end = r.end
             /\ v = Stop(delflck(w))
          \/ /\ l.start = r.start /\ r.end <= l.end
             /\ v = WithInsrtp(delflck(w), w.at - 1)
          \/ /\ l.start < r.start /\ r.end <= l.end
             /\ v = delflck(w)
          \/ /\ l.type = r.type /\ r.start < l.start /\ l.start <= r.end + 1 /\ r.end < l.end
             /\ v = WithInsrtp(WithStart(delflck(w), r.start), w.at - 1)
          \/ /\ l.type # r.type /\ r.start < l.start /\ l.end < r.end /\ w.room > 0
             /\ v = Stop(Shorten(KeepTail(w)))
          \/ /\ l.type # r.type /\ l.start = r.start /\ l.end < r.end
             /\ v = Stop(WithInsrtp(delflck(KeepTail(w)), w.at - 1))
          \/ /\ l.type # r.type /\ l.start < r.start /\ r.start <= l.end /\ l.end < r.end
             /\ v = Stop(WithInsrtp(delflck(KeepTail(w)), delflck(KeepTail(w)).insrtp))
          \/ /\ l.type # r.type /\ r.start < l.start /\ l.start <= r.end /\ r.end <= l.end
             /\ v = Skip(Shorten(w))
          \/ /\ l.type # r.type /\ r.end + 1 = l.start
             /\ v = Skip(w)
          \/ /\ r.end + 1 < l.start
             /\ v = Skip(WithInsrtp(w, w.at))
      BY <3>3, <3>4, AdjustCases
    <3> HIDE DEF v
    <3>6. CASE l.end < r.start /\ (l.type = r.type => l.end + 1 < r.start) /\ v = Stop(w)
      BY <3>2, <3>3, <3>6, EndsBefore
    <3>7. CASE l.type = r.type /\ r.start <= l.start /\ l.end <= r.end /\ v = End(w, "ok")
      BY <3>2, <3>3, <3>7, InPlace
    <3>8. CASE r.start <= l.end /\ v = End(w, "ENOLCK")
      BY <3>2, <3>3, <3>8, NoRoom
    <3>9. CASE /\ l.type = r.type /\ l.start < r.start /\ r.start <= l.end + 1 /\ l.end < r.end
               /\ v = Stop(WithEnd(delflck(w), r.end))
      <4>1. l.end <= r.end
        BY <3>4, <3>9
      <4> QED BY <3>2, <3>3, <3>9, <4>1, GrowsEnd
    <3>10. CASE l.type = r.type /\ l.start < r.start /\ l.end = r.end /\ v = Stop(delflck(w))
      <4>1. l.end <= r.end /\ r.start <= l.end + 1
        BY <3>4, <3>10
      <4> QED BY <3>2, <3>3, <3>10, <4>1, GrowsEnd
    <3>11. CASE l.start = r.start /\ r.end <= l.end /\ v = WithInsrtp(delflck(w), w.at - 1)
      BY <3>2, <3>3, <3>11, Deletes
    <3>12. CASE l.start < r.start /\ r.end <= l.end /\ v = delflck(w)
      BY <3>2, <3>3, <3>12, Deletes
    <3>13. CASE /\ l.type = r.type /\ r.start < l.start /\ l.start <= r.end + 1 /\ r.end < l.end
                /\ v = WithInsrtp(WithStart(delflck(w), r.start), w.at - 1)
      BY <3>2, <3>3, <3>13, Deletes
    <3>14. CASE /\ l.type # r.type /\ r.start < l.start /\ l.end < r.end /\ w.room > 0
                /\ v = Stop(Shorten(KeepTail(w)))
      BY <3>2, <3>3, <3>14, Splits
    <3>15. CASE /\ l.type # r.type /\ l.start = r.start /\ l.end < r.end
                /\ v = Stop(WithInsrtp(delflck(KeepTail(w)), w.at - 1))
      <4>1. r.start <= l.end
        BY <3>4, <3>15
      <4> QED BY <3>2, <3>3, <3>15, <4>1, CutsStart
    <3>16. CASE /\ l.type # r.type /\ l.start < r.start /\ r.start <= l.end /\ l.end < r.end
                /\ v = Stop(WithInsrtp(delflck(KeepTail(w)), delflck(KeepTail(w)).insrtp))
      BY <3>2, <3>3, <3>16, CutsStart
    <3>17. CASE /\ l.type # r.type /\ r.start < l.start /\ l.start <= r.end /\ r.end <= l.end
                /\ v = Skip(Shorten(w))
      BY <3>2, <3>3, <3>17, CutsEnd
    <3>18. CASE l.type # r.type /\ r.end + 1 = l.start /\ v = Skip(w)
      BY <2>1, <3>2, <3>3, <3>18, Skips
    <3>19. CASE r.end + 1 < l.start /\ v = Skip(WithInsrtp(w, w.at))
      BY <2>1, <3>2, <3>3, <3>19, Skips
    <3> QED BY <3>5, <3>6, <3>7, <3>8, <3>9, <3>10, <3>11, <3>12, <3>13, <3>14, <3>15, <3>16,
               <3>17, <3>18, <3>19
  <2> QED BY <2>2, <2>3
<1> QED BY <1>1, <1>2

\* A process has one lock on a byte.
LEMMA OneType ==
    ASSUME NEW list, Good(list), NEW p \in Proc, NEW b \in Byte, NEW t, NEW u,
           Has(list, p, b, t), Has(list, p, b, u)
    PROVE  t = u
<1>1. PICK x \in Record : Holds(list, x) /\ Covers(x, p, b, t)
  BY DEF Has
<1>2. PICK y \in Record : Holds(list, y) /\ Covers(y, p, b, u)
  BY DEF Has
<1>3. b \in Int
  BY FlockAssumption DEF Byte, FlockAssumption
<1>4. ~Off(x, y) /\ ~Off(y, x)
  BY <1>1, <1>2, <1>3, RecordFields DEF Off, Covers
<1>5. x = y
  BY <1>1, <1>2, <1>4 DEF Good, Apart, Covers
<1> QED BY <1>1, <1>2, <1>5 DEF Covers

\* A lock inside an own record of another type has not grown: on its ends the
\* process would have two.
LEMMA NotGrown ==
    ASSUME NEW w, NEW L, Good(L), NEW ld \in Lck, NEW room, NEW r,
           WalkInv(w, L, ld, room), AtOwn(w),
           r = w.list[w.at], w.ld.type # r.type, r.start < w.ld.start, w.ld.end < r.end
    PROVE  w.ld = ld
<1>1. /\ w.ld.owner = ld.owner /\ w.ld.type = ld.type /\ w.ld.start <= ld.start
      /\ ld.start <= ld.end /\ ld.end <= w.ld.end
      /\ \A b \in Byte : Within(b, w.ld) /\ ~Within(b, ld) => Has(L, ld.owner, b, ld.type)
  BY AtFacts DEF Content, Grown
<1>2. ASSUME NEW b \in Byte, Within(b, w.ld) PROVE Within(b, ld)
  <2>1. b \in Int
    BY FlockAssumption DEF Byte, FlockAssumption
  <2>2. Covers(r, w.ld.owner, b, r.type)
    BY <1>2, <2>1, AtFacts DEF Covers, Within
  <2>3. Has(w.list, w.ld.owner, b, r.type)
    BY <2>2, AtFacts DEF Has
  <2>4. Has(L, w.ld.owner, b, r.type)
    BY <2>3, AtFacts DEF Content, Bytes
  <2>5. w.ld.owner \in Proc
    BY AtFacts, LckFields DEF Lck
  <2> QED BY <1>1, <1>2, <2>4, <2>5, OneType
<1>3. Within(w.ld.start, ld) /\ Within(w.ld.end, ld)
  <2>1. Within(w.ld.start, w.ld) /\ Within(w.ld.end, w.ld)
    BY AtFacts DEF Within
  <2> QED BY <1>2, <2>1, AtFacts
<1>4. w.ld.start = ld.start /\ w.ld.end = ld.end
  BY <1>1, <1>3, AtFacts, LckFields DEF Within
<1> QED BY <1>1, <1>4, AtFacts DEF Lck

\* A turn leaves the lock as it is, or has deleted a record of its type.
LEMMA TurnLean ==
    ASSUME NEW w, NEW L, Good(L), NEW ld \in Lck, NEW room,
           WalkInv(w, L, ld, room), Lean(w, ld)
    PROVE  Lean(Turn(w), ld)
<1> DEFINE r == w.list[w.at]
<1>0. w \in Work
  BY DEF WalkInv, Content
<1>1. CASE w.result # "go" \/ w.at > Len(w.list)
  BY <1>1 DEF Turn
<1>2. CASE ~(w.result # "go" \/ w.at > Len(w.list)) /\ w.list[w.at].owner # w.ld.owner
  <2>1. Turn(w) = Skip(w)
    BY <1>2 DEF Turn
  <2> QED BY <1>0, <2>1, SkipFields DEF Lean
<1>3. CASE ~(w.result # "go" \/ w.at > Len(w.list)) /\ w.list[w.at].owner = w.ld.owner
  <2>1. w.result = "go" /\ w.at \in DOMAIN w.list
    <3>1. w.list \in Seq(Record) /\ w.at \in Nat \ {0}
      BY <1>0 DEF Work
    <3> QED BY <1>3, <3>1, Elements
  <2>2. AtOwn(w) /\ Turn(w) = Adjust(w)
    BY <1>3, <2>1 DEF Turn, AtOwn, Own
  <2> HIDE DEF r
  <2>3. r = w.list[w.at]
    BY DEF r
  <2>4. /\ w.room \in Int /\ w.room >= 0 /\ r.start \in Int /\ r.end \in Int
        /\ w.ld.start \in Int /\ w.ld.end \in Int /\ r.start <= r.end /\ w.ld.start <= w.ld.end
        /\ r.start \in Byte /\ r.end \in Byte /\ Good(w.list) /\ w.at \in Nat \ {0}
    BY <2>2, <2>3, AtFacts
  <2> DEFINE v == Adjust(w)
             l == w.ld
  <2>5. delflck(w) \in Work /\ delflck(w).result = "go" /\ delflck(w).room > 0
    BY <1>0, <2>1, <2>4, DelFields
  <2>6. \/ v.ld = w.ld /\ v.room = w.room /\ v.result # "ENOLCK"
        \/ v.ld = w.ld /\ w.room <= 0 /\ v.room = w.room
        \/ v.room > 0 /\ v.result # "ENOLCK"
        \/ v.ld = ld /\ v.result # "ENOLCK"
    <3>1. \/ v = Stop(w)
          \/ v = End(w, "ok")
          \/ v = End(w, "ENOLCK") /\ w.room <= 0
          \/ v = Stop(WithEnd(delflck(w), r.end))
          \/ v = Stop(delflck(w))
          \/ v = WithInsrtp(delflck(w), w.at - 1)
          \/ v = delflck(w)
          \/ v = WithInsrtp(WithStart(delflck(w), r.start), w.at - 1)
          \/ /\ l.type # r.type /\ r.start < l.start /\ l.end < r.end /\ w.room > 0
             /\ v = Stop(Shorten(KeepTail(w)))
          \/ /\ r.start <= l.end /\ l.end < r.end
             /\ v = Stop(WithInsrtp(delflck(KeepTail(w)), w.at - 1))
          \/ /\ r.start <= l.end /\ l.end < r.end
             /\ v = Stop(WithInsrtp(delflck(KeepTail(w)), delflck(KeepTail(w)).insrtp))
          \/ v = Skip(Shorten(w)) /\ r.start < l.start
          \/ v = Skip(w)
          \/ v = Skip(WithInsrtp(w, w.at))
      BY <1>0, <2>3, <2>4, AdjustCases
    <3> HIDE DEF v
    <3>2. CASE v = Stop(w) \/ v = Skip(w) \/ v = Skip(WithInsrtp(w, w.at))
      <4> DEFINE x == WithInsrtp(w, w.at)
      <4>1. x \in Work /\ x.ld = w.ld /\ x.room = w.room /\ x.result = "go"
        BY <1>0, <2>1, <2>4, InsrtpFields
      <4> HIDE DEF x
      <4> QED BY <1>0, <2>1, <3>2, <4>1, StopFields, SkipFields DEF x
    <3>3. CASE v = End(w, "ok")
      BY <1>0, <3>3, EndFields
    <3>4. CASE v = End(w, "ENOLCK") /\ w.room <= 0
      BY <1>0, <3>4, EndFields
    <3>5. CASE v = Stop(WithEnd(delflck(w), r.end))
      BY <2>4, <2>5, <3>5, LdEndFields, StopFields
    <3>6. CASE v = Stop(delflck(w)) \/ v = delflck(w)
      BY <2>5, <3>6, StopFields
    <3> DEFINE k == w.at - 1
    <3>14. k \in Nat
      BY <2>4
    <3> HIDE DEF k
    <3>7. CASE v = WithInsrtp(delflck(w), k)
      BY <2>5, <3>7, <3>14, InsrtpFields
    <3>8. CASE v = WithInsrtp(WithStart(delflck(w), r.start), k)
      <4> DEFINE x == WithStart(delflck(w), r.start)
      <4>1. x \in Work /\ x.room = delflck(w).room /\ x.result = delflck(w).result
        BY <2>4, <2>5, LdStartFields
      <4> HIDE DEF x
      <4>2. v = WithInsrtp(x, k)
        BY <3>8 DEF x
      <4> QED BY <2>5, <3>14, <4>1, <4>2, InsrtpFields
    <3>9. CASE v = Skip(Shorten(w)) /\ r.start < l.start
      BY <1>0, <2>1, <2>3, <3>9, ShortenFields, SkipFields
    <3> DEFINE x == KeepTail(w)
               y == delflck(x)
    <3>10. ASSUME r.start <= l.end, l.end < r.end
           PROVE  /\ x \in Work /\ x.ld = w.ld /\ x.result = "go" /\ x.room = w.room - 1
                  /\ x.at = w.at /\ x.at \in DOMAIN x.list /\ x.list[x.at] = r
      <4>1. /\ x \in Work /\ x.ld = w.ld /\ x.result = w.result /\ x.room = w.room - 1
            /\ x.at = w.at /\ Len(x.list) = Len(w.list) + 1
            /\ \A n \in 1 .. w.at : n \in DOMAIN w.list /\ x.list[n] = w.list[n]
        BY <2>2, <2>3, <2>4, <3>10, <1>0, KeepTailFields
      <4>2. w.at \in 1 .. Len(w.list) /\ Len(w.list) \in Nat
        BY <2>2, <2>3, AtFacts
      <4>3. x.at \in DOMAIN x.list
        BY <4>1, <4>2, Elements DEF Work
      <4> QED BY <2>1, <2>3, <4>1, <4>2, <4>3
    <3>11. ASSUME r.start <= l.end, l.end < r.end
           PROVE  y \in Work /\ y.result = "go" /\ y.room = w.room /\ y.ld = w.ld /\ y.insrtp \in Nat
      BY <2>4, <3>10, <3>11, DelFields DEF Work
    <3>12. CASE /\ l.type # r.type /\ r.start < l.start /\ l.end < r.end
                /\ v = Stop(Shorten(x))
      <4>1. w.ld = ld
        BY <2>2, <2>3, <3>12, NotGrown
      <4>2. r.start <= l.end /\ x.list[x.at].start < x.ld.start
        BY <2>4, <3>10, <3>12
      <4>3. Shorten(x) \in Work /\ Shorten(x).ld = w.ld /\ Shorten(x).result = "go"
        BY <3>10, <3>12, <4>2, ShortenFields
      <4> QED BY <3>12, <4>1, <4>3, StopFields
    <3>13. CASE /\ r.start <= l.end /\ l.end < r.end
                /\ v = Stop(WithInsrtp(y, k)) \/ v = Stop(WithInsrtp(y, y.insrtp))
      <4>1. y \in Work /\ y.result = "go" /\ y.room = w.room /\ y.ld = w.ld /\ y.insrtp \in Nat
        BY <3>11, <3>13
      <4> HIDE DEF y
      <4>2. PICK i \in Nat : v = Stop(WithInsrtp(y, i))
        BY <3>13, <3>14, <4>1
      <4> DEFINE z == WithInsrtp(y, i)
      <4>3. z \in Work /\ z.result = "go" /\ z.room = w.room /\ z.ld = w.ld
        BY <4>1, InsrtpFields
      <4> HIDE DEF z
      <4> QED BY <2>1, <4>2, <4>3, StopFields DEF z
    <3> USE DEF k
    <3> QED BY <3>1, <3>2, <3>3, <3>4, <3>5, <3>6, <3>7, <3>8, <3>9, <3>12, <3>13
  <2> QED BY <2>2, <2>6 DEF Lean
<1> QED BY <1>1, <1>2, <1>3

-----------------------------------------------------------------------------
(* The whole walk, from its start to the lock going in.                    *)

\* The walk from w, turn by turn.
Turns(w, f) == f = [n \in 0 .. Len(w.list) |-> IF n = 0 THEN w ELSE Turn(f[n - 1])]

\* The recursive function exists.
LEMMA TurnsExist ==
    ASSUME NEW w \in Work
    PROVE  \E f : Turns(w, f) /\ Walk(w) = f[Len(w.list)]
<1> DEFINE Upto(n, f) == f = [i \in 0 .. n |-> IF i = 0 THEN w ELSE Turn(f[i - 1])]
           S == {n \in Nat : \E f : Upto(n, f)}
<1>1. 0 \in S
  <2>1. Upto(0, [i \in 0 .. 0 |-> w])
    OBVIOUS
  <2> QED BY <2>1
<1>2. ASSUME NEW n \in Nat, n \in S PROVE n + 1 \in S
  <2>1. PICK f : Upto(n, f)
    BY <1>2
  <2> DEFINE g == [i \in 0 .. n + 1 |-> IF i <= n THEN f[i] ELSE Turn(f[n])]
  <2>2. ASSUME NEW i \in 0 .. n + 1
        PROVE  g[i] = IF i = 0 THEN w ELSE Turn(g[i - 1])
    <3>1. CASE i = 0
      BY <2>1, <3>1
    <3>2. CASE i \in 1 .. n
      <4>1. g[i] = f[i] /\ g[i - 1] = f[i - 1]
        BY <3>2
      <4>2. f[i] = Turn(f[i - 1])
        BY <2>1, <3>2
      <4> QED BY <3>2, <4>1, <4>2
    <3>3. CASE i = n + 1
      <4>1. g[i] = Turn(f[n]) /\ g[i - 1] = f[n]
        BY <3>3
      <4> QED BY <3>3, <4>1
    <3> QED BY <3>1, <3>2, <3>3
  <2>3. g = [i \in 0 .. n + 1 |-> g[i]]
    OBVIOUS
  <2> HIDE DEF g
  <2>4. Upto(n + 1, g)
    BY <2>2, <2>3
  <2> HIDE DEF Upto
  <2>5. n + 1 \in Nat
    OBVIOUS
  <2> QED BY <2>4, <2>5
<1> HIDE DEF S
<1>3. Len(w.list) \in Nat
  BY Elements DEF Work
<1>4. Len(w.list) \in S
  <2>1. \A i \in 0 .. Len(w.list) - 1 : i \in S => i + 1 \in S
    BY <1>2, <1>3
  <2>2. \A i \in 0 .. Len(w.list) : i \in S
    BY <1>1, <1>3, <2>1, UpTo
  <2> QED BY <1>3, <2>2
<1>5. \E f : Turns(w, f)
  BY <1>4 DEF S, Turns
<1> DEFINE g == CHOOSE f : Turns(w, f)
<1>6. Turns(w, g)
  BY <1>5
<1>7. Walk(w) = g[Len(w.list)]
  BY DEF Walk, Turns
<1> QED BY <1>6, <1>7

\* The walk keeps what its turns keep, and it gets to the end of the list.
LEMMA WalkKeeps ==
    ASSUME NEW w, NEW L, Good(L), NEW ld \in Lck, NEW room, WalkInv(w, L, ld, room), Lean(w, ld)
    PROVE  /\ WalkInv(Walk(w), L, ld, room) /\ Walk(w).file = w.file /\ Lean(Walk(w), ld)
           /\ Walk(w).result # "go" \/ Walk(w).at > Len(Walk(w).list)
<1> DEFINE N == Len(w.list)
           Over(v) == v.result # "go" \/ v.at > Len(v.list)
<1>1. w \in Work /\ N \in Nat /\ w.at \in Nat \ {0}
  <2>1. w \in Work
    BY DEF WalkInv, Content
  <2> QED BY <2>1, Elements DEF Work
<1>2. PICK f : Turns(w, f) /\ Walk(w) = f[N]
  BY <1>1, TurnsExist
<1>3. f[0] = w /\ \A n \in 0 .. N - 1 : f[n + 1] = Turn(f[n])
  BY <1>1, <1>2 DEF Turns
<1>4. \A v : WalkInv(v, L, ld, room) => Len(v.list) \in Int /\ v.at \in Int
  <2> SUFFICES ASSUME NEW v, WalkInv(v, L, ld, room) PROVE Len(v.list) \in Int /\ v.at \in Int
    OBVIOUS
  <2>1. v \in Work
    BY DEF WalkInv, Content
  <2> QED BY <2>1, Elements DEF Work
<1> HIDE DEF N
<1> DEFINE Sound(n) == WalkInv(f[n], L, ld, room) /\ f[n].file = w.file /\ Lean(f[n], ld)
                       /\ (Over(f[n]) \/ Len(f[n].list) - f[n].at + 1 <= N - n)
           S == {n \in Nat : Sound(n)}
<1>5. 0 \in S
  <2>1. Len(w.list) = N
    BY DEF N
  <2>2. Len(w.list) - w.at + 1 <= N - 0
    BY <1>1, <2>1
  <2> QED BY <1>3, <2>2
<1>6. ASSUME NEW n \in 0 .. N - 1, n \in S PROVE n + 1 \in S
  <2>1. Sound(n)
    BY <1>6
  <2>2. WalkInv(f[n + 1], L, ld, room) /\ f[n + 1].file = w.file /\ Lean(f[n + 1], ld)
        /\ (Nearer(f[n], f[n + 1]) \/ (f[n + 1] = f[n] /\ Over(f[n])))
    BY <1>3, <2>1, TurnKeeps, TurnLean
  <2>3. Over(f[n + 1]) \/ Len(f[n + 1].list) - f[n + 1].at + 1 <= N - (n + 1)
    <3>1. CASE Over(f[n])
      <4>1. f[n + 1] = f[n]
        BY <1>3, <3>1 DEF Turn
      <4> QED BY <3>1, <4>1
    <3>2. CASE Over(f[n + 1])
      BY <3>2
    <3>3. CASE ~Over(f[n]) /\ Len(f[n + 1].list) - f[n + 1].at < Len(f[n].list) - f[n].at
      <4> DEFINE a == Len(f[n + 1].list)
                 b == f[n + 1].at
                 c == Len(f[n].list)
                 d == f[n].at
      <4>1. a \in Int /\ b \in Int /\ c \in Int /\ d \in Int /\ a - b < c - d /\ c - d + 1 <= N - n
        BY <1>4, <2>1, <2>2, <3>3
      <4> HIDE DEF a, b, c, d
      <4>2. a - b + 1 <= N - (n + 1)
        BY <1>1, <4>1
      <4> QED BY <4>2 DEF a, b
    <3> QED BY <2>1, <2>2, <3>1, <3>2, <3>3 DEF Nearer
  <2>4. n + 1 \in Nat /\ Sound(n + 1)
    BY <1>1, <2>2, <2>3
  <2> HIDE DEF Sound
  <2> QED BY <2>4
<1> HIDE DEF S
<1>7. N \in S
  <2>1. \A n \in 0 .. N - 1 : n \in S => n + 1 \in S
    BY <1>6
  <2>2. \A n \in 0 .. N : n \in S
    BY <1>1, <1>5, <2>1, UpTo
  <2> QED BY <1>1, <2>2
<1>8. Sound(N)
  BY <1>7 DEF S
<1>9. Over(f[N])
  BY <1>1, <1>4, <1>8
<1> QED BY <1>2, <1>8, <1>9

\* The least and the greatest of the places that CHOOSE names.
LEMMA Chosen ==
    ASSUME NEW n \in Nat, NEW T \in SUBSET (0 .. n), T # {}
    PROVE  /\ LET k == CHOOSE x \in T : \A y \in T : x <= y IN k \in T /\ \A y \in T : k <= y
           /\ LET k == CHOOSE x \in T : \A y \in T : y <= x IN k \in T /\ \A y \in T : y <= k
<1>1. \E x \in T : \A y \in T : x <= y
  BY Least
<1>2. \E x \in T : \A y \in T : y <= x
  BY Greatest
<1> QED BY <1>1, <1>2

\* Where blocked() says to begin.
LEMMA InsrtSays ==
    ASSUME NEW L \in Seq(Record), Sorted(L), NEW ld \in Lck, NEW k, k = Insrt(L, ld)
    PROVE  /\ k \in 0 .. Len(L)
           /\ \A n \in 1 .. k : L[n].start < ld.start
           /\ \A n \in 1 .. k - 1 : L[n].owner = ld.owner => L[n].end + 1 < ld.start
           /\ k = 0 => \A n \in DOMAIN L : ld.start <= L[n].start
<1> DEFINE before == {n \in DOMAIN L : \A m \in 1 .. n : L[m].start < ld.start}
           own == {n \in before : L[n].owner = ld.owner /\ ld.start - 1 <= L[n].end}
           first == CHOOSE n \in own : \A m \in own : n <= m
           last == CHOOSE n \in before : \A m \in before : m <= n
<1>1. /\ Len(L) \in Nat /\ DOMAIN L = 1 .. Len(L)
      /\ \A n \in DOMAIN L : L[n] \in Record
      /\ \A n \in DOMAIN L : L[n].start \in Int /\ L[n].end \in Int
      /\ ld.start \in Int
  BY Elements, RecordFields, LckFields
<1>2. k = IF own # {} THEN first ELSE IF before # {} THEN last ELSE 0
  BY DEF Insrt
<1>3. /\ before \in SUBSET (0 .. Len(L)) /\ own \in SUBSET (0 .. Len(L)) /\ own \subseteq before
      /\ \A n \in before : n \in DOMAIN L /\ \A m \in 1 .. n : L[m].start < ld.start
  BY <1>1
<1>4. own # {} => first \in own /\ \A m \in own : first <= m
  <2> HIDE DEF own
  <2> QED BY <1>1, <1>3, Chosen
<1>5. before # {} => last \in before /\ \A m \in before : m <= last
  <2> HIDE DEF before, own
  <2> QED BY <1>1, <1>3, Chosen
<1>6. \A n \in before : \A m \in 1 .. n : m \in before
  <2> SUFFICES ASSUME NEW n \in before, NEW m \in 1 .. n PROVE m \in before
    OBVIOUS
  <2>1. m \in DOMAIN L /\ \A i \in 1 .. m : i \in 1 .. n
    BY <1>1, <1>3
  <2> QED BY <1>3, <2>1
<1> HIDE DEF first, last
<1>7. CASE own # {}
  <2>1. k = first /\ k \in own /\ k \in before /\ k \in 1 .. Len(L)
    BY <1>1, <1>2, <1>3, <1>4, <1>7
  <2>2. ASSUME NEW n \in 1 .. k - 1, L[n].owner = ld.owner PROVE L[n].end + 1 < ld.start
    <3>1. n \in before
      <4>1. n \in 1 .. k
        BY <2>1
      <4> HIDE DEF before
      <4> QED BY <1>6, <2>1, <4>1
    <3>2. n \notin own
      <4>1. ~(k <= n)
        BY <2>1
      <4> HIDE DEF own
      <4> QED BY <1>4, <1>7, <2>1, <4>1
    <3> QED BY <1>1, <1>3, <2>2, <3>1, <3>2
  <2>3. \A n \in 1 .. k : L[n].start < ld.start
    BY <1>3, <2>1
  <2> QED BY <1>1, <2>1, <2>2, <2>3
<1>8. CASE own = {} /\ before # {}
  <2>1. k = last /\ k \in before /\ k \in 1 .. Len(L)
    BY <1>1, <1>2, <1>3, <1>5, <1>8
  <2>2. ASSUME NEW n \in 1 .. k - 1, L[n].owner = ld.owner PROVE L[n].end + 1 < ld.start
    <3>1. n \in before /\ n \notin own
      <4>1. n \in 1 .. k
        BY <2>1
      <4> HIDE DEF before, own
      <4> QED BY <1>6, <1>8, <2>1, <4>1
    <3> QED BY <1>1, <1>3, <2>2, <3>1
  <2>3. \A n \in 1 .. k : L[n].start < ld.start
    BY <1>3, <2>1
  <2> QED BY <1>1, <2>1, <2>2, <2>3
<1>9. CASE own = {} /\ before = {}
  <2>1. k = 0
    BY <1>2, <1>9
  <2>2. ASSUME NEW n \in DOMAIN L PROVE ld.start <= L[n].start
    <3>1. 1 \in DOMAIN L /\ 1 <= n /\ 1 \notin before
      BY <1>1, <1>9
    <3>2. ~(L[1].start < ld.start)
      BY <3>1
    <3>3. L[1].start <= L[n].start
      BY <3>1 DEF Sorted
    <3> QED BY <1>1, <3>1, <3>2, <3>3
  <2> QED BY <1>1, <2>1, <2>2
<1> QED BY <1>7, <1>8, <1>9

\* A lock may be put in from the place that blocked() gives, and an unlock from the
\* head of the list.
Begins(L, insrt, ld) == (ld.type = "un" /\ insrt = 0) \/ insrt = Insrt(L, ld)

\* The walk starts sound.
LEMMA StartInv ==
    ASSUME NEW f \in File, NEW L, L = v_filocks[f], Good(L), NEW ld \in Lck, ld.start <= ld.end,
           NEW records \in Int, records <= t_flckrec, NEW insrt, Begins(L, insrt, ld)
    PROVE  /\ WalkInv(Start(f, insrt, ld, records), L, ld, t_flckrec - records)
           /\ Start(f, insrt, ld, records).file = f
<1> DEFINE s == Start(f, insrt, ld, records)
<1>1. /\ L \in Seq(Record) /\ Sorted(L) /\ Len(L) \in Nat /\ DOMAIN L = 1 .. Len(L)
      /\ \A n \in DOMAIN L : L[n] \in Record
  BY Elements DEF Good
<1>2. /\ insrt \in 0 .. Len(L)
      /\ \A n \in 1 .. insrt - 1 : L[n].owner = ld.owner => L[n].end + 1 < ld.start
      /\ ld.type # "un" => /\ \A n \in 1 .. insrt : L[n].start < ld.start
                           /\ insrt = 0 => \A n \in DOMAIN L : ld.start <= L[n].start
  BY <1>1, InsrtSays DEF Begins
<1>3. t_flckrec \in Int
  BY FlockAssumption DEF FlockAssumption
<1> DEFINE a == IF insrt = 0 THEN 1 ELSE insrt
           b == t_flckrec - records
<1>4. s = [file |-> f, list |-> L, at |-> a, ld |-> ld, insrtp |-> insrt, woke |-> {},
           room |-> b, result |-> "go"]
  BY DEF Start
<1>5. a \in Nat \ {0} /\ b \in Int /\ b >= 0 /\ insrt \in Nat
      /\ (a = 1 \/ a = insrt)
  BY <1>1, <1>2, <1>3
<1> HIDE DEF a, b, s
<1>6. /\ s \in Work /\ s.file = f /\ s.list = L /\ s.at = a /\ s.ld = ld /\ s.insrtp = insrt
      /\ s.woke = {} /\ s.room = b /\ s.result = "go"
  BY <1>1, <1>4, <1>5 DEF Work
<1>7. Content(s, L, ld, b)
  <2>1. Grown(s, L, ld)
    BY <1>6, LckFields DEF Grown
  <2>2. Others(s, L) /\ Wakes(s, L)
    BY <1>6 DEF Others, Wakes
  <2>3. Bytes(s, L)
    BY <1>6 DEF Bytes, Lost
  <2>4. Room(s, L, b)
    BY <1>1, <1>5, <1>6 DEF Room
  <2> QED BY <1>6, <2>1, <2>2, <2>3, <2>4 DEF Content
<1>8. Passed(s)
  <2>1. ASSUME NEW n \in 1 .. s.at - 1 PROVE n \in DOMAIN s.list /\ (Own(s, n) => Off(s.list[n], s.ld))
    <3>1. a = insrt /\ n \in 1 .. insrt - 1 /\ n \in DOMAIN L
      BY <1>1, <1>2, <1>5, <1>6, <2>1
    <3>2. L[n].owner = ld.owner => L[n].end + 1 < ld.start
      BY <1>2, <3>1
    <3> QED BY <1>1, <1>6, <3>1, <3>2, RecordFields, LckFields DEF Own, Off
  <2> QED BY <2>1 DEF Passed
<1>9. Point(s)
  <2> SUFFICES ASSUME ld.type # "un"
               PROVE  /\ insrt <= Len(L)
                      /\ insrt < a \/ (insrt = a /\ L[a].start < ld.start)
                      /\ \A n \in 1 .. insrt : L[n].start <= ld.start
                      /\ insrt = 0 => \A n \in DOMAIN L : ld.start <= L[n].start
    BY <1>6 DEF Point
  <2>1. \A n \in 1 .. insrt : n \in DOMAIN L /\ L[n].start < ld.start
    BY <1>1, <1>2
  <2>2. \A n \in 1 .. insrt : L[n].start <= ld.start
    BY <1>1, <2>1, RecordFields, LckFields
  <2>3. insrt < a \/ (insrt = a /\ L[a].start < ld.start)
    <3>1. CASE insrt = 0
      BY <3>1 DEF a
    <3>2. CASE insrt # 0
      <4>1. a = insrt /\ insrt \in 1 .. insrt
        BY <1>2, <3>2 DEF a
      <4> QED BY <2>1, <4>1
    <3> QED BY <3>1, <3>2
  <2> QED BY <1>1, <1>2, <2>2, <2>3
<1>10. Ended(s, L)
  BY <1>6, GoEnded
<1> QED BY <1>6, <1>7, <1>8, <1>9, <1>10 DEF WalkInv, b, s

\* Where the lock goes in.
LEMMA PlaceSays ==
    ASSUME NEW w \in Work, Good(w.list), Point(w), w.ld.type # "un", NEW k, k = Place(w)
    PROVE  /\ k \in Nat /\ k + 1 \in 1 .. Len(w.list) + 1
           /\ k > 0 => w.list[k].start <= w.ld.start
           /\ k < Len(w.list) => w.ld.start <= w.list[k + 1].start
<1> DEFINE list == w.list
           ld == w.ld
           i == w.insrtp
           later == {n \in i .. Len(list) : n > 0 /\ \A m \in i .. n : list[m].start < ld.start}
           last == CHOOSE n \in later : \A m \in later : m <= n
<1>1. /\ list \in Seq(Record) /\ Len(list) \in Nat /\ DOMAIN list = 1 .. Len(list) /\ Sorted(list)
      /\ \A n \in DOMAIN list : list[n].start \in Int
      /\ ld.start \in Int /\ i \in Nat
  BY Elements, RecordFields, LckFields DEF Work, Good
<1>2. /\ i <= Len(list)
      /\ \A n \in 1 .. i : list[n].start <= ld.start
      /\ i = 0 => \A n \in DOMAIN list : ld.start <= list[n].start
  BY DEF Point
<1>3. k = IF i = 0 \/ later = {} THEN i ELSE last
  BY DEF Place
<1>4. later # {} => last \in later /\ \A m \in later : m <= last
  <2>1. later \in SUBSET (0 .. Len(list))
    BY <1>1
  <2> HIDE DEF later
  <2> QED BY <1>1, <2>1, Chosen
<1> HIDE DEF last
<1>5. CASE i = 0
  BY <1>1, <1>2, <1>3, <1>5
<1>6. CASE i # 0 /\ later = {}
  <2>1. k = i /\ i \in 1 .. Len(list) /\ i \in 1 .. i
    BY <1>1, <1>2, <1>3, <1>6
  <2>2. i \notin later
    BY <1>6
  <2>3. ~(list[i].start < ld.start)
    BY <1>1, <2>1, <2>2
  <2>4. ASSUME k < Len(list) PROVE ld.start <= list[k + 1].start
    <3>1. i + 1 \in DOMAIN list /\ i \in DOMAIN list /\ i <= i + 1
      BY <1>1, <2>1, <2>4
    <3>2. list[i].start <= list[i + 1].start
      BY <1>1, <3>1 DEF Sorted
    <3> QED BY <1>1, <2>1, <2>3, <3>1, <3>2
  <2> QED BY <1>1, <1>2, <2>1, <2>4
<1>7. CASE i # 0 /\ later # {}
  <2>1. k = last /\ k \in later /\ k \in 1 .. Len(list) /\ i <= k /\ list[k].start < ld.start
    <3>1. k = last /\ k \in later
      BY <1>3, <1>4, <1>7
    <3>2. k \in i .. Len(list) /\ k > 0 /\ \A m \in i .. k : list[m].start < ld.start
      BY <3>1
    <3> HIDE DEF later
    <3> QED BY <1>1, <3>1, <3>2
  <2>2. ASSUME k < Len(list), list[k + 1].start < ld.start PROVE FALSE
    <3>1. k + 1 \in later
      BY <1>1, <2>1, <2>2
    <3> HIDE DEF later
    <3> QED BY <1>1, <1>4, <1>7, <2>1, <3>1
  <2>3. k < Len(list) => ld.start <= list[k + 1].start
    BY <1>1, <2>1, <2>2
  <2>4. list[k].start <= ld.start
    BY <1>1, <2>1
  <2> QED BY <1>1, <2>1, <2>3, <2>4
<1> QED BY <1>5, <1>6, <1>7

\* What a list is to be once the lock is in.
Locked(list, L, p, ld) ==
    \A b \in Byte, t \in Type :
        Has(list, p, b, t) <=> IF Within(b, ld) THEN t = ld.type ELSE Has(L, p, b, t)
Done(w, L, f, ld, room) ==
    /\ Good(w.list) /\ w.woke \in SUBSET Names
    /\ \A x \in Record : x.owner # ld.owner => (Holds(w.list, x) <=> Holds(L, x))
    /\ \A x \in Record : Holds(L, x) /\ x.wakeflg => Holds(w.list, x) \/ Name(f, x) \in w.woke
    /\ Len(w.list) <= room + Len(L)
    /\ w.result = "ENOLCK" => Failed(w.list, L, ld)
    /\ w.result # "ENOLCK" => Locked(w.list, L, ld.owner, ld)

\* A record that is off those of its owner goes in at the place for its start.
LEMMA Inserted ==
    ASSUME NEW list, Good(list), NEW x \in Record, x.start <= x.end, NEW i \in 1 .. Len(list) + 1,
           i > 1 => list[i - 1].start <= x.start,
           i <= Len(list) => x.start <= list[i].start,
           \A y \in Record : Holds(list, y) /\ y.owner = x.owner => Off(x, y) \/ Off(y, x)
    PROVE  /\ Good(InsertAt(list, i, x))
           /\ Len(InsertAt(list, i, x)) = Len(list) + 1
           /\ \A y : Holds(InsertAt(list, i, x), y) <=> Holds(list, y) \/ y = x
<1> DEFINE new == InsertAt(list, i, x)
<1>1. list \in Seq(Record) /\ Proper(list) /\ Injective(list) /\ Sorted(list) /\ Apart(list)
  BY DEF Good
<1>2. ~Holds(list, x)
  BY RecordFields DEF Off
<1>3. /\ new \in Seq(Record) /\ \A y : Holds(new, y) <=> Holds(list, y) \/ y = x
      /\ Injective(new)
  BY <1>1, <1>2, InsertHolds
<1>4. Sorted(new)
  BY <1>1, SortedInsert
<1>5. Len(new) = Len(list) + 1
  BY <1>1, InsertAtProperties
<1> HIDE DEF new
<1>6. Proper(new)
  BY <1>1, <1>3 DEF Proper
<1>7. Apart(new)
  BY <1>1, <1>3 DEF Apart
<1> QED BY <1>3, <1>4, <1>5, <1>6, <1>7 DEF Good, new

\* At the end of the walk its bytes are free of the caller's other locks.
LEMMA Cleared ==
    ASSUME NEW w, NEW L, NEW ld \in Lck, NEW room, WalkInv(w, L, ld, room), w.at > Len(w.list)
    PROVE  /\ \A x \in Record : Holds(w.list, x) /\ x.owner = w.ld.owner => Off(x, w.ld) \/ Off(w.ld, x)
           /\ \A b \in Byte, t \in Type : Within(b, w.ld) => ~Has(w.list, w.ld.owner, b, t)
           /\ \A b \in Byte, t \in Type :
                ~Within(b, w.ld) => (Has(w.list, w.ld.owner, b, t) <=> Has(L, w.ld.owner, b, t))
<1>1. /\ w \in Work /\ Passed(w) /\ Bytes(w, L) /\ w.ld \in Lck /\ w.at \in Nat
      /\ Len(w.list) \in Nat /\ DOMAIN w.list = 1 .. Len(w.list)
  <2>1. w \in Work /\ Passed(w) /\ Bytes(w, L)
    BY DEF WalkInv, Content
  <2> QED BY <2>1, Elements DEF Work
<1>2. ASSUME NEW x \in Record, Holds(w.list, x), x.owner = w.ld.owner
      PROVE  Off(x, w.ld) \/ Off(w.ld, x)
  <2>1. PICK n \in DOMAIN w.list : w.list[n] = x
    BY <1>2 DEF Holds
  <2>2. n \in 1 .. w.at - 1 /\ Own(w, n)
    BY <1>1, <1>2, <2>1 DEF Own
  <2> QED BY <1>1, <2>1, <2>2 DEF Passed
<1>3. ASSUME NEW b \in Byte, NEW t \in Type, Within(b, w.ld), Has(w.list, w.ld.owner, b, t)
      PROVE  FALSE
  <2>1. PICK x \in Record : Holds(w.list, x) /\ Covers(x, w.ld.owner, b, t)
    BY <1>3 DEF Has
  <2>2. b \in Int
    BY FlockAssumption DEF Byte, FlockAssumption
  <2>3. Off(x, w.ld) \/ Off(w.ld, x)
    BY <1>2, <2>1 DEF Covers
  <2> QED BY <1>1, <1>3, <2>1, <2>2, <2>3, RecordFields, LckFields DEF Off, Covers, Within
<1>4. ASSUME NEW b \in Byte, NEW t \in Type, ~Within(b, w.ld)
      PROVE  Has(w.list, w.ld.owner, b, t) <=> Has(L, w.ld.owner, b, t)
  BY <1>1, <1>4 DEF Bytes, Lost
<1> QED BY <1>2, <1>3, <1>4

\* What is so of every walk that may be the end of flckadj().
Reached(w, L, ld, room) ==
    /\ w \in Work /\ Good(w.list) /\ w.woke \in SUBSET Names /\ w.ld \in Lck
    /\ w.ld.owner = ld.owner /\ w.ld.type = ld.type /\ ld.owner \in Proc
    /\ w.ld.start \in Byte /\ w.ld.end \in Byte /\ w.ld.start <= w.ld.end
    /\ w.room \in Int /\ w.room >= 0 /\ Len(w.list) \in Nat /\ Len(L) \in Nat
    /\ w.room + Len(w.list) = room + Len(L)
    /\ \A x \in Record : x.owner # ld.owner => (Holds(w.list, x) <=> Holds(L, x))
    /\ \A x \in Record : Holds(L, x) /\ x.wakeflg => Holds(w.list, x) \/ Name(w.file, x) \in w.woke
    /\ \A b \in Byte : Within(b, ld) => Within(b, w.ld)
    /\ \A b \in Byte : Within(b, w.ld) /\ ~Within(b, ld) =>
            ld.type \in Type /\ \A t \in Type : Has(L, ld.owner, b, t) <=> t = ld.type
    /\ \A b \in Byte, t \in Type :
            ~Within(b, w.ld) => (Has(w.list, ld.owner, b, t) <=> Has(L, ld.owner, b, t))

\* It is so of a sound walk.
LEMMA Result ==
    ASSUME NEW w, NEW L, Good(L), NEW ld \in Lck, NEW room, WalkInv(w, L, ld, room)
    PROVE  Reached(w, L, ld, room)
<1>1. /\ w \in Work /\ Good(w.list) /\ Grown(w, L, ld) /\ Others(w, L) /\ Bytes(w, L)
      /\ Wakes(w, L) /\ Room(w, L, room)
  BY DEF WalkInv, Content
<1>2. w.ld \in Lck /\ w.room \in Int /\ w.woke \in SUBSET Names
      /\ w.list \in Seq(Record) /\ L \in Seq(Record)
  BY <1>1 DEF Work, Good
<1>3. Len(w.list) \in Nat /\ Len(L) \in Nat
  BY <1>2, Elements
<1>4. w.ld.owner = ld.owner /\ w.ld.type = ld.type /\ ld.owner \in Proc
  BY <1>1, LckFields DEF Grown
<1>5. /\ w.ld.start <= ld.start /\ ld.start <= ld.end /\ ld.end <= w.ld.end
      /\ \A b \in Byte : Within(b, w.ld) /\ ~Within(b, ld) => Has(L, ld.owner, b, ld.type)
  BY <1>1 DEF Grown
<1>6. /\ w.ld.start \in Int /\ w.ld.end \in Int /\ ld.start \in Int /\ ld.end \in Int
      /\ w.ld.start \in Byte /\ w.ld.end \in Byte
  BY <1>2, LckFields
<1>7. w.ld.start <= w.ld.end
  BY <1>5, <1>6
<1>8. \A b \in Byte : Within(b, ld) => Within(b, w.ld)
  <2>1. \A b \in Byte : b \in Int
    BY FlockAssumption DEF Byte, FlockAssumption
  <2> QED BY <1>5, <1>6, <2>1 DEF Within
<1>9. ASSUME NEW b \in Byte, Within(b, w.ld), ~Within(b, ld)
      PROVE  /\ \A t \in Type : Has(L, ld.owner, b, t) <=> t = ld.type
             /\ ld.type \in Type
  <2>1. Has(L, ld.owner, b, ld.type)
    BY <1>5, <1>9
  <2>2. \A t \in Type : Has(L, ld.owner, b, t) => t = ld.type
    BY <1>4, <2>1, OneType
  <2> QED BY <2>1, <2>2 DEF Has, Covers, Record
<1>10. \A b \in Byte, t \in Type :
         ~Within(b, w.ld) => (Has(w.list, ld.owner, b, t) <=> Has(L, ld.owner, b, t))
  BY <1>1, <1>4 DEF Bytes, Lost
<1>11. w.room + Len(w.list) = room + Len(L) /\ w.room >= 0
  BY <1>1 DEF Room
<1>12. \A x \in Record : x.owner # ld.owner => (Holds(w.list, x) <=> Holds(L, x))
  BY <1>1, <1>4 DEF Others
<1>13. \A x \in Record :
        Holds(L, x) /\ x.wakeflg => Holds(w.list, x) \/ Name(w.file, x) \in w.woke
  BY <1>1 DEF Wakes
<1> QED BY <1>1, <1>2, <1>3, <1>4, <1>6, <1>7, <1>8, <1>9, <1>10, <1>11, <1>12, <1>13
       DEF Reached

\* The lock goes in where the walk has made way.
LEMMA LockIn ==
    ASSUME NEW w, NEW L, Good(L), NEW ld \in Lck, NEW room \in Int, WalkInv(w, L, ld, room),
           w.at > Len(w.list), w.ld.type # "un", w.room > 0, w.result = "go"
    PROVE  Done(insflck(w, w.ld, Place(w)), L, w.file, ld, room)
<1> DEFINE k == Place(w)
           x == NewRecord(w.ld)
           v == insflck(w, w.ld, k)
           p == ld.owner
<1>0. Reached(w, L, ld, room)
  BY Result
<1>1. /\ w \in Work /\ Good(w.list) /\ w.woke \in SUBSET Names /\ w.ld \in Lck
      /\ w.ld.owner = p /\ w.ld.type = ld.type /\ p \in Proc
      /\ w.ld.start \in Byte /\ w.ld.end \in Byte /\ w.ld.start <= w.ld.end
  BY <1>0 DEF Reached
<1>2. /\ x \in Record /\ x.owner = p /\ x.type = ld.type /\ x.start = w.ld.start
      /\ x.end = w.ld.end
  <2>1. w.ld.type \in Type /\ w.ld.owner \in Proc
    BY <1>1, LckFields
  <2> QED BY <1>1, <2>1 DEF NewRecord, Record
<1>3. /\ k \in Nat /\ k + 1 \in 1 .. Len(w.list) + 1
      /\ k > 0 => w.list[k].start <= w.ld.start
      /\ k < Len(w.list) => w.ld.start <= w.list[k + 1].start
  <2>1. Point(w)
    BY DEF WalkInv
  <2> HIDE DEF k
  <2> QED BY <1>1, <2>1, PlaceSays DEF k
<1> HIDE DEF k
<1>4. /\ v.list = InsertAt(w.list, k + 1, x) /\ v.woke = w.woke /\ v.result = "go"
  BY <1>1, <1>2, <1>3, InsFields
<1> HIDE DEF x, v
<1>5. /\ \A y \in Record : Holds(w.list, y) /\ y.owner = p => Off(y, w.ld) \/ Off(w.ld, y)
      /\ \A b \in Byte, t \in Type : Within(b, w.ld) => ~Has(w.list, p, b, t)
  BY <1>1, Cleared
<1>6. /\ Good(v.list) /\ Len(v.list) = Len(w.list) + 1
      /\ \A y : Holds(v.list, y) <=> Holds(w.list, y) \/ y = x
  <2>1. \A y \in Record : Holds(w.list, y) /\ y.owner = x.owner => Off(x, y) \/ Off(y, x)
    BY <1>1, <1>2, <1>5 DEF Off
  <2>2. w.list \in Seq(Record)
    BY <1>1 DEF Good
  <2> DEFINE i == k + 1
  <2>3. /\ i \in 1 .. Len(w.list) + 1
        /\ i > 1 => w.list[i - 1].start <= x.start
        /\ i <= Len(w.list) => x.start <= w.list[i].start
    <3>1. Len(w.list) \in Nat
      BY <2>2, Elements
    <3>2. k \in Int
      BY <1>3
    <3>3. k = i - 1 /\ (i > 1 => k > 0) /\ (i <= Len(w.list) => k < Len(w.list))
      BY <3>1, <3>2
    <3> QED BY <1>2, <1>3, <3>2, <3>3
  <2> HIDE DEF i
  <2>4. x.start <= x.end
    BY <1>1, <1>2
  <2>5. /\ Good(InsertAt(w.list, i, x))
        /\ Len(InsertAt(w.list, i, x)) = Len(w.list) + 1
        /\ \A y : Holds(InsertAt(w.list, i, x), y) <=> Holds(w.list, y) \/ y = x
    BY <1>1, <1>2, <2>1, <2>3, <2>4, Inserted
  <2> QED BY <1>4, <2>5 DEF i
<1>7. Len(v.list) <= room + Len(L)
  <2>1. /\ w.room \in Int /\ Len(w.list) \in Nat /\ Len(L) \in Nat
        /\ w.room + Len(w.list) = room + Len(L)
    BY <1>0 DEF Reached
  <2> QED BY <1>6, <2>1
<1>8. \A y \in Record : y.owner # p => (Holds(v.list, y) <=> Holds(L, y))
  <2>1. \A y \in Record : y.owner # p => (Holds(w.list, y) <=> Holds(L, y))
    BY <1>0 DEF Reached
  <2> QED BY <1>2, <1>6, <2>1
<1>9. \A y \in Record : Holds(L, y) /\ y.wakeflg => Holds(v.list, y) \/ Name(w.file, y) \in v.woke
  <2>1. \A y \in Record :
            Holds(L, y) /\ y.wakeflg => Holds(w.list, y) \/ Name(w.file, y) \in w.woke
    BY <1>0 DEF Reached
  <2> QED BY <1>4, <1>6, <2>1
<1>10. ASSUME NEW b \in Byte, NEW t \in Type
       PROVE  Has(v.list, p, b, t) <=> IF Within(b, ld) THEN t = ld.type ELSE Has(L, p, b, t)
  <2>1. Has(v.list, p, b, t) <=> Has(w.list, p, b, t) \/ Covers(x, p, b, t)
    BY <1>2, <1>6 DEF Has
  <2>2. Covers(x, p, b, t) <=> Within(b, w.ld) /\ t = ld.type
    BY <1>2 DEF Covers, Within
  <2>3. Within(b, w.ld) => ~Has(w.list, p, b, t)
    BY <1>5
  <2>4. /\ Within(b, ld) => Within(b, w.ld)
        /\ Within(b, w.ld) /\ ~Within(b, ld) => (Has(L, p, b, t) <=> t = ld.type)
        /\ ~Within(b, w.ld) => (Has(w.list, p, b, t) <=> Has(L, p, b, t))
    BY <1>0 DEF Reached
  <2> QED BY <2>1, <2>2, <2>3, <2>4
<1>11. Done(v, L, w.file, ld, room)
  BY <1>1, <1>4, <1>6, <1>7, <1>8, <1>9, <1>10 DEF Done, Locked
<1> QED BY <1>11 DEF v, k

\* The walk, however it ended, and the lock itself.
LEMMA FlckadjDoes ==
    ASSUME NEW f \in File, NEW L, L = v_filocks[f], Good(L), NEW ld \in Lck, ld.start <= ld.end,
           NEW records \in Int, records <= t_flckrec, NEW insrt, Begins(L, insrt, ld)
    PROVE  Done(flckadj(f, insrt, ld, records), L, f, ld, t_flckrec - records)
<1> DEFINE room == t_flckrec - records
           w == Walk(Start(f, insrt, ld, records))
           v == flckadj(f, insrt, ld, records)
           p == ld.owner
<1>1. /\ WalkInv(Start(f, insrt, ld, records), L, ld, room) /\ Start(f, insrt, ld, records).file = f
      /\ Lean(Start(f, insrt, ld, records), ld)
  BY StartInv DEF Lean, Start
<1>2. /\ WalkInv(w, L, ld, room) /\ w.file = f /\ Lean(w, ld)
      /\ w.result # "go" \/ w.at > Len(w.list)
  <2> HIDE DEF room
  <2> QED BY <1>1, WalkKeeps
<1>3. v = IF w.result # "go" \/ ld.type = "un" THEN w
          ELSE IF w.room <= 0 THEN End(w, "ENOLCK")
          ELSE insflck(w, w.ld, Place(w))
  BY DEF flckadj
<1>4. room \in Int
  BY FlockAssumption DEF FlockAssumption
<1> HIDE DEF w, room, v
<1> SUFFICES Done(v, L, f, ld, room)
  BY DEF v, room
<1>. Reached(w, L, ld, room)
  BY <1>2, Result
<1>5. /\ w \in Work /\ Good(w.list) /\ w.woke \in SUBSET Names /\ w.ld \in Lck
      /\ w.ld.owner = p /\ w.ld.type = ld.type /\ p \in Proc
      /\ w.ld.start \in Byte /\ w.ld.end \in Byte /\ w.ld.start <= w.ld.end
      /\ w.room \in Int /\ Len(w.list) <= room + Len(L)
      /\ \A x \in Record : x.owner # p => (Holds(w.list, x) <=> Holds(L, x))
      /\ \A x \in Record :
            Holds(L, x) /\ x.wakeflg => Holds(w.list, x) \/ Name(f, x) \in w.woke
  <2>1. /\ w.room \in Int /\ w.room >= 0 /\ Len(w.list) \in Nat /\ Len(L) \in Nat
        /\ w.room + Len(w.list) = room + Len(L)
    BY DEF Reached
  <2>2. Len(w.list) <= room + Len(L)
    BY <1>4, <2>1
  <2> QED BY <1>2, <2>1, <2>2 DEF Reached
<1>6. Ended(w, L)
  BY <1>2 DEF WalkInv
<1>7. CASE w.result = "ok"
  <2>1. v = w
    BY <1>3, <1>7
  <2>2. ASSUME NEW b \in Byte, NEW t \in Type
        PROVE  Has(w.list, p, b, t) <=> IF Within(b, ld) THEN t = ld.type ELSE Has(L, p, b, t)
    <3>1. /\ Within(b, ld) => Within(b, w.ld)
          /\ Within(b, w.ld) /\ ~Within(b, ld) => (Has(L, p, b, t) <=> t = ld.type)
          /\ ~Within(b, w.ld) => (Has(w.list, p, b, t) <=> Has(L, p, b, t))
      BY DEF Reached
    <3>2. Within(b, w.ld) => Has(w.list, p, b, ld.type)
      BY <1>5, <1>6, <1>7 DEF Ended
    <3>3. Within(b, w.ld) => (Has(w.list, p, b, t) <=> t = ld.type)
      BY <1>5, <3>2, OneType
    <3> QED BY <3>1, <3>3
  <2> QED BY <1>5, <1>7, <2>1, <2>2 DEF Done, Locked
<1>8. CASE w.result = "ENOLCK"
  <2>1. v = w
    BY <1>3, <1>8
  <2>2. w.ld = ld
    BY <1>2, <1>5, <1>8 DEF Lean
  <2>3. Failed(w.list, L, ld)
    BY <1>6, <1>8, <2>2 DEF Ended
  <2> QED BY <1>5, <1>8, <2>1, <2>3 DEF Done
<1>9. CASE w.result = "go"
  <2>1. w.at > Len(w.list)
    BY <1>2, <1>9
  <2>2. \A b \in Byte, t \in Type :
            Has(w.list, p, b, t) <=> Has(L, p, b, t) /\ ~Within(b, w.ld)
    <3>1. /\ \A b \in Byte, t \in Type : Within(b, w.ld) => ~Has(w.list, p, b, t)
          /\ \A b \in Byte, t \in Type :
                ~Within(b, w.ld) => (Has(w.list, p, b, t) <=> Has(L, p, b, t))
      BY <1>2, <1>5, <2>1, Cleared
    <3> QED BY <3>1
  <2>3. CASE ld.type = "un"
    <3>1. v = w
      BY <1>3, <2>3
    <3>2. ASSUME NEW b \in Byte PROVE Within(b, w.ld) <=> Within(b, ld)
      <4>1. ld.type \notin Type
        BY <2>3 DEF Type
      <4> QED BY <4>1 DEF Reached
    <3>3. \A t \in Type : t # ld.type
      BY <2>3 DEF Type
    <3>4. Locked(w.list, L, p, ld)
      BY <2>2, <3>2, <3>3 DEF Locked
    <3> QED BY <1>5, <1>9, <3>1, <3>4 DEF Done
  <2>4. CASE ld.type # "un" /\ w.room <= 0
    <3>1. v = End(w, "ENOLCK")
      BY <1>3, <1>9, <2>4
    <3>2. v.list = w.list /\ v.woke = w.woke /\ v.result = "ENOLCK"
      BY <1>5, <3>1, EndFields
    <3>3. Failed(w.list, L, ld)
      <4>1. w.ld = ld
        BY <1>2, <1>5, <2>4 DEF Lean
      <4>2. ld.end \in ld.start - 1 .. ld.end
        BY LckFields
      <4> QED BY <2>2, <4>1, <4>2 DEF Failed, Within
    <3> QED BY <1>5, <3>2, <3>3 DEF Done
  <2>5. CASE ld.type # "un" /\ w.room > 0
    <3>1. v = insflck(w, w.ld, Place(w))
      BY <1>3, <1>5, <1>9, <2>5
    <3> QED BY <1>2, <1>4, <1>5, <1>9, <2>1, <2>5, <3>1, LockIn
  <2> QED BY <1>5, <2>3, <2>4, <2>5
<1>10. w.result \in {"go", "ok", "ENOLCK"}
  BY <1>5 DEF Work
<1> QED BY <1>7, <1>8, <1>9, <1>10

-----------------------------------------------------------------------------
(* cleanlocks().                                                           *)

\* The list that cleanlocks() leaves, record by record.
Keeps(list, p, f) ==
    f = [n \in 0 .. Len(list) |->
            IF n = 0 THEN << >>
            ELSE IF list[n].owner = p THEN f[n - 1] ELSE Append(f[n - 1], list[n])]

\* The recursive function exists.
LEMMA KeepsExists ==
    ASSUME NEW list \in Seq(Record), NEW p
    PROVE  \E f : Keeps(list, p, f) /\ Kept(list, p) = f[Len(list)]
<1> DEFINE Step(a, n) == IF list[n].owner = p THEN a ELSE Append(a, list[n])
           Upto(n, f) == f = [i \in 0 .. n |-> IF i = 0 THEN << >> ELSE Step(f[i - 1], i)]
           S == {n \in Nat : \E f : Upto(n, f)}
<1> HIDE DEF Step
<1>1. 0 \in S
  <2>1. Upto(0, [i \in 0 .. 0 |-> << >>])
    OBVIOUS
  <2> QED BY <2>1
<1>2. ASSUME NEW n \in Nat, n \in S PROVE n + 1 \in S
  <2>1. PICK f : Upto(n, f)
    BY <1>2
  <2> DEFINE g == [i \in 0 .. n + 1 |-> IF i <= n THEN f[i] ELSE Step(f[n], n + 1)]
  <2>2. ASSUME NEW i \in 0 .. n + 1
        PROVE  g[i] = IF i = 0 THEN << >> ELSE Step(g[i - 1], i)
    <3>1. CASE i = 0
      BY <2>1, <3>1
    <3>2. CASE i \in 1 .. n
      <4>1. g[i] = f[i] /\ g[i - 1] = f[i - 1]
        BY <3>2
      <4>2. f[i] = Step(f[i - 1], i)
        BY <2>1, <3>2
      <4> QED BY <3>2, <4>1, <4>2
    <3>3. CASE i = n + 1
      <4>1. g[i] = Step(f[n], n + 1) /\ g[i - 1] = f[n]
        BY <3>3
      <4> QED BY <3>3, <4>1
    <3> QED BY <3>1, <3>2, <3>3
  <2>3. g = [i \in 0 .. n + 1 |-> g[i]]
    OBVIOUS
  <2> HIDE DEF g
  <2>4. Upto(n + 1, g)
    BY <2>2, <2>3
  <2> HIDE DEF Upto
  <2>5. n + 1 \in Nat
    OBVIOUS
  <2> QED BY <2>4, <2>5
<1> HIDE DEF S
<1>3. Len(list) \in Nat
  BY Elements
<1>4. Len(list) \in S
  <2>1. \A i \in 0 .. Len(list) - 1 : i \in S => i + 1 \in S
    BY <1>2, <1>3
  <2>2. \A i \in 0 .. Len(list) : i \in S
    BY <1>1, <1>3, <2>1, UpTo
  <2> QED BY <1>3, <2>2
<1>5. \E f : Keeps(list, p, f)
  BY <1>4 DEF S, Keeps, Step
<1> DEFINE g == CHOOSE f : Keeps(list, p, f)
<1>6. Keeps(list, p, g)
  BY <1>5
<1>7. Kept(list, p) = g[Len(list)]
  BY DEF Kept, Keeps
<1> QED BY <1>6, <1>7

\* cleanlocks() takes the records of p, and no others.
LEMMA KeptSays ==
    ASSUME NEW list, Good(list), NEW p
    PROVE  /\ Good(Kept(list, p)) /\ Len(Kept(list, p)) <= Len(list)
           /\ \A x : Holds(Kept(list, p), x) <=> Holds(list, x) /\ x.owner # p
<1> DEFINE N == Len(list)
<1>1. /\ list \in Seq(Record) /\ N \in Nat /\ DOMAIN list = 1 .. N
      /\ \A n \in DOMAIN list : list[n] \in Record
      /\ Sorted(list) /\ Injective(list)
  BY Elements DEF Good
<1>2. PICK f : Keeps(list, p, f) /\ Kept(list, p) = f[N]
  BY <1>1, KeepsExists
<1>3. f[0] = << >> /\ \A n \in 1 .. N :
            f[n] = IF list[n].owner = p THEN f[n - 1] ELSE Append(f[n - 1], list[n])
  <2>1. 0 \in 0 .. N /\ \A n \in 1 .. N : n \in 0 .. N /\ n # 0
    BY <1>1
  <2> QED BY <1>2, <2>1 DEF Keeps
<1> HIDE DEF N
<1> DEFINE From(a, n) ==
             /\ a \in Seq(Record) /\ Len(a) <= n /\ Sorted(a) /\ Injective(a)
             /\ \A x : Holds(a, x) <=> \E i \in 1 .. n : list[i] = x /\ x.owner # p
           S == {n \in Nat : From(f[n], n)}
<1>4. 0 \in S
  <2>1. /\ << >> \in Seq(Record) /\ Len(<< >>) <= 0 /\ Sorted(<< >>) /\ Injective(<< >>)
        /\ \A x : ~Holds(<< >>, x)
    BY DEF Sorted, Injective, Holds
  <2>2. \A i \in 1 .. 0 : FALSE
    OBVIOUS
  <2> QED BY <1>3, <2>1, <2>2
<1>5. ASSUME NEW n \in 0 .. N - 1, n \in S PROVE n + 1 \in S
  <2> DEFINE a == f[n]
             b == f[n + 1]
             y == list[n + 1]
  <2>1. n + 1 \in 1 .. N /\ n + 1 - 1 = n /\ n + 1 \in Nat /\ n \in Nat
    BY <1>1
  <2>2. b = IF y.owner = p THEN a ELSE Append(a, y)
    BY <1>3, <2>1
  <2>3. From(a, n) /\ y \in Record /\ n + 1 \in DOMAIN list
    BY <1>1, <1>5, <2>1
  <2>4. \A x : (\E i \in 1 .. n + 1 : list[i] = x /\ x.owner # p)
            <=> (\E i \in 1 .. n : list[i] = x /\ x.owner # p) \/ (x = y /\ y.owner # p)
    <3>1. \A i : i \in 1 .. n + 1 <=> i \in 1 .. n \/ i = n + 1
      BY <2>1
    <3> QED BY <3>1
  <2> HIDE DEF a, b, y
  <2>5. CASE y.owner = p
    <3>1. b = a /\ Len(a) <= n + 1
      <4>1. Len(a) \in Nat /\ Len(a) <= n
        BY <2>3, LenProperties
      <4> QED BY <2>1, <2>2, <2>5, <4>1
    <3>2. From(b, n + 1)
      BY <2>3, <2>4, <2>5, <3>1
    <3> QED BY <2>1, <3>2 DEF b
  <2>6. CASE y.owner # p
    <3>1. b = Append(a, y)
      BY <2>2, <2>6
    <3>2. ~Holds(a, y)
      <4>1. \A i \in 1 .. n : i \in DOMAIN list /\ i # n + 1
        BY <1>1, <2>1
      <4>2. \A i \in 1 .. n : list[i] # y
        BY <1>1, <2>3, <4>1 DEF Injective, y
      <4> QED BY <2>3, <4>2
    <3>3. /\ b \in Seq(Record) /\ Injective(b)
          /\ \A x : Holds(b, x) <=> Holds(a, x) \/ x = y
      BY <2>3, <3>1, <3>2, AppendHolds
    <3>4. /\ Len(b) = Len(a) + 1 /\ Len(a) \in Nat /\ Len(a) <= n /\ b[Len(a) + 1] = y
          /\ DOMAIN a = 1 .. Len(a) /\ DOMAIN b = 1 .. Len(b)
          /\ \A m \in 1 .. Len(a) : b[m] = a[m]
      BY <2>3, <3>1, <3>3, LenProperties
    <3>5. Len(b) <= n + 1
      BY <2>1, <3>4
    <3>6. Sorted(b)
      <4>1. \A m \in 1 .. Len(a) : a[m].start <= y.start
        <5> SUFFICES ASSUME NEW m \in 1 .. Len(a) PROVE a[m].start <= y.start
          OBVIOUS
        <5>1. Holds(a, a[m])
          BY <3>4 DEF Holds
        <5>2. PICK i \in 1 .. n : list[i] = a[m]
          BY <2>3, <5>1
        <5>3. i \in DOMAIN list /\ i <= n + 1
          BY <1>1, <2>1
        <5> QED BY <1>1, <2>3, <5>2, <5>3 DEF Sorted, y
      <4> SUFFICES ASSUME NEW m \in DOMAIN b, NEW k \in DOMAIN b, m <= k
                   PROVE  b[m].start <= b[k].start
        BY DEF Sorted
      <4>2. CASE k \in 1 .. Len(a)
        <5>1. m \in 1 .. Len(a)
          BY <3>4, <4>2
        <5> QED BY <2>3, <3>4, <4>2, <5>1 DEF Sorted
      <4>3. CASE k = Len(a) + 1 /\ m \in 1 .. Len(a)
        BY <3>4, <4>1, <4>3
      <4>4. CASE k = Len(a) + 1 /\ m = Len(a) + 1
        BY <2>3, <3>4, <4>4, RecordFields
      <4> QED BY <3>4, <4>2, <4>3, <4>4
    <3>7. From(b, n + 1)
      BY <2>3, <2>4, <2>6, <3>3, <3>5, <3>6
    <3> QED BY <2>1, <3>7 DEF b
  <2> QED BY <2>5, <2>6
<1> HIDE DEF S
<1>6. N \in S
  <2>1. \A n \in 0 .. N - 1 : n \in S => n + 1 \in S
    BY <1>5
  <2>2. \A n \in 0 .. N : n \in S
    BY <1>1, <1>4, <2>1, UpTo
  <2> QED BY <1>1, <2>2
<1> DEFINE k == Kept(list, p)
<1>7. From(k, N)
  BY <1>2, <1>6 DEF S
<1> HIDE DEF k
<1>8. \A x : Holds(k, x) <=> Holds(list, x) /\ x.owner # p
  BY <1>1, <1>7 DEF Holds
<1>9. Proper(k) /\ Apart(k)
  BY <1>8 DEF Good, Proper, Apart
<1> QED BY <1>7, <1>8, <1>9 DEF k, Good, N

-----------------------------------------------------------------------------
(* The invariant of the system.                                            *)

\* What two processes may have on one byte.
Excl(list) ==
    \A p, q \in Proc, b \in Byte, t, u \in Type :
        p # q /\ Has(list, p, b, t) /\ Has(list, q, b, u) => t = "rd" /\ u = "rd"
\* p sleeps with request r on a record of o, which w names and which bars r.
OnRecord(files, p, w, r, o) ==
    /\ r \in Requests
    /\ \E x \in Record : /\ Holds(files[r.file], x) /\ x.wakeflg
                         /\ Name(r.file, x) = w /\ x.owner = o /\ Bars(x, Lock(p, r))
Sleepers(files, w, r, o) ==
    \A p \in Proc : w[p] # NoRecord => OnRecord(files, p, w[p], r[p], o[p])
Sum(files) == SumFunction([f \in File |-> Len(files[f])])

IInv ==
    /\ TypeOK
    /\ \A f \in File : Good(v_filocks[f]) /\ Excl(v_filocks[f])
    /\ Sleepers(v_filocks, p_wchan, request, blk)
    /\ \A p \in Waiting : request[p] \in Requests
    /\ reccnt <= t_flckrec

\* The records of the files when one list changes, and those of sleeplcks.
LEMMA Records ==
    ASSUME NEW files \in [File -> Seq(Record)], NEW f \in File, NEW list \in Seq(Record)
    PROVE  /\ Sum(files) \in Int
           /\ Sum([files EXCEPT ![f] = list]) = Sum(files) + (Len(list) - Len(files[f]))
<1> DEFINE h == [g \in File |-> Len(files[g])]
           new == [g \in File |-> Len([files EXCEPT ![f] = list][g])]
<1>1. h \in [File -> Int] /\ Len(list) \in Int
  BY LenProperties
<1>2. new = [h EXCEPT ![f] = Len(list)]
  OBVIOUS
<1>3. h[f] = Len(files[f])
  OBVIOUS
<1> HIDE DEF h, new
<1>4. SumFunction(h) \in Int /\ SumFunction(new) = SumFunction(h) + (Len(list) - h[f])
  BY <1>1, <1>2, FlockAssumption, SumChanges DEF FlockAssumption
<1> QED BY <1>3, <1>4 DEF Sum, h, new

Waiters(b) == {p \in Proc : b[p] # NoProc}
\* One process more or less that waits.
LEMMA WaitersCount ==
    ASSUME NEW b \in [Proc -> Proc \cup {NoProc}], NEW p \in Proc, NEW o \in Proc \cup {NoProc},
           NEW c, c = [b EXCEPT ![p] = o]
    PROVE  /\ Cardinality(Waiters(b)) \in Nat /\ Cardinality(Waiters(c)) \in Nat
           /\ o = NoProc /\ p \in Waiters(b) =>
                Cardinality(Waiters(c)) = Cardinality(Waiters(b)) - 1
           /\ o # NoProc /\ p \in Waiters(b) => Cardinality(Waiters(c)) = Cardinality(Waiters(b))
           /\ o # NoProc => Cardinality(Waiters(c)) <= Cardinality(Waiters(b)) + 1
<1>1. IsFiniteSet(Waiters(b)) /\ IsFiniteSet(Waiters(c))
  BY FlockAssumption, FS_Subset DEF Waiters, FlockAssumption
<1>2. Cardinality(Waiters(b)) \in Nat /\ Cardinality(Waiters(c)) \in Nat
  BY <1>1, FS_CardinalityType
<1>3. CASE o = NoProc
  <2>1. Waiters(c) = Waiters(b) \ {p}
    BY <1>3 DEF Waiters
  <2> QED BY <1>1, <1>2, <1>3, <2>1, FS_RemoveElement
<1>4. CASE o # NoProc
  <2>1. Waiters(c) = Waiters(b) \cup {p}
    BY <1>4 DEF Waiters
  <2>2. Cardinality(Waiters(c)) = IF p \in Waiters(b) THEN Cardinality(Waiters(b))
                                  ELSE Cardinality(Waiters(b)) + 1
    BY <1>1, <2>1, FS_AddElement
  <2> QED BY <1>2, <1>4, <2>2
<1> QED BY <1>3, <1>4

\* reccnt counts the records of the files and those of sleeplcks.
LEMMA Reccnt == reccnt = Sum(v_filocks) + Cardinality(Waiters(blk))
  BY DEF reccnt, Sum, Waiters, Waiting

\* No sleeper is forgotten when the list L of file f becomes list.
Woke(f, L, list, woke) ==
    \A x \in Record : Holds(L, x) /\ x.wakeflg => Holds(list, x) \/ Name(f, x) \in woke

\* Update() keeps the lists sound, and the sleepers on records that are there.
LEMMA UpdateKeeps ==
    ASSUME IInv, NEW f \in File, NEW list, NEW woke, Good(list), Excl(list),
           Woke(f, v_filocks[f], list, woke), Update(f, list, woke)
    PROVE  /\ v_filocks' \in [File -> Seq(Record)]
           /\ p_wchan' \in [Proc -> Names \cup {NoRecord}]
           /\ \A g \in File : Good(v_filocks'[g]) /\ Excl(v_filocks'[g])
           /\ Sleepers(v_filocks', p_wchan', request, blk)
           /\ \A p \in Proc : p_wchan[p] = NoRecord => p_wchan'[p] = NoRecord
           /\ Sum(v_filocks) \in Int
           /\ Sum(v_filocks') = Sum(v_filocks) + (Len(list) - Len(v_filocks[f]))
<1>1. /\ v_filocks \in [File -> Seq(Record)] /\ p_wchan \in [Proc -> Names \cup {NoRecord}]
      /\ \A g \in File : Good(v_filocks[g]) /\ Excl(v_filocks[g])
      /\ Sleepers(v_filocks, p_wchan, request, blk)
  BY DEF IInv, TypeOK, Names
<1>2. /\ v_filocks' = [v_filocks EXCEPT ![f] = list]
      /\ p_wchan' = [p \in Proc |-> IF p_wchan[p] \in woke THEN NoRecord ELSE p_wchan[p]]
  BY DEF Update
<1>3. list \in Seq(Record)
  BY DEF Good
<1>4. /\ v_filocks' \in [File -> Seq(Record)]
      /\ \A g \in File : v_filocks'[g] = IF g = f THEN list ELSE v_filocks[g]
  BY <1>1, <1>2, <1>3
<1>5. /\ p_wchan' \in [Proc -> Names \cup {NoRecord}]
      /\ \A p \in Proc : p_wchan'[p] # NoRecord =>
            p_wchan'[p] = p_wchan[p] /\ p_wchan[p] \notin woke
  BY <1>1, <1>2
<1>6. \A g \in File : Good(v_filocks'[g]) /\ Excl(v_filocks'[g])
  BY <1>1, <1>4
<1>7. Sleepers(v_filocks', p_wchan', request, blk)
  <2> SUFFICES ASSUME NEW p \in Proc, p_wchan'[p] # NoRecord
               PROVE  OnRecord(v_filocks', p, p_wchan'[p], request[p], blk[p])
    BY DEF Sleepers
  <2>1. p_wchan'[p] = p_wchan[p] /\ p_wchan[p] \notin woke
    BY <1>5
  <2>2. OnRecord(v_filocks, p, p_wchan[p], request[p], blk[p])
    BY <1>1, <2>1 DEF Sleepers
  <2> DEFINE r == request[p]
  <2>3. r \in Requests /\ r.file \in File
    BY <2>2 DEF OnRecord, Requests
  <2>4. PICK x \in Record : /\ Holds(v_filocks[r.file], x) /\ x.wakeflg
                            /\ Name(r.file, x) = p_wchan[p] /\ x.owner = blk[p]
                            /\ Bars(x, Lock(p, r))
    BY <2>2 DEF OnRecord
  <2> HIDE DEF r
  <2>5. Holds(v_filocks'[r.file], x)
    <3>1. CASE r.file = f
      BY <1>4, <2>1, <2>4, <3>1 DEF Woke
    <3>2. CASE r.file # f
      BY <1>4, <2>3, <2>4, <3>2
    <3> QED BY <3>1, <3>2
  <2> QED BY <2>1, <2>3, <2>4, <2>5 DEF OnRecord, r
<1>8. \A p \in Proc : p_wchan[p] = NoRecord => p_wchan'[p] = NoRecord
  BY <1>2
<1>9. /\ Sum(v_filocks) \in Int
      /\ Sum(v_filocks') = Sum(v_filocks) + (Len(list) - Len(v_filocks[f]))
  BY <1>1, <1>2, <1>3, Records
<1> QED BY <1>4, <1>5, <1>6, <1>7, <1>8, <1>9

\* The lock of a request.
LEMMA LockFields ==
    ASSUME NEW p \in Proc, NEW r \in Requests
    PROVE  /\ Lock(p, r) \in Lck /\ r.file \in File /\ r.type \in Type
           /\ Lock(p, r).owner = p /\ Lock(p, r).type = r.type /\ Lock(p, r).type # "un"
           /\ Lock(p, r).start = r.start /\ Lock(p, r).end = r.end
           /\ Lock(p, r).start <= Lock(p, r).end
<1>1. r \in [file : File, type : Type, start : Byte, end : Byte, set : BOOLEAN]
  BY DEF Requests
<1>2. << r.start, r.end >> \in Ranges
  BY DEF Requests
<1>3. r.start <= r.end
  BY <1>1, <1>2, FlockAssumption DEF FlockAssumption, Byte
<1> QED BY <1>1, <1>3 DEF Lock, Lck, Type

\* What a call does that changes the list of f for p.
Written(f, L, list, woke, ld, records) ==
    /\ Good(list) /\ Excl(list) /\ Woke(f, L, list, woke)
    /\ Len(list) <= t_flckrec - records + Len(L)
    /\ \A x \in Record : x.owner # ld.owner => (Holds(list, x) <=> Holds(L, x))
    /\ Update(f, list, woke)
    /\ \/ retval' = "ENOLCK" /\ Failed(list, L, ld)
       \/ retval' = "ok" /\ Locked(list, L, ld.owner, ld)

\* flckadj() does as Written says: what is locked excludes the locks of others
\* because nothing barred it.
LEMMA AdjustedDoes ==
    ASSUME IInv, NEW f \in File, NEW L, L = v_filocks[f], NEW ld \in Lck, ld.start <= ld.end,
           NEW records \in Int, records <= t_flckrec, NEW insrt, Begins(L, insrt, ld),
           ld.type # "un" => Blockers(L, ld) = {},
           Adjusted(f, insrt, ld, records)
    PROVE  \E list, woke : Written(f, L, list, woke, ld, records)
<1> DEFINE w == flckadj(f, insrt, ld, records)
           p == ld.owner
<1>1. Good(L) /\ Excl(L)
  BY DEF IInv
<1>2. Done(w, L, f, ld, t_flckrec - records)
  BY <1>1, FlckadjDoes
<1>3. Update(f, w.list, w.woke) /\ retval' = IF w.result = "ENOLCK" THEN "ENOLCK" ELSE "ok"
  BY DEF Adjusted
<1> HIDE DEF w
<1>4. /\ Good(w.list) /\ Woke(f, L, w.list, w.woke)
      /\ Len(w.list) <= t_flckrec - records + Len(L)
      /\ \A x \in Record : x.owner # p => (Holds(w.list, x) <=> Holds(L, x))
      /\ w.result = "ENOLCK" => Failed(w.list, L, ld)
      /\ w.result # "ENOLCK" => Locked(w.list, L, p, ld)
  BY <1>2 DEF Done, Woke
<1>5. \A q \in Proc \ {p}, b \in Byte, t \in Type : Has(w.list, q, b, t) <=> Has(L, q, b, t)
  BY <1>4 DEF Has, Covers
<1>6. ASSUME NEW b \in Byte, NEW t \in Type, Has(w.list, p, b, t)
      PROVE  Has(L, p, b, t) \/ (Within(b, ld) /\ t = ld.type)
  <2>1. CASE w.result = "ENOLCK"
    BY <1>4, <1>6, <2>1 DEF Failed
  <2>2. CASE w.result # "ENOLCK"
    BY <1>4, <1>6, <2>2 DEF Locked
  <2> QED BY <2>1, <2>2
<1>7. ASSUME NEW q \in Proc \ {p}, NEW b \in Byte, NEW u \in Type, Within(b, ld), ld.type \in Type,
             Has(L, q, b, u)
      PROVE  ld.type = "rd" /\ u = "rd"
  <2>1. PICK x \in Record : Holds(L, x) /\ Covers(x, q, b, u)
    BY <1>7 DEF Has
  <2>2. PICK n \in DOMAIN L : L[n] = x
    BY <2>1 DEF Holds
  <2>3. ~Bars(x, ld)
    BY <1>7, <2>2 DEF Blockers, Type
  <2>4. x.start <= ld.end /\ ld.start <= x.end
    <3>1. b \in Int
      BY FlockAssumption DEF Byte, FlockAssumption
    <3> QED BY <1>7, <2>1, <3>1, RecordFields, LckFields DEF Covers, Within
  <2>5. "wr" \notin {x.type, ld.type} /\ x.type = u
    BY <2>1, <2>3, <2>4 DEF Bars, Covers
  <2> QED BY <1>7, <2>5 DEF Type
<1>8. Excl(w.list)
  <2> SUFFICES ASSUME NEW q \in Proc, NEW s \in Proc, NEW b \in Byte, NEW t \in Type, NEW u \in Type,
                      q # s, Has(w.list, q, b, t), Has(w.list, s, b, u)
               PROVE  t = "rd" /\ u = "rd"
    BY DEF Excl
  <2>1. CASE Has(L, q, b, t) /\ Has(L, s, b, u)
    BY <1>1, <2>1 DEF Excl
  <2>2. CASE ~Has(L, q, b, t)
    <3>1. q = p /\ s \in Proc \ {p} /\ Within(b, ld) /\ t = ld.type
      BY <1>5, <1>6, <2>2
    <3> QED BY <1>5, <1>7, <3>1
  <2>3. CASE ~Has(L, s, b, u)
    <3>1. s = p /\ q \in Proc \ {p} /\ Within(b, ld) /\ u = ld.type
      BY <1>5, <1>6, <2>3
    <3> QED BY <1>5, <1>7, <3>1
  <2> QED BY <2>1, <2>2, <2>3
<1>9. Written(f, L, w.list, w.woke, ld, records)
  BY <1>3, <1>4, <1>8 DEF Written
<1> QED BY <1>9

\* A blocker is a record of another process that bars the lock, and it is marked.
LEMMA BlockerBars ==
    ASSUME NEW L \in Seq(Record), NEW ld, Blockers(L, ld) # {}, NEW n, n = Blocker(L, ld)
    PROVE  n \in DOMAIN L /\ Bars(L[n], ld)
<1> DEFINE T == Blockers(L, ld)
<1>1. Len(L) \in Nat /\ T \in SUBSET (0 .. Len(L)) /\ T # {}
  BY Elements DEF Blockers
<1>2. n = CHOOSE x \in T : \A y \in T : x <= y
  BY DEF Blocker
<1> HIDE DEF T
<1>3. n \in T
  BY <1>1, <1>2, Chosen
<1> QED BY <1>3 DEF T, Blockers

\* The record at n is marked for a sleeper, and what that comes to.
Marked(L, n, y, new) ==
    /\ y \in Record /\ y.wakeflg /\ y.owner = L[n].owner /\ y.type = L[n].type
    /\ y.start = L[n].start /\ y.end = L[n].end /\ (y = L[n] \/ ~L[n].wakeflg)
    /\ new = [L EXCEPT ![n] = y]
MarkHolds(L, y, new) ==
    /\ Good(new) /\ Excl(new) /\ Len(new) = Len(L) /\ Holds(new, y)
    /\ \A z \in Record : Holds(L, z) /\ z.wakeflg => Holds(new, z)
    /\ \A p \in Proc, b \in Byte, t \in Type : Has(new, p, b, t) <=> Has(L, p, b, t)

\* Marking a record, as a waiting process does, changes no lock.
LEMMA MarkKeeps ==
    ASSUME NEW L, Good(L), Excl(L), NEW n \in DOMAIN L, NEW y, NEW new, Marked(L, n, y, new)
    PROVE  MarkHolds(L, y, new)
<1> DEFINE x == L[n]
<1>1. /\ L \in Seq(Record) /\ Proper(L) /\ Injective(L) /\ Sorted(L) /\ Apart(L)
      /\ x \in Record /\ Holds(L, x)
  BY Elements DEF Good
<1>2. /\ y \in Record /\ y.wakeflg /\ y.owner = x.owner /\ y.type = x.type
      /\ y.start = x.start /\ y.end = x.end
      /\ y = x \/ ~x.wakeflg
      /\ new = [L EXCEPT ![n] = y]
  BY DEF Marked
<1>3. y = x \/ ~Holds(L, y)
  <2> SUFFICES ASSUME Holds(L, y), y # x PROVE FALSE
    OBVIOUS
  <2>1. Off(x, y) \/ Off(y, x)
    BY <1>1, <1>2 DEF Apart
  <2>2. x.start <= x.end
    BY <1>1 DEF Proper
  <2> QED BY <1>1, <1>2, <2>1, <2>2, RecordFields DEF Off
<1> HIDE DEF x
<1>4. /\ new \in Seq(Record) /\ Len(new) = Len(L) /\ Injective(new)
      /\ \A z : Holds(new, z) <=> (Holds(L, z) /\ z # x) \/ z = y
  <2>1. L \in Seq(Record) /\ y \in Record /\ Injective(L) /\ (~Holds(L, y) \/ y = L[n])
    BY <1>1, <1>2, <1>3 DEF x
  <2> DEFINE e == [L EXCEPT ![n] = y]
  <2>2. /\ e \in Seq(Record) /\ Len(e) = Len(L)
        /\ \A z : Holds(e, z) <=> (Holds(L, z) /\ z # L[n]) \/ z = y
        /\ ~Holds(L, y) \/ y = L[n] => Injective(e)
    BY ONLY <2>1, ReplaceHolds, n \in DOMAIN L
  <2>3. e = new
    BY <1>2
  <2> HIDE DEF e
  <2> QED BY <2>1, <2>2, <2>3 DEF x
<1>5. Sorted(new)
  BY <1>1, <1>2, SortedReplace DEF x
<1>6. Proper(new)
  BY <1>1, <1>2, <1>4 DEF Proper
<1>7. Apart(new)
  <2> SUFFICES ASSUME NEW u \in Record, NEW v \in Record, Holds(new, u), Holds(new, v), u # v,
                      u.owner = v.owner
               PROVE  Off(u, v) \/ Off(v, u)
    BY DEF Apart
  <2>1. CASE u # y /\ v # y
    BY <1>1, <1>4, <2>1 DEF Apart
  <2>2. CASE u = y
    <3>1. Off(x, v) \/ Off(v, x)
      BY <1>1, <1>2, <1>4, <2>2 DEF Apart
    <3> QED BY <1>2, <2>2, <3>1 DEF Off
  <2>3. CASE v = y
    <3>1. Off(u, x) \/ Off(x, u)
      BY <1>1, <1>2, <1>4, <2>3 DEF Apart
    <3> QED BY <1>2, <2>3, <3>1 DEF Off
  <2> QED BY <2>1, <2>2, <2>3
<1>8. ASSUME NEW p \in Proc, NEW b \in Byte, NEW t \in Type
      PROVE  Has(new, p, b, t) <=> Has(L, p, b, t)
  <2>1. Covers(y, p, b, t) <=> Covers(x, p, b, t)
    BY <1>2 DEF Covers
  <2> QED BY <1>1, <1>2, <1>4, <2>1 DEF Has
<1>9. Excl(new)
  BY <1>8 DEF Excl
<1>10. \A z \in Record : Holds(L, z) /\ z.wakeflg => Holds(new, z)
  BY <1>2, <1>4
<1> QED BY <1>2, <1>4, <1>5, <1>6, <1>7, <1>8, <1>9, <1>10 DEF MarkHolds, Good, x

\* A step that leaves the sleepers' requests alone, and what it has for records.
Kind(records) ==
    /\ v_filocks' \in [File -> Seq(Record)] /\ p_wchan' \in [Proc -> Names \cup {NoRecord}]
    /\ \A f \in File : Good(v_filocks'[f]) /\ Excl(v_filocks'[f])
    /\ Sleepers(v_filocks', p_wchan', request, blk)
    /\ \A p \in Proc : p_wchan[p] = NoRecord => p_wchan'[p] = NoRecord
    /\ retval' \in {"ok", "ENOLCK"}
    /\ Sum(v_filocks) \in Int /\ Sum(v_filocks') \in Int
    /\ Sum(v_filocks') <= Sum(v_filocks) + (t_flckrec - records)

\* reccnt and the bound on it are numbers.
LEMMA Counts ==
    ASSUME IInv
    PROVE  /\ Sum(v_filocks) \in Int /\ Cardinality(Waiters(blk)) \in Nat
           /\ reccnt = Sum(v_filocks) + Cardinality(Waiters(blk)) /\ reccnt \in Int
           /\ t_flckrec \in Int /\ reccnt <= t_flckrec
<1>1. Sum(v_filocks) \in Int
  <2>1. CASE File = {}
    <3>1. [f \in File |-> Len(v_filocks[f])] = [f \in File |-> 0]
      BY <2>1
    <3>2. SumFunction([f \in File |-> 0]) = 0
      BY FlockAssumption, SumZero DEF FlockAssumption
    <3> QED BY <3>1, <3>2 DEF Sum
  <2>2. CASE File # {}
    <3>1. PICK f \in File : TRUE
      BY <2>2
    <3> QED BY Records DEF IInv, TypeOK, Good
  <2> QED BY <2>1, <2>2
<1>2. Cardinality(Waiters(blk)) \in Nat
  BY FlockAssumption, FS_Subset, FS_CardinalityType DEF Waiters, FlockAssumption
<1> QED BY <1>1, <1>2, Reccnt, FlockAssumption DEF IInv, FlockAssumption

\* A step that changes neither lists nor sleepers.
LEMMA StillKind ==
    ASSUME IInv, UNCHANGED << v_filocks, p_wchan >>, retval' \in {"ok", "ENOLCK"},
           NEW records \in Int, records <= t_flckrec
    PROVE  Kind(records)
<1>1. /\ v_filocks \in [File -> Seq(Record)] /\ p_wchan \in [Proc -> Names \cup {NoRecord}]
      /\ \A f \in File : Good(v_filocks[f]) /\ Excl(v_filocks[f])
      /\ Sleepers(v_filocks, p_wchan, request, blk)
  BY DEF IInv, TypeOK, Names
<1>2. v_filocks' = v_filocks /\ p_wchan' = p_wchan
  OBVIOUS
<1>3. Sum(v_filocks) <= Sum(v_filocks) + (t_flckrec - records)
  BY Counts
<1> QED BY <1>1, <1>2, <1>3, Counts DEF Kind

\* A call that changes a list.
LEMMA WrittenKind ==
    ASSUME IInv, NEW f \in File, NEW L, L = v_filocks[f], NEW list, NEW woke, NEW ld,
           NEW records \in Int, Written(f, L, list, woke, ld, records)
    PROVE  Kind(records)
<1>1. /\ Good(list) /\ Excl(list) /\ Woke(f, v_filocks[f], list, woke) /\ Update(f, list, woke)
      /\ Len(list) <= t_flckrec - records + Len(L) /\ retval' \in {"ok", "ENOLCK"}
  BY DEF Written
<1>2. /\ v_filocks' \in [File -> Seq(Record)]
      /\ p_wchan' \in [Proc -> Names \cup {NoRecord}]
      /\ \A g \in File : Good(v_filocks'[g]) /\ Excl(v_filocks'[g])
      /\ Sleepers(v_filocks', p_wchan', request, blk)
      /\ \A p \in Proc : p_wchan[p] = NoRecord => p_wchan'[p] = NoRecord
      /\ Sum(v_filocks) \in Int
      /\ Sum(v_filocks') = Sum(v_filocks) + (Len(list) - Len(v_filocks[f]))
  BY <1>1, UpdateKeeps
<1>3. Len(list) \in Nat /\ Len(L) \in Nat
  <2>1. list \in Seq(Record) /\ L \in Seq(Record)
    BY <1>1 DEF Good, IInv
  <2> QED BY <2>1, Elements
<1>4. Sum(v_filocks') \in Int /\ Sum(v_filocks') <= Sum(v_filocks) + (t_flckrec - records)
  BY <1>1, <1>2, <1>3, Counts
<1> QED BY <1>1, <1>2, <1>4 DEF Kind

\* A request that nothing bars.
LEMMA GrantedKind ==
    ASSUME IInv, NEW p \in Proc, NEW r \in Requests, NEW records \in Int, records <= t_flckrec,
           Granted(p, r, records)
    PROVE  Kind(records)
<1> DEFINE ld == Lock(p, r)
           L == v_filocks[r.file]
<1>1. ld \in Lck /\ r.file \in File /\ ld.type # "un" /\ ld.start <= ld.end
  BY LockFields
<1>2. CASE r.set
  <2>1. Blockers(L, ld) = {} /\ Adjusted(r.file, Insrt(L, ld), ld, records)
    BY <1>2 DEF Granted
  <2>2. Begins(L, Insrt(L, ld), ld)
    BY DEF Begins
  <2> HIDE DEF ld, L
  <2>3. PICK list, woke : Written(r.file, L, list, woke, ld, records)
    BY <1>1, <2>1, <2>2, AdjustedDoes DEF L
  <2> QED BY <1>1, <2>3, WrittenKind DEF L
<1>3. CASE ~r.set
  BY <1>3, StillKind DEF Granted
<1> QED BY <1>2, <1>3

\* F_UNLCK.
LEMMA UnlockKind ==
    ASSUME IInv, NEW p \in Proc, NEW f \in File, NEW b \in Ranges, NEW records \in Int,
           records <= t_flckrec,
           NEW ld, ld = [owner |-> p, type |-> "un", start |-> b[1], end |-> b[2]],
           Adjusted(f, 0, ld, records)
    PROVE  ld \in Lck /\ \E list, woke : Written(f, v_filocks[f], list, woke, ld, records)
<1>1. b[1] \in Byte /\ b[2] \in Byte /\ b[1] <= b[2]
  BY FlockAssumption DEF FlockAssumption, Byte
<1>2. ld \in Lck /\ ld.type = "un" /\ ld.start <= ld.end
  BY <1>1 DEF Lck
<1>3. Begins(v_filocks[f], 0, ld)
  BY <1>2 DEF Begins
<1> QED BY <1>2, <1>3, AdjustedDoes

\* A close.
LEMMA CleanKind ==
    ASSUME IInv, NEW p \in Proc, NEW f \in File, cleanlocks(p, f),
           NEW L, L = v_filocks[f]
    PROVE  \E woke : /\ Good(Kept(L, p)) /\ Excl(Kept(L, p)) /\ Woke(f, L, Kept(L, p), woke)
                     /\ Update(f, Kept(L, p), woke) /\ retval' = "ok"
                     /\ Len(Kept(L, p)) <= Len(L)
                     /\ \A x : Holds(Kept(L, p), x) <=> Holds(L, x) /\ x.owner # p
<1> DEFINE mine == {r \in Range(L) : r.owner = p}
           woke == {Name(f, r) : r \in {s \in mine : s.wakeflg}}
           list == Kept(L, p)
<1>1. Good(L) /\ Excl(L)
  BY DEF IInv
<1>2. /\ Good(list) /\ Len(list) <= Len(L)
      /\ \A x : Holds(list, x) <=> Holds(L, x) /\ x.owner # p
  BY <1>1, KeptSays
<1>3. Update(f, list, woke) /\ retval' = "ok"
  BY DEF cleanlocks
<1> HIDE DEF list
<1>4. Woke(f, L, list, woke)
  <2> SUFFICES ASSUME NEW x \in Record, Holds(L, x), x.wakeflg, x.owner = p
               PROVE  Name(f, x) \in woke
    BY <1>2 DEF Woke
  <2>1. x \in Range(L)
    BY DEF Holds, Range
  <2> QED BY <2>1
<1>5. \A q \in Proc, b \in Byte, t \in Type : Has(list, q, b, t) => Has(L, q, b, t)
  BY <1>2 DEF Has
<1>6. Excl(list)
  BY <1>1, <1>5 DEF Excl
<1> HIDE DEF woke
<1> QED BY <1>2, <1>3, <1>4, <1>6 DEF list

\* A call that does not wait, and was not waiting.
LEMMA StayInv ==
    ASSUME IInv, NEW records \in Int, records <= t_flckrec, Kind(records),
           records >= reccnt, UNCHANGED << request, blk >>, p_sig' \in SUBSET Proc
    PROVE  IInv'
<1>1. /\ v_filocks' \in [File -> Seq(Record)] /\ p_wchan' \in [Proc -> Names \cup {NoRecord}]
      /\ \A f \in File : Good(v_filocks'[f]) /\ Excl(v_filocks'[f])
      /\ Sleepers(v_filocks', p_wchan', request, blk)
      /\ retval' \in {"ok", "ENOLCK"}
      /\ Sum(v_filocks) \in Int /\ Sum(v_filocks') \in Int
      /\ Sum(v_filocks') <= Sum(v_filocks) + (t_flckrec - records)
  BY DEF Kind
<1>2. request' = request /\ blk' = blk
  OBVIOUS
<1>3. TypeOK' /\ \A p \in Waiting' : request'[p] \in Requests
  BY <1>1, <1>2 DEF IInv, TypeOK, Names, Waiting
<1>4. reccnt' = Sum(v_filocks') + Cardinality(Waiters(blk))
  BY <1>2, Reccnt DEF reccnt, Sum, Waiters, Waiting
<1>5. reccnt' <= t_flckrec
  BY <1>1, <1>4, Counts
<1> QED BY <1>1, <1>2, <1>3, <1>5 DEF IInv

\* A waiting process that leaves.
LEMMA LeaveInv ==
    ASSUME IInv, NEW p \in Waiting \ Asleep, Kind(reccnt - 1), Leave(p), p_sig' \in SUBSET Proc
    PROVE  IInv'
<1>1. /\ v_filocks' \in [File -> Seq(Record)] /\ p_wchan' \in [Proc -> Names \cup {NoRecord}]
      /\ \A f \in File : Good(v_filocks'[f]) /\ Excl(v_filocks'[f])
      /\ Sleepers(v_filocks', p_wchan', request, blk)
      /\ \A q \in Proc : p_wchan[q] = NoRecord => p_wchan'[q] = NoRecord
      /\ retval' \in {"ok", "ENOLCK"}
      /\ Sum(v_filocks) \in Int /\ Sum(v_filocks') \in Int
      /\ Sum(v_filocks') <= Sum(v_filocks) + (t_flckrec - (reccnt - 1))
  BY DEF Kind
<1>2. /\ request \in [Proc -> Requests \cup {NoRequest}] /\ blk \in [Proc -> Proc \cup {NoProc}]
      /\ p \in Proc /\ p_wchan[p] = NoRecord /\ blk[p] # NoProc /\ p \in Waiters(blk)
  BY DEF IInv, TypeOK, Waiting, Asleep, Waiters
<1>3. /\ request' = [request EXCEPT ![p] = NoRequest] /\ blk' = [blk EXCEPT ![p] = NoProc]
  BY DEF Leave
<1>4. TypeOK'
  BY <1>1, <1>2, <1>3 DEF IInv, TypeOK, Names
<1>5. \A q \in Waiting' : request'[q] \in Requests
  BY <1>2, <1>3 DEF IInv, Waiting
<1>6. Sleepers(v_filocks', p_wchan', request', blk')
  <2> SUFFICES ASSUME NEW q \in Proc, p_wchan'[q] # NoRecord
               PROVE  OnRecord(v_filocks', q, p_wchan'[q], request'[q], blk'[q])
    BY DEF Sleepers
  <2>1. q # p
    BY <1>1, <1>2
  <2>2. request'[q] = request[q] /\ blk'[q] = blk[q]
    BY <1>2, <1>3, <2>1
  <2> QED BY <1>1, <2>2 DEF Sleepers
<1>7. Cardinality(Waiters(blk')) = Cardinality(Waiters(blk)) - 1
  BY <1>2, <1>3, WaitersCount
<1>8. reccnt' = Sum(v_filocks') + Cardinality(Waiters(blk'))
  BY DEF reccnt, Sum, Waiters, Waiting
<1>9. reccnt' <= t_flckrec
  BY <1>1, <1>7, <1>8, Counts
<1> QED BY <1>1, <1>4, <1>5, <1>6, <1>9 DEF IInv

\* A call that waits, or waits again.
LEMMA WaitsDoes ==
    ASSUME IInv, NEW p \in Proc, NEW r \in Requests, NEW records \in Int, Waits(p, r, records)
    PROVE  \E new, y : LET L == v_filocks[r.file] IN
             /\ y \in Record /\ y.wakeflg /\ Bars(y, Lock(p, r)) /\ Holds(new, y)
             /\ Good(new) /\ Excl(new) /\ Len(new) = Len(L)
             /\ \A z \in Record : Holds(L, z) /\ z.wakeflg => Holds(new, z)
             /\ \A q \in Proc, b \in Byte, t \in Type : Has(new, q, b, t) <=> Has(L, q, b, t)
             /\ v_filocks' = [v_filocks EXCEPT ![r.file] = new]
             /\ request' = [request EXCEPT ![p] = r] /\ blk' = [blk EXCEPT ![p] = y.owner]
             /\ p_wchan' = [p_wchan EXCEPT ![p] = Name(r.file, y)]
             /\ retval' = "ok" /\ records < t_flckrec
<1> DEFINE ld == Lock(p, r)
           f == r.file
           L == v_filocks[f]
           n == Blocker(L, ld)
           y == [L[n] EXCEPT !.wakeflg = TRUE]
           new == [L EXCEPT ![n] = y]
<1>1. f \in File /\ Good(L) /\ Excl(L) /\ L \in Seq(Record)
      /\ v_filocks \in [File -> Seq(Record)]
  BY LockFields DEF IInv, Good, TypeOK
<1>2. n \in DOMAIN L /\ Bars(L[n], ld)
  <2>1. Blockers(L, ld) # {}
    BY DEF Waits
  <2> HIDE DEF ld, L
  <2>2. n = Blocker(L, ld)
    OBVIOUS
  <2> HIDE DEF n
  <2> QED BY <1>1, <2>1, <2>2, BlockerBars
<1>3. /\ v_filocks' = [v_filocks EXCEPT ![f][n].wakeflg = TRUE]
      /\ request' = [request EXCEPT ![p] = r] /\ blk' = [blk EXCEPT ![p] = L[n].owner]
      /\ p_wchan' = [p_wchan EXCEPT ![p] = Name(f, L[n])]
      /\ retval' = "ok" /\ records < t_flckrec
  BY DEF Waits
<1> HIDE DEF n
<1>4. v_filocks' = [v_filocks EXCEPT ![f] = new]
  BY <1>3
<1>5. L[n] \in Record
  BY <1>1, <1>2, Elements
<1>6. /\ y \in Record /\ y.wakeflg /\ y.owner = L[n].owner /\ y.type = L[n].type
      /\ y.start = L[n].start /\ y.end = L[n].end /\ (y = L[n] \/ ~L[n].wakeflg)
  BY <1>5 DEF Record
<1> HIDE DEF y, L
<1>7. new = [L EXCEPT ![n] = y]
  OBVIOUS
<1> HIDE DEF new
<1>8. /\ Good(new) /\ Excl(new) /\ Len(new) = Len(L)
      /\ Holds(new, y)
      /\ \A z \in Record : Holds(L, z) /\ z.wakeflg => Holds(new, z)
      /\ \A q \in Proc, b \in Byte, t \in Type : Has(new, q, b, t) <=> Has(L, q, b, t)
  <2>1. Good(L) /\ Excl(L) /\ n \in DOMAIN L
    BY <1>1, <1>2
  <2> HIDE DEF ld, f
  <2>2. Marked(L, n, y, new)
    BY <1>6, <1>7 DEF Marked
  <2>3. MarkHolds(L, y, new)
    BY <2>1, <2>2, MarkKeeps
  <2> QED BY <2>3 DEF MarkHolds
<1>9. Bars(y, ld) /\ Name(f, L[n]) = Name(f, y)
  BY <1>2, <1>6 DEF Bars, Name
<1> QED BY <1>3, <1>4, <1>6, <1>8, <1>9 DEF L

\* It keeps the invariant: there was room for its record in sleeplcks.
LEMMA WaitsInv ==
    ASSUME IInv, NEW p \in Proc, NEW r \in Requests, NEW records \in Int, Waits(p, r, records),
           records = reccnt \/ (records = reccnt - 1 /\ p \in Waiting), p_sig' \in SUBSET Proc
    PROVE  IInv'
<1> DEFINE f == r.file
           L == v_filocks[f]
<1>1. f \in File /\ Lock(p, r) \in Lck
  BY LockFields
<1>2. PICK new, y :
             /\ y \in Record /\ y.wakeflg /\ Bars(y, Lock(p, r)) /\ Holds(new, y)
             /\ Good(new) /\ Excl(new) /\ Len(new) = Len(L)
             /\ \A z \in Record : Holds(L, z) /\ z.wakeflg => Holds(new, z)
             /\ v_filocks' = [v_filocks EXCEPT ![f] = new]
             /\ request' = [request EXCEPT ![p] = r] /\ blk' = [blk EXCEPT ![p] = y.owner]
             /\ p_wchan' = [p_wchan EXCEPT ![p] = Name(f, y)]
             /\ retval' = "ok" /\ records < t_flckrec
  BY WaitsDoes
<1>3. /\ v_filocks \in [File -> Seq(Record)] /\ p_wchan \in [Proc -> Names \cup {NoRecord}]
      /\ request \in [Proc -> Requests \cup {NoRequest}] /\ blk \in [Proc -> Proc \cup {NoProc}]
      /\ \A g \in File : Good(v_filocks[g]) /\ Excl(v_filocks[g])
      /\ Sleepers(v_filocks, p_wchan, request, blk)
      /\ \A q \in Waiting : request[q] \in Requests
  BY DEF IInv, TypeOK, Names
<1>4. new \in Seq(Record) /\ y.owner \in Proc /\ y.owner # NoProc /\ Name(f, y) \in Names
  BY <1>1, <1>2, FlockAssumption DEF Good, Record, Name, Names, FlockAssumption
<1>5. /\ v_filocks' \in [File -> Seq(Record)]
      /\ \A g \in File : v_filocks'[g] = IF g = f THEN new ELSE v_filocks[g]
  BY <1>2, <1>3, <1>4
<1>6. TypeOK'
  BY <1>2, <1>3, <1>4, <1>5 DEF TypeOK, Names
<1>7. \A g \in File : Good(v_filocks'[g]) /\ Excl(v_filocks'[g])
  BY <1>2, <1>3, <1>5
<1>8. \A q \in Waiting' : request'[q] \in Requests
  BY <1>2, <1>3 DEF Waiting
<1>9. Sleepers(v_filocks', p_wchan', request', blk')
  <2> SUFFICES ASSUME NEW q \in Proc, p_wchan'[q] # NoRecord
               PROVE  OnRecord(v_filocks', q, p_wchan'[q], request'[q], blk'[q])
    BY DEF Sleepers
  <2>1. CASE q = p
    <3>1. request'[p] = r /\ blk'[p] = y.owner /\ p_wchan'[p] = Name(f, y)
          /\ Holds(v_filocks'[f], y)
      BY <1>1, <1>2, <1>3, <1>5
    <3> QED BY <1>2, <2>1, <3>1 DEF OnRecord
  <2>2. CASE q # p
    <3>1. request'[q] = request[q] /\ blk'[q] = blk[q] /\ p_wchan'[q] = p_wchan[q]
      BY <1>2, <1>3, <2>2
    <3> DEFINE s == request[q]
    <3>2. OnRecord(v_filocks, q, p_wchan[q], s, blk[q])
      BY <1>3, <3>1 DEF Sleepers
    <3>3. PICK x \in Record : /\ Holds(v_filocks[s.file], x) /\ x.wakeflg
                              /\ Name(s.file, x) = p_wchan[q] /\ x.owner = blk[q]
                              /\ Bars(x, Lock(q, s))
      BY <3>2 DEF OnRecord
    <3>4. s \in Requests /\ s.file \in File
      BY <3>2 DEF OnRecord, Requests
    <3> HIDE DEF s
    <3>5. Holds(v_filocks'[s.file], x)
      <4>1. CASE s.file = f
        BY <1>2, <1>5, <3>3, <3>4, <4>1
      <4>2. CASE s.file # f
        BY <1>5, <3>3, <3>4, <4>2
      <4> QED BY <4>1, <4>2
    <3> QED BY <3>1, <3>3, <3>4, <3>5 DEF OnRecord, s
  <2> QED BY <2>1, <2>2
<1>10. Sum(v_filocks') = Sum(v_filocks)
  <2>1. Sum(v_filocks') = Sum(v_filocks) + (Len(new) - Len(v_filocks[f])) /\ Sum(v_filocks) \in Int
    BY <1>1, <1>2, <1>3, <1>4, Records
  <2>2. Len(new) \in Nat
    BY <1>4, Elements
  <2> QED BY <1>2, <2>1, <2>2
<1>11. reccnt' = Sum(v_filocks') + Cardinality(Waiters(blk'))
  BY DEF reccnt, Sum, Waiters, Waiting
<1>12. /\ Cardinality(Waiters(blk')) \in Nat
       /\ p \in Waiters(blk) => Cardinality(Waiters(blk')) = Cardinality(Waiters(blk))
       /\ Cardinality(Waiters(blk')) <= Cardinality(Waiters(blk)) + 1
  <2>1. /\ blk \in [Proc -> Proc \cup {NoProc}] /\ y.owner \in Proc \cup {NoProc}
        /\ y.owner # NoProc /\ blk' = [blk EXCEPT ![p] = y.owner]
    BY <1>2, <1>3, <1>4
  <2> DEFINE c == blk'
  <2>2. c = [blk EXCEPT ![p] = y.owner]
    BY <2>1
  <2> HIDE DEF c
  <2>3. /\ Cardinality(Waiters(blk)) \in Nat /\ Cardinality(Waiters(c)) \in Nat
        /\ p \in Waiters(blk) => Cardinality(Waiters(c)) = Cardinality(Waiters(blk))
        /\ Cardinality(Waiters(c)) <= Cardinality(Waiters(blk)) + 1
    BY ONLY <2>1, <2>2, p \in Proc, WaitersCount
  <2> QED BY <2>3 DEF c
<1>13. reccnt' <= t_flckrec
  <2>1. CASE records = reccnt
    BY <1>2, <1>10, <1>11, <1>12, <2>1, Counts
  <2>2. CASE p \in Waiting
    <3>1. p \in Waiters(blk)
      BY <2>2 DEF Waiting, Waiters
    <3> QED BY <1>10, <1>11, <1>12, <3>1, Counts
  <2> QED BY <2>1, <2>2
<1> QED BY <1>6, <1>7, <1>8, <1>9, <1>13 DEF IInv

\* IInv holds at first.
LEMMA InitInv == Init => IInv
<1> SUFFICES ASSUME Init PROVE IInv
  OBVIOUS
<1>1. /\ v_filocks = [f \in File |-> << >>] /\ request = [p \in Proc |-> NoRequest]
      /\ blk = [p \in Proc |-> NoProc] /\ p_wchan = [p \in Proc |-> NoRecord]
      /\ p_sig = {} /\ retval = "ok"
  BY DEF Init
<1>2. TypeOK
  BY <1>1 DEF TypeOK
<1>3. ASSUME NEW f \in File PROVE Good(v_filocks[f]) /\ Excl(v_filocks[f])
  <2>1. v_filocks[f] = << >>
    BY <1>1
  <2>2. \A x : ~Holds(<< >>, x)
    BY DEF Holds
  <2>3. << >> \in Seq(Record) /\ Injective(<< >>) /\ Sorted(<< >>)
    BY DEF Injective, Sorted
  <2>4. Good(<< >>)
    BY <2>2, <2>3 DEF Good, Proper, Apart
  <2>5. Excl(<< >>)
    BY <2>2 DEF Excl, Has
  <2> QED BY <2>1, <2>4, <2>5
<1>4. Sleepers(v_filocks, p_wchan, request, blk)
  BY <1>1 DEF Sleepers
<1>5. \A p \in Waiting : request[p] \in Requests
  BY <1>1 DEF Waiting
<1>6. reccnt <= t_flckrec
  <2>1. Sum(v_filocks) = 0
    <3>1. [f \in File |-> Len(v_filocks[f])] = [f \in File |-> 0]
      BY <1>1
    <3>2. SumFunction([f \in File |-> 0]) = 0
      BY FlockAssumption, SumZero DEF FlockAssumption
    <3> QED BY <3>1, <3>2 DEF Sum
  <2>2. Cardinality(Waiters(blk)) = 0
    <3>1. Waiters(blk) = {}
      BY <1>1 DEF Waiters
    <3> QED BY <3>1, FS_EmptySet
  <2> QED BY <2>1, <2>2, Reccnt, FlockAssumption DEF FlockAssumption
<1> QED BY <1>2, <1>3, <1>4, <1>5, <1>6 DEF IInv

\* Every step keeps IInv.
LEMMA NextInv == IInv /\ [Next]_vars => IInv'
<1> SUFFICES ASSUME IInv, [Next]_vars PROVE IInv'
  OBVIOUS
<1>1. reccnt \in Int /\ reccnt <= t_flckrec /\ t_flckrec \in Int /\ p_sig \in SUBSET Proc
  BY Counts DEF IInv, TypeOK
<1>2. reccnt - 1 \in Int /\ reccnt - 1 <= t_flckrec
  BY <1>1
<1>3. CASE UNCHANGED vars
  <2>1. UNCHANGED << v_filocks, request, blk, p_wchan, p_sig, retval >>
    BY <1>3 DEF vars
  <2>2. Kind(reccnt)
    <3>1. retval' \in {"ok", "ENOLCK"}
      BY <2>1 DEF IInv, TypeOK
    <3> QED BY <1>1, <2>1, <3>1, StillKind
  <2> QED BY <1>1, <2>1, <2>2, StayInv
<1>4. ASSUME NEW p \in Proc, NEW r \in Requests, reclock(p, r) PROVE IInv'
  <2>1. \/ Granted(p, r, reccnt) /\ UNCHANGED << request, blk, p_sig >>
        \/ Waits(p, r, reccnt) /\ UNCHANGED p_sig
    BY <1>4 DEF reclock
  <2>2. CASE Granted(p, r, reccnt) /\ UNCHANGED << request, blk, p_sig >>
    BY <1>1, <2>2, GrantedKind, StayInv
  <2>3. CASE Waits(p, r, reccnt) /\ UNCHANGED p_sig
    BY <1>1, <2>3, WaitsInv
  <2> QED BY <2>1, <2>2, <2>3
<1>5. ASSUME NEW p \in Proc, Resume(p) PROVE IInv'
  <2>1. p \in Waiting \ Asleep /\ p \in Waiting /\ p_sig' \in SUBSET Proc
        /\ request[p] \in Requests
    BY <1>1, <1>5 DEF Resume, IInv
  <2>2. CASE Leave(p) /\ retval' \in {"ok", "ENOLCK"} /\ UNCHANGED << v_filocks, p_wchan >>
    BY <1>2, <2>1, <2>2, StillKind, LeaveInv
  <2>3. CASE Granted(p, request[p], reccnt - 1) /\ Leave(p)
    BY <1>2, <2>1, <2>3, GrantedKind, LeaveInv
  <2>4. CASE Waits(p, request[p], reccnt - 1)
    BY <1>2, <2>1, <2>4, WaitsInv
  <2>5. Refused(p, request[p], reccnt - 1) =>
            retval' \in {"ok", "ENOLCK"} /\ UNCHANGED << v_filocks, p_wchan >>
    BY DEF Refused
  <2> QED BY <1>5, <2>2, <2>3, <2>4, <2>5 DEF Resume
<1>6. ASSUME NEW p \in Proc, NEW f \in File, NEW b \in Ranges, Unlock(p, f, b) PROVE IInv'
  <2>1. Adjusted(f, 0, [owner |-> p, type |-> "un", start |-> b[1], end |-> b[2]], reccnt)
    BY <1>6 DEF Unlock
  <2> DEFINE ld == [owner |-> p, type |-> "un", start |-> b[1], end |-> b[2]]
  <2>2. PICK list, woke : Written(f, v_filocks[f], list, woke, ld, reccnt)
    BY <1>1, <2>1, UnlockKind
  <2> HIDE DEF ld
  <2>3. Kind(reccnt)
    BY <1>1, <2>2, WrittenKind
  <2> QED BY <1>1, <1>6, <2>3, StayInv DEF Unlock
<1>7. ASSUME NEW p \in Proc, Signal(p) PROVE IInv'
  <2>1. /\ p_wchan' = [p_wchan EXCEPT ![p] = NoRecord] /\ retval' = "ok"
        /\ UNCHANGED << v_filocks, request, blk >> /\ p_sig' \in SUBSET Proc
    BY <1>1, <1>7 DEF Signal
  <2>2. /\ v_filocks \in [File -> Seq(Record)] /\ p_wchan \in [Proc -> Names \cup {NoRecord}]
        /\ \A f \in File : Good(v_filocks[f]) /\ Excl(v_filocks[f])
        /\ Sleepers(v_filocks, p_wchan, request, blk)
    BY DEF IInv, TypeOK, Names
  <2>3. \A q \in Proc : p_wchan'[q] # NoRecord => p_wchan'[q] = p_wchan[q]
    BY <2>1, <2>2
  <2>4. Sleepers(v_filocks, p_wchan', request, blk)
    BY <2>2, <2>3 DEF Sleepers
  <2>5. \A q \in Proc : p_wchan[q] = NoRecord => p_wchan'[q] = NoRecord
    BY <2>1, <2>2
  <2>6. p_wchan' \in [Proc -> Names \cup {NoRecord}]
    BY <2>1, <2>2
  <2>7. Sum(v_filocks) <= Sum(v_filocks) + (t_flckrec - reccnt)
    BY <1>1, Counts
  <2>8. Kind(reccnt)
    BY <2>1, <2>2, <2>4, <2>5, <2>6, <2>7, Counts DEF Kind
  <2> QED BY <1>1, <2>1, <2>8, StayInv
<1>8. ASSUME NEW p \in Proc, NEW f \in File, cleanlocks(p, f) PROVE IInv'
  <2> DEFINE L == v_filocks[f]
             list == Kept(L, p)
  <2>1. PICK woke : /\ Good(list) /\ Excl(list) /\ Woke(f, L, list, woke)
                    /\ Update(f, list, woke) /\ retval' = "ok" /\ Len(list) <= Len(L)
    BY <1>8, CleanKind
  <2>2. UNCHANGED << request, blk, p_sig >>
    BY <1>8 DEF cleanlocks
  <2> HIDE DEF list
  <2>3. /\ v_filocks' \in [File -> Seq(Record)]
        /\ p_wchan' \in [Proc -> Names \cup {NoRecord}]
        /\ \A g \in File : Good(v_filocks'[g]) /\ Excl(v_filocks'[g])
        /\ Sleepers(v_filocks', p_wchan', request, blk)
        /\ \A q \in Proc : p_wchan[q] = NoRecord => p_wchan'[q] = NoRecord
        /\ Sum(v_filocks) \in Int
        /\ Sum(v_filocks') = Sum(v_filocks) + (Len(list) - Len(v_filocks[f]))
    BY <2>1, UpdateKeeps
  <2>4. Len(list) \in Nat /\ Len(L) \in Nat
    <3>1. list \in Seq(Record) /\ L \in Seq(Record)
      BY <2>1 DEF Good, IInv
    <3> QED BY <3>1, Elements
  <2>5. Sum(v_filocks') \in Int /\ Sum(v_filocks') <= Sum(v_filocks) + (t_flckrec - reccnt)
    BY <1>1, <2>1, <2>3, <2>4
  <2>6. Kind(reccnt)
    BY <2>1, <2>3, <2>5 DEF Kind
  <2> QED BY <1>1, <2>2, <2>6, StayInv
<1> QED BY <1>3, <1>4, <1>5, <1>6, <1>7, <1>8 DEF Next

\* IInv is an invariant.
LEMMA Invariance == Spec => []IInv
  BY InitInv, NextInv, PTL DEF Spec

(***************************************************************************)
(* The records, requests and sleepers are what they should be: for one,    *)
(* flckadj() never makes a record that ends before it starts or beyond the *)
(* last byte.                                                              *)
(***************************************************************************)
THEOREM TypeCorrect == Spec => []TypeOK
<1>1. IInv => TypeOK
  BY DEF IInv
<1> QED BY <1>1, Invariance, PTL

\* It says what ListSound says,
LEMMA GoodSays == IInv => ListSound
<1> SUFFICES ASSUME IInv PROVE ListSound
  OBVIOUS
<1>1. ASSUME NEW f \in File, NEW m \in DOMAIN v_filocks[f], NEW n \in DOMAIN v_filocks[f]
      PROVE  LET r == v_filocks[f][m]
                 s == v_filocks[f][n]
             IN /\ r.start <= r.end
                /\ m < n => /\ r.start <= s.start
                            /\ r.owner = s.owner => /\ r.end < s.start
                                                    /\ r.end + 1 = s.start => r.type # s.type
  <2> DEFINE L == v_filocks[f]
             r == L[m]
             s == L[n]
  <2>1. Good(L)
    BY DEF IInv
  <2> HIDE DEF L
  <2>2. /\ L \in Seq(Record) /\ Proper(L) /\ Injective(L) /\ Sorted(L) /\ Apart(L)
        /\ m \in DOMAIN L /\ n \in DOMAIN L
    BY <2>1 DEF Good, L
  <2>3. /\ r \in Record /\ s \in Record /\ Holds(L, r) /\ Holds(L, s)
        /\ DOMAIN L = 1 .. Len(L) /\ Len(L) \in Nat
    BY <2>2, Elements
  <2>4. r.start <= r.end /\ s.start <= s.end
    BY <2>2, <2>3 DEF Proper
  <2>5. m < n => r.start <= s.start /\ r # s
    BY <2>2, <2>3 DEF Sorted, Injective
  <2>6. ASSUME m < n, r.owner = s.owner PROVE Off(r, s)
    <3>1. Off(r, s) \/ Off(s, r)
      BY <2>2, <2>3, <2>5, <2>6 DEF Apart
    <3> QED BY <2>3, <2>4, <2>5, <2>6, <3>1, RecordFields DEF Off
  <2> QED BY <2>4, <2>5, <2>6 DEF Off, L
<1> QED BY <1>1 DEF ListSound, IInv

(***************************************************************************)
(* However the locks of any number of processes are set, split, merged,    *)
(* cut and dropped, the list of a file stays in order, the locks of one    *)
(* process stay apart and as few as can be, and there are never more than  *)
(* t_flckrec records.                                                      *)
(***************************************************************************)
THEOREM ListsSound == Spec => []ListSound
  BY GoodSays, Invariance, PTL

\* and what SleepersBarred says.
LEMMA SleepersSay == IInv => SleepersBarred
<1> SUFFICES ASSUME IInv, NEW p \in Asleep
             PROVE  LET f == request[p].file
                    IN \E n \in DOMAIN v_filocks[f] :
                        LET r == v_filocks[f][n]
                        IN /\ Name(f, r) = p_wchan[p] /\ r.wakeflg
                           /\ r.owner = blk[p] /\ Bars(r, Lock(p, request[p]))
  BY DEF SleepersBarred
<1> DEFINE f == request[p].file
<1>1. PICK x \in Record : /\ Holds(v_filocks[f], x) /\ x.wakeflg /\ Name(f, x) = p_wchan[p]
                          /\ x.owner = blk[p] /\ Bars(x, Lock(p, request[p]))
  BY DEF IInv, Sleepers, OnRecord, Asleep
<1>2. PICK n \in DOMAIN v_filocks[f] : v_filocks[f][n] = x
  BY <1>1 DEF Holds
<1> QED BY <1>1, <1>2

(***************************************************************************)
(* Whoever sleeps in reclock() sleeps on a record that is still there,     *)
(* still bars it and is marked, so that no sleeper is forgotten when       *)
(* flckadj() or cleanlocks() cuts, deletes or merges records.              *)
(***************************************************************************)
THEOREM SleepersStayBarred == Spec => []SleepersBarred
  BY SleepersSay, Invariance, PTL

-----------------------------------------------------------------------------
(* The refinement of FlockMap.                                             *)

\* What p has on byte b by a list, and by all of them.
At(list, b, p) ==
    LET at == {r \in Range(list) : r.owner = p /\ b \in r.start .. r.end}
    IN IF at = {} THEN "none" ELSE (CHOOSE r \in at : TRUE).type
View(files) == [f \in File |-> [b \in Byte |-> [p \in Proc |-> At(files[f], b, p)]]]

\* It is what the list has.
LEMMA AtIs ==
    ASSUME NEW list, Good(list), NEW b \in Byte, NEW p \in Proc
    PROVE  /\ At(list, b, p) \in {"none", "rd", "wr"}
           /\ \A t \in Type : At(list, b, p) = t <=> Has(list, p, b, t)
<1> DEFINE at == {r \in Range(list) : r.owner = p /\ b \in r.start .. r.end}
<1>1. list \in Seq(Record) /\ b \in Int
  BY FlockAssumption DEF Good, Byte, FlockAssumption
<1>2. \A r : r \in Range(list) <=> Holds(list, r)
  BY DEF Range, Holds
<1>3. \A r : Holds(list, r) => r \in Record
  BY <1>1, Elements DEF Holds
<1>4. \A r : r \in at <=> r \in Record /\ Holds(list, r) /\ Covers(r, p, b, r.type)
  BY <1>1, <1>2, <1>3, RecordFields DEF Covers
<1>5. At(list, b, p) = IF at = {} THEN "none" ELSE (CHOOSE r \in at : TRUE).type
  BY DEF At
<1> HIDE DEF at
<1>6. CASE at = {}
  <2>1. \A t : ~Has(list, p, b, t)
    BY <1>4, <1>6 DEF Has, Covers
  <2> QED BY <1>5, <1>6, <2>1 DEF Type
<1>7. CASE at # {}
  <2> DEFINE c == CHOOSE r \in at : TRUE
  <2>1. c \in at
    BY <1>7
  <2>2. At(list, b, p) = c.type
    BY <1>5, <1>7
  <2> HIDE DEF c
  <2>3. c \in Record /\ Holds(list, c) /\ Covers(c, p, b, c.type) /\ c.type \in Type
    BY <1>4, <2>1, RecordFields
  <2>4. Has(list, p, b, c.type)
    BY <2>3 DEF Has
  <2>5. \A t \in Type : Has(list, p, b, t) => t = c.type
    BY <2>4, OneType
  <2> QED BY <2>2, <2>3, <2>4, <2>5 DEF Type
<1> QED BY <1>6, <1>7

\* Equal locks show as equal.
LEMMA AtSame ==
    ASSUME NEW list, Good(list), NEW new, Good(new), NEW b \in Byte, NEW p \in Proc,
           \A t \in Type : Has(new, p, b, t) <=> Has(list, p, b, t)
    PROVE  At(new, b, p) = At(list, b, p)
  BY AtIs DEF Type

\* Equal locks of all processes show as the same map.
LEMMA SameView ==
    ASSUME IInv, NEW f \in File, NEW new, Good(new), v_filocks' = [v_filocks EXCEPT ![f] = new],
           \A q \in Proc, b \in Byte, t \in Type :
              Has(new, q, b, t) <=> Has(v_filocks[f], q, b, t)
    PROVE  View(v_filocks') = View(v_filocks)
<1>1. v_filocks \in [File -> Seq(Record)] /\ \A g \in File : Good(v_filocks[g])
  BY DEF IInv, TypeOK
<1>2. ASSUME NEW g \in File, NEW b \in Byte, NEW q \in Proc
      PROVE  At(v_filocks'[g], b, q) = At(v_filocks[g], b, q)
  <2>1. CASE g = f
    BY <1>1, <2>1, AtSame
  <2>2. CASE g # f
    BY <1>1, <2>2
  <2> QED BY <2>1, <2>2
<1> QED BY <1>2 DEF View

\* What a call for t on the bytes i to j of f does, said of the lists.
Calls(p, f, t, i, j) ==
    IF Map!Free(View(v_filocks), p, f, t, i, j)
    THEN \/ Map!Set(View(v_filocks), View(v_filocks'), p, f, t, i, j)
         \/ Map!Fail(View(v_filocks), View(v_filocks'), p, f, i, j)
    ELSE View(v_filocks') = View(v_filocks)

\* It is what the map does.
LEMMA CallsIs ==
    /\ \A p, f, t, i, j : Calls(p, f, t, i, j) => Map!Call(p, f, t, i, j)
    /\ View(v_filocks') = View(v_filocks) => Map!Rest
<1> DEFINE locks == [f \in File |-> [b \in Byte |-> [p \in Proc |-> TypeAt(f, b, p)]]]
<1>1. locks = View(v_filocks) /\ locks' = View(v_filocks')
  BY DEF View, At, TypeAt
<1>2. ASSUME NEW p, NEW f, NEW t, NEW i, NEW j, Calls(p, f, t, i, j)
      PROVE  Map!Call(p, f, t, i, j)
  BY <1>1, <1>2 DEF Calls, Map!Call
<1>3. View(v_filocks') = View(v_filocks) => Map!Rest
  BY <1>1 DEF Map!Rest
<1> QED BY <1>2, <1>3

\* p has t on the bytes from i to j of list, and elsewhere what it had in L;
\* what others have is the same.
Gives(list, L, p, t, i, j) ==
    /\ \A b \in Byte, u \in Type :
        Has(list, p, b, u) <=> IF i <= b /\ b <= j THEN u = t ELSE Has(L, p, b, u)
    /\ \A q \in Proc \ {p}, b \in Byte, u \in Type : Has(list, q, b, u) <=> Has(L, q, b, u)

\* It shows so, and nothing else changes.
LEMMA Becoming ==
    ASSUME IInv, NEW p \in Proc, NEW f \in File, NEW list, Good(list),
           v_filocks' = [v_filocks EXCEPT ![f] = list],
           NEW t \in {"none", "rd", "wr"}, NEW i \in Int, NEW j \in Int,
           Gives(list, v_filocks[f], p, t, i, j)
    PROVE  Map!Becomes(View(v_filocks), View(v_filocks'), p, f, t, i, j)
<1>1. v_filocks \in [File -> Seq(Record)] /\ \A g \in File : Good(v_filocks[g])
  BY DEF IInv, TypeOK
<1>2. ASSUME NEW g \in File, NEW b \in Byte, NEW q \in Proc
      PROVE  At(v_filocks'[g], b, q)
                = IF g = f /\ q = p /\ b \in i .. j THEN t ELSE At(v_filocks[g], b, q)
  <2>1. b \in Int
    BY FlockAssumption DEF Byte, FlockAssumption
  <2>2. CASE g # f
    BY <1>1, <2>2
  <2>3. CASE g = f /\ (q # p \/ ~(i <= b /\ b <= j))
    <3>1. \A u \in Type : Has(list, q, b, u) <=> Has(v_filocks[f], q, b, u)
      BY <2>3 DEF Gives
    <3> QED BY <1>1, <2>1, <2>3, <3>1, AtSame
  <2>4. CASE g = f /\ q = p /\ i <= b /\ b <= j
    <3>1. \A u \in Type : Has(list, p, b, u) <=> u = t
      BY <2>4 DEF Gives
    <3>2. At(list, b, p) = t
      BY <3>1, AtIs DEF Type
    <3> QED BY <1>1, <2>1, <2>4, <3>2
  <2> QED BY <2>2, <2>3, <2>4
<1>3. ASSUME NEW files, NEW g \in File, NEW b \in Byte, NEW q \in Proc
      PROVE  View(files)[g][b][q] = At(files[g], b, q)
  BY DEF View
<1> SUFFICES ASSUME NEW g \in File, NEW b \in Byte, NEW q \in Proc
             PROVE  View(v_filocks')[g][b][q]
                      = IF g = f /\ q = p /\ b \in i .. j THEN t ELSE View(v_filocks)[g][b][q]
  BY DEF Map!Becomes, Map!Byte, Byte
<1>4. /\ View(v_filocks')[g][b][q] = At(v_filocks'[g], b, q)
      /\ View(v_filocks)[g][b][q] = At(v_filocks[g], b, q)
  BY <1>3
<1> QED BY <1>2, <1>4

\* No record bars the lock: no lock of others is in the way of it.
LEMMA Unbarred ==
    ASSUME IInv, NEW f \in File, NEW ld \in Lck, ld.type # "un", ld.start <= ld.end
    PROVE  Blockers(v_filocks[f], ld) = {}
              <=> Map!Free(View(v_filocks), ld.owner, f, ld.type, ld.start, ld.end)
<1> DEFINE L == v_filocks[f]
           p == ld.owner
<1>1. /\ Good(L) /\ L \in Seq(Record) /\ p \in Proc /\ ld.type \in Type
      /\ ld.start \in Int /\ ld.end \in Int /\ 0 <= ld.start /\ ld.end <= MAXEND
  BY LckFields DEF IInv, Good
<1>2. \A b \in ld.start .. ld.end : b \in Byte
  BY <1>1, FlockAssumption DEF Byte, FlockAssumption
<1>3. \A b \in Byte, q \in Proc : View(v_filocks)[f][b][q] = At(L, b, q)
  BY DEF View
<1>4. \A n \in DOMAIN L : L[n] \in Record /\ Holds(L, L[n]) /\ L[n].start <= L[n].end
  BY <1>1, Elements DEF Good, Proper
<1>5. ASSUME NEW n \in DOMAIN L, Bars(L[n], ld)
      PROVE  \E b \in ld.start .. ld.end, q \in Proc \ {p} :
                Map!Conflict(ld.type, View(v_filocks)[f][b][q])
  <2> DEFINE r == L[n]
             b == IF r.start <= ld.start THEN ld.start ELSE r.start
  <2>1. r \in Record /\ Holds(L, r) /\ r.start <= r.end /\ r.owner # p
        /\ r.start <= ld.end /\ ld.start <= r.end /\ "wr" \in {r.type, ld.type}
    BY <1>4, <1>5 DEF Bars
  <2> HIDE DEF r
  <2>2. b \in ld.start .. ld.end /\ r.start <= b /\ b <= r.end
    BY <1>1, <1>5, <2>1, RecordFields
  <2> HIDE DEF b
  <2>3. r.owner \in Proc \ {p} /\ r.type \in Type /\ b \in Byte
    BY <1>2, <2>1, <2>2 DEF Record
  <2>4. Has(L, r.owner, b, r.type)
    BY <2>1, <2>2 DEF Has, Covers
  <2>5. View(v_filocks)[f][b][r.owner] = r.type
    BY <1>1, <1>3, <2>3, <2>4, AtIs
  <2>6. Map!Conflict(ld.type, r.type)
    BY <1>1, <2>1, <2>3 DEF Map!Conflict, Type
  <2> QED BY <2>2, <2>3, <2>5, <2>6
<1>6. ASSUME NEW b \in ld.start .. ld.end, NEW q \in Proc \ {p},
             Map!Conflict(ld.type, View(v_filocks)[f][b][q])
      PROVE  \E n \in DOMAIN L : Bars(L[n], ld)
  <2>1. b \in Byte /\ b \in Int /\ ld.start <= b /\ b <= ld.end
    BY <1>1, <1>2
  <2> DEFINE u == At(L, b, q)
  <2>2. u \in Type /\ "wr" \in {ld.type, u}
    <3>1. u \in {"none", "rd", "wr"} /\ View(v_filocks)[f][b][q] = u
      BY <1>1, <1>3, <2>1, AtIs
    <3> HIDE DEF u
    <3> QED BY <1>6, <3>1 DEF Map!Conflict, Type
  <2>3. Has(L, q, b, u)
    BY <1>1, <2>1, <2>2, AtIs
  <2> HIDE DEF u
  <2>4. PICK x \in Record : Holds(L, x) /\ Covers(x, q, b, u)
    BY <2>3 DEF Has
  <2>5. PICK n \in DOMAIN L : L[n] = x
    BY <2>4 DEF Holds
  <2>6. x.owner # p /\ x.type = u /\ x.start <= b /\ b <= x.end
    BY <2>4 DEF Covers
  <2>7. x.start <= ld.end /\ ld.start <= x.end
    BY <1>1, <2>1, <2>6, RecordFields
  <2> QED BY <2>2, <2>5, <2>6, <2>7 DEF Bars
<1> QED BY <1>5, <1>6 DEF Blockers, Map!Free

\* flckadj() of a call: the lock goes in, or some of what its bytes had is lost.
LEMMA WrittenCalls ==
    ASSUME IInv, NEW f \in File, NEW ld \in Lck, ld.start <= ld.end, NEW records, NEW list, NEW woke,
           Written(f, v_filocks[f], list, woke, ld, records),
           NEW t, t = (IF ld.type = "un" THEN "none" ELSE ld.type),
           Map!Free(View(v_filocks), ld.owner, f, t, ld.start, ld.end)
    PROVE  Calls(ld.owner, f, t, ld.start, ld.end)
<1> DEFINE p == ld.owner
           L == v_filocks[f]
           i == ld.start
           j == ld.end
<1>1. /\ p \in Proc /\ i \in Int /\ j \in Int /\ t \in {"none", "rd", "wr"}
      /\ \A u \in Type : u = t <=> u = ld.type
  BY LckFields DEF Type
<1>2. /\ Good(list) /\ v_filocks' = [v_filocks EXCEPT ![f] = list]
      /\ \A x \in Record : x.owner # p => (Holds(list, x) <=> Holds(L, x))
      /\ \/ retval' = "ENOLCK" /\ Failed(list, L, ld)
         \/ retval' = "ok" /\ Locked(list, L, p, ld)
  BY DEF Written, Update
<1>3. \A q \in Proc \ {p}, b \in Byte, u \in Type : Has(list, q, b, u) <=> Has(L, q, b, u)
  BY <1>2 DEF Has, Covers
<1>4. CASE retval' = "ENOLCK" /\ Failed(list, L, ld)
  <2>1. PICK k \in i - 1 .. j :
            \A b \in Byte, u \in Type : Has(list, p, b, u) <=> Has(L, p, b, u) /\ ~(i <= b /\ b <= k)
    BY <1>4 DEF Failed
  <2>2. k \in Int /\ "none" \in {"none", "rd", "wr"}
    BY <1>1
  <2>3. Gives(list, L, p, "none", i, k)
    BY <1>3, <2>1 DEF Gives, Type
  <2>4. Map!Becomes(View(v_filocks), View(v_filocks'), p, f, "none", i, k)
    <3> HIDE DEF i, j, p
    <3> QED BY <1>1, <1>2, <2>2, <2>3, Becoming
  <2>5. Map!Fail(View(v_filocks), View(v_filocks'), p, f, i, j)
    BY <1>4, <2>4 DEF Map!Fail
  <2> QED BY <2>5 DEF Calls
<1>5. CASE retval' = "ok" /\ Locked(list, L, p, ld)
  <2>1. Gives(list, L, p, t, i, j)
    BY <1>1, <1>3, <1>5 DEF Gives, Locked, Within
  <2>2. Map!Becomes(View(v_filocks), View(v_filocks'), p, f, t, i, j)
    <3> HIDE DEF i, j, p
    <3> QED BY <1>1, <1>2, <2>1, Becoming
  <2>3. Map!Set(View(v_filocks), View(v_filocks'), p, f, t, i, j)
    BY <1>5, <2>2 DEF Map!Set
  <2> QED BY <2>3 DEF Calls
<1> QED BY <1>2, <1>4, <1>5

\* What a request asks, said of the lists.
AsksHere(p, r) ==
    IF r.set THEN Calls(p, r.file, r.type, r.start, r.end)
    ELSE View(v_filocks') = View(v_filocks)

\* A request that nothing bars.
LEMMA GrantedAsks ==
    ASSUME IInv, NEW p \in Proc, NEW r \in Requests, NEW records \in Int, records <= t_flckrec,
           Granted(p, r, records)
    PROVE  AsksHere(p, r)
<1> DEFINE ld == Lock(p, r)
           L == v_filocks[r.file]
<1>1. /\ ld \in Lck /\ r.file \in File /\ ld.type # "un" /\ ld.start <= ld.end /\ ld.owner = p
      /\ ld.type = r.type /\ ld.start = r.start /\ ld.end = r.end
  BY LockFields
<1>2. CASE r.set
  <2>1. Blockers(L, ld) = {} /\ Adjusted(r.file, Insrt(L, ld), ld, records)
    BY <1>2 DEF Granted
  <2>2. Begins(L, Insrt(L, ld), ld)
    BY DEF Begins
  <2> HIDE DEF ld, L
  <2>3. PICK list, woke : Written(r.file, L, list, woke, ld, records)
    BY <1>1, <2>1, <2>2, AdjustedDoes DEF L
  <2>4. Map!Free(View(v_filocks), p, r.file, r.type, r.start, r.end)
    BY <1>1, <2>1, Unbarred DEF L
  <2>5. Calls(p, r.file, r.type, r.start, r.end)
    BY <1>1, <2>3, <2>4, WrittenCalls DEF L
  <2> QED BY <1>2, <2>5 DEF AsksHere
<1>3. CASE ~r.set
  <2>1. UNCHANGED v_filocks
    BY <1>3 DEF Granted
  <2> QED BY <1>3, <2>1 DEF AsksHere
<1> QED BY <1>2, <1>3

\* A request that is barred changes nothing.
LEMMA BarredAsks ==
    ASSUME IInv, NEW p \in Proc, NEW r \in Requests, View(v_filocks') = View(v_filocks),
           Blockers(v_filocks[r.file], Lock(p, r)) # {}
    PROVE  AsksHere(p, r)
<1> DEFINE ld == Lock(p, r)
<1>1. /\ ld \in Lck /\ r.file \in File /\ ld.type # "un" /\ ld.start <= ld.end /\ ld.owner = p
      /\ ld.type = r.type /\ ld.start = r.start /\ ld.end = r.end
  BY LockFields
<1>2. ~Map!Free(View(v_filocks), p, r.file, r.type, r.start, r.end)
  <2> HIDE DEF ld
  <2>1. Blockers(v_filocks[r.file], ld) # {}
    BY DEF ld
  <2> QED BY <1>1, <2>1, Unbarred
<1> QED BY <1>2 DEF AsksHere, Calls

\* A request that waits, or is refused.
LEMMA WaitsAsks ==
    ASSUME IInv, NEW p \in Proc, NEW r \in Requests, NEW records \in Int,
           Waits(p, r, records) \/ Refused(p, r, records)
    PROVE  AsksHere(p, r)
<1>1. r.file \in File
  BY LockFields
<1>2. CASE Waits(p, r, records)
  <2>1. PICK new, y :
          /\ Good(new)
          /\ \A q \in Proc, b \in Byte, t \in Type :
                Has(new, q, b, t) <=> Has(v_filocks[r.file], q, b, t)
          /\ v_filocks' = [v_filocks EXCEPT ![r.file] = new]
    BY <1>2, WaitsDoes
  <2>2. View(v_filocks') = View(v_filocks)
    BY <1>1, <2>1, SameView
  <2>3. Blockers(v_filocks[r.file], Lock(p, r)) # {}
    BY <1>2 DEF Waits
  <2> QED BY <2>2, <2>3, BarredAsks
<1>3. CASE Refused(p, r, records)
  <2>1. UNCHANGED v_filocks /\ Blockers(v_filocks[r.file], Lock(p, r)) # {}
    BY <1>3 DEF Refused
  <2>2. View(v_filocks') = View(v_filocks)
    BY <2>1
  <2> QED BY <2>1, <2>2, BarredAsks
<1> QED BY <1>2, <1>3

\* Each call does what it was asked: reclock(), and after its sleep;
LEMMA ReclockAsks ==
    ASSUME IInv, NEW p \in Proc, NEW r \in Requests, reclock(p, r)
    PROVE  Asks(p, r)
<1>1. reccnt \in Int /\ reccnt <= t_flckrec
  BY Counts
<1>2. Granted(p, r, reccnt) \/ Waits(p, r, reccnt)
  BY DEF reclock
<1>3. AsksHere(p, r)
  BY <1>1, <1>2, GrantedAsks, WaitsAsks
<1> QED BY <1>3, CallsIs DEF AsksHere, Asks

LEMMA ResumeAsks ==
    ASSUME IInv, NEW p \in Proc, Resume(p)
    PROVE  IF p \in p_sig THEN Map!Rest ELSE request[p] \in Requests /\ Asks(p, request[p])
<1> DEFINE r == request[p]
<1>1. reccnt - 1 \in Int /\ reccnt - 1 <= t_flckrec
  <2>1. reccnt \in Int /\ reccnt <= t_flckrec /\ t_flckrec \in Int
    BY Counts
  <2> QED BY <2>1
<1>2. r \in Requests
  BY DEF Resume, IInv
<1>3. CASE p \in p_sig
  <2>1. UNCHANGED v_filocks
    BY <1>3 DEF Resume
  <2> QED BY <1>3, <2>1, CallsIs
<1>4. CASE p \notin p_sig
  <2>1. \/ Granted(p, r, reccnt - 1)
        \/ Refused(p, r, reccnt - 1)
        \/ Waits(p, r, reccnt - 1)
    BY <1>4 DEF Resume
  <2> HIDE DEF r
  <2>2. AsksHere(p, r)
    BY <1>1, <1>2, <2>1, GrantedAsks, WaitsAsks
  <2>3. Asks(p, r)
    BY <2>2, CallsIs DEF AsksHere, Asks
  <2> QED BY <1>2, <1>4, <2>3 DEF r
<1> QED BY <1>3, <1>4

\* a signal, which asks nothing;
LEMMA SignalAsks == ASSUME NEW p \in Proc, Signal(p) PROVE Map!Rest
<1>1. UNCHANGED v_filocks
  BY DEF Signal
<1> QED BY <1>1, CallsIs

\* F_UNLCK;
LEMMA UnlockAsks ==
    ASSUME IInv, NEW p \in Proc, NEW f \in File, NEW b \in Ranges, Unlock(p, f, b)
    PROVE  Map!Call(p, f, "none", b[1], b[2])
<1> DEFINE ld == [owner |-> p, type |-> "un", start |-> b[1], end |-> b[2]]
<1>1. reccnt \in Int /\ reccnt <= t_flckrec /\ Adjusted(f, 0, ld, reccnt)
  BY Counts DEF Unlock
<1>2. b[1] <= b[2]
  BY FlockAssumption DEF FlockAssumption
<1>3. /\ ld.owner = p /\ ld.start = b[1] /\ ld.end = b[2] /\ ld.start <= ld.end
      /\ (IF ld.type = "un" THEN "none" ELSE ld.type) = "none"
  BY <1>2
<1>4. ld \in Lck /\ \E list, woke : Written(f, v_filocks[f], list, woke, ld, reccnt)
  BY <1>1, UnlockKind
<1> HIDE DEF ld
<1>5. PICK list, woke : Written(f, v_filocks[f], list, woke, ld, reccnt)
  BY <1>4
<1>6. Map!Free(View(v_filocks), p, f, "none", b[1], b[2])
  BY DEF Map!Free, Map!Conflict
<1>7. Calls(p, f, "none", b[1], b[2])
  BY <1>3, <1>4, <1>5, <1>6, WrittenCalls
<1> QED BY <1>7, CallsIs

\* and a close, of the whole file, which does not fail.
LEMMA CleanAsks ==
    ASSUME IInv, NEW p \in Proc, NEW f \in File, cleanlocks(p, f)
    PROVE  Map!Call(p, f, "none", 0, MAXEND) /\ retval' = "ok"
<1> DEFINE L == v_filocks[f]
           list == Kept(L, p)
<1>1. PICK woke : /\ Good(list) /\ Update(f, list, woke) /\ retval' = "ok"
                  /\ \A x : Holds(list, x) <=> Holds(L, x) /\ x.owner # p
  BY CleanKind
<1> HIDE DEF list
<1>2. /\ 0 \in Int /\ MAXEND \in Int /\ "none" \in {"none", "rd", "wr"}
      /\ \A b \in Byte : 0 <= b /\ b <= MAXEND
  BY FlockAssumption DEF FlockAssumption, Byte
<1>3. \A q \in Proc \ {p}, b \in Byte, u \in Type : Has(list, q, b, u) <=> Has(L, q, b, u)
  BY <1>1 DEF Has, Covers
<1>4. \A b \in Byte, u \in Type : Has(list, p, b, u) <=> u = "none"
  BY <1>1 DEF Has, Covers, Type
<1>5. Gives(list, L, p, "none", 0, MAXEND)
  BY <1>2, <1>3, <1>4 DEF Gives
<1>6. v_filocks' = [v_filocks EXCEPT ![f] = list]
  BY <1>1 DEF Update
<1>7. Map!Becomes(View(v_filocks), View(v_filocks'), p, f, "none", 0, MAXEND)
  BY <1>1, <1>2, <1>5, <1>6, Becoming
<1>8. Map!Set(View(v_filocks), View(v_filocks'), p, f, "none", 0, MAXEND)
  BY <1>1, <1>7 DEF Map!Set
<1>9. Map!Free(View(v_filocks), p, f, "none", 0, MAXEND)
  BY DEF Map!Free, Map!Conflict
<1> QED BY <1>1, <1>8, <1>9, CallsIs DEF Calls

\* Together they are what AsAsked says.
LEMMA StepsAsAsked == IInv => AsAsked
BY ReclockAsks, ResumeAsks, SignalAsks, UnlockAsks, CleanAsks DEF AsAsked

\* What the calls ask is a step of the map.
LEMMA NextMaps == IInv /\ Next => Map!Next
<1> SUFFICES ASSUME IInv, Next PROVE Map!Next
  OBVIOUS
<1>1. ASSUME NEW p \in Proc, NEW f \in File, NEW t \in {"none", "rd", "wr"}, NEW i \in Byte,
             NEW j \in Byte, i <= j, Map!Call(p, f, t, i, j)
      PROVE  Map!Next
  <2>1. j \in i .. MAXEND
    BY <1>1, FlockAssumption DEF Byte, FlockAssumption
  <2> QED BY <1>1, <2>1 DEF Map!Next, Map!Byte, Map!Mode, Byte
<1>2. ASSUME NEW p \in Proc, NEW r \in Requests, Asks(p, r) PROVE Map!Next
  <2>1. /\ r.file \in File /\ r.type \in {"none", "rd", "wr"} /\ r.start \in Byte /\ r.end \in Byte
        /\ r.start <= r.end
    <3>1. /\ r.file \in File /\ r.type \in Type /\ Lock(p, r) \in Lck
          /\ Lock(p, r).start = r.start /\ Lock(p, r).end = r.end
          /\ Lock(p, r).start <= Lock(p, r).end
      BY LockFields
    <3> QED BY <3>1, LckFields DEF Type
  <2>2. CASE r.set
    BY <1>1, <1>2, <2>1, <2>2 DEF Asks
  <2>3. CASE ~r.set
    BY <1>2, <2>3 DEF Asks, Map!Next
  <2> QED BY <2>2, <2>3
<1>3. ASSUME NEW p \in Proc, NEW r \in Requests, reclock(p, r) PROVE Map!Next
  BY <1>2, <1>3, ReclockAsks
<1>4. ASSUME NEW p \in Proc, Resume(p) PROVE Map!Next
  <2>1. Map!Rest => Map!Next
    BY DEF Map!Next
  <2> QED BY <1>2, <1>4, <2>1, ResumeAsks
<1>5. ASSUME NEW p \in Proc, Signal(p) PROVE Map!Next
  BY <1>5, SignalAsks DEF Map!Next
<1>6. ASSUME NEW p \in Proc, NEW f \in File, NEW b \in Ranges, Unlock(p, f, b) PROVE Map!Next
  <2>1. b[1] \in Byte /\ b[2] \in Byte /\ b[1] <= b[2]
    BY FlockAssumption DEF FlockAssumption, Byte
  <2> QED BY <1>1, <1>6, <2>1, UnlockAsks
<1>7. ASSUME NEW p \in Proc, NEW f \in File, cleanlocks(p, f) PROVE Map!Next
  <2>1. 0 \in Byte /\ MAXEND \in Byte /\ 0 <= MAXEND
    BY FlockAssumption DEF FlockAssumption, Byte
  <2> QED BY <1>1, <1>7, <2>1, CleanAsks
<1> QED BY <1>3, <1>4, <1>5, <1>6, <1>7 DEF Next

\* The empty lists are the map without locks.
LEMMA InitMaps == Init => Map!Init
<1> SUFFICES ASSUME Init PROVE Map!Init
  OBVIOUS
<1>1. v_filocks = [f \in File |-> << >>] /\ retval = "ok"
  BY DEF Init
<1>2. \A f \in File, b \in Byte, p \in Proc : TypeAt(f, b, p) = "none"
  <2>1. Range(<< >>) = {}
    BY DEF Range
  <2> QED BY <1>1, <2>1 DEF TypeAt
<1> QED BY <1>1, <1>2 DEF Map!Init, Map!Byte, Byte

\* The same, as the mapping of Map puts it.
LEMMA StepMaps ==
    ASSUME IInv, [Next]_vars
    PROVE  [Map!Next]_<< [f \in File |-> [b \in Byte |-> [p \in Proc |-> TypeAt(f, b, p)]]], retval >>
<1>1. CASE UNCHANGED vars
  BY <1>1 DEF vars, TypeAt
<1>2. CASE Next
  BY <1>2, NextMaps
<1> QED BY <1>1, <1>2

(***************************************************************************)
(* reclock(), flckadj() and cleanlocks() keep the promise of FlockMap, and *)
(* each call the part of it that it was called for: it gives the bytes of  *)
(* its own request, and no others, the lock of its own request, if no lock *)
(* of another process excludes that, and else changes nothing; where it    *)
(* runs out of records it has changed no byte that it was not asked for.   *)
(***************************************************************************)
THEOREM KeepsPromise == Spec => Implements
<1>1. IInv /\ [Next]_vars
        => [Map!Next]_<< [f \in File |-> [b \in Byte |-> [p \in Proc |-> TypeAt(f, b, p)]]], retval >>
  BY StepMaps
<1>2. IInv => [AsAsked]_vars
  BY StepsAsAsked
<1> QED BY <1>1, <1>2, InitMaps, Invariance, PTL DEF Spec, Implements, Map!Spec

-----------------------------------------------------------------------------
(* Deadlock: deadflck() follows one chain, and yet no circle can form.     *)

\* Each waiting process waits for one owner, and there is no circle.
NoCircle(b) ==
    \A S \in SUBSET {p \in Proc : b[p] # NoProc} : S # {} => \E p \in S : b[p] \notin S

WaitInv == blk = [p \in Proc |-> blk[p]] /\ NoCircle(blk)

\* It is what NoDeadlock says.
LEMMA SameAsNoCircle == NoDeadlock <=> NoCircle(blk)
BY DEF NoDeadlock, NoCircle, Waiting

\* One process more waits, for an owner from whom deadflck() does not come
\* back to it.
LEMMA OneMore ==
    ASSUME WaitInv, NEW p \in Proc, NEW b, ~deadflck(p, b), blk' = [blk EXCEPT ![p] = b]
    PROVE  WaitInv'
<1>1. blk' = [q \in Proc |-> IF q = p THEN b ELSE blk[q]]
  BY DEF WaitInv
<1>2. PICK R \in SUBSET Proc : b \in R /\ Follows(R, p) /\ p \notin R
  BY DEF deadflck
<1>3. ASSUME NEW S \in SUBSET {q \in Proc : blk'[q] # NoProc}, S # {},
             \A q \in S : blk'[q] \in S
      PROVE  FALSE
  <2>1. CASE p \notin S
    <3>1. S \in SUBSET {q \in Proc : blk[q] # NoProc}
      BY <1>1, <2>1
    <3>2. PICK q \in S : blk[q] \notin S
      BY <1>3, <3>1 DEF WaitInv, NoCircle
    <3> QED BY <1>1, <1>3, <2>1, <3>2
  <2>2. CASE p \in S
    <3> DEFINE T == S \cap R
    <3>1. b \in T
      BY <1>1, <1>2, <1>3, <2>2
    <3>2. ASSUME NEW q \in T PROVE q # p /\ blk[q] # NoProc /\ blk[q] \in T
      <4>1. q # p
        BY <1>2
      <4>2. blk'[q] = blk[q] /\ blk[q] # NoProc /\ blk[q] \in S
        BY <1>1, <1>3, <4>1
      <4>3. blk[q] \in R
        BY <1>2, <4>1, <4>2 DEF Follows
      <4> QED BY <4>1, <4>2, <4>3
    <3>3. T \in SUBSET {q \in Proc : blk[q] # NoProc}
      BY <1>2, <3>2
    <3> HIDE DEF T
    <3> QED BY <3>1, <3>2, <3>3 DEF WaitInv, NoCircle
  <2> QED BY <2>1, <2>2
<1>4. NoCircle(blk')
  BY <1>3 DEF NoCircle
<1> QED BY <1>1, <1>4 DEF WaitInv, NoCircle

\* One process less waits.
LEMMA OneLess ==
    ASSUME WaitInv, NEW p \in Proc, blk' = [blk EXCEPT ![p] = NoProc]
    PROVE  WaitInv'
<1>1. blk' = [q \in Proc |-> IF q = p THEN NoProc ELSE blk[q]]
  BY DEF WaitInv
<1>2. ASSUME NEW S \in SUBSET {q \in Proc : blk'[q] # NoProc}, S # {}
      PROVE  \E q \in S : blk'[q] \notin S
  <2>1. p \notin S /\ S \in SUBSET {q \in Proc : blk[q] # NoProc}
    BY <1>1
  <2>2. PICK q \in S : blk[q] \notin S
    BY <1>2, <2>1 DEF WaitInv, NoCircle
  <2> QED BY <1>1, <2>1, <2>2
<1>3. NoCircle(blk')
  BY <1>2 DEF NoCircle
<1> QED BY <1>1, <1>3 DEF WaitInv, NoCircle

\* WaitInv holds at first, when nobody waits.
LEMMA WaitInit == Init => WaitInv
BY FlockAssumption DEF Init, WaitInv, NoCircle

\* Every step keeps WaitInv.
LEMMA WaitNext == WaitInv /\ [Next]_vars => WaitInv'
<1> SUFFICES ASSUME WaitInv, [Next]_vars PROVE WaitInv'
  OBVIOUS
<1>1. CASE UNCHANGED blk
  BY <1>1 DEF WaitInv, NoCircle
<1>2. ASSUME NEW p \in Proc, NEW r, NEW n, Waits(p, r, n) PROVE WaitInv'
  BY <1>2, OneMore DEF Waits
<1>3. ASSUME NEW p \in Proc, Leave(p) PROVE WaitInv'
  BY <1>3, OneLess DEF Leave
<1>4. CASE UNCHANGED vars
  BY <1>1, <1>4 DEF vars
<1>5. ASSUME NEW p \in Proc, NEW r \in Requests, reclock(p, r) PROVE WaitInv'
  BY <1>1, <1>2, <1>5 DEF reclock
<1>6. ASSUME NEW p \in Proc, Resume(p) PROVE WaitInv'
  BY <1>2, <1>3, <1>6 DEF Resume
<1>7. ASSUME NEW p \in Proc, NEW f \in File, NEW b \in Ranges, Unlock(p, f, b) PROVE WaitInv'
  BY <1>1, <1>7 DEF Unlock
<1>8. ASSUME NEW p \in Proc, Signal(p) PROVE WaitInv'
  BY <1>1, <1>8 DEF Signal
<1>9. ASSUME NEW p \in Proc, NEW f \in File, cleanlocks(p, f) PROVE WaitInv'
  BY <1>1, <1>9 DEF cleanlocks
<1> QED BY <1>4, <1>5, <1>6, <1>7, <1>8, <1>9 DEF Next

(***************************************************************************)
(* However many processes there are and whatever they lock, no circle of   *)
(* them waits in reclock(), and the search of deadflck() ends.             *)
(***************************************************************************)
THEOREM DeadlockFree == Spec => []NoDeadlock
<1>1. Spec => []WaitInv
  BY WaitInit, WaitNext, PTL DEF Spec
<1>2. WaitInv => NoDeadlock
  BY SameAsNoCircle DEF WaitInv
<1> QED BY <1>1, <1>2, PTL
=============================================================================
