---------------------------------- MODULE Flock ----------------------------------
(***************************************************************************)
(* File and record locks: reclock() with blocked(), flckadj(), regflck(),  *)
(* insflck(), delflck(), deadflck(), and cleanlocks(), of os/flock.c.      *)
(*                                                                         *)
(* A call runs without interruption up to sleep().  After it the process   *)
(* may wait for the inode lock again (INOFLCK) before it goes on, which is *)
(* the same here as not having run yet.  A record, which the code knows by *)
(* its address, is known by its file, owner and start: no two in use share *)
(* them, and a start never changes.  Requests have their end computed.  A  *)
(* call that reports a lock, or finds one and does not wait, changes       *)
(* nothing and is left out, and so are the network lock manager (RCMDLCK), *)
(* the XENIX variants, and processes with several threads.                 *)
(***************************************************************************)
EXTENDS Integers, FiniteSets, Sequences, SequencesExt

CONSTANTS
    Proc, File, NoProc,
    MAXEND,         \* the last byte there can be
    Ranges,         \* the starts and ends that calls ask for
    t_flckrec       \* tune.t_flckrec, the most records in use

ASSUME FlockAssumption ==
    /\ IsFiniteSet(Proc) /\ IsFiniteSet(File) /\ NoProc \notin Proc
    /\ MAXEND \in Nat /\ t_flckrec \in Nat
    /\ \A r \in Ranges : r[1] \in 0 .. MAXEND /\ r[2] \in r[1] .. MAXEND

VARIABLES
    v_filocks,  \* file -> its list of records, by start
    request,    \* the request of a process that waits, or NoRequest
    blk,        \* whose lock its record in sleeplcks names, or NoProc
    p_wchan,    \* the record it is asleep on, or NoRecord when it has been woken
    p_sig,      \* the waiting processes with a signal pending
    retval      \* "ENOLCK" when the last step was a call that failed so, else "ok"

vars == << v_filocks, request, blk, p_wchan, p_sig, retval >>

Byte == 0 .. MAXEND
Type == {"rd", "wr"}
Record == [owner : Proc, type : Type, start : Byte, end : Byte, wakeflg : BOOLEAN]

\* With set = FALSE, chklock(): wait until the bytes are free and lock nothing.
Requests ==
    {r \in [file : File, type : Type, start : Byte, end : Byte, set : BOOLEAN] :
        << r.start, r.end >> \in Ranges}
NoRequest == [file |-> NoProc]
NoRecord == << >>

Init ==
    /\ v_filocks = [f \in File |-> << >>]
    /\ request = [p \in Proc |-> NoRequest]
    /\ blk = [p \in Proc |-> NoProc]
    /\ p_wchan = [p \in Proc |-> NoRecord]
    /\ p_sig = {}
    /\ retval = "ok"

Name(f, r) == << f, r.owner, r.start >>

\* The processes with a record in sleeplcks, and those that sleep.
Waiting == {p \in Proc : blk[p] # NoProc}
Asleep == {p \in Proc : p_wchan[p] # NoRecord}

\* flckinfo.reccnt.
reccnt == SumFunction([f \in File |-> Len(v_filocks[f])]) + Cardinality(Waiting)

-----------------------------------------------------------------------------
(* blocked().                                                              *)

Bars(r, ld) ==
    /\ r.owner # ld.owner
    /\ r.start <= ld.end /\ ld.start <= r.end
    /\ "wr" \in {r.type, ld.type}

Blockers(list, ld) == {n \in DOMAIN list : Bars(list[n], ld)}
Blocker(list, ld) == CHOOSE n \in Blockers(list, ld) : \A m \in Blockers(list, ld) : n <= m

\* Where it says flckadj() should begin: 0 for the head of the list.
Insrt(list, ld) ==
    LET before == {n \in DOMAIN list : \A m \in 1 .. n : list[m].start < ld.start}
        own == {n \in before : list[n].owner = ld.owner /\ ld.start - 1 <= list[n].end}
    IN IF own # {} THEN CHOOSE n \in own : \A m \in own : n <= m
       ELSE IF before # {} THEN CHOOSE n \in before : \A m \in before : m <= n
       ELSE 0

-----------------------------------------------------------------------------
(* flckadj().  It walks down the list of one file; its work w has the      *)
(* list, the place in it (at), the lock as it has grown (ld), insrtp, the  *)
(* records whose sleepers it woke, the records that may still be had and   *)
(* the result.                                                             *)

\* Seeded fault regflck_inclusive: a lock that ends where r does leaves a tail.
regflck_inclusive(ld, r) ==
    << CASE ld.start < r.start -> "BEFORE"
         [] ld.start = r.start -> "START"
         [] ld.start > r.start /\ ld.start <= r.end -> "MIDDLE"
         [] ld.start = r.end + 1 -> "END"
         [] OTHER -> "AFTER",
       CASE ld.end < r.start - 1 -> "BEFORE"
         [] ld.end = r.start - 1 -> "START"
         [] ld.end >= r.start /\ ld.end <= r.end -> "MIDDLE"
         [] OTHER -> "AFTER" >>

\* regflck(): where the lock begins and where it ends, seen from record r.
regflck(ld, r) ==
    << CASE ld.start < r.start -> "BEFORE"
         [] ld.start = r.start -> "START"
         [] ld.start > r.start /\ ld.start <= r.end -> "MIDDLE"
         [] ld.start = r.end + 1 -> "END"
         [] OTHER -> "AFTER",
       CASE ld.end < r.start - 1 -> "BEFORE"
         [] ld.end = r.start - 1 -> "START"
         [] ld.end >= r.start /\ ld.end < r.end -> "MIDDLE"
         [] ld.end = r.end -> "END"
         [] OTHER -> "AFTER" >>

\* insflck(): after place n, when there is room.
NewRecord(ld) ==
    [owner |-> ld.owner, type |-> ld.type, start |-> ld.start, end |-> ld.end, wakeflg |-> FALSE]
insflck(w, ld, n) == [w EXCEPT !.list = InsertAt(@, n + 1, NewRecord(ld)), !.room = @ - 1]

\* WAKEUP().
Woken(w) == IF w.list[w.at].wakeflg THEN {Name(w.file, w.list[w.at])} ELSE {}

\* delflck() of the record at w.at; the next one takes its place.
\* Seeded fault delflck_silent: its sleepers are not woken.
delflck_silent(w) == [w EXCEPT !.list = RemoveAt(@, w.at), !.room = @ + 1]
delflck(w) ==
    [w EXCEPT !.list = RemoveAt(@, w.at), !.room = @ + 1, !.woke = @ \cup Woken(w)]

\* The record at w.at loses all from the start of the lock on.
Shorten(w) ==
    [w EXCEPT !.list[w.at].end = w.ld.start - 1, !.list[w.at].wakeflg = FALSE,
              !.woke = @ \cup Woken(w), !.insrtp = w.at]

\* The rest of the record at w.at, behind the lock, as a record of its own.
\* Seeded fault Rest_overlap: it keeps the last byte that is unlocked.  Seeded
\* fault KeepTail_next: it goes right behind the record it comes from.
Rest_overlap(w) == [w.list[w.at] EXCEPT !.start = w.ld.end]
Rest(w) == [w.list[w.at] EXCEPT !.start = w.ld.end + 1]
KeepTail_next(w) == insflck(w, Rest(w), w.at)
KeepTail(w) ==
    LET later == {n \in w.at .. Len(w.list) :
                    \A m \in w.at .. n : w.list[m].start < w.ld.end + 1}
    IN insflck(w, Rest(w), CHOOSE n \in later : \A m \in later : m <= n)

Skip(w) == [w EXCEPT !.at = @ + 1]
Stop(w) == [w EXCEPT !.at = Len(w.list) + 1]
End(w, result) == [w EXCEPT !.result = result]

\* One record of the caller.
Adjust(w) ==
    LET r == w.list[w.at]
        same == w.ld.type = r.type
        reg == regflck(w.ld, r)
        s == reg[1]
        e == reg[2]
        gone == delflck(w)
        grown == [gone EXCEPT !.ld.end = r.end]
    IN CASE e = "BEFORE" -> Stop(w)
         [] e = "START" -> IF same THEN Stop(grown) ELSE Stop(w)
         [] same /\ s \in {"START", "MIDDLE"} /\ e \in {"MIDDLE", "END"} -> End(w, "ok")
         [] s = "START" /\ e \in {"END", "AFTER"} /\ ~(same /\ e = "END") ->
                [gone EXCEPT !.insrtp = w.at - 1]
         [] s = "BEFORE" /\ e \in {"END", "AFTER"} ->
                IF same /\ e = "END" THEN Stop(gone) ELSE gone
         [] s = "BEFORE" /\ e = "MIDDLE" /\ same -> Stop(grown)
         [] e = "MIDDLE" /\ ~same ->
                IF w.room <= 0 THEN End(w, "ENOLCK")
                ELSE IF s = "MIDDLE" THEN Stop(Shorten(KeepTail(w)))
                ELSE Stop([delflck(KeepTail(w)) EXCEPT
                            !.insrtp = IF s = "START" THEN w.at - 1 ELSE @])
         [] s = "MIDDLE" /\ e \in {"END", "AFTER"} /\ ~same -> Skip(Shorten(w))
         [] s \in {"MIDDLE", "END"} /\ e = "AFTER" /\ same ->
                [gone EXCEPT !.ld.start = r.start, !.insrtp = w.at - 1]
         [] s = "END" /\ ~same -> Skip(w)
         [] s = "AFTER" -> Skip([w EXCEPT !.insrtp = w.at])

\* The walk, then the lock itself goes in, unless it is an unlock.
Turn(w) ==
    IF w.result # "go" \/ w.at > Len(w.list) THEN w
    ELSE IF w.list[w.at].owner # w.ld.owner THEN Skip(w)
    ELSE Adjust(w)
Walk(w) ==
    LET after[n \in 0 .. Len(w.list)] == IF n = 0 THEN w ELSE Turn(after[n - 1])
    IN after[Len(w.list)]

Place(w) ==
    LET later == {n \in w.insrtp .. Len(w.list) :
                    n > 0 /\ \A m \in w.insrtp .. n : w.list[m].start < w.ld.start}
    IN IF w.insrtp = 0 \/ later = {} THEN w.insrtp
       ELSE CHOOSE n \in later : \A m \in later : m <= n

Start(f, insrt, ld, records) ==
    [file |-> f, list |-> v_filocks[f], at |-> IF insrt = 0 THEN 1 ELSE insrt, ld |-> ld,
     insrtp |-> insrt, woke |-> {}, room |-> t_flckrec - records, result |-> "go"]

flckadj(f, insrt, ld, records) ==
    LET w == Walk(Start(f, insrt, ld, records))
    IN IF w.result # "go" \/ ld.type = "un" THEN w
       ELSE IF w.room <= 0 THEN End(w, "ENOLCK")
       ELSE insflck(w, w.ld, Place(w))

-----------------------------------------------------------------------------
(* The calls.                                                              *)

\* The list of f becomes list, and the sleepers of some records are woken.
Update(f, list, woke) ==
    /\ v_filocks' = [v_filocks EXCEPT ![f] = list]
    /\ p_wchan' = [p \in Proc |-> IF p_wchan[p] \in woke THEN NoRecord ELSE p_wchan[p]]

Adjusted(f, insrt, ld, records) ==
    LET w == flckadj(f, insrt, ld, records)
    IN /\ Update(f, w.list, w.woke)
       /\ retval' = IF w.result = "ENOLCK" THEN "ENOLCK" ELSE "ok"

Lock(p, r) == [owner |-> p, type |-> r.type, start |-> r.start, end |-> r.end]

(***************************************************************************)
(* deadflck(): from the owner b of the lock that bars the way, to whom it  *)
(* waits for, and on, comes p.  Seeded fault deadflck_one: it looks one    *)
(* step far.                                                               *)
(***************************************************************************)
Follows(S, p) == \A q \in S \ {p} : blk[q] # NoProc => blk[q] \in S
deadflck_one(p, b) == p \in {b, blk[b]}
deadflck(p, b) == \A S \in SUBSET Proc : b \in S /\ Follows(S, p) => p \in S

\* Nothing bars the request: it is done, or for chklock() there is nothing to do.
Granted(p, r, records) ==
    LET ld == Lock(p, r)
        list == v_filocks[r.file]
    IN /\ Blockers(list, ld) = {}
       /\ IF r.set THEN Adjusted(r.file, Insrt(list, ld), ld, records)
          ELSE UNCHANGED << v_filocks, p_wchan >> /\ retval' = "ok"

\* A lock bars the request, and p waits for its owner.
Waits(p, r, records) ==
    LET ld == Lock(p, r)
        list == v_filocks[r.file]
        n == Blocker(list, ld)
    IN /\ Blockers(list, ld) # {}
       /\ ~deadflck(p, list[n].owner) /\ records < t_flckrec
       /\ v_filocks' = [v_filocks EXCEPT ![r.file][n].wakeflg = TRUE]
       /\ request' = [request EXCEPT ![p] = r]
       /\ blk' = [blk EXCEPT ![p] = list[n].owner]
       /\ p_wchan' = [p_wchan EXCEPT ![p] = Name(r.file, list[n])]
       /\ retval' = "ok"

\* EDEADLK or ENOLCK: there is no room for its record.
Refused(p, r, records) ==
    LET ld == Lock(p, r)
        list == v_filocks[r.file]
    IN /\ Blockers(list, ld) # {}
       /\ deadflck(p, list[Blocker(list, ld)].owner) \/ records >= t_flckrec
       /\ retval' = IF deadflck(p, list[Blocker(list, ld)].owner) THEN "ok" ELSE "ENOLCK"
       /\ UNCHANGED << v_filocks, p_wchan >>

reclock(p, r) ==
    /\ request[p] = NoRequest
    /\ UNCHANGED p_sig
    /\ \/ UNCHANGED << request, blk >> /\ Granted(p, r, reccnt)
       \/ Waits(p, r, reccnt)

\* The call returns; its record in sleeplcks has been deleted.
Leave(p) ==
    /\ request' = [request EXCEPT ![p] = NoRequest]
    /\ blk' = [blk EXCEPT ![p] = NoProc]

\* The sleep is over.  Unless a signal ended it the request is tried again,
\* when the record of p in sleeplcks no longer counts.
Resume(p) ==
    /\ p \in Waiting \ Asleep
    /\ p_sig' = p_sig \ {p}
    /\ IF p \in p_sig THEN Leave(p) /\ retval' = "ok" /\ UNCHANGED << v_filocks, p_wchan >>
       ELSE \/ Granted(p, request[p], reccnt - 1) /\ Leave(p)
            \/ Refused(p, request[p], reccnt - 1) /\ Leave(p)
            \/ Waits(p, request[p], reccnt - 1)

\* F_UNLCK: from the head of the list on.
Unlock(p, f, b) ==
    /\ request[p] = NoRequest
    /\ UNCHANGED << request, blk, p_sig >>
    /\ Adjusted(f, 0, [owner |-> p, type |-> "un", start |-> b[1], end |-> b[2]], reccnt)

\* A signal for a process in reclock(): sigtoproc() makes it runnable.
Signal(p) ==
    /\ p \in Waiting
    /\ p_sig' = p_sig \cup {p}
    /\ p_wchan' = [p_wchan EXCEPT ![p] = NoRecord]
    /\ retval' = "ok"
    /\ UNCHANGED << v_filocks, request, blk >>

\* What delflck() of each record of p leaves of the list.
Kept(list, p) ==
    LET after[n \in 0 .. Len(list)] ==
            IF n = 0 THEN << >>
            ELSE IF list[n].owner = p THEN after[n - 1] ELSE Append(after[n - 1], list[n])
    IN after[Len(list)]

\* Every close of the file, the one in exit() included, drops all locks of
\* the process on it.
cleanlocks(p, f) ==
    LET mine == {r \in Range(v_filocks[f]) : r.owner = p}
    IN /\ request[p] = NoRequest
       /\ Update(f, Kept(v_filocks[f], p),
                 {Name(f, r) : r \in {s \in mine : s.wakeflg}})
       /\ retval' = "ok"
       /\ UNCHANGED << request, blk, p_sig >>

Next ==
    \E p \in Proc :
        \/ \E r \in Requests : reclock(p, r)
        \/ Resume(p) \/ Signal(p)
        \/ \E f \in File, b \in Ranges : Unlock(p, f, b)
        \/ \E f \in File : cleanlocks(p, f)

Spec == Init /\ [][Next]_vars

-----------------------------------------------------------------------------
(* Properties.                                                             *)

TypeOK ==
    /\ v_filocks \in [File -> Seq(Record)]
    /\ request \in [Proc -> Requests \cup {NoRequest}]
    /\ blk \in [Proc -> Proc \cup {NoProc}]
    /\ p_wchan \in [Proc -> (File \X Proc \X Byte) \cup {NoRecord}]
    /\ p_sig \subseteq Proc
    /\ retval \in {"ok", "ENOLCK"}

\* The list of a file is in the order of the starts, which blocked() and
\* flckadj() stop at; the locks of one process do not overlap, and they are
\* as few as can be: two that touch are of different types.  The records are
\* never more than t_flckrec.
ListSound ==
    /\ \A f \in File : \A m, n \in DOMAIN v_filocks[f] :
        LET r == v_filocks[f][m]
            s == v_filocks[f][n]
        IN /\ r.start <= r.end
           /\ m < n => /\ r.start <= s.start
                       /\ r.owner = s.owner => /\ r.end < s.start
                                               /\ r.end + 1 = s.start => r.type # s.type
    /\ reccnt <= t_flckrec

\* A process asleep in reclock() waits for a lock that is still held, that
\* still bars its request, whose owner is the one deadflck() follows, and
\* whose next change wakes it: flckadj() and cleanlocks() wake the sleepers
\* of every record they cut or delete.
SleepersBarred ==
    \A p \in Asleep :
        LET f == request[p].file
        IN \E n \in DOMAIN v_filocks[f] :
            LET r == v_filocks[f][n]
            IN /\ Name(f, r) = p_wchan[p] /\ r.wakeflg
               /\ r.owner = blk[p] /\ Bars(r, Lock(p, request[p]))

\* Processes never wait for one another in a circle: of any of them that
\* sleep, one waits for a process outside.  It is also what lets the search
\* of deadflck() end, which stops only at p or at a process that waits for
\* nobody.
NoDeadlock ==
    \A S \in SUBSET Waiting : S # {} => \E p \in S : blk[p] \notin S

\* What p has on byte b of file f.
TypeAt(f, b, p) ==
    LET at == {r \in Range(v_filocks[f]) : r.owner = p /\ b \in r.start .. r.end}
    IN IF at = {} THEN "none" ELSE (CHOOSE r \in at : TRUE).type

Map == INSTANCE FlockMap WITH
        locks <- [f \in File |-> [b \in Byte |-> [p \in Proc |-> TypeAt(f, b, p)]]],
        result <- retval

\* What request r asks of the map: chklock() asks for no lock.
Asks(p, r) == IF r.set THEN Map!Call(p, r.file, r.type, r.start, r.end) ELSE Map!Rest

\* Each call does to the map what it was called for: its own request, or, for
\* one that has slept, the request it went to sleep with.
AsAsked ==
    \A p \in Proc :
        /\ \A r \in Requests : reclock(p, r) => Asks(p, r)
        /\ Resume(p) => IF p \in p_sig THEN Map!Rest ELSE Asks(p, request[p])
        /\ Signal(p) => Map!Rest
        /\ \A f \in File :
            /\ \A b \in Ranges : Unlock(p, f, b) => Map!Call(p, f, "none", b[1], b[2])
            /\ cleanlocks(p, f) => Map!Call(p, f, "none", 0, MAXEND) /\ retval' = "ok"

\* Record locking keeps its promise (FlockMap): a call gives just the bytes it
\* was asked for, of the file and the process it is about, the lock it was
\* asked for, if the locks of others do not exclude that, and else changes
\* nothing, however the records are split, merged and cut and however long it
\* has slept.  Where it runs out of records it may have unlocked bytes, but of
\* those it was asked for.
Implements == Map!Spec /\ [][AsAsked]_vars
=============================================================================
