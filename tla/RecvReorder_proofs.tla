------------------------- MODULE RecvReorder_proofs -------------------------
(***************************************************************************)
(* Proofs about RecvReorder, for any modulus, window, gap, stream and      *)
(* number of changes of the agreement that WindowAssumption allows, so     *)
(* also for 4096 and 64.                                                   *)
(***************************************************************************)
EXTENDS RecvReorder, SequenceTheorems, WellFoundedInduction, TLAPS

\* Half the number space: SN_LESS takes what is further ahead to be behind.
Half == Mod \div 2

\* The lock of the pending queue is held while frames go up.
LockInv ==
    /\ rx = "deliver" <=> qlock = "rx"
    /\ tm = "deliver" <=> qlock = "tm"

\* While frames wait, or bReorderWaiting keeps the tasklet from arming it,
\* the timer is armed or its handler is about to look at the queue; what the
\* tasklet cancels after it dropped the lock is needed by nobody.
TimerInv ==
    /\ rx = "cancel" => queue = <<>> /\ ~bReorderWaiting
    /\ tm = "deliver" => ~bReorderWaiting
    /\ sta = "linked" /\ ~stopped =>
          /\ bReorderWaiting => armed \/ tm = "fired"
          /\ queue # <<>> => armed \/ tm # "idle" \/ rx = "deliver"

\* A station that left the hash table with no frame in the tasklet gets
\* none, and once its timer is cancelled the timer stays so.
FreeInv ==
    ~inflight =>
        /\ sta # "linked" => rx = "idle"
        /\ sta \in {"cancelled", "freed"} => ~armed /\ tm = "idle"
        /\ sta = "freed" => queue = <<>>

\* The sender's window: nothing beyond it was received, and it is at most
\* MaxGap frames ahead of what was.
SenderInv == hi < base + TxWin /\ base <= hi + MaxGap + 1

\* The queue is sorted by the sender's numbers, each frame once.
Spaced ==
    \A i, j \in 1..Len(queue) : i < j => queue[j] - queue[i] >= j - i

\* The tasklet has a frame in hand that it has not compared with the window.
Unseen == rx \in {"test", "reorder"}

\* hp is the highest frame compared with the window so far.
Seen(hp) ==
    IF Unseen
       THEN /\ hi = IF cur > hp THEN cur ELSE hp
            /\ hp - TxWin < cur /\ cur <= hp + MaxGap + TxWin
       ELSE hi = hp

\* w is the window start, numbered as the sender numbers: ahead of all that
\* went up, at most a window behind the highest frame seen, and past it only
\* by a BAR.  What waits has not gone up, was seen, and is less than a window
\* back, except while the window has just been shifted.
Window(w, hp) ==
    /\ indicate_seq = SN(w)
    /\ last < w
    /\ hp - WSize < w /\ w <= hp + MaxGap + 1
    /\ w <= hp + 1 \/ w <= IF Unseen THEN cur ELSE base
    /\ \A i \in 1..Len(queue) :
          /\ last < queue[i] /\ queue[i] <= hp
          /\ w - queue[i] < Half
          /\ rx # "deliver" => hp - WSize + 1 < queue[i]

\* No frame has been looked at: the first one fixes the window.
Fresh ==
    /\ indicate_seq = NoSeq /\ queue = <<>> /\ last = First - 1
    /\ rx \in {"idle", "test", "reorder"}
    /\ hi = IF Unseen THEN cur ELSE First - 1

WindowInv ==
    ~moved =>
        /\ enable /\ ordered
        /\ rx \notin {"before", "after"}
        /\ Spaced
        /\ \/ Fresh
           \/ ~rec_abba_rsp_ack /\ \E w, hp \in Int : Window(w, hp) /\ Seen(hp)

IInv ==
    TypeOK /\ LockInv /\ TimerInv /\ FreeInv /\ SenderInv /\ WindowInv

-----------------------------------------------------------------------------
(* Sequence numbers: the 12 bits the code compares, and the sender's own.  *)

\* The modulus is even and more than twice the windows and the gap.
LEMMA Sizes ==
    /\ Mod \in Nat \ {0} /\ Half \in Nat \ {0} /\ Mod = 2 * Half
    /\ WSize \in Nat \ {0} /\ TxWin \in Nat \ {0} /\ TxWin <= WSize
    /\ MaxGap \in Nat /\ First \in Nat /\ MaxN \in Nat /\ First <= MaxN
    /\ MaxBa \in Nat
    /\ WSize + TxWin + MaxGap < Half
BY WindowAssumption DEF Half

\* Quotient and remainder.
LEMMA Division ==
    ASSUME NEW m \in Nat \ {0}, NEW a \in Int
    PROVE  /\ a \div m \in Int /\ a % m \in 0..(m - 1)
           /\ a = (m * (a \div m)) + (a % m)
OBVIOUS

\* The remainder is the only one.
LEMMA Remainder ==
    ASSUME NEW m \in Nat \ {0}, NEW a \in Int, NEW k \in Int,
           NEW r \in 0..(m - 1), a = (m * k) + r
    PROVE  a % m = r
OBVIOUS

\* A number may be reduced before it is added to or subtracted from.
LEMMA SubtractReduced ==
    ASSUME NEW m \in Nat \ {0}, NEW a \in Int, NEW b \in Int
    PROVE  ((a % m) - (b % m)) % m = (a - b) % m
<1> DEFINE qa == a \div m
           qb == b \div m
           ra == a % m
           rb == b % m
           qd == (a - b) \div m
           rd == (a - b) % m
<1>1. /\ a = (m * qa) + ra /\ qa \in Int /\ ra \in 0..(m - 1)
      /\ b = (m * qb) + rb /\ qb \in Int /\ rb \in 0..(m - 1)
  BY Division, Zenon
<1>2. a - b = (m * qd) + rd /\ qd \in Int /\ rd \in 0..(m - 1)
  <2>1. a - b \in Int
    OBVIOUS
  <2> QED BY <2>1, Division, Zenon
<1> HIDE DEF qa, qb, ra, rb, qd, rd
<1>3. ra - rb = (m * (qd - qa + qb)) + rd
  BY <1>1, <1>2
<1>4. (ra - rb) % m = rd
  BY <1>1, <1>2, <1>3, Remainder
<1> QED BY <1>4, Zenon DEF ra, rb, rd

\* The same for a sum.
LEMMA AddReduced ==
    ASSUME NEW m \in Nat \ {0}, NEW a \in Int, NEW k \in Int
    PROVE  ((a % m) + k) % m = (a + k) % m
<1> DEFINE qa == a \div m
           ra == a % m
           qd == (a + k) \div m
           rd == (a + k) % m
<1>1. a = (m * qa) + ra /\ qa \in Int /\ ra \in 0..(m - 1)
  BY Division, Zenon
<1>2. a + k = (m * qd) + rd /\ qd \in Int /\ rd \in 0..(m - 1)
  <2>1. a + k \in Int
    OBVIOUS
  <2> QED BY <2>1, Division, Zenon
<1> HIDE DEF qa, ra, qd, rd
<1>3. ra + k = (m * (qd - qa)) + rd
  BY <1>1, <1>2
<1>4. ra + k \in Int /\ qd - qa \in Int
  BY <1>1, <1>2
<1>5. (ra + k) % m = rd
  BY <1>2, <1>3, <1>4, Remainder, Zenon
<1> QED BY <1>5, Zenon DEF ra, rd

\* A sequence number is below Mod, and is not NoSeq.
LEMMA SnRange ==
    ASSUME NEW n \in Int
    PROVE  SN(n) \in 0..(Mod - 1) /\ SN(n) \in Int /\ SN(n) # NoSeq
BY Sizes, Division DEF SN, NoSeq

\* SN_LESS compares two frames as the sender does when they are less than
\* half the number space apart.
LEMMA SnLess ==
    ASSUME NEW a \in Int, NEW b \in Int,
           a - b < Half, b - a < Half
    PROVE  SN_LESS(SN(a), SN(b)) <=> a < b
<1>1. (SN(a) - SN(b)) % Mod = (a - b) % Mod
  BY Sizes, SubtractReduced, Zenon DEF SN
<1>2. CASE a < b
  <2>1. a - b = (Mod * (-1)) + (a - b + Mod) /\ a - b + Mod \in 0..(Mod - 1)
    BY <1>2, Sizes
  <2>2. (a - b) % Mod = a - b + Mod
    BY <2>1, Sizes, Remainder
  <2> QED BY <1>1, <1>2, <2>2, Sizes DEF SN_LESS, Half
<1>3. CASE ~(a < b)
  <2>1. a - b = (Mod * 0) + (a - b) /\ a - b \in 0..(Mod - 1)
    BY <1>3, Sizes
  <2>2. (a - b) % Mod = a - b
    BY <2>1, Sizes, Remainder
  <2> QED BY <1>1, <1>3, <2>2, Sizes DEF SN_LESS, Half
<1> QED BY <1>2, <1>3, Zenon

\* Frames that are close have the same sequence number only if they are one.
LEMMA SnEqual ==
    ASSUME NEW a \in Int, NEW b \in Int,
           a - b < Half, b - a < Half
    PROVE  SN(a) = SN(b) <=> a = b
<1>1. ASSUME SN(a) = SN(b) PROVE ~(a < b) /\ ~(b < a)
  <2>1. SN_LESS(SN(a), SN(b)) <=> SN_LESS(SN(b), SN(a))
    BY <1>1, Zenon
  <2>2. SN_LESS(SN(a), SN(b)) <=> a < b
    BY SnLess, Zenon
  <2>3. SN_LESS(SN(b), SN(a)) <=> b < a
    BY SnLess, Zenon
  <2> QED BY <2>1, <2>2, <2>3
<1> QED BY <1>1

LEMMA SnAdd ==
    ASSUME NEW a \in Int, NEW k \in Int
    PROVE  (SN(a) + k) % Mod = SN(a + k)
BY Sizes, AddReduced, Zenon DEF SN

-----------------------------------------------------------------------------
(* The pending queue.                                                      *)

\* Taking the head of a queue.
LEMMA TailFacts ==
    ASSUME NEW S, NEW s \in Seq(S), s # <<>>
    PROVE  /\ Tail(s) \in Seq(S)
           /\ Len(s) \in Nat \ {0}
           /\ Len(Tail(s)) = Len(s) - 1
           /\ \A i \in 1..(Len(s) - 1) : Tail(s)[i] = s[i + 1]
           /\ Head(s) = s[1] /\ Head(s) \in S
OBVIOUS

\* enqueue_reorder_recvframe finds a place: behind frames that are all less,
\* and in front of one that is not.
LEMMA PlaceFound ==
    ASSUME NEW seq \in Int, NEW S, queue \in Seq(S)
    PROVE  /\ Place(seq) \in 1..(Len(queue) + 1)
           /\ \A j \in 1..(Place(seq) - 1) : SN_LESS(SN(queue[j]), seq)
           /\ Place(seq) <= Len(queue) =>
                  ~SN_LESS(SN(queue[Place(seq)]), seq)
<1> DEFINE T == {i \in 1..(Len(queue) + 1) :
                    i <= Len(queue) => ~SN_LESS(SN(queue[i]), seq)}
           R == OpToRel(<, Nat)
           Fits(i) == /\ \A j \in 1..(i - 1) : SN_LESS(SN(queue[j]), seq)
                      /\ i <= Len(queue) => ~SN_LESS(SN(queue[i]), seq)
<1>1. Len(queue) \in Nat
  BY LenProperties, Zenon
<1>2. T \subseteq Nat /\ Len(queue) + 1 \in T
  BY <1>1
<1>3. PICK i \in T : \A j \in T : <<j, i>> \notin R
  <2>1. IsWellFoundedOn(R, Nat)
    BY NatLessThanWellFounded, Zenon
  <2> HIDE DEF T, R
  <2> QED BY <1>2, <2>1, WFMin, Zenon
<1>4. \A j \in T : ~(j < i)
  <2> TAKE j \in T
  <2>1. <<j, i>> \notin R /\ j \in Nat /\ i \in Nat
    BY <1>2, <1>3, Zenon
  <2> QED BY <2>1, Zenon DEF OpToRel
<1>5. i \in 1..(Len(queue) + 1) /\ Fits(i)
  <2>1. ASSUME NEW j \in 1..(i - 1), ~SN_LESS(SN(queue[j]), seq) PROVE FALSE
    <3>1. j \in T /\ j < i
      BY <1>1, <2>1
    <3> QED BY <1>4, <3>1, Zenon
  <2> QED BY <2>1, Zenon
<1>6. \E k \in 1..(Len(queue) + 1) : Fits(k)
  BY <1>5, Zenon
<1>7. Place(seq) = CHOOSE k \in 1..(Len(queue) + 1) : Fits(k)
  BY Zenon DEF Place
<1> HIDE DEF Fits
<1>8. Place(seq) \in 1..(Len(queue) + 1) /\ Fits(Place(seq))
  BY <1>6, <1>7, Zenon
<1> QED BY <1>8, Zenon DEF Fits

\* Frames are numbers, and so is what is read from the queue.
LEMMA Ints ==
    ASSUME TypeOK
    PROVE  /\ First \in Int /\ cur \in Int /\ base \in Int /\ hi \in Int
           /\ last \in Int /\ indicate_seq \in Int
           /\ Len(queue) \in Nat
           /\ \A i \in 1..Len(queue) :
                 queue[i] \in First..MaxN /\ queue[i] \in Int
<1>1. \A i \in 1..Len(queue) : queue[i] \in First..MaxN
  BY ElementOfSeq, Zenon DEF TypeOK
<1>2. First \in Int /\ Mod \in Int
  BY Sizes
<1> QED BY <1>1, <1>2 DEF TypeOK, NoSeq

\* The queue with the tasklet's frame put into it at its place.
LEMMA Enqueued ==
    ASSUME TypeOK
    PROVE  /\ Place(SN(cur)) \in 1..(Len(queue) + 1)
           /\ Enqueue(cur) \in Seq(First..MaxN) /\ Enqueue(cur) # <<>>
           /\ Len(Enqueue(cur)) = Len(queue) + 1
           /\ \A j \in 1..(Len(queue) + 1) :
                 Enqueue(cur)[j] = IF j < Place(SN(cur)) THEN queue[j]
                                   ELSE IF j = Place(SN(cur)) THEN cur
                                   ELSE queue[j - 1]
<1> DEFINE S == First..MaxN
           s == queue
           e == cur
           i == Place(SN(cur))
           n == Len(s)
           a == SubSeq(s, 1, i - 1)
           b == SubSeq(s, i, n)
           c == a \o <<e>>
           t == c \o b
<1>0. s \in Seq(S) /\ e \in S
  BY Zenon DEF TypeOK
<1>1. n \in Nat /\ i \in 1..(n + 1) /\ \A j \in 1..n : s[j] \in S
  <2>1. i \in 1..(n + 1)
    BY <1>0, Ints, SnRange, PlaceFound, Zenon
  <2> QED BY <2>1, Ints, Zenon
<1>. HIDE DEF S, s, e, i, n
<1>2. /\ a \in Seq(S) /\ Len(a) = i - 1
      /\ \A j \in 1..(i - 1) : a[j] = s[j]
  <2>1. \A j \in 1..(i - 1) : s[j] \in S
    BY <1>1
  <2>2. /\ a \in Seq(S)
        /\ Len(a) = IF 1 <= i - 1 THEN i - 1 - 1 + 1 ELSE 0
        /\ \A j \in 1..(i - 1 - 1 + 1) : a[j] = s[1 + j - 1]
    BY <1>1, <2>1, SubSeqProperties
  <2> HIDE DEF a
  <2> QED BY <1>1, <2>2
<1>3. /\ b \in Seq(S) /\ Len(b) = n - i + 1
      /\ \A j \in 1..(n - i + 1) : b[j] = s[i + j - 1]
  <2>1. \A j \in i..n : s[j] \in S
    BY <1>1
  <2>2. /\ b \in Seq(S)
        /\ Len(b) = IF i <= n THEN n - i + 1 ELSE 0
        /\ \A j \in 1..(n - i + 1) : b[j] = s[i + j - 1]
    BY <1>1, <2>1, SubSeqProperties
  <2> HIDE DEF b
  <2> QED BY <1>1, <2>2
<1> HIDE DEF a, b
<1>4. <<e>> \in Seq(S) /\ Len(<<e>>) = 1 /\ <<e>>[1] = e
  BY <1>0
<1>5. /\ c \in Seq(S) /\ Len(c) = i
      /\ \A j \in 1..i : c[j] = IF j <= i - 1 THEN a[j] ELSE e
  <2>1. /\ c \in Seq(S) /\ Len(c) = Len(a) + 1
        /\ \A j \in 1..(Len(a) + 1) :
              c[j] = IF j <= Len(a) THEN a[j] ELSE <<e>>[j - Len(a)]
    BY <1>2, <1>4, ConcatProperties
  <2> HIDE DEF c
  <2> QED BY <1>1, <1>2, <1>4, <2>1
<1> HIDE DEF c
<1>6. /\ t \in Seq(S) /\ Len(t) = Len(c) + Len(b)
      /\ \A j \in 1..(Len(c) + Len(b)) :
            t[j] = IF j <= Len(c) THEN c[j] ELSE b[j - Len(c)]
  BY <1>3, <1>5, ConcatProperties, Zenon
<1> HIDE DEF t
<1>7. Len(t) = n + 1
  BY <1>1, <1>3, <1>5, <1>6
<1>8. t # <<>>
  BY <1>1, <1>6, <1>7
<1>9. ASSUME NEW j \in 1..(n + 1)
      PROVE  t[j] = IF j < i THEN s[j] ELSE IF j = i THEN e ELSE s[j - 1]
  <2>1. t[j] = IF j <= i THEN c[j] ELSE b[j - i]
    BY <1>1, <1>3, <1>5, <1>6
  <2>2. CASE j < i
    BY <1>1, <1>2, <1>5, <2>1, <2>2
  <2>3. CASE j = i
    BY <1>1, <1>5, <2>1, <2>3
  <2>4. CASE j > i
    <3>1. j - i \in 1..(n - i + 1) /\ i + (j - i) - 1 = j - 1
      BY <1>1, <2>4
    <3>2. b[j - i] = s[j - 1]
      BY <1>3, <3>1, Zenon
    <3> QED BY <1>1, <2>1, <2>4, <3>2
  <2> QED BY <1>1, <2>2, <2>3, <2>4
<1>10. /\ t \in Seq(S) /\ t # <<>> /\ Len(t) = n + 1
       /\ \A j \in 1..(n + 1) :
             t[j] = IF j < i THEN s[j] ELSE IF j = i THEN e ELSE s[j - 1]
  BY <1>6, <1>7, <1>8, <1>9, Zenon
<1>11. t = Enqueue(cur)
  BY Zenon DEF t, c, a, b, n, i, s, e, Enqueue
<1> QED BY <1>1, <1>10, <1>11, Zenon DEF n, i, s, e, S

-----------------------------------------------------------------------------
(* Types.                                                                  *)

\* The window start stays a sequence number.
LEMMA SeqType ==
    ASSUME TypeOK
    PROVE  /\ Shifted(SN(cur)) \in 0..(Mod - 1) \cup {NoSeq}
           /\ (indicate_seq + 1) % Mod \in 0..(Mod - 1)
<1>1. /\ indicate_seq \in Int /\ SN(cur) \in 0..(Mod - 1)
      /\ Start(SN(cur)) \in 0..(Mod - 1) \cup {NoSeq}
  BY Ints, SnRange, Zenon DEF TypeOK, Start
<1>2. /\ indicate_seq + 1 \in Int /\ Start(SN(cur)) + 1 \in Int
      /\ SN(cur) + 1 - WSize \in Int
  BY <1>1, Sizes DEF NoSeq
<1>3. /\ (indicate_seq + 1) % Mod \in 0..(Mod - 1)
      /\ (Start(SN(cur)) + 1) % Mod \in 0..(Mod - 1)
      /\ (SN(cur) + 1 - WSize) % Mod \in 0..(Mod - 1)
  BY <1>2, Sizes, Division, Zenon
<1> QED BY <1>1, <1>3, Zenon DEF Shifted

\* Every step keeps the types.
LEMMA TypeStep == TypeOK /\ [Next]_vars => TypeOK'
<1> SUFFICES ASSUME TypeOK, [Next]_vars PROVE TypeOK'
  BY Zenon
<1>1. CASE UNCHANGED vars
  BY <1>1 DEF TypeOK, vars, ctrlVars, rxVars, sendVars, histVars
<1>2. CASE Advance
  BY <1>2, Sizes DEF Advance, TypeOK, ctrlVars, rxVars, histVars
<1>3. CASE \E n \in First..MaxN : RecvFrame(n)
  <2>1. PICK n \in First..MaxN : RecvFrame(n)
    BY <1>3, Zenon
  <2>2. hi' \in (First - 1)..MaxN
    BY <2>1, Sizes DEF RecvFrame, TypeOK
  <2> QED BY <2>1, <2>2 DEF RecvFrame, TypeOK, ctrlVars, histVars
<1>4. CASE RecvTest
  BY <1>4 DEF RecvTest, TypeOK, ctrlVars, sendVars, histVars
<1>5. CASE RecvBefore
  <2>1. SN(cur) \in 0..(Mod - 1) /\ cur \in (First - 1)..MaxN
    BY Ints, SnRange DEF TypeOK
  <2> QED BY <1>5, <2>1 DEF RecvBefore, Indicate, TypeOK, sendVars
<1>6. CASE RecvAfter
  BY <1>6, SeqType DEF RecvAfter, TypeOK, sendVars, histVars
<1>7. CASE RecvReorder
  <2>1. rec_abba_rsp_ack' \in BOOLEAN
    BY <1>7, Zenon DEF RecvReorder
  <2>2. queue' \in Seq(First..MaxN)
    BY <1>7, Enqueued, Zenon DEF RecvReorder, TypeOK
  <2> QED BY <1>7, <2>1, <2>2, SeqType
     DEF RecvReorder, TypeOK, sendVars, histVars
<1>8. CASE RecvEnd
  <2>1. bReorderWaiting' \in BOOLEAN /\ armed' \in BOOLEAN
    BY <1>8, Zenon DEF RecvEnd, TypeOK
  <2> QED BY <1>8, <2>1 DEF RecvEnd, TypeOK, sendVars, histVars
<1>9. CASE RecvCancel
  <2>1. armed' \in BOOLEAN
    BY <1>9, Zenon DEF RecvCancel
  <2> QED BY <1>9, <2>1 DEF RecvCancel, TypeOK, ctrlVars, sendVars, histVars
<1>10. CASE RecvBar
  <2>1. SN(base) \in 0..(Mod - 1)
    BY Ints, SnRange, Zenon DEF TypeOK
  <2> QED BY <1>10, <2>1 DEF RecvBar, TypeOK, rxVars, sendVars
<1>11. CASE \E w \in {"rx", "tm"} : Deliver(w)
  <2>1. PICK w \in {"rx", "tm"} : Deliver(w)
    BY <1>11, Zenon
  <2>2. /\ Tail(queue) \in Seq(First..MaxN)
        /\ Head(queue) \in (First - 1)..MaxN
    BY <2>1, TailFacts, Sizes DEF Deliver, Due, TypeOK
  <2> QED BY <2>1, <2>2, SeqType
     DEF Deliver, Indicate, TypeOK, rxVars, sendVars
<1>12. CASE TimerExpire
  <2>1. armed' \in BOOLEAN
    BY <1>12, Zenon DEF TimerExpire
  <2> QED BY <1>12, <2>1
     DEF TimerExpire, TypeOK, ctrlVars, rxVars, sendVars, histVars
<1>13. CASE TimerForce
  <2>1. queue # <<>> => SN(Head(queue)) \in 0..(Mod - 1)
    <3>1. queue # <<>> => Head(queue) \in First..MaxN
      BY TailFacts, Zenon DEF TypeOK
    <3>2. queue # <<>> => Head(queue) \in Int
      BY <3>1, Sizes
    <3> QED BY <3>2, SnRange, Zenon
  <2>2. bReorderWaiting' \in BOOLEAN /\ armed' \in BOOLEAN
    BY <1>13, Zenon DEF TimerForce, TypeOK
  <2> QED BY <1>13, <2>1, <2>2
     DEF TimerForce, TypeOK, rxVars, sendVars, histVars
<1>14. CASE TimerEnd
  BY <1>14 DEF TimerEnd, TypeOK, ctrlVars, rxVars, sendVars, histVars
<1>15. CASE \E accept \in BOOLEAN : AddBaRsp(accept)
  BY <1>15, Sizes DEF AddBaRsp, TypeOK, rxVars, sendVars
<1>16. CASE DelBa
  <2>1. enable' \in BOOLEAN
    BY <1>16, Zenon DEF DelBa
  <2> QED BY <1>16, <2>1, Sizes DEF DelBa, TypeOK, rxVars, sendVars
<1>17. CASE JoinReset
  <2>1. enable' \in BOOLEAN /\ rec_abba_rsp_ack' \in BOOLEAN
    BY <1>17, Zenon DEF JoinReset
  <2> QED BY <1>17, <2>1, Sizes DEF JoinReset, TypeOK, rxVars, sendVars
<1>18. CASE FreeUnhash
  BY <1>18 DEF FreeUnhash, TypeOK, ctrlVars, rxVars, sendVars
<1>19. CASE FreeCancel
  <2>1. armed' \in BOOLEAN /\ rec_abba_rsp_ack' \in BOOLEAN
    BY <1>19, Zenon DEF FreeCancel
  <2> QED BY <1>19, <2>1 DEF FreeCancel, TypeOK, rxVars, sendVars, histVars
<1>20. CASE FreePurge
  BY <1>20 DEF FreePurge, TypeOK, rxVars, sendVars, histVars
<1>21. CASE Stop
  BY <1>21 DEF Stop, TypeOK, ctrlVars, rxVars, sendVars, histVars
<1> QED
  BY <1>1, <1>2, <1>3, <1>4, <1>5, <1>6, <1>7, <1>8, <1>9, <1>10, <1>11,
     <1>12, <1>13, <1>14, <1>15, <1>16, <1>17, <1>18, <1>19, <1>20, <1>21, Zenon
  DEF Next, RxStep, TimerStep

-----------------------------------------------------------------------------
(* The lock, the timer and the freeing of the station.                     *)

\* Every step keeps the lock with its holder, the timer armed for what waits
\* and a freed station quiet.
LEMMA ControlStep ==
    ASSUME TypeOK, LockInv, TimerInv, FreeInv, [Next]_vars
    PROVE  LockInv' /\ TimerInv' /\ FreeInv'
<1>1. CASE UNCHANGED vars
  BY <1>1, Zenon DEF LockInv, TimerInv, FreeInv, vars, ctrlVars, rxVars, histVars
<1>2. CASE Advance
  BY <1>2, Zenon
     DEF Advance, LockInv, TimerInv, FreeInv, TypeOK, ctrlVars, rxVars,
         histVars
<1>3. CASE \E n \in First..MaxN : RecvFrame(n)
  BY <1>3 DEF RecvFrame, LockInv, TimerInv, FreeInv, TypeOK, ctrlVars, histVars
<1>4. CASE RecvTest
  BY <1>4, Zenon DEF RecvTest, LockInv, TimerInv, FreeInv, TypeOK, ctrlVars, histVars
<1>5. CASE RecvBefore
  BY <1>5, Zenon DEF RecvBefore, LockInv, TimerInv, FreeInv, TypeOK
<1>6. CASE RecvAfter
  BY <1>6, Zenon DEF RecvAfter, LockInv, TimerInv, FreeInv, TypeOK, histVars
<1>7. CASE RecvReorder
  BY <1>7, Zenon DEF RecvReorder, LockInv, TimerInv, FreeInv, TypeOK, histVars
<1>8. CASE RecvEnd
  BY <1>8, Zenon DEF RecvEnd, LockInv, TimerInv, FreeInv, TypeOK, histVars
<1>9. CASE RecvCancel
  BY <1>9, Zenon
     DEF RecvCancel, LockInv, TimerInv, FreeInv, TypeOK, ctrlVars, histVars
<1>10. CASE RecvBar
  BY <1>10, Zenon DEF RecvBar, LockInv, TimerInv, FreeInv, TypeOK, rxVars
<1>11. CASE \E w \in {"rx", "tm"} : Deliver(w)
  BY <1>11 DEF Deliver, LockInv, TimerInv, FreeInv, TypeOK, rxVars
<1>12. CASE TimerExpire
  BY <1>12, Zenon
     DEF TimerExpire, LockInv, TimerInv, FreeInv, TypeOK, ctrlVars, rxVars,
         histVars
<1>13. CASE TimerForce
  BY <1>13, Zenon DEF TimerForce, LockInv, TimerInv, FreeInv, TypeOK, rxVars, histVars
<1>14. CASE TimerEnd
  BY <1>14, Zenon
     DEF TimerEnd, LockInv, TimerInv, FreeInv, TypeOK, ctrlVars, rxVars,
         histVars
<1>15. CASE \E accept \in BOOLEAN : AddBaRsp(accept)
  BY <1>15 DEF AddBaRsp, LockInv, TimerInv, FreeInv, TypeOK, rxVars
<1>16. CASE DelBa
  BY <1>16, Zenon DEF DelBa, LockInv, TimerInv, FreeInv, TypeOK, rxVars
<1>17. CASE JoinReset
  BY <1>17, Zenon DEF JoinReset, LockInv, TimerInv, FreeInv, TypeOK, rxVars
<1>18. CASE FreeUnhash
  BY <1>18, Zenon DEF FreeUnhash, LockInv, TimerInv, FreeInv, TypeOK, ctrlVars, rxVars
<1>19. CASE FreeCancel
  BY <1>19, Zenon DEF FreeCancel, LockInv, TimerInv, FreeInv, TypeOK, rxVars, histVars
<1>20. CASE FreePurge
  BY <1>20, Zenon DEF FreePurge, LockInv, TimerInv, FreeInv, TypeOK, rxVars, histVars
<1>21. CASE Stop
  BY <1>21, Zenon
     DEF Stop, LockInv, TimerInv, FreeInv, TypeOK, ctrlVars, rxVars, histVars
<1> QED
  BY <1>1, <1>2, <1>3, <1>4, <1>5, <1>6, <1>7, <1>8, <1>9, <1>10, <1>11,
     <1>12, <1>13, <1>14, <1>15, <1>16, <1>17, <1>18, <1>19, <1>20, <1>21, Zenon
  DEF Next, RxStep, TimerStep

\* Every step keeps the sender's window near the last frame received.
LEMMA SenderStep ==
    ASSUME TypeOK, SenderInv, [Next]_vars
    PROVE  SenderInv'
<1>1. CASE Advance
  BY <1>1, Ints, Sizes DEF Advance, SenderInv
<1>2. CASE \E n \in First..MaxN : RecvFrame(n)
  BY <1>2, Ints, Sizes, SMTT(20) DEF RecvFrame, SenderInv
<1>3. CASE UNCHANGED sendVars
  BY <1>3, Zenon DEF SenderInv, sendVars
<1> QED
  BY <1>1, <1>2, <1>3, Zenon DEF Next, vars, RxStep, TimerStep, RecvTest, RecvBefore,
     RecvAfter, RecvReorder, RecvEnd, RecvCancel, RecvBar, Deliver,
     TimerExpire, TimerForce, TimerEnd, AddBaRsp, DelBa, JoinReset,
     FreeUnhash, FreeCancel, FreePurge, Stop

-----------------------------------------------------------------------------
(* The window.                                                             *)

\* Outside the tasklet's critical section what is compared is close enough
\* for SN_LESS: the window start, the frame in hand, the frames that wait.
LEMMA Near ==
    ASSUME TypeOK, SenderInv, NEW w \in Int, NEW hp \in Int,
           Window(w, hp), Seen(hp)
    PROVE  /\ w - hp < Half /\ hp - w < Half
           /\ Unseen => w - cur < Half /\ cur - w < Half
           /\ ~Unseen => w - base < Half /\ base - w < Half
           /\ \A i \in 1..Len(queue) :
                 /\ w - queue[i] < Half /\ queue[i] - w < Half
                 /\ Unseen => /\ cur - queue[i] < Half
                              /\ queue[i] - cur < Half
<1>1. /\ hp - WSize < w /\ w <= hp + MaxGap + 1
      /\ \A i \in 1..Len(queue) :
            /\ queue[i] <= hp /\ w - queue[i] < Half
            /\ rx # "deliver" => hp - WSize + 1 < queue[i]
  BY Zenon DEF Window
<1>2. w - hp < Half /\ hp - w < Half
  BY <1>1, Sizes
<1>3. ASSUME NEW i \in 1..Len(queue)
      PROVE  w - queue[i] < Half /\ queue[i] - w < Half
  <2>1. queue[i] \in Int /\ queue[i] <= hp
    BY <1>1, Ints, Zenon
  <2> QED BY <1>1, <1>2, <2>1, Sizes
<1>4. CASE Unseen
  <2>1. hp - TxWin < cur /\ cur <= hp + MaxGap + TxWin /\ cur \in Int
    BY <1>4, Ints, Zenon DEF Seen
  <2>2. w - cur < Half /\ cur - w < Half
    BY <1>1, <2>1, Sizes
  <2>3. ASSUME NEW i \in 1..Len(queue)
        PROVE  cur - queue[i] < Half /\ queue[i] - cur < Half
    <3>1. hp - WSize + 1 < queue[i] /\ queue[i] <= hp /\ queue[i] \in Int
      BY <1>1, <1>4, Ints, Zenon DEF Unseen
    <3> QED BY <2>1, <3>1, Sizes
  <2> QED BY <1>2, <1>3, <1>4, <2>2, <2>3, Zenon
<1>5. CASE ~Unseen
  <2>1. hi = hp
    BY <1>5, Zenon DEF Seen
  <2>2. w - base < Half /\ base - w < Half
    BY <1>1, <2>1, Ints, Sizes DEF SenderInv
  <2> QED BY <1>2, <1>3, <1>5, <2>2, Zenon
<1> QED BY <1>4, <1>5, Zenon

\* The next state's part of the invariant, from the window that it has.
LEMMA Tracked ==
    ASSUME enable', ordered', rx' \notin {"before", "after"}, Spaced',
           ~rec_abba_rsp_ack', NEW w \in Int, NEW hp \in Int,
           Window(w, hp)', Seen(hp)'
    PROVE  WindowInv'
BY Zenon DEF WindowInv

\* A step that leaves the stream, the window and the tasklet alone.
LEMMA WindowFrame ==
    ASSUME WindowInv,
           UNCHANGED <<enable, indicate_seq, queue, rx, cur, hi, last,
                       ordered, moved>>,
           rec_abba_rsp_ack' => rec_abba_rsp_ack,
           base' = base \/ (base' = base + 1 /\ base \in Int)
    PROVE  WindowInv'
<1> SUFFICES ASSUME ~moved PROVE WindowInv'
  BY Zenon DEF WindowInv
<1>1. enable' /\ ordered' /\ rx' \notin {"before", "after"} /\ Spaced'
  BY Zenon DEF WindowInv, Spaced
<1>2. CASE Fresh
  BY <1>1, <1>2, Zenon DEF WindowInv, Fresh, Unseen
<1>3. ASSUME ~rec_abba_rsp_ack, NEW w \in Int, NEW hp \in Int,
             Window(w, hp), Seen(hp)
      PROVE  WindowInv'
  <2>1. Window(w, hp)'
    BY <1>3 DEF Window, Unseen
  <2>2. Seen(hp)'
    BY <1>3, Zenon DEF Seen, Unseen
  <2> QED BY <1>1, <1>3, <2>1, <2>2, Tracked, Zenon
<1> QED BY <1>2, <1>3, Zenon DEF WindowInv

\* A frame arrives: its number is near those seen.
LEMMA FrameStep ==
    ASSUME TypeOK, SenderInv, WindowInv, ~moved,
           NEW n \in First..MaxN, RecvFrame(n)
    PROVE  WindowInv'
<1>1. /\ rx = "idle" /\ rx' = "test" /\ cur' = n /\ base <= n
      /\ n <= base + TxWin - 1 /\ hi' = IF n > hi THEN n ELSE hi
      /\ UNCHANGED <<enable, indicate_seq, queue, rec_abba_rsp_ack, base,
                     last, ordered, moved>>
  BY Ints, Sizes DEF RecvFrame, ctrlVars, histVars
<1>2. ~Unseen /\ Unseen' /\ n \in Int
  BY <1>1, Ints DEF Unseen
<1>3. enable' /\ ordered' /\ rx' \notin {"before", "after"} /\ Spaced'
  BY <1>1, Zenon DEF WindowInv, Spaced
<1>4. CASE Fresh
  <2>1. hi = First - 1 /\ First <= n
    BY <1>2, <1>4 DEF Fresh
  <2>2. hi' = cur'
    BY <1>1, <2>1, Ints
  <2>3. Fresh'
    BY <1>1, <1>2, <1>4, <2>2, Zenon DEF Fresh
  <2> QED BY <1>3, <2>3, Zenon DEF WindowInv
<1>5. ASSUME ~rec_abba_rsp_ack, NEW w \in Int, NEW hp \in Int,
             Window(w, hp), Seen(hp)
      PROVE  WindowInv'
  <2>1. hi = hp
    BY <1>2, <1>5, Zenon DEF Seen
  <2>2. /\ hi' = IF cur' > hp THEN cur' ELSE hp
        /\ hp - TxWin < cur' /\ cur' <= hp + MaxGap + TxWin
    BY <1>1, <1>2, <2>1, Ints, Sizes DEF SenderInv
  <2>3. Seen(hp)'
    BY <1>2, <2>2, Zenon DEF Seen
  <2>4. w <= hp + 1 \/ w <= cur'
    BY <1>1, <1>2, <1>5, Ints DEF Window
  <2>5. Window(w, hp)'
    BY <1>1, <1>2, <1>5, <2>4, Zenon DEF Window
  <2> QED BY <1>1, <1>3, <1>5, <2>3, <2>5, Tracked, Zenon
<1> QED BY <1>4, <1>5, Zenon DEF WindowInv

\* The tasklet finds the agreement in force, or is done with the timer.
LEMMA TaskletStep ==
    ASSUME WindowInv, ~moved, RecvTest \/ RecvCancel
    PROVE  WindowInv'
<1>1. /\ UNCHANGED <<enable, indicate_seq, queue, rec_abba_rsp_ack, base,
                     cur, hi, last, ordered, moved>>
      /\ Unseen' <=> Unseen
      /\ rx # "deliver"
      /\ rx' \in {"reorder", "idle"}
      /\ rx' = "reorder" \/ rx = "cancel"
  BY Zenon DEF RecvTest, RecvCancel, ctrlVars, sendVars, histVars, Unseen,
         WindowInv
<1>2. enable' /\ ordered' /\ rx' \notin {"before", "after"} /\ Spaced'
  BY <1>1, Zenon DEF WindowInv, Spaced
<1>3. CASE Fresh
  BY <1>1, <1>2, <1>3, Zenon DEF WindowInv, Fresh
<1>4. ASSUME ~rec_abba_rsp_ack, NEW w \in Int, NEW hp \in Int,
             Window(w, hp), Seen(hp)
      PROVE  WindowInv'
  <2>1. Window(w, hp)'
    BY <1>1, <1>4, Zenon DEF Window
  <2>2. Seen(hp)'
    BY <1>1, <1>4, Zenon DEF Seen
  <2> QED BY <1>1, <1>2, <1>4, <2>1, <2>2, Tracked, Zenon
<1> QED BY <1>3, <1>4, Zenon DEF WindowInv

\* A BAR that does not lie behind the window moves it on.
LEMMA BarStep ==
    ASSUME TypeOK, SenderInv, WindowInv, ~moved', RecvBar
    PROVE  WindowInv'
<1>1. /\ rx = "idle" /\ indicate_seq' = SN(base) /\ ~moved
      /\ indicate_seq # NoSeq /\ ~SN_LESS(SN(base), indicate_seq)
      /\ UNCHANGED <<enable, queue, rec_abba_rsp_ack, base, rx, cur, hi, last,
                     ordered>>
  BY Zenon DEF RecvBar, rxVars, sendVars
<1>2. ~Unseen /\ ~Unseen' /\ ~Fresh
  BY <1>1, Zenon DEF Unseen, Fresh
<1>3. enable' /\ ordered' /\ rx' \notin {"before", "after"} /\ Spaced'
  BY <1>1, Zenon DEF WindowInv, Spaced
<1>4. ASSUME ~rec_abba_rsp_ack, NEW w \in Int, NEW hp \in Int,
             Window(w, hp), Seen(hp)
      PROVE  WindowInv'
  <2>1. hi = hp /\ indicate_seq = SN(w) /\ base \in Int
    BY <1>2, <1>4, Ints, Zenon DEF Seen, Window
  <2>2. w - base < Half /\ base - w < Half
    BY <1>2, <1>4, Near, Zenon
  <2>3. w <= base
    <3>1. SN_LESS(SN(base), SN(w)) <=> base < w
      BY <2>1, <2>2, SnLess, Zenon
    <3> QED BY <1>1, <2>1, <3>1
  <2>4. last < base /\ hp - WSize < base /\ base <= hp + MaxGap + 1
    BY <1>4, <2>1, <2>3, Ints, Sizes DEF Window, SenderInv
  <2>5. ASSUME NEW i \in 1..Len(queue)
        PROVE  /\ last < queue[i] /\ queue[i] <= hp
               /\ base - queue[i] < Half /\ hp - WSize + 1 < queue[i]
    <3>1. /\ last < queue[i] /\ queue[i] <= hp /\ hp - WSize + 1 < queue[i]
          /\ queue[i] \in Int
      BY <1>1, <1>4, Ints, Zenon DEF Window
    <3> QED BY <2>1, <2>4, <3>1, Sizes
  <2>6. PICK b \in Int : b = base
    BY <2>1, Zenon
  <2>7. Window(b, hp)'
    BY <1>1, <1>2, <2>4, <2>5, <2>6 DEF Window
  <2>8. Seen(hp)'
    BY <1>1, <1>2, <2>1, Zenon DEF Seen
  <2> QED BY <1>1, <1>3, <1>4, <2>7, <2>8, Tracked, Zenon
<1> QED BY <1>1, <1>2, <1>4, Zenon DEF WindowInv

\* The head of a queue that is Spaced is its least frame.
LEMMA HeadLeast ==
    ASSUME TypeOK, Spaced, queue # <<>>
    PROVE  /\ 1 \in 1..Len(queue) /\ Head(queue) = queue[1]
           /\ queue[1] \in Int
           /\ \A i \in 1..Len(queue) : queue[1] + i - 1 <= queue[i]
<1>1. Len(queue) \in Nat \ {0} /\ Head(queue) = queue[1]
  BY TailFacts, Zenon DEF TypeOK
<1>2. 1 \in 1..Len(queue) /\ queue[1] \in Int
  BY <1>1, Ints
<1>3. ASSUME NEW i \in 1..Len(queue) PROVE queue[1] + i - 1 <= queue[i]
  <2>1. queue[i] \in Int
    BY Ints, Zenon
  <2>2. CASE i = 1
    BY <1>2, <2>2
  <2>3. CASE 1 < i
    <3>1. queue[i] - queue[1] >= i - 1
      BY <1>2, <2>3, Zenon DEF Spaced
    <3> QED BY <1>2, <2>1, <3>1
  <2> QED BY <2>2, <2>3
<1> QED BY <1>1, <1>2, <1>3, Zenon

\* The timer sets the window to the head of the queue: what went up is
\* behind it, and nothing that waits is.
LEMMA ForceStep ==
    ASSUME TypeOK, LockInv, WindowInv, ~moved, TimerForce
    PROVE  WindowInv'
<1>1. CASE queue = <<>>
  BY <1>1, WindowFrame, Zenon DEF TimerForce, rxVars, sendVars, histVars
<1>2. CASE queue # <<>>
  <2>1. /\ indicate_seq' = SN(Head(queue)) /\ rx # "deliver"
        /\ UNCHANGED <<enable, queue, rec_abba_rsp_ack, base, rx, cur, hi,
                       last, ordered, moved>>
    BY <1>2, Zenon DEF TimerForce, rxVars, sendVars, histVars, LockInv
  <2>2. enable' /\ ordered' /\ rx' \notin {"before", "after"} /\ Spaced'
    BY <2>1, Zenon DEF WindowInv, Spaced
  <2>3. ~Fresh /\ (Unseen' <=> Unseen)
    BY <1>2, <2>1, Zenon DEF Fresh, Unseen
  <2>4. ASSUME ~rec_abba_rsp_ack, NEW w \in Int, NEW hp \in Int,
               Window(w, hp), Seen(hp)
        PROVE  WindowInv'
    <3>1. /\ 1 \in 1..Len(queue) /\ Head(queue) = queue[1]
          /\ queue[1] \in Int
          /\ \A i \in 1..Len(queue) : queue[1] + i - 1 <= queue[i]
      BY <1>2, HeadLeast, Zenon DEF WindowInv
    <3>2. PICK h \in Int : h = queue[1]
      BY <3>1, Zenon
    <3>3. /\ last < h /\ h <= hp /\ hp - WSize + 1 < h
      BY <2>1, <2>4, <3>1, <3>2, Zenon DEF Window
    <3>4. ASSUME NEW i \in 1..Len(queue)
          PROVE  /\ last < queue[i] /\ queue[i] <= hp
                 /\ h - queue[i] < Half /\ hp - WSize + 1 < queue[i]
      <4>1. /\ last < queue[i] /\ queue[i] <= hp /\ hp - WSize + 1 < queue[i]
            /\ queue[i] \in Int /\ queue[1] + i - 1 <= queue[i]
        BY <2>1, <2>4, <3>1, Ints, Zenon DEF Window
      <4>2. h <= queue[i]
        BY <3>2, <4>1
      <4> QED BY <4>1, <4>2, Sizes
    <3>5. hp - WSize < h /\ h <= hp + MaxGap + 1 /\ h <= hp + 1
      BY <3>3, Sizes
    <3>6. Window(h, hp)'
      BY <2>1, <3>1, <3>2, <3>3, <3>4, <3>5, Zenon DEF Window
    <3>7. Seen(hp)'
      BY <2>1, <2>3, <2>4, Zenon DEF Seen
    <3> QED BY <2>1, <2>2, <2>4, <3>6, <3>7, Tracked, Zenon
  <2> QED BY <2>3, <2>4, Zenon DEF WindowInv
<1> QED BY <1>1, <1>2, Zenon

\* A frame goes up only when all before it have or are given up, and the
\* window then starts behind it.
LEMMA DeliverStep ==
    ASSUME TypeOK, SenderInv, WindowInv, ~moved,
           NEW x \in {"rx", "tm"}, Deliver(x)
    PROVE  WindowInv'
<1>1. /\ queue # <<>> /\ ~SN_LESS(indicate_seq, SN(Head(queue)))
      /\ queue' = Tail(queue)
      /\ indicate_seq' = IF indicate_seq = SN(Head(queue))
                            THEN (indicate_seq + 1) % Mod ELSE indicate_seq
      /\ last' = Head(queue) /\ ordered' = (ordered /\ Head(queue) > last)
      /\ UNCHANGED <<enable, rec_abba_rsp_ack, base, rx, cur, hi, moved>>
  BY Zenon DEF Deliver, Due, Indicate, rxVars, sendVars
<1>2. /\ 1 \in 1..Len(queue) /\ Head(queue) = queue[1]
      /\ queue[1] \in Int
      /\ \A i \in 1..Len(queue) : queue[1] + i - 1 <= queue[i]
  BY <1>1, HeadLeast, Zenon DEF WindowInv
<1>3. /\ Len(queue') = Len(queue) - 1
      /\ \A i \in 1..(Len(queue) - 1) : queue'[i] = queue[i + 1]
      /\ Len(queue) \in Nat
  BY <1>1, TailFacts, Zenon DEF TypeOK
<1>4. enable' /\ rx' \notin {"before", "after"}
  BY <1>1, Zenon DEF WindowInv
<1>5. Spaced'
  <2> SUFFICES ASSUME NEW i \in 1..Len(queue'), NEW j \in 1..Len(queue'),
                      i < j
               PROVE  queue'[j] - queue'[i] >= j - i
    BY Zenon DEF Spaced
  <2>1. /\ i + 1 \in 1..Len(queue) /\ j + 1 \in 1..Len(queue)
        /\ i + 1 < j + 1 /\ (j + 1) - (i + 1) = j - i
        /\ queue'[i] = queue[i + 1] /\ queue'[j] = queue[j + 1]
    BY <1>3
  <2>2. queue[j + 1] - queue[i + 1] >= (j + 1) - (i + 1)
    BY <2>1, Zenon DEF WindowInv, Spaced
  <2> QED BY <2>1, <2>2, Zenon
<1>6. ~Fresh /\ (Unseen' <=> Unseen)
  BY <1>1, Zenon DEF Fresh, Unseen
<1>7. ASSUME ~rec_abba_rsp_ack, NEW w \in Int, NEW hp \in Int,
             Window(w, hp), Seen(hp)
      PROVE  WindowInv'
  <2>1. PICK h \in Int : h = queue[1]
    BY <1>2, Zenon
  <2>2. /\ indicate_seq = SN(w) /\ last < h /\ h <= hp
        /\ w - h < Half /\ h - w < Half
    BY <1>2, <1>7, <2>1, Near, Zenon DEF Window
  <2>3. h <= w
    <3>1. SN_LESS(SN(w), SN(h)) <=> w < h
      BY <2>2, SnLess, Zenon
    <3> QED BY <1>1, <1>2, <2>1, <2>2, <3>1
  <2>4. PICK v \in Int : v = IF w = h THEN w + 1 ELSE w
    OBVIOUS
  <2>5. indicate_seq' = SN(v)
    <3>1. SN(w) = SN(h) <=> w = h
      BY <2>2, SnEqual, Zenon
    <3>2. (SN(w) + 1) % Mod = SN(w + 1)
      BY SnAdd
    <3> QED BY <1>1, <1>2, <2>1, <2>2, <2>4, <3>1, <3>2, Zenon
  <2>6. ordered'
    <3>1. ordered
      BY Zenon DEF WindowInv
    <3> QED BY <1>1, <1>2, <2>1, <2>2, <3>1, Ints, Zenon
  <2>7. /\ h < v /\ hp - WSize < v /\ v <= hp + MaxGap + 1
        /\ v <= hp + 1 \/ v <= IF Unseen THEN cur ELSE base
    <3>1. /\ hp - WSize < w /\ w <= hp + MaxGap + 1
          /\ w <= hp + 1 \/ w <= IF Unseen THEN cur ELSE base
      BY <1>7, Zenon DEF Window
    <3>2. CASE w = h
      BY <2>2, <2>4, <3>1, <3>2, Sizes
    <3>3. CASE w # h
      BY <2>3, <2>4, <3>1, <3>3
    <3> QED BY <3>2, <3>3, Zenon
  <2>8. ASSUME NEW i \in 1..Len(queue')
        PROVE  /\ h < queue'[i] /\ queue'[i] <= hp
               /\ v - queue'[i] < Half
               /\ rx # "deliver" => hp - WSize + 1 < queue'[i]
    <3>1. i + 1 \in 1..Len(queue) /\ queue'[i] = queue[i + 1] /\ i \in Nat
      BY <1>3
    <3>2. /\ queue[i + 1] \in Int /\ h + i <= queue[i + 1]
      <4>1. queue[i + 1] \in Int /\ h + (i + 1) - 1 <= queue[i + 1]
        BY <1>2, <2>1, <3>1, Ints, Zenon
      <4>2. h + (i + 1) - 1 = h + i
        BY <3>1
      <4> QED BY <4>1, <4>2, Zenon
    <3>3. /\ queue[i + 1] <= hp /\ w - queue[i + 1] < Half
          /\ rx # "deliver" => hp - WSize + 1 < queue[i + 1]
      BY <1>7, <3>1, Zenon DEF Window
    <3>4. h < queue[i + 1] /\ v - queue[i + 1] < Half
      <4>1. i >= 1
        OBVIOUS
      <4> QED BY <2>4, <3>1, <3>2, <3>3, <4>1, Sizes, SMTT(20)
    <3> QED BY <3>1, <3>3, <3>4, Zenon
  <2>9. Window(v, hp)'
    BY <1>1, <1>2, <1>6, <2>1, <2>5, <2>7, <2>8, Zenon DEF Window
  <2>10. Seen(hp)'
    BY <1>1, <1>6, <1>7, Zenon DEF Seen
  <2> QED BY <1>1, <1>4, <1>5, <1>7, <2>6, <2>9, <2>10, Tracked, Zenon
<1> QED BY <1>6, <1>7, Zenon DEF WindowInv

\* When the tasklet leaves its loop the head of the queue lies in the window,
\* and so does the rest.
LEMMA EndStep ==
    ASSUME TypeOK, SenderInv, WindowInv, ~moved, RecvEnd
    PROVE  WindowInv'
<1>1. /\ rx = "deliver" /\ ~Due /\ rx' \in {"idle", "cancel"}
      /\ UNCHANGED <<enable, indicate_seq, queue, rec_abba_rsp_ack, base,
                     cur, hi, last, ordered, moved>>
  BY Zenon DEF RecvEnd, sendVars, histVars
<1>2. ~Fresh /\ ~Unseen /\ ~Unseen'
  BY <1>1, Zenon DEF Fresh, Unseen
<1>3. enable' /\ ordered' /\ rx' \notin {"before", "after"} /\ Spaced'
  BY <1>1, Zenon DEF WindowInv, Spaced
<1>4. ASSUME ~rec_abba_rsp_ack, NEW w \in Int, NEW hp \in Int,
             Window(w, hp), Seen(hp)
      PROVE  WindowInv'
  <2>1. ASSUME NEW i \in 1..Len(queue)
        PROVE  hp - WSize + 1 < queue[i]
    <3>1. queue # <<>>
      BY Ints
    <3>2. /\ 1 \in 1..Len(queue) /\ Head(queue) = queue[1]
          /\ queue[1] \in Int /\ queue[i] \in Int
          /\ queue[1] + i - 1 <= queue[i]
      BY <3>1, HeadLeast, Ints, Zenon DEF WindowInv
    <3>3. SN_LESS(SN(w), SN(queue[1]))
      BY <1>1, <1>4, <3>1, <3>2, Zenon DEF Due, Window
    <3>4. w - queue[1] < Half /\ queue[1] - w < Half
      BY <1>4, <3>2, Near, Zenon
    <3>5. w < queue[1]
      BY <3>2, <3>3, <3>4, SnLess, Zenon
    <3>6. hp - WSize < w
      BY <1>4, Zenon DEF Window
    <3> QED BY <3>2, <3>5, <3>6, Sizes
  <2>2. Window(w, hp)'
    BY <1>1, <1>2, <1>4, <2>1, Zenon DEF Window
  <2>3. Seen(hp)'
    BY <1>1, <1>2, <1>4, Zenon DEF Seen
  <2> QED BY <1>1, <1>3, <1>4, <2>2, <2>3, Tracked, Zenon
<1> QED BY <1>2, <1>4, Zenon DEF WindowInv

\* check_indicate_seq, told in the sender's numbers: a frame before the
\* window is dropped, the first one moves the window by one, one behind its
\* end moves the end there.
LEMMA ShiftedWindow ==
    ASSUME TypeOK, SenderInv, NEW w \in Int, NEW hp \in Int,
           Window(w, hp), Seen(hp), Unseen, ~rec_abba_rsp_ack
    PROVE  /\ TooOld(SN(cur)) <=> cur < w
           /\ Shifted(SN(cur)) =
                 SN(IF cur < w THEN w
                    ELSE IF cur = w THEN w + 1
                    ELSE IF w + WSize - 1 < cur THEN cur + 1 - WSize
                    ELSE w)
<1>1. w - cur < Half /\ cur - w < Half /\ cur \in Int
  BY Near, Ints, Zenon
<1>2. Start(SN(cur)) = SN(w)
  BY SnRange, Zenon DEF Start, Window
<1>3. TooOld(SN(cur)) <=> cur < w
  BY <1>1, <1>2, SnLess, Zenon DEF TooOld
<1>4. SN(cur) = SN(w) <=> cur = w
  BY <1>1, SnEqual, Zenon
<1>5. (SN(w) + 1) % Mod = SN(w + 1)
  BY SnAdd
<1>6. (SN(w) + WSize - 1) % Mod = SN(w + WSize - 1)
  <2>1. /\ SN(w) + WSize - 1 = SN(w) + (WSize - 1)
        /\ w + WSize - 1 = w + (WSize - 1) /\ WSize - 1 \in Int
    BY Sizes, SnRange
  <2> QED BY <2>1, SnAdd, Zenon
<1>7. (SN(cur) + 1 - WSize) % Mod = SN(cur + 1 - WSize)
  <2>1. /\ SN(cur) + 1 - WSize = SN(cur) + (1 - WSize)
        /\ cur + 1 - WSize = cur + (1 - WSize) /\ 1 - WSize \in Int
    BY <1>1, Sizes, SnRange
  <2> QED BY <1>1, <2>1, SnAdd, Zenon
<1>8. ASSUME ~(cur < w)
      PROVE  SN_LESS(SN(w + WSize - 1), SN(cur)) <=> w + WSize - 1 < cur
  <2>1. /\ w + WSize - 1 \in Int /\ (w + WSize - 1) - cur < Half
        /\ cur - (w + WSize - 1) < Half
    BY <1>1, <1>8, Sizes
  <2> QED BY <1>1, <2>1, SnLess, Zenon
<1>9. Shifted(SN(cur)) =
         IF TooOld(SN(cur)) THEN SN(w)
         ELSE IF SN(cur) = SN(w) THEN (SN(w) + 1) % Mod
         ELSE IF SN_LESS((SN(w) + WSize - 1) % Mod, SN(cur))
                 THEN (SN(cur) + 1 - WSize) % Mod
         ELSE SN(w)
  BY <1>2, Zenon DEF Shifted
<1>10. CASE cur < w
  BY <1>3, <1>9, <1>10, Zenon
<1>11. CASE ~(cur < w)
  <2>1. Shifted(SN(cur)) =
           IF cur = w THEN SN(w + 1)
           ELSE IF w + WSize - 1 < cur THEN SN(cur + 1 - WSize)
           ELSE SN(w)
    BY <1>3, <1>4, <1>5, <1>6, <1>7, <1>8, <1>9, <1>11, Zenon
  <2> QED BY <1>3, <1>11, <2>1, Zenon
<1> QED BY <1>10, <1>11, Zenon

\* The frame is put between the frames before it and those after it.
LEMMA PlacedBetween ==
    ASSUME TypeOK, SenderInv, Spaced, NEW w \in Int, NEW hp \in Int,
           Window(w, hp), Seen(hp), Unseen, ~Duplicate(SN(cur))
    PROVE  \A i \in 1..Len(queue) :
              /\ i < Place(SN(cur)) => cur - queue[i] >= Place(SN(cur)) - i
              /\ i >= Place(SN(cur)) =>
                    queue[i] - cur >= i + 1 - Place(SN(cur))
<1> DEFINE p == Place(SN(cur))
<1>1. /\ p \in 1..(Len(queue) + 1)
      /\ \A j \in 1..(p - 1) : SN_LESS(SN(queue[j]), SN(cur))
      /\ p <= Len(queue) => ~SN_LESS(SN(queue[p]), SN(cur))
  BY Ints, SnRange, PlaceFound, Zenon DEF TypeOK
<1>2. p <= Len(queue) => SN(queue[p]) # SN(cur)
  BY Zenon DEF Duplicate
<1> HIDE DEF p
<1>3. ASSUME NEW i \in 1..Len(queue)
      PROVE  /\ queue[i] \in Int /\ cur \in Int
             /\ SN_LESS(SN(queue[i]), SN(cur)) <=> queue[i] < cur
             /\ SN(queue[i]) = SN(cur) <=> queue[i] = cur
  <2>1. /\ queue[i] \in Int /\ cur \in Int
        /\ cur - queue[i] < Half /\ queue[i] - cur < Half
    BY Near, Ints, Zenon
  <2> QED BY <2>1, SnLess, SnEqual, Zenon
<1>4. ASSUME NEW i \in 1..Len(queue), i < p
      PROVE  cur - queue[i] >= p - i
  <2>1. /\ p - 1 \in 1..Len(queue) /\ p - 1 \in 1..(p - 1) /\ i <= p - 1
    BY <1>1, <1>4, Ints
  <2>2. queue[p - 1] < cur
    BY <1>1, <1>3, <2>1, Zenon
  <2>3. i < p - 1 => queue[p - 1] - queue[i] >= (p - 1) - i
    BY <2>1, Zenon DEF Spaced
  <2>4. queue[i] \in Int /\ queue[p - 1] \in Int /\ cur \in Int
    BY <1>3, <2>1, Zenon
  <2> QED BY <1>1, <2>1, <2>2, <2>3, <2>4, SMTT(20)
<1>5. ASSUME NEW i \in 1..Len(queue), i >= p
      PROVE  queue[i] - cur >= i + 1 - p
  <2>1. p \in 1..Len(queue) /\ p <= Len(queue)
    BY <1>1, <1>5, Ints
  <2>2. queue[p] > cur
    <3>1. ~SN_LESS(SN(queue[p]), SN(cur)) /\ SN(queue[p]) # SN(cur)
      BY <1>1, <1>2, <2>1, Zenon
    <3> QED BY <1>3, <2>1, <3>1
  <2>3. p < i => queue[i] - queue[p] >= i - p
    BY <2>1, Zenon DEF Spaced
  <2>4. queue[i] \in Int /\ queue[p] \in Int /\ cur \in Int
    BY <1>3, <2>1, Zenon
  <2> QED BY <1>1, <1>5, <2>1, <2>2, <2>3, <2>4, SMTT(20)
<1> QED BY <1>4, <1>5, Zenon DEF p

\* So the queue stays sorted.
LEMMA EnqueueSpaced ==
    ASSUME TypeOK, Spaced, queue' = Enqueue(cur),
           \A i \in 1..Len(queue) :
              /\ i < Place(SN(cur)) => cur - queue[i] >= Place(SN(cur)) - i
              /\ i >= Place(SN(cur)) =>
                    queue[i] - cur >= i + 1 - Place(SN(cur))
    PROVE  Spaced'
<1> DEFINE p == Place(SN(cur))
           n == Len(queue)
<1>1. /\ p \in 1..(n + 1) /\ n \in Nat /\ Len(queue') = n + 1
      /\ \A j \in 1..(n + 1) :
            queue'[j] = IF j < p THEN queue[j]
                        ELSE IF j = p THEN cur ELSE queue[j - 1]
  BY Enqueued, Ints, Zenon
<1>2. \A i \in 1..n : /\ queue[i] \in Int
                      /\ i < p => cur - queue[i] >= p - i
                      /\ i >= p => queue[i] - cur >= i + 1 - p
  BY Ints, Zenon
<1>3. cur \in Int /\ \A i, j \in 1..n : i < j => queue[j] - queue[i] >= j - i
  BY Ints, Zenon DEF Spaced
<1> HIDE DEF p, n
<1> SUFFICES ASSUME NEW i \in 1..(n + 1), NEW j \in 1..(n + 1), i < j
             PROVE  queue'[j] - queue'[i] >= j - i
  BY <1>1, Zenon DEF Spaced
<1>4. CASE j < p
  <2>1. i \in 1..n /\ j \in 1..n
    BY <1>1, <1>4
  <2>2. queue'[i] = queue[i] /\ queue'[j] = queue[j]
    BY <1>1, <1>4
  <2> QED BY <1>3, <2>1, <2>2, Zenon
<1>5. CASE j = p
  <2>1. i \in 1..n /\ i < p
    BY <1>1, <1>5
  <2>2. queue'[i] = queue[i] /\ queue'[j] = cur
    BY <1>1, <1>5
  <2> QED BY <1>2, <1>5, <2>1, <2>2, Zenon
<1>6. CASE i < p /\ p < j
  <2>1. i \in 1..n /\ j - 1 \in 1..n /\ j - 1 >= p
    BY <1>1, <1>6
  <2>2. queue'[i] = queue[i] /\ queue'[j] = queue[j - 1]
    BY <1>1, <1>6
  <2>3. /\ cur - queue[i] >= p - i /\ queue[j - 1] - cur >= (j - 1) + 1 - p
        /\ queue[i] \in Int /\ queue[j - 1] \in Int
    BY <1>2, <1>6, <2>1, Zenon
  <2> QED BY <1>1, <1>3, <2>2, <2>3
<1>7. CASE i = p
  <2>1. j - 1 \in 1..n /\ j - 1 >= p
    BY <1>1, <1>7
  <2>2. queue'[i] = cur /\ queue'[j] = queue[j - 1]
    BY <1>1, <1>7
  <2>3. queue[j - 1] - cur >= (j - 1) + 1 - p /\ queue[j - 1] \in Int
    BY <1>2, <2>1, Zenon
  <2> QED BY <1>1, <1>3, <1>7, <2>2, <2>3
<1>8. CASE p < i
  <2>1. i - 1 \in 1..n /\ j - 1 \in 1..n /\ i - 1 < j - 1
    BY <1>1, <1>8
  <2>2. queue'[i] = queue[i - 1] /\ queue'[j] = queue[j - 1]
    BY <1>1, <1>8
  <2>3. queue[j - 1] - queue[i - 1] >= (j - 1) - (i - 1)
    BY <1>3, <2>1, Zenon
  <2> QED BY <2>2, <2>3
<1> QED BY <1>1, <1>4, <1>5, <1>6, <1>7, <1>8

\* The first frame of an agreement fixes the window.
LEMMA FirstFrameStep ==
    ASSUME TypeOK, WindowInv, ~moved, Fresh, RecvReorder
    PROVE  WindowInv'
<1>1. /\ rx = "reorder" /\ indicate_seq' = Shifted(SN(cur))
      /\ rec_abba_rsp_ack' = FALSE
      /\ UNCHANGED <<enable, base, cur, hi, last, ordered, moved>>
  BY Zenon DEF RecvReorder, sendVars, histVars
<1>2. /\ Start(SN(cur)) = SN(cur) /\ cur \in Int /\ cur >= First
      /\ First \in Int
  BY Ints DEF Fresh, Start, TypeOK
<1>3. ~SN_LESS(SN(cur), SN(cur))
  <2>1. cur - cur < Half
    BY <1>2, Sizes
  <2> QED BY <1>2, <2>1, SnLess
<1>4. ~TooOld(SN(cur))
  BY <1>2, <1>3, Zenon DEF TooOld
<1>5. Shifted(SN(cur)) = SN(cur + 1)
  <2>1. (SN(cur) + 1) % Mod = SN(cur + 1)
    BY <1>2, SnAdd
  <2> QED BY <1>2, <1>4, <2>1, Zenon DEF Shifted
<1>6. Len(queue) = 0 /\ queue = <<>> /\ last = First - 1 /\ hi = cur
  BY <1>1, Zenon DEF Fresh, Unseen
<1>7. Place(SN(cur)) = 1 /\ Len(Enqueue(cur)) = 1 /\ Enqueue(cur)[1] = cur
  BY <1>6, Enqueued
<1>8. ~Duplicate(SN(cur))
  BY <1>6, <1>7 DEF Duplicate
<1>9. queue' = Enqueue(cur) /\ rx' = "deliver"
  BY <1>4, <1>8, Zenon DEF RecvReorder
<1>10. Len(queue') = 1 /\ queue'[1] = cur /\ ~Unseen'
  BY <1>7, <1>9, Zenon DEF Unseen
<1>11. Spaced' /\ enable' /\ ordered'
  BY <1>1, <1>10 DEF Spaced, WindowInv
<1>12. PICK n \in Int, v \in Int : n = cur /\ v = cur + 1
  BY <1>2
<1>13. Seen(n)'
  BY <1>1, <1>6, <1>10, <1>12, Zenon DEF Seen
<1>14. /\ last' < v /\ n - WSize < v /\ v <= n + MaxGap + 1 /\ v <= n + 1
       /\ last' < n /\ v - n < Half
  BY <1>1, <1>2, <1>6, <1>12, Sizes
<1>15. Window(v, n)'
  BY <1>1, <1>5, <1>9, <1>10, <1>12, <1>14 DEF Window
<1> QED BY <1>1, <1>9, <1>11, <1>13, <1>15, Tracked, Zenon

\* A later frame is dropped, or kept and waits in the queue.
LEMMA NextFrameStep ==
    ASSUME TypeOK, SenderInv, WindowInv, ~moved, RecvReorder,
           ~rec_abba_rsp_ack, NEW w \in Int, NEW hp \in Int,
           Window(w, hp), Seen(hp)
    PROVE  WindowInv'
<1>1. /\ rx = "reorder" /\ indicate_seq' = Shifted(SN(cur))
      /\ rec_abba_rsp_ack' = FALSE /\ rx' \in {"idle", "deliver"}
      /\ UNCHANGED <<enable, base, cur, hi, last, ordered, moved>>
  BY Zenon DEF RecvReorder, sendVars, histVars
<1>2. Unseen /\ ~Unseen' /\ enable' /\ ordered' /\ rx # "deliver"
  BY <1>1, Zenon DEF Unseen, WindowInv
<1>3. /\ hi = IF cur > hp THEN cur ELSE hp
      /\ hp - TxWin < cur /\ cur <= hp + MaxGap + TxWin
      /\ cur \in Int /\ hi \in Int /\ last \in Int
  BY <1>2, Ints, Zenon DEF Seen
<1>4. /\ last < w /\ hp - WSize < w /\ w <= hp + MaxGap + 1
      /\ w <= hp + 1 \/ w <= cur
      /\ \A i \in 1..Len(queue) :
            /\ queue[i] \in Int /\ last < queue[i] /\ queue[i] <= hp
            /\ w - queue[i] < Half /\ hp - WSize + 1 < queue[i]
  BY <1>2, Ints, Zenon DEF Window
<1>5. PICK h \in Int : h = hi
  BY <1>3, Zenon
<1>6. PICK v \in Int : v = IF cur < w THEN w
                           ELSE IF cur = w THEN w + 1
                           ELSE IF w + WSize - 1 < cur THEN cur + 1 - WSize
                           ELSE w
  <2> DEFINE s == IF cur < w THEN w
                  ELSE IF cur = w THEN w + 1
                  ELSE IF w + WSize - 1 < cur THEN cur + 1 - WSize
                  ELSE w
  <2>1. s \in Int
    BY <1>3, Sizes
  <2> HIDE DEF s
  <2>2. \E v \in Int : v = s
    BY <2>1, Zenon
  <2> QED BY <2>2, Zenon DEF s
<1>7. (TooOld(SN(cur)) <=> cur < w) /\ indicate_seq' = SN(v)
  BY <1>1, <1>2, <1>6, ShiftedWindow, Zenon
<1>8. Seen(h)'
  BY <1>1, <1>2, <1>5, Zenon DEF Seen
<1>9. last < v /\ h - WSize < v /\ v <= h + MaxGap + 1 /\ v <= h + 1
  <2>1. CASE cur < w
    BY <1>3, <1>4, <1>5, <1>6, <2>1, Sizes
  <2>2. CASE cur = w
    BY <1>3, <1>4, <1>5, <1>6, <2>2, Sizes
  <2>3. CASE w < cur /\ w + WSize - 1 < cur
    BY <1>3, <1>4, <1>5, <1>6, <2>3, Sizes
  <2>4. CASE w < cur /\ ~(w + WSize - 1 < cur)
    BY <1>3, <1>4, <1>5, <1>6, <2>4, Sizes
  <2> QED BY <1>3, <2>1, <2>2, <2>3, <2>4
<1>10. ASSUME NEW q \in Int, last < q, q <= hp, hp - WSize + 1 < q
       PROVE  last < q /\ q <= h /\ v - q < Half
  BY <1>3, <1>5, <1>9, <1>10, Sizes
<1>11. CASE TooOld(SN(cur)) \/ Duplicate(SN(cur))
  <2>1. UNCHANGED queue /\ rx' = "idle"
    BY <1>11, Zenon DEF RecvReorder
  <2>2. cur <= hp
    <3>1. CASE TooOld(SN(cur))
      BY <1>3, <1>4, <1>7, <3>1
    <3>2. CASE Duplicate(SN(cur))
      <4>1. PICK i \in 1..Len(queue) : SN(queue[i]) = SN(cur)
        <5>1. Place(SN(cur)) \in 1..Len(queue)
          BY <3>2, Enqueued, Ints DEF Duplicate
        <5> QED BY <3>2, <5>1, Zenon DEF Duplicate
      <4>2. /\ queue[i] \in Int /\ queue[i] <= hp
            /\ cur - queue[i] < Half /\ queue[i] - cur < Half
        BY <1>2, <1>4, Near, Zenon
      <4>3. queue[i] = cur
        BY <1>3, <4>1, <4>2, SnEqual, Zenon
      <4> QED BY <4>2, <4>3, Zenon
    <3> QED BY <1>11, <3>1, <3>2, Zenon
  <2>3. h = hp
    BY <1>3, <1>5, <2>2
  <2>4. Spaced'
    BY <2>1, Zenon DEF Spaced, WindowInv
  <2>5. Window(v, h)'
    BY <1>1, <1>2, <1>4, <1>7, <1>9, <1>10, <2>1, <2>3, Zenon DEF Window
  <2> QED BY <1>1, <1>2, <1>8, <2>1, <2>4, <2>5, Tracked, Zenon
<1>12. CASE ~(TooOld(SN(cur)) \/ Duplicate(SN(cur)))
  <2>1. queue' = Enqueue(cur) /\ rx' = "deliver"
    BY <1>12, Zenon DEF RecvReorder
  <2>2. Spaced'
    <3>1. Spaced
      BY Zenon DEF WindowInv
    <3> QED BY <1>2, <1>12, <2>1, <3>1, PlacedBetween, EnqueueSpaced, Zenon
  <2>3. last < cur /\ cur <= h /\ v - cur < Half
    <3>1. w <= cur
      BY <1>3, <1>7, <1>12
    <3> QED BY <1>3, <1>4, <1>5, <1>6, <3>1, Sizes
  <2>4. ASSUME NEW j \in 1..Len(queue')
        PROVE  last < queue'[j] /\ queue'[j] <= h /\ v - queue'[j] < Half
    <3>1. queue'[j] = cur \/ \E i \in 1..Len(queue) : queue'[j] = queue[i]
      <4> DEFINE p == Place(SN(cur))
                 n == Len(queue)
      <4>1. /\ p \in 1..(n + 1) /\ n \in Nat /\ Len(queue') = n + 1
            /\ \A k \in 1..(n + 1) :
                  queue'[k] = IF k < p THEN queue[k]
                              ELSE IF k = p THEN cur ELSE queue[k - 1]
        BY <2>1, Enqueued, Ints, Zenon
      <4> HIDE DEF p, n
      <4>2. j \in 1..(n + 1)
        BY <4>1, Zenon
      <4>3. CASE j < p
        <5>1. j \in 1..n /\ queue'[j] = queue[j]
          BY <4>1, <4>2, <4>3
        <5> QED BY <5>1, Zenon DEF n
      <4>4. CASE j = p
        BY <4>1, <4>2, <4>4
      <4>5. CASE j > p
        <5>1. j - 1 \in 1..n /\ queue'[j] = queue[j - 1]
          BY <4>1, <4>2, <4>5
        <5> QED BY <5>1, Zenon DEF n
      <4> QED BY <4>1, <4>2, <4>3, <4>4, <4>5
    <3>2. CASE queue'[j] = cur
      BY <2>3, <3>2, Zenon
    <3>3. ASSUME NEW i \in 1..Len(queue), queue'[j] = queue[i]
          PROVE  last < queue'[j] /\ queue'[j] <= h /\ v - queue'[j] < Half
      BY <1>4, <1>10, <3>3, Zenon
    <3> QED BY <3>1, <3>2, <3>3, Zenon
  <2>5. Window(v, h)'
    BY <1>1, <1>2, <1>7, <1>9, <2>1, <2>4, Zenon DEF Window
  <2> QED BY <1>1, <1>2, <1>8, <2>1, <2>2, <2>5, Tracked, Zenon
<1> QED BY <1>11, <1>12, Zenon

\* Every step keeps the window.
LEMMA WindowStep ==
    ASSUME TypeOK, LockInv, SenderInv, WindowInv, [Next]_vars
    PROVE  WindowInv'
<1> SUFFICES ASSUME ~moved' PROVE WindowInv'
  BY Zenon DEF WindowInv
<1>1. CASE RecvBar
  BY <1>1, BarStep, Zenon
<1>2. CASE RecvBefore \/ DelBa \/ JoinReset
           \/ \E accept \in BOOLEAN : AddBaRsp(accept)
  BY <1>2, Zenon DEF RecvBefore, DelBa, JoinReset, AddBaRsp
<1>3. CASE \E n \in First..MaxN : RecvFrame(n)
  <2>1. ~moved
    BY <1>3 DEF RecvFrame, histVars
  <2> QED BY <1>3, <2>1, FrameStep, Zenon
<1>4. CASE RecvTest \/ RecvCancel
  <2>1. ~moved
    BY <1>4, Zenon DEF RecvTest, RecvCancel, histVars
  <2> QED BY <1>4, <2>1, TaskletStep, Zenon
<1>5. CASE RecvAfter
  BY <1>5, Zenon DEF RecvAfter, histVars, WindowInv
<1>6. CASE RecvReorder
  <2>1. ~moved
    BY <1>6, Zenon DEF RecvReorder, histVars
  <2>2. CASE Fresh
    BY <1>6, <2>1, <2>2, FirstFrameStep, Zenon
  <2>3. CASE ~Fresh
    BY <1>6, <2>1, <2>3, NextFrameStep, Zenon DEF WindowInv
  <2> QED BY <2>2, <2>3, Zenon
<1>7. CASE RecvEnd
  <2>1. ~moved
    BY <1>7, Zenon DEF RecvEnd, histVars
  <2> QED BY <1>7, <2>1, EndStep, Zenon
<1>8. CASE \E x \in {"rx", "tm"} : Deliver(x)
  <2>1. ~moved
    BY <1>8 DEF Deliver
  <2> QED BY <1>8, <2>1, DeliverStep, Zenon
<1>9. CASE TimerForce
  <2>1. ~moved
    BY <1>9, Zenon DEF TimerForce, histVars
  <2> QED BY <1>9, <2>1, ForceStep, Zenon
<1>10. CASE FreePurge
  <2>1. /\ UNCHANGED <<enable, indicate_seq, rec_abba_rsp_ack, base, rx, cur,
                       hi, last, ordered, moved>>
        /\ queue' = <<>>
    BY <1>10, Zenon DEF FreePurge, rxVars, sendVars, histVars
  <2>2. enable' /\ ordered' /\ rx' \notin {"before", "after"} /\ Spaced'
    BY <2>1 DEF WindowInv, Spaced
  <2>3. CASE Fresh
    BY <2>1, <2>2, <2>3, Zenon DEF WindowInv, Fresh, Unseen
  <2>4. ASSUME ~rec_abba_rsp_ack, NEW w \in Int, NEW hp \in Int,
               Window(w, hp), Seen(hp)
        PROVE  WindowInv'
    <3>1. Window(w, hp)'
      BY <2>1, <2>4 DEF Window, Unseen
    <3>2. Seen(hp)'
      BY <2>1, <2>4, Zenon DEF Seen, Unseen
    <3> QED BY <2>1, <2>2, <2>4, <3>1, <3>2, Tracked, Zenon
  <2> QED BY <2>1, <2>3, <2>4, Zenon DEF WindowInv
<1>11. CASE \/ Advance \/ TimerExpire \/ TimerEnd \/ FreeUnhash
            \/ FreeCancel \/ Stop \/ UNCHANGED vars
  <2>1. /\ UNCHANGED <<enable, indicate_seq, queue, rx, cur, hi, last,
                       ordered, moved>>
        /\ rec_abba_rsp_ack' => rec_abba_rsp_ack
        /\ base' = base \/ (base' = base + 1 /\ base \in Int)
    BY <1>11, Ints DEF Advance, TimerExpire, TimerEnd, FreeUnhash, FreeCancel,
       Stop, vars, ctrlVars, rxVars, sendVars, histVars
  <2> QED BY <2>1, WindowFrame, Zenon
<1> QED
  BY <1>1, <1>2, <1>3, <1>4, <1>5, <1>6, <1>7, <1>8, <1>9, <1>10, <1>11, Zenon
  DEF Next, RxStep, TimerStep

-----------------------------------------------------------------------------
(* The theorems.                                                           *)

\* IInv is an invariant of the reorder buffer.
THEOREM Invariance == Spec => []IInv
<1>1. Init => IInv
  <2> SUFFICES ASSUME Init PROVE IInv
    BY Zenon
  <2>1. TypeOK
    <3>1. /\ enable \in BOOLEAN /\ bReorderWaiting \in BOOLEAN
          /\ rec_abba_rsp_ack \in BOOLEAN /\ armed \in BOOLEAN
          /\ stopped \in BOOLEAN /\ ordered \in BOOLEAN
          /\ moved \in BOOLEAN /\ inflight \in BOOLEAN
      BY Zenon DEF Init
    <3>2. /\ cur \in First..MaxN /\ base \in First..MaxN
          /\ hi \in (First - 1)..MaxN /\ last \in (First - 1)..MaxN
          /\ bas \in 0..MaxBa
      BY Sizes DEF Init
    <3> QED BY <3>1, <3>2, EmptySeq, Zenon DEF Init, TypeOK
  <2>2. LockInv /\ TimerInv /\ FreeInv
    BY Zenon DEF Init, LockInv, TimerInv, FreeInv
  <2>3. SenderInv
    BY Sizes DEF Init, SenderInv
  <2>4. WindowInv
    BY DEF Init, WindowInv, Fresh, Unseen, Spaced
  <2> QED BY <2>1, <2>2, <2>3, <2>4, Zenon DEF IInv
<1>2. IInv /\ [Next]_vars => IInv'
  BY TypeStep, ControlStep, SenderStep, WindowStep, Zenon DEF IInv
<1> QED BY <1>1, <1>2, PTL DEF Spec

\* Every variable of the reorder buffer keeps its type; in particular the
\* window start that check_indicate_seq, the BARs and the timer set is a
\* 12-bit number.
THEOREM TypeCorrect == Spec => []TypeOK
<1>1. IInv => TypeOK
  BY Zenon DEF IInv
<1> QED BY <1>1, Invariance, PTL

\* recv_indicatepkt_reorder and the timer's handler never leave frames in the
\* pending queue of a station with no timer to push them up.
THEOREM TimerSafe == Spec => []TimerForPending
<1>1. IInv => TimerForPending
  BY Zenon DEF IInv, TimerInv, TimerForPending
<1> QED BY <1>1, Invariance, PTL

\* rtw_free_stainfo leaves neither frame nor timer behind, unless a frame was
\* in the tasklet when the station left the hash table.
THEOREM FreeSafe == Spec => []FreedQuiet
<1>1. IInv => FreedQuiet
  BY Zenon DEF IInv, FreeInv, FreedQuiet
<1> QED BY <1>1, Invariance, PTL

\* Frames of one agreement go up in the sender's order and none twice, with
\* the window arithmetic of check_indicate_seq modulo 4096, for streams of
\* any length.
THEOREM OrderSafe == Spec => []InOrder
<1>1. IInv => InOrder
  BY Zenon DEF IInv, WindowInv, InOrder
<1> QED BY <1>1, Invariance, PTL

\* Fewer frames than wsize_b wait between the calls.
THEOREM BoundSafe == Spec => []PendingBounded
<1>1. IInv => PendingBounded
  <2> SUFFICES ASSUME IInv, ~moved, qlock = "free" PROVE Len(queue) < WSize
    BY Zenon DEF PendingBounded
  <2>1. CASE queue = <<>>
    BY <2>1, Sizes
  <2>2. CASE queue # <<>>
    <3>1. ~Fresh /\ rx # "deliver" /\ TypeOK /\ Spaced
      BY <2>2, Zenon DEF Fresh, IInv, LockInv, WindowInv
    <3>2. PICK w \in Int, hp \in Int : Window(w, hp)
      BY <3>1, Zenon DEF IInv, WindowInv
    <3>3. /\ 1 \in 1..Len(queue) /\ queue[1] \in Int
          /\ \A i \in 1..Len(queue) : queue[1] + i - 1 <= queue[i]
      BY <2>2, <3>1, HeadLeast, Zenon
    <3>4. Len(queue) \in 1..Len(queue) /\ Len(queue) \in Int
      BY <3>1, <3>3, Ints
    <3>5. hp - WSize + 1 < queue[1] /\ queue[Len(queue)] <= hp
      BY <3>1, <3>2, <3>3, <3>4, Zenon DEF Window
    <3>6. queue[1] + Len(queue) - 1 <= queue[Len(queue)]
      BY <3>3, <3>4, Zenon
    <3>7. queue[Len(queue)] \in Int
      BY <3>1, <3>4, Ints, Zenon
    <3> QED BY <3>3, <3>4, <3>5, <3>6, <3>7, Sizes
  <2> QED BY <2>1, <2>2, Zenon
<1> QED BY <1>1, Invariance, PTL

=============================================================================
