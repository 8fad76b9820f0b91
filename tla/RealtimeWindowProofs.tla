-------------------------- MODULE RealtimeWindowProofs --------------------------
(***************************************************************************)
(* Theorems about RealtimeWindow: for any WINDOW_SIZE, any number of calls *)
(* on their way and any table.                                             *)
(***************************************************************************)
EXTENDS RealtimeWindow, SequenceTheorems, FiniteSetTheorems, WellFoundedInduction, TLAPS

(***************************************************************************)
(* The inductive invariant.  The window is as good as the answers that     *)
(* made it, so it says what an answer is worth that waits for its          *)
(* delivery: it is in order, and between its ends, or since the second it  *)
(* was asked from, no second is missing.  The table grows under it, but    *)
(* only at its young end.                                                  *)
(***************************************************************************)

Ascending(s) ==
  \A i, j \in DOMAIN s : i < j => At(s[i]) <= At(s[j]) /\ s[i] # s[j]

Descending(s) ==
  \A i, j \in DOMAIN s : i < j => At(s[i]) >= At(s[j]) /\ s[i] # s[j]

\* Every second from lo to hi that has a row has one in s.
Covers(s, lo, hi) ==
  \A r \in Rows : lo <= At(r) /\ At(r) <= hi => \E i \in DOMAIN s : At(s[i]) = At(r)

\* What the answer to c is worth.
AnswerOk(c) ==
  /\ c.items \in Seq(Rows) /\ Len(c.items) <= WINDOW_SIZE
  /\ c.kind = "recent" => Descending(c.items)
  /\ c.kind = "since" => Ascending(c.items)
  /\ c.items # <<>> =>
       /\ c.kind = "recent" => Covers(c.items, At(Last(c.items)), At(c.items[1]))
       /\ c.kind = "since" => Covers(c.items, c.since + 1, At(Last(c.items)))

CallOk(c) ==
  /\ c.answered => AnswerOk(c)
  /\ clean /\ ~c.old /\ c.kind = "since" => c.since <= lastTs

TableInOrder == J!InOrder

CallsOk == \A k \in DOMAIN calls : CallOk(calls[k])

WindowInv ==
  /\ TypeOK /\ TableInOrder /\ CallsOk
  /\ WindowInOrder /\ NoSecondSkipped

(***************************************************************************)
(* The table and the calls.                                                *)
(***************************************************************************)

\* Rows are ids with a second each.
LEMMA RowFacts ==
  ASSUME TypeOK
  PROVE  /\ now \in Nat \ {0} /\ lastTs \in Nat
         /\ Rows = 1 .. Len(readings) /\ Len(readings) \in Nat
         /\ \A r \in Rows : At(r) \in 1 .. now
         /\ Rows \subseteq Ids
<1>1. readings \in Seq([dev : {1}, at : 1 .. now]) /\ now \in Nat \ {0}
  BY DEF TypeOK, J!TypeOK
<1>2. Rows = 1 .. Len(readings) /\ Len(readings) \in Nat
  BY <1>1 DEF Rows
<1>3. \A r \in Rows : At(r) \in 1 .. now
  <2> SUFFICES ASSUME NEW r \in Rows
               PROVE  At(r) \in 1 .. now
    OBVIOUS
  <2>1. readings[r] \in [dev : {1}, at : 1 .. now]
    BY <1>1, <1>2, ElementOfSeq
  <2>2. QED
    BY <2>1 DEF At
<1>4. Rows \subseteq Ids
  BY <1>2, WindowAssumption DEF TypeOK, Ids
<1>5. QED
  BY <1>1, <1>2, <1>3, <1>4 DEF TypeOK

LEMMA SeqWider ==
  ASSUME NEW S, NEW T, S \subseteq T, NEW s \in Seq(S)
  PROVE  s \in Seq(T)
  OBVIOUS

LEMMA SecondsOf ==
  ASSUME TypeOK, NEW s \in Seq(Rows)
  PROVE  \A i \in DOMAIN s : s[i] \in Rows /\ At(s[i]) \in 1 .. now /\ At(s[i]) \in Int
<1> SUFFICES ASSUME NEW i \in DOMAIN s
             PROVE  s[i] \in Rows /\ At(s[i]) \in 1 .. now /\ At(s[i]) \in Int
  OBVIOUS
<1>1. s[i] \in Rows
  OBVIOUS
<1>2. At(s[i]) \in 1 .. now /\ now \in Nat
  BY <1>1, RowFacts
<1>3. QED
  BY <1>1, <1>2

LEMMA CallFacts ==
  ASSUME TypeOK, NEW k \in DOMAIN calls
  PROVE  /\ calls[k] \in Call /\ calls[k].kind \in {"recent", "since"}
         /\ calls[k].old \in BOOLEAN /\ calls[k].answered \in BOOLEAN
         /\ calls[k].since \in Nat /\ calls[k].since + 1 \in Int
<1>1. calls[k] \in Call
  BY DEF TypeOK
<1>2. QED
  BY <1>1, WindowAssumption DEF Call

\* A call that is taken off the list leaves the others.
LEMMA WithoutFacts ==
  ASSUME NEW S, calls \in Seq(S), NEW k \in DOMAIN calls
  PROVE  /\ Without(k) \in Seq(S) /\ Len(Without(k)) = Len(calls) - 1
         /\ \A i \in DOMAIN Without(k) : \E j \in DOMAIN calls : Without(k)[i] = calls[j]
<1> DEFINE a == SubSeq(calls, 1, k - 1)
           b == SubSeq(calls, k + 1, Len(calls))
<1>1. k \in 1 .. Len(calls) /\ Len(calls) \in Nat
  OBVIOUS
<1>2. \A i \in 1 .. k - 1 : calls[i] \in S
  BY <1>1
<1>3. \A i \in k + 1 .. Len(calls) : calls[i] \in S
  BY <1>1
<1>4. a \in Seq(S) /\ Len(a) = k - 1 /\ \A i \in 1 .. k - 1 : a[i] = calls[i]
  BY <1>1, <1>2, SubSeqProperties
<1>5. /\ b \in Seq(S) /\ Len(b) = Len(calls) - k
      /\ \A i \in 1 .. Len(calls) - k : b[i] = calls[k + i]
  BY <1>1, <1>3, SubSeqProperties
<1> HIDE DEF a, b
<1>6. /\ a \o b \in Seq(S) /\ Len(a \o b) = Len(calls) - 1
      /\ \A i \in 1 .. Len(a \o b) : (a \o b)[i] = IF i <= k - 1 THEN a[i] ELSE b[i - (k - 1)]
  <2>1. /\ a \o b \in Seq(S) /\ Len(a \o b) = Len(a) + Len(b)
        /\ \A i \in 1 .. Len(a) + Len(b) :
             (a \o b)[i] = IF i <= Len(a) THEN a[i] ELSE b[i - Len(a)]
    BY <1>4, <1>5, ConcatProperties
  <2>2. Len(a) + Len(b) = Len(calls) - 1
    BY <1>1, <1>4, <1>5
  <2>3. QED
    BY <1>4, <2>1, <2>2
<1>7. \A i \in 1 .. Len(a \o b) : \E j \in DOMAIN calls : (a \o b)[i] = calls[j]
  <2> SUFFICES ASSUME NEW i \in 1 .. Len(a \o b)
               PROVE  \E j \in DOMAIN calls : (a \o b)[i] = calls[j]
    OBVIOUS
  <2>1. CASE i <= k - 1
    <3>1. i \in 1 .. k - 1 /\ i \in DOMAIN calls
      BY <1>1, <1>6, <2>1
    <3>2. (a \o b)[i] = a[i] /\ a[i] = calls[i]
      BY <1>4, <1>6, <2>1, <3>1
    <3>3. QED
      BY <3>1, <3>2
  <2>2. CASE i > k - 1
    <3>1. i - (k - 1) \in 1 .. Len(calls) - k /\ i + 1 \in DOMAIN calls
      BY <1>1, <1>6, <2>2
    <3>2. b[i - (k - 1)] = calls[k + (i - (k - 1))]
      BY <1>5, <3>1
    <3>3. k + (i - (k - 1)) = i + 1 /\ (a \o b)[i] = b[i - (k - 1)]
      BY <1>1, <1>6, <2>2
    <3>4. QED
      BY <3>1, <3>2, <3>3
  <2>3. QED
    BY <1>1, <2>1, <2>2
<1>8. Without(k) = a \o b
  BY DEF Without, a, b
<1>9. DOMAIN (a \o b) = 1 .. Len(a \o b)
  BY <1>6
<1>10. QED
  BY <1>6, <1>7, <1>8, <1>9, Zenon

(***************************************************************************)
(* What the two queries answer.                                            *)
(***************************************************************************)

LEMMA ListFacts ==
  ASSUME TypeOK, NEW S \in SUBSET Rows, NEW s \in Lists(S, AtMost(Cardinality(S), WINDOW_SIZE))
  PROVE  /\ s \in Seq(S) /\ Len(s) <= WINDOW_SIZE
         /\ \A i, j \in DOMAIN s : i # j => s[i] # s[j]
<1> DEFINE n == AtMost(Cardinality(S), WINDOW_SIZE)
<1>1. IsFiniteSet(S)
  <2>1. IsFiniteSet(1 .. Len(readings)) /\ S \subseteq 1 .. Len(readings)
    BY RowFacts, FS_Interval
  <2>2. QED
    BY <2>1, FS_Subset
<1>2. n \in Nat /\ n <= WINDOW_SIZE
  BY <1>1, FS_CardinalityType, WindowAssumption DEF AtMost
<1> HIDE DEF n
<1>3. s \in [1 .. n -> S] /\ \A i, j \in 1 .. n : i # j => s[i] # s[j]
  BY DEF Lists, n
<1>4. s \in Seq(S) /\ Len(s) = n
  BY <1>2, <1>3
<1>5. QED
  BY <1>2, <1>3, <1>4

\* The answer to a first load covers all seconds from its last row to its first.
LEMMA RecentOk ==
  ASSUME TypeOK, TableInOrder, NEW s \in NewestFirst(Rows, WINDOW_SIZE)
  PROVE  /\ s \in Seq(Rows) /\ Len(s) <= WINDOW_SIZE /\ Descending(s)
         /\ s # <<>> => Covers(s, At(Last(s)), At(s[1]))
<1>1. s \in Lists(Rows, AtMost(Cardinality(Rows), WINDOW_SIZE))
  BY DEF NewestFirst
<1>2. /\ s \in Seq(Rows) /\ Len(s) <= WINDOW_SIZE
      /\ \A i, j \in DOMAIN s : i # j => s[i] # s[j]
  BY <1>1, ListFacts
<1>3. /\ \A i \in DOMAIN s : \A j \in 1 .. i : At(s[j]) >= At(s[i])
      /\ \A i \in DOMAIN s : \A r \in Rows :
           (\A j \in DOMAIN s : s[j] # r) => At(r) <= At(s[i])
  BY DEF NewestFirst
<1>4. Descending(s)
  BY <1>2, <1>3 DEF Descending
<1>5. s # <<>> => Covers(s, At(Last(s)), At(s[1]))
  <2> SUFFICES ASSUME s # <<>>, NEW r \in Rows, At(Last(s)) <= At(r)
               PROVE  \E i \in DOMAIN s : At(s[i]) = At(r)
    BY DEF Covers
  <2>1. Len(s) \in DOMAIN s /\ s[Len(s)] \in Rows
    BY <1>2
  <2>2. (\A j \in DOMAIN s : s[j] # r) => At(r) <= At(s[Len(s)])
    BY <1>3, <2>1
  <2>3. At(r) \in Int /\ At(s[Len(s)]) \in Int
    BY <2>1, RowFacts
  <2>4. QED
    BY <2>1, <2>2, <2>3 DEF Last
<1>6. QED
  BY <1>2, <1>4, <1>5

\* An increment covers all seconds after the one it was asked from.
LEMMA IncrementOk ==
  ASSUME TypeOK, NEW since \in Nat, NEW s \in Increment(since)
  PROVE  /\ s \in Seq(Rows) /\ Len(s) <= WINDOW_SIZE /\ Ascending(s)
         /\ s # <<>> => Covers(s, since + 1, At(Last(s)))
<1> DEFINE S == {r \in Rows : At(r) > since}
<1>1. s \in OldestFirst(S, WINDOW_SIZE)
  BY DEF Increment
<1> HIDE DEF S
<1>2. s \in Lists(S, AtMost(Cardinality(S), WINDOW_SIZE)) /\ S \in SUBSET Rows
  BY <1>1 DEF OldestFirst, S
<1>3. /\ s \in Seq(S) /\ Len(s) <= WINDOW_SIZE
      /\ \A i, j \in DOMAIN s : i # j => s[i] # s[j]
  BY <1>2, ListFacts
<1>4. /\ \A i \in DOMAIN s : \A j \in 1 .. i : At(s[j]) <= At(s[i])
      /\ \A i \in DOMAIN s : \A r \in S :
           (\A j \in DOMAIN s : s[j] # r) => At(r) >= At(s[i])
  BY <1>1 DEF OldestFirst
<1>5. s \in Seq(Rows)
  BY <1>2, <1>3
<1>6. Ascending(s)
  BY <1>3, <1>4 DEF Ascending
<1>7. s # <<>> => Covers(s, since + 1, At(Last(s)))
  <2> SUFFICES ASSUME s # <<>>, NEW r \in Rows, since + 1 <= At(r), At(r) <= At(Last(s))
               PROVE  \E i \in DOMAIN s : At(s[i]) = At(r)
    BY DEF Covers
  <2>1. Len(s) \in DOMAIN s /\ s[Len(s)] \in Rows
    BY <1>5
  <2>2. At(r) \in Int /\ At(s[Len(s)]) \in Int
    BY <2>1, RowFacts
  <2>3. r \in S
    BY <2>2 DEF S
  <2>4. (\A j \in DOMAIN s : s[j] # r) => At(r) >= At(s[Len(s)])
    BY <1>4, <2>1, <2>3
  <2>5. QED
    BY <2>1, <2>2, <2>4 DEF Last
<1>8. QED
  BY <1>3, <1>5, <1>6, <1>7

(***************************************************************************)
(* The lists of the view model.                                            *)
(***************************************************************************)

\* The rows of a first load, turned round.
LEMMA TurnedOk ==
  ASSUME TypeOK, NEW s \in Seq(Rows), s # <<>>, Descending(s),
         Covers(s, At(Last(s)), At(s[1])),
         NEW w, w = [i \in DOMAIN s |-> s[Len(s) + 1 - i]]
  PROVE  /\ w \in Seq(Rows) /\ Len(w) = Len(s) /\ w # <<>>
         /\ Ascending(w) /\ Covers(w, At(w[1]), At(Last(w)))
<1>1. DOMAIN s = 1 .. Len(s) /\ Len(s) \in Nat \ {0}
  OBVIOUS
<1>2. \A i \in 1 .. Len(s) : Len(s) + 1 - i \in 1 .. Len(s)
  BY <1>1
<1>3. \A i \in 1 .. Len(s) : w[i] = s[Len(s) + 1 - i] /\ w[i] \in Rows
  BY <1>1, <1>2
<1>4. w \in Seq(Rows) /\ Len(w) = Len(s) /\ DOMAIN w = 1 .. Len(s)
  BY <1>1, <1>2, <1>3
<1>5. w # <<>> /\ w[1] = Last(s) /\ Last(w) = s[1]
  BY <1>1, <1>3, <1>4 DEF Last
<1>6. Ascending(w)
  <2> SUFFICES ASSUME NEW i \in 1 .. Len(s), NEW j \in 1 .. Len(s), i < j
               PROVE  At(w[i]) <= At(w[j]) /\ w[i] # w[j]
    BY <1>4 DEF Ascending
  <2> DEFINE a == Len(s) + 1 - j
             b == Len(s) + 1 - i
  <2>1. a \in DOMAIN s /\ b \in DOMAIN s /\ a < b
    BY <1>1
  <2>2. At(s[a]) >= At(s[b]) /\ s[a] # s[b]
    BY <2>1 DEF Descending
  <2>3. w[i] = s[b] /\ w[j] = s[a]
    BY <1>3
  <2> HIDE DEF a, b
  <2>4. At(s[a]) \in Int /\ At(s[b]) \in Int
    BY <2>1, SecondsOf
  <2>5. QED
    BY <2>2, <2>3, <2>4
<1>7. Covers(w, At(w[1]), At(Last(w)))
  <2> SUFFICES ASSUME NEW r \in Rows, At(Last(s)) <= At(r), At(r) <= At(s[1])
               PROVE  \E i \in 1 .. Len(s) : At(w[i]) = At(r)
    BY <1>4, <1>5 DEF Covers
  <2>1. PICK i \in DOMAIN s : At(s[i]) = At(r)
    BY DEF Covers
  <2>2. Len(s) + 1 - i \in 1 .. Len(s) /\ Len(s) + 1 - (Len(s) + 1 - i) = i
    BY <1>1
  <2>3. w[Len(s) + 1 - i] = s[i]
    BY <1>3, <2>2
  <2>4. QED
    BY <2>1, <2>2, <2>3
<1>8. QED
  BY <1>4, <1>5, <1>6, <1>7

\* The window keeps its young end.
LEMMA TrimOk ==
  ASSUME TypeOK, NEW s \in Seq(Rows), Ascending(s)
  PROVE  /\ Trim(s) \in Seq(Rows) /\ Len(Trim(s)) <= WINDOW_SIZE /\ Ascending(Trim(s))
         /\ Len(s) <= WINDOW_SIZE => Trim(s) = s
         /\ s # <<>> => Trim(s) # <<>> /\ Last(Trim(s)) = Last(s)
         /\ \A hi : s # <<>> /\ Covers(s, At(s[1]), hi) => Covers(Trim(s), At(Trim(s)[1]), hi)
<1> DEFINE d == IF Len(s) > WINDOW_SIZE THEN Len(s) - WINDOW_SIZE ELSE 0
           t == SubSeq(s, 1 + d, Len(s))
<1>1. Len(s) \in Nat /\ DOMAIN s = 1 .. Len(s) /\ WINDOW_SIZE \in Nat \ {0}
  BY WindowAssumption
<1>2. d \in Nat /\ d <= Len(s) /\ Len(s) - d <= WINDOW_SIZE /\ (Len(s) > 0 => Len(s) - d > 0)
  BY <1>1
<1>3. Len(s) <= WINDOW_SIZE => d <= 0
  BY <1>1
<1>4. Trim(s) = t
  BY DEF Trim
<1> HIDE DEF d
<1>5. \A i \in 1 + d .. Len(s) : s[i] \in Rows
  BY <1>1, <1>2
<1>6. /\ t \in Seq(Rows) /\ Len(t) = (IF 1 + d <= Len(s) THEN Len(s) - (1 + d) + 1 ELSE 0)
      /\ \A i \in 1 .. Len(s) - (1 + d) + 1 : t[i] = s[(1 + d) + i - 1]
  BY <1>1, <1>2, <1>5, SubSeqProperties
<1> HIDE DEF t
<1>7. Len(t) = Len(s) - d /\ DOMAIN t = 1 .. Len(s) - d
  <2>1. Len(t) = Len(s) - d
    <3>1. Len(t) = Len(s) - (1 + d) + 1
      <4>1. CASE 1 + d <= Len(s)
        BY <1>6, <4>1
      <4>2. CASE ~(1 + d <= Len(s))
        <5>1. Len(s) = 0 /\ d = 0 /\ Len(t) = 0
          BY <1>1, <1>2, <1>6, <4>2
        <5>2. QED
          BY <5>1
      <4>3. QED
        BY <4>1, <4>2
    <3>2. Len(s) - (1 + d) + 1 = Len(s) - d
      BY <1>1, <1>2
    <3>3. QED
      BY <3>1, <3>2
  <2>2. QED
    BY <1>6, <2>1
<1>8. \A i \in 1 .. Len(s) - d : t[i] = s[d + i] /\ d + i \in DOMAIN s
  <2> SUFFICES ASSUME NEW i \in 1 .. Len(s) - d
               PROVE  t[i] = s[d + i] /\ d + i \in DOMAIN s
    OBVIOUS
  <2>1. i \in 1 .. Len(s) - (1 + d) + 1 /\ (1 + d) + i - 1 = d + i
    BY <1>1, <1>2
  <2>2. t[i] = s[(1 + d) + i - 1]
    BY <1>6, <2>1
  <2>3. QED
    BY <1>1, <1>2, <2>1, <2>2
<1>9. Ascending(t)
  <2> SUFFICES ASSUME NEW i \in 1 .. Len(s) - d, NEW j \in 1 .. Len(s) - d, i < j
               PROVE  At(t[i]) <= At(t[j]) /\ t[i] # t[j]
    BY <1>7 DEF Ascending
  <2>1. d + i \in DOMAIN s /\ d + j \in DOMAIN s /\ d + i < d + j
    BY <1>1, <1>2, <1>8
  <2>2. At(s[d + i]) <= At(s[d + j]) /\ s[d + i] # s[d + j]
    BY <2>1 DEF Ascending
  <2>3. QED
    BY <1>8, <2>2
<1>10. d <= 0 => t = s
  <2> SUFFICES ASSUME d <= 0
               PROVE  t = s
    OBVIOUS
  <2>1. d = 0
    BY <1>2
  <2>2. Len(t) = Len(s) /\ \A i \in 1 .. Len(s) : t[i] = s[i]
    BY <1>1, <1>7, <1>8, <2>1
  <2>3. QED
    BY <1>6, <2>2
<1>11. ASSUME s # <<>>
       PROVE  t # <<>> /\ Last(t) = Last(s)
  <2>1. Len(s) - d \in 1 .. Len(s) - d /\ d + (Len(s) - d) = Len(s)
    BY <1>1, <1>2, <1>11
  <2>2. t[Len(s) - d] = s[d + (Len(s) - d)]
    BY <1>8, <2>1
  <2>3. QED
    BY <1>7, <2>1, <2>2 DEF Last
<1>12. ASSUME NEW hi, s # <<>>, Covers(s, At(s[1]), hi)
       PROVE  Covers(t, At(t[1]), hi)
  <2> SUFFICES ASSUME NEW r \in Rows, At(t[1]) <= At(r), At(r) <= hi
               PROVE  \E i \in 1 .. Len(s) - d : At(t[i]) = At(r)
    BY <1>7 DEF Covers
  <2>1. 1 \in 1 .. Len(s) - d /\ t[1] = s[d + 1] /\ 1 \in DOMAIN s /\ d + 1 \in DOMAIN s
    BY <1>1, <1>2, <1>8, <1>12
  <2>2. \A i \in DOMAIN s : At(s[i]) \in Int
    BY RowFacts
  <2>3. At(s[1]) <= At(s[d + 1]) /\ At(r) \in Int
    <3>1. d + 1 = 1 \/ 1 < d + 1
      BY <1>2
    <3>2. QED
      BY <2>1, <2>2, <3>1, RowFacts DEF Ascending
  <2>4. PICK i \in DOMAIN s : At(s[i]) = At(r)
    BY <1>12, <2>1, <2>2, <2>3 DEF Covers
  <2>5. CASE i > d
    <3>1. i - d \in 1 .. Len(s) - d /\ d + (i - d) = i
      BY <1>1, <1>2, <2>5
    <3>2. t[i - d] = s[d + (i - d)]
      BY <1>8, <3>1
    <3>3. QED
      BY <2>4, <3>1, <3>2
  <2>6. CASE i <= d
    <3>1. i < d + 1
      BY <1>1, <1>2, <2>6
    <3>2. At(s[i]) <= At(s[d + 1])
      BY <2>1, <3>1 DEF Ascending
    <3>3. QED
      BY <2>1, <2>2, <2>3, <2>4, <3>2
  <2>7. QED
    BY <1>1, <1>2, <2>5, <2>6
<1>13. QED
  BY <1>2, <1>3, <1>4, <1>6, <1>7, <1>9, <1>10, <1>11, <1>12

LEMMA LeastOf ==
  ASSUME NEW T \in SUBSET Nat, T # {}
  PROVE  \E m \in T : \A k \in T : m <= k
<1> DEFINE Less == {p \in Nat \X Nat : p[1] < p[2]}
<1>1. IsWellFoundedOn(Less, Nat)
  BY NatLessThanWellFounded DEF OpToRel
<1>2. PICK m \in T : \A k \in T : ~(<<k, m>> \in Less)
  BY <1>1, WFMin
<1>3. \A k \in T : m <= k
  <2> SUFFICES ASSUME NEW k \in T
               PROVE  m <= k
    OBVIOUS
  <2>1. k \in Nat /\ m \in Nat /\ <<k, m>> \in Nat \X Nat /\ <<k, m>> \notin Less
    BY <1>2
  <2>2. QED
    BY <2>1
<1>4. QED
  BY <1>3

\* Of an increment that is in order, the loop appends one row of every second
\* younger than lastTs.
LEMMA NewOk ==
  ASSUME TypeOK, NEW items \in Seq(Rows), Ascending(items), NEW new \in NewSeconds(items)
  PROVE  /\ new \in Seq(Rows)
         /\ \A i, j \in DOMAIN new : i < j => At(new[i]) < At(new[j])
         /\ \A i \in DOMAIN new : At(new[i]) > lastTs
         /\ \A i \in DOMAIN new : \E j \in DOMAIN items : new[i] = items[j]
         /\ \A i \in DOMAIN items :
              At(items[i]) > lastTs => \E j \in DOMAIN new : At(new[j]) = At(items[i])
<1> DEFINE fresh == {i \in DOMAIN items :
                       At(items[i]) > lastTs /\ \A j \in 1 .. i - 1 : At(items[j]) < At(items[i])}
           rows == {items[i] : i \in fresh}
<1>1. /\ new \in UNION {[1 .. n -> rows] : n \in 0 .. Len(items)}
      /\ \A r \in rows : \E i \in DOMAIN new : new[i] = r
      /\ \A i, j \in DOMAIN new : i < j => At(new[i]) < At(new[j])
  BY DEF NewSeconds
<1>2. \A r \in rows : r \in Rows /\ At(r) > lastTs /\ \E j \in DOMAIN items : r = items[j]
  OBVIOUS
<1>3. DOMAIN items = 1 .. Len(items) /\ Len(items) \in Nat
  OBVIOUS
<1>4. PICK n \in 0 .. Len(items) : new \in [1 .. n -> rows]
  BY <1>1
<1>5. \A i \in DOMAIN items :
        At(items[i]) > lastTs => \E r \in rows : At(r) = At(items[i])
  <2> SUFFICES ASSUME NEW i \in DOMAIN items, At(items[i]) > lastTs
               PROVE  \E r \in rows : At(r) = At(items[i])
    OBVIOUS
  <2> DEFINE T == {j \in DOMAIN items : At(items[j]) = At(items[i])}
  <2>1. T \in SUBSET Nat /\ i \in T
    BY <1>3
  <2>2. PICK m \in T : \A k \in T : m <= k
    BY <2>1, LeastOf
  <2>3. m \in 1 .. Len(items) /\ items[m] \in Rows /\ At(items[m]) = At(items[i])
    BY <1>3
  <2>4. \A j \in 1 .. m - 1 : At(items[j]) < At(items[m])
    <3> SUFFICES ASSUME NEW j \in 1 .. m - 1
                 PROVE  At(items[j]) < At(items[m])
      OBVIOUS
    <3>1. j \in DOMAIN items /\ j < m /\ ~(m <= j) /\ m \in DOMAIN items
      BY <1>3, <2>3
    <3>2. j \notin T
      BY <2>2, <3>1
    <3>3. At(items[j]) # At(items[m]) /\ At(items[j]) <= At(items[m])
      BY <2>3, <3>1, <3>2 DEF Ascending
    <3>4. At(items[j]) \in Int /\ At(items[m]) \in Int
      BY <3>1, SecondsOf
    <3>5. QED
      BY <3>3, <3>4
  <2> HIDE DEF T
  <2>5. m \in fresh
    BY <1>3, <2>3, <2>4
  <2>6. items[m] \in rows
    BY <2>5
  <2>7. QED
    BY <2>3, <2>6
<1> HIDE DEF fresh, rows
<1>6. new \in Seq(rows) /\ \A i \in DOMAIN new : new[i] \in rows
  BY <1>4
<1>7. new \in Seq(Rows)
  BY <1>2, <1>4
<1>8. \A i \in DOMAIN items :
        At(items[i]) > lastTs => \E j \in DOMAIN new : At(new[j]) = At(items[i])
  BY <1>1, <1>5
<1>9. QED
  BY <1>1, <1>2, <1>6, <1>7, <1>8

\* The window with the new rows behind it.
LEMMA MergedOk ==
  ASSUME TypeOK, WindowInOrder, NEW items \in Seq(Rows), items # <<>>, Ascending(items),
         NEW new \in NewSeconds(items), new # <<>>
  PROVE  /\ window \o new \in Seq(Rows) /\ window \o new # <<>> /\ Ascending(window \o new)
         /\ Last(window \o new) = Last(new) /\ At(Last(new)) > lastTs
         /\ \A since \in Nat :
              /\ Covers(items, since + 1, At(Last(items))) /\ since <= lastTs
              /\ window # <<>> => Covers(window, At(window[1]), lastTs)
              => Covers(window \o new, At((window \o new)[1]), At(Last(new)))
<1> DEFINE all == window \o new
           w == Len(window)
<1>1. window \in Seq(Rows) /\ w \in Nat /\ DOMAIN window = 1 .. w /\ lastTs \in Nat
  BY RowFacts DEF TypeOK
<1>2. /\ new \in Seq(Rows)
      /\ \A i, j \in DOMAIN new : i < j => At(new[i]) < At(new[j])
      /\ \A i \in DOMAIN new : At(new[i]) > lastTs
      /\ \A i \in DOMAIN new : \E j \in DOMAIN items : new[i] = items[j]
      /\ \A i \in DOMAIN items :
           At(items[i]) > lastTs => \E j \in DOMAIN new : At(new[j]) = At(items[i])
  BY NewOk
<1>3. Len(new) \in Nat \ {0} /\ DOMAIN new = 1 .. Len(new)
  BY <1>2
<1>4. /\ all \in Seq(Rows) /\ Len(all) = w + Len(new) /\ DOMAIN all = 1 .. w + Len(new)
      /\ \A i \in 1 .. w + Len(new) : all[i] = IF i <= w THEN window[i] ELSE new[i - w]
  BY <1>1, <1>2
<1> HIDE DEF all, w
<1>5. /\ \A i \in 1 .. w : i \in DOMAIN all /\ all[i] = window[i]
      /\ \A i \in 1 .. Len(new) : w + i \in DOMAIN all /\ all[w + i] = new[i]
  <2>1. \A i \in 1 .. w : i \in DOMAIN all /\ all[i] = window[i]
    BY <1>1, <1>3, <1>4
  <2>2. ASSUME NEW i \in 1 .. Len(new)
        PROVE  w + i \in DOMAIN all /\ all[w + i] = new[i]
    <3>1. w + i \in 1 .. w + Len(new) /\ ~(w + i <= w) /\ (w + i) - w = i
      BY <1>1, <1>3
    <3>2. QED
      BY <1>4, <3>1
  <2>3. QED
    BY <2>1, <2>2
<1>6. all # <<>> /\ Last(all) = Last(new) /\ At(Last(new)) > lastTs
  <2>1. Len(new) \in 1 .. Len(new) /\ Len(all) = w + Len(new) /\ Len(all) # 0
    BY <1>1, <1>3, <1>4
  <2>2. QED
    BY <1>2, <1>3, <1>4, <1>5, <2>1 DEF Last
<1>7. \A i \in DOMAIN window : At(window[i]) <= lastTs
  <2> SUFFICES ASSUME NEW i \in DOMAIN window
               PROVE  At(window[i]) <= lastTs
    OBVIOUS
  <2>1. w \in DOMAIN window /\ lastTs = At(window[w]) /\ window # <<>>
    BY <1>1 DEF WindowInOrder, Last, w
  <2>2. CASE i = w
    BY <1>1, <2>1, <2>2
  <2>3. CASE i < w
    BY <2>1, <2>3 DEF WindowInOrder
  <2>4. QED
    BY <1>1, <2>2, <2>3
<1>8. Ascending(all)
  <2> SUFFICES ASSUME NEW i \in 1 .. w + Len(new), NEW j \in 1 .. w + Len(new), i < j
               PROVE  At(all[i]) <= At(all[j]) /\ all[i] # all[j]
    BY <1>4 DEF Ascending
  <2>1. CASE j <= w
    <3>1. i \in DOMAIN window /\ j \in DOMAIN window /\ all[i] = window[i] /\ all[j] = window[j]
      BY <1>1, <1>3, <1>5, <2>1
    <3>2. QED
      BY <3>1 DEF WindowInOrder
  <2>2. CASE i <= w /\ j > w
    <3>1. i \in DOMAIN window /\ j - w \in DOMAIN new /\ w + (j - w) = j
      BY <1>1, <1>3, <2>2
    <3>2. all[i] = window[i] /\ all[j] = new[j - w]
      BY <1>1, <1>3, <1>5, <3>1
    <3>3. At(all[i]) <= lastTs /\ At(all[j]) > lastTs
      BY <1>2, <1>7, <3>1, <3>2
    <3>4. At(all[i]) \in Int /\ At(all[j]) \in Int
      BY <1>4, SecondsOf
    <3>5. QED
      BY <1>1, <3>3, <3>4
  <2>3. CASE i > w
    <3>1. i - w \in DOMAIN new /\ j - w \in DOMAIN new /\ i - w < j - w
          /\ w + (i - w) = i /\ w + (j - w) = j
      BY <1>1, <1>3, <2>3
    <3>2. all[i] = new[i - w] /\ all[j] = new[j - w]
      BY <1>3, <1>5, <3>1
    <3>3. At(all[i]) < At(all[j])
      BY <1>2, <3>1, <3>2
    <3>4. At(all[i]) \in Int /\ At(all[j]) \in Int
      BY <1>4, SecondsOf
    <3>5. QED
      BY <3>3, <3>4
  <2>4. QED
    BY <1>1, <1>3, <2>1, <2>2, <2>3
<1>9. ASSUME NEW since \in Nat, Covers(items, since + 1, At(Last(items))), since <= lastTs,
             window # <<>> => Covers(window, At(window[1]), lastTs)
      PROVE  Covers(all, At(all[1]), At(Last(new)))
  <2> SUFFICES ASSUME NEW r \in Rows, At(all[1]) <= At(r), At(r) <= At(Last(new))
               PROVE  \E i \in DOMAIN all : At(all[i]) = At(r)
    BY DEF Covers
  <2>1. At(r) \in Nat \ {0}
    BY RowFacts
  <2>2. CASE At(r) <= lastTs
    <3>1. window # <<>>
      BY <1>1, <2>1, <2>2 DEF WindowInOrder
    <3>2. 1 \in DOMAIN window /\ all[1] = window[1]
      BY <1>1, <1>5, <3>1 DEF w
    <3>3. PICK i \in DOMAIN window : At(window[i]) = At(r)
      BY <1>9, <2>2, <3>1, <3>2 DEF Covers
    <3>4. QED
      BY <1>1, <1>5, <3>3
  <2>3. CASE At(r) > lastTs
    <3>1. At(Last(new)) <= At(Last(items))
      <4>1. Len(new) \in DOMAIN new /\ Len(items) \in DOMAIN items /\ DOMAIN items = 1 .. Len(items)
        BY <1>3
      <4>2. PICK j \in DOMAIN items : Last(new) = items[j]
        BY <1>2, <4>1 DEF Last
      <4>3. CASE j = Len(items)
        <5>1. At(items[j]) \in Int
          BY SecondsOf
        <5>2. QED
          BY <4>2, <4>3, <5>1 DEF Last
      <4>4. CASE j < Len(items)
        BY <4>1, <4>2, <4>4 DEF Ascending, Last
      <4>5. QED
        BY <4>1, <4>3, <4>4
    <3>2. At(Last(new)) \in Int /\ At(Last(items)) \in Int
      <4>1. Len(new) \in DOMAIN new /\ Len(items) \in DOMAIN items
        BY <1>3
      <4>2. Last(new) \in Rows /\ Last(items) \in Rows
        BY <1>2, <4>1 DEF Last
      <4>3. QED
        BY <4>2, RowFacts
    <3>3. since + 1 <= At(r) /\ At(r) <= At(Last(items))
      BY <1>1, <1>9, <2>1, <2>3, <3>1, <3>2
    <3>4. PICK i \in DOMAIN items : At(items[i]) = At(r)
      BY <1>9, <3>3 DEF Covers
    <3>5. PICK j \in DOMAIN new : At(new[j]) = At(r)
      BY <1>2, <2>3, <3>4
    <3>6. QED
      BY <1>3, <1>5, <3>5
  <2>4. QED
    BY <1>1, <2>1, <2>2, <2>3
<1>10. QED
  BY <1>4, <1>6, <1>8, <1>9 DEF all

(***************************************************************************)
(* The steps.                                                              *)
(***************************************************************************)

LEMMA InitOk ==
  ASSUME Init
  PROVE  WindowInv
<1>1. now = 1 /\ readings = <<>> /\ DOMAIN readings = {}
  BY DEF Init, J!Init
<1>2. TypeOK
  <2>1. J!TypeOK
    BY <1>1 DEF J!TypeOK
  <2>2. Len(<<>>) = 0 /\ \A S : <<>> \in Seq(S)
    OBVIOUS
  <2>3. now \in 1 .. MaxNow /\ 0 \in 0 .. now /\ 0 <= MaxRows /\ 0 <= MaxCalls /\ 0 <= WINDOW_SIZE
    BY <1>1, WindowAssumption
  <2>4. QED
    BY <1>1, <2>1, <2>2, <2>3 DEF Init, TypeOK
<1>3. TableInOrder
  BY <1>1 DEF TableInOrder, J!InOrder
<1>4. CallsOk /\ WindowInOrder /\ NoSecondSkipped
  BY DEF Init, CallsOk, WindowInOrder, NoSecondSkipped
<1>5. QED
  BY <1>2, <1>3, <1>4 DEF WindowInv

\* A new row comes at the young end of the table and moves no other.
LEMMA InsertFacts ==
  ASSUME TypeOK, TableInOrder, Insert
  PROVE  /\ J!TypeOK' /\ TableInOrder' /\ Len(readings') = Len(readings) + 1
         /\ \A r \in Rows : r \in Rows' /\ At(r)' = At(r)
         /\ \A r \in Rows' : r \in Rows \/ \A q \in Rows : At(q) <= At(r)'
<1> DEFINE n == Len(readings)
<1>1. PICK at \in J!Newest .. now :
        at > 0 /\ readings' = Append(readings, [dev |-> 1, at |-> at]) /\ now' = now
  BY DEF Insert, J!Store
<1>2. readings \in Seq([dev : {1}, at : 1 .. now]) /\ now \in Nat \ {0}
  BY DEF TypeOK, J!TypeOK
<1>3. n \in Nat /\ Rows = 1 .. n /\ \A r \in Rows : At(r) \in 1 .. now
  BY RowFacts
<1>4. J!Newest \in 0 .. now /\ \A q \in Rows : At(q) <= J!Newest
  <2>1. CASE n = 0
    <3>1. readings = <<>>
      BY <1>2, <2>1
    <3>2. QED
      BY <1>2, <1>3, <2>1, <3>1 DEF J!Newest
  <2>2. CASE n # 0
    <3>1. n \in Rows /\ readings # <<>> /\ J!Newest = At(n)
      BY <1>2, <1>3, <2>2 DEF J!Newest, At
    <3>2. \A q \in Rows : q = n \/ q < n
      BY <1>3
    <3>3. \A q \in Rows : At(q) <= At(n)
      <4> SUFFICES ASSUME NEW q \in Rows
                   PROVE  At(q) <= At(n)
        OBVIOUS
      <4>1. CASE q = n
        BY <1>3, <3>1, <4>1
      <4>2. CASE q < n
        BY <3>1, <4>2 DEF TableInOrder, J!InOrder, At, Rows
      <4>3. QED
        BY <3>2, <4>1, <4>2
    <3>4. QED
      BY <1>2, <1>3, <3>1, <3>3
  <2>3. QED
    BY <2>1, <2>2
<1>5. at \in 1 .. now
  BY <1>1, <1>2, <1>4
<1>6. [dev |-> 1, at |-> at] \in [dev : {1}, at : 1 .. now]
  BY <1>5
<1>7. /\ readings' \in Seq([dev : {1}, at : 1 .. now]) /\ Len(readings') = n + 1
      /\ DOMAIN readings' = 1 .. n + 1
      /\ \A r \in 1 .. n : readings'[r] = readings[r]
      /\ readings'[n + 1] = [dev |-> 1, at |-> at]
  BY <1>1, <1>2, <1>6
<1> HIDE DEF n
<1>8. /\ \A r \in Rows : r \in Rows' /\ At(r)' = At(r)
      /\ \A r \in Rows' : r \in Rows \/ r = n + 1
  <2>1. Rows' = 1 .. n + 1 /\ \A r \in 1 .. n : r \in 1 .. n + 1
    BY <1>3, <1>7 DEF Rows
  <2>2. \A r \in Rows : At(r)' = At(r)
    BY <1>3, <1>7 DEF At
  <2>3. \A r \in 1 .. n + 1 : r \in 1 .. n \/ r = n + 1
    BY <1>3
  <2>4. QED
    BY <1>3, <2>1, <2>2, <2>3
<1>9. \A r \in Rows' : r \in Rows \/ \A q \in Rows : At(q) <= At(r)'
  <2> SUFFICES ASSUME NEW r \in Rows', r \notin Rows, NEW q \in Rows
               PROVE  At(q) <= At(r)'
    OBVIOUS
  <2>1. r = n + 1
    BY <1>8
  <2>2. At(r)' = at
    BY <1>7, <2>1 DEF At
  <2>3. QED
    BY <1>1, <1>3, <1>4, <1>5, <2>2
<1>10. J!TypeOK'
  BY <1>1, <1>2, <1>7 DEF J!TypeOK
<1>11. TableInOrder'
  <2> SUFFICES ASSUME NEW i \in 1 .. n + 1, NEW j \in 1 .. n + 1, i < j
               PROVE  readings'[i].at <= readings'[j].at
    BY <1>7 DEF TableInOrder, J!InOrder
  <2>1. i \in Rows /\ readings'[i].at = At(i)
    BY <1>3, <1>7 DEF At
  <2>2. CASE j \in Rows
    <3>1. readings'[j].at = At(j)
      BY <1>3, <1>7, <2>2 DEF At
    <3>2. At(i) <= At(j)
      BY <2>1, <2>2 DEF TableInOrder, J!InOrder, At, Rows
    <3>3. QED
      BY <2>1, <3>1, <3>2
  <2>3. CASE j \notin Rows
    <3>1. readings'[j].at = at
      <4>1. j = n + 1
        BY <1>3, <2>3
      <4>2. QED
        BY <1>7, <4>1
    <3>2. At(i) <= J!Newest /\ J!Newest <= at
      <4>1. J!Newest <= at
        BY <1>1, <1>2, <1>4
      <4>2. QED
        BY <1>4, <2>1, <4>1
    <3>3. At(i) \in Int /\ J!Newest \in Int /\ at \in Int
      <4>1. At(i) \in Int
        BY <1>2, <1>3, <2>1
      <4>2. J!Newest \in Int /\ at \in Int
        BY <1>2, <1>4, <1>5
      <4>3. QED
        BY <4>1, <4>2
    <3>4. At(i) <= at
      BY <3>2, <3>3
    <3>5. QED
      BY <2>1, <3>1, <3>4
  <2>4. QED
    BY <2>2, <2>3
<1>12. QED
  BY <1>7, <1>8, <1>9, <1>10, <1>11 DEF n

\* What was in order stays so, and what reached up to one of its own rows
\* still does.
LEMMA InsertKeeps ==
  ASSUME TypeOK, TableInOrder, Insert, NEW s \in Seq(Rows)
  PROVE  /\ s \in Seq(Rows') /\ \A i \in DOMAIN s : At(s[i])' = At(s[i])
         /\ Ascending(s) => Ascending(s)'
         /\ Descending(s) => Descending(s)'
         /\ \A i \in DOMAIN s, lo \in Int :
              Covers(s, lo, At(s[i])) => Covers(s, lo, At(s[i]))'
<1>1. /\ \A r \in Rows : r \in Rows' /\ At(r)' = At(r)
      /\ \A r \in Rows' : r \in Rows \/ \A q \in Rows : At(q) <= At(r)'
      /\ \A r \in Rows' : At(r)' \in Int
  <2>1. \A r \in Rows' : At(r)' \in Int
    <3> SUFFICES ASSUME NEW r \in DOMAIN readings'
                 PROVE  readings'[r].at \in Int
      BY DEF Rows, At
    <3>1. readings' \in Seq([dev : {1}, at : 1 .. now'])
      BY InsertFacts DEF J!TypeOK
    <3>2. r \in 1 .. Len(readings')
      BY <3>1
    <3>3. readings'[r] \in [dev : {1}, at : 1 .. now']
      BY <3>1, <3>2, ElementOfSeq
    <3>4. QED
      BY <3>3
  <2>2. QED
    BY <2>1, InsertFacts
<1>2. \A i \in DOMAIN s : s[i] \in Rows /\ At(s[i]) \in Int
  BY SecondsOf
<1>3. s \in Seq(Rows')
  BY <1>1
<1>4. \A i \in DOMAIN s : At(s[i])' = At(s[i])
  BY <1>1, <1>2 DEF At
<1>5. Ascending(s) => Ascending(s)'
  BY <1>4 DEF Ascending
<1>6. Descending(s) => Descending(s)'
  BY <1>4 DEF Descending
<1>7. ASSUME NEW i \in DOMAIN s, NEW lo \in Int, Covers(s, lo, At(s[i]))
      PROVE  Covers(s, lo, At(s[i]))'
  <2> SUFFICES ASSUME NEW r \in Rows', lo <= At(r)', At(r)' <= At(s[i])
               PROVE  \E j \in DOMAIN s : At(s[j]) = At(r)'
    BY <1>4 DEF Covers
  <2>1. CASE r \in Rows
    BY <1>1, <1>7, <2>1 DEF Covers
  <2>2. CASE r \notin Rows
    <3>1. At(s[i]) <= At(r)'
      BY <1>1, <1>2, <2>2
    <3>2. QED
      BY <1>1, <1>2, <3>1
  <2>3. QED
    BY <2>1, <2>2
<1>8. QED
  BY <1>3, <1>4, <1>5, <1>6, <1>7

LEMMA InsertOk ==
  ASSUME WindowInv, Insert
  PROVE  WindowInv'
<1>1. /\ TypeOK /\ TableInOrder /\ CallsOk /\ WindowInOrder /\ NoSecondSkipped
      /\ UNCHANGED <<app, calls>>
  BY DEF WindowInv, Insert
<1>2. /\ now' = now /\ polling' = polling /\ lastTs' = lastTs /\ window' = window
      /\ shown' = shown /\ timer' = timer /\ clean' = clean /\ calls' = calls
  BY <1>1 DEF Insert, J!Store, app
<1>3. window \in Seq(Rows) /\ shown \in Seq(Rows)
  BY <1>1 DEF TypeOK
<1>4. TypeOK'
  <2>1. J!TypeOK' /\ Len(readings') <= MaxRows
    <3>1. Len(readings) \in Nat /\ Len(readings) < MaxRows /\ Len(readings') = Len(readings) + 1
      BY <1>1, RowFacts, InsertFacts DEF Insert
    <3>2. QED
      BY <1>1, <3>1, InsertFacts, WindowAssumption
  <2>2. window' \in Seq(Rows') /\ shown' \in Seq(Rows')
    BY <1>1, <1>2, <1>3, InsertKeeps
  <2>3. QED
    BY <1>1, <1>2, <2>1, <2>2 DEF TypeOK
<1>5. CallsOk'
  <2> SUFFICES ASSUME NEW k \in DOMAIN calls
               PROVE  CallOk(calls[k])'
    BY <1>2 DEF CallsOk
  <2> DEFINE s == calls[k].items
  <2>1. CallOk(calls[k])
    BY <1>1 DEF CallsOk
  <2>2. ASSUME calls[k].answered
        PROVE  AnswerOk(calls[k])'
    <3>1. AnswerOk(calls[k]) /\ s \in Seq(Rows)
      BY <2>1, <2>2 DEF CallOk, AnswerOk
    <3>2. /\ s \in Seq(Rows') /\ \A i \in DOMAIN s : At(s[i])' = At(s[i])
          /\ Ascending(s) => Ascending(s)'
          /\ Descending(s) => Descending(s)'
          /\ \A i \in DOMAIN s, lo \in Int : Covers(s, lo, At(s[i])) => Covers(s, lo, At(s[i]))'
      BY <1>1, <1>2, <3>1, InsertKeeps
    <3>3. s # <<>> => 1 \in DOMAIN s /\ Len(s) \in DOMAIN s
      BY <3>1
    <3>4. \A i \in DOMAIN s : At(s[i]) \in Int
      BY <1>1, <3>1, SecondsOf
    <3>5. calls[k].since + 1 \in Int
      BY <1>1, CallFacts
    <3>6. QED
      BY <1>2, <3>1, <3>2, <3>3, <3>4, <3>5 DEF AnswerOk, Last
  <2>3. QED
    BY <1>2, <2>1, <2>2 DEF CallOk
<1>6. WindowInOrder'
  BY <1>1, <1>2, <1>3, InsertKeeps DEF WindowInOrder, Last
<1>7. NoSecondSkipped'
  <2> SUFFICES ASSUME clean, window # <<>>
               PROVE  Covers(window, At(window[1]), lastTs)'
    BY <1>2 DEF NoSecondSkipped, Covers
  <2>1. Covers(window, At(window[1]), lastTs)
    BY <1>1 DEF NoSecondSkipped, Covers
  <2>2. 1 \in DOMAIN window /\ Len(window) \in DOMAIN window /\ lastTs = At(window[Len(window)])
    BY <1>1, <1>3 DEF WindowInOrder, Last
  <2>3. At(window[1]) \in Int /\ At(window[1])' = At(window[1])
    BY <1>1, <1>2, <1>3, <2>2, SecondsOf, InsertKeeps
  <2>4. Covers(window, At(window[1]), At(window[Len(window)]))
    BY <2>1, <2>2
  <2>5. \A s \in Seq(Rows) : \A i \in DOMAIN s, lo \in Int :
          Covers(s, lo, At(s[i])) => Covers(s, lo, At(s[i]))'
    BY <1>1, InsertKeeps
  <2>6. \A r \in Rows' : At(window[1]) <= At(r)' /\ At(r)' <= lastTs
          => \E i \in DOMAIN window : At(window[i])' = At(r)'
    BY <1>1, <1>2, <1>3, <2>2, <2>3, <2>4, <2>5, InsertKeeps DEF Covers
  <2>7. QED
    BY <1>2, <2>3, <2>6 DEF Covers
<1>8. QED
  BY <1>1, <1>4, <1>5, <1>6, <1>7, InsertFacts DEF WindowInv

\* A call that waits is not touched by a step that leaves the table alone,
\* and while clean lasts lastTs does not fall.
LEMMA CallStays ==
  ASSUME readings' = readings, lastTs \in Nat, lastTs' \in Nat,
         clean' => clean /\ lastTs <= lastTs',
         NEW j \in DOMAIN calls, CallOk(calls[j]), calls[j].since \in Nat,
         NEW i \in DOMAIN calls', calls'[i] = calls[j]
  PROVE  CallOk(calls[i])'
<1>1. calls[j].answered => AnswerOk(calls[j])
  BY DEF CallOk
<1>2. calls[j].answered => AnswerOk(calls[i])'
  BY <1>1 DEF AnswerOk, Ascending, Descending, Covers, Last, At, Rows
<1>3. clean' /\ ~calls[j].old /\ calls[j].kind = "since" => calls[j].since <= lastTs'
  BY DEF CallOk
<1>4. QED
  BY <1>2, <1>3 DEF CallOk

\* The part of the invariant that looks at the table and the window only.
LEMMA ViewStays ==
  ASSUME TableInOrder, WindowInOrder, NoSecondSkipped,
         UNCHANGED <<readings, window, lastTs, clean>>
  PROVE  TableInOrder' /\ WindowInOrder' /\ NoSecondSkipped'
<1>1. TableInOrder'
  BY DEF TableInOrder, J!InOrder
<1>2. WindowInOrder'
  BY DEF WindowInOrder, Last, At
<1>3. NoSecondSkipped'
  BY DEF NoSecondSkipped, At, Rows
<1>4. QED
  BY <1>1, <1>2, <1>3

LEMMA SecondOk ==
  ASSUME WindowInv, Second
  PROVE  WindowInv'
<1>1. /\ TypeOK /\ TableInOrder /\ CallsOk /\ WindowInOrder /\ NoSecondSkipped
      /\ now < MaxNow /\ now' = now + 1 /\ readings' = readings
      /\ polling' = polling /\ lastTs' = lastTs /\ window' = window
      /\ shown' = shown /\ timer' = timer /\ clean' = clean /\ calls' = calls
  BY DEF WindowInv, Second, J!Second, app
<1>2. now \in Nat \ {0} /\ lastTs \in Nat /\ lastTs <= now
  BY <1>1, RowFacts DEF TypeOK
<1>3. TypeOK'
  <2>1. readings' \in Seq([dev : {1}, at : 1 .. now'])
    <3>1. readings \in Seq([dev : {1}, at : 1 .. now])
      BY <1>1 DEF TypeOK, J!TypeOK
    <3>2. [dev : {1}, at : 1 .. now] \subseteq [dev : {1}, at : 1 .. now + 1]
      BY <1>2
    <3>3. readings \in Seq([dev : {1}, at : 1 .. now + 1])
      BY <3>1, <3>2, SeqWider
    <3>4. QED
      BY <1>1, <3>3
  <2>2. J!TypeOK'
    BY <1>1, <1>2, <2>1 DEF TypeOK, J!TypeOK
  <2>3. now' \in 1 .. MaxNow /\ lastTs' \in 0 .. now'
    BY <1>1, <1>2, WindowAssumption
  <2>4. Rows' = Rows
    BY <1>1 DEF Rows
  <2>5. QED
    BY <1>1, <2>2, <2>3, <2>4 DEF TypeOK
<1>4. CallsOk'
  BY <1>1, <1>2, CallStays, CallFacts DEF CallsOk
<1>5. QED
  BY <1>1, <1>3, <1>4, ViewStays DEF WindowInv

\* The part of the type invariant a step of the app can disturb.
LEMMA AppTypes ==
  ASSUME TypeOK, UNCHANGED server,
         polling' \in BOOLEAN, timer' \in BOOLEAN, clean' \in BOOLEAN, lastTs' \in 0 .. now,
         window' \in Seq(Rows), Len(window') <= WINDOW_SIZE,
         shown' \in Seq(Rows), Len(shown') <= WINDOW_SIZE,
         calls' \in Seq(Call), Len(calls') <= MaxCalls
  PROVE  TypeOK'
<1>1. now' = now /\ readings' = readings /\ Rows' = Rows
  BY DEF server, Rows
<1>2. J!TypeOK'
  BY <1>1 DEF TypeOK, J!TypeOK
<1>3. QED
  BY <1>1, <1>2 DEF TypeOK

LEMMA OldCall ==
  ASSUME NEW c \in Call, NEW d, d = [c EXCEPT !.old = TRUE]
  PROVE  /\ d \in Call /\ d.old = TRUE /\ d.answered = c.answered /\ d.items = c.items
         /\ d.kind = c.kind /\ d.since = c.since
  BY DEF Call

LEMMA StartPollingOk ==
  ASSUME WindowInv, StartPolling
  PROVE  WindowInv'
<1>1. /\ TypeOK /\ TableInOrder /\ CallsOk /\ WindowInOrder /\ NoSecondSkipped
      /\ UNCHANGED server /\ readings' = readings /\ shown' = shown
      /\ polling' = TRUE /\ timer' = TRUE /\ clean' = TRUE /\ lastTs' = 0 /\ window' = <<>>
      /\ calls' = [k \in DOMAIN calls |-> [calls[k] EXCEPT !.old = TRUE]]
  BY DEF WindowInv, StartPolling, server
<1>2. calls \in Seq(Call) /\ Len(calls) <= MaxCalls /\ DOMAIN calls = 1 .. Len(calls)
  BY <1>1 DEF TypeOK
<1>3. \A k \in DOMAIN calls : calls'[k] = [calls[k] EXCEPT !.old = TRUE]
  BY <1>1
<1>4. \A k \in DOMAIN calls : calls'[k] \in Call /\ calls[k] \in Call
  <2> SUFFICES ASSUME NEW k \in DOMAIN calls
               PROVE  calls'[k] \in Call /\ calls[k] \in Call
    OBVIOUS
  <2>1. calls[k] \in Call
    BY <1>2
  <2>2. QED
    BY <1>3, <2>1, OldCall
<1>5. calls' \in Seq(Call) /\ Len(calls') = Len(calls) /\ DOMAIN calls' = DOMAIN calls
  BY <1>1, <1>2, <1>4
<1>6. TypeOK'
  <2>1. <<>> \in Seq(Rows) /\ Len(<<>>) <= WINDOW_SIZE /\ 0 \in 0 .. now
    BY <1>1, RowFacts, WindowAssumption
  <2>2. QED
    BY <1>1, <1>2, <1>5, <2>1, AppTypes DEF TypeOK
<1>7. CallsOk'
  <2> SUFFICES ASSUME NEW k \in DOMAIN calls
               PROVE  CallOk(calls[k])'
    BY <1>5 DEF CallsOk
  <2>1. /\ calls'[k].old = TRUE /\ calls'[k].answered = calls[k].answered
        /\ calls'[k].items = calls[k].items /\ calls'[k].kind = calls[k].kind
        /\ calls'[k].since = calls[k].since
    BY <1>3, <1>4, OldCall
  <2>2. calls[k].answered => AnswerOk(calls[k])
    BY <1>1 DEF CallsOk, CallOk
  <2>3. ASSUME calls[k].answered
        PROVE  AnswerOk(calls[k])'
    <3> DEFINE s == calls[k].items
    <3>1. AnswerOk(calls[k]) /\ s' = s /\ Rows' = Rows
      BY <1>1, <2>1, <2>2, <2>3 DEF Rows
    <3>2. Descending(s) => Descending(s)'
      BY <1>1, <3>1 DEF Descending, At
    <3>3. Ascending(s) => Ascending(s)'
      BY <1>1, <3>1 DEF Ascending, At
    <3>4. ASSUME Covers(s, At(Last(s)), At(s[1]))
          PROVE  Covers(s, At(Last(s)), At(s[1]))'
      BY <1>1, <3>1, <3>4 DEF Covers, Last, At
    <3>5. ASSUME Covers(s, calls[k].since + 1, At(Last(s)))
          PROVE  Covers(s, calls[k].since + 1, At(Last(s)))'
      BY <1>1, <2>1, <3>1, <3>5 DEF Covers, Last, At
    <3>6. QED
      BY <2>1, <3>1, <3>2, <3>3, <3>4, <3>5 DEF AnswerOk
  <2>4. QED
    BY <2>1, <2>3 DEF CallOk
<1>8. WindowInOrder' /\ NoSecondSkipped'
  BY <1>1 DEF WindowInOrder, NoSecondSkipped
<1>9. TableInOrder'
  BY <1>1 DEF TableInOrder, J!InOrder
<1>10. QED
  BY <1>6, <1>7, <1>8, <1>9 DEF WindowInv

LEMMA StopPollingOk ==
  ASSUME WindowInv, StopPolling
  PROVE  WindowInv'
<1>1. /\ TypeOK /\ TableInOrder /\ CallsOk /\ WindowInOrder /\ NoSecondSkipped
      /\ UNCHANGED server /\ readings' = readings /\ UNCHANGED <<lastTs, window, shown, clean, calls>>
      /\ polling' = FALSE /\ timer' = FALSE
  BY DEF WindowInv, StopPolling, server
<1>2. TypeOK'
  BY <1>1, AppTypes DEF TypeOK
<1>3. CallsOk'
  BY <1>1, RowFacts, CallStays, CallFacts DEF CallsOk
<1>4. QED
  BY <1>1, <1>2, <1>3, ViewStays DEF WindowInv

LEMMA PollOk ==
  ASSUME WindowInv, Poll
  PROVE  WindowInv'
<1> DEFINE c == [kind |-> IF lastTs = 0 THEN "recent" ELSE "since", since |-> lastTs,
                 old |-> FALSE, answered |-> FALSE, items |-> <<>>]
<1>1. /\ TypeOK /\ TableInOrder /\ CallsOk /\ WindowInOrder /\ NoSecondSkipped
      /\ Len(calls) < MaxCalls /\ calls' = Append(calls, c)
      /\ UNCHANGED server /\ readings' = readings
      /\ UNCHANGED <<polling, lastTs, window, shown, timer, clean>>
  BY DEF WindowInv, Poll, server, app
<1>2. calls \in Seq(Call) /\ Len(calls) \in Nat
  BY <1>1 DEF TypeOK
<1>3. lastTs \in Nat /\ lastTs \in 0 .. MaxNow
  BY <1>1, RowFacts, WindowAssumption DEF TypeOK
<1>4. c \in Call
  BY <1>3 DEF Call
<1>5. c.answered = FALSE /\ c.since = lastTs
  OBVIOUS
<1> HIDE DEF c
<1>6. /\ calls' \in Seq(Call) /\ Len(calls') = Len(calls) + 1
      /\ DOMAIN calls' = 1 .. Len(calls) + 1 /\ calls'[Len(calls) + 1] = c
      /\ \A k \in 1 .. Len(calls) : calls'[k] = calls[k]
  BY <1>1, <1>2, <1>4
<1>7. TypeOK'
  <2>1. Len(calls') <= MaxCalls
    BY <1>1, <1>2, <1>6, WindowAssumption
  <2>2. QED
    BY <1>1, <1>6, <2>1, AppTypes DEF TypeOK
<1>8. CallsOk'
  <2> SUFFICES ASSUME NEW k \in 1 .. Len(calls) + 1
               PROVE  CallOk(calls[k])'
    BY <1>6 DEF CallsOk
  <2>1. CASE k \in 1 .. Len(calls)
    <3>1. k \in DOMAIN calls /\ k \in DOMAIN calls' /\ calls'[k] = calls[k]
      BY <1>2, <1>6, <2>1
    <3>2. CallOk(calls[k]) /\ calls[k].since \in Nat
      BY <1>1, <3>1, CallFacts DEF CallsOk
    <3>3. QED
      BY <1>1, <1>3, <3>1, <3>2, CallStays
  <2>2. CASE k = Len(calls) + 1
    <3>1. calls'[k] = c
      BY <1>6, <2>2
    <3>2. QED
      BY <1>1, <1>3, <1>5, <3>1 DEF CallOk
  <2>3. QED
    BY <1>2, <2>1, <2>2
<1>9. QED
  BY <1>1, <1>7, <1>8, ViewStays DEF WindowInv

LEMMA AnswerStepOk ==
  ASSUME WindowInv, NEW k \in 1 .. MaxCalls, Answer(k)
  PROVE  WindowInv'
<1>1. /\ TypeOK /\ TableInOrder /\ CallsOk /\ WindowInOrder /\ NoSecondSkipped
      /\ k \in DOMAIN calls /\ UNCHANGED server /\ readings' = readings
      /\ UNCHANGED <<polling, lastTs, window, shown, timer, clean>>
  BY DEF WindowInv, Answer, server, app
<1>2. /\ calls \in Seq(Call) /\ calls[k] \in Call
      /\ calls[k].since \in Nat /\ calls[k].kind \in {"recent", "since"}
  BY <1>1, CallFacts DEF TypeOK
<1>3. PICK items \in (IF calls[k].kind = "recent" THEN NewestFirst(Rows, WINDOW_SIZE)
                       ELSE Increment(calls[k].since)) :
        calls' = [calls EXCEPT ![k].answered = TRUE, ![k].items = items]
  BY DEF Answer
<1>4. /\ items \in Seq(Rows) /\ Len(items) <= WINDOW_SIZE
      /\ calls[k].kind = "recent" =>
           /\ Descending(items)
           /\ items # <<>> => Covers(items, At(Last(items)), At(items[1]))
      /\ calls[k].kind = "since" =>
           /\ Ascending(items)
           /\ items # <<>> => Covers(items, calls[k].since + 1, At(Last(items)))
  <2>1. CASE calls[k].kind = "recent"
    BY <1>1, <1>3, <2>1, RecentOk
  <2>2. CASE calls[k].kind = "since"
    BY <1>1, <1>2, <1>3, <2>2, IncrementOk
  <2>3. QED
    BY <1>2, <2>1, <2>2
<1>5. items \in Seq(Ids)
  BY <1>1, <1>4, RowFacts, SeqWider
<1> DEFINE c == [calls[k] EXCEPT !.answered = TRUE, !.items = items]
<1>6. /\ c \in Call /\ c.answered = TRUE /\ c.items = items
      /\ c.kind = calls[k].kind /\ c.since = calls[k].since /\ c.old = calls[k].old
  BY <1>2, <1>5 DEF Call
<1>7. calls' = [calls EXCEPT ![k] = c]
  BY <1>3
<1> HIDE DEF c
<1>8. /\ calls' \in Seq(Call) /\ Len(calls') = Len(calls) /\ DOMAIN calls' = DOMAIN calls
      /\ calls'[k] = c /\ \A j \in DOMAIN calls : j # k => calls'[j] = calls[j]
  BY <1>1, <1>2, <1>6, <1>7
<1>9. TypeOK'
  BY <1>1, <1>8, AppTypes DEF TypeOK
<1>10. CallsOk'
  <2> SUFFICES ASSUME NEW j \in DOMAIN calls
               PROVE  CallOk(calls[j])'
    BY <1>8 DEF CallsOk
  <2>1. CASE j = k
    <3>1. /\ calls'[j].answered = TRUE /\ calls'[j].items = items
          /\ calls'[j].kind = calls[k].kind /\ calls'[j].since = calls[k].since
          /\ calls'[j].old = calls[k].old
      BY <1>6, <1>8, <2>1
    <3>2. Rows' = Rows
      BY <1>1 DEF Rows
    <3>3. Descending(items) => Descending(items)'
      BY <1>1 DEF Descending, At
    <3>4. Ascending(items) => Ascending(items)'
      BY <1>1 DEF Ascending, At
    <3>5. ASSUME Covers(items, At(Last(items)), At(items[1]))
          PROVE  Covers(items, At(Last(items)), At(items[1]))'
      BY <1>1, <3>2, <3>5 DEF Covers, Last, At
    <3>6. ASSUME Covers(items, calls[k].since + 1, At(Last(items)))
          PROVE  Covers(items, calls[j].since + 1, At(Last(items)))'
      BY <1>1, <3>1, <3>2, <3>6 DEF Covers, Last, At
    <3>7. AnswerOk(calls[j])'
      BY <1>4, <3>1, <3>2, <3>3, <3>4, <3>5, <3>6 DEF AnswerOk
    <3>8. clean' /\ ~calls'[j].old /\ calls'[j].kind = "since" => calls'[j].since <= lastTs'
      BY <1>1, <3>1 DEF CallsOk, CallOk
    <3>9. QED
      BY <3>7, <3>8 DEF CallOk
  <2>2. CASE j # k
    <3>1. j \in DOMAIN calls' /\ calls'[j] = calls[j]
      BY <1>8, <2>2
    <3>2. CallOk(calls[j]) /\ calls[j].since \in Nat
      BY <1>1, CallFacts DEF CallsOk
    <3>3. lastTs \in Nat
      BY <1>1, RowFacts
    <3>4. QED
      BY <1>1, <3>1, <3>2, <3>3, CallStays
  <2>3. QED
    BY <2>1, <2>2
<1>11. QED
  BY <1>1, <1>9, <1>10, ViewStays DEF WindowInv

\* The calls that are left when one is delivered or lost.
LEMMA LeftCalls ==
  ASSUME TypeOK, CallsOk, NEW k \in DOMAIN calls, calls' = Without(k),
         readings' = readings, lastTs' \in Nat, clean' => clean /\ lastTs <= lastTs'
  PROVE  calls' \in Seq(Call) /\ Len(calls') <= MaxCalls /\ CallsOk'
<1>1. calls \in Seq(Call) /\ Len(calls) <= MaxCalls /\ Len(calls) \in Nat /\ lastTs \in Nat
  BY RowFacts DEF TypeOK
<1>2. /\ calls' \in Seq(Call) /\ Len(calls') = Len(calls) - 1
      /\ \A i \in DOMAIN calls' : \E j \in DOMAIN calls : calls'[i] = calls[j]
  BY <1>1, WithoutFacts
<1>3. Len(calls') <= MaxCalls
  BY <1>1, <1>2, WindowAssumption
<1>4. CallsOk'
  <2> SUFFICES ASSUME NEW i \in DOMAIN calls'
               PROVE  CallOk(calls[i])'
    BY DEF CallsOk
  <2>1. PICK j \in DOMAIN calls : calls'[i] = calls[j]
    BY <1>2
  <2>2. CallOk(calls[j]) /\ calls[j].since \in Nat
    BY CallFacts DEF CallsOk
  <2>3. QED
    BY <1>1, <2>1, <2>2, CallStays
<1>5. QED
  BY <1>2, <1>3, <1>4

LEMMA LoseOk ==
  ASSUME WindowInv, NEW k \in 1 .. MaxCalls, Lose(k)
  PROVE  WindowInv'
<1>1. /\ TypeOK /\ TableInOrder /\ CallsOk /\ WindowInOrder /\ NoSecondSkipped
      /\ k \in DOMAIN calls /\ calls' = Without(k) /\ UNCHANGED server /\ readings' = readings
      /\ UNCHANGED <<polling, lastTs, window, shown, timer, clean>>
  BY DEF WindowInv, Lose, server, app
<1>2. lastTs' \in Nat /\ (clean' => clean /\ lastTs <= lastTs')
  BY <1>1, RowFacts
<1>3. calls' \in Seq(Call) /\ Len(calls') <= MaxCalls /\ CallsOk'
  BY <1>1, <1>2, LeftCalls
<1>4. TypeOK'
  BY <1>1, <1>3, AppTypes DEF TypeOK
<1>5. QED
  BY <1>1, <1>3, <1>4, ViewStays DEF WindowInv

\* The view after a delivery that changed it, from what the delivery made of
\* the lists.
LEMMA ViewChanged ==
  ASSUME TypeOK, TableInOrder, readings' = readings,
         window' \in Seq(Rows), window' # <<>>, Ascending(window'), lastTs' = At(Last(window')),
         clean' => Covers(window', At(window'[1]), lastTs')
  PROVE  TableInOrder' /\ WindowInOrder' /\ NoSecondSkipped' /\ lastTs' \in 0 .. now
<1>1. \A r \in Rows : At(r)' = At(r)
  BY DEF At
<1>2. Rows' = Rows
  BY DEF Rows
<1>3. \A i \in DOMAIN window' : window'[i] \in Rows /\ At(window'[i]) \in 1 .. now
  BY SecondsOf
<1>4. Len(window') \in DOMAIN window' /\ 1 \in DOMAIN window'
  OBVIOUS
<1>5. lastTs' \in 1 .. now /\ lastTs' = At(Last(window))'
  BY <1>3, <1>4 DEF Last, At
<1>6. TableInOrder'
  BY DEF TableInOrder, J!InOrder
<1>7. WindowInOrder'
  BY <1>5 DEF WindowInOrder, Ascending, At
<1>8. NoSecondSkipped'
  BY <1>2 DEF NoSecondSkipped, Covers, At
<1>9. lastTs' \in 0 .. now
  BY <1>5
<1>10. QED
  BY <1>6, <1>7, <1>8, <1>9

\* The delivery of an answer that is not empty.
LEMMA DeliveredOk ==
  ASSUME WindowInv, NEW k \in 1 .. MaxCalls, Deliver(k), calls[k].items # <<>>
  PROVE  /\ TableInOrder' /\ WindowInOrder' /\ NoSecondSkipped' /\ lastTs' \in 0 .. now
         /\ window' \in Seq(Rows) /\ Len(window') <= WINDOW_SIZE
         /\ shown' \in Seq(Rows) /\ Len(shown') <= WINDOW_SIZE
         /\ clean' \in BOOLEAN
         /\ clean' => clean /\ lastTs <= lastTs'
<1> DEFINE c == calls[k]
           s == calls[k].items
<1>1. /\ TypeOK /\ TableInOrder /\ CallsOk /\ WindowInOrder /\ NoSecondSkipped
      /\ k \in DOMAIN calls /\ c.answered /\ readings' = readings
      /\ s # <<>>
      /\ (IF c.kind = "recent" THEN OnInitial(s) ELSE OnDelta(s))
      /\ clean' = (clean /\ ~c.old /\ (c.kind = "recent" => lastTs = 0))
  BY DEF WindowInv, Deliver, server
<1>2. lastTs \in Nat /\ clean \in BOOLEAN /\ window \in Seq(Rows) /\ Len(window) <= WINDOW_SIZE
      /\ shown \in Seq(Rows) /\ Len(shown) <= WINDOW_SIZE
  BY <1>1, RowFacts DEF TypeOK
<1>3. c.kind \in {"recent", "since"} /\ c.since \in Nat
  BY <1>1, CallFacts
<1>4. CallOk(c) /\ AnswerOk(c)
  BY <1>1 DEF CallsOk, CallOk
<1>5. s \in Seq(Rows) /\ Len(s) <= WINDOW_SIZE
  BY <1>4 DEF AnswerOk
<1>6. clean' \in BOOLEAN
  BY <1>1
<1>7. clean' => clean /\ ~c.old /\ (c.kind = "recent" => lastTs = 0)
  BY <1>1
<1>8. CASE c.kind = "recent"
  <2>1. /\ window' = [i \in DOMAIN s |-> s[Len(s) + 1 - i]]
        /\ lastTs' = At(Last(window')) /\ shown' = window'
    BY <1>1, <1>8 DEF OnInitial
  <2>2. Descending(s) /\ Covers(s, At(Last(s)), At(s[1]))
    BY <1>1, <1>4, <1>8 DEF AnswerOk
  <2>3. /\ window' \in Seq(Rows) /\ Len(window') = Len(s) /\ window' # <<>>
        /\ Ascending(window') /\ Covers(window', At(window'[1]), At(Last(window')))
    BY <1>1, <1>5, <2>1, <2>2, TurnedOk
  <2>4. TableInOrder' /\ WindowInOrder' /\ NoSecondSkipped' /\ lastTs' \in 0 .. now
    BY <1>1, <2>1, <2>3, ViewChanged
  <2>5. clean' => clean /\ lastTs <= lastTs'
    BY <1>1, <1>7, <1>8, <2>4, RowFacts
  <2>6. QED
    BY <1>5, <1>6, <2>1, <2>3, <2>4, <2>5
<1>9. CASE c.kind = "since"
  <2>1. PICK new \in NewSeconds(s) :
          /\ window' = Trim(window \o new)
          /\ lastTs' = (IF new = <<>> THEN lastTs ELSE At(Last(new)))
          /\ shown' = (IF new = <<>> THEN shown ELSE window')
    BY <1>1, <1>9 DEF OnDelta
  <2>2. Ascending(s) /\ Covers(s, c.since + 1, At(Last(s)))
    BY <1>1, <1>4, <1>9 DEF AnswerOk
  <2>3. CASE new = <<>>
    <3>1. window \o new = window
      BY <1>2, <2>3
    <3>2. Ascending(window)
      BY <1>1 DEF WindowInOrder, Ascending
    <3>3. window' = window /\ lastTs' = lastTs /\ shown' = shown
      BY <1>1, <1>2, <2>1, <2>3, <3>1, <3>2, TrimOk
    <3>4. TableInOrder'
      BY <1>1 DEF TableInOrder, J!InOrder
    <3>5. WindowInOrder'
      BY <1>1, <3>3 DEF WindowInOrder, Last, At
    <3>6. NoSecondSkipped'
      BY <1>1, <1>7, <3>3 DEF NoSecondSkipped, At, Rows
    <3>7. lastTs' \in 0 .. now
      BY <1>1, <3>3 DEF TypeOK
    <3>8. clean' => clean /\ lastTs <= lastTs'
      BY <1>2, <1>7, <3>3
    <3>9. QED
      BY <1>2, <1>6, <3>3, <3>4, <3>5, <3>6, <3>7, <3>8
  <2>4. CASE new # <<>>
    <3> DEFINE all == window \o new
    <3>1. /\ all \in Seq(Rows) /\ all # <<>> /\ Ascending(all)
          /\ Last(all) = Last(new) /\ At(Last(new)) > lastTs
          /\ \A since \in Nat :
               /\ Covers(s, since + 1, At(Last(s))) /\ since <= lastTs
               /\ window # <<>> => Covers(window, At(window[1]), lastTs)
               => Covers(all, At(all[1]), At(Last(new)))
      BY <1>1, <1>5, <2>2, <2>4, MergedOk
    <3>2. window' = Trim(all) /\ lastTs' = At(Last(new)) /\ shown' = window'
      BY <2>1, <2>4
    <3> HIDE DEF all
    <3>3. /\ window' \in Seq(Rows) /\ Len(window') <= WINDOW_SIZE /\ Ascending(window')
          /\ window' # <<>> /\ Last(window') = Last(all)
          /\ \A hi : Covers(all, At(all[1]), hi) => Covers(window', At(window'[1]), hi)
      BY <1>1, <3>1, <3>2, TrimOk
    <3>4. lastTs' = At(Last(window'))
      BY <3>1, <3>2, <3>3
    <3>5. ASSUME clean'
          PROVE  Covers(window', At(window'[1]), lastTs')
      <4>1. c.since <= lastTs
        BY <1>4, <1>7, <1>9, <3>5 DEF CallOk
      <4>2. window # <<>> => Covers(window, At(window[1]), lastTs)
        BY <1>1, <1>7, <3>5 DEF NoSecondSkipped, Covers
      <4>3. Covers(all, At(all[1]), At(Last(new)))
        BY <1>3, <2>2, <3>1, <4>1, <4>2
      <4>4. QED
        BY <3>2, <3>3, <4>3
    <3>6. TableInOrder' /\ WindowInOrder' /\ NoSecondSkipped' /\ lastTs' \in 0 .. now
      BY <1>1, <3>3, <3>4, <3>5, ViewChanged
    <3>7. clean' => clean /\ lastTs <= lastTs'
      BY <1>1, <1>2, <1>7, <3>1, <3>2, <3>6, RowFacts
    <3>8. QED
      BY <1>6, <3>2, <3>3, <3>6, <3>7
  <2>5. QED
    BY <2>3, <2>4
<1>10. QED
  BY <1>3, <1>8, <1>9

LEMMA DeliverOk ==
  ASSUME WindowInv, NEW k \in 1 .. MaxCalls, Deliver(k)
  PROVE  WindowInv'
<1>1. /\ TypeOK /\ TableInOrder /\ CallsOk /\ WindowInOrder /\ NoSecondSkipped
      /\ k \in DOMAIN calls /\ calls' = Without(k) /\ UNCHANGED server /\ readings' = readings
      /\ polling' = polling /\ timer' = timer
  BY DEF WindowInv, Deliver, server
<1>2. lastTs \in Nat /\ now \in Nat
  BY <1>1, RowFacts
<1>3. CASE calls[k].items = <<>>
  <2>1. UNCHANGED <<window, lastTs, shown, clean>>
    BY <1>3 DEF Deliver
  <2>2. calls' \in Seq(Call) /\ Len(calls') <= MaxCalls /\ CallsOk'
    BY <1>1, <1>2, <2>1, LeftCalls
  <2>3. TypeOK'
    BY <1>1, <2>1, <2>2, AppTypes DEF TypeOK
  <2>4. QED
    BY <1>1, <2>1, <2>2, <2>3, ViewStays DEF WindowInv
<1>4. CASE calls[k].items # <<>>
  <2>1. /\ TableInOrder' /\ WindowInOrder' /\ NoSecondSkipped' /\ lastTs' \in 0 .. now
        /\ window' \in Seq(Rows) /\ Len(window') <= WINDOW_SIZE
        /\ shown' \in Seq(Rows) /\ Len(shown') <= WINDOW_SIZE
        /\ clean' \in BOOLEAN
        /\ clean' => clean /\ lastTs <= lastTs'
    BY <1>4, DeliveredOk
  <2>2. calls' \in Seq(Call) /\ Len(calls') <= MaxCalls /\ CallsOk'
    <3>1. lastTs' \in Nat
      BY <1>2, <2>1
    <3>2. QED
      BY <1>1, <2>1, <3>1, LeftCalls
  <2>3. TypeOK'
    BY <1>1, <2>1, <2>2, AppTypes DEF TypeOK
  <2>4. QED
    BY <2>1, <2>2, <2>3 DEF WindowInv
<1>5. QED
  BY <1>3, <1>4

(***************************************************************************)
(* The theorems.                                                           *)
(***************************************************************************)

LEMMA StutterOk ==
  ASSUME WindowInv, UNCHANGED vars
  PROVE  WindowInv'
<1>1. /\ TypeOK /\ TableInOrder /\ CallsOk /\ WindowInOrder /\ NoSecondSkipped
      /\ UNCHANGED server /\ readings' = readings
      /\ UNCHANGED <<polling, lastTs, window, shown, timer, clean, calls>>
  BY DEF WindowInv, vars, server, app
<1>2. TypeOK'
  BY <1>1, AppTypes DEF TypeOK
<1>3. CallsOk'
  BY <1>1, RowFacts, CallStays, CallFacts DEF CallsOk
<1>4. QED
  BY <1>1, <1>2, <1>3, ViewStays DEF WindowInv

LEMMA StepOk ==
  ASSUME WindowInv, [Next]_vars
  PROVE  WindowInv'
<1>1. CASE Insert
  BY <1>1, InsertOk
<1>2. CASE Second
  BY <1>2, SecondOk
<1>3. CASE StartPolling
  BY <1>3, StartPollingOk
<1>4. CASE StopPolling
  BY <1>4, StopPollingOk
<1>5. CASE Poll
  BY <1>5, PollOk
<1>6. ASSUME NEW k \in 1 .. MaxCalls, Answer(k)
      PROVE  WindowInv'
  BY <1>6, AnswerStepOk
<1>7. ASSUME NEW k \in 1 .. MaxCalls, Deliver(k)
      PROVE  WindowInv'
  BY <1>7, DeliverOk
<1>8. ASSUME NEW k \in 1 .. MaxCalls, Lose(k)
      PROVE  WindowInv'
  BY <1>8, LoseOk
<1>9. CASE UNCHANGED vars
  BY <1>9, StutterOk
<1>10. QED
  BY <1>1, <1>2, <1>3, <1>4, <1>5, <1>6, <1>7, <1>8, <1>9 DEF Next

LEMMA WindowInvariance ==
  Spec => []WindowInv
<1>1. Init => WindowInv
  BY InitOk
<1>2. WindowInv /\ [Next]_vars => WindowInv'
  BY StepOk
<1>3. QED
  BY <1>1, <1>2, PTL DEF Spec

\* The window and what is shown never outgrow WINDOW_SIZE, and hold rows of
\* the table only (SensorDetailTestViewModel.java:83-116).
THEOREM WindowTypeCorrect == Spec => []TypeOK
<1>1. WindowInv => TypeOK
  BY DEF WindowInv
<1>2. QED
  BY <1>1, WindowInvariance, PTL

\* Whatever order the answers come in, and whichever start asked for them, the
\* window is in the order of time, without a row twice, and lastTs is its end.
THEOREM WindowAlwaysInOrder == Spec => []WindowInOrder
<1>1. WindowInv => WindowInOrder
  BY DEF WindowInv
<1>2. QED
  BY <1>1, WindowInvariance, PTL

\* While only the answers of this start reach the view model, and one first
\* load, no second between the ends of the window is missing: lost, late and
\* overtaken increments leave no gap, nor does an increment that LIMIT cut.
THEOREM NoGapInWindow == Spec => []NoSecondSkipped
<1>1. WindowInv => NoSecondSkipped
  BY DEF WindowInv
<1>2. QED
  BY <1>1, WindowInvariance, PTL
=============================================================================
