----------------------------- MODULE As6221Proofs -----------------------------
(***************************************************************************)
(* Theorems about As6221: for any set of addresses, whatever NVS wants and *)
(* whatever is soldered, any limits and any cadences.                      *)
(***************************************************************************)
EXTENDS As6221, TLAPS

(***************************************************************************)
(* raw_to_x100.                                                            *)
(***************************************************************************)

\* The quotient of C is less than one off the exact one, towards zero.
LEMMA QuotientBounds ==
  ASSUME NEW n \in Int
  PROVE  /\ Quotient(n, 32) \in Int
         /\ n >= 0 => n - 31 <= 32 * Quotient(n, 32) /\ 32 * Quotient(n, 32) <= n
         /\ n < 0 => n <= 32 * Quotient(n, 32) /\ 32 * Quotient(n, 32) <= n + 31
  BY DEF Quotient

\* The conversion is within half a hundredth of a degree for all 16 bits, and
\* never gives the sentinel.
LEMMA RawToX100Close ==
  ASSUME NEW raw \in Int, -32768 <= raw, raw <= 32767
  PROVE  /\ RawToX100(raw) \in Int
         /\ -25600 <= RawToX100(raw) /\ RawToX100(raw) <= 25600
         /\ -64 <= 128 * RawToX100(raw) - 100 * raw /\ 128 * RawToX100(raw) - 100 * raw <= 64
<1> DEFINE q == RawToX100(raw)
<1>1. CASE raw >= 0
  <2>1. q = Quotient(raw * 25 + 16, 32)
    BY <1>1 DEF RawToX100
  <2>2. q \in Int /\ raw * 25 - 15 <= 32 * q /\ 32 * q <= raw * 25 + 16
    BY <1>1, <2>1, QuotientBounds
  <2>3. QED
    BY <1>1, <2>2
<1>2. CASE raw < 0
  <2>1. q = Quotient(raw * 25 - 16, 32)
    BY <1>2 DEF RawToX100
  <2>2. q \in Int /\ raw * 25 - 16 <= 32 * q /\ 32 * q <= raw * 25 + 15
    BY <1>2, <2>1, QuotientBounds
  <2>3. QED
    BY <1>2, <2>2
<1>3. QED
  BY <1>1, <1>2

(***************************************************************************)
(* The types.                                                              *)
(***************************************************************************)

Channel == [addr : Addrs \cup {0}, present : BOOLEAN, fails : 0 .. FailLimit, left : 0 .. RetryAfter]

ReadingsTyped == out \in [Ch -> Int16s] /\ tval \in [Ch -> Raws \cup {NoRaw}]

LEMMA ChannelTyped ==
  /\ NoChannel \in Channel
  /\ \A a \in Addrs : Attached(a) \in Channel /\ Attached(a).addr = a /\ Attached(a).present
  BY LimitAssumption DEF Channel, NoChannel, Attached

\* A failed read keeps the address; a channel it leaves dead gets a whole back-off.
LEMMA AfterFailureTyped ==
  ASSUME NEW s \in Channel
  PROVE  /\ AfterFailure(s) \in Channel /\ AfterFailure(s).addr = s.addr
         /\ ~AfterFailure(s).present => AfterFailure(s).left = RetryAfter
<1> DEFINE fails == IF s.fails < FailLimit THEN s.fails + 1 ELSE s.fails
<1>1. fails \in 0 .. FailLimit
  <2>1. s.fails \in 0 .. FailLimit
    BY DEF Channel
  <2>2. QED
    BY <2>1, LimitAssumption DEF Channel
<1> HIDE DEF fails
<1>2. CASE ~s.present \/ fails >= FailLimit
  <2>1. AfterFailure(s) = [s EXCEPT !.fails = fails, !.present = FALSE, !.left = RetryAfter]
    BY <1>2, Zenon DEF AfterFailure, fails
  <2>2. [s EXCEPT !.fails = fails, !.present = FALSE, !.left = RetryAfter] \in Channel
    <3>1. RetryAfter \in 0 .. RetryAfter
      BY LimitAssumption
    <3>2. QED
      BY <1>1, <3>1 DEF Channel
  <2>3. QED
    BY <2>1, <2>2 DEF Channel
<1>3. CASE ~(~s.present \/ fails >= FailLimit)
  <2>1. AfterFailure(s) = [s EXCEPT !.fails = fails]
    BY <1>3, Zenon DEF AfterFailure, fails
  <2>2. QED
    BY <1>1, <1>3, <2>1 DEF Channel
<1>4. QED
  BY <1>2, <1>3

\* What a wait does to one channel.
LEMMA WaitTyped ==
  ASSUME NEW s \in Channel, NEW d \in Nat, NEW u \in 0 .. RetryAfter
  PROVE  /\ [s EXCEPT !.left = Less(@, d)] \in Channel
         /\ AtMost(u + d, RetryAfter) \in 0 .. RetryAfter
         /\ s.left + u >= RetryAfter => Less(s.left, d) + AtMost(u + d, RetryAfter) >= RetryAfter
<1>1. Less(s.left, d) \in 0 .. RetryAfter
  BY LimitAssumption DEF Channel, Less
<1>2. [s EXCEPT !.left = Less(@, d)] \in Channel
  BY <1>1 DEF Channel
<1>3. AtMost(u + d, RetryAfter) \in 0 .. RetryAfter
  BY LimitAssumption DEF AtMost
<1>4. s.left + u >= RetryAfter => Less(s.left, d) + AtMost(u + d, RetryAfter) >= RetryAfter
  BY LimitAssumption DEF Channel, AtMost, Less
<1>5. QED
  BY <1>2, <1>3, <1>4

(***************************************************************************)
(* The inductive invariant.                                                *)
(***************************************************************************)

\* A channel that is not dead has an address, and has one only since its turn.
Assigned ==
  /\ \A c \in Ch : ch[c].present => ch[c].addr # 0
  /\ pc \in {"scan", "first", "second"} => \A c \in Ch : ch[c].addr # 0 => ch[c].present
  /\ pc = "scan" => \A c \in Ch : ch[c].addr = 0
  /\ pc = "first" => ch[2].addr = 0 /\ (next = 1 => ch[1].addr = 0)
  /\ pc = "first" => ch[1].addr \in {0, want[1]}
  /\ pc \in {"scan", "wait"} => next = 1

\* Why a channel may miss its address.
Reason(c) ==
  \/ want[c] \notin found
  \/ <<c, want[c]>> \in refused
  \/ \E d \in Ch : d < c /\ want[d] = want[c]

HadItsTurn(c) == pc \in {"second", "read", "wait"} \/ (pc = "first" /\ c = 1 /\ next = 2)

OwnOrReason ==
  \A c \in Ch : HadItsTurn(c) => (ch[c].addr = want[c] /\ ch[c].addr # 0) \/ Reason(c)

\* A dead channel has rested for what its back-off has run already.
Rested == \A c \in Ch : ~ch[c].present => ch[c].left + untouched[c] >= RetryAfter

DriverInv == TypeOK /\ OneChannelPerPart /\ Assigned /\ OwnOrReason /\ Rested

LEMMA Fresh ==
  /\ NoChannel \in Channel /\ NoChannel.addr = 0 /\ ~NoChannel.present
  /\ RetryAfter \in 0 .. RetryAfter /\ NoChannel.left + RetryAfter >= RetryAfter
  BY LimitAssumption, ChannelTyped DEF NoChannel

LEMMA Int16Bounds ==
  /\ INT16_MIN = -32768 /\ INT16_MAX = 32767 /\ INT16_MIN <= INT16_MAX
  BY DEF INT16_MIN, INT16_MAX

LEMMA Int16Ints == INT16_MIN \in Int /\ INT16_MAX \in Int
  BY DEF INT16_MIN, INT16_MAX

LEMMA Int16Typed ==
  ASSUME NEW r \in Int, INT16_MIN <= r, r <= INT16_MAX
  PROVE  r \in Int16s
  BY Int16Ints DEF Int16s

LEMMA SentinelTyped == AS6221_TEMP_INVALID_X100 \in Int16s
<1>1. AS6221_TEMP_INVALID_X100 \in Int /\ AS6221_TEMP_INVALID_X100 = INT16_MIN
  BY Int16Bounds DEF AS6221_TEMP_INVALID_X100
<1>2. QED
  BY <1>1, Int16Bounds, Int16Typed

LEMMA InitInv == Init => DriverInv
<1> SUFFICES ASSUME Init PROVE DriverInv
  OBVIOUS
<1>1. 1 \in Ch /\ 2 \in Ch
  BY DEF Ch
<1>2. \A c \in Ch : ch[c] = NoChannel /\ untouched[c] = RetryAfter
  BY DEF Init
<1>3. ch \in [Ch -> Channel] /\ untouched \in [Ch -> 0 .. RetryAfter]
  BY Fresh DEF Init
<1>4. ReadingsTyped
  BY SentinelTyped DEF Init, ReadingsTyped
<1>5. TypeOK
  BY <1>1, <1>3, <1>4 DEF Init, TypeOK, Channel, ReadingsTyped
<1>6. OneChannelPerPart /\ Assigned /\ OwnOrReason /\ Rested
  BY <1>1, <1>2, Fresh DEF Init, OneChannelPerPart, Assigned, OwnOrReason, HadItsTurn, Rested
<1>7. QED
  BY <1>5, <1>6 DEF DriverInv

LEMMA ResetInv == DriverInv /\ Reset => DriverInv'
<1> SUFFICES ASSUME DriverInv, Reset PROVE DriverInv'
  OBVIOUS
<1>1. 1 \in Ch /\ 2 \in Ch
  BY DEF Ch
<1>2. \A c \in Ch : ch'[c] = NoChannel /\ untouched'[c] = RetryAfter
  BY DEF Reset, Volatile
<1>3. ch' \in [Ch -> Channel] /\ untouched' \in [Ch -> 0 .. RetryAfter]
  BY Fresh DEF Reset, Volatile
<1>4. ReadingsTyped'
  BY SentinelTyped DEF Reset, Volatile, ReadingsTyped
<1>5. TypeOK'
  BY <1>1, <1>3, <1>4 DEF Reset, Volatile, TypeOK, Channel, DriverInv, ReadingsTyped
<1>6. OneChannelPerPart' /\ Assigned' /\ OwnOrReason' /\ Rested'
  BY <1>1, <1>2, Fresh
     DEF Reset, Volatile, OneChannelPerPart, Assigned, OwnOrReason, HadItsTurn, Rested
<1>7. QED
  BY <1>5, <1>6 DEF DriverInv

\* The invariant in two parts: what the assignment is about, and the rest.
OthersTyped ==
  /\ part \in [Addrs -> {"as6221", "other", "none"}]
  /\ onBus \subseteq Addrs
  /\ pc \in {"scan", "first", "second", "read", "wait"} /\ next \in Ch
  /\ found \subseteq Addrs /\ want \in Want
  /\ refused \subseteq Ch \X Addrs

LEMMA Parts ==
  TypeOK <=> /\ OthersTyped
             /\ ch \in [Ch -> Channel]
             /\ ReadingsTyped
             /\ untouched \in [Ch -> 0 .. RetryAfter]
  BY Zenon DEF TypeOK, OthersTyped, Channel, ReadingsTyped

LEMMA PartsNext ==
  TypeOK' <=> /\ OthersTyped'
              /\ ch' \in [Ch -> Channel]
              /\ ReadingsTyped'
              /\ untouched' \in [Ch -> 0 .. RetryAfter]
  BY Zenon DEF TypeOK, OthersTyped, Channel, ReadingsTyped

\* What the turn of a channel does to the place in the code.
LEMMA TurnPlace ==
  ASSUME NEW c \in Ch, NEW after, Turn(c, after), OthersTyped
  PROVE  /\ next' \in Ch
         /\ c = 1 => next' = 2 /\ pc' = pc
         /\ c = 2 => next' = 1 /\ pc' = after
         /\ c \in {1, 2}
  BY DEF Turn, Ch, OthersTyped

LEMMA ScanInv == DriverInv /\ Scan => DriverInv'
<1> SUFFICES ASSUME DriverInv, Scan PROVE DriverInv'
  OBVIOUS
<1>1. TypeOK'
  BY DEF DriverInv, TypeOK, Scan
<1>2. OneChannelPerPart' /\ Rested'
  BY DEF DriverInv, OneChannelPerPart, Rested, Scan
<1>3. Assigned'
  BY DEF DriverInv, Assigned, Scan, Ch
<1>4. OwnOrReason'
  BY DEF DriverInv, OwnOrReason, HadItsTurn, Reason, Scan, Assigned
<1>5. QED
  BY <1>1, <1>2, <1>3, <1>4 DEF DriverInv

LEMMA FirstPassInv ==
  ASSUME DriverInv, NEW c \in Ch, FirstPass(c)
  PROVE  DriverInv'
<1> DEFINE tries == want[c] \in Free
           ok == tries /\ Answers(want[c])
<1>1. OthersTyped /\ ch \in [Ch -> Channel] /\ OneChannelPerPart /\ Assigned
  BY Parts DEF DriverInv
<1>2. /\ pc = "first" /\ next = c /\ Turn(c, "second")
      /\ ok => ch' = [ch EXCEPT ![c] = Attached(want[c])]
      /\ ~ok => ch' = ch
      /\ refused' = (IF tries /\ ~ok THEN refused \cup {<<c, want[c]>>} ELSE refused)
      /\ UNCHANGED <<part, onBus, found, want, out, tval, untouched>>
  BY DEF FirstPass
<1>3. want[c] \in Free => want[c] \in Addrs /\ want[c] \notin Taken
  BY <1>1 DEF Free, OthersTyped
<1>4. ok => /\ want[c] \in Addrs /\ want[c] # 0
            /\ Attached(want[c]) \in Channel
            /\ Attached(want[c]).addr = want[c] /\ Attached(want[c]).present
  BY <1>3, ChannelTyped, BusAssumption
<1>5. ch' \in [Ch -> Channel]
  BY <1>1, <1>2, <1>4
<1>6. refused \subseteq refused' /\ refused' \subseteq Ch \X Addrs
  BY <1>1, <1>2, <1>3 DEF OthersTyped
<1> HIDE DEF ok
<1>7. OthersTyped'
  BY <1>1, <1>2, <1>6, TurnPlace DEF OthersTyped
<1>8. TypeOK'
  BY <1>2, <1>5, <1>7, Parts, PartsNext DEF DriverInv, ReadingsTyped
<1>9. /\ ok => ch'[c] = Attached(want[c])
      /\ \A d \in Ch : d # c \/ ~ok => ch'[d] = ch[d]
  BY <1>1, <1>2
<1>10. OneChannelPerPart'
  <2>1. ok => \A d \in Ch : ch[d].addr # want[c]
    BY <1>3 DEF Taken, ok
  <2>2. QED
    BY <1>1, <1>4, <1>9, <2>1 DEF OneChannelPerPart
<1>11. Assigned'
  BY <1>1, <1>2, <1>4, <1>9, TurnPlace DEF Assigned, Ch
<1>12. Rested'
  BY <1>2, <1>4, <1>9 DEF DriverInv, Rested
<1>13. OwnOrReason'
  <2>1. \A d \in Ch : HadItsTurn(d) => (ch'[d].addr = want'[d] /\ ch'[d].addr # 0) \/ Reason(d)'
    BY <1>1, <1>2, <1>4, <1>6, <1>9 DEF DriverInv, OwnOrReason, Reason, HadItsTurn, Ch
  <2>2. (ch'[c].addr = want'[c] /\ ch'[c].addr # 0) \/ Reason(c)'
    <3>1. CASE ok
      BY <3>1, <1>2, <1>4, <1>9
    <3>2. CASE ~ok /\ want[c] \in Free
      BY <3>2, <1>2 DEF Reason, ok
    <3>3. CASE want[c] \notin Free /\ want[c] \notin found
      BY <3>3, <1>2 DEF Reason
    <3>4. CASE want[c] \notin Free /\ want[c] \in found
      <4>1. want[c] \in Taken /\ want[c] # 0
        BY <3>4, <1>1, BusAssumption DEF Free, OthersTyped
      <4>2. PICK d \in Ch : ch[d].addr = want[c]
        BY <4>1 DEF Taken
      <4>3. c = 2 /\ d = 1 /\ ch[1].addr = want[1]
        BY <4>1, <4>2, <1>1, <1>2 DEF Assigned, Ch
      <4>4. QED
        BY <4>2, <4>3, <1>2 DEF Reason, Ch
    <3>5. QED
      BY <3>1, <3>2, <3>3, <3>4
  <2>3. \A d \in Ch : HadItsTurn(d)' => d = c \/ HadItsTurn(d)
    BY <1>1, <1>2, TurnPlace DEF HadItsTurn, Ch
  <2>4. QED
    BY <2>1, <2>2, <2>3 DEF OwnOrReason
<1>14. QED
  BY <1>8, <1>10, <1>11, <1>12, <1>13 DEF DriverInv

LEMMA SecondPassInv ==
  ASSUME DriverInv, NEW c \in Ch, SecondPass(c)
  PROVE  DriverInv'
<1>1. OthersTyped /\ ch \in [Ch -> Channel] /\ OneChannelPerPart /\ Assigned
  BY Parts DEF DriverInv
<1>2. /\ pc = "second" /\ next = c /\ Turn(c, "read")
      /\ UNCHANGED <<part, found, want, refused, onBus, out, tval, untouched>>
  BY DEF SecondPass, boot
<1>3. OthersTyped'
  BY <1>1, <1>2, TurnPlace DEF OthersTyped
<1>4. CASE UNCHANGED ch
  <2>1. TypeOK'
    BY <1>2, <1>3, <1>4, Parts, PartsNext DEF DriverInv, ReadingsTyped
  <2>2. OneChannelPerPart' /\ Rested'
    BY <1>2, <1>4 DEF DriverInv, OneChannelPerPart, Rested
  <2>3. Assigned'
    BY <1>1, <1>2, <1>4, TurnPlace DEF Assigned, Ch
  <2>4. OwnOrReason'
    BY <1>2, <1>4, TurnPlace, <1>1 DEF DriverInv, OwnOrReason, HadItsTurn, Reason
  <2>5. QED
    BY <2>1, <2>2, <2>3, <2>4 DEF DriverInv
<1>5. CASE ~ch[c].present /\ \E a \in Able : ch' = [ch EXCEPT ![c] = Attached(a)]
  <2>1. PICK a \in Able : ch' = [ch EXCEPT ![c] = Attached(a)]
    BY <1>5
  <2>2. /\ a \in Addrs /\ a # 0 /\ a \notin Taken
        /\ Attached(a) \in Channel /\ Attached(a).addr = a /\ Attached(a).present
    BY <1>1, ChannelTyped, BusAssumption DEF Able, Free, OthersTyped
  <2>3. /\ ch' \in [Ch -> Channel] /\ ch'[c] = Attached(a)
        /\ \A d \in Ch : d # c => ch'[d] = ch[d]
    BY <1>1, <2>1, <2>2
  <2>4. TypeOK'
    BY <1>2, <1>3, <2>3, Parts, PartsNext DEF DriverInv, ReadingsTyped
  <2>5. OneChannelPerPart'
    BY <1>1, <2>2, <2>3 DEF OneChannelPerPart, Taken
  <2>6. Rested'
    BY <1>2, <2>2, <2>3 DEF DriverInv, Rested
  <2>7. Assigned'
    BY <1>1, <1>2, <2>2, <2>3, TurnPlace DEF Assigned, Ch
  <2>8. OwnOrReason'
    <3>1. Reason(c)
      BY <1>1, <1>2, <1>5 DEF DriverInv, OwnOrReason, HadItsTurn, Assigned
    <3>2. QED
      BY <1>2, <2>3, <3>1 DEF DriverInv, OwnOrReason, HadItsTurn, Reason
  <2>9. QED
    BY <2>4, <2>5, <2>6, <2>7, <2>8 DEF DriverInv
<1>6. QED
  BY <1>4, <1>5 DEF SecondPass

\* Reads, waits and parts that come and go leave the assignment alone.
LEMMA Unassigned ==
  ASSUME DriverInv, pc \in {"read", "wait"}, pc' \in {"read", "wait"},
         UNCHANGED <<want, found, refused>>,
         ch' \in [Ch -> Channel], \A c \in Ch : ch'[c].addr = ch[c].addr,
         \A c \in Ch : ch'[c].present => ch[c].present \/ ch[c].addr # 0,
         pc' = "wait" => next' = 1
  PROVE  OneChannelPerPart' /\ Assigned' /\ OwnOrReason'
<1>1. OneChannelPerPart'
  BY DEF DriverInv, OneChannelPerPart
<1>2. Assigned'
  BY DEF DriverInv, Assigned
<1>3. OwnOrReason'
  BY DEF DriverInv, OwnOrReason, HadItsTurn, Reason
<1>4. QED
  BY <1>1, <1>2, <1>3

\* What every read has in common.
LEMMA ReadInv ==
  ASSUME DriverInv, NEW c \in Ch, pc = "read", next = c, Turn(c, "wait"),
         UNCHANGED <<part, found, want, refused, onBus>>,
         ch' \in [Ch -> Channel], \A d \in Ch : ch'[d].addr = ch[d].addr,
         \A d \in Ch : ch'[d].present => ch[d].present \/ ch[d].addr # 0,
         ReadingsTyped', untouched' \in [Ch -> 0 .. RetryAfter],
         Rested'
  PROVE  DriverInv'
<1>1. OthersTyped
  BY Parts DEF DriverInv
<1>2. OthersTyped' /\ pc' \in {"read", "wait"} /\ (pc' = "wait" => next' = 1)
  BY <1>1, TurnPlace DEF OthersTyped
<1>3. TypeOK'
  BY <1>2, PartsNext
<1>4. OneChannelPerPart' /\ Assigned' /\ OwnOrReason'
  BY <1>2, Unassigned
<1>5. QED
  BY <1>3, <1>4 DEF DriverInv

LEMMA NoReadingTyped ==
  ASSUME ReadingsTyped, NEW c \in Ch, NoReading(c) PROVE ReadingsTyped'
  BY SentinelTyped DEF NoReading, ReadingsTyped

LEMMA SkipReadInv == ASSUME DriverInv, NEW c \in Ch, SkipRead(c) PROVE DriverInv'
<1>1. ch \in [Ch -> Channel] /\ ReadingsTyped /\ untouched \in [Ch -> 0 .. RetryAfter]
  BY Parts DEF DriverInv
<1>2. /\ pc = "read" /\ next = c /\ Turn(c, "wait")
      /\ UNCHANGED <<part, found, want, refused, onBus, ch, untouched>>
      /\ NoReading(c)
  BY DEF SkipRead, EndRead, boot
<1>3. ReadingsTyped'
  BY <1>1, <1>2, NoReadingTyped
<1>4. Rested'
  BY <1>2 DEF DriverInv, Rested
<1>5. QED
  BY <1>1, <1>2, <1>3, <1>4, ReadInv

LEMMA ReadOkInv == ASSUME DriverInv, NEW c \in Ch, ReadOk(c) PROVE DriverInv'
<1>1. ch \in [Ch -> Channel] /\ ReadingsTyped /\ untouched \in [Ch -> 0 .. RetryAfter]
  BY Parts DEF DriverInv
<1>2. /\ pc = "read" /\ next = c /\ Turn(c, "wait") /\ ch[c].addr # 0
      /\ UNCHANGED <<part, found, want, refused, onBus>>
      /\ ch' = [ch EXCEPT ![c].present = TRUE, ![c].fails = 0]
      /\ untouched' = [untouched EXCEPT ![c] = 0]
  BY DEF ReadOk, UsesBus, EndRead, boot
<1>3. PICK raw \in Raws : /\ tval' = [tval EXCEPT ![c] = raw]
                          /\ out' = [out EXCEPT ![c] = RawToX100(raw)]
  BY DEF ReadOk
<1>4. RawToX100(raw) \in Int16s
  <2>1. raw \in Int /\ -32768 <= raw /\ raw <= 32767
    BY LimitAssumption
  <2>2. RawToX100(raw) \in Int /\ -25600 <= RawToX100(raw) /\ RawToX100(raw) <= 25600
    BY <2>1, RawToX100Close
  <2>3. INT16_MIN <= RawToX100(raw) /\ RawToX100(raw) <= INT16_MAX
    BY <2>2, Int16Bounds
  <2>4. QED
    BY <2>2, <2>3, Int16Typed
<1>5. ReadingsTyped'
  BY <1>1, <1>3, <1>4 DEF ReadingsTyped
<1>6. untouched' \in [Ch -> 0 .. RetryAfter]
  <2>1. 0 \in 0 .. RetryAfter
    BY LimitAssumption
  <2>2. QED
    BY <1>1, <1>2, <2>1
<1>7. /\ ch' \in [Ch -> Channel] /\ ch'[c].addr = ch[c].addr /\ ch'[c].present
      /\ \A d \in Ch : d # c => ch'[d] = ch[d] /\ untouched'[d] = untouched[d]
  <2>1. 0 \in 0 .. FailLimit
    BY LimitAssumption
  <2>2. QED
    BY <1>1, <1>2, <2>1 DEF Channel
<1>8. Rested'
  BY <1>7 DEF DriverInv, Rested
<1>9. QED
  BY <1>2, <1>5, <1>6, <1>7, <1>8, ReadInv

LEMMA ReadFailsInv == ASSUME DriverInv, NEW c \in Ch, ReadFails(c) PROVE DriverInv'
<1>1. ch \in [Ch -> Channel] /\ ReadingsTyped /\ untouched \in [Ch -> 0 .. RetryAfter]
  BY Parts DEF DriverInv
<1>2. /\ pc = "read" /\ next = c /\ Turn(c, "wait") /\ ch[c].addr # 0
      /\ UNCHANGED <<part, found, want, refused, onBus>>
      /\ ch' = [ch EXCEPT ![c] = AfterFailure(ch[c])]
      /\ untouched' = [untouched EXCEPT ![c] = 0]
      /\ NoReading(c)
  BY DEF ReadFails, UsesBus, EndRead, boot
<1>3. ReadingsTyped'
  BY <1>1, <1>2, NoReadingTyped
<1>4. untouched' \in [Ch -> 0 .. RetryAfter] /\ untouched'[c] = 0
  <2>1. 0 \in 0 .. RetryAfter
    BY LimitAssumption
  <2>2. QED
    BY <1>1, <1>2, <2>1
<1>5. /\ ch' \in [Ch -> Channel] /\ ch'[c].addr = ch[c].addr
      /\ ~ch'[c].present => ch'[c].left = RetryAfter
      /\ \A d \in Ch : d # c => ch'[d] = ch[d] /\ untouched'[d] = untouched[d]
  BY <1>1, <1>2, AfterFailureTyped
<1>6. Rested'
  BY <1>4, <1>5, LimitAssumption DEF DriverInv, Rested
<1>7. QED
  BY <1>2, <1>3, <1>4, <1>5, <1>6, ReadInv

LEMMA WaitInv == DriverInv /\ WaitCycle => DriverInv'
<1> SUFFICES ASSUME DriverInv, WaitCycle PROVE DriverInv'
  OBVIOUS
<1>1. /\ OthersTyped /\ ch \in [Ch -> Channel] /\ ReadingsTyped
      /\ untouched \in [Ch -> 0 .. RetryAfter]
  BY Parts DEF DriverInv
<1>2. PICK d \in Cycles :
        /\ ch' = [c \in Ch |-> [ch[c] EXCEPT !.left = Less(@, d)]]
        /\ untouched' = [c \in Ch |-> AtMost(untouched[c] + d, RetryAfter)]
  BY DEF WaitCycle
<1>3. pc = "wait" /\ pc' = "read" /\ UNCHANGED <<part, found, want, refused, onBus, next, out, tval>>
  BY DEF WaitCycle, boot
<1>4. d \in Nat
  BY LimitAssumption
<1>5. ASSUME NEW c \in Ch
      PROVE  /\ [ch[c] EXCEPT !.left = Less(@, d)] \in Channel
             /\ AtMost(untouched[c] + d, RetryAfter) \in 0 .. RetryAfter
             /\ ch[c].left + untouched[c] >= RetryAfter =>
                  Less(ch[c].left, d) + AtMost(untouched[c] + d, RetryAfter) >= RetryAfter
  <2>1. ch[c] \in Channel /\ untouched[c] \in 0 .. RetryAfter
    BY <1>1, <1>5
  <2>2. QED
    BY <1>4, <2>1, WaitTyped
<1>6. ch' \in [Ch -> Channel] /\ untouched' \in [Ch -> 0 .. RetryAfter]
  BY <1>2, <1>5
<1>7. \A c \in Ch : /\ ch'[c].addr = ch[c].addr /\ ch'[c].present = ch[c].present
                    /\ ch'[c].left = Less(ch[c].left, d)
                    /\ untouched'[c] = AtMost(untouched[c] + d, RetryAfter)
  BY <1>1, <1>2 DEF Channel
<1>8. TypeOK'
  <2>1. OthersTyped'
    BY <1>1, <1>3 DEF OthersTyped
  <2>2. QED
    BY <1>1, <1>3, <1>6, <2>1, PartsNext DEF ReadingsTyped
<1>9. OneChannelPerPart' /\ Assigned' /\ OwnOrReason'
  BY <1>3, <1>6, <1>7, Unassigned
<1>10. Rested'
  BY <1>5, <1>7 DEF DriverInv, Rested
<1>11. QED
  BY <1>8, <1>9, <1>10 DEF DriverInv

LEMMA PartsInv ==
  ASSUME DriverInv, NEW a \in Addrs, PartFails(a) \/ PartReturns(a)
  PROVE  DriverInv'
<1>1. /\ UNCHANGED <<part, found, want, refused, pc, next, ch, out, tval, untouched>>
      /\ onBus' \subseteq onBus \cup {a}
  BY DEF PartFails, PartReturns, boot
<1>2. TypeOK'
  BY <1>1 DEF DriverInv, TypeOK
<1>3. QED
  BY <1>1, <1>2
     DEF DriverInv, OneChannelPerPart, Assigned, OwnOrReason, Reason, HadItsTurn, Rested

LEMMA StepInv == DriverInv /\ [Next]_vars => DriverInv'
<1> SUFFICES ASSUME DriverInv, [Next]_vars PROVE DriverInv'
  OBVIOUS
<1>1. CASE Driver
  <2>1. CASE Scan BY <2>1, ScanInv
  <2>2. ASSUME NEW c \in Ch, FirstPass(c) PROVE DriverInv' BY <2>2, FirstPassInv
  <2>3. ASSUME NEW c \in Ch, SecondPass(c) PROVE DriverInv' BY <2>3, SecondPassInv
  <2>4. ASSUME NEW c \in Ch, SkipRead(c) PROVE DriverInv' BY <2>4, SkipReadInv
  <2>5. ASSUME NEW c \in Ch, ReadOk(c) PROVE DriverInv' BY <2>5, ReadOkInv
  <2>6. ASSUME NEW c \in Ch, ReadFails(c) PROVE DriverInv' BY <2>6, ReadFailsInv
  <2>7. CASE WaitCycle BY <2>7, WaitInv
  <2>8. QED
    BY <1>1, <2>1, <2>2, <2>3, <2>4, <2>5, <2>6, <2>7 DEF Driver
<1>2. CASE \E a \in Addrs : PartFails(a) \/ PartReturns(a)
  BY <1>2, PartsInv
<1>3. CASE Reset
  BY <1>3, ResetInv
<1>4. CASE UNCHANGED vars
  <2>1. TypeOK'
    BY <1>4 DEF vars, DriverInv, TypeOK
  <2>2. QED
    BY <1>4, <2>1 DEF vars, DriverInv, OneChannelPerPart, Assigned, OwnOrReason, Reason,
       HadItsTurn, Rested
<1>5. QED
  BY <1>1, <1>2, <1>3, <1>4 DEF Next

(***************************************************************************)
(* The theorems.                                                           *)
(***************************************************************************)

\* Every reachable state satisfies the invariant above.
THEOREM DriverInvariant == Spec => []DriverInv
<1>1. QED
  BY InitInv, StepInv, PTL DEF Spec

\* TypeOK of the run: the 8-bit failure counter stops at its limit, and what is
\* returned fits the 16 bits of the advertisement (as6221.c:252-274).
THEOREM TypeCorrect == Spec => []TypeOK
<1>1. DriverInv => TypeOK
  BY DEF DriverInv
<1>2. QED
  BY <1>1, DriverInvariant, PTL

\* Two channels never read one part (as6221.c:204-228).
THEOREM ChannelsDiffer == Spec => []OneChannelPerPart
<1>1. DriverInv => OneChannelPerPart
  BY DEF DriverInv
<1>2. QED
  BY <1>1, DriverInvariant, PTL

\* A channel has its own part or a reason not to (as6221.c:206-228).
THEOREM OwnPart == Spec => []OwnPartUnlessMissing
<1>1. DriverInv => OwnPartUnlessMissing
  <2>1. SUFFICES ASSUME DriverInv, NEW c \in Ch, ch[c].addr # 0, ch[c].addr # want[c]
                 PROVE  Reason(c)
    BY DEF OwnPartUnlessMissing, Reason
  <2>2. pc \in {"scan", "first", "second", "read", "wait"} /\ next \in {1, 2} /\ c \in {1, 2}
    BY <2>1 DEF DriverInv, TypeOK, Ch
  <2>3. HadItsTurn(c)
    BY <2>1, <2>2 DEF DriverInv, Assigned, HadItsTurn
  <2>4. QED
    BY <2>1, <2>3 DEF DriverInv, OwnOrReason
<1>2. QED
  BY <1>1, DriverInvariant, PTL

\* A dead channel rests for RetryAfter between two attempts (as6221.c:242-264).
THEOREM BusIsSpared == Spec => BackoffSparesTheBus
<1>1. ASSUME DriverInv, NEW c \in Ch, ReadFails(c), ~ch[c].present
      PROVE  untouched[c] >= RetryAfter
  <2>1. ch[c].left = 0 /\ ch[c].left + untouched[c] >= RetryAfter
    BY <1>1 DEF DriverInv, Rested, ReadFails, UsesBus
  <2>2. untouched[c] \in 0 .. RetryAfter
    BY <1>1 DEF DriverInv, TypeOK
  <2>3. QED
    BY <2>1, <2>2, LimitAssumption
<1>2. DriverInv =>
        [\A c \in Ch : ReadFails(c) /\ ~ch[c].present => untouched[c] >= RetryAfter]_vars
  BY <1>1
<1>3. QED
  BY <1>2, DriverInvariant, PTL DEF BackoffSparesTheBus

\* What a read leaves behind.
LEMMA ReadingKept ==
  DriverInv /\ ReadingIsMeasured /\ [Next]_vars => ReadingIsMeasured'
<1> SUFFICES ASSUME DriverInv, ReadingIsMeasured, [Next]_vars PROVE ReadingIsMeasured'
  OBVIOUS
<1>1. ReadingsTyped
  BY Parts DEF DriverInv
<1>2. ASSUME NEW c \in Ch, NoReading(c) PROVE ReadingIsMeasured'
  <2>1. /\ out'[c] = AS6221_TEMP_INVALID_X100 /\ tval'[c] = NoRaw
        /\ \A d \in Ch : d # c => out'[d] = out[d] /\ tval'[d] = tval[d]
    BY <1>1, <1>2 DEF NoReading, ReadingsTyped
  <2>2. QED
    BY <2>1, Zenon DEF ReadingIsMeasured
<1>3. ASSUME NEW c \in Ch, ReadOk(c) PROVE ReadingIsMeasured'
  <2>1. PICK raw \in Raws : /\ tval' = [tval EXCEPT ![c] = raw]
                            /\ out' = [out EXCEPT ![c] = RawToX100(raw)]
    BY <1>3 DEF ReadOk
  <2>2. /\ out'[c] = RawToX100(raw) /\ tval'[c] = raw
        /\ \A d \in Ch : d # c => out'[d] = out[d] /\ tval'[d] = tval[d]
    BY <1>1, <2>1 DEF ReadingsTyped
  <2>3. raw \in Int /\ -32768 <= raw /\ raw <= 32767
    BY LimitAssumption
  <2>4. /\ RawToX100(raw) \in Int /\ -25600 <= RawToX100(raw)
        /\ -64 <= 128 * RawToX100(raw) - 100 * raw /\ 128 * RawToX100(raw) - 100 * raw <= 64
    BY <2>3, RawToX100Close
  <2>5. /\ RawToX100(raw) # AS6221_TEMP_INVALID_X100
        /\ 128 * RawToX100(raw) - 100 * raw \in -64 .. 64
    BY <2>3, <2>4 DEF AS6221_TEMP_INVALID_X100
  <2>6. raw # NoRaw
    BY <2>3 DEF NoRaw
  <2>7. QED
    BY <2>2, <2>5, <2>6, Zenon DEF ReadingIsMeasured
<1>4. CASE UNCHANGED <<out, tval>>
  BY <1>4 DEF ReadingIsMeasured
<1>5. CASE Reset
  BY <1>5 DEF Reset, Volatile, ReadingIsMeasured
<1>6. CASE Driver
  <2>1. ASSUME NEW c \in Ch, SkipRead(c) \/ ReadFails(c) PROVE ReadingIsMeasured'
    BY <1>2, <2>1 DEF SkipRead, ReadFails
  <2>2. ASSUME NEW c \in Ch, FirstPass(c) \/ SecondPass(c) PROVE ReadingIsMeasured'
    BY <1>4, <2>2 DEF FirstPass, SecondPass
  <2>3. CASE Scan \/ WaitCycle
    BY <1>4, <2>3 DEF Scan, WaitCycle
  <2>4. QED
    BY <1>3, <1>6, <2>1, <2>2, <2>3 DEF Driver
<1>7. CASE (\E a \in Addrs : PartFails(a) \/ PartReturns(a)) \/ UNCHANGED vars
  BY <1>4, <1>7 DEF PartFails, PartReturns, vars
<1>8. QED
  BY <1>5, <1>6, <1>7 DEF Next

\* What a read returned is within half a hundredth of a degree of the bytes it got,
\* and the sentinel exactly when it got none, for all the values of the register
\* (as6221.c:104-109, 238-274).
THEOREM Measured == Spec => []ReadingIsMeasured
<1>1. Init => ReadingIsMeasured
  BY DEF Init, ReadingIsMeasured
<1>2. QED
  BY <1>1, ReadingKept, DriverInvariant, PTL DEF Spec
=============================================================================
