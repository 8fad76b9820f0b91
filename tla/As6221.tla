-------------------------------- MODULE As6221 --------------------------------
(***************************************************************************)
(* The temperature driver of the node: sensor/as6221.c.                    *)
(*                                                                         *)
(* At boot the driver scans the bus and gives each channel an address: the *)
(* one NVS or the build wants, or else one that is left over.  Then the    *)
(* advertising task reads both channels once per cycle; a channel that     *)
(* fails three times in a row is left alone for RetryAfter.                *)
(*                                                                         *)
(* A part at an address is an AS6221, something else that acknowledges, or *)
(* nothing.  A part may fall off the bus and come back at any time.  Times *)
(* are in seconds; retry_at_us is kept as the time that is left.           *)
(***************************************************************************)
EXTENDS Integers

CONSTANTS
  Addrs,       \* the bus addresses, 0x44 .. 0x4B
  Want,        \* what NVS may want: pairs of addresses
  FailLimit,   \* AS6221_FAIL_LIMIT
  RetryAfter,  \* AS6221_RETRY_AFTER_US
  Cycles,      \* the advertising cadences
  Raws         \* the values the TVAL register takes

ASSUME BusAssumption ==
  /\ Addrs \subseteq Nat \ {0}
  /\ Want \subseteq Nat \X Nat

ASSUME LimitAssumption ==
  /\ FailLimit \in Nat \ {0}
  /\ RetryAfter \in Nat /\ Cycles \subseteq Nat \ {0}
  /\ \A raw \in Raws : raw \in Int /\ -32768 <= raw /\ raw <= 32767

Ch == {1, 2}                \* AS6221_CH_TH1, AS6221_CH_TH2
INT16_MIN == -32768
INT16_MAX == 32767
Int16s == INT16_MIN .. INT16_MAX
AS6221_TEMP_INVALID_X100 == -32768
NoRaw == 65536              \* no register of 16 bits holds it

VARIABLES
  part,      \* what is soldered at each address
  onBus,     \* the addresses whose part answers now
  pc,        \* "scan", "first", "second", "read" or "wait"
  next,      \* the channel whose turn it is
  found,     \* as6221_init: the addresses that answered the scan
  want,      \* as6221_init: want[]
  ch,        \* s_ch: addr is 0 where dev is NULL, left is the rest of the back-off
  out,       \* what as6221_read_x100 returned last
  tval,      \* history: the bytes behind it, NoRaw when none came
  refused,   \* history: attaches that failed in the first pass
  untouched  \* history: time since the channel last used the bus, up to RetryAfter

vars == <<part, onBus, pc, next, found, want, ch, out, tval, refused, untouched>>
boot == <<part, found, want, refused>>

TypeOK ==
  /\ part \in [Addrs -> {"as6221", "other", "none"}]
  /\ onBus \subseteq Addrs
  /\ pc \in {"scan", "first", "second", "read", "wait"} /\ next \in Ch
  /\ found \subseteq Addrs /\ want \in Want
  /\ ch \in [Ch -> [addr : Addrs \cup {0}, present : BOOLEAN,
                    fails : 0 .. FailLimit, left : 0 .. RetryAfter]]
  /\ out \in [Ch -> Int16s] /\ tval \in [Ch -> Raws \cup {NoRaw}]
  /\ refused \subseteq Ch \X Addrs
  /\ untouched \in [Ch -> 0 .. RetryAfter]

NoChannel == [addr |-> 0, present |-> FALSE, fails |-> 0, left |-> 0]
Attached(a) == [addr |-> a, present |-> TRUE, fails |-> 0, left |-> 0]

Volatile ==
  /\ pc' = "scan" /\ next' = 1
  /\ found' = {} /\ want' \in Want /\ refused' = {}
  /\ ch' = [c \in Ch |-> NoChannel]
  /\ out' = [c \in Ch |-> AS6221_TEMP_INVALID_X100]
  /\ tval' = [c \in Ch |-> NoRaw]
  /\ untouched' = [c \in Ch |-> RetryAfter]

Init ==
  /\ part \in [Addrs -> {"as6221", "other", "none"}]
  /\ onBus = {a \in Addrs : part[a] # "none"}
  /\ pc = "scan" /\ next = 1
  /\ found = {} /\ want \in Want /\ refused = {}
  /\ ch = [c \in Ch |-> NoChannel]
  /\ out = [c \in Ch |-> AS6221_TEMP_INVALID_X100]
  /\ tval = [c \in Ch |-> NoRaw]
  /\ untouched = [c \in Ch |-> RetryAfter]

(***************************************************************************)
(* as6221_init.                                                            *)
(***************************************************************************)
\* The probe of every address, one after the other.  Without an answer the
\* driver gives up, and every read fails.
Scan ==
  /\ pc = "scan"
  /\ found' = onBus
  /\ pc' = (IF onBus = {} THEN "read" ELSE "first")
  /\ UNCHANGED <<part, onBus, next, want, ch, out, tval, refused, untouched>>

\* taken[]: an address belongs to the channel that was attached to it.
Taken == {ch[c].addr : c \in Ch}

\* Mutant: the second pass does not look at taken[].
FreeIgnoresTaken == found

\* What the second pass may still give away.
Free == found \ Taken

\* ch_attach: the part must be there, take the configuration and give it
\* back, which only an AS6221 does.
Answers(a) == a \in onBus /\ part[a] = "as6221"

\* The addresses the second pass would get an AS6221 from.
Able == {a \in Free : Answers(a)}

Turn(c, after) ==
  /\ next' = (IF c = 1 THEN 2 ELSE 1)
  /\ pc' = (IF c = 1 THEN pc ELSE after)

\* First pass: a channel takes the address it wants, if that was found, is
\* not taken and proves to be an AS6221.
FirstPass(c) ==
  /\ pc = "first" /\ next = c
  /\ Turn(c, "second")
  /\ LET tries == want[c] \in Free
         ok == tries /\ Answers(want[c])
     IN /\ ch' = (IF ok THEN [ch EXCEPT ![c] = Attached(want[c])] ELSE ch)
        /\ refused' = (IF tries /\ ~ok THEN refused \cup {<<c, want[c]>>} ELSE refused)
  /\ UNCHANGED <<part, onBus, found, want, out, tval, untouched>>

\* Mutant: the fallback also moves a channel that has its address.
SecondPassMoves(c) ==
  /\ pc = "second" /\ next = c
  /\ Turn(c, "read")
  /\ \/ Able = {} /\ UNCHANGED ch
     \/ \E a \in Able : /\ \A b \in Able : a =< b
                       /\ ch' = [ch EXCEPT ![c] = Attached(a)]
  /\ UNCHANGED <<boot, onBus, out, tval, untouched>>

\* Second pass: a channel without an address takes the first of the others
\* that proves to be an AS6221.
SecondPass(c) ==
  /\ pc = "second" /\ next = c
  /\ Turn(c, "read")
  /\ \/ (ch[c].present \/ Able = {}) /\ UNCHANGED ch
     \/ /\ ~ch[c].present
        /\ \E a \in Able : /\ \A b \in Able : a =< b
                          /\ ch' = [ch EXCEPT ![c] = Attached(a)]
  /\ UNCHANGED <<boot, onBus, out, tval, untouched>>

(***************************************************************************)
(* as6221_read_x100.                                                       *)
(***************************************************************************)
\* C's division rounds towards zero.
Quotient(n, d) == IF n >= 0 THEN n \div d ELSE -((-n) \div d)

\* Mutant: the half that rounds is added below zero as well.
RawToX100HalfUp(raw) == Quotient(raw * 25 + 16, 32)

\* raw_to_x100: 1/128 degree to 1/100 degree, rounded to the nearest.
RawToX100(raw) == Quotient(raw * 25 + (IF raw >= 0 THEN 16 ELSE -16), 32)

EndRead(c) == Turn(c, "wait")

\* The sentinel, when the part gave nothing.
NoReading(c) ==
  /\ out' = [out EXCEPT ![c] = AS6221_TEMP_INVALID_X100]
  /\ tval' = [tval EXCEPT ![c] = NoRaw]

\* Mutant: a read that is skipped starts the back-off anew.
SkipReadExtends(c) ==
  /\ pc = "read" /\ next = c
  /\ ch[c].addr = 0 \/ (~ch[c].present /\ ch[c].left > 0)
  /\ NoReading(c)
  /\ ch' = [ch EXCEPT ![c].left = RetryAfter]
  /\ EndRead(c)
  /\ UNCHANGED <<boot, onBus, untouched>>

\* No device, or a back-off that has not run out: the bus is left alone.
SkipRead(c) ==
  /\ pc = "read" /\ next = c
  /\ ch[c].addr = 0 \/ (~ch[c].present /\ ch[c].left > 0)
  /\ NoReading(c)
  /\ EndRead(c)
  /\ UNCHANGED <<boot, onBus, ch, untouched>>

UsesBus(c) ==
  /\ pc = "read" /\ next = c
  /\ ch[c].addr # 0 /\ (ch[c].present \/ ch[c].left = 0)
  /\ untouched' = [untouched EXCEPT ![c] = 0]
  /\ EndRead(c)
  /\ UNCHANGED <<boot, onBus>>

ReadOk(c) ==
  /\ UsesBus(c)
  /\ ch[c].addr \in onBus
  /\ ch' = [ch EXCEPT ![c].present = TRUE, ![c].fails = 0]
  /\ \E raw \in Raws :
       /\ tval' = [tval EXCEPT ![c] = raw]
       /\ out' = [out EXCEPT ![c] = RawToX100(raw)]

\* Mutant: the retry that fails does not extend the back-off.
AfterFailureOnce(s) ==
  LET fails == IF s.fails < FailLimit THEN s.fails + 1 ELSE s.fails
  IN IF fails >= FailLimit /\ s.present
     THEN [s EXCEPT !.fails = fails, !.present = FALSE, !.left = RetryAfter]
     ELSE [s EXCEPT !.fails = fails]

AfterFailure(s) ==
  LET fails == IF s.fails < FailLimit THEN s.fails + 1 ELSE s.fails
  IN IF ~s.present \/ fails >= FailLimit
     THEN [s EXCEPT !.fails = fails, !.present = FALSE, !.left = RetryAfter]
     ELSE [s EXCEPT !.fails = fails]

ReadFails(c) ==
  /\ UsesBus(c)
  /\ ch[c].addr \notin onBus
  /\ ch' = [ch EXCEPT ![c] = AfterFailure(@)]
  /\ NoReading(c)

(***************************************************************************)
(* The rest of the world.                                                  *)
(***************************************************************************)
AtMost(n, limit) == IF n < limit THEN n ELSE limit
Less(n, d) == IF n > d THEN n - d ELSE 0

\* wait_cycle of the advertising task.
WaitCycle ==
  /\ pc = "wait"
  /\ pc' = "read"
  /\ \E d \in Cycles :
       /\ ch' = [c \in Ch |-> [ch[c] EXCEPT !.left = Less(@, d)]]
       /\ untouched' = [c \in Ch |-> AtMost(untouched[c] + d, RetryAfter)]
  /\ UNCHANGED <<boot, onBus, next, out, tval>>

\* A part falls off the bus (a loose connector) or answers again.
PartFails(a) ==
  /\ a \in onBus
  /\ onBus' = onBus \ {a}
  /\ UNCHANGED <<boot, pc, next, ch, out, tval, untouched>>
PartReturns(a) ==
  /\ part[a] # "none" /\ a \notin onBus
  /\ onBus' = onBus \cup {a}
  /\ UNCHANGED <<boot, pc, next, ch, out, tval, untouched>>

Reset == Volatile /\ UNCHANGED <<part, onBus>>

Driver ==
  \/ Scan
  \/ \E c \in Ch : FirstPass(c) \/ SecondPass(c) \/ SkipRead(c) \/ ReadOk(c) \/ ReadFails(c)
  \/ WaitCycle

Next == Driver \/ (\E a \in Addrs : PartFails(a) \/ PartReturns(a)) \/ Reset

Spec == Init /\ [][Next]_vars

\* The advertising task goes on.
FairSpec == Spec /\ WF_vars(Driver)

(***************************************************************************)
(* Properties.                                                             *)
(***************************************************************************)

\* Two channels never read the same part, whatever answered the scan, what
\* NVS wants and which parts failed during the assignment (as6221.c:204-228).
OneChannelPerPart ==
  \A c, d \in Ch : c # d /\ ch[c].addr # 0 => ch[c].addr # ch[d].addr

\* A channel reads the part of another address than its own only when its
\* own did not answer the scan, was refused when it tried to attach it, or
\* was taken by the channel before it, which wants it too (as6221.c:206-228).
OwnPartUnlessMissing ==
  \A c \in Ch :
    ch[c].addr \notin {0, want[c]} =>
      \/ want[c] \notin found
      \/ <<c, want[c]>> \in refused
      \/ \E d \in Ch : d < c /\ want[d] = want[c]

\* A dead channel touches the bus at most once per RetryAfter: the retry
\* that fails is followed by a whole back-off again (as6221.h: a missing
\* sensor does not cost an I2C timeout in every cycle).
BackoffSparesTheBus ==
  [][\A c \in Ch : ReadFails(c) /\ ~ch[c].present => untouched[c] >= RetryAfter]_vars

\* What a read returned is within half a hundredth of a degree of the bytes that
\* very read got from the part, above and below zero, and it is the sentinel when
\* and only when the part gave none (as6221.c:100-109, 238-274).
ReadingIsMeasured ==
  \A c \in Ch :
    IF tval[c] = NoRaw THEN out[c] = AS6221_TEMP_INVALID_X100
    ELSE /\ out[c] # AS6221_TEMP_INVALID_X100
         /\ 128 * out[c] - 100 * tval[c] \in -64 .. 64

\* A channel whose part answers for good is read again in the end, however
\* long it was dead before; a channel without a part needs a reset.
ChannelRecovers ==
  \A c \in Ch : \A a \in Addrs :
    <>[](ch[c].addr = a /\ a \in onBus) => <>[](ch[c].present)
=============================================================================
