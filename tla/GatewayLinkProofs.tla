-------------------------- MODULE GatewayLinkProofs --------------------------
(* For all times and limits that satisfy TimesAssumption: the variables keep   *)
(* their types, CONNECTED is claimed only with a client that had its CONNACK,  *)
(* and the watchdog resets only a gateway that the network has held up.        *)
EXTENDS GatewayLink, TLAPS

Connects == {"disconnect", "connect", "connack"}

\* The thread boots in the calls of the boot, with gw_state still INIT, and from
\* their end to the first turn of the loop; and it
\* is in a connection attempt of the loop only while DISCONNECTED, which is why an
\* attempt may clear isconnected.
BootsInitial ==
  booting => at \in {"rest", "top"} \/ (at \in {"link"} \cup Connects /\ gw_state = "INIT")
LinkAtBoot   == at = "link" => booting
TriesOffline == at \in Connects /\ ~booting => gw_state = "DISCONNECTED"

IInv == BootsInitial /\ LinkAtBoot /\ TriesOffline /\ ConnectedWasAccepted

\* The end of an attempt preserves the invariant when the client keeps what the
\* attempt found out.
LEMMA AttemptEnds ==
  ASSUME NEW ready \in BOOLEAN, IInv, at \in Connects, Attempted(ready), ready => isconnected'
  PROVE  IInv'
<1>1. at' = "rest" \/ (at' = "publish" /\ ~booting')
  BY DEF IInv, BootsInitial, Attempted, EnterLoop, Connects
<1>2. gw_state' = "CONNECTED" => isconnected'
  <2>1. CASE booting
    BY <2>1 DEF Attempted, EnterLoop
  <2>2. CASE ~booting
    BY <2>2 DEF Attempted, IInv, TriesOffline
  <2> QED  BY <2>1, <2>2
<1> QED
  BY <1>1, <1>2 DEF IInv, BootsInitial, LinkAtBoot, TriesOffline, ConnectedWasAccepted, Connects

\* Every step preserves the invariant.
LEMMA Inductive == IInv /\ [Next]_vars => IInv'
<1> SUFFICES ASSUME IInv, [Next]_vars PROVE IInv'
  OBVIOUS
<1> USE DEF IInv, BootsInitial, LinkAtBoot, TriesOffline, ConnectedWasAccepted, Connects
<1>1. CASE UNCHANGED vars
  BY <1>1 DEF vars, thread, client
<1>2. CASE World \/ Peer
  BY <1>2 DEF World, Peer, CableChanges, BrokerChanges, BrokerEndsSession, CloseArrives, AckArrives, thread, client
<1>3. CASE LinkFound \/ LinkMissing
  BY <1>3 DEF LinkFound, LinkMissing, client
<1>4. CASE LinkGivenUp
  BY <1>4 DEF LinkGivenUp, EnterLoop
<1>5. CASE DisconnectWaits \/ Disconnected \/ ConnectWaits \/ ConnackWaits
  BY <1>5 DEF DisconnectWaits, Disconnected, ConnectWaits, ConnackWaits, client
<1>6. CASE Established
  \* MQTTClientInit clears isconnected, but gw_state is not CONNECTED here.
  BY <1>6 DEF Established
<1>7. CASE ConnectFails
  <2>1. at \in Connects /\ Attempted(FALSE)
    BY <1>7 DEF ConnectFails
  <2> QED  BY <2>1, AttemptEnds
<1>8. CASE MQTTConnectReturns
  <2>1. PICK accepted \in BOOLEAN : isconnected' = accepted /\ Attempted(accepted)
    BY <1>8 DEF MQTTConnectReturns
  <2>2. at \in Connects
    BY <1>8 DEF MQTTConnectReturns
  <2> QED  BY <2>1, <2>2, AttemptEnds
<1>9. CASE \E n \in 0 .. LoopMax : Turn(n)
  BY <1>9 DEF Turn, client
<1>10. CASE gateway_health_check
  BY <1>10 DEF gateway_health_check, Healthy
<1>11. CASE SkipReconnect \/ TryReconnect
  BY <1>11 DEF SkipReconnect, TryReconnect, client
<1>12. CASE PublishNothing \/ Publish \/ PublishBlocks \/ SendWaits \/ SendEnds
  BY <1>12 DEF PublishNothing, Publish, PublishBlocks, SendWaits, SendEnds, thread, client
<1>13. CASE WatchdogReset
  BY <1>13 DEF WatchdogReset
<1>14. CASE ConnectNotSent
  <2>1. at \in Connects /\ Attempted(FALSE)
    BY <1>14 DEF ConnectNotSent
  <2> QED  BY <2>1, AttemptEnds
<1>15. CASE \E n \in 0 .. RestMax : LoopEnds(n)
  BY <1>15 DEF LoopEnds, client
<1> QED
  BY <1>1, <1>2, <1>3, <1>4, <1>5, <1>6, <1>7, <1>8, <1>9, <1>10, <1>11, <1>12, <1>13, <1>14, <1>15
     DEF Next, Thread, Connecting

\* CONNECTED is never claimed without a CONNACK since the last boot.
THEOREM ConnectedAccepted == Spec => []ConnectedWasAccepted
<1>1. Init => IInv
  BY DEF Init, IInv, BootsInitial, LinkAtBoot, TriesOffline, ConnectedWasAccepted, Connects
<1>2. IInv => ConnectedWasAccepted
  BY DEF IInv
<1> QED
  BY <1>1, <1>2, Inductive, PTL DEF Spec
-----------------------------------------------------------------------------
\* An age stays within its limit.
LEMMA OlderInRange ==
  ASSUME NEW max \in Nat, NEW age \in 0 .. max, NEW n \in Nat
  PROVE  Older(age, max, n) \in 0 .. max
BY DEF Older

\* TypeOK in two halves: the times, which need arithmetic, and the rest.
TimesOK ==
  /\ waited \in 0 .. LinkRetries + TcpTimeout + CommandTimeout
  /\ unrefreshed \in 0 .. WatchdogTimeout /\ held \in 0 .. WatchdogTimeout
  /\ healthAge \in 0 .. HEALTH_CHECK_INTERVAL
  /\ reconnectAge \in 0 .. RECONNECT_RETRY_INTERVAL

ThreadOK ==
  /\ at \in {"link", "top", "health", "reconnect", "publish", "rest"} \cup Waits
  /\ booting \in BOOLEAN
  /\ gw_state \in {"INIT", "CONNECTED", "DISCONNECTED"}
ClientOK ==
  /\ isconnected \in BOOLEAN /\ configured \in BOOLEAN
  /\ sock \in {"closed", "established", "peer_closed"} /\ unsent \in BOOLEAN
WorldOK ==
  /\ cable \in BOOLEAN /\ broker \in {"up", "refusing", "silent"}
  /\ session \in BOOLEAN
StatesOK == ThreadOK /\ ClientOK /\ WorldOK

\* Time that passes keeps the types of the timers and of the watchdog.
LEMMA PassTypes ==
  ASSUME TimesOK, NEW n \in Nat, Pass(n)
  PROVE  /\ unrefreshed' \in 0 .. WatchdogTimeout
         /\ healthAge' \in 0 .. HEALTH_CHECK_INTERVAL
         /\ reconnectAge' \in 0 .. RECONNECT_RETRY_INTERVAL
BY OlderInRange, TimesAssumption DEF TimesOK, Pass

LEMMA WaitTypes ==
  ASSUME TimesOK, WaitOn, waited < TcpTimeout + CommandTimeout
  PROVE  TimesOK'
<1>1. held' \in 0 .. WatchdogTimeout
  BY OlderInRange, TimesAssumption DEF TimesOK, WaitOn
<1>2. waited' \in 0 .. LinkRetries + TcpTimeout + CommandTimeout
  BY TimesAssumption DEF TimesOK, WaitOn
<1>3. Pass(1)
  BY DEF WaitOn
<1> QED BY <1>1, <1>2, <1>3, PassTypes DEF TimesOK

\* Every step keeps the times in their ranges.
LEMMA TimesKept == TimesOK /\ [Next]_vars => TimesOK'
<1> SUFFICES ASSUME TimesOK, [Next]_vars PROVE TimesOK'
  OBVIOUS
<1> USE TimesAssumption DEF TimesOK
<1>1. CASE UNCHANGED vars
  BY <1>1 DEF vars, thread, clock, timers
<1>2. CASE World \/ Peer
  BY <1>2 DEF World, Peer, CableChanges, BrokerChanges, BrokerEndsSession, CloseArrives, AckArrives, thread, clock, timers
<1>3. CASE LinkFound
  BY <1>3, PassTypes DEF LinkFound
<1>4. CASE LinkMissing
  BY <1>4, PassTypes DEF LinkMissing
<1>5. CASE LinkGivenUp
  BY <1>5 DEF LinkGivenUp, EnterLoop, timers, clock
<1>6. CASE DisconnectWaits \/ ConnectWaits \/ ConnackWaits \/ SendWaits
  <2>1. WaitOn /\ waited < TcpTimeout + CommandTimeout
    BY <1>6 DEF DisconnectWaits, ConnectWaits, ConnackWaits, SendWaits
  <2> QED  BY <2>1, WaitTypes DEF TimesOK
<1>7. CASE Disconnected \/ Established
  BY <1>7 DEF Disconnected, Established, timers, clock
<1>8. CASE ConnectFails \/ MQTTConnectReturns \/ ConnectNotSent
  BY <1>8 DEF ConnectFails, MQTTConnectReturns, ConnectNotSent, Attempted, EnterLoop, timers, clock
<1>9. ASSUME NEW n \in 0 .. LoopMax, Turn(n) PROVE TimesOK'
  <2>1. n \in Nat /\ n \in 0 .. WatchdogTimeout
    OBVIOUS
  <2>2. /\ healthAge' \in 0 .. HEALTH_CHECK_INTERVAL
        /\ reconnectAge' \in 0 .. RECONNECT_RETRY_INTERVAL
    BY <1>9, <2>1, OlderInRange DEF Turn
  <2> QED  BY <1>9, <2>1, <2>2 DEF Turn
<1>10. CASE gateway_health_check
  BY <1>10 DEF gateway_health_check, clock
<1>11. CASE SkipReconnect \/ TryReconnect
  BY <1>11 DEF SkipReconnect, TryReconnect, clock
<1>12. CASE PublishNothing \/ Publish \/ PublishBlocks \/ SendEnds
  BY <1>12 DEF PublishNothing, Publish, PublishBlocks, SendEnds, thread, clock, timers
<1>13. CASE WatchdogReset
  BY <1>13 DEF WatchdogReset
<1>14. ASSUME NEW n \in 0 .. RestMax, LoopEnds(n) PROVE TimesOK'
  <2>1. n \in Nat
    OBVIOUS
  <2> QED  BY <1>14, <2>1, PassTypes DEF LoopEnds
<1>15. CASE Connecting
  BY <1>6, <1>7, <1>8, <1>15, Zenon DEF Connecting
<1>16. CASE Thread
  <2> USE <1>3, <1>4, <1>5, <1>6, <1>9, <1>10, <1>11, <1>12, <1>13, <1>14, <1>15
  <2> QED  BY <1>16, Zenon DEF Thread
<1>17. CASE Publish
  BY <1>12, <1>17
<1> QED
  BY <1>1, <1>2, <1>16, <1>17, Zenon DEF Next

\* Every step keeps the other variables in their sets.
LEMMA StatesKept == StatesOK /\ [Next]_vars => StatesOK'
<1> SUFFICES ASSUME StatesOK, [Next]_vars PROVE StatesOK'
  OBVIOUS
<1> USE DEF StatesOK, ThreadOK, ClientOK, WorldOK, Waits
<1>1. CASE UNCHANGED vars
  BY <1>1 DEF vars, thread, client, socket, timers, world
<1>2. CASE CableChanges
  <2>1. ThreadOK'
    BY <1>2 DEF CableChanges, thread, client
  <2>2. ClientOK'
    BY <1>2 DEF CableChanges, client, socket
  <2>3. WorldOK'
    BY <1>2 DEF CableChanges
  <2> QED  BY <2>1, <2>2, <2>3
<1>3. CASE BrokerChanges
  <2>1. ThreadOK'
    BY <1>3 DEF BrokerChanges, thread, client
  <2>2. ClientOK'
    BY <1>3 DEF BrokerChanges, client, socket
  <2>3. WorldOK'
    BY <1>3 DEF BrokerChanges
  <2> QED  BY <2>1, <2>2, <2>3
<1>4. CASE BrokerEndsSession
  <2>1. ThreadOK'
    BY <1>4 DEF BrokerEndsSession, thread, client
  <2>2. ClientOK'
    BY <1>4 DEF BrokerEndsSession, client, socket
  <2>3. WorldOK'
    BY <1>4 DEF BrokerEndsSession
  <2> HIDE DEF ThreadOK, ClientOK, WorldOK
  <2> QED  BY <2>1, <2>2, <2>3
<1>5. CASE CloseArrives
  BY <1>5 DEF CloseArrives, thread, client, world
<1>6. CASE AckArrives
  BY <1>6 DEF AckArrives, thread, client, world
<1>7. CASE LinkFound
  BY <1>7 DEF LinkFound, client, world
<1>8. CASE LinkMissing
  BY <1>8 DEF LinkMissing, client, socket, world
<1>9. CASE LinkGivenUp
  BY <1>9 DEF LinkGivenUp, EnterLoop, socket, world
<1>10. CASE DisconnectWaits \/ ConnectWaits \/ ConnackWaits \/ SendWaits
  BY <1>10 DEF DisconnectWaits, ConnectWaits, ConnackWaits, SendWaits, client, socket, world
<1>11. CASE Disconnected
  BY <1>11 DEF Disconnected, client
<1>12. CASE Established
  BY <1>12 DEF Established
<1>13. CASE ConnectFails
  BY <1>13 DEF ConnectFails, Attempted, EnterLoop, world
<1>14. CASE MQTTConnectReturns
  BY <1>14 DEF MQTTConnectReturns, Attempted, EnterLoop, socket, world
<1>15. CASE \E n \in 0 .. LoopMax : Turn(n)
  BY <1>15 DEF Turn, client, socket, world
<1>16. CASE gateway_health_check
  BY <1>16 DEF gateway_health_check, socket, world
<1>17. CASE SkipReconnect \/ TryReconnect
  BY <1>17 DEF SkipReconnect, TryReconnect, client, socket, world
<1>18. CASE PublishNothing \/ PublishBlocks
  BY <1>18 DEF PublishNothing, PublishBlocks, client, socket, world
<1>19. CASE Publish
  BY <1>19 DEF Publish, thread, client, world
<1>20. CASE SendEnds
  BY <1>20 DEF SendEnds, client, world
<1>21. CASE WatchdogReset
  BY <1>21 DEF WatchdogReset, world
<1>22. CASE ConnectNotSent
  BY <1>22 DEF ConnectNotSent, Attempted, EnterLoop, socket, world
<1>23. CASE \E n \in 0 .. RestMax : LoopEnds(n)
  BY <1>23 DEF LoopEnds, client, socket, world
<1> QED
  BY <1>1, <1>2, <1>3, <1>4, <1>5, <1>6, <1>7, <1>8, <1>9, <1>10, <1>11, <1>12, <1>13, <1>14, <1>15, <1>16,
     <1>17, <1>18, <1>19, <1>20, <1>21, <1>22, <1>23
     DEF Next, World, Peer, Thread, Connecting

\* The variables keep their types, the ages within their limits.
THEOREM TypeCorrect == Spec => []TypeOK
<1>1. Init => TimesOK
  BY TimesAssumption DEF Init, TimesOK
<1>2. Init => StatesOK
  BY DEF Init, StatesOK, ThreadOK, ClientOK, WorldOK
<1>3. TimesOK /\ StatesOK => TypeOK
  BY DEF TimesOK, StatesOK, ThreadOK, ClientOK, WorldOK, TypeOK
<1> QED
  BY <1>1, <1>2, <1>3, TimesKept, StatesKept, PTL DEF Spec

-----------------------------------------------------------------------------
(* The watchdog.  Since the last refresh no more time has passed than the       *)
(* network has held the thread, and the phases of the boot or of the loop that  *)
(* are behind it.                                                               *)

Behind == IF booting THEN LinkRetries ELSE LoopMax

LookShort == at = "link" => booting /\ waited <= LinkRetries /\ unrefreshed <= waited
Accounted ==
  /\ at = "top" => unrefreshed <= held + Behind + RestMax
  /\ at # "top" => unrefreshed <= held + Behind

WInv == TimesOK /\ LookShort /\ Accounted

\* A wait adds as much to held as to unrefreshed.
LEMMA WaitAccounted ==
  ASSUME WInv, WaitOn, at # "top", UNCHANGED <<at, booting>>
  PROVE  Accounted'
<1>1. /\ unrefreshed' = Older(unrefreshed, WatchdogTimeout, 1)
      /\ held' = Older(held, WatchdogTimeout, 1)
  BY DEF WaitOn, Pass
<1>2. Behind' = Behind /\ Behind \in Nat
  BY TimesAssumption DEF Behind
<1>3. /\ unrefreshed \in 0 .. WatchdogTimeout /\ held \in 0 .. WatchdogTimeout
      /\ unrefreshed <= held + Behind
  BY DEF WInv, TimesOK, Accounted
<1>4. unrefreshed' <= held' + Behind
  BY <1>1, <1>2, <1>3, TimesAssumption DEF Older
<1> QED  BY <1>2, <1>4 DEF Accounted

LEMMA AccountKept == WInv /\ [Next]_vars => WInv'
<1> SUFFICES ASSUME WInv, [Next]_vars PROVE LookShort' /\ Accounted'
  BY TimesKept DEF WInv
<1>1. Behind \in Nat /\ RestMax \in Nat /\ LinkRetries \in Nat /\ LoopMax \in Nat
  BY TimesAssumption DEF Behind
<1>2. /\ unrefreshed \in 0 .. WatchdogTimeout /\ held \in 0 .. WatchdogTimeout
      /\ waited \in Nat /\ WatchdogTimeout \in Nat
  BY TimesAssumption DEF WInv, TimesOK
<1>3. LookShort /\ Accounted
  BY DEF WInv
<1>4. CASE LinkMissing
  <2>1. /\ at = "link" /\ at' = at /\ booting' = booting /\ held' = held
        /\ waited < LinkRetries /\ waited' = waited + 1
        /\ unrefreshed' = Older(unrefreshed, WatchdogTimeout, 1)
    BY <1>4 DEF LinkMissing, Pass
  <2>2. LookShort'
    BY <1>1, <1>2, <1>3, <2>1 DEF LookShort, Older
  <2>3. Behind' = LinkRetries
    BY <1>3, <2>1 DEF Behind, LookShort
  <2>4. unrefreshed' <= LinkRetries
    BY <1>1, <1>2, <1>3, <2>1 DEF LookShort, Older
  <2>5. unrefreshed' \in Nat
    BY <1>1, <1>2, <2>1 DEF Older
  <2>6. unrefreshed' <= held' + Behind'
    BY <1>1, <1>2, <2>1, <2>3, <2>4, <2>5
  <2> QED  BY <2>1, <2>2, <2>6 DEF Accounted
<1>5. CASE LinkFound
  <2>1. /\ at = "link" /\ at' = "connect" /\ booting' = booting /\ held' = held
        /\ waited < LinkRetries
        /\ unrefreshed' = Older(unrefreshed, WatchdogTimeout, 1)
    BY <1>5 DEF LinkFound, Pass
  <2>2. Behind' = LinkRetries
    BY <1>3, <2>1 DEF Behind, LookShort
  <2>3. unrefreshed' <= LinkRetries
    BY <1>1, <1>2, <1>3, <2>1 DEF LookShort, Older
  <2>4. unrefreshed' \in Nat
    BY <1>1, <1>2, <2>1 DEF Older
  <2>5. unrefreshed' <= held' + Behind'
    BY <1>1, <1>2, <2>1, <2>2, <2>3, <2>4
  <2> QED  BY <2>1, <2>5 DEF LookShort, Accounted
<1>6. CASE DisconnectWaits \/ ConnectWaits \/ ConnackWaits \/ SendWaits
  <2>1. WaitOn /\ at \notin {"top", "link"} /\ UNCHANGED <<at, booting>>
    BY <1>6 DEF DisconnectWaits, ConnectWaits, ConnackWaits, SendWaits
  <2> QED  BY <2>1, WaitAccounted DEF LookShort
<1>7. ASSUME NEW n \in 0 .. LoopMax, Turn(n) PROVE LookShort' /\ Accounted'
  <2>1. unrefreshed' = n /\ held' = 0 /\ ~booting' /\ at' = "health"
    BY <1>7 DEF Turn
  <2>2. Behind' = LoopMax
    BY <2>1 DEF Behind
  <2> QED  BY <1>1, <2>1, <2>2 DEF LookShort, Accounted
<1>8. ASSUME NEW n \in 0 .. RestMax, LoopEnds(n) PROVE LookShort' /\ Accounted'
  <2>1. /\ at = "rest" /\ at' = "top" /\ booting' = booting /\ held' = held
        /\ unrefreshed' = Older(unrefreshed, WatchdogTimeout, n)
    BY <1>8 DEF LoopEnds, Pass
  <2>2. Behind' = Behind
    BY <2>1 DEF Behind
  <2>3. unrefreshed <= held + Behind
    BY <1>3, <2>1 DEF Accounted
  <2>4. unrefreshed' <= held' + Behind + RestMax
    BY <1>1, <1>2, <2>1, <2>3 DEF Older
  <2> QED  BY <2>1, <2>2, <2>4 DEF LookShort, Accounted
<1>9. CASE WatchdogReset
  <2>1. at' = "link" /\ booting' /\ waited' = 0 /\ unrefreshed' = 0 /\ held' = 0
    BY <1>9 DEF WatchdogReset
  <2>2. Behind' = LinkRetries
    BY <2>1 DEF Behind
  <2> QED  BY <1>1, <2>1, <2>2 DEF LookShort, Accounted
<1>10. ASSUME at # "top", at' \notin {"top", "link"}, UNCHANGED <<booting, clock>>
       PROVE  LookShort' /\ Accounted'
  BY <1>3, <1>10 DEF LookShort, Accounted, Behind, clock
<1>11. CASE UNCHANGED thread
  BY <1>3, <1>11 DEF thread, clock, LookShort, Accounted, Behind
<1>12. CASE Disconnected \/ Established \/ ConnectFails \/ MQTTConnectReturns \/ ConnectNotSent \/ LinkGivenUp
  <2>1. at # "top" /\ at' \notin {"top", "link"} /\ UNCHANGED <<booting, clock>>
    BY <1>12 DEF Disconnected, Established, ConnectFails, MQTTConnectReturns, ConnectNotSent,
                 LinkGivenUp, Attempted, EnterLoop
  <2> QED  BY <1>10, <2>1
<1>13. CASE gateway_health_check \/ SkipReconnect \/ TryReconnect \/ PublishNothing \/ PublishBlocks
              \/ SendEnds
  <2>1. at # "top" /\ at' \notin {"top", "link"} /\ UNCHANGED <<booting, clock>>
    BY <1>13 DEF gateway_health_check, SkipReconnect, TryReconnect, PublishNothing, PublishBlocks,
                 SendEnds
  <2> QED  BY <1>10, <2>1
<1>14. CASE World \/ Peer \/ Publish \/ UNCHANGED vars
  BY <1>11, <1>14 DEF World, Peer, CableChanges, BrokerChanges, BrokerEndsSession, CloseArrives,
                      AckArrives, Publish, vars
<1> QED
  BY <1>4, <1>5, <1>6, <1>7, <1>8, <1>9, <1>12, <1>13, <1>14 DEF Next, Thread, Connecting

\* The watchdog resets the gateway only when the waits of one loop, or of the boot,
\* add up to what their own work leaves of its timeout.
THEOREM OnlyOutagesReset == Spec => []ResetsNeedAnOutage
<1>1. Init => WInv
  BY TimesAssumption DEF Init, WInv, TimesOK, LookShort, Accounted, Behind
<1>2. WInv => ResetsNeedAnOutage
  <2> SUFFICES ASSUME WInv, ~Alive PROVE held >= WatchdogTimeout - OwnTime
    BY DEF ResetsNeedAnOutage
  <2>1. OwnTime = Behind + RestMax /\ Behind \in Nat /\ RestMax \in Nat
    BY TimesAssumption DEF OwnTime, Behind
  <2>2. unrefreshed = WatchdogTimeout /\ held \in Nat /\ WatchdogTimeout \in Nat
    BY TimesAssumption DEF WInv, TimesOK, Alive
  <2>3. unrefreshed <= held + Behind + RestMax
    BY <2>1, <2>2 DEF WInv, Accounted
  <2> QED  BY <2>1, <2>2, <2>3
<1> QED
  BY <1>1, <1>2, AccountKept, PTL DEF Spec
=============================================================================
