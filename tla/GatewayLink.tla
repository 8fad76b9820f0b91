----------------------------- MODULE GatewayLink -----------------------------
(* The gateway's uplink: the boot and the network part of the main loop      *)
(* (main.c:175-229, 758-824), the MQTT client (MQTTClient.c, MQTT_Example.c) *)
(* and the blocking calls of the W5500 socket library (socket.c), with the   *)
(* cable, the broker and the independent watchdog around them.               *)
(*                                                                           *)
(* One thread.  A call that waits takes seconds and never refreshes the      *)
(* watchdog; the cable and the broker change meanwhile.  Times are in units  *)
(* of the model; the ages below stop at the interval they are compared with. *)
EXTENDS Naturals

CONSTANTS
  HEALTH_CHECK_INTERVAL,     \* HEALTH_CHECK_INTERVAL_MS
  RECONNECT_RETRY_INTERVAL,  \* RECONNECT_RETRY_INTERVAL_MS
  LinkRetries,               \* W5500_Init: 10 looks at the link, 500 ms apart
  TcpTimeout,                \* the W5500's retransmissions: about 32 s
  CommandTimeout,            \* command_timeout_ms: 30 s
  WatchdogTimeout,           \* IWDG: prescaler 256, reload 1874: 15 s
  LoopMax,                   \* the longest MX_APPE_Process runs
  RestMax                    \* the longest the rest of a loop runs, and the
                             \* start of the BLE stack, waits left aside

ASSUME TimesAssumption ==
  /\ HEALTH_CHECK_INTERVAL \in Nat \ {0}
  /\ RECONNECT_RETRY_INTERVAL \in Nat \ {0}
  /\ LinkRetries \in Nat /\ TcpTimeout \in Nat /\ CommandTimeout \in Nat
  /\ LoopMax \in Nat \ {0} /\ RestMax \in Nat
  /\ WatchdogTimeout \in Nat
  /\ LinkRetries + RestMax < WatchdogTimeout /\ LoopMax + RestMax < WatchdogTimeout

VARIABLES
  at,             \* where the thread is
  booting,        \* still before the first turn of the main loop
  waited,         \* how long the call in progress has waited
  unrefreshed,    \* time since HAL_IWDG_Refresh
  held,           \* history: how much of it the network held the thread
  gw_state,
  isconnected,    \* client.isconnected
  configured,     \* the W5500 has an IP address (CN_SET_NETINFO)
  sock,           \* Sn_SR of MQTT_SOCKET: "closed", "established" or "peer_closed"
  unsent,         \* sock_is_sending without SENDOK: bytes the peer has not acknowledged
  healthAge,      \* since last_health_check_tick
  reconnectAge,   \* since last_reconnect_attempt
  cable,          \* PHY link
  broker,         \* "up", "refusing" or "silent"
  session         \* the broker keeps the session of this socket

clock  == <<unrefreshed, held>>
thread == <<at, booting, waited, clock>>
client == <<gw_state, isconnected>>
socket == <<configured, sock, unsent>>
timers == <<healthAge, reconnectAge>>
world  == <<cable, broker, session>>
vars == <<thread, client, socket, timers, world>>

Waits == {"disconnect", "connect", "connack", "send"}
Unreachable == ~cable \/ broker = "silent"

TypeOK ==
  /\ at \in {"link", "top", "health", "reconnect", "publish", "rest"} \cup Waits
  /\ booting \in BOOLEAN
  /\ waited \in 0 .. LinkRetries + TcpTimeout + CommandTimeout
  /\ unrefreshed \in 0 .. WatchdogTimeout /\ held \in 0 .. WatchdogTimeout
  /\ gw_state \in {"INIT", "CONNECTED", "DISCONNECTED"}
  /\ isconnected \in BOOLEAN /\ configured \in BOOLEAN
  /\ sock \in {"closed", "established", "peer_closed"} /\ unsent \in BOOLEAN
  /\ healthAge \in 0 .. HEALTH_CHECK_INTERVAL
  /\ reconnectAge \in 0 .. RECONNECT_RETRY_INTERVAL
  /\ cable \in BOOLEAN /\ broker \in {"up", "refusing", "silent"}
  /\ session \in BOOLEAN

Older(age, max, n) == IF age + n > max THEN max ELSE age + n

\* Time passes for the timers and the watchdog.
Pass(n) ==
  /\ unrefreshed' = Older(unrefreshed, WatchdogTimeout, n)
  /\ healthAge' = Older(healthAge, HEALTH_CHECK_INTERVAL, n)
  /\ reconnectAge' = Older(reconnectAge, RECONNECT_RETRY_INTERVAL, n)

\* A unit of a wait for the network.
WaitOn ==
  /\ waited' = waited + 1
  /\ Pass(1)
  /\ held' = Older(held, WatchdogTimeout, 1)

\* The watchdog has not run out: the thread may take its step.
Alive == unrefreshed < WatchdogTimeout

Init ==
  /\ at = "link" /\ booting = TRUE /\ waited = 0 /\ unrefreshed = 0 /\ held = 0
  /\ gw_state = "INIT" /\ isconnected = FALSE
  /\ configured = FALSE /\ sock = "closed" /\ unsent = FALSE
  /\ healthAge = 0 /\ reconnectAge = 0
  /\ cable \in BOOLEAN /\ broker \in {"up", "refusing", "silent"}
  /\ session = FALSE

-----------------------------------------------------------------------------
(* The world.                                                               *)

\* A session outlives a short loss of the cable.
CableChanges ==
  /\ cable' = ~cable
  /\ UNCHANGED <<thread, client, socket, timers, broker, session>>

\* The broker comes up, or goes: its host is off or filtered (silent), or answers
\* with a reset (refusing).  With the broker its session ends.
BrokerChanges ==
  /\ broker' \in {"up", "refusing", "silent"} \ {broker}
  /\ session' = FALSE
  /\ UNCHANGED <<thread, client, socket, timers, cable>>

\* A broker that goes on ends the session: keep-alive, take-over of the client id.
BrokerEndsSession ==
  /\ session /\ session' = FALSE
  /\ UNCHANGED <<thread, client, socket, timers, cable, broker>>

\* The end of the session arrives as a FIN or a reset.
CloseArrives ==
  /\ sock = "established" /\ ~session /\ ~Unreachable
  /\ sock' \in {"closed", "peer_closed"}
  /\ UNCHANGED <<thread, client, configured, unsent, timers, world>>

\* The peer acknowledges what was sent.
AckArrives ==
  /\ sock = "established" /\ unsent /\ cable /\ session
  /\ unsent' = FALSE
  /\ UNCHANGED <<thread, client, configured, sock, timers, world>>

-----------------------------------------------------------------------------
(* Boot.                                                                    *)

\* W5500_Init looks at the link; with a link it configures the network, without
\* one it gives up before it does (wizchip_port.c:136-150, 191).
LinkFound ==
  /\ Alive /\ at = "link" /\ cable /\ waited < LinkRetries
  /\ configured' = TRUE
  /\ at' = "connect" /\ waited' = 0
  /\ Pass(1)
  /\ UNCHANGED <<booting, held, client, sock, unsent, world>>

LinkMissing ==
  /\ Alive /\ at = "link" /\ ~cable /\ waited < LinkRetries
  /\ waited' = waited + 1
  /\ Pass(1)
  /\ UNCHANGED <<at, booting, held, client, socket, world>>

\* The end of the boot: the first gw_state, and MX_APPE_Init on the way.
EnterLoop(ready) ==
  /\ gw_state' = IF ready THEN "CONNECTED" ELSE "DISCONNECTED"
  /\ at' = "rest" /\ waited' = 0
  /\ UNCHANGED booting

\* No link, or a chip that does not answer before the first look at it.
LinkGivenUp ==
  /\ Alive /\ at = "link" /\ waited \in {0, LinkRetries}
  /\ EnterLoop(FALSE)
  /\ UNCHANGED <<clock, isconnected, socket, timers, world>>

-----------------------------------------------------------------------------
(* mqtt_network_init and mqtt_connect_broker, at boot and from the loop.    *)

\* Mutant: success is assumed.
AttemptedOptimistic(ready) ==
  IF booting THEN EnterLoop(TRUE)
  ELSE /\ at' = "publish" /\ waited' = 0
       /\ gw_state' = "CONNECTED"
       /\ UNCHANGED booting

\* A connection attempt is over: the boot enters the loop, a reconnect goes on
\* in it.  Only a success changes gw_state there.
Attempted(ready) ==
  IF booting THEN EnterLoop(ready)
  ELSE /\ at' = "publish" /\ waited' = 0
       /\ gw_state' = IF ready THEN "CONNECTED" ELSE gw_state
       /\ UNCHANGED booting

\* disconnect() sends a FIN and waits for the answer, unless the socket is closed.
DisconnectWaits ==
  /\ Alive /\ at = "disconnect" /\ sock # "closed" /\ Unreachable
  /\ waited < TcpTimeout
  /\ WaitOn
  /\ UNCHANGED <<at, booting, client, socket, world>>

Disconnected ==
  /\ Alive /\ at = "disconnect"
  /\ sock = "closed" \/ ~Unreachable \/ waited = TcpTimeout
  /\ sock' = "closed" /\ unsent' = FALSE /\ session' = FALSE
  /\ at' = "connect" /\ waited' = 0
  /\ UNCHANGED <<booting, clock, client, configured, timers, cable, broker>>

Established ==
  /\ Alive /\ at = "connect" /\ configured /\ cable /\ broker = "up"
  /\ sock' = "established" /\ unsent' = FALSE /\ session' = TRUE
  /\ isconnected' = FALSE     \* MQTTClientInit
  /\ at' = "connack" /\ waited' = 0
  /\ UNCHANGED <<booting, clock, gw_state, configured, timers, cable, broker>>

\* The SYN or the ARP request stays without an answer.
ConnectWaits ==
  /\ Alive /\ at = "connect" /\ configured /\ waited < TcpTimeout
  /\ Unreachable
  /\ WaitOn
  /\ UNCHANGED <<at, booting, client, socket, world>>

\* The attempt fails: no IP address, a reset, no answer to ARP after a moment, none
\* to the SYN after TcpTimeout.  mqtt_connect_broker is not called, and the client
\* keeps the isconnected it had.
ConnectFails ==
  /\ Alive /\ at = "connect"
  /\ \/ ~configured
     \/ cable /\ broker = "refusing"
     \/ Unreachable /\ waited \in {1, TcpTimeout}
  /\ sock' = "closed" /\ unsent' = FALSE
  /\ Attempted(FALSE)
  /\ UNCHANGED <<clock, isconnected, configured, timers, world>>

\* MQTTConnect returns: with the CONNACK, which may refuse, or at the end of its
\* timer.
MQTTConnectReturns ==
  /\ Alive /\ at = "connack"
  /\ \E accepted \in BOOLEAN :
       /\ (cable /\ session) \/ (~accepted /\ waited = CommandTimeout)
       /\ isconnected' = accepted
       /\ Attempted(accepted)
  /\ UNCHANGED <<clock, socket, timers, world>>

\* The CONNECT cannot be sent: the socket is closed already.
ConnectNotSent ==
  /\ Alive /\ at = "connack" /\ waited = 0 /\ sock = "closed"
  /\ isconnected' = FALSE
  /\ Attempted(FALSE)
  /\ UNCHANGED <<clock, socket, timers, world>>

\* waitfor reads until its timer ends, on a closed socket as well.
ConnackWaits ==
  /\ Alive /\ at = "connack" /\ waited < CommandTimeout
  /\ ~cable \/ ~session
  /\ WaitOn
  /\ UNCHANGED <<at, booting, client, socket, world>>

-----------------------------------------------------------------------------
(* The main loop.                                                           *)

\* Mutant: the watchdog is not refreshed in every loop.
TurnWithoutRefresh(n) ==
  /\ Alive /\ at = "top"
  /\ Pass(n)
  /\ booting' = FALSE
  /\ at' = "health"
  /\ UNCHANGED <<waited, held, client, socket, world>>

\* HAL_IWDG_Refresh and MX_APPE_Process.
Turn(n) ==
  /\ Alive /\ at = "top"
  /\ unrefreshed' = n /\ held' = 0 /\ booting' = FALSE
  /\ healthAge' = Older(healthAge, HEALTH_CHECK_INTERVAL, n)
  /\ reconnectAge' = Older(reconnectAge, RECONNECT_RETRY_INTERVAL, n)
  /\ at' = "health"
  /\ UNCHANGED <<waited, client, socket, world>>

\* Mutant: the cable is not looked at.
HealthyWithoutCable == isconnected

Healthy == cable /\ isconnected

gateway_health_check ==
  /\ Alive /\ at = "health"
  /\ at' = "reconnect"
  /\ IF healthAge < HEALTH_CHECK_INTERVAL
     THEN UNCHANGED <<gw_state, healthAge>>
     ELSE /\ healthAge' = 0
          /\ gw_state' = IF Healthy THEN "CONNECTED" ELSE "DISCONNECTED"
  /\ UNCHANGED <<booting, waited, clock, isconnected, socket, reconnectAge, world>>

\* No attempt: nothing to do, too early, or no cable.
SkipReconnect ==
  /\ Alive /\ at = "reconnect"
  /\ at' = "publish"
  /\ \/ /\ gw_state # "DISCONNECTED" \/ reconnectAge < RECONNECT_RETRY_INTERVAL
        /\ UNCHANGED reconnectAge
     \/ /\ gw_state = "DISCONNECTED" /\ reconnectAge = RECONNECT_RETRY_INTERVAL
        /\ ~cable
        /\ reconnectAge' = 0
  /\ UNCHANGED <<booting, waited, clock, client, socket, healthAge, world>>

\* Mutant: a gateway that was never connected does not try.
TryReconnectNever ==
  /\ Alive /\ at = "reconnect"
  /\ gw_state = "DISCONNECTED" /\ reconnectAge = RECONNECT_RETRY_INTERVAL /\ cable
  /\ at' = "publish"
  /\ reconnectAge' = 0
  /\ UNCHANGED <<booting, waited, clock, client, socket, healthAge, world>>

TryReconnect ==
  /\ Alive /\ at = "reconnect"
  /\ gw_state = "DISCONNECTED" /\ reconnectAge = RECONNECT_RETRY_INTERVAL /\ cable
  /\ reconnectAge' = 0
  /\ at' = "disconnect" /\ waited' = 0
  /\ UNCHANGED <<booting, clock, client, socket, healthAge, world>>

\* handle_ble_messages with nothing to send, or a socket that refuses: it ends.
PublishNothing ==
  /\ Alive /\ at = "publish"
  /\ at' = "rest"
  /\ UNCHANGED <<booting, waited, clock, client, socket, timers, world>>

\* What the drain did besides waiting, the LEDs and mqtt_yield, which may wait a
\* second for a ping; at boot, MX_APPE_Init.  The next refresh comes after it.
LoopEnds(n) ==
  /\ Alive /\ at = "rest"
  /\ Pass(n)
  /\ at' = "top"
  /\ UNCHANGED <<booting, waited, held, client, socket, world>>

\* A message of a device goes out when nothing is unacknowledged.
Publish ==
  /\ Alive /\ at = "publish"
  /\ gw_state = "CONNECTED" /\ isconnected /\ sock = "established" /\ ~unsent
  /\ unsent' = TRUE
  /\ UNCHANGED <<thread, client, configured, sock, timers, world>>

\* send() answers SOCK_BUSY and sendPacket tries again.
PublishBlocks ==
  /\ Alive /\ at = "publish"
  /\ gw_state = "CONNECTED" /\ isconnected /\ sock = "established" /\ unsent
  /\ at' = "send" /\ waited' = 0
  /\ UNCHANGED <<booting, clock, client, socket, timers, world>>

SendWaits ==
  /\ Alive /\ at = "send" /\ sock = "established" /\ unsent
  /\ Unreachable /\ waited < CommandTimeout /\ waited < TcpTimeout
  /\ WaitOn
  /\ UNCHANGED <<at, booting, client, socket, world>>

\* The acknowledgement came, the peer closed, or a timer ended: back to the loop.
\* The retransmission timeout closes the socket and says so to no one.
SendEnds ==
  /\ Alive /\ at = "send"
  /\ \/ /\ sock # "established" \/ ~unsent \/ waited = CommandTimeout
        /\ UNCHANGED <<sock, unsent>>
     \/ /\ sock = "established" /\ unsent /\ waited = TcpTimeout
        /\ sock' = "closed" /\ unsent' = FALSE
  /\ at' = "publish" /\ waited' = 0
  /\ UNCHANGED <<booting, clock, client, configured, timers, world>>

\* The watchdog resets the MCU, and the boot resets the W5500.
WatchdogReset ==
  /\ ~Alive
  /\ at' = "link" /\ booting' = TRUE /\ waited' = 0 /\ unrefreshed' = 0 /\ held' = 0
  /\ gw_state' = "INIT" /\ isconnected' = FALSE
  /\ configured' = FALSE /\ sock' = "closed" /\ unsent' = FALSE
  /\ healthAge' = 0 /\ reconnectAge' = 0
  /\ UNCHANGED world

-----------------------------------------------------------------------------
World == CableChanges \/ BrokerChanges \/ BrokerEndsSession
Peer  == CloseArrives \/ AckArrives

Connecting ==
  \/ DisconnectWaits \/ Disconnected
  \/ Established \/ ConnectWaits \/ ConnectFails
  \/ MQTTConnectReturns \/ ConnectNotSent \/ ConnackWaits

Thread ==
  \/ LinkFound \/ LinkMissing \/ LinkGivenUp
  \/ Connecting
  \/ (\E n \in 0 .. LoopMax : Turn(n)) \/ gateway_health_check
  \/ SkipReconnect \/ TryReconnect
  \/ PublishNothing \/ PublishBlocks \/ SendWaits \/ SendEnds
  \/ (\E n \in 0 .. RestMax : LoopEnds(n))
  \/ WatchdogReset

Next == World \/ Peer \/ Thread \/ Publish

Spec == Init /\ [][Next]_vars

\* The thread runs, its clock ticks in the loop, the loop comes round, and what the
\* peer sends arrives.  A broker that is up and reachable accepts in the end.
FairSpec ==
  /\ Spec
  /\ WF_vars(Thread) /\ SF_vars(Turn(1)) /\ SF_vars(PublishNothing)
  /\ WF_vars(CloseArrives) /\ WF_vars(AckArrives)
  /\ SF_vars(MQTTConnectReturns /\ isconnected')

-----------------------------------------------------------------------------
\* CONNECTED is never claimed without a CONNACK since the last boot: neither the
\* boot, nor the health check, nor a reconnect that fails half way can claim it
\* (main.c:203-210, 767-787, 812-823; MQTTClient.c:362-381).
ConnectedWasAccepted == gw_state = "CONNECTED" => isconnected

\* What boot and loop take by themselves between two refreshes.
OwnTime == (IF booting THEN LinkRetries ELSE LoopMax) + RestMax

\* The watchdog resets the gateway only when the network has held it up since the
\* last refresh: all the waits of one loop (disconnect, connect, CONNACK, every
\* publish) must add up to what its own work leaves of the 15 s.  A network that
\* answers never costs a reset, however the loop's own phases add up
\* (main.c:215, 371-374; wizchip_port.c:140-147).
ResetsNeedAnOutage == ~Alive => held >= WatchdogTimeout - OwnTime

\* A lost cable is noticed, or is back, or the gateway resets (main.c:758-775).
CableLossNoticed ==
  ~cable ~> (cable \/ gw_state # "CONNECTED")

\* A gateway that found its cable at boot and has no session yet gets one, once the
\* cable and the broker stay (main.c:791-824).
FirstSessionIsMade ==
  []<>~(cable /\ broker = "up" /\ configured /\ ~isconnected)

\* README.md:103: the health check keeps gw_state true to the MQTT connection: a
\* session that is lost is noticed, or made again.
SessionLossNoticed ==
  (gw_state = "CONNECTED" /\ sock # "established") ~>
    (gw_state # "CONNECTED" \/ sock = "established")
=============================================================================
