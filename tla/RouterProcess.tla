--------------------------- MODULE RouterProcess ----------------------------
(***************************************************************************)
(* The Router process: lib/bluesense-superhub/router.js between the        *)
(* websocket to the platform (messaging/websocket.js) and the bus. The     *)
(* other clients of the bus are an environment that publishes and listens; *)
(* Hub puts the real components in their place.                            *)
(***************************************************************************)
EXTENDS Bus

CONSTANTS
    PlatformMessages,   \* what the platform sends
    ComponentMessages,  \* what the components of the hub publish
    Failing,            \* clients whose redis connections may end
    Restarting,         \* clients whose process may be restarted
    Witnesses           \* components whose history is recorded in heard

VARIABLES
    ws,             \* the socket: connecting, open, or waiting to reconnect
    connected,      \* _connected
    forwarded,      \* the message this step sent to the platform, if any
    heard,          \* history: what each witness's process knows of the Router
    spoken          \* history: this Router process has got a status out

routerVars == <<ws, connected, forwarded, heard, spoken>>
vars == <<busVars, routerVars>>

NoMessage == [kind |-> "none"]
Connected == [kind |-> "connected"]         \* route ConnectedToPlatform
Disconnected == [kind |-> "disconnected"]   \* route DisconnectedFromPlatform
StatusMessages == {Connected, Disconnected}
RouterMessages == StatusMessages \cup PlatformMessages
Components == Clients \ {Router}

ASSUME WitnessesAssumption == Witnesses \subseteq Components

\* The platform does not send what only the hub itself may say.
ASSUME MessagesAssumption ==
    /\ RouterMessages \cap ComponentMessages = {}
    /\ StatusMessages \cap PlatformMessages = {}
    /\ NoMessage \notin RouterMessages \cup ComponentMessages

TypeOK ==
    /\ BusTypeOK(RouterMessages \cup ComponentMessages)
    /\ ws \in {"connecting", "open", "closed"}
    /\ connected \in BOOLEAN
    /\ forwarded \in RouterMessages \cup ComponentMessages \cup {NoMessage}
    /\ heard \in [Witnesses -> [last : StatusMessages \cup {NoMessage}, alone : BOOLEAN]]
    /\ spoken \in BOOLEAN

\* The last status a witness received, and that no other Router process than
\* the present one can have sent it any.
Unheard == [last |-> NoMessage, alone |-> TRUE]

RouterInit ==
    /\ ws = "connecting"
    /\ connected = FALSE
    /\ forwarded = NoMessage
    /\ heard = [c \in Witnesses |-> Unheard]
    /\ spoken = FALSE

Init == BusInit /\ RouterInit

-----------------------------------------------------------------------------
(* The websocket and the handlers router.js attaches to it.                *)

Announce(status) ==
    /\ Publish(Router, status)
    /\ spoken' = (spoken \/ publisher[Router] = "ready")

\* 'open', hence _onPlatformConnect.
WsOpen ==
    /\ ws = "connecting"
    /\ ws' = "open"
    /\ IF connected THEN UNCHANGED <<connected, spoken, busVars>>
       ELSE connected' = TRUE /\ Announce(Connected)
    /\ forwarded' = NoMessage
    /\ UNCHANGED heard

\* A mutated WsClose: the guard on _connected is missing.
WsCloseUnguarded ==
    /\ ws # "closed"
    /\ ws' = "closed"
    /\ connected' = FALSE
    /\ Announce(Disconnected)
    /\ forwarded' = NoMessage
    /\ UNCHANGED heard

\* A mutated WsClose: the disconnection is not recorded.
WsCloseForgotten ==
    /\ ws # "closed"
    /\ ws' = "closed"
    /\ IF connected THEN Announce(Disconnected)
       ELSE UNCHANGED <<spoken, busVars>>
    /\ forwarded' = NoMessage
    /\ UNCHANGED <<heard, connected>>

\* A mutated WsClose: the components are not told.
WsCloseSilent ==
    /\ ws # "closed"
    /\ ws' = "closed"
    /\ connected' = FALSE
    /\ forwarded' = NoMessage
    /\ UNCHANGED <<heard, spoken, busVars>>

\* 'close' of an open socket or of an attempt: a reconnect is scheduled,
\* then _onPlatformDisconnect.
WsClose ==
    /\ ws # "closed"
    /\ ws' = "closed"
    /\ IF connected THEN connected' = FALSE /\ Announce(Disconnected)
       ELSE UNCHANGED <<connected, spoken, busVars>>
    /\ forwarded' = NoMessage
    /\ UNCHANGED heard

\* The reconnect timer: _connect(url) makes a new socket.
Reconnect ==
    /\ ws = "closed"
    /\ ws' = "connecting"
    /\ forwarded' = NoMessage
    /\ UNCHANGED <<connected, heard, spoken, busVars>>

OnPlatformMessage(m) ==
    /\ ws = "open"
    /\ Publish(Router, m)
    /\ forwarded' = NoMessage
    /\ UNCHANGED <<ws, connected, heard, spoken>>

\* send() drops the message unless the socket is open.
OnBusMessage ==
    /\ Take(Router)
    /\ forwarded' = IF ws = "open" THEN Head(inbox[Router]) ELSE NoMessage
    /\ UNCHANGED <<ws, connected, heard, spoken>>

-----------------------------------------------------------------------------
(* The components, seen from the bus.                                      *)

\* Bookkeeping of a component that takes its first message.
Hear(c) ==
    /\ heard' = IF c \in Witnesses /\ Head(inbox[c]) \in StatusMessages
                THEN [heard EXCEPT ![c].last = Head(inbox[c])] ELSE heard
    /\ forwarded' = NoMessage
    /\ UNCHANGED <<ws, connected, spoken>>

Receive(c) == Take(c) /\ Hear(c)

\* A component answers what it receives.
Reply(c, m) == TakeAndPublish(c, m) /\ Hear(c)

\* A step of the bus that router.js has no part in.
Quietly(A) ==
    /\ A
    /\ forwarded' = NoMessage
    /\ UNCHANGED <<ws, connected, heard, spoken>>

Emit(c, m) == Quietly(Publish(c, m))

Connection(c) ==
    \/ Quietly(OnReady(c))
    \/ Quietly(PublisherReady(c))
    \/ c \in Failing /\ Quietly(SubscriberEnd(c))
    \/ c \in Failing /\ Quietly(PublisherEnd(c))

-----------------------------------------------------------------------------
(* pm2 starts a process anew (processes.json). Nothing is stored: it knows *)
(* neither what its predecessor announced nor what it had heard.           *)

RestartRouter ==
    /\ Router \in Restarting
    /\ BusRestart(Router)
    /\ ws' = "connecting"
    /\ connected' = FALSE
    /\ forwarded' = NoMessage
    /\ spoken' = FALSE
    /\ heard' = [c \in Witnesses |->
                    IF subscriber[c] = "connecting" THEN heard[c]
                    ELSE [heard[c] EXCEPT !.alone = FALSE]]

RestartComponent(c) ==
    /\ c \in Restarting
    /\ BusRestart(c)
    /\ forwarded' = NoMessage
    /\ heard' = [d \in Witnesses |-> IF d = c THEN Unheard ELSE heard[d]]
    /\ UNCHANGED <<ws, connected, spoken>>

-----------------------------------------------------------------------------
RouterStep ==
    \/ WsOpen
    \/ WsClose
    \/ Reconnect
    \/ OnBusMessage
    \/ \E m \in PlatformMessages : OnPlatformMessage(m)
    \/ RestartRouter

Next ==
    \/ RouterStep
    \/ \E c \in Components :
           \/ Receive(c)
           \/ \E m \in ComponentMessages : Emit(c, m) \/ Reply(c, m)
           \/ RestartComponent(c)
    \/ \E c \in Clients : Connection(c)

Spec == Init /\ [][Next]_vars

-----------------------------------------------------------------------------
(* Safety *)

\* bus.js:16-19: a message from the platform is not retransmitted to it.
\* What travels to the Router was published by a component, and what a
\* component receives was published by the Router.
NoEcho ==
    \A c \in Clients : \A i \in DOMAIN inbox[c] :
        inbox[c][i] \in IF c = Router THEN ComponentMessages ELSE RouterMessages

\* What a witness has heard last, at 0, and what it will hear, in order.
Told(c) == [i \in 0 .. Len(inbox[c]) |->
               IF i = 0 THEN heard[c].last ELSE inbox[c][i]]

\* Where the statuses are among that.
StatusAt(c) == {i \in DOMAIN Told(c) : Told(c)[i] \in StatusMessages}

\* router.spec.js:94, 124: no witness hears of the same status twice in a
\* row, however often attempts to connect fail in between and components are
\* restarted. Only a Router that is restarted over a witness may repeat what
\* its predecessor said.
StatusesAlternate ==
    \A c \in Witnesses : heard[c].alone => \A i, j \in StatusAt(c) :
        i < j /\ (\A k \in StatusAt(c) : k <= i \/ k >= j)
            => Told(c)[i] # Told(c)[j]

\* A witness that still has both ends of the bus, and has been told
\* anything, ends up with the status of the socket, once the present Router
\* process has got any status out.
CurrentStatus == IF ws = "open" THEN Connected ELSE Disconnected
LastStatusIsCurrent ==
    \A c \in Witnesses :
        /\ subscriber[c] = "subscribed"
        /\ publisher[Router] = "ready"
        /\ spoken
        => \A i \in StatusAt(c) :
              (\A k \in StatusAt(c) : k <= i) => Told(c)[i] = CurrentStatus
=============================================================================
