-------------------------------- MODULE Bus ---------------------------------
(***************************************************************************)
(* lib/bluesense-superhub/messaging/bus.js over redis publish/subscribe.   *)
(* Every Bus object has two redis clients. Redis keeps nothing: a message  *)
(* reaches the clients subscribed at that moment, in order, or no one.     *)
(***************************************************************************)
EXTENDS Naturals, Sequences

CONSTANTS
    Clients,        \* the Bus objects of the hub
    Router,         \* the one in the Router process
    MaxInbox        \* bound: messages under way to each client

ASSUME RouterAssumption == Router \in Clients
ASSUME MaxInboxAssumption == MaxInbox \in [Clients -> Nat \ {0}]

VARIABLES
    subscriber,     \* state of each client's subscribing connection
    publisher,      \* state of each client's publishing connection
    inbox           \* messages redis has sent, 'message' not yet emitted

busVars == <<subscriber, publisher, inbox>>

BusTypeOK(Messages) ==
    /\ subscriber \in [Clients -> {"connecting", "subscribed", "ended"}]
    /\ publisher \in [Clients -> {"connecting", "ready", "ended"}]
    /\ inbox \in [Clients -> Seq(Messages)]
    /\ \A c \in Clients : Len(inbox[c]) <= MaxInbox[c]

BusInit ==
    /\ subscriber = [c \in Clients |-> "connecting"]
    /\ publisher = [c \in Clients |-> "connecting"]
    /\ inbox = [c \in Clients |-> <<>>]

-----------------------------------------------------------------------------
\* A mutated SubscribedChannel: all processes listen to one channel.
OneChannel(c) == "inbound"

SubscribedChannel(c) == IF c = Router THEN "outbound" ELSE "inbound"
PublishChannel(c) == IF c = Router THEN "inbound" ELSE "outbound"

Listeners(c) ==
    {d \in Clients : /\ subscriber[d] = "subscribed"
                     /\ SubscribedChannel(d) = PublishChannel(c)}

\* The bound, not a guard of the code.
Room(c) == \A d \in Listeners(c) : Len(inbox[d]) < MaxInbox[d]

\* publish(): what the inboxes become. Without a ready connection the
\* message is dropped, for the offline queue is disabled.
Published(c, m, boxes) ==
    IF publisher[c] # "ready" THEN boxes
    ELSE [d \in Clients |-> IF d \in Listeners(c) THEN Append(boxes[d], m)
                            ELSE boxes[d]]

Publish(c, m) ==
    /\ Room(c)
    /\ inbox' = Published(c, m, inbox)
    /\ UNCHANGED <<subscriber, publisher>>

Arrived(c) == inbox[c] # <<>>
Taken(c) == [inbox EXCEPT ![c] = Tail(@)]

\* _onMessage(): the listeners of the client run on its first message.
Take(c) ==
    /\ Arrived(c)
    /\ inbox' = Taken(c)
    /\ UNCHANGED <<subscriber, publisher>>

\* ... and publish another one.
TakeAndPublish(c, m) ==
    /\ Arrived(c) /\ Room(c)
    /\ inbox' = Published(c, m, Taken(c))
    /\ UNCHANGED <<subscriber, publisher>>

-----------------------------------------------------------------------------
(* The connections.                                                        *)

\* _onReady(): connected to redis, and SUBSCRIBE has taken effect.
OnReady(c) ==
    /\ subscriber[c] = "connecting"
    /\ subscriber' = [subscriber EXCEPT ![c] = "subscribed"]
    /\ UNCHANGED <<publisher, inbox>>

\* A mutated PublisherReady: a state no other operator knows.
PublisherReadyMisnamed(c) ==
    /\ publisher[c] = "connecting"
    /\ publisher' = [publisher EXCEPT ![c] = "subscribed"]
    /\ UNCHANGED <<subscriber, inbox>>

PublisherReady(c) ==
    /\ publisher[c] = "connecting"
    /\ publisher' = [publisher EXCEPT ![c] = "ready"]
    /\ UNCHANGED <<subscriber, inbox>>

\* A connection is refused or lost. redis asks _retryStrategy for a delay;
\* it is not bound to the Bus, throws, and the client stays ended until the
\* process is restarted.
SubscriberEnd(c) ==
    /\ subscriber[c] # "ended"
    /\ subscriber' = [subscriber EXCEPT ![c] = "ended"]
    /\ inbox' = [inbox EXCEPT ![c] = <<>>]
    /\ UNCHANGED publisher

PublisherEnd(c) ==
    /\ publisher[c] # "ended"
    /\ publisher' = [publisher EXCEPT ![c] = "ended"]
    /\ UNCHANGED <<subscriber, inbox>>

\* The process of c is started anew and makes a Bus object of its own: what
\* redis was sending to the old one is lost.
BusRestart(c) ==
    /\ subscriber' = [subscriber EXCEPT ![c] = "connecting"]
    /\ publisher' = [publisher EXCEPT ![c] = "connecting"]
    /\ inbox' = [inbox EXCEPT ![c] = <<>>]
=============================================================================
