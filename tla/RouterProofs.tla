---------------------------- MODULE RouterProofs ----------------------------
(***************************************************************************)
(* The safety properties of RouterProcess, for any clients, bounds on the  *)
(* inboxes and messages, and any choice of the processes that may fail or  *)
(* be restarted. The invariant has three parts. BusInv speaks of the bus   *)
(* alone: whatever a component or the Router does is one of the steps of   *)
(* BusStep. RouterInv ties the flag to the socket, and says that a Router  *)
(* whose publisher has never been ready has not got anything out.          *)
(* WitnessInv speaks of what one witness heard and will hear, laid out in  *)
(* a row: that its statuses alternate is kept only because the last one is *)
(* the opposite of the one announced next (LastStatusIsCurrent), or        *)
(* because there is none while the Router has not spoken.                  *)
(***************************************************************************)
EXTENDS RouterProcess, TLAPS

Messages == RouterMessages \cup ComponentMessages

\* Told(c), of a last status and an inbox that need not be those of a state.
Row(last, box) == [i \in 0 .. Len(box) |-> IF i = 0 THEN last ELSE box[i]]

\* The places of the row that hold a status.
Marks(row) == {i \in DOMAIN row : row[i] \in StatusMessages}

\* No two statuses of the row with none between them are the same.
Alternates(row) ==
    \A i, j \in Marks(row) :
        i < j /\ (\A k \in Marks(row) : k <= i \/ k >= j) => row[i] # row[j]

\* The last status in the row, if there is any, is s.
EndsIn(row, s) ==
    \A i \in Marks(row) : (\A k \in Marks(row) : k <= i) => row[i] = s

\* A message that is no status leaves the statuses of the row as they were.
LEMMA AppendOtherRow ==
    ASSUME NEW box \in Seq(Messages), NEW last, NEW m \in Messages \ StatusMessages
    PROVE  LET row == Row(last, box)
               new == Row(last, Append(box, m))
           IN  /\ Marks(new) = Marks(row)
               /\ \A i \in Marks(new) : new[i] = row[i]
<1> DEFINE row == Row(last, box)
           new == Row(last, Append(box, m))
<1>1. Len(box) \in Nat /\ Len(Append(box, m)) = Len(box) + 1
  OBVIOUS
<1>2. DOMAIN row = 0 .. Len(box) /\ DOMAIN new = 0 .. Len(box) + 1
  BY <1>1 DEF Row
<1>3. \A i \in 0 .. Len(box) : new[i] = row[i]
  BY <1>1 DEF Row
<1>4. new[Len(box) + 1] = m
  BY <1>1 DEF Row
<1>5. Marks(new) = Marks(row)
  BY <1>1, <1>2, <1>3, <1>4 DEF Marks
<1> QED BY <1>5, <1>3, <1>2 DEF Marks

\* A status becomes the last one of the row, and alternates with the others if
\* it differs from the one that was last or there was none.
LEMMA AppendStatusRow ==
    ASSUME NEW box \in Seq(Messages), NEW last, NEW m \in StatusMessages
    PROVE  LET row == Row(last, box)
               new == Row(last, Append(box, m))
           IN  /\ EndsIn(new, m)
               /\ \A s : Alternates(row) /\ EndsIn(row, s) /\ s # m => Alternates(new)
               /\ Marks(row) = {} => Alternates(new)
<1> DEFINE row == Row(last, box)
           new == Row(last, Append(box, m))
           n == Len(box)
<1>1. m \in Messages
  BY DEF Messages, RouterMessages
<1>2. n \in Nat /\ Len(Append(box, m)) = n + 1
  BY <1>1
<1>3. DOMAIN row = 0 .. n /\ DOMAIN new = 0 .. n + 1
  BY <1>2 DEF Row
<1>4. \A i \in 0 .. n : new[i] = row[i]
  BY <1>1, <1>2 DEF Row
<1>5. new[n + 1] = m
  BY <1>1, <1>2 DEF Row
<1> HIDE DEF row, new, n
<1>6. Marks(new) = Marks(row) \cup {n + 1}
  BY <1>2, <1>3, <1>4, <1>5 DEF Marks
<1>7. \A i \in Marks(row) : i \in Nat /\ i < n + 1 /\ new[i] = row[i]
  BY <1>2, <1>3, <1>4 DEF Marks
<1>8. EndsIn(new, m)
  BY <1>2, <1>5, <1>6, <1>7 DEF EndsIn
<1>9. ASSUME NEW s, Alternates(row), EndsIn(row, s), s # m
      PROVE  Alternates(new)
  BY <1>2, <1>5, <1>6, <1>7, <1>9 DEF Alternates, EndsIn
<1>10. Marks(row) = {} => Alternates(new)
  BY <1>2, <1>6 DEF Alternates
<1> QED BY <1>8, <1>9, <1>10 DEF row, new

\* Taking the first message, and remembering it if it is a status, keeps the
\* statuses of the row in their order: back maps the places of the new row to
\* those of the old one.
LEMMA TakeRow ==
    ASSUME NEW box \in Seq(Messages), box # <<>>, NEW last
    PROVE  LET row == Row(last, box)
               new == Row(IF Head(box) \in StatusMessages THEN Head(box) ELSE last,
                          Tail(box))
           IN  /\ Marks(row) = {} => Marks(new) = {}
               /\ Alternates(row) => Alternates(new)
               /\ \A s : EndsIn(row, s) => EndsIn(new, s)
<1> DEFINE row == Row(last, box)
           new == Row(IF Head(box) \in StatusMessages THEN Head(box) ELSE last,
                      Tail(box))
           n == Len(box)
           back(i) == IF i = 0 /\ Head(box) \notin StatusMessages THEN 0 ELSE i + 1
<1>1. n \in Nat \ {0} /\ Len(Tail(box)) = n - 1
  OBVIOUS
<1>2. DOMAIN row = 0 .. n /\ DOMAIN new = 0 .. n - 1
  BY <1>1 DEF Row
<1>3. \A i \in 1 .. n - 1 : new[i] = row[i + 1]
  BY <1>1 DEF Row
<1>4. row[1] = Head(box)
  BY <1>1 DEF Row
<1>5. new[0] = IF Head(box) \in StatusMessages THEN row[1] ELSE row[0]
  BY <1>1, <1>4 DEF Row
<1> HIDE DEF row, new, n
<1>6. \A i \in Marks(new) : back(i) \in Marks(row) /\ new[i] = row[back(i)]
  BY <1>1, <1>2, <1>3, <1>4, <1>5 DEF Marks
<1>7. \A k \in Marks(row) : k = 0 \/ \E i \in Marks(new) : k = back(i)
  <2> SUFFICES ASSUME NEW k \in Marks(row), k # 0
               PROVE  \E i \in Marks(new) : k = back(i)
    OBVIOUS
  <2>1. k \in 1 .. n /\ row[k] \in StatusMessages
    BY <1>1, <1>2 DEF Marks
  <2>2. k - 1 \in 0 .. n - 1 /\ new[k - 1] = row[k]
    BY <1>1, <1>3, <1>4, <1>5, <2>1
  <2>3. k - 1 \in Marks(new)
    BY <1>2, <2>1, <2>2 DEF Marks
  <2>4. back(k - 1) = k
    BY <1>4, <2>1
  <2> QED BY <2>3, <2>4
<1>8. Marks(new) \subseteq 0 .. n - 1 /\ Marks(row) \subseteq 0 .. n
  BY <1>2 DEF Marks
<1>9. ASSUME NEW i \in Marks(new), NEW j \in Marks(new)
      PROVE  (i < j <=> back(i) < back(j)) /\ (i <= j <=> back(i) <= back(j))
  BY <1>1, <1>8
<1>10. \A k \in Marks(row), i \in Marks(new) : k = 0 => k <= back(i)
  BY <1>1, <1>8
<1> HIDE DEF back
<1>11. Marks(row) = {} => Marks(new) = {}
  BY <1>6
<1>12. ASSUME Alternates(row) PROVE Alternates(new)
  <2> SUFFICES ASSUME NEW i \in Marks(new), NEW j \in Marks(new), i < j,
                      \A k \in Marks(new) : k <= i \/ k >= j
               PROVE  new[i] # new[j]
    BY DEF Alternates
  <2>1. \A k \in Marks(row) : k <= back(i) \/ k >= back(j)
    BY <1>7, <1>8, <1>9, <1>10
  <2> QED BY <1>12, <1>6, <1>9, <2>1 DEF Alternates
<1>13. ASSUME NEW s, EndsIn(row, s) PROVE EndsIn(new, s)
  <2> SUFFICES ASSUME NEW i \in Marks(new), \A k \in Marks(new) : k <= i
               PROVE  new[i] = s
    BY DEF EndsIn
  <2>1. \A k \in Marks(row) : k <= back(i)
    BY <1>7, <1>9, <1>10
  <2> QED BY <1>13, <1>6, <2>1 DEF EndsIn
<1> QED BY <1>11, <1>12, <1>13 DEF row, new

-----------------------------------------------------------------------------
\* No message is under way to a client that redis does not know.
NothingBeforeSubscribing ==
    \A c \in Clients : subscriber[c] # "subscribed" => inbox[c] = <<>>

BusInv ==
    /\ BusTypeOK(Messages)
    /\ NoEcho
    /\ NothingBeforeSubscribing

\* What a client may publish.
Sends(c) == IF c = Router THEN RouterMessages ELSE ComponentMessages

\* What c publishes now reaches d.
Hears(c, d) == /\ publisher[c] = "ready"
               /\ subscriber[d] = "subscribed"
               /\ c = Router <=> d # Router

\* Publishing appends to the inboxes of those that hear the client, only.
LEMMA PublishedBox ==
    ASSUME BusInv, NEW c \in Clients, NEW m, NEW boxes \in [Clients -> Seq(Messages)],
           NEW d \in Clients
    PROVE  Published(c, m, boxes)[d] =
               IF Hears(c, d) THEN Append(boxes[d], m) ELSE boxes[d]
BY DEF Published, Hears, Listeners, SubscribedChannel, PublishChannel

\* What a client publishes keeps BusInv, over inboxes that hold no more than
\* the present ones: those themselves, or those after it took a message.
LEMMA BoxesKeepBusInv ==
    ASSUME BusInv, NEW c \in Clients, NEW m \in Sends(c), Room(c),
           NEW boxes \in [Clients -> Seq(Messages)],
           \A d \in Clients :
               /\ Len(boxes[d]) <= Len(inbox[d])
               /\ \A i \in 1 .. Len(boxes[d]) : \E j \in 1 .. Len(inbox[d]) :
                      boxes[d][i] = inbox[d][j],
           inbox' = Published(c, m, boxes),
           UNCHANGED <<subscriber, publisher>>
    PROVE  BusInv'
<1>1. m \in Messages
  BY DEF Sends, Messages
<1>2. \A d \in Clients : inbox'[d] = IF Hears(c, d) THEN Append(boxes[d], m) ELSE boxes[d]
  BY PublishedBox
<1>3. ASSUME NEW d \in Clients
      PROVE  /\ Append(boxes[d], m) \in Seq(Messages)
             /\ Len(Append(boxes[d], m)) = Len(boxes[d]) + 1
  <2>1. boxes[d] \in Seq(Messages)
    OBVIOUS
  <2> QED BY <1>1, <2>1
<1>4. inbox' \in [Clients -> Seq(Messages)]
  <2>1. DOMAIN inbox' = Clients /\ inbox' = [d \in Clients |-> inbox'[d]]
    BY DEF Published
  <2>2. \A d \in Clients : inbox'[d] \in Seq(Messages)
    BY <1>2, <1>3
  <2> QED BY <2>1, <2>2
<1>5. \A d \in Clients : Len(inbox'[d]) <= MaxInbox[d]
  <2> SUFFICES ASSUME NEW d \in Clients PROVE Len(inbox'[d]) <= MaxInbox[d]
    OBVIOUS
  <2>1. Len(boxes[d]) \in Nat /\ Len(inbox[d]) \in Nat /\ MaxInbox[d] \in Nat
    BY MaxInboxAssumption DEF BusInv, BusTypeOK
  <2>2. Hears(c, d) => Len(inbox[d]) < MaxInbox[d]
    BY DEF Hears, Room, Listeners, SubscribedChannel, PublishChannel
  <2>3. Hears(c, d) => Len(inbox'[d]) = Len(boxes[d]) + 1
    BY <1>2, <1>3
  <2> QED BY <1>2, <2>1, <2>2, <2>3 DEF BusInv, BusTypeOK
<1>6. NoEcho'
  <2> SUFFICES ASSUME NEW d \in Clients, NEW i \in DOMAIN inbox'[d]
               PROVE  inbox'[d][i] \in IF d = Router THEN ComponentMessages
                                       ELSE RouterMessages
    BY DEF NoEcho
  <2>1. \A j \in 1 .. Len(boxes[d]) :
           boxes[d][j] \in IF d = Router THEN ComponentMessages ELSE RouterMessages
    BY DEF BusInv, BusTypeOK, NoEcho
  <2>2. CASE Hears(c, d)
    <3>1. inbox'[d] = Append(boxes[d], m)
      BY <1>2, <2>2
    <3>2. m \in IF d = Router THEN ComponentMessages ELSE RouterMessages
      BY <2>2 DEF Hears, Sends
    <3>3. i \in 1 .. Len(boxes[d]) + 1
      BY <1>1, <3>1
    <3>4. inbox'[d][i] = IF i = Len(boxes[d]) + 1 THEN m ELSE boxes[d][i]
      BY <1>1, <3>1, <3>3
    <3> QED BY <2>1, <3>2, <3>3, <3>4
  <2>3. CASE ~Hears(c, d)
    <3>1. inbox'[d] = boxes[d] /\ i \in 1 .. Len(boxes[d])
      BY <1>2, <2>3
    <3> QED BY <2>1, <3>1
  <2> QED BY <2>2, <2>3
<1>7. NothingBeforeSubscribing'
  <2> SUFFICES ASSUME NEW d \in Clients, subscriber[d] # "subscribed"
               PROVE  inbox'[d] = <<>>
    BY DEF NothingBeforeSubscribing
  <2>1. inbox'[d] = boxes[d] /\ inbox[d] = <<>>
    BY <1>2 DEF Hears, BusInv, NothingBeforeSubscribing
  <2> QED BY <2>1
<1>8. BusTypeOK(Messages)'
  BY <1>4, <1>5 DEF BusInv, BusTypeOK
<1> QED BY <1>6, <1>7, <1>8 DEF BusInv

\* Taking a message shortens the client's inbox, and no other.
LEMMA TakenBoxes ==
    ASSUME BusInv, NEW c \in Clients, Arrived(c)
    PROVE  /\ Taken(c) \in [Clients -> Seq(Messages)]
           /\ Taken(c)[c] = Tail(inbox[c])
           /\ \A d \in Clients : d # c => Taken(c)[d] = inbox[d]
           /\ \A d \in Clients :
               /\ Len(Taken(c)[d]) <= Len(inbox[d])
               /\ \A i \in 1 .. Len(Taken(c)[d]) : \E j \in 1 .. Len(inbox[d]) :
                      Taken(c)[d][i] = inbox[d][j]
<1>1. inbox \in [Clients -> Seq(Messages)] /\ inbox[c] # <<>>
  BY DEF BusInv, BusTypeOK, Arrived
<1>2. Tail(inbox[c]) \in Seq(Messages) /\ Len(Tail(inbox[c])) = Len(inbox[c]) - 1
  BY <1>1
<1>3. \A i \in 1 .. Len(Tail(inbox[c])) : Tail(inbox[c])[i] = inbox[c][i + 1]
  BY <1>1
<1>4. Taken(c) \in [Clients -> Seq(Messages)]
  BY <1>1, <1>2 DEF Taken
<1>5. Taken(c)[c] = Tail(inbox[c]) /\ \A d \in Clients : d # c => Taken(c)[d] = inbox[d]
  BY <1>1 DEF Taken
<1>6. ASSUME NEW d \in Clients
      PROVE  /\ Len(Taken(c)[d]) <= Len(inbox[d])
             /\ \A i \in 1 .. Len(Taken(c)[d]) : \E j \in 1 .. Len(inbox[d]) :
                    Taken(c)[d][i] = inbox[d][j]
  <2>1. CASE d = c
    <3>1. Len(inbox[c]) \in Nat
      BY <1>1
    <3>2. \A i \in 1 .. Len(Tail(inbox[c])) : i + 1 \in 1 .. Len(inbox[c])
      BY <3>1, <1>2
    <3> QED BY <2>1, <3>1, <3>2, <1>2, <1>3, <1>5
  <2>2. CASE d # c
    <3>1. Len(inbox[d]) \in Nat
      BY <1>1
    <3> QED BY <2>2, <1>5, <3>1
  <2> QED BY <2>1, <2>2
<1> QED BY <1>4, <1>5, <1>6

\* A client that takes a message keeps BusInv.
LEMMA TakeKeepsBusInv ==
    ASSUME BusInv, NEW c \in Clients, Take(c)
    PROVE  BusInv'
<1>1. inbox' = Taken(c) /\ Arrived(c) /\ UNCHANGED <<subscriber, publisher>>
  BY DEF Take
<1>2. BusTypeOK(Messages)'
  <2>1. \A d \in Clients : Len(inbox'[d]) <= MaxInbox[d]
    <3> SUFFICES ASSUME NEW d \in Clients PROVE Len(inbox'[d]) <= MaxInbox[d]
      OBVIOUS
    <3>1. Taken(c)[d] \in Seq(Messages) /\ inbox[d] \in Seq(Messages) /\ MaxInbox[d] \in Nat
      BY <1>1, TakenBoxes, MaxInboxAssumption DEF BusInv, BusTypeOK
    <3>2. Len(Taken(c)[d]) <= Len(inbox[d]) /\ Len(inbox[d]) <= MaxInbox[d]
      BY <1>1, TakenBoxes DEF BusInv, BusTypeOK
    <3>3. Len(Taken(c)[d]) \in Nat /\ Len(inbox[d]) \in Nat
      BY <3>1
    <3> QED BY <1>1, <3>1, <3>2, <3>3
  <2> QED BY <1>1, <2>1, TakenBoxes DEF BusInv, BusTypeOK
<1>3. NoEcho'
  <2> SUFFICES ASSUME NEW d \in Clients, NEW i \in DOMAIN inbox'[d]
               PROVE  inbox'[d][i] \in IF d = Router THEN ComponentMessages
                                       ELSE RouterMessages
    BY DEF NoEcho
  <2>1. i \in 1 .. Len(Taken(c)[d])
    BY <1>1, TakenBoxes
  <2>2. PICK j \in 1 .. Len(inbox[d]) : Taken(c)[d][i] = inbox[d][j]
    BY <1>1, <2>1, TakenBoxes
  <2>3. j \in DOMAIN inbox[d]
    BY DEF BusInv, BusTypeOK
  <2> QED BY <1>1, <2>2, <2>3 DEF BusInv, NoEcho
<1>4. NothingBeforeSubscribing'
  <2> SUFFICES ASSUME NEW d \in Clients, subscriber[d] # "subscribed"
               PROVE  inbox'[d] = <<>>
    BY <1>1 DEF NothingBeforeSubscribing
  <2>1. inbox[d] = <<>> /\ inbox[c] # <<>>
    BY <1>1 DEF BusInv, NothingBeforeSubscribing, Arrived
  <2>2. d # c
    BY <2>1
  <2> QED BY <1>1, <2>1, <2>2, TakenBoxes
<1> QED BY <1>2, <1>3, <1>4 DEF BusInv

\* What happens to the connections of a client keeps BusInv.
LEMMA ConnectionKeepsBusInv ==
    ASSUME BusInv, NEW c \in Clients,
           \/ OnReady(c) \/ PublisherReady(c) \/ SubscriberEnd(c)
           \/ PublisherEnd(c) \/ BusRestart(c)
    PROVE  BusInv'
<1> USE DEF BusInv, BusTypeOK
<1>1. subscriber' \in [Clients -> {"connecting", "subscribed", "ended"}]
  BY DEF OnReady, PublisherReady, SubscriberEnd, PublisherEnd, BusRestart
<1>2. publisher' \in [Clients -> {"connecting", "ready", "ended"}]
  BY DEF OnReady, PublisherReady, SubscriberEnd, PublisherEnd, BusRestart
<1>3. \A d \in Clients :
         \/ inbox'[d] = inbox[d] /\ (subscriber'[d] = subscriber[d] \/ subscriber'[d] = "subscribed")
         \/ inbox'[d] = <<>>
  BY DEF OnReady, PublisherReady, SubscriberEnd, PublisherEnd, BusRestart
<1>4. inbox' \in [Clients -> Seq(Messages)]
  <2>1. <<>> \in Seq(Messages)
    OBVIOUS
  <2> QED
    BY <2>1 DEF OnReady, PublisherReady, SubscriberEnd, PublisherEnd, BusRestart
<1>5. \A d \in Clients : Len(inbox'[d]) <= MaxInbox[d]
  BY <1>3, MaxInboxAssumption
<1>6. NoEcho'
  BY <1>3 DEF NoEcho
<1>7. NothingBeforeSubscribing'
  BY <1>3 DEF NothingBeforeSubscribing
<1> QED BY <1>1, <1>2, <1>4, <1>5, <1>6, <1>7

\* What a step may do to the bus.
BusStep ==
    \/ \E c \in Clients : \E m \in Sends(c) : Publish(c, m) \/ TakeAndPublish(c, m)
    \/ \E c \in Clients : \/ Take(c)
                          \/ OnReady(c) \/ PublisherReady(c) \/ SubscriberEnd(c)
                          \/ PublisherEnd(c) \/ BusRestart(c)
    \/ UNCHANGED busVars

\* Every step on the bus keeps BusInv.
LEMMA BusStepKeepsBusInv ==
    ASSUME BusInv, BusStep
    PROVE  BusInv'
<1>1. CASE UNCHANGED busVars
  BY <1>1 DEF busVars, BusInv, BusTypeOK, NoEcho, NothingBeforeSubscribing
<1>2. ASSUME NEW c \in Clients, NEW m \in Sends(c), Publish(c, m)
      PROVE  BusInv'
  <2>1. inbox \in [Clients -> Seq(Messages)]
    BY DEF BusInv, BusTypeOK
  <2>2. \A d \in Clients :
            /\ Len(inbox[d]) <= Len(inbox[d])
            /\ \A i \in 1 .. Len(inbox[d]) : \E j \in 1 .. Len(inbox[d]) :
                   inbox[d][i] = inbox[d][j]
    BY <2>1
  <2> QED BY <1>2, <2>1, <2>2, BoxesKeepBusInv DEF Publish
<1>3. ASSUME NEW c \in Clients, NEW m \in Sends(c), TakeAndPublish(c, m)
      PROVE  BusInv'
  <2>1. Arrived(c) /\ Room(c) /\ inbox' = Published(c, m, Taken(c))
        /\ UNCHANGED <<subscriber, publisher>>
    BY <1>3 DEF TakeAndPublish
  <2> QED BY <2>1, TakenBoxes, BoxesKeepBusInv
<1>4. ASSUME NEW c \in Clients, Take(c) PROVE BusInv'
  BY <1>4, TakeKeepsBusInv
<1>5. ASSUME NEW c \in Clients,
             \/ OnReady(c) \/ PublisherReady(c) \/ SubscriberEnd(c)
             \/ PublisherEnd(c) \/ BusRestart(c)
      PROVE  BusInv'
  BY <1>5, ConnectionKeepsBusInv
<1> QED BY <1>1, <1>2, <1>3, <1>4, <1>5 DEF BusStep

\* Every step of the specification is a step on the bus.
LEMMA NextIsBusStep ==
    ASSUME [Next]_vars
    PROVE  BusStep
<1> USE DEF BusStep
<1>1. CASE RouterStep
  <2> USE RouterAssumption
  <2>1. Sends(Router) = RouterMessages /\ Connected \in RouterMessages
        /\ Disconnected \in RouterMessages /\ PlatformMessages \subseteq RouterMessages
    BY DEF Sends, RouterMessages, StatusMessages
  <2>2. CASE WsOpen
    BY <2>1, <2>2 DEF WsOpen, Announce, busVars
  <2>3. CASE WsClose
    BY <2>1, <2>3 DEF WsClose, Announce, busVars
  <2>4. CASE Reconnect
    BY <2>4 DEF Reconnect
  <2>5. CASE OnBusMessage
    BY <2>5 DEF OnBusMessage
  <2>6. CASE \E m \in PlatformMessages : OnPlatformMessage(m)
    BY <2>1, <2>6 DEF OnPlatformMessage
  <2>7. CASE RestartRouter
    BY <2>7 DEF RestartRouter
  <2> QED BY <1>1, <2>2, <2>3, <2>4, <2>5, <2>6, <2>7 DEF RouterStep
<1>2. ASSUME NEW c \in Components,
             \/ Receive(c)
             \/ \E m \in ComponentMessages : Emit(c, m) \/ Reply(c, m)
             \/ RestartComponent(c)
      PROVE  BusStep
  <2>1. c \in Clients /\ Sends(c) = ComponentMessages
    BY DEF Components, Sends
  <2> QED BY <1>2, <2>1 DEF Receive, Emit, Quietly, Reply, RestartComponent
<1>3. ASSUME NEW c \in Clients, Connection(c) PROVE BusStep
  BY <1>3 DEF Connection, Quietly
<1>4. CASE UNCHANGED vars
  BY <1>4 DEF vars
<1> QED BY <1>1, <1>2, <1>3, <1>4 DEF Next

-----------------------------------------------------------------------------
\* The flag of router.js is the state of the socket.
ConnectedIsOpen == connected <=> ws = "open"

\* Whoever got something out has had a publisher.
SpokenWasReady == spoken => publisher[Router] # "connecting"

RouterInv ==
    /\ ws \in {"connecting", "open", "closed"}
    /\ connected \in BOOLEAN
    /\ forwarded \in Messages \cup {NoMessage}
    /\ heard \in [Witnesses -> [last : StatusMessages \cup {NoMessage}, alone : BOOLEAN]]
    /\ spoken \in BOOLEAN
    /\ ConnectedIsOpen
    /\ SpokenWasReady

\* What holds of one witness.
WitnessInv(c) ==
    /\ subscriber[c] = "connecting" => heard[c].last = NoMessage
    /\ heard[c].alone /\ ~spoken => StatusAt(c) = {}
    /\ heard[c].alone => Alternates(Told(c))
    /\ subscriber[c] = "subscribed" /\ publisher[Router] = "ready" /\ spoken
           => EndsIn(Told(c), CurrentStatus)

IInv == BusInv /\ RouterInv /\ \A c \in Witnesses : WitnessInv(c)

\* The steps of the Router process keep RouterInv. The one that matters is its
\* restart, which resets spoken with the publisher.
LEMMA RouterStepKeepsRouterInv ==
    ASSUME BusInv, RouterInv, RouterStep
    PROVE  RouterInv'
<1> USE DEF RouterInv, ConnectedIsOpen, SpokenWasReady
<1>1. CASE WsOpen
  BY <1>1 DEF WsOpen, Announce, Publish, busVars
<1>2. CASE WsClose
  BY <1>2 DEF WsClose, Announce, Publish, busVars
<1>3. CASE Reconnect
  BY <1>3 DEF Reconnect, busVars
<1>4. CASE OnBusMessage
  <2>1. Head(inbox[Router]) \in Messages
    BY <1>4, RouterAssumption DEF OnBusMessage, Take, Arrived, BusInv, BusTypeOK
  <2> QED BY <1>4, <2>1 DEF OnBusMessage, Take
<1>5. ASSUME NEW m \in PlatformMessages, OnPlatformMessage(m) PROVE RouterInv'
  BY <1>5 DEF OnPlatformMessage, Publish
<1>6. CASE RestartRouter
  <2>1. heard' \in [Witnesses -> [last : StatusMessages \cup {NoMessage}, alone : BOOLEAN]]
    BY <1>6 DEF RestartRouter
  <2> QED BY <1>6, <2>1 DEF RestartRouter
<1> QED BY <1>1, <1>2, <1>3, <1>4, <1>5, <1>6 DEF RouterStep

\* What a component hears changes only the last status it knows.
LEMMA HearKeepsHeard ==
    ASSUME BusInv, RouterInv, NEW c \in Components, Arrived(c), Hear(c)
    PROVE  /\ heard' \in [Witnesses -> [last : StatusMessages \cup {NoMessage}, alone : BOOLEAN]]
           /\ \A d \in Witnesses : heard'[d].alone = heard[d].alone
           /\ \A d \in Witnesses : d # c => heard'[d].last = heard[d].last
           /\ c \in Witnesses =>
                 heard'[c].last = IF Head(inbox[c]) \in StatusMessages
                                  THEN Head(inbox[c]) ELSE heard[c].last
<1>1. CASE c \in Witnesses /\ Head(inbox[c]) \in StatusMessages
  BY <1>1 DEF Hear, RouterInv
<1>2. CASE ~(c \in Witnesses /\ Head(inbox[c]) \in StatusMessages)
  BY <1>2 DEF Hear, RouterInv
<1> QED BY <1>1, <1>2

\* The steps of a component keep RouterInv.
LEMMA ComponentKeepsRouterInv ==
    ASSUME BusInv, RouterInv, NEW c \in Components,
           \/ Receive(c)
           \/ \E m \in ComponentMessages : Emit(c, m) \/ Reply(c, m)
           \/ RestartComponent(c)
    PROVE  RouterInv'
<1> USE DEF RouterInv, ConnectedIsOpen, SpokenWasReady
<1>1. CASE Receive(c)
  <2>1. Arrived(c) /\ Hear(c) /\ publisher' = publisher
    BY <1>1 DEF Receive, Take
  <2> QED BY <2>1, HearKeepsHeard DEF Hear
<1>2. ASSUME NEW m \in ComponentMessages, Reply(c, m) PROVE RouterInv'
  <2>1. Arrived(c) /\ Hear(c) /\ publisher' = publisher
    BY <1>2 DEF Reply, TakeAndPublish
  <2> QED BY <2>1, HearKeepsHeard DEF Hear
<1>3. ASSUME NEW m \in ComponentMessages, Emit(c, m) PROVE RouterInv'
  BY <1>3 DEF Emit, Quietly, Publish
<1>4. CASE RestartComponent(c)
  <2>1. Unheard \in [last : StatusMessages \cup {NoMessage}, alone : BOOLEAN]
    BY DEF Unheard
  <2>2. heard' \in [Witnesses -> [last : StatusMessages \cup {NoMessage}, alone : BOOLEAN]]
    BY <1>4, <2>1 DEF RestartComponent
  <2>3. publisher'[Router] = publisher[Router]
    BY <1>4, RouterAssumption DEF RestartComponent, BusRestart, Components, BusInv, BusTypeOK
  <2> QED BY <1>4, <2>2, <2>3 DEF RestartComponent
<1> QED BY <1>1, <1>2, <1>3, <1>4

\* A publisher never goes back to connecting but by a restart, hence RouterInv.
LEMMA ConnectionKeepsRouterInv ==
    ASSUME BusInv, RouterInv, NEW c \in Clients, Connection(c)
    PROVE  RouterInv'
<1>1. /\ forwarded' = NoMessage
      /\ UNCHANGED <<ws, connected, heard, spoken>>
  BY DEF Connection, Quietly
<1>2. publisher'[Router] = "connecting" => publisher[Router] = "connecting"
  BY RouterAssumption DEF Connection, Quietly, OnReady, PublisherReady,
     SubscriberEnd, PublisherEnd, BusInv, BusTypeOK
<1> QED BY <1>1, <1>2 DEF RouterInv, ConnectedIsOpen, SpokenWasReady

-----------------------------------------------------------------------------
\* The history of a witness is a row, before and after a step.
LEMMA ToldIsRow ==
    /\ \A c \in Witnesses :
          Told(c) = Row(heard[c].last, inbox[c]) /\ StatusAt(c) = Marks(Told(c))
    /\ \A c \in Witnesses :
          Told(c)' = Row(heard'[c].last, inbox'[c]) /\ StatusAt(c)' = Marks(Told(c)')
BY DEF Told, Row, StatusAt, Marks

\* The Router announces the opposite of the current status. A witness that
\* hears it has heard of the current status last, or of none; one that does not
\* hear it lacks an end of the bus.
LEMMA AnnounceKeepsWitnessInv ==
    ASSUME IInv, NEW c \in Witnesses, NEW s \in StatusMessages,
           Announce(s), CurrentStatus # s, CurrentStatus' = s, UNCHANGED heard
    PROVE  WitnessInv(c)'
<1>1. c \in Clients /\ c # Router
  BY WitnessesAssumption DEF Components
<1>2. inbox[c] \in Seq(Messages) /\ inbox \in [Clients -> Seq(Messages)]
  BY <1>1 DEF IInv, BusInv, BusTypeOK
<1>3. /\ inbox' = Published(Router, s, inbox)
      /\ UNCHANGED <<subscriber, publisher>>
      /\ spoken' = (spoken \/ publisher[Router] = "ready")
  BY DEF Announce, Publish
<1>4. inbox'[c] = IF Hears(Router, c) THEN Append(inbox[c], s) ELSE inbox[c]
  BY <1>1, <1>2, <1>3, PublishedBox, RouterAssumption DEF IInv
<1>5. CASE Hears(Router, c)
  <2>1. /\ publisher[Router] = "ready" /\ subscriber[c] = "subscribed"
        /\ spoken' = TRUE
    BY <1>3, <1>5 DEF Hears
  <2>2. /\ EndsIn(Told(c)', s)
        /\ Alternates(Told(c)) /\ EndsIn(Told(c), CurrentStatus) => Alternates(Told(c)')
        /\ StatusAt(c) = {} => Alternates(Told(c)')
    BY <1>2, <1>4, <1>5, ToldIsRow, AppendStatusRow
  <2> QED BY <1>3, <2>1, <2>2 DEF IInv, WitnessInv
<1>6. CASE ~Hears(Router, c)
  <2>1. UNCHANGED <<Told(c), StatusAt(c)>>
    BY <1>4, <1>6, ToldIsRow
  <2>2. publisher[Router] = "ready" => subscriber[c] # "subscribed"
    BY <1>1, <1>6 DEF Hears
  <2>3. spoken \in BOOLEAN
    BY DEF IInv, RouterInv
  <2> QED BY <1>3, <2>1, <2>2, <2>3 DEF IInv, WitnessInv
<1> QED BY <1>5, <1>6

\* A message of the platform is no status, so nothing changes for a witness.
LEMMA PlatformMessageKeepsWitnessInv ==
    ASSUME IInv, NEW c \in Witnesses, NEW m \in PlatformMessages, OnPlatformMessage(m)
    PROVE  WitnessInv(c)'
<1>1. c \in Clients /\ c # Router
  BY WitnessesAssumption DEF Components
<1>2. inbox[c] \in Seq(Messages) /\ inbox \in [Clients -> Seq(Messages)]
  BY <1>1 DEF IInv, BusInv, BusTypeOK
<1>3. m \in Messages \ StatusMessages
  BY MessagesAssumption DEF Messages, RouterMessages
<1>4. /\ inbox' = Published(Router, m, inbox)
      /\ UNCHANGED <<subscriber, publisher, ws, heard, spoken>>
  BY DEF OnPlatformMessage, Publish
<1>5. inbox'[c] = IF Hears(Router, c) THEN Append(inbox[c], m) ELSE inbox[c]
  BY <1>1, <1>2, <1>4, PublishedBox, RouterAssumption DEF IInv
<1>6. StatusAt(c)' = StatusAt(c) /\ \A i \in StatusAt(c) : Told(c)'[i] = Told(c)[i]
  BY <1>2, <1>3, <1>4, <1>5, ToldIsRow, AppendOtherRow
<1>7. Alternates(Told(c)) => Alternates(Told(c)')
  BY <1>6, ToldIsRow DEF Alternates
<1>8. \A s : EndsIn(Told(c), s) => EndsIn(Told(c)', s)
  BY <1>6, ToldIsRow DEF EndsIn
<1>9. CurrentStatus' = CurrentStatus
  BY <1>4 DEF CurrentStatus
<1> QED BY <1>4, <1>6, <1>7, <1>8, <1>9 DEF IInv, WitnessInv

\* A witness that takes its first message keeps WitnessInv.
LEMMA TakeKeepsWitnessInv ==
    ASSUME IInv, NEW c \in Witnesses, Arrived(c), Hear(c),
           inbox'[c] = Tail(inbox[c]), UNCHANGED <<subscriber, publisher>>
    PROVE  WitnessInv(c)'
<1>1. c \in Components /\ c \in Clients
  BY WitnessesAssumption DEF Components
<1>2. inbox[c] \in Seq(Messages) /\ inbox[c] # <<>>
  BY <1>1 DEF IInv, BusInv, BusTypeOK, Arrived
<1>3. /\ heard'[c].alone = heard[c].alone
      /\ heard'[c].last = IF Head(inbox[c]) \in StatusMessages
                          THEN Head(inbox[c]) ELSE heard[c].last
  BY <1>1, HearKeepsHeard DEF IInv
<1>4. UNCHANGED <<ws, spoken>> /\ CurrentStatus' = CurrentStatus
  BY DEF Hear, CurrentStatus
<1>5. /\ StatusAt(c) = {} => StatusAt(c)' = {}
      /\ Alternates(Told(c)) => Alternates(Told(c)')
      /\ \A s : EndsIn(Told(c), s) => EndsIn(Told(c)', s)
  BY <1>2, <1>3, ToldIsRow, TakeRow
<1>6. subscriber[c] = "subscribed"
  BY <1>1, <1>2 DEF IInv, BusInv, NothingBeforeSubscribing
<1> QED BY <1>3, <1>4, <1>5, <1>6 DEF IInv, WitnessInv

\* A step that leaves the history of the witness and the status alone, and may
\* only end connections, keeps WitnessInv.
LEMMA SameKeepsWitnessInv ==
    ASSUME IInv, NEW c \in Witnesses,
           inbox'[c] = inbox[c],
           heard'[c].last = heard[c].last,
           heard'[c].alone = heard[c].alone,
           UNCHANGED <<spoken, CurrentStatus>>,
           subscriber'[c] \in {subscriber[c], "ended"},
           publisher'[Router] \in {publisher[Router], "ended"}
    PROVE  WitnessInv(c)'
<1>1. UNCHANGED <<Told(c), StatusAt(c)>>
  BY ToldIsRow
<1> QED BY <1>1 DEF IInv, WitnessInv

\* Connections that come and go keep WitnessInv: one that comes finds a witness
\* that has heard nothing, or a Router that has not spoken.
LEMMA ConnectionKeepsWitnessInv ==
    ASSUME IInv, NEW c \in Witnesses, NEW d \in Clients, Connection(d)
    PROVE  WitnessInv(c)'
<1> USE DEF Quietly
<1>1. c \in Clients /\ c # Router /\ Router \in Clients
  BY WitnessesAssumption, RouterAssumption DEF Components
<1>2. BusTypeOK(Messages) /\ inbox[c] \in Seq(Messages)
  BY <1>1 DEF IInv, BusInv, BusTypeOK
<1>3. UNCHANGED <<heard, spoken, ws>> /\ CurrentStatus' = CurrentStatus
  BY DEF Connection, CurrentStatus
<1>4. CASE OnReady(d) /\ d = c
  <2>1. /\ subscriber[c] = "connecting"
        /\ UNCHANGED <<publisher, inbox>>
    BY <1>4 DEF OnReady
  <2>2. heard[c].last = NoMessage /\ inbox[c] = <<>>
    BY <1>1, <2>1 DEF IInv, WitnessInv, BusInv, NothingBeforeSubscribing
  <2>3. StatusAt(c)' = {} /\ StatusAt(c)' = Marks(Told(c)')
    <3>1. NoMessage \notin StatusMessages
      BY MessagesAssumption DEF RouterMessages
    <3> QED BY <1>3, <2>1, <2>2, <3>1, ToldIsRow DEF Row, Marks
  <2>4. EndsIn(Told(c)', CurrentStatus') /\ Alternates(Told(c)')
    BY <2>3 DEF EndsIn, Alternates
  <2>5. subscriber'[c] # "connecting"
    BY <1>1, <1>2, <1>4 DEF OnReady, BusTypeOK
  <2> QED BY <2>3, <2>4, <2>5 DEF WitnessInv
<1>5. CASE PublisherReady(d) /\ d = Router
  <2>1. /\ publisher[Router] = "connecting"
        /\ UNCHANGED <<subscriber, inbox>>
    BY <1>5 DEF PublisherReady
  <2>2. ~spoken
    BY <2>1 DEF IInv, RouterInv, SpokenWasReady
  <2>3. UNCHANGED <<Told(c), StatusAt(c)>>
    BY <1>3, <2>1, ToldIsRow
  <2> QED BY <1>3, <2>1, <2>2, <2>3 DEF IInv, WitnessInv
<1>6. CASE SubscriberEnd(d) /\ d = c
  <2>1. /\ subscriber'[c] = "ended" /\ inbox'[c] = <<>>
        /\ UNCHANGED publisher
    BY <1>1, <1>2, <1>6 DEF SubscriberEnd, BusTypeOK
  <2>2. \A i \in StatusAt(c)' : i = 0 /\ 0 \in StatusAt(c)
    BY <1>2, <1>3, <2>1, ToldIsRow DEF Row, Marks
  <2>3. Alternates(Told(c)')
    BY <2>2, ToldIsRow DEF Alternates
  <2> QED BY <1>3, <2>1, <2>2, <2>3 DEF IInv, WitnessInv
<1>7. CASE \/ (OnReady(d) \/ SubscriberEnd(d)) /\ d # c
           \/ PublisherReady(d) /\ d # Router
           \/ PublisherEnd(d)
  <2>1. /\ inbox'[c] = inbox[c] /\ subscriber'[c] = subscriber[c]
        /\ publisher'[Router] \in {publisher[Router], "ended"}
    BY <1>1, <1>2, <1>7 DEF OnReady, SubscriberEnd, PublisherReady, PublisherEnd, BusTypeOK
  <2> QED BY <1>3, <2>1, SameKeepsWitnessInv
<1> QED BY <1>4, <1>5, <1>6, <1>7 DEF Connection

\* After a restart the Router is alone with the witnesses that are not
\* subscribed yet, and those have heard nothing.
LEMMA RestartRouterKeepsWitnessInv ==
    ASSUME IInv, NEW c \in Witnesses, RestartRouter
    PROVE  WitnessInv(c)'
<1>1. c \in Clients /\ c # Router
  BY WitnessesAssumption DEF Components
<1>2. /\ inbox'[c] = inbox[c] /\ subscriber'[c] = subscriber[c]
      /\ ~spoken'
  BY <1>1 DEF RestartRouter, BusRestart, IInv, BusInv, BusTypeOK
<1>3. /\ heard'[c].last = heard[c].last
      /\ heard'[c].alone => heard[c].alone /\ subscriber[c] = "connecting"
  BY DEF RestartRouter, IInv, RouterInv
<1>4. UNCHANGED <<Told(c), StatusAt(c)>>
  BY <1>2, <1>3, ToldIsRow
<1>5. subscriber[c] = "connecting" => StatusAt(c) = {}
  <2> SUFFICES ASSUME subscriber[c] = "connecting" PROVE StatusAt(c) = {}
    OBVIOUS
  <2>1. heard[c].last = NoMessage /\ inbox[c] = <<>>
    BY <1>1 DEF IInv, WitnessInv, BusInv, NothingBeforeSubscribing
  <2>2. NoMessage \notin StatusMessages
    BY MessagesAssumption DEF RouterMessages
  <2> QED BY <2>1, <2>2, ToldIsRow DEF Row, Marks
<1> QED BY <1>2, <1>3, <1>4, <1>5 DEF IInv, WitnessInv

\* A component that is restarted has heard nothing; the others do not notice.
LEMMA RestartComponentKeepsWitnessInv ==
    ASSUME IInv, NEW c \in Witnesses, NEW d \in Components, RestartComponent(d)
    PROVE  WitnessInv(c)'
<1>1. c \in Clients /\ c # Router /\ d # Router /\ Router \in Clients
  BY WitnessesAssumption, RouterAssumption DEF Components
<1>2. UNCHANGED <<ws, spoken>> /\ CurrentStatus' = CurrentStatus
  BY DEF RestartComponent, CurrentStatus
<1>3. publisher'[Router] = publisher[Router]
  BY <1>1 DEF RestartComponent, BusRestart, IInv, BusInv, BusTypeOK
<1>4. CASE d # c
  <2>1. inbox'[c] = inbox[c] /\ subscriber'[c] = subscriber[c]
    BY <1>1, <1>4 DEF RestartComponent, BusRestart, IInv, BusInv, BusTypeOK
  <2>2. heard'[c] = heard[c]
    BY <1>4 DEF RestartComponent
  <2> QED BY <1>2, <1>3, <2>1, <2>2, SameKeepsWitnessInv
<1>5. CASE d = c
  <2>1. inbox'[c] = <<>> /\ subscriber'[c] = "connecting"
    BY <1>1, <1>5 DEF RestartComponent, BusRestart, IInv, BusInv, BusTypeOK
  <2>2. heard'[c].last = NoMessage
    BY <1>5 DEF RestartComponent, Unheard
  <2>3. NoMessage \notin StatusMessages
    BY MessagesAssumption DEF RouterMessages
  <2>4. StatusAt(c)' = {} /\ StatusAt(c)' = Marks(Told(c)')
    BY <2>1, <2>2, <2>3, ToldIsRow DEF Row, Marks
  <2>5. Alternates(Told(c)')
    BY <2>4 DEF Alternates
  <2> QED BY <2>1, <2>2, <2>4, <2>5 DEF WitnessInv
<1> QED BY <1>4, <1>5

\* Every step keeps the inductive invariant.
LEMMA NextKeepsIInv ==
    ASSUME IInv, [Next]_vars
    PROVE  IInv'
<1> USE DEF IInv
<1>1. BusInv'
  BY BusStepKeepsBusInv, NextIsBusStep
<1>2. CASE RouterStep
  <2>1. RouterInv'
    BY <1>2, RouterStepKeepsRouterInv
  <2>2. ASSUME NEW c \in Witnesses PROVE WitnessInv(c)'
    <3>1. c \in Clients /\ c # Router /\ Router \in Clients
      BY WitnessesAssumption, RouterAssumption DEF Components
    <3>2. CASE WsOpen
      <4>1. /\ Announce(Connected) /\ UNCHANGED heard
            /\ CurrentStatus = Disconnected /\ CurrentStatus' = Connected
        BY <3>2 DEF WsOpen, RouterInv, ConnectedIsOpen, CurrentStatus
      <4>2. Connected \in StatusMessages /\ Disconnected # Connected
        BY DEF StatusMessages, Connected, Disconnected
      <4> QED BY <4>1, <4>2, AnnounceKeepsWitnessInv
    <3>3. CASE WsClose /\ connected
      <4>1. /\ Announce(Disconnected) /\ UNCHANGED heard
            /\ CurrentStatus = Connected /\ CurrentStatus' = Disconnected
        BY <3>3 DEF WsClose, RouterInv, ConnectedIsOpen, CurrentStatus
      <4>2. Disconnected \in StatusMessages /\ Disconnected # Connected
        BY DEF StatusMessages, Connected, Disconnected
      <4> QED BY <4>1, <4>2, AnnounceKeepsWitnessInv
    <3>4. CASE Reconnect \/ (WsClose /\ ~connected)
      <4>1. UNCHANGED <<heard, spoken, busVars>> /\ CurrentStatus' = CurrentStatus
        BY <3>4 DEF Reconnect, WsClose, RouterInv, ConnectedIsOpen, CurrentStatus
      <4> QED BY <4>1, SameKeepsWitnessInv DEF busVars
    <3>5. CASE OnBusMessage
      <4>1. UNCHANGED <<heard, spoken, subscriber, publisher>> /\ CurrentStatus' = CurrentStatus
        BY <3>5 DEF OnBusMessage, Take, CurrentStatus
      <4>2. inbox'[c] = inbox[c]
        BY <3>1, <3>5, TakenBoxes DEF OnBusMessage, Take
      <4> QED BY <4>1, <4>2, SameKeepsWitnessInv
    <3>6. CASE \E m \in PlatformMessages : OnPlatformMessage(m)
      BY <3>6, PlatformMessageKeepsWitnessInv
    <3>7. CASE RestartRouter
      BY <3>7, RestartRouterKeepsWitnessInv
    <3>8. CASE WsClose
      BY <3>3, <3>4, <3>8
    <3>9. CASE Reconnect
      BY <3>4, <3>9
    <3> QED BY <1>2, <3>2, <3>5, <3>6, <3>7, <3>8, <3>9 DEF RouterStep
  <2> QED BY <1>1, <2>1, <2>2
<1>3. ASSUME NEW d \in Components,
             \/ Receive(d)
             \/ \E m \in ComponentMessages : Emit(d, m) \/ Reply(d, m)
             \/ RestartComponent(d)
      PROVE  IInv'
  <2>1. RouterInv'
    BY <1>3, ComponentKeepsRouterInv
  <2>2. d \in Clients /\ d # Router
    BY DEF Components
  <2>3. inbox \in [Clients -> Seq(Messages)]
    BY DEF BusInv, BusTypeOK
  <2>4. ASSUME NEW c \in Witnesses PROVE WitnessInv(c)'
    <3>1. c \in Clients /\ c # Router /\ ~Hears(d, c)
      BY <2>2, WitnessesAssumption DEF Components, Hears
    <3>2. ASSUME Arrived(d), Hear(d), UNCHANGED <<subscriber, publisher>>,
                 inbox'[c] = Taken(d)[c]
          PROVE  WitnessInv(c)'
      <4>1. CASE c = d
        <5>1. inbox'[c] = Tail(inbox[c])
          BY <2>2, <3>2, <4>1, TakenBoxes
        <5> QED BY <3>2, <4>1, <5>1, TakeKeepsWitnessInv
      <4>2. CASE c # d
        <5>1. inbox'[c] = inbox[c]
          BY <2>2, <3>1, <3>2, <4>2, TakenBoxes
        <5>2. heard'[c].last = heard[c].last /\ heard'[c].alone = heard[c].alone
          BY <3>2, <4>2, HearKeepsHeard
        <5>3. UNCHANGED <<spoken, CurrentStatus>>
          BY <3>2 DEF Hear, CurrentStatus
        <5> QED BY <3>2, <5>1, <5>2, <5>3, SameKeepsWitnessInv
      <4> QED BY <4>1, <4>2
    <3>3. CASE Receive(d)
      BY <3>2, <3>3 DEF Receive, Take
    <3>4. ASSUME NEW m \in ComponentMessages, Reply(d, m) PROVE WitnessInv(c)'
      <4>1. Arrived(d) /\ Hear(d) /\ UNCHANGED <<subscriber, publisher>>
            /\ inbox' = Published(d, m, Taken(d))
        BY <3>4 DEF Reply, TakeAndPublish
      <4>2. inbox'[c] = Taken(d)[c]
        BY <2>2, <3>1, <4>1, TakenBoxes, PublishedBox
      <4> QED BY <3>2, <4>1, <4>2
    <3>5. ASSUME NEW m \in ComponentMessages, Emit(d, m) PROVE WitnessInv(c)'
      <4>1. /\ inbox' = Published(d, m, inbox)
            /\ UNCHANGED <<subscriber, publisher, heard, spoken, ws>>
        BY <3>5 DEF Emit, Quietly, Publish
      <4>2. inbox'[c] = inbox[c]
        BY <2>2, <2>3, <3>1, <4>1, PublishedBox
      <4>3. CurrentStatus' = CurrentStatus
        BY <4>1 DEF CurrentStatus
      <4> QED BY <4>1, <4>2, <4>3, SameKeepsWitnessInv
    <3>6. CASE RestartComponent(d)
      BY <3>6, RestartComponentKeepsWitnessInv
    <3> QED BY <1>3, <3>3, <3>4, <3>5, <3>6
  <2> QED BY <1>1, <2>1, <2>4
<1>4. ASSUME NEW d \in Clients, Connection(d) PROVE IInv'
  BY <1>1, <1>4, ConnectionKeepsRouterInv, ConnectionKeepsWitnessInv
<1>5. CASE UNCHANGED vars
  <2>1. RouterInv'
    BY <1>5 DEF vars, busVars, routerVars, RouterInv, ConnectedIsOpen, SpokenWasReady
  <2>2. UNCHANGED <<busVars, heard, spoken, CurrentStatus>>
    BY <1>5 DEF vars, routerVars, CurrentStatus
  <2>3. \A c \in Witnesses : WitnessInv(c)'
    BY <2>2, SameKeepsWitnessInv DEF busVars
  <2> QED BY <1>1, <2>1, <2>3
<1> QED BY <1>2, <1>3, <1>4, <1>5 DEF Next

\* The initial state satisfies the inductive invariant.
LEMMA InitIInv == Init => IInv
<1> SUFFICES ASSUME Init PROVE IInv
  OBVIOUS
<1> USE DEF Init, BusInit, RouterInit
<1>1. BusInv
  <2>1. inbox \in [Clients -> Seq(Messages)] /\ \A c \in Clients : Len(inbox[c]) = 0
    OBVIOUS
  <2>2. \A c \in Clients : Len(inbox[c]) <= MaxInbox[c]
    <3> SUFFICES ASSUME NEW c \in Clients PROVE Len(inbox[c]) <= MaxInbox[c]
      OBVIOUS
    <3>1. MaxInbox[c] \in Nat /\ Len(inbox[c]) = 0
      BY <2>1, MaxInboxAssumption
    <3> QED BY <3>1
  <2> QED BY <2>1, <2>2 DEF BusInv, BusTypeOK, NoEcho, NothingBeforeSubscribing
<1>2. RouterInv
  <2>1. Unheard \in [last : StatusMessages \cup {NoMessage}, alone : BOOLEAN]
    BY DEF Unheard
  <2> QED BY <2>1, RouterAssumption DEF RouterInv, ConnectedIsOpen, SpokenWasReady
<1>3. ASSUME NEW c \in Witnesses PROVE WitnessInv(c)
  <2>1. inbox[c] = <<>> /\ heard[c].last = NoMessage
    BY WitnessesAssumption DEF Components, Unheard
  <2>2. NoMessage \notin StatusMessages
    BY MessagesAssumption DEF RouterMessages
  <2>3. StatusAt(c) = {} /\ StatusAt(c) = Marks(Told(c))
    BY <2>1, <2>2, ToldIsRow DEF Row, Marks
  <2> QED BY <2>1, <2>3 DEF WitnessInv, Alternates
<1> QED BY <1>1, <1>2, <1>3 DEF IInv

-----------------------------------------------------------------------------
\* The inductive invariant holds in every reachable state.
THEOREM Invariant == Spec => []IInv
<1> QED BY InitIInv, NextKeepsIInv, PTL DEF Spec

\* Every variable keeps its type, and no inbox outgrows its bound.
THEOREM TypeCorrect == Spec => []TypeOK
<1>1. IInv => TypeOK
  BY DEF IInv, BusInv, RouterInv, TypeOK, Messages
<1> QED BY <1>1, Invariant, PTL

\* A message from the platform never travels back to it, nor one of a component
\* to another (bus.js:16-19).
THEOREM NeverEchoes == Spec => []NoEcho
<1>1. IInv => NoEcho
  BY DEF IInv, BusInv
<1> QED BY <1>1, Invariant, PTL

\* No witness hears of the same status twice in a row from one Router process
\* (router.js:52-76).
THEOREM Alternating == Spec => []StatusesAlternate
<1>1. IInv => StatusesAlternate
  BY ToldIsRow DEF IInv, WitnessInv, StatusesAlternate, Alternates
<1> QED BY <1>1, Invariant, PTL

\* The last status a witness hears is that of the socket.
THEOREM UpToDate == Spec => []LastStatusIsCurrent
<1>1. IInv => LastStatusIsCurrent
  BY ToldIsRow DEF IInv, WitnessInv, LastStatusIsCurrent, EndsIn
<1> QED BY <1>1, Invariant, PTL
=============================================================================
