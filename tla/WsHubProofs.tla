----------------------------- MODULE WsHubProofs -----------------------------
(***************************************************************************)
(* What TLAPS proves of WsHub for any number of connections, users,        *)
(* channels and publishers.                                                *)
(***************************************************************************)
EXTENDS WsHub, FiniteSetTheorems, SequenceTheorems, TLAPS

USE HubAssumption

-----------------------------------------------------------------------------
(* Lemmas about the order in which a set of connections iterates.          *)

Listing(order) == order \in Seq(Conns) /\ IsInjective(order)

(* The orders of a finite set list its elements, once each. *)
LEMMA OrdersList ==
    ASSUME NEW S \in SUBSET Conns, IsFiniteSet(S), NEW order \in Orders(S)
    PROVE  Listing(order) /\ ToSet(order) \subseteq S
<1>1. Cardinality(S) \in Nat
  BY FS_CardinalityType
<1>2. /\ order \in [1..Cardinality(S) -> S]
      /\ \A i, j \in 1..Cardinality(S) : i # j => order[i] # order[j]
  BY DEF Orders, SetToSeqs
<1>3. order \in Seq(Conns)
  BY <1>1, <1>2
<1>4. QED
  BY <1>2, <1>3 DEF Listing, IsInjective, ToSet

(* The elements of a sequence are finitely many. *)
LEMMA FinitelyMany ==
    ASSUME NEW order \in Seq(Conns), NEW c
    PROVE  IsFiniteSet(ToSet(order) \cup {c})
<1>1. IsFiniteSet(1..Len(order))
  BY FS_Interval
<1>2. order \in Surjection(1..Len(order), ToSet(order))
  BY DEF Surjection, ToSet
<1>3. IsFiniteSet(ToSet(order))
  BY <1>1, <1>2, FS_Surjection
<1>4. QED
  BY <1>3, FS_AddElement

(* Discard removes the one element it is given and nothing else. *)
LEMMA DiscardRemoves ==
    ASSUME NEW order, Listing(order), NEW c \in Conns
    PROVE  Listing(Discard(order, c)) /\ ToSet(Discard(order, c)) \subseteq ToSet(order) \ {c}
<1>1. CASE c \notin ToSet(order)
  BY <1>1 DEF Discard, Listing
<1>2. CASE c \in ToSet(order)
  <2> DEFINE k == PositionOf(c, order)
             rest == RemoveAt(order, k)
  <2>1. k \in 1..Len(order) /\ order[k] = c
    BY <1>2 DEF ToSet, PositionOf, Listing
  <2>2. Discard(order, c) = rest
    BY <1>2 DEF Discard
  <2> HIDE DEF k
  <2>3. /\ rest \in Seq(Conns)
        /\ Len(rest) = Len(order) - 1
        /\ \A i \in 1..Len(rest) : rest[i] = IF i < k THEN order[i] ELSE order[i + 1]
    <3> DEFINE front == SubSeq(order, 1, k - 1)
               back  == SubSeq(order, k + 1, Len(order))
    <3>1. /\ front \in Seq(Conns) /\ Len(front) = k - 1
          /\ \A i \in 1..(k - 1) : front[i] = order[i]
      BY <2>1 DEF Listing
    <3>2. /\ back \in Seq(Conns) /\ Len(back) = Len(order) - k
          /\ \A i \in 1..(Len(order) - k) : back[i] = order[k + i]
      BY <2>1 DEF Listing
    <3>3. rest = front \o back
      BY DEF RemoveAt
    <3> HIDE DEF front, back, rest
    <3>4. /\ rest \in Seq(Conns)
          /\ Len(rest) = Len(front) + Len(back)
          /\ \A i \in 1..(Len(front) + Len(back)) :
                rest[i] = IF i <= Len(front) THEN front[i] ELSE back[i - Len(front)]
      BY <3>1, <3>2, <3>3, ConcatProperties
    <3>5. k \in Int /\ Len(order) \in Nat
      BY <2>1 DEF Listing
    <3>6. ASSUME NEW i \in 1..Len(rest)
          PROVE  rest[i] = IF i < k THEN order[i] ELSE order[i + 1]
      <4>1. CASE i < k
        BY <2>1, <3>1, <3>2, <3>4, <3>5, <3>6, <4>1
      <4>2. CASE ~(i < k)
        <5>1. rest[i] = back[i - (k - 1)]
          BY <3>1, <3>2, <3>4, <3>5, <3>6, <4>2
        <5>2. back[i - (k - 1)] = order[k + (i - (k - 1))]
          BY <3>1, <3>2, <3>4, <3>5, <3>6, <4>2, <2>1
        <5>3. k + (i - (k - 1)) = i + 1
          BY <3>1, <3>2, <3>4, <3>5, <3>6
        <5>4. QED
          BY <4>2, <5>1, <5>2, <5>3
      <4>3. QED
        BY <4>1, <4>2
    <3>7. QED
      BY <2>1, <3>1, <3>2, <3>4, <3>5, <3>6
  <2> HIDE DEF rest
  <2>4. \A i, j \in 1..Len(order) : order[i] = order[j] => i = j
    BY DEF Listing, IsInjective
  <2>5. IsInjective(rest)
    BY <2>1, <2>3, <2>4 DEF Listing, IsInjective
  <2>6. ToSet(rest) \subseteq ToSet(order) \ {c}
    BY <2>1, <2>3, <2>4 DEF Listing, ToSet
  <2>7. QED
    BY <2>2, <2>3, <2>5, <2>6 DEF Listing
<1>3. QED
  BY <1>1, <1>2

-----------------------------------------------------------------------------
(* The first half of the inductive invariant: the tables.                  *)

Shape ==
    /\ handler \in [Conns -> HandlerState]
    /\ connections \subseteq Conns
    /\ userConnections \in [Users -> SUBSET Conns]
    /\ channels \in [Channels -> Seq(Conns)]
    /\ \A ch \in Channels : Listing(channels[ch])

Tables == Shape /\ TablesAgree

LEMMA TablesInit == Init => Tables
BY DEF Init, Tables, Shape, TablesAgree, HandlerState, Listing, IsInjective, ToSet

(* Opening a connection forgets only connections that are gone. *)
LEMMA OpenKeeps == ASSUME Tables, NEW c \in Conns, Open(c) PROVE Tables'
<1>1. UserOf[c] \in Users
  OBVIOUS
<1>2. Shape'
  BY <1>1 DEF Open, Goes, ActiveOf, Tables, Shape, HandlerState
<1>3. connections' = {d \in Conns : handler'[d] \in {"greeting", "receiving", "failed"}}
  BY DEF Open, Goes, Tables, Shape, TablesAgree
<1>4. ASSUME NEW d \in connections' PROVE d \in userConnections'[UserOf[d]]
  BY <1>4 DEF Open, ActiveOf, Tables, Shape, TablesAgree
<1>5. \A ch \in Channels : ToSet(channels'[ch]) \subseteq connections'
  BY DEF Open, Tables, TablesAgree
<1>6. QED
  BY <1>2, <1>3, <1>4, <1>5 DEF Tables, TablesAgree

LEMMA AcceptKeeps == ASSUME Tables, NEW c \in Conns, Accept(c) PROVE Tables'
<1>1. UserOf[c] \in Users
  OBVIOUS
<1>2. Shape'
  BY <1>1 DEF Accept, Goes, Tables, Shape, HandlerState
<1>3. connections' = {d \in Conns : handler'[d] \in {"greeting", "receiving", "failed"}}
  BY DEF Accept, Goes, Tables, Shape, TablesAgree
<1>4. ASSUME NEW d \in connections' PROVE d \in userConnections'[UserOf[d]]
  BY <1>4 DEF Accept, Tables, Shape, TablesAgree
<1>5. \A ch \in Channels : ToSet(channels'[ch]) \subseteq connections'
  BY DEF Accept, Tables, TablesAgree
<1>6. QED
  BY <1>2, <1>3, <1>4, <1>5 DEF Tables, TablesAgree

(* The steps of the handshake and the greeting that change no table. *)
LEMMA HandlerKeeps ==
    ASSUME Tables, NEW c \in Conns, AcceptFails(c) \/ Greet(c) \/ GreetFails(c)
    PROVE  Tables'
<1>1. UNCHANGED hub
  BY DEF AcceptFails, Greet, GreetFails
<1>2. Shape'
  BY <1>1 DEF AcceptFails, Greet, GreetFails, Goes, Tables, Shape, HandlerState, hub
<1>3. connections' = {d \in Conns : handler'[d] \in {"greeting", "receiving", "failed"}}
  BY <1>1 DEF AcceptFails, Greet, GreetFails, Goes, Tables, Shape, TablesAgree, hub
<1>4. QED
  BY <1>1, <1>2, <1>3 DEF Tables, TablesAgree, hub

(* Who subscribes is receiving, and so connected. *)
LEMMA SubscribeKeeps ==
    ASSUME Tables, NEW c \in Conns, NEW ch \in Channels, Subscribe(c, ch)
    PROVE  Tables'
<1>1. c \in connections
  BY DEF Subscribe, Tables, TablesAgree
<1>2. PICK order \in Orders(ToSet(channels[ch]) \cup {c}) :
          channels' = [channels EXCEPT ![ch] = order]
  BY DEF Subscribe
<1>3. ToSet(channels[ch]) \cup {c} \in SUBSET Conns
  BY <1>1 DEF Tables, Shape, TablesAgree
<1>4. IsFiniteSet(ToSet(channels[ch]) \cup {c})
  BY FinitelyMany DEF Tables, Shape
<1>5. Listing(order) /\ ToSet(order) \subseteq ToSet(channels[ch]) \cup {c}
  BY <1>3, <1>4, OrdersList
<1>6. UNCHANGED <<handler, connections, userConnections>>
  BY DEF Subscribe
<1>7. Shape'
  BY <1>2, <1>5, <1>6 DEF Tables, Shape, Listing
<1>8. \A h \in Channels : ToSet(channels'[h]) \subseteq connections'
  BY <1>1, <1>2, <1>5, <1>6 DEF Tables, Shape, TablesAgree
<1>9. QED
  BY <1>6, <1>7, <1>8 DEF Tables, TablesAgree

LEMMA UnsubscribeKeeps ==
    ASSUME Tables, NEW c \in Conns, NEW ch \in Channels, Unsubscribe(c, ch)
    PROVE  Tables'
<1>1. /\ Listing(Discard(channels[ch], c))
      /\ ToSet(Discard(channels[ch], c)) \subseteq ToSet(channels[ch])
  BY DiscardRemoves DEF Tables, Shape
<1>2. /\ channels' = [channels EXCEPT ![ch] = Discard(@, c)]
      /\ UNCHANGED <<handler, connections, userConnections>>
  BY DEF Unsubscribe
<1>3. Shape'
  BY <1>1, <1>2 DEF Tables, Shape, Listing
<1>4. \A h \in Channels : ToSet(channels'[h]) \subseteq connections'
  BY <1>1, <1>2 DEF Tables, Shape, TablesAgree
<1>5. QED
  BY <1>2, <1>3, <1>4 DEF Tables, TablesAgree

(* The connection leaves the table and every channel in the same step. *)
LEMMA DisconnectKeeps == ASSUME Tables, NEW c \in Conns, Disconnect(c) PROVE Tables'
<1>1. ASSUME NEW h \in Channels
      PROVE  /\ Listing(Discard(channels[h], c))
             /\ ToSet(Discard(channels[h], c)) \subseteq ToSet(channels[h]) \ {c}
  BY DiscardRemoves DEF Tables, Shape
<1>2. /\ handler[c] = "receiving" /\ handler' = [handler EXCEPT ![c] = "closed"]
      /\ connections' = connections \ {c}
      /\ channels' = [h \in Channels |-> Discard(channels[h], c)]
      /\ UNCHANGED userConnections
  BY DEF Disconnect, Goes
<1>3. Shape'
  BY <1>1, <1>2 DEF Tables, Shape, Listing, HandlerState
<1>4. connections' = {d \in Conns : handler'[d] \in {"greeting", "receiving", "failed"}}
  BY <1>2 DEF Tables, Shape, TablesAgree
<1>5. \A h \in Channels : ToSet(channels'[h]) \subseteq connections'
  BY <1>1, <1>2 DEF Tables, TablesAgree
<1>6. QED
  BY <1>2, <1>3, <1>4, <1>5 DEF Tables, TablesAgree

(* The network and the broadcasts change no table. *)
LEMMA SendingKeeps ==
    ASSUME Tables,
           \/ \E c \in Conns : HangUp(c) \/ SendEnds(c)
           \/ \E p \in Publishers, ch \in Channels : Publish(p, ch)
           \/ UNCHANGED vars
    PROVE  Tables'
<1>1. UNCHANGED <<handler, hub>>
  BY DEF HangUp, SendEnds, Publish, vars, hub
<1>2. QED
  BY <1>1 DEF Tables, Shape, TablesAgree, hub, Listing

LEMMA TablesStep == Tables /\ [Next]_vars => Tables'
<1>1. SUFFICES ASSUME Tables, [Next]_vars PROVE Tables'
  OBVIOUS
<1>2. CASE \E c \in Conns : Endpoint(c)
  BY <1>1, <1>2, OpenKeeps, AcceptKeeps, HandlerKeeps, SubscribeKeeps,
     UnsubscribeKeeps, DisconnectKeeps DEF Endpoint
<1>3. CASE \/ \E c \in Conns : HangUp(c) \/ SendEnds(c)
           \/ \E p \in Publishers, ch \in Channels : Publish(p, ch)
           \/ UNCHANGED vars
  BY <1>1, <1>3, SendingKeeps
<1>4. QED
  BY <1>1, <1>2, <1>3 DEF Next

-----------------------------------------------------------------------------
(* The second half: the broadcasts.                                        *)

Sending(p) == publisher[p].rest # <<>>

SendTypes ==
    /\ peer \in [Conns -> {"up", "gone"}]
    /\ \A ch \in Channels : Len(audience[ch]) = seqs[ch]
    /\ seqs \in [Channels -> 0..MaxSeq]
    /\ audience \in [Channels -> Seq(SUBSET Conns)]
    /\ publisher \in [Publishers -> {NoBroadcast} \cup Broadcast]
    /\ waiting \in [Conns -> Seq(Publishers)]
    /\ got \in [Conns -> [Channels -> Seq(0..(MaxSeq - 1))]]

(* A publisher waits in the send of the connection it has come to. *)
WaitsInTurn ==
    \A c \in Conns :
        /\ IsInjective(waiting[c])
        /\ \A p \in ToSet(waiting[c]) : Sending(p) /\ Head(publisher[p].rest) = c

(* Whom a broadcast still has to reach was meant and has not had it. *)
Owes(p, c, ch, n) ==
    /\ Sending(p) /\ publisher[p].channel = ch /\ publisher[p].seq = n
    /\ c \in ToSet(publisher[p].rest)

RestIsOwed ==
    \A p \in Publishers : Sending(p) =>
        LET b == publisher[p]
        IN  /\ IsInjective(b.rest)
            /\ b.seq < seqs[b.channel]
            /\ \A c \in ToSet(b.rest) : /\ c \in audience[b.channel][b.seq + 1]
                                      /\ b.seq \notin ToSet(got[c][b.channel])

(* No two broadcasts have the same number on the same channel. *)
OwnNumber ==
    \A p, q \in Publishers :
        Sending(p) /\ Sending(q) /\ publisher[p].channel = publisher[q].channel
                   /\ publisher[p].seq = publisher[q].seq => p = q

NumbersTaken ==
    \A c \in Conns, ch \in Channels : \A i \in DOMAIN got[c][ch] : got[c][ch][i] < seqs[ch]

NoneLost ==
    \A ch \in Channels : \A i \in DOMAIN audience[ch] : \A c \in audience[ch][i] :
        \/ peer[c] = "gone"
        \/ i - 1 \in ToSet(got[c][ch])
        \/ \E p \in Publishers : Owes(p, c, ch, i - 1)

Sends == /\ SendTypes /\ WaitsInTurn /\ RestIsOwed /\ OwnNumber
         /\ NumbersTaken /\ DeliveredOnce /\ NoneLost

LEMMA SendsInit == Init => Sends
<1>1. SUFFICES ASSUME Init PROVE Sends
  OBVIOUS
<1>2. \A p \in Publishers : ~Sending(p)
  BY <1>1 DEF Init, Sending, NoBroadcast
<1>3. SendTypes
  BY <1>1 DEF Init, SendTypes
<1>4. WaitsInTurn
  BY <1>1 DEF Init, WaitsInTurn, IsInjective, ToSet
<1>5. RestIsOwed /\ OwnNumber
  BY <1>2 DEF RestIsOwed, OwnNumber
<1>6. NumbersTaken /\ DeliveredOnce /\ NoneLost
  BY <1>1 DEF Init, NumbersTaken, DeliveredOnce, NoneLost, IsInjective
<1>7. QED
  BY <1>3, <1>4, <1>5, <1>6 DEF Sends

(* What an endpoint does is no part of a broadcast. *)
LEMMA EndpointKeepsSends ==
    ASSUME Sends, UNCHANGED <<peer, sending>> PROVE Sends'
BY DEF Sends, SendTypes, WaitsInTurn, RestIsOwed, OwnNumber, NumbersTaken,
       DeliveredOnce, NoneLost, Owes, Sending, sending

LEMMA HangUpKeepsSends == ASSUME Sends, NEW c \in Conns, HangUp(c) PROVE Sends'
<1>1. UNCHANGED sending /\ peer' = [peer EXCEPT ![c] = "gone"]
  BY DEF HangUp
<1>2. SendTypes'
  BY <1>1 DEF Sends, SendTypes, sending
<1>3. NoneLost'
  BY <1>1 DEF Sends, SendTypes, NoneLost, Owes, Sending, sending
<1>4. QED
  BY <1>1, <1>2, <1>3 DEF Sends, WaitsInTurn, RestIsOwed, OwnNumber, NumbersTaken,
                          DeliveredOnce, Sending, sending

(* The listing of a channel's subscribers is a listing of the channel. *)
LEMMA SubscribersListed ==
    ASSUME Tables, NEW ch \in Channels
    PROVE  Listing(SubscribersOf(ch)) /\ ToSet(SubscribersOf(ch)) \subseteq Conns
<1> DEFINE order == channels[ch]
           S == ToSet(order) \cap connections
           InOrder(list) == \A i, j \in DOMAIN list :
                                i < j => PositionOf(list[i], order) < PositionOf(list[j], order)
<1>1. Listing(order) /\ S = ToSet(order)
  BY DEF Tables, Shape, TablesAgree
<1>2. order \in Injection(1..Len(order), S) /\ order \in Surjection(1..Len(order), S)
  BY <1>1 DEF Injection, Surjection, Listing, IsInjective, ToSet
<1>3. IsFiniteSet(1..Len(order)) /\ Cardinality(1..Len(order)) = Len(order)
  BY <1>1, FS_Interval DEF Listing
<1>4. IsFiniteSet(S) /\ Cardinality(S) = Len(order)
  BY <1>2, <1>3, FS_Surjection
<1>5. order \in SetToSeqs(S)
  <2>1. order \in [1..Cardinality(S) -> S]
    BY <1>2, <1>4 DEF Surjection
  <2>2. \A i, j \in 1..Cardinality(S) : i # j => order[i] # order[j]
    BY <1>1, <1>4 DEF Listing, IsInjective
  <2> HIDE DEF order, S
  <2>3. QED
    BY <2>1, <2>2 DEF SetToSeqs
<1>6. \A i \in DOMAIN order : PositionOf(order[i], order) = i
  BY <1>1 DEF PositionOf, Listing, IsInjective
<1>7. InOrder(order)
  BY <1>6
<1>8. SubscribersOf(ch) = CHOOSE list \in SetToSeqs(S) : InOrder(list)
  BY DEF SubscribersOf
<1> HIDE DEF InOrder, S
<1>9. SubscribersOf(ch) \in SetToSeqs(S)
  BY <1>5, <1>7, <1>8
<1>10. S \in SUBSET Conns
  BY DEF S, Tables, Shape
<1>11. QED
  BY <1>4, <1>9, <1>10, OrdersList DEF Orders

-----------------------------------------------------------------------------
(* Handing a broadcast on.                                                 *)

(* SendTo leaves the publisher with the rest, waiting for its first.  The  *)
(* queues it is given hold the other publishers.                           *)
LEMMA SendToHandsOn ==
    ASSUME Sends, NEW p \in Publishers, NEW b \in Broadcast,
           NEW queues \in [Conns -> Seq(Publishers)],
           \A c \in Conns : /\ IsInjective(queues[c])
                            /\ \A q \in ToSet(queues[c]) :
                                  q # p /\ Sending(q) /\ Head(publisher[q].rest) = c,
           SendTo(p, b, queues)
    PROVE  /\ publisher' = [publisher EXCEPT ![p] = IF b.rest = <<>> THEN NoBroadcast ELSE b]
           /\ waiting' \in [Conns -> Seq(Publishers)]
           /\ WaitsInTurn'
<1>1. b.rest \in Seq(Conns) /\ NoBroadcast.rest = <<>>
  BY DEF Broadcast, NoBroadcast
<1>2. DOMAIN publisher = Publishers
  BY DEF Sends, SendTypes
<1>3. publisher' = [publisher EXCEPT ![p] = IF b.rest = <<>> THEN NoBroadcast ELSE b]
  BY DEF SendTo
<1>4. \A q \in Publishers : q # p => publisher'[q] = publisher[q]
  BY <1>2, <1>3
<1>5. \A c \in Conns : \A q \in ToSet(queues[c]) :
          q # p /\ Sending(q)' /\ Head(publisher'[q].rest) = c
  <2>1. SUFFICES ASSUME NEW c \in Conns, NEW q \in ToSet(queues[c])
                 PROVE  q # p /\ Sending(q)' /\ Head(publisher'[q].rest) = c
    OBVIOUS
  <2>2. q \in Publishers
    BY DEF ToSet
  <2>3. q # p /\ Sending(q) /\ Head(publisher[q].rest) = c
    OBVIOUS
  <2>4. publisher'[q] = publisher[q]
    BY <1>4, <2>2, <2>3
  <2>5. QED
    BY <2>3, <2>4 DEF Sending
<1>6. CASE b.rest = <<>>
  <2>1. waiting' = queues
    BY <1>6 DEF SendTo
  <2>2. QED
    BY <1>3, <1>5, <2>1 DEF WaitsInTurn
<1>7. CASE b.rest # <<>>
  <2> DEFINE d == Head(b.rest)
  <2>1. d \in Conns
    BY <1>1, <1>7
  <2>2. waiting' = [queues EXCEPT ![d] = Append(@, p)]
    BY <1>7 DEF SendTo
  <2>3. publisher'[p] = b
    BY <1>2, <1>3, <1>7
  <2>4. Sending(p)' /\ Head(publisher'[p].rest) = d
    BY <1>7, <2>3 DEF Sending
  <2> HIDE DEF d
  <2>5. waiting' \in [Conns -> Seq(Publishers)]
    BY <2>1, <2>2
  <2>6. ASSUME NEW c \in Conns
        PROVE  /\ IsInjective(waiting'[c])
               /\ \A q \in ToSet(waiting'[c]) : Sending(q)' /\ Head(publisher'[q].rest) = c
    <3>1. CASE c # d
      BY <1>5, <2>2, <3>1
    <3>2. CASE c = d
      <4>1. waiting'[c] = Append(queues[c], p) /\ queues[c] \in Seq(Publishers)
        BY <2>1, <2>2, <3>2
      <4>2. /\ Len(waiting'[c]) = Len(queues[c]) + 1 /\ waiting'[c][Len(queues[c]) + 1] = p
            /\ \A i \in 1..Len(queues[c]) : waiting'[c][i] = queues[c][i]
            /\ DOMAIN waiting'[c] = 1..(Len(queues[c]) + 1) /\ DOMAIN queues[c] = 1..Len(queues[c])
        BY <4>1
      <4>3. \A i \in 1..Len(queues[c]) : queues[c][i] # p
        BY <1>5, <4>2 DEF ToSet
      <4>4. Len(queues[c]) \in Nat
        BY <4>1
      <4>5. IsInjective(waiting'[c])
        <5>1. \A i, j \in 1..Len(queues[c]) : queues[c][i] = queues[c][j] => i = j
          BY <4>2 DEF IsInjective
        <5>2. \A i \in 1..(Len(queues[c]) + 1) :
                  i \in 1..Len(queues[c]) \/ i = Len(queues[c]) + 1
          BY <4>4
        <5>3. QED
          BY <4>2, <4>3, <5>1, <5>2 DEF IsInjective
      <4>6. ToSet(waiting'[c]) \subseteq ToSet(queues[c]) \cup {p}
        BY <4>2, <4>4 DEF ToSet
      <4>7. QED
        BY <1>5, <2>4, <3>2, <4>5, <4>6
    <3>3. QED
      BY <3>1, <3>2
  <2>7. QED
    BY <1>3, <2>5, <2>6 DEF WaitsInTurn
<1>8. QED
  BY <1>6, <1>7

(* The broadcast a waiting publisher is in, and its next connection. *)
LEMMA NextInLine ==
    ASSUME Sends, NEW c \in Conns, waiting[c] # <<>>
    PROVE  LET p == Head(waiting[c])
               b == publisher[p]
           IN  /\ p \in Publishers /\ p \in ToSet(waiting[c])
               /\ Sending(p) /\ b \in Broadcast /\ b.rest \in Seq(Conns)
               /\ b.rest # <<>> /\ Head(b.rest) = c /\ IsInjective(b.rest)
<1>1. waiting[c] \in Seq(Publishers)
  BY DEF Sends, SendTypes
<1>2. Head(waiting[c]) \in Publishers /\ Head(waiting[c]) \in ToSet(waiting[c])
  BY <1>1 DEF ToSet
<1>3. Sending(Head(waiting[c])) /\ Head(publisher[Head(waiting[c])].rest) = c
  BY <1>2 DEF Sends, WaitsInTurn
<1>4. publisher[Head(waiting[c])] \in Broadcast
  BY <1>2, <1>3 DEF Sends, SendTypes, Sending, NoBroadcast
<1>5. QED
  BY <1>2, <1>3, <1>4 DEF Broadcast, Sending, Sends, RestIsOwed

LEMMA ToSetOfAppend ==
    ASSUME NEW S, NEW s \in Seq(S), NEW e
    PROVE  ToSet(Append(s, e)) = ToSet(s) \cup {e}
<1>1. /\ Len(s) \in Nat /\ DOMAIN s = 1..Len(s) /\ DOMAIN Append(s, e) = 1..(Len(s) + 1)
      /\ \A i \in 1..Len(s) : Append(s, e)[i] = s[i]
      /\ Append(s, e)[Len(s) + 1] = e
  OBVIOUS
<1>2. \A i \in 1..(Len(s) + 1) : i \in 1..Len(s) \/ i = Len(s) + 1
  BY <1>1
<1>3. ToSet(Append(s, e)) \subseteq ToSet(s) \cup {e}
  BY <1>1, <1>2 DEF ToSet
<1>4. ToSet(s) \cup {e} \subseteq ToSet(Append(s, e))
  BY <1>1 DEF ToSet
<1>5. QED
  BY <1>3, <1>4

(* What is left of a sequence of distinct elements without its first. *)
LEMMA TailOfDistinct ==
    ASSUME NEW S, NEW s \in Seq(S), s # <<>>, IsInjective(s)
    PROVE  /\ Tail(s) \in Seq(S) /\ IsInjective(Tail(s))
           /\ ToSet(Tail(s)) = ToSet(s) \ {Head(s)}
<1>1. /\ Tail(s) \in Seq(S) /\ Len(Tail(s)) = Len(s) - 1
      /\ \A i \in 1..(Len(s) - 1) : Tail(s)[i] = s[i + 1]
      /\ Head(s) = s[1] /\ Len(s) \in Nat /\ Len(s) >= 1
      /\ DOMAIN s = 1..Len(s) /\ DOMAIN Tail(s) = 1..(Len(s) - 1)
  BY HeadTailProperties
<1>2. \A i, j \in 1..Len(s) : s[i] = s[j] => i = j
  BY <1>1 DEF IsInjective
<1>3. IsInjective(Tail(s))
  BY <1>1, <1>2 DEF IsInjective
<1>4. ToSet(Tail(s)) \subseteq ToSet(s) \ {Head(s)}
  BY <1>1, <1>2 DEF ToSet
<1>5. ASSUME NEW i \in 2..Len(s) PROVE s[i] \in ToSet(Tail(s))
  <2>1. i - 1 \in 1..(Len(s) - 1) /\ Tail(s)[i - 1] = s[i]
    BY <1>1
  <2>2. QED
    BY <1>1, <2>1 DEF ToSet
<1>6. ToSet(s) \ {Head(s)} \subseteq ToSet(Tail(s))
  BY <1>1, <1>5 DEF ToSet
<1>7. QED
  BY <1>1, <1>3, <1>4, <1>6

-----------------------------------------------------------------------------
(* A send that ends: the connection at the head of the rest has had the    *)
(* event, or is gone.                                                      *)
LEMMA SendEndsKeeps == ASSUME Sends, NEW c \in Conns, SendEnds(c) PROVE Sends'
<1>0. PICK p \in Publishers, b \in Broadcast : p = Head(waiting[c]) /\ b = publisher[p]
  BY NextInLine DEF SendEnds
<1> DEFINE ch == b.channel
           rest == Tail(b.rest)
           nb == [b EXCEPT !.rest = Tail(@)]
<1>1. /\ p \in Publishers /\ p \in ToSet(waiting[c])
      /\ Sending(p) /\ b \in Broadcast /\ b.rest \in Seq(Conns)
      /\ b.rest # <<>> /\ Head(b.rest) = c /\ IsInjective(b.rest)
      /\ waiting[c] # <<>> /\ waiting[c] \in Seq(Publishers) /\ IsInjective(waiting[c])
  BY <1>0, NextInLine DEF SendEnds, Sends, SendTypes, WaitsInTurn
<1>2. /\ SendTo(p, nb, [waiting EXCEPT ![c] = Tail(@)])
      /\ UNCHANGED <<peer, seqs, audience>>
      /\ \/ got' = [got EXCEPT ![c][ch] = Append(@, b.seq)]
         \/ peer[c] = "gone" /\ UNCHANGED got
  BY <1>0 DEF SendEnds, Receives
<1>3. ch \in Channels /\ b.seq \in 0..(MaxSeq - 1)
  BY <1>1 DEF Broadcast
<1>4. /\ Tail(b.rest) \in Seq(Conns) /\ IsInjective(Tail(b.rest))
      /\ ToSet(Tail(b.rest)) = ToSet(b.rest) \ {c}
  BY <1>1, TailOfDistinct
<1>5. nb \in Broadcast /\ nb.channel = ch /\ nb.seq = b.seq /\ nb.rest = Tail(b.rest)
  BY <1>1, <1>4 DEF Broadcast
<1> DEFINE queues == [waiting EXCEPT ![c] = Tail(@)]
<1>6. /\ Tail(waiting[c]) \in Seq(Publishers) /\ IsInjective(Tail(waiting[c]))
      /\ ToSet(Tail(waiting[c])) = ToSet(waiting[c]) \ {p}
  BY <1>0, <1>1, TailOfDistinct
<1>7. waiting \in [Conns -> Seq(Publishers)]
  BY DEF Sends, SendTypes
<1>8. queues \in [Conns -> Seq(Publishers)]
  BY <1>6, <1>7
<1>9. ASSUME NEW d \in Conns
      PROVE  /\ IsInjective(queues[d])
             /\ \A q \in ToSet(queues[d]) : q # p /\ Sending(q) /\ Head(publisher[q].rest) = d
  <2>1. IsInjective(waiting[d])
        /\ \A q \in ToSet(waiting[d]) : Sending(q) /\ Head(publisher[q].rest) = d
    BY DEF Sends, WaitsInTurn
  <2>2. CASE d = c
    BY <1>0, <1>6, <1>7, <2>1, <2>2
  <2>3. CASE d # c
    BY <1>0, <1>1, <1>7, <2>1, <2>3
  <2>4. QED
    BY <2>2, <2>3
<1> HIDE DEF queues, nb
<1>10. /\ publisher' = [publisher EXCEPT ![p] = IF rest = <<>> THEN NoBroadcast ELSE nb]
       /\ waiting' \in [Conns -> Seq(Publishers)] /\ WaitsInTurn'
  <2>1. /\ p \in Publishers /\ nb \in Broadcast
        /\ SendTo(p, nb, queues) /\ queues \in [Conns -> Seq(Publishers)]
    BY <1>1, <1>2, <1>5, <1>8 DEF queues, nb
  <2>2. \A d \in Conns : /\ IsInjective(queues[d])
                         /\ \A q \in ToSet(queues[d]) :
                               q # p /\ Sending(q) /\ Head(publisher[q].rest) = d
    BY <1>9
  <2>3. /\ publisher' = [publisher EXCEPT ![p] = IF nb.rest = <<>> THEN NoBroadcast ELSE nb]
        /\ waiting' \in [Conns -> Seq(Publishers)] /\ WaitsInTurn'
    BY <2>1, <2>2, SendToHandsOn
  <2>4. nb.rest = rest
    BY <1>5
  <2>5. QED
    BY <2>3, <2>4
<1> HIDE DEF ch, rest
<1>11. publisher \in [Publishers -> {NoBroadcast} \cup Broadcast] /\ b = publisher[p]
  BY <1>0 DEF Sends, SendTypes
<1>12. \A q \in Publishers : q # p => publisher'[q] = publisher[q]
  BY <1>10, <1>11
<1>13. \/ publisher'[p] = NoBroadcast /\ ~Sending(p)' /\ rest = <<>>
       \/ publisher'[p] = nb /\ Sending(p)' /\ nb.rest = rest /\ rest # <<>>
  <2>1. NoBroadcast.rest = <<>>
    BY DEF NoBroadcast
  <2>2. nb.rest = rest
    BY <1>5 DEF rest
  <2>3. publisher'[p] = IF rest = <<>> THEN NoBroadcast ELSE nb
    BY <1>1, <1>10, <1>11
  <2>4. QED
    BY <2>1, <2>2, <2>3 DEF Sending
<1>14. /\ got \in [Conns -> [Channels -> Seq(0..(MaxSeq - 1))]]
       /\ got' \in [Conns -> [Channels -> Seq(0..(MaxSeq - 1))]]
       /\ \A d \in Conns, h \in Channels : d # c \/ h # ch => got'[d][h] = got[d][h]
       /\ \/ got'[c][ch] = Append(got[c][ch], b.seq)
          \/ peer[c] = "gone" /\ got'[c][ch] = got[c][ch]
  <2>1. got \in [Conns -> [Channels -> Seq(0..(MaxSeq - 1))]]
    BY DEF Sends, SendTypes
  <2>2. CASE got' = [got EXCEPT ![c][ch] = Append(@, b.seq)]
    <3>1. Append(got[c][ch], b.seq) \in Seq(0..(MaxSeq - 1))
      BY <1>3, <2>1
    <3>2. QED
      BY <1>3, <2>1, <2>2, <3>1
  <2>3. CASE peer[c] = "gone" /\ UNCHANGED got
    BY <2>1, <2>3
  <2>4. QED
    BY <1>2, <2>2, <2>3
<1>15. SendTypes'
  BY <1>2, <1>5, <1>10, <1>11, <1>14 DEF Sends, SendTypes
<1>16. /\ b.seq < seqs[ch] /\ c \in audience[ch][b.seq + 1] /\ b.seq \notin ToSet(got[c][ch])
       /\ c \in ToSet(b.rest) /\ ToSet(rest) = ToSet(b.rest) \ {c} /\ IsInjective(rest)
  <2>1. c \in ToSet(b.rest)
    BY <1>1 DEF ToSet
  <2>2. QED
    BY <1>0, <1>1, <1>4, <2>1 DEF Sends, RestIsOwed, ch, rest
<1>17. ToSet(got[c][ch]) \subseteq ToSet(got'[c][ch])
       /\ ToSet(got'[c][ch]) \subseteq ToSet(got[c][ch]) \cup {b.seq}
       /\ (peer[c] = "gone" \/ b.seq \in ToSet(got'[c][ch]))
  <2>1. got[c][ch] \in Seq(0..(MaxSeq - 1))
    BY <1>3, <1>14
  <2>2. ToSet(Append(got[c][ch], b.seq)) = ToSet(got[c][ch]) \cup {b.seq}
    BY <1>3, <2>1, ToSetOfAppend
  <2>3. QED
    BY <1>14, <2>2
(* Nobody else sends this number on this channel. *)
<1>18. ASSUME NEW q \in Publishers, Sending(q)', q # p
       PROVE  /\ publisher'[q] = publisher[q] /\ Sending(q) /\ publisher[q] \in Broadcast
              /\ ~(publisher[q].channel = ch /\ publisher[q].seq = b.seq)
  <2>1. publisher'[q] = publisher[q] /\ Sending(q)
    BY <1>12, <1>18 DEF Sending
  <2>2. publisher[q] \in Broadcast
    BY <2>1, <1>11 DEF Sending, NoBroadcast
  <2>3. QED
    BY <1>0, <1>1, <1>18, <2>1, <2>2 DEF Sends, OwnNumber, ch
<1>19. RestIsOwed'
  <2>1. SUFFICES ASSUME NEW q \in Publishers, Sending(q)'
                 PROVE  LET o == publisher'[q]
                        IN  /\ IsInjective(o.rest)
                            /\ o.seq < seqs[o.channel]
                            /\ \A d \in ToSet(o.rest) :
                                  /\ d \in audience[o.channel][o.seq + 1]
                                  /\ o.seq \notin ToSet(got'[d][o.channel])
    BY <1>2 DEF RestIsOwed
  <2>2. CASE q = p
    <3>1. publisher'[q] = nb /\ nb.rest = rest /\ nb.channel = ch /\ nb.seq = b.seq
      BY <1>5, <1>13, <2>1, <2>2
    <3>2. ASSUME NEW d \in ToSet(rest)
          PROVE  d \in audience[ch][b.seq + 1] /\ b.seq \notin ToSet(got'[d][ch])
      <4>1. d # c /\ d \in ToSet(b.rest) /\ d \in Conns
        BY <1>1, <1>16, <3>2 DEF ToSet
      <4>2. d \in audience[ch][b.seq + 1] /\ b.seq \notin ToSet(got[d][ch])
        BY <1>0, <1>1, <4>1 DEF Sends, RestIsOwed, ch
      <4>3. QED
        BY <1>3, <1>14, <4>1, <4>2
    <3>3. QED
      BY <1>16, <3>1, <3>2
  <2>3. CASE q # p
    <3> DEFINE o == publisher[q]
    <3>1. /\ publisher'[q] = o /\ Sending(q) /\ o \in Broadcast
          /\ ~(o.channel = ch /\ o.seq = b.seq)
      BY <1>18, <2>1, <2>3
    <3>2. /\ IsInjective(o.rest) /\ o.seq < seqs[o.channel]
          /\ \A d \in ToSet(o.rest) : /\ d \in audience[o.channel][o.seq + 1]
                                      /\ o.seq \notin ToSet(got[d][o.channel])
      BY <3>1 DEF Sends, RestIsOwed
    <3>3. o.channel \in Channels /\ o.rest \in Seq(Conns)
      BY <3>1 DEF Broadcast
    <3> HIDE DEF o
    <3>4. ASSUME NEW d \in ToSet(o.rest) PROVE o.seq \notin ToSet(got'[d][o.channel])
      <4>1. d \in Conns
        BY <3>3, <3>4 DEF ToSet
      <4>2. CASE d # c \/ o.channel # ch
        BY <1>14, <3>2, <3>3, <3>4, <4>1, <4>2
      <4>3. CASE d = c /\ o.channel = ch
        BY <1>17, <3>1, <3>2, <3>4, <4>3
      <4>4. QED
        BY <4>2, <4>3
    <3>5. QED
      BY <3>1, <3>2, <3>4
  <2>4. QED
    BY <2>2, <2>3
<1>20. OwnNumber'
  <2>1. SUFFICES ASSUME NEW q \in Publishers, NEW r \in Publishers, Sending(q)', Sending(r)',
                        publisher'[q].channel = publisher'[r].channel,
                        publisher'[q].seq = publisher'[r].seq
                 PROVE  q = r
    BY DEF OwnNumber
  <2>2. Sending(p)' => publisher'[p].channel = ch /\ publisher'[p].seq = b.seq
    BY <1>5, <1>13
  <2>3. CASE q = p \/ r = p
    BY <1>18, <2>1, <2>2, <2>3
  <2>4. CASE q # p /\ r # p
    BY <1>18, <2>1, <2>4 DEF Sends, OwnNumber
  <2>5. QED
    BY <2>3, <2>4
<1>21. ASSUME NEW d \in Conns, NEW h \in Channels
       PROVE  \/ got'[d][h] = got[d][h]
              \/ d = c /\ h = ch /\ got'[d][h] = Append(got[d][h], b.seq)
  BY <1>14
<1>22. ASSUME NEW d \in Conns, NEW h \in Channels
       PROVE  /\ \A i \in DOMAIN got'[d][h] :
                    got'[d][h][i] < seqs[h] /\ d \in audience[h][got'[d][h][i] + 1]
              /\ IsInjective(got'[d][h])
  <2>1. /\ got[d][h] \in Seq(0..(MaxSeq - 1)) /\ IsInjective(got[d][h])
        /\ \A i \in DOMAIN got[d][h] :
              got[d][h][i] < seqs[h] /\ d \in audience[h][got[d][h][i] + 1]
    BY <1>14 DEF Sends, NumbersTaken, DeliveredOnce
  <2>2. CASE got'[d][h] = got[d][h]
    BY <2>1, <2>2
  <2>3. CASE d = c /\ h = ch /\ got'[d][h] = Append(got[d][h], b.seq)
    <3> DEFINE old == got[d][h]
               new == got'[d][h]
    <3>1. /\ Len(old) \in Nat /\ DOMAIN old = 1..Len(old) /\ DOMAIN new = 1..(Len(old) + 1)
          /\ \A i \in 1..Len(old) : new[i] = old[i]
          /\ new[Len(old) + 1] = b.seq
      BY <1>3, <2>1, <2>3
    <3>2. \A i \in 1..Len(old) : old[i] # b.seq
      BY <1>16, <2>3, <3>1 DEF ToSet
    <3>3. \A i, j \in 1..Len(old) : old[i] = old[j] => i = j
      BY <2>1, <3>1 DEF IsInjective
    <3>4. \A i \in 1..(Len(old) + 1) : i \in 1..Len(old) \/ i = Len(old) + 1
      BY <3>1
    <3> HIDE DEF old, new
    <3>5. IsInjective(new)
      BY <3>1, <3>2, <3>3, <3>4 DEF IsInjective
    <3>6. \A i \in 1..(Len(old) + 1) : new[i] < seqs[h] /\ d \in audience[h][new[i] + 1]
      <4>1. \A i \in 1..Len(old) : new[i] < seqs[h] /\ d \in audience[h][new[i] + 1]
        BY <2>1, <3>1 DEF old
      <4>2. b.seq < seqs[h] /\ d \in audience[h][b.seq + 1]
        BY <1>16, <2>3
      <4>3. QED
        BY <3>1, <3>4, <4>1, <4>2
    <3>7. QED
      BY <3>1, <3>5, <3>6 DEF new
  <2>4. QED
    BY <1>21, <2>2, <2>3
<1>23. NumbersTaken' /\ DeliveredOnce'
  BY <1>2, <1>22 DEF NumbersTaken, DeliveredOnce
<1>24. NoneLost'
  <2>1. SUFFICES ASSUME NEW h \in Channels, NEW i \in DOMAIN audience[h], NEW d \in audience[h][i],
                        peer[d] # "gone", i - 1 \notin ToSet(got'[d][h])
                 PROVE  \E q \in Publishers : Owes(q, d, h, i - 1)'
    BY <1>2 DEF NoneLost
  <2>2. d \in Conns
    BY DEF Sends, SendTypes
  <2>3. i - 1 \notin ToSet(got[d][h])
    BY <1>14, <1>17, <2>1, <2>2
  <2>4. PICK q \in Publishers : Owes(q, d, h, i - 1)
    BY <2>1, <2>3 DEF Sends, NoneLost
  <2>5. CASE q # p
    BY <1>12, <2>4, <2>5 DEF Owes, Sending
  <2>6. CASE q = p
    <3>1. h = ch /\ i - 1 = b.seq /\ d \in ToSet(b.rest)
      BY <1>0, <2>4, <2>6 DEF Owes, ch
    <3>2. d # c
      BY <1>17, <2>1, <3>1
    <3>3. d \in ToSet(rest)
      BY <1>16, <3>1, <3>2
    <3>4. rest # <<>>
      BY <3>3 DEF ToSet
    <3>5. Owes(p, d, h, i - 1)'
      BY <1>5, <1>13, <3>1, <3>3, <3>4 DEF Owes
    <3>6. QED
      BY <1>1, <3>5
  <2>7. QED
    BY <2>5, <2>6
<1>25. QED
  BY <1>10, <1>15, <1>19, <1>20, <1>23, <1>24 DEF Sends

-----------------------------------------------------------------------------
(* A broadcast that begins: its number is new and nobody has it.           *)
LEMMA PublishKeeps ==
    ASSUME Tables, Sends, NEW p \in Publishers, NEW ch \in Channels, Publish(p, ch)
    PROVE  Sends'
<1> DEFINE list == SubscribersOf(ch)
<1>0. PICK n \in 0..(MaxSeq - 1), S \in SUBSET Conns, rest \in Seq(Conns) :
          n = seqs[ch] /\ S = ToSet(list) /\ rest = list /\ IsInjective(rest)
  <2>1. seqs[ch] \in 0..(MaxSeq - 1)
    BY DEF Publish, Sends, SendTypes
  <2>2. QED
    BY <2>1, SubscribersListed DEF Listing
<1> DEFINE b == [channel |-> ch, seq |-> n, rest |-> rest]
<1>1. b \in Broadcast /\ b.channel = ch /\ b.seq = n /\ b.rest = rest
  BY <1>0 DEF Broadcast
<1>2. /\ ~Sending(p) /\ S = ToSet(rest)
      /\ seqs' = [seqs EXCEPT ![ch] = n + 1]
      /\ audience' = [audience EXCEPT ![ch] = Append(@, S)]
      /\ SendTo(p, b, waiting)
      /\ UNCHANGED <<peer, got>>
  BY <1>0 DEF Publish, Sending, NoBroadcast
<1> HIDE DEF b
<1>3. /\ waiting \in [Conns -> Seq(Publishers)]
      /\ \A c \in Conns : /\ IsInjective(waiting[c])
                          /\ \A q \in ToSet(waiting[c]) :
                                q # p /\ Sending(q) /\ Head(publisher[q].rest) = c
  BY <1>2 DEF Sends, SendTypes, WaitsInTurn
<1>4. /\ publisher' = [publisher EXCEPT ![p] = IF rest = <<>> THEN NoBroadcast ELSE b]
      /\ waiting' \in [Conns -> Seq(Publishers)] /\ WaitsInTurn'
  <2>1. /\ publisher' = [publisher EXCEPT ![p] = IF b.rest = <<>> THEN NoBroadcast ELSE b]
        /\ waiting' \in [Conns -> Seq(Publishers)] /\ WaitsInTurn'
    BY <1>1, <1>2, <1>3, SendToHandsOn
  <2>2. QED
    BY <1>1, <2>1
<1>5. publisher \in [Publishers -> {NoBroadcast} \cup Broadcast]
  BY DEF Sends, SendTypes
<1>6. \A q \in Publishers : q # p => publisher'[q] = publisher[q]
  BY <1>4, <1>5
<1>7. \/ publisher'[p] = NoBroadcast /\ ~Sending(p)' /\ rest = <<>>
      \/ publisher'[p] = b /\ Sending(p)' /\ rest # <<>>
  BY <1>1, <1>4, <1>5 DEF NoBroadcast, Sending
<1>8. /\ seqs \in [Channels -> 0..MaxSeq] /\ audience \in [Channels -> Seq(SUBSET Conns)]
      /\ \A h \in Channels : Len(audience[h]) = seqs[h]
  BY DEF Sends, SendTypes
<1>9. /\ n \in Nat /\ audience[ch] \in Seq(SUBSET Conns) /\ Len(audience[ch]) = n
      /\ seqs'[ch] = n + 1 /\ audience'[ch] = Append(audience[ch], S)
      /\ \A h \in Channels : h # ch => seqs'[h] = seqs[h] /\ audience'[h] = audience[h]
  BY <1>0, <1>2, <1>8
<1>10. /\ DOMAIN audience[ch] = 1..n /\ DOMAIN audience'[ch] = 1..(n + 1)
       /\ Len(audience'[ch]) = n + 1 /\ audience'[ch][n + 1] = S
       /\ \A i \in 1..n : audience'[ch][i] = audience[ch][i]
       /\ Append(audience[ch], S) \in Seq(SUBSET Conns)
  BY <1>9
(* What was published keeps its audience. *)
<1>11. ASSUME NEW h \in Channels, NEW m \in Nat, m < seqs[h]
       PROVE  m < seqs'[h] /\ audience'[h][m + 1] = audience[h][m + 1]
  <2>1. CASE h = ch
    <3>1. m < n /\ m + 1 \in 1..n
      BY <1>0, <1>9, <1>11, <2>1
    <3>2. m < n + 1
      BY <1>9, <3>1
    <3>3. QED
      BY <1>9, <1>10, <2>1, <3>1, <3>2
  <2>2. CASE h # ch
    BY <1>9, <1>11, <2>2
  <2>3. QED
    BY <2>1, <2>2
<1>12. SendTypes'
  <2>1. seqs' \in [Channels -> 0..MaxSeq]
    BY <1>0, <1>2, <1>8
  <2>2. audience' \in [Channels -> Seq(SUBSET Conns)]
    BY <1>2, <1>8, <1>10
  <2>3. \A h \in Channels : Len(audience'[h]) = seqs'[h]
    BY <1>8, <1>9, <1>10
  <2>4. publisher' \in [Publishers -> {NoBroadcast} \cup Broadcast]
    BY <1>1, <1>4, <1>5
  <2>5. QED
    BY <1>2, <1>4, <2>1, <2>2, <2>3, <2>4 DEF Sends, SendTypes
<1>13. ASSUME NEW q \in Publishers, Sending(q)', q # p
       PROVE  /\ publisher'[q] = publisher[q] /\ Sending(q) /\ publisher[q] \in Broadcast
              /\ publisher[q].channel \in Channels /\ publisher[q].seq \in Nat
              /\ publisher[q].seq < seqs[publisher[q].channel]
  <2>1. publisher'[q] = publisher[q] /\ Sending(q)
    BY <1>6, <1>13 DEF Sending
  <2>2. publisher[q] \in Broadcast
    BY <2>1, <1>5 DEF Sending, NoBroadcast
  <2>3. publisher[q].seq < seqs[publisher[q].channel]
    BY <2>1 DEF Sends, RestIsOwed
  <2>4. QED
    BY <2>1, <2>2, <2>3 DEF Broadcast
<1>14. ASSUME NEW c \in Conns PROVE n \notin ToSet(got[c][ch])
  BY <1>0 DEF Sends, NumbersTaken, ToSet
<1>15. RestIsOwed'
  <2>1. SUFFICES ASSUME NEW q \in Publishers, Sending(q)'
                 PROVE  LET o == publisher'[q]
                        IN  /\ IsInjective(o.rest)
                            /\ o.seq < seqs'[o.channel]
                            /\ \A d \in ToSet(o.rest) :
                                  /\ d \in audience'[o.channel][o.seq + 1]
                                  /\ o.seq \notin ToSet(got[d][o.channel])
    BY <1>2 DEF RestIsOwed
  <2>2. CASE q = p
    <3>1. ToSet(rest) \subseteq Conns
      BY <1>2
    <3>2. publisher'[q] = b
      BY <1>7, <2>1, <2>2
    <3>3. n < n + 1
      BY <1>9
    <3>4. QED
      BY <1>0, <1>1, <1>2, <1>9, <1>10, <1>14, <3>1, <3>2, <3>3
  <2>3. CASE q # p
    BY <1>11, <1>13, <2>1, <2>3 DEF Sends, RestIsOwed
  <2>4. QED
    BY <2>2, <2>3
<1>16. OwnNumber'
  <2>1. SUFFICES ASSUME NEW q \in Publishers, NEW r \in Publishers, Sending(q)', Sending(r)',
                        publisher'[q].channel = publisher'[r].channel,
                        publisher'[q].seq = publisher'[r].seq
                 PROVE  q = r
    BY DEF OwnNumber
  <2>2. Sending(p)' => publisher'[p].channel = ch /\ publisher'[p].seq = n
    BY <1>1, <1>7
  <2>3. CASE q = p \/ r = p
    BY <1>0, <1>9, <1>13, <2>1, <2>2, <2>3
  <2>4. CASE q # p /\ r # p
    BY <1>13, <2>1, <2>4 DEF Sends, OwnNumber
  <2>5. QED
    BY <2>3, <2>4
<1>17. ASSUME NEW c \in Conns, NEW h \in Channels, NEW i \in DOMAIN got[c][h]
       PROVE  got[c][h][i] < seqs'[h] /\ c \in audience'[h][got[c][h][i] + 1]
  <2>1. got[c][h][i] \in Nat
    BY DEF Sends, SendTypes
  <2>2. got[c][h][i] < seqs[h] /\ c \in audience[h][got[c][h][i] + 1]
    BY DEF Sends, NumbersTaken, DeliveredOnce
  <2>3. QED
    BY <1>11, <2>1, <2>2
<1>18. NumbersTaken' /\ DeliveredOnce'
  BY <1>2, <1>17 DEF Sends, NumbersTaken, DeliveredOnce
<1>19. NoneLost'
  <2>1. SUFFICES ASSUME NEW h \in Channels, NEW i \in DOMAIN audience'[h], NEW d \in audience'[h][i],
                        peer[d] # "gone", i - 1 \notin ToSet(got[d][h])
                 PROVE  \E q \in Publishers : Owes(q, d, h, i - 1)'
    BY <1>2 DEF NoneLost
  <2>2. CASE h = ch /\ i = n + 1
    <3>1. d \in ToSet(rest) /\ i - 1 = n
      BY <1>2, <1>9, <1>10, <2>2
    <3>2. rest # <<>>
      BY <3>1 DEF ToSet
    <3>3. Owes(p, d, h, i - 1)'
      BY <1>1, <1>7, <2>2, <3>1, <3>2 DEF Owes
    <3>4. QED
      BY <3>3
  <2>3. CASE ~(h = ch /\ i = n + 1)
    <3>1. i \in DOMAIN audience[h] /\ audience'[h][i] = audience[h][i]
      <4>1. CASE h = ch
        <5>1. i \in 1..(n + 1) /\ i # n + 1
          BY <1>10, <2>3, <4>1
        <5>2. i \in 1..n
          BY <1>9, <5>1
        <5>3. QED
          BY <1>10, <4>1, <5>2
      <4>2. CASE h # ch
        BY <1>9, <4>2
      <4>3. QED
        BY <4>1, <4>2
    <3>2. PICK q \in Publishers : Owes(q, d, h, i - 1)
      BY <2>1, <3>1 DEF Sends, NoneLost
    <3>3. q # p
      BY <1>2, <3>2 DEF Owes
    <3>4. Owes(q, d, h, i - 1)'
      BY <1>6, <3>2, <3>3 DEF Owes, Sending
    <3>5. QED
      BY <3>4
  <2>4. QED
    BY <2>2, <2>3
<1>20. QED
  BY <1>4, <1>12, <1>15, <1>16, <1>18, <1>19 DEF Sends

-----------------------------------------------------------------------------
(* The two halves together.                                                *)

IInv == Tables /\ Sends

LEMMA StepKeepsIInv == IInv /\ [Next]_vars => IInv'
<1>1. SUFFICES ASSUME IInv, [Next]_vars PROVE IInv'
  OBVIOUS
<1>2. Tables'
  BY <1>1, TablesStep DEF IInv
<1>3. CASE UNCHANGED vars
  <2>1. UNCHANGED <<peer, sending>>
    BY <1>3 DEF vars, sending
  <2>2. QED
    BY <1>1, <1>2, <2>1, EndpointKeepsSends DEF IInv
<1>4. ASSUME NEW c \in Conns, Endpoint(c) PROVE Sends'
  <2>1. UNCHANGED <<peer, sending>>
    BY <1>4 DEF Endpoint, Open, Accept, AcceptFails, Greet, GreetFails,
                Disconnect, Subscribe, Unsubscribe
  <2>2. QED
    BY <1>1, <2>1, EndpointKeepsSends DEF IInv
<1>5. CASE \E c \in Conns : Endpoint(c) \/ HangUp(c) \/ SendEnds(c)
  BY <1>1, <1>2, <1>4, <1>5, HangUpKeepsSends, SendEndsKeeps DEF IInv
<1>6. CASE \E p \in Publishers, ch \in Channels : Publish(p, ch)
  BY <1>1, <1>2, <1>6, PublishKeeps DEF IInv
<1>7. QED
  BY <1>1, <1>3, <1>5, <1>6 DEF Next

LEMMA AlwaysIInv == Spec => []IInv
<1>1. Init => IInv
  BY TablesInit, SendsInit DEF IInv
<1>2. QED
  BY <1>1, StepKeepsIInv, PTL DEF Spec

(* Every variable of the hub always has its type.                          *)
THEOREM TypeAlwaysOK == Spec => []TypeOK
<1>1. IInv => TypeOK
  BY DEF IInv, Tables, Shape, Listing, Sends, SendTypes, TypeOK
<1>2. QED
  BY <1>1, AlwaysIInv, PTL

(* The tables of manager.py always agree with the handlers and with one    *)
(* another: a broadcast is only ever begun towards connections whose       *)
(* handler still runs or whose greeting failed, and every connection in    *)
(* the table is counted for its user.                                      *)
THEOREM TablesAlwaysAgree == Spec => []TablesAgree
<1>1. IInv => TablesAgree
  BY DEF IInv, Tables
<1>2. QED
  BY <1>1, AlwaysIInv, PTL

(* However broadcasts overtake one another and whoever comes and goes, an  *)
(* event reaches a connection at most once, and only one it was meant for. *)
THEOREM AlwaysDeliveredOnce == Spec => []DeliveredOnce
<1>1. IInv => DeliveredOnce
  BY DEF IInv, Sends
<1>2. QED
  BY <1>1, AlwaysIInv, PTL

(* When a broadcast is over, everyone it was meant for who is still there  *)
(* has had it.                                                             *)
THEOREM AlwaysNoneMissed == Spec => []NoneMissed
<1>1. ASSUME IInv, NEW ch \in Channels, NEW i \in DOMAIN audience[ch], NEW c \in audience[ch][i],
             ~InProgress(ch, i - 1), peer[c] = "up"
      PROVE  i - 1 \in ToSet(got[c][ch])
  <2>1. \A p \in Publishers : ~Owes(p, c, ch, i - 1)
    BY <1>1 DEF Owes, Sending, InProgress
  <2>2. QED
    BY <1>1, <2>1 DEF IInv, Sends, NoneLost
<1>2. IInv => NoneMissed
  BY <1>1 DEF NoneMissed
<1>3. QED
  BY <1>2, AlwaysIInv, PTL
=============================================================================
