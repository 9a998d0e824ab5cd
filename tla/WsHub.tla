-------------------------------- MODULE WsHub --------------------------------
(***************************************************************************)
(* The WebSocket hub: ws/manager.py and the endpoint's connection handler. *)
(*                                                                         *)
(* Every connection has a handler and every broadcast is the work of some  *)
(* publisher (a request or a background loop); all are coroutines of one   *)
(* event loop, and a step is what one of them does between two awaits.     *)
(* What is sent to a connection goes out in the order in which the sends   *)
(* were begun; a send waits as long as the client does not read.           *)
(*                                                                         *)
(* Acknowledgements and error replies are left out, but for the greeting:  *)
(* it is sent outside the try block whose finally calls disconnect.        *)
(***************************************************************************)
EXTENDS Integers, SequencesExt

CONSTANTS
    Conns,           \* connection ids; each is used for one connection
    Users,           \* the user ids
    UserOf,          \* the user a connection id embeds
    Channels,        \* the channel names
    Publishers,      \* the coroutines that call broadcast
    MaxConnections,  \* MAX_CONNECTIONS_PER_USER
    MaxSeq           \* bound: the events published on each channel

ASSUME HubAssumption ==
    /\ UserOf \in [Conns -> Users]
    /\ MaxConnections \in Nat \ {0} /\ MaxSeq \in Nat

VARIABLES
    handler,         \* handler[c]: where c's endpoint coroutine is
    peer,            \* peer[c]: whether the client is still there
    connections,     \* _connections
    userConnections, \* _user_connections
    channels,        \* _channels: each set in the order it iterates
    seqs,            \* _seq
    publisher,       \* publisher[p]: the broadcast p is in
    waiting,         \* waiting[c]: the publishers in c's send, oldest first
    got,             \* got[c][ch]: the sequence numbers that reached c
    audience         \* history: whom event number n - 1 was meant for

vars == <<handler, peer, connections, userConnections, channels, seqs,
          publisher, waiting, got, audience>>

hub     == <<connections, userConnections, channels>>
sending == <<seqs, publisher, waiting, got, audience>>

(* "failed": the greeting could not be sent and the endpoint raised. *)
HandlerState == {"new", "accepting", "greeting", "receiving",
                 "refused", "closed", "failed"}

NoBroadcast == [rest |-> <<>>]

Broadcast == [channel : Channels, seq : 0..(MaxSeq - 1), rest : Seq(Conns)]

TypeOK ==
    /\ handler \in [Conns -> HandlerState]
    /\ peer \in [Conns -> {"up", "gone"}]
    /\ connections \subseteq Conns
    /\ userConnections \in [Users -> SUBSET Conns]
    /\ channels \in [Channels -> Seq(Conns)]
    /\ \A ch \in Channels :
          IsInjective(channels[ch]) /\ Len(audience[ch]) = seqs[ch]
    /\ seqs \in [Channels -> 0..MaxSeq]
    /\ audience \in [Channels -> Seq(SUBSET Conns)]
    /\ publisher \in [Publishers -> {NoBroadcast} \cup Broadcast]
    /\ waiting \in [Conns -> Seq(Publishers)]
    /\ got \in [Conns -> [Channels -> Seq(0..(MaxSeq - 1))]]

-----------------------------------------------------------------------------
(* The endpoint.                                                           *)

Goes(c, from, to) == handler[c] = from /\ handler' = [handler EXCEPT ![c] = to]

ActiveOf(u) == userConnections[u] \cap connections

(* user_connection_count, which forgets connections that are gone, and the *)
(* limit.  The table is only changed after the handshake.                  *)
Open(c) ==
    LET u == UserOf[c]
    IN  /\ peer[c] = "up"
        /\ userConnections' = [userConnections EXCEPT ![u] = ActiveOf(u)]
        /\ Goes(c, "new", IF Cardinality(ActiveOf(u)) >= MaxConnections
                          THEN "refused" ELSE "accepting")
        /\ UNCHANGED <<peer, connections, channels, sending>>

(* connect and track_user, after the await of accept. *)
Accept(c) ==
    /\ Goes(c, "accepting", "greeting")
    /\ connections' = connections \cup {c}
    /\ userConnections' = [userConnections EXCEPT ![UserOf[c]] = @ \cup {c}]
    /\ UNCHANGED <<peer, channels, sending>>

AcceptFails(c) ==
    /\ peer[c] = "gone"
    /\ Goes(c, "accepting", "closed")
    /\ UNCHANGED <<peer, hub, sending>>

Greet(c) ==
    /\ Goes(c, "greeting", "receiving")
    /\ UNCHANGED <<peer, hub, sending>>

(* The exception leaves the endpoint and nothing removes the connection. *)
GreetFails(c) ==
    /\ peer[c] = "gone"
    /\ Goes(c, "greeting", "failed")
    /\ UNCHANGED <<peer, hub, sending>>

(* The orders a set of connections may iterate in. *)
Orders(S) == SetToSeqs(S)

(* Faulty variant: the subscribers are kept in a list. *)
SubscribeTwice(c, ch) ==
    /\ handler[c] = "receiving"
    /\ Len(channels[ch]) < 3
    /\ channels' = [channels EXCEPT ![ch] = Append(@, c)]
    /\ UNCHANGED <<handler, peer, connections, userConnections, sending>>

(* An insertion may rearrange the set. *)
Subscribe(c, ch) ==
    /\ handler[c] = "receiving"
    /\ c \notin ToSet(channels[ch])
    /\ \E order \in Orders(ToSet(channels[ch]) \cup {c}) :
          channels' = [channels EXCEPT ![ch] = order]
    /\ UNCHANGED <<handler, peer, connections, userConnections, sending>>

PositionOf(c, order) == CHOOSE i \in DOMAIN order : order[i] = c

(* The rest keeps its order. *)
Discard(order, c) ==
    IF c \in ToSet(order) THEN RemoveAt(order, PositionOf(c, order)) ELSE order

Unsubscribe(c, ch) ==
    /\ handler[c] = "receiving"
    /\ c \in ToSet(channels[ch])
    /\ channels' = [channels EXCEPT ![ch] = Discard(@, c)]
    /\ UNCHANGED <<handler, peer, connections, userConnections, sending>>

(* Faulty variant: the subscriptions outlive the connection. *)
SubscriptionsStay(c) ==
    /\ peer[c] = "gone"
    /\ Goes(c, "receiving", "closed")
    /\ connections' = connections \ {c}
    /\ UNCHANGED <<peer, userConnections, channels, sending>>

(* receive_text or a reply finds the client gone: the finally clause. *)
Disconnect(c) ==
    /\ peer[c] = "gone"
    /\ Goes(c, "receiving", "closed")
    /\ connections' = connections \ {c}
    /\ channels' = [ch \in Channels |-> Discard(channels[ch], c)]
    /\ UNCHANGED <<peer, userConnections, sending>>

(* The client closes the socket or the network drops it. *)
HangUp(c) ==
    /\ peer[c] = "up" /\ handler[c] # "new"
    /\ peer' = [peer EXCEPT ![c] = "gone"]
    /\ UNCHANGED <<handler, hub, sending>>

-----------------------------------------------------------------------------
(* broadcast.                                                              *)

(* channel_subscribers: the ones of the channel that are in the table, in  *)
(* the order in which the channel's set iterates.                          *)
SubscribersOf(ch) ==
    CHOOSE list \in SetToSeqs(ToSet(channels[ch]) \cap connections) :
        \A i, j \in DOMAIN list :
            i < j => PositionOf(list[i], channels[ch]) < PositionOf(list[j], channels[ch])

(* Publisher p is left with the connections in rest, in the send of the    *)
(* first of them.                                                          *)
SendTo(p, broadcast, queues) ==
    LET c == Head(broadcast.rest)
    IN  IF broadcast.rest = <<>>
        THEN /\ publisher' = [publisher EXCEPT ![p] = NoBroadcast]
             /\ waiting' = queues
        ELSE /\ publisher' = [publisher EXCEPT ![p] = broadcast]
             /\ waiting' = [queues EXCEPT ![c] = Append(@, p)]

(* The number is taken, and the subscribers are listed, at once. *)
Publish(p, ch) ==
    /\ publisher[p] = NoBroadcast
    /\ seqs[ch] < MaxSeq
    /\ seqs' = [seqs EXCEPT ![ch] = @ + 1]
    /\ audience' = [audience EXCEPT ![ch] = Append(@, ToSet(SubscribersOf(ch)))]
    /\ SendTo(p, [channel |-> ch, seq |-> seqs[ch], rest |-> SubscribersOf(ch)],
              waiting)
    /\ UNCHANGED <<handler, peer, hub, got>>

Receives(c, b) == got' = [got EXCEPT ![c][b.channel] = Append(@, b.seq)]

(* Faulty variants: a failed send ends the broadcast; a send to a client   *)
(* that is gone is tried again and again.                                  *)
FailureEnds(c) ==
    LET p == Head(waiting[c])
        b == publisher[p]
    IN  /\ waiting[c] # <<>>
        /\ \/ /\ peer[c] = "up"
              /\ Receives(c, b)
              /\ SendTo(p, [b EXCEPT !.rest = Tail(@)],
                        [waiting EXCEPT ![c] = Tail(@)])
           \/ /\ peer[c] = "gone"
              /\ UNCHANGED got
              /\ SendTo(p, [b EXCEPT !.rest = <<>>],
                        [waiting EXCEPT ![c] = Tail(@)])
        /\ UNCHANGED <<handler, peer, hub, seqs, audience>>

FailureRepeats(c) ==
    LET p == Head(waiting[c])
        b == publisher[p]
    IN  /\ waiting[c] # <<>>
        /\ peer[c] = "up"
        /\ Receives(c, b)
        /\ SendTo(p, [b EXCEPT !.rest = Tail(@)], [waiting EXCEPT ![c] = Tail(@)])
        /\ UNCHANGED <<handler, peer, hub, seqs, audience>>

(* Faulty variant: the subscribers are listed afresh after every send. *)
ListedAgain(c) ==
    LET p == Head(waiting[c])
        b == publisher[p]
        Unserved(d) == d # c /\ b.seq \notin ToSet(got[d][b.channel])
    IN  /\ waiting[c] # <<>>
        /\ peer[c] = "up"
        /\ Receives(c, b)
        /\ SendTo(p, [b EXCEPT !.rest = SelectSeq(SubscribersOf(b.channel), Unserved)],
                  [waiting EXCEPT ![c] = Tail(@)])
        /\ UNCHANGED <<handler, peer, hub, seqs, audience>>

(* The oldest send on c ends.  If the client is gone it may have failed:   *)
(* the exception is swallowed.  In both cases the next subscriber follows, *)
(* connected or not: the list was made when the broadcast began.           *)
SendEnds(c) ==
    LET p == Head(waiting[c])
        b == publisher[p]
    IN  /\ waiting[c] # <<>>
        /\ \/ Receives(c, b)
           \/ peer[c] = "gone" /\ UNCHANGED got
        /\ SendTo(p, [b EXCEPT !.rest = Tail(@)], [waiting EXCEPT ![c] = Tail(@)])
        /\ UNCHANGED <<handler, peer, hub, seqs, audience>>

-----------------------------------------------------------------------------
Init ==
    /\ handler = [c \in Conns |-> "new"]
    /\ peer = [c \in Conns |-> "up"]
    /\ connections = {}
    /\ userConnections = [u \in Users |-> {}]
    /\ channels = [ch \in Channels |-> <<>>]
    /\ seqs = [ch \in Channels |-> 0]
    /\ publisher = [p \in Publishers |-> NoBroadcast]
    /\ waiting = [c \in Conns |-> <<>>]
    /\ got = [c \in Conns |-> [ch \in Channels |-> <<>>]]
    /\ audience = [ch \in Channels |-> <<>>]

Endpoint(c) ==
    \/ Open(c) \/ Accept(c) \/ AcceptFails(c) \/ Greet(c) \/ GreetFails(c)
    \/ Disconnect(c)
    \/ \E ch \in Channels : Subscribe(c, ch) \/ Unsubscribe(c, ch)

Next ==
    \/ \E c \in Conns : Endpoint(c) \/ HangUp(c) \/ SendEnds(c)
    \/ \E p \in Publishers, ch \in Channels : Publish(p, ch)

(* A send ends: the client reads, or the server's ping finds it gone. *)
Fairness == \A c \in Conns : WF_vars(SendEnds(c))

Spec == Init /\ [][Next]_vars /\ Fairness

-----------------------------------------------------------------------------
(* What the hub must guarantee.                                            *)

(* The tables agree with the handlers and with one another: a connection   *)
(* is in the table from the handshake to the end of its handler, only one  *)
(* whose greeting failed stays, and whoever is subscribed is connected and *)
(* counted for its user.                                                   *)
TablesAgree ==
    /\ connections = {c \in Conns : handler[c] \in {"greeting", "receiving", "failed"}}
    /\ \A c \in connections : c \in userConnections[UserOf[c]]
    /\ \A ch \in Channels : ToSet(channels[ch]) \subseteq connections

(* An event reaches a connection at most once, and only one that was       *)
(* subscribed when the event was numbered, whatever subscribes, leaves or  *)
(* disconnects while it is being sent.                                     *)
DeliveredOnce ==
    \A c \in Conns, ch \in Channels :
        /\ IsInjective(got[c][ch])
        /\ \A i \in DOMAIN got[c][ch] : c \in audience[ch][got[c][ch][i] + 1]

(* A broadcast that is over has reached everyone it was meant for who is   *)
(* still there, although others of them failed or left in the middle.      *)
InProgress(ch, n) ==
    \E p \in Publishers : publisher[p].rest # <<>>
                          /\ publisher[p].channel = ch /\ publisher[p].seq = n

NoneMissed ==
    \A ch \in Channels : \A i \in DOMAIN audience[ch] :
        InProgress(ch, i - 1) \/ \A c \in audience[ch][i] :
            peer[c] = "up" => i - 1 \in ToSet(got[c][ch])

(* Every broadcast comes to its end, so that its caller, the tick loop for *)
(* one, goes on.                                                           *)
BroadcastEnds ==
    \A p \in Publishers : publisher[p] # NoBroadcast ~> publisher[p] = NoBroadcast

(* What docs/EVENT_CONTRACTS.md says of seq: on a channel the numbers a    *)
(* client sees only grow.                                                  *)
SeqsInOrder ==
    \A c \in Conns, ch \in Channels :
        \A i, j \in DOMAIN got[c][ch] : i < j => got[c][ch][i] < got[c][ch][j]
=============================================================================
