------------------------------- MODULE TcpProxy -------------------------------
(* The TCP proxy, plugin/tcp_socket/proxy/Socket.cpp, on the Socket base,  *)
(* lib/src/Socket.cpp: it accepts clients, connects to the remote side for *)
(* each of them, passes on what either side sends and shows it to the      *)
(* application, which may send to both.                                    *)
(*                                                                         *)
(* What interleaves are Qt's signals, the peers and the user. A QTcpSocket *)
(* is external: the peer's data is on the wire, then available in the      *)
(* socket, for which readyRead is emitted once; what is written is         *)
(* buffered, also while the socket is still connecting, and handed to the  *)
(* system by and by, or at once by flush; a socket destroyed with unread   *)
(* data resets the connection, so that what was written may be cut short.  *)
(* A connection does not succeed or fail before connectToHost returns.     *)
(*                                                                         *)
(* The view shows an error in a modal dialog, whose event loop delivers    *)
(* other signals while the one of the error is not done with.              *)
EXTENDS Integers, SequencesExt

CONSTANTS
    Links,      \* the clients, each of which connects once
    MaxData,    \* bound on what anybody sends
    Loads       \* who connects, how much the peers and the application send,
                \* whether an error opens a dialog

ASSUME LoadsAssumption ==
    /\ MaxData \in Nat
    /\ Loads \subseteq [links : SUBSET Links, peer : 0..MaxData, app : 0..MaxData,
                        modal : BOOLEAN]

Sides == {"client", "remote"}
Other(side) == IF side = "client" THEN "remote" ELSE "client"

VARIABLES
    running, connected, \* Socket: m_running, m_connected
    listening,          \* m_server
    pairs,              \* m_sockets, and what has become of former pairs
    arrived,            \* what each peer has received
    sent,               \* how much each peer, and the application, has sent
    load,               \* bounds on this behaviour
    emitting            \* the sockets whose errors are in dialogs, last on top

base == <<running, connected, listening>>
vars == <<base, pairs, arrived, sent, load, emitting>>

(* A QTcpSocket.                                                           *)
SocketIn(state) ==
    [state |-> state, open |-> state = "Connected", broken |-> FALSE,
     wire |-> <<>>, available |-> <<>>, written |-> <<>>]

Write(socket, data) ==
    IF socket.state = "Unconnected" THEN socket
    ELSE [socket EXCEPT !.written = @ \o data]

(* What becomes of a socket that is flushed and destroyed.                 *)
Flushed(socket) ==
    {[SocketIn("Unconnected") EXCEPT !.open = socket.open, !.written = rest] :
        rest \in IF socket.state # "Connected" THEN {<<>>}
                 ELSE IF socket.wire \o socket.available = <<>> THEN {socket.written}
                 ELSE Prefixes(socket.written)}

(* The same without flush.                                                 *)
Lost(socket) == [SocketIn("Unconnected") EXCEPT !.open = socket.open]

Listed(link) == pairs[link].stage = "Listed"
ListedLinks  == {link \in Links : Listed(link)}

(* Dialogs: the user waits for them, signals do not.                       *)
InDialog(link, side) == <<link, side>> \in ToSet(emitting)
User == emitting = <<>>

(* reportError, for an error of a socket.                                  *)
ReportError(link, side) ==
    emitting' = IF load.modal /\ running THEN Append(emitting, <<link, side>>) ELSE emitting

-----------------------------------------------------------------------------
(* Socket, lib/src/Socket.cpp, as the message manager and the view use it. *)

Start ==
    /\ User /\ ~running
    /\ running' = TRUE
    /\ UNCHANGED <<connected, listening, pairs, arrived, sent, load, emitting>>

(* socketConnect: the port may be taken, or be the remote one.             *)
Connect ==
    /\ User /\ running /\ ~connected
    /\ \E listens \in BOOLEAN :
        /\ connected' = (listens /\ ~listening)
        /\ listening' = (listens \/ listening)
    /\ UNCHANGED <<running, pairs, arrived, sent, load, emitting>>

(* socketDisconnect: accepted connections stay.                            *)
Disconnect ==
    /\ User /\ connected
    /\ connected' = FALSE
    /\ listening' = FALSE
    /\ UNCHANGED <<running, pairs, arrived, sent, load, emitting>>

(* Mutant: only the flag is reset.                                         *)
Stop_FlagOnly ==
    /\ User /\ running
    /\ running' = FALSE
    /\ connected' = FALSE
    /\ UNCHANGED <<listening, pairs, arrived, sent, load, emitting>>

Stop ==
    /\ User /\ running
    /\ running' = FALSE
    /\ connected' = FALSE
    /\ listening' = (listening /\ ~connected)
    /\ UNCHANGED <<pairs, arrived, sent, load, emitting>>

(* sendData, while a dialog is open too: scripts are sent by a timer.      *)
SendData ==
    /\ connected
    /\ ListedLinks # {}
    /\ sent.app < load.app
    /\ LET data == << <<"app", sent.app>> >>
       IN  pairs' = [link \in Links |->
                IF Listed(link)
                THEN [pairs[link] EXCEPT !.client = Write(@, data),
                                         !.remote = Write(@, data)]
                ELSE pairs[link]]
    /\ sent' = [sent EXCEPT !.app = @ + 1]
    /\ UNCHANGED <<base, arrived, load, emitting>>

-----------------------------------------------------------------------------
(* The slots of the proxy.                                                 *)

NewConnection(link) ==
    /\ listening
    /\ link \in load.links
    /\ pairs[link].stage = "None"
    /\ pairs' = [pairs EXCEPT ![link] =
            [stage |-> "Listed", readsClient |-> FALSE,
             client |-> SocketIn("Connected"), remote |-> SocketIn("Connecting")]]
    /\ UNCHANGED <<base, arrived, sent, load, emitting>>

(* performReadWrite: all that is available.                                *)
PerformReadWrite(pair, from) ==
    [pair EXCEPT ![from].available = <<>>,
                 ![Other(from)] = Write(@, pair[from].available)]

(* Mutant: what the client has sent already waits for its next words.      *)
ConnectionSocketConnected_NotRead(link) ==
    /\ Listed(link)
    /\ pairs[link].remote.state = "Connecting"
    /\ pairs' = [pairs EXCEPT ![link].readsClient = TRUE,
                              ![link].remote.state = "Connected",
                              ![link].remote.open = TRUE]
    /\ UNCHANGED <<base, arrived, sent, load, emitting>>

(* Mutant: readyRead of the client is not connected.                       *)
ConnectionSocketConnected_NotWatched(link) ==
    /\ Listed(link)
    /\ pairs[link].remote.state = "Connecting"
    /\ pairs' = [pairs EXCEPT ![link] =
            PerformReadWrite([@ EXCEPT !.remote.state = "Connected",
                                       !.remote.open = TRUE], "client")]
    /\ UNCHANGED <<base, arrived, sent, load, emitting>>

(* Only now readyRead of the client is of interest, and what it has sent   *)
(* before is passed on.                                                    *)
ConnectionSocketConnected(link) ==
    /\ Listed(link)
    /\ pairs[link].remote.state = "Connecting"
    /\ pairs' = [pairs EXCEPT ![link] =
            PerformReadWrite([@ EXCEPT !.readsClient = TRUE,
                                       !.remote.state = "Connected",
                                       !.remote.open = TRUE], "client")]
    /\ UNCHANGED <<base, arrived, sent, load, emitting>>

(* readFromClientSocket, if it is connected yet, readFromConnectionSocket. *)
ReadyRead(link, side) ==
    /\ Listed(link)
    /\ ~pairs[link][side].broken
    /\ \E n \in 1..Len(pairs[link][side].wire) :
        LET wire  == pairs[link][side].wire
            ready == [pairs[link] EXCEPT
                        ![side].wire = SubSeq(wire, n + 1, Len(wire)),
                        ![side].available = @ \o SubSeq(wire, 1, n)]
        IN  pairs' = [pairs EXCEPT ![link] =
                IF side = "remote" \/ ready.readsClient
                THEN PerformReadWrite(ready, side) ELSE ready]
    /\ UNCHANGED <<base, arrived, sent, load, emitting>>

(* disconnected() of a socket: its peer has closed, and all it has sent    *)
(* has been read into the socket; or the connection is broken.             *)
Disconnects(link, side) ==
    /\ Listed(link)
    /\ ~InDialog(link, side)
    /\ LET socket == pairs[link][side]
       IN  /\ socket.state = "Connected"
           /\ socket.broken \/ (~socket.open /\ socket.wire = <<>>)

Ended(link, end) ==
    IF \E side \in Sides : pairs[link][side].broken THEN "Dropped" ELSE end

(* Mutant: the other socket is not flushed before it is destroyed.         *)
ClientConnectionTerminated_NoFlush(link) ==
    /\ Disconnects(link, "client")
    /\ pairs' = [pairs EXCEPT ![link] =
            [stage |-> Ended(link, "ByClient"), readsClient |-> FALSE,
             client |-> Lost(@.client), remote |-> Lost(@.remote)]]
    /\ UNCHANGED <<base, arrived, sent, load, emitting>>

(* The other socket is flushed and destroyed with the pair, the client's   *)
(* own one later.                                                          *)
ClientConnectionTerminated(link) ==
    /\ Disconnects(link, "client")
    /\ \E remote \in Flushed(pairs[link].remote) :
        pairs' = [pairs EXCEPT ![link] =
            [stage |-> Ended(link, "ByClient"), readsClient |-> FALSE,
             client |-> Lost(@.client), remote |-> remote]]
    /\ UNCHANGED <<base, arrived, sent, load, emitting>>

(* The client's socket is flushed and destroyed, the other one later.      *)
ConnectionSocketDisconnected(link) ==
    /\ Disconnects(link, "remote")
    /\ \E client \in Flushed(pairs[link].client) :
        pairs' = [pairs EXCEPT ![link] =
            [stage |-> Ended(link, "ByRemote"), readsClient |-> FALSE,
             client |-> client, remote |-> Lost(@.remote)]]
    /\ UNCHANGED <<base, arrived, sent, load, emitting>>

(* socketErrorOccurred: the remote side cannot be reached, or a connection *)
(* breaks; that a peer has closed is not an error.                         *)
ConnectionFails(link) ==
    /\ Listed(link)
    /\ pairs[link].remote.state = "Connecting"
    /\ pairs' = [pairs EXCEPT ![link].remote = SocketIn("Unconnected")]
    /\ ReportError(link, "remote")
    /\ UNCHANGED <<base, arrived, sent, load>>

ConnectionBreaks(link, side) ==
    /\ Listed(link)
    /\ pairs[link][side].state = "Connected"
    /\ ~pairs[link][side].broken
    /\ pairs' = [pairs EXCEPT ![link][side].broken = TRUE]
    /\ ReportError(link, side)
    /\ UNCHANGED <<base, arrived, sent, load>>

DialogClosed ==
    /\ emitting # <<>>
    /\ emitting' = Front(emitting)
    /\ UNCHANGED <<base, pairs, arrived, sent, load>>

AllLeft == UNION {Flushed(pairs[link][side]) : link \in ListedLinks, side \in Sides}

(* ~Socket, when the plugin is not wanted any more: removeConnection for   *)
(* each pair. The next Start is that of a new object.                      *)
Unload ==
    /\ User /\ ~running
    /\ ListedLinks # {}
    /\ \E left \in [ListedLinks -> [Sides -> AllLeft]] :
        /\ \A link \in ListedLinks, side \in Sides :
                left[link][side] \in Flushed(pairs[link][side])
        /\ pairs' = [link \in Links |->
                IF ~Listed(link) THEN pairs[link]
                ELSE [stage |-> "Dropped", readsClient |-> FALSE,
                      client |-> left[link]["client"], remote |-> left[link]["remote"]]]
    /\ UNCHANGED <<base, arrived, sent, load, emitting>>

-----------------------------------------------------------------------------
(* The peers.                                                              *)

PeerSends(link, side) ==
    /\ Listed(link)
    /\ pairs[link][side].open /\ ~pairs[link][side].broken
    /\ sent[side][link] < load.peer
    /\ pairs' = [pairs EXCEPT ![link][side].wire =
                    Append(@, <<"peer", sent[side][link]>>)]
    /\ sent' = [sent EXCEPT ![side][link] = @ + 1]
    /\ UNCHANGED <<base, arrived, load, emitting>>

PeerReceives(link, side) ==
    LET socket == pairs[link][side]
    IN  /\ socket.written # <<>>
        /\ socket.open /\ ~socket.broken
        /\ arrived' = [arrived EXCEPT ![link][side] = Append(@, Head(socket.written))]
        /\ pairs' = [pairs EXCEPT ![link][side].written = Tail(@)]
        /\ UNCHANGED <<base, sent, load, emitting>>

PeerCloses(link, side) ==
    /\ Listed(link)
    /\ pairs[link][side].open
    /\ pairs' = [pairs EXCEPT ![link][side].open = FALSE]
    /\ UNCHANGED <<base, arrived, sent, load, emitting>>

Init ==
    /\ running = FALSE
    /\ connected = FALSE
    /\ listening = FALSE
    /\ pairs = [link \in Links |->
            [stage |-> "None", readsClient |-> FALSE,
             client |-> SocketIn("Unconnected"), remote |-> SocketIn("Unconnected")]]
    /\ arrived = [link \in Links |-> [side \in Sides |-> <<>>]]
    /\ sent = [client |-> [link \in Links |-> 0],
               remote |-> [link \in Links |-> 0], app |-> 0]
    /\ load \in Loads
    /\ emitting = <<>>

Next ==
    \/ Start
    \/ Connect
    \/ Disconnect
    \/ Stop
    \/ Unload
    \/ SendData
    \/ DialogClosed
    \/ \E link \in Links :
        \/ NewConnection(link)
        \/ ConnectionSocketConnected(link)
        \/ ConnectionFails(link)
        \/ ClientConnectionTerminated(link)
        \/ ConnectionSocketDisconnected(link)
        \/ \E side \in Sides :
            \/ ReadyRead(link, side)
            \/ ConnectionBreaks(link, side)
            \/ PeerSends(link, side)
            \/ PeerReceives(link, side)
            \/ PeerCloses(link, side)

Spec == Init /\ [][Next]_vars

(* The event loop, a dialog's too, delivers what the system has to say: a  *)
(* connection is made or refused, data has come, a connection has ended.   *)
(* External: a peer takes what it is sent, the user closes a dialog.       *)
Fairness ==
    /\ WF_vars(DialogClosed)
    /\ \A link \in Links :
        /\ WF_vars(ConnectionSocketConnected(link) \/ ConnectionFails(link))
        /\ WF_vars(ClientConnectionTerminated(link))
        /\ WF_vars(ConnectionSocketDisconnected(link))
        /\ \A side \in Sides : /\ WF_vars(ReadyRead(link, side))
                              /\ WF_vars(PeerReceives(link, side))

FairSpec == Spec /\ Fairness

-----------------------------------------------------------------------------
Data   == {"peer", "app"} \X (0..MaxData)
Socket == [state : {"Unconnected", "Connecting", "Connected"}, open : BOOLEAN,
           broken : BOOLEAN, wire : Seq(Data), available : Seq(Data),
           written : Seq(Data)]

TypeOK ==
    /\ {running, connected, listening} \subseteq BOOLEAN
    /\ emitting \in Seq(Links \X Sides)
    /\ \A link \in Links :
        /\ pairs[link].stage \in {"None", "Listed", "ByClient", "ByRemote", "Dropped"}
        /\ {pairs[link].client, pairs[link].remote} \subseteq Socket
        /\ Listed(link) <=> pairs[link].client.state = "Connected"
        /\ pairs[link].readsClient => Listed(link)

(* The flag of the base and the listening socket agree, whatever the order *)
(* of the user's commands: assert(Already_listening), and data is not sent *)
(* to nobody while clients are accepted.                                   *)
ConnectedIsListening == connected <=> listening

(* Once both sides are connected, nothing that either has sent stays in    *)
(* the proxy to wait for that side's next words: readyRead is not emitted  *)
(* again for what has been there before the slot was connected.            *)
NothingHeldBack ==
    \A link \in ListedLinks :
        pairs[link].remote.state = "Connected" =>
            \A side \in Sides : pairs[link][side].available = <<>>

(* The proxy keeps the promise of Relay: what has arrived in the socket of *)
(* one side and what is written to that of the other is under way.         *)
From(data, source) ==
    LET kept[i \in 0..Len(data)] ==
            IF i = 0 THEN <<>>
            ELSE IF data[i][1] = source THEN Append(kept[i - 1], data[i])
            ELSE kept[i - 1]
    IN  kept[Len(data)]

PhaseOf(pair) ==
    IF pair.stage # "Listed" THEN pair.stage
    ELSE IF pair.remote.state = "Connected" THEN "Established" ELSE "Open"

UnderWay(pair, side) ==
    [peer |-> From(pair[side].written, "peer")
                \o pair[Other(side)].available
                \o pair[Other(side)].wire,
     app  |-> From(pair[side].written, "app")]

BySource(data) == [peer |-> From(data, "peer"), app |-> From(data, "app")]

PhaseOfLinks    == [link \in Links |-> PhaseOf(pairs[link])]
UnderWayOfLinks == [link \in Links |-> [side \in Sides |-> UnderWay(pairs[link], side)]]
ArrivedOfLinks  == [link \in Links |-> [side \in Sides |-> BySource(arrived[link][side])]]

Promise == INSTANCE Relay WITH
    phase <- PhaseOfLinks, underway <- UnderWayOfLinks, arrived <- ArrivedOfLinks

KeepsPromise == Promise!RelaySpec

(* What either side or the application has sent is not under way for ever: *)
(* it arrives, or the link ends. Nothing waits in the proxy for a signal   *)
(* that is not emitted again, nor for a side that has closed or is broken, *)
(* whatever dialogs are open meanwhile. A remote side that has refused is  *)
(* the exception: the code keeps the client, and does not read it.         *)
WordsArrive ==
    \A link \in Links, side \in Sides :
        Listed(link) /\ UnderWay(pairs[link], side) # BySource(<<>>)
            ~> \/ UnderWay(pairs[link], side) = BySource(<<>>)
               \/ ~Listed(link)
               \/ side = "remote" /\ pairs[link].remote.state = "Unconnected"
=============================================================================
