--------------------------- MODULE TcpProxyProofs ---------------------------
(* Proofs about TcpProxy, for any number of clients, any amount of data    *)
(* and any order of signals: the proxy listens while it is connected, it   *)
(* holds nothing back, and it implements Relay.                            *)
EXTENDS TcpProxy, Induction, SequenceTheorems, TLAPS

Stages == {"None", "Listed", "ByClient", "ByRemote", "Dropped"}
Pair   == [stage : Stages, readsClient : BOOLEAN, client : Socket, remote : Socket]

Types ==
    /\ running \in BOOLEAN
    /\ connected \in BOOLEAN
    /\ listening \in BOOLEAN
    /\ emitting \in Seq(Links \X Sides)
    /\ pairs \in [Links -> Pair]
    /\ sent \in [client : [Links -> Nat], remote : [Links -> Nat], app : Nat]
    /\ load \in Loads

(* The client's socket is connected as long as the pair is listed; it is   *)
(* read exactly while the remote side is connected; and whatever is read   *)
(* is passed on at once.                                                   *)
PairFits(pair) ==
    /\ pair.stage = "Listed" <=> pair.client.state = "Connected"
    /\ pair.stage # "Listed" => pair.remote.state = "Unconnected"
    /\ pair.readsClient <=> pair.remote.state = "Connected"
    /\ pair.remote.available = <<>>
    /\ pair.readsClient => pair.client.available = <<>>

AllFit == \A link \in Links : PairFits(pairs[link])

IInv ==
    /\ Types
    /\ AllFit
    /\ ConnectedIsListening

-----------------------------------------------------------------------------
(* Sockets.                                                                *)

LEMMA SocketInTyped ==
  ASSUME NEW state \in {"Unconnected", "Connecting", "Connected"}
  PROVE  SocketIn(state) \in Socket
<1>1. <<>> \in Seq(Data) /\ (state = "Connected") \in BOOLEAN
  OBVIOUS
<1> QED
  BY <1>1 DEF SocketIn, Socket

LEMMA WriteTyped ==
  ASSUME NEW socket \in Socket, NEW data \in Seq(Data)
  PROVE  /\ Write(socket, data) \in Socket
         /\ Write(socket, data).state = socket.state
         /\ Write(socket, data).available = socket.available
<1>1. CASE socket.state = "Unconnected"
  BY <1>1 DEF Write
<1>2. CASE socket.state # "Unconnected"
  <2>1. Write(socket, data) = [socket EXCEPT !.written = @ \o data]
    BY <1>2 DEF Write
  <2>2. socket.written \o data \in Seq(Data)
    BY DEF Socket
  <2> QED
    BY <2>1, <2>2 DEF Socket
<1> QED
  BY <1>1, <1>2

LEMMA PrefixesTyped ==
  ASSUME NEW S, NEW s \in Seq(S)
  PROVE  Prefixes(s) \subseteq Seq(S)
<1>1. ASSUME NEW l \in 0..Len(s)
      PROVE  SubSeq(s, 1, l) \in Seq(S)
  BY <1>1
<1> QED
  BY <1>1 DEF Prefixes

LEMMA FlushedTyped ==
  ASSUME NEW socket \in Socket
  PROVE  /\ Flushed(socket) \subseteq Socket
         /\ \A left \in Flushed(socket) :
              left.state = "Unconnected" /\ left.available = <<>>
<1> DEFINE Rests == IF socket.state # "Connected" THEN {<<>>}
                    ELSE IF socket.wire \o socket.available = <<>> THEN {socket.written}
                    ELSE Prefixes(socket.written)
<1>1. Rests \subseteq Seq(Data)
  <2>1. socket.written \in Seq(Data) /\ <<>> \in Seq(Data)
    BY DEF Socket
  <2> QED
    BY <2>1, PrefixesTyped
<1>2. ASSUME NEW left \in Flushed(socket)
      PROVE  left \in Socket /\ left.state = "Unconnected" /\ left.available = <<>>
  <2>1. PICK rest \in Rests :
            left = [SocketIn("Unconnected") EXCEPT !.open = socket.open, !.written = rest]
    BY <1>2 DEF Flushed
  <2>2. rest \in Seq(Data) /\ socket.open \in BOOLEAN
    BY <1>1 DEF Socket
  <2>3. /\ SocketIn("Unconnected") \in Socket
        /\ SocketIn("Unconnected").state = "Unconnected"
        /\ SocketIn("Unconnected").available = <<>>
    BY SocketInTyped DEF SocketIn
  <2> HIDE DEF Rests
  <2> QED
    BY <2>1, <2>2, <2>3 DEF Socket
<1> QED
  BY <1>2

LEMMA LostTyped ==
  ASSUME NEW socket \in Socket
  PROVE  /\ Lost(socket) \in Socket
         /\ Lost(socket).state = "Unconnected" /\ Lost(socket).available = <<>>
<1>1. SocketIn("Unconnected") \in Socket /\ socket.open \in BOOLEAN
  BY SocketInTyped DEF Socket
<1>2. /\ SocketIn("Unconnected").state = "Unconnected"
      /\ SocketIn("Unconnected").available = <<>>
  BY DEF SocketIn
<1> QED
  BY <1>1, <1>2 DEF Lost, Socket

-----------------------------------------------------------------------------
(* Pairs of sockets.                                                       *)

LEMMA PassedOn ==
  ASSUME NEW pair \in Pair, NEW from \in Sides
  PROVE  LET after == PerformReadWrite(pair, from)
         IN  /\ after \in Pair
             /\ after.stage = pair.stage /\ after.readsClient = pair.readsClient
             /\ after.client.state = pair.client.state
             /\ after.remote.state = pair.remote.state
             /\ after.client.available =
                  IF from = "client" THEN <<>> ELSE pair.client.available
             /\ after.remote.available =
                  IF from = "remote" THEN <<>> ELSE pair.remote.available
<1>1. /\ pair.client \in Socket /\ pair.remote \in Socket
      /\ pair.client.available \in Seq(Data) /\ pair.remote.available \in Seq(Data)
      /\ <<>> \in Seq(Data)
  BY DEF Pair, Socket
<1> DEFINE client == [pair.client EXCEPT !.available = <<>>]
           remote == [pair.remote EXCEPT !.available = <<>>]
           toRemote == Write(pair.remote, pair.client.available)
           toClient == Write(pair.client, pair.remote.available)
<1>2. /\ client \in Socket /\ client.state = pair.client.state
      /\ client.available = <<>>
      /\ remote \in Socket /\ remote.state = pair.remote.state
      /\ remote.available = <<>>
  BY <1>1 DEF Socket
<1>3. /\ toRemote \in Socket /\ toRemote.state = pair.remote.state
      /\ toRemote.available = pair.remote.available
      /\ toClient \in Socket /\ toClient.state = pair.client.state
      /\ toClient.available = pair.client.available
  BY <1>1, WriteTyped
<1>4. CASE from = "client"
  <2>1. PerformReadWrite(pair, from)
            = [pair EXCEPT !.client = client, !.remote = toRemote]
    BY <1>4 DEF PerformReadWrite, Other, Pair
  <2> HIDE DEF client, toRemote
  <2> QED
    BY <1>2, <1>3, <1>4, <2>1 DEF Pair
<1>5. CASE from = "remote"
  <2>1. PerformReadWrite(pair, from)
            = [pair EXCEPT !.remote = remote, !.client = toClient]
    BY <1>5 DEF PerformReadWrite, Other, Pair
  <2> HIDE DEF remote, toClient
  <2> QED
    BY <1>2, <1>3, <1>5, <2>1 DEF Pair
<1> QED
  BY <1>4, <1>5 DEF Sides

(* One pair changes.                                                       *)
LEMMA PairChanges ==
  ASSUME pairs \in [Links -> Pair], AllFit, NEW link \in Links,
         NEW pair \in Pair, PairFits(pair),
         pairs' = [pairs EXCEPT ![link] = pair]
  PROVE  pairs' \in [Links -> Pair] /\ AllFit'
BY DEF AllFit

(* A socket of a pair changes, but what it is fit for does not.            *)
LEMMA SideChanges ==
  ASSUME pairs \in [Links -> Pair], AllFit, NEW link \in Links, NEW side \in Sides,
         NEW socket \in Socket,
         socket.state = pairs[link][side].state,
         socket.available = pairs[link][side].available,
         pairs' = [pairs EXCEPT ![link] = [@ EXCEPT ![side] = socket]]
  PROVE  pairs' \in [Links -> Pair] /\ AllFit'
<1> DEFINE pair == [pairs[link] EXCEPT ![side] = socket]
<1>1. pair \in Pair
  BY DEF Pair, Sides
<1>2. PairFits(pair)
  <2>1. PairFits(pairs[link])
    BY DEF AllFit
  <2>2. CASE side = "client"
    BY <2>1, <2>2 DEF PairFits, Pair
  <2>3. CASE side = "remote"
    BY <2>1, <2>3 DEF PairFits, Pair
  <2> QED
    BY <2>2, <2>3 DEF Sides
<1>3. pairs' = [pairs EXCEPT ![link] = pair]
  OBVIOUS
<1> HIDE DEF pair
<1> QED
  BY <1>1, <1>2, <1>3, PairChanges

-----------------------------------------------------------------------------
(* What the actions make of the pairs.                                     *)

PairsKept == pairs' \in [Links -> Pair] /\ AllFit'

LEMMA NewConnectionKeeps ==
  ASSUME IInv, NEW link \in Links, NewConnection(link)
  PROVE  PairsKept
<1> DEFINE pair == [stage |-> "Listed", readsClient |-> FALSE,
                    client |-> SocketIn("Connected"), remote |-> SocketIn("Connecting")]
<1>1. SocketIn("Connected") \in Socket /\ SocketIn("Connecting") \in Socket
  BY SocketInTyped
<1>2. pair \in Pair
  BY <1>1 DEF Pair, Stages
<1>3. PairFits(pair)
  BY DEF PairFits, SocketIn
<1>4. pairs' = [pairs EXCEPT ![link] = pair]
  BY DEF NewConnection
<1> HIDE DEF pair
<1> QED
  BY <1>2, <1>3, <1>4, PairChanges DEF IInv, Types, PairsKept

LEMMA ConnectedKeeps ==
  ASSUME IInv, NEW link \in Links, ConnectionSocketConnected(link)
  PROVE  PairsKept
<1> DEFINE remote == [pairs[link].remote EXCEPT !.state = "Connected", !.open = TRUE]
           ready  == [pairs[link] EXCEPT !.readsClient = TRUE, !.remote = remote]
           pair   == PerformReadWrite(ready, "client")
<1>1. pairs[link] \in Pair /\ PairFits(pairs[link]) /\ pairs[link].stage = "Listed"
  BY DEF IInv, Types, AllFit, ConnectionSocketConnected, Listed
<1>2. /\ remote \in Socket /\ remote.state = "Connected"
      /\ remote.available = <<>>
  BY <1>1 DEF Pair, Socket, PairFits
<1>3. /\ ready \in Pair /\ ready.stage = "Listed" /\ ready.readsClient = TRUE
      /\ ready.remote = remote /\ ready.client = pairs[link].client
  <2> HIDE DEF remote
  <2> QED
    BY <1>1, <1>2 DEF Pair
<1>4. pairs' = [pairs EXCEPT ![link] = pair]
  BY DEF ConnectionSocketConnected
<1>5. /\ pair \in Pair /\ pair.stage = "Listed" /\ pair.readsClient = TRUE
      /\ pair.client.state = pairs[link].client.state
      /\ pair.remote.state = "Connected"
      /\ pair.client.available = <<>> /\ pair.remote.available = <<>>
  <2> HIDE DEF ready, remote
  <2> QED
    BY <1>2, <1>3, PassedOn DEF Sides
<1>6. PairFits(pair)
  BY <1>1, <1>5 DEF PairFits
<1> HIDE DEF pair
<1> QED
  BY <1>4, <1>5, <1>6, PairChanges DEF IInv, Types, PairsKept

LEMMA ReadyReadKeeps ==
  ASSUME IInv, NEW link \in Links, NEW side \in Sides, ReadyRead(link, side)
  PROVE  PairsKept
<1> DEFINE wire == pairs[link][side].wire
<1>1. /\ pairs[link] \in Pair /\ PairFits(pairs[link]) /\ pairs[link].stage = "Listed"
      /\ pairs[link][side] \in Socket
  BY DEF IInv, Types, AllFit, ReadyRead, Listed, Sides, Pair
<1>2. PICK n \in 1..Len(wire) :
        LET ready == [pairs[link] EXCEPT
                        ![side].wire = SubSeq(wire, n + 1, Len(wire)),
                        ![side].available = @ \o SubSeq(wire, 1, n)]
        IN  pairs' = [pairs EXCEPT ![link] =
                IF side = "remote" \/ ready.readsClient
                THEN PerformReadWrite(ready, side) ELSE ready]
  BY DEF ReadyRead
<1> DEFINE more   == [pairs[link][side] EXCEPT
                        !.wire = SubSeq(wire, n + 1, Len(wire)),
                        !.available = @ \o SubSeq(wire, 1, n)]
           ready  == [pairs[link] EXCEPT ![side] = more]
           pair   == IF side = "remote" \/ ready.readsClient
                     THEN PerformReadWrite(ready, side) ELSE ready
<1>3. pairs' = [pairs EXCEPT ![link] = pair]
  <2> DEFINE read == [pairs[link] EXCEPT
                        ![side].wire = SubSeq(wire, n + 1, Len(wire)),
                        ![side].available = @ \o SubSeq(wire, 1, n)]
  <2>1. read = ready
    BY <1>1 DEF Pair, Socket, Sides
  <2>2. pairs' = [pairs EXCEPT ![link] =
                    IF side = "remote" \/ read.readsClient
                    THEN PerformReadWrite(read, side) ELSE read]
    BY <1>2, Zenon
  <2> HIDE DEF read, ready
  <2> QED
    BY <2>1, <2>2
<1>4. more \in Socket /\ more.state = pairs[link][side].state
  <2>1. /\ wire \in Seq(Data) /\ pairs[link][side].available \in Seq(Data)
        /\ n \in Nat /\ n >= 1 /\ n <= Len(wire)
    BY <1>1, <1>2 DEF Socket
  <2>2. SubSeq(wire, n + 1, Len(wire)) \in Seq(Data) /\ SubSeq(wire, 1, n) \in Seq(Data)
    BY <2>1
  <2>3. pairs[link][side].available \o SubSeq(wire, 1, n) \in Seq(Data)
    BY <2>1, <2>2
  <2> HIDE DEF wire
  <2> QED
    BY <1>1, <2>2, <2>3 DEF Socket
<1>5. /\ ready \in Pair /\ ready.stage = "Listed"
      /\ ready.readsClient = pairs[link].readsClient
      /\ ready.client = IF side = "client" THEN more ELSE pairs[link].client
      /\ ready.remote = IF side = "remote" THEN more ELSE pairs[link].remote
  <2> HIDE DEF more
  <2> QED
    BY <1>1, <1>4 DEF Pair, Sides
<1>6. /\ ready.client.state = pairs[link].client.state
      /\ ready.remote.state = pairs[link].remote.state
  BY <1>4, <1>5 DEF Sides
<1> HIDE DEF ready, more
<1>7. pair \in Pair /\ PairFits(pair)
  <2>1. CASE side = "remote" \/ ready.readsClient
    <3>1. pair = PerformReadWrite(ready, side)
      BY <2>1
    <3>2. /\ pair \in Pair
          /\ pair.stage = ready.stage /\ pair.readsClient = ready.readsClient
          /\ pair.client.state = ready.client.state
          /\ pair.remote.state = ready.remote.state
          /\ pair.client.available =
               IF side = "client" THEN <<>> ELSE ready.client.available
          /\ pair.remote.available =
               IF side = "remote" THEN <<>> ELSE ready.remote.available
      BY <3>1, <1>5, PassedOn
    <3> HIDE DEF pair
    <3> QED
      BY <1>1, <1>5, <1>6, <3>2 DEF PairFits, Sides
  <2>2. CASE side = "client" /\ ~ready.readsClient
    BY <1>1, <1>5, <1>6, <2>2 DEF PairFits
  <2> QED
    BY <2>1, <2>2 DEF Sides
<1> HIDE DEF pair
<1> QED
  BY <1>3, <1>7, PairChanges DEF IInv, Types, PairsKept

LEMMA ListedPair ==
  ASSUME IInv, NEW link \in Links, NEW side \in Sides
  PROVE  /\ pairs[link] \in Pair /\ PairFits(pairs[link])
         /\ pairs[link][side] \in Socket
BY DEF IInv, Types, AllFit, Sides, Pair

LEMMA BreaksKeeps ==
  ASSUME IInv, NEW link \in Links, NEW side \in Sides, ConnectionBreaks(link, side)
  PROVE  PairsKept
<1> DEFINE socket == [pairs[link][side] EXCEPT !.broken = TRUE]
<1>1. /\ socket \in Socket /\ socket.state = pairs[link][side].state
      /\ socket.available = pairs[link][side].available
  BY ListedPair DEF Socket
<1>2. pairs' = [pairs EXCEPT ![link] = [@ EXCEPT ![side] = socket]]
  BY DEF ConnectionBreaks
<1> HIDE DEF socket
<1> QED
  BY <1>1, <1>2, SideChanges DEF IInv, Types, PairsKept

LEMMA ClosesKeeps ==
  ASSUME IInv, NEW link \in Links, NEW side \in Sides, PeerCloses(link, side)
  PROVE  PairsKept
<1> DEFINE socket == [pairs[link][side] EXCEPT !.open = FALSE]
<1>1. /\ socket \in Socket /\ socket.state = pairs[link][side].state
      /\ socket.available = pairs[link][side].available
  BY ListedPair DEF Socket
<1>2. pairs' = [pairs EXCEPT ![link] = [@ EXCEPT ![side] = socket]]
  BY DEF PeerCloses
<1> HIDE DEF socket
<1> QED
  BY <1>1, <1>2, SideChanges DEF IInv, Types, PairsKept

LEMMA PeerSendsKeeps ==
  ASSUME IInv, NEW link \in Links, NEW side \in Sides, PeerSends(link, side)
  PROVE  PairsKept
<1> DEFINE data   == <<"peer", sent[side][link]>>
           socket == [pairs[link][side] EXCEPT !.wire = Append(@, data)]
<1>1. data \in Data
  <2>1. sent[side][link] \in Nat /\ sent[side][link] < load.peer
    BY DEF PeerSends, IInv, Types, Sides
  <2>2. load.peer \in 0..MaxData /\ MaxData \in Nat
    BY LoadsAssumption DEF IInv, Types
  <2>3. sent[side][link] \in 0..MaxData
    BY <2>1, <2>2
  <2> QED
    BY <2>3 DEF Data
<1>2. pairs' = [pairs EXCEPT ![link] = [@ EXCEPT ![side] = socket]]
  BY DEF PeerSends
<1>3. /\ socket \in Socket /\ socket.state = pairs[link][side].state
      /\ socket.available = pairs[link][side].available
  <2> HIDE DEF data
  <2>1. pairs[link][side] \in Socket /\ pairs[link][side].wire \in Seq(Data)
    BY ListedPair DEF Socket
  <2>2. Append(pairs[link][side].wire, data) \in Seq(Data)
    BY <1>1, <2>1
  <2> QED
    BY <2>1, <2>2 DEF Socket
<1> HIDE DEF socket
<1> QED
  BY <1>2, <1>3, SideChanges DEF IInv, Types, PairsKept

LEMMA PeerReceivesKeeps ==
  ASSUME IInv, NEW link \in Links, NEW side \in Sides, PeerReceives(link, side)
  PROVE  PairsKept
<1> DEFINE socket == [pairs[link][side] EXCEPT !.written = Tail(@)]
<1>1. /\ socket \in Socket /\ socket.state = pairs[link][side].state
      /\ socket.available = pairs[link][side].available
  <2>1. /\ pairs[link][side] \in Socket /\ pairs[link][side].written \in Seq(Data)
        /\ pairs[link][side].written # <<>>
    BY ListedPair DEF Socket, PeerReceives
  <2>2. Tail(pairs[link][side].written) \in Seq(Data)
    BY <2>1
  <2> QED
    BY <2>1, <2>2 DEF Socket
<1>2. pairs' = [pairs EXCEPT ![link] = [@ EXCEPT ![side] = socket]]
  BY DEF PeerReceives
<1> HIDE DEF socket
<1> QED
  BY <1>1, <1>2, SideChanges DEF IInv, Types, PairsKept

LEMMA FailsKeeps ==
  ASSUME IInv, NEW link \in Links, ConnectionFails(link)
  PROVE  PairsKept
<1> DEFINE pair == [pairs[link] EXCEPT !.remote = SocketIn("Unconnected")]
<1>1. /\ SocketIn("Unconnected") \in Socket
      /\ SocketIn("Unconnected").state = "Unconnected"
      /\ SocketIn("Unconnected").available = <<>>
  BY SocketInTyped DEF SocketIn
<1>2. /\ pairs[link] \in Pair /\ PairFits(pairs[link])
      /\ pairs[link].stage = "Listed" /\ pairs[link].remote.state = "Connecting"
  BY ListedPair DEF ConnectionFails, Listed, Sides
<1>3. pair \in Pair /\ PairFits(pair)
  BY <1>1, <1>2 DEF Pair, PairFits
<1>4. pairs' = [pairs EXCEPT ![link] = pair]
  BY DEF ConnectionFails
<1> HIDE DEF pair
<1> QED
  BY <1>3, <1>4, PairChanges DEF IInv, Types, PairsKept

(* A pair whose sockets have been destroyed.                               *)
LEMMA EndedPair ==
  ASSUME NEW stage \in Stages \ {"Listed"},
         NEW client \in Socket, client.state = "Unconnected", client.available = <<>>,
         NEW remote \in Socket, remote.state = "Unconnected", remote.available = <<>>
  PROVE  LET pair == [stage |-> stage, readsClient |-> FALSE,
                      client |-> client, remote |-> remote]
         IN  pair \in Pair /\ PairFits(pair)
BY DEF Pair, PairFits

LEMMA ByClientKeeps ==
  ASSUME IInv, NEW link \in Links, ClientConnectionTerminated(link)
  PROVE  PairsKept
<1> DEFINE stage  == Ended(link, "ByClient")
           client == Lost(pairs[link].client)
<1>1. pairs[link].client \in Socket /\ pairs[link].remote \in Socket
  BY ListedPair DEF Pair, Sides
<1>2. PICK remote \in Flushed(pairs[link].remote) :
        pairs' = [pairs EXCEPT ![link] =
            [stage |-> stage, readsClient |-> FALSE, client |-> client, remote |-> remote]]
  BY DEF ClientConnectionTerminated
<1>3. stage \in Stages \ {"Listed"}
  BY DEF Ended, Stages
<1>4. client \in Socket /\ client.state = "Unconnected" /\ client.available = <<>>
  BY <1>1, LostTyped
<1>5. remote \in Socket /\ remote.state = "Unconnected" /\ remote.available = <<>>
  BY <1>1, FlushedTyped
<1> HIDE DEF stage, client
<1> QED
  BY <1>2, <1>3, <1>4, <1>5, EndedPair, PairChanges DEF IInv, Types, PairsKept

LEMMA ByRemoteKeeps ==
  ASSUME IInv, NEW link \in Links, ConnectionSocketDisconnected(link)
  PROVE  PairsKept
<1> DEFINE stage  == Ended(link, "ByRemote")
           remote == Lost(pairs[link].remote)
<1>1. pairs[link].client \in Socket /\ pairs[link].remote \in Socket
  BY ListedPair DEF Pair, Sides
<1>2. PICK client \in Flushed(pairs[link].client) :
        pairs' = [pairs EXCEPT ![link] =
            [stage |-> stage, readsClient |-> FALSE, client |-> client, remote |-> remote]]
  BY DEF ConnectionSocketDisconnected
<1>3. stage \in Stages \ {"Listed"}
  BY DEF Ended, Stages
<1>4. remote \in Socket /\ remote.state = "Unconnected" /\ remote.available = <<>>
  BY <1>1, LostTyped
<1>5. client \in Socket /\ client.state = "Unconnected" /\ client.available = <<>>
  BY <1>1, FlushedTyped
<1> HIDE DEF stage, remote
<1> QED
  BY <1>2, <1>3, <1>4, <1>5, EndedPair, PairChanges DEF IInv, Types, PairsKept

LEMMA SendDataKeeps ==
  ASSUME IInv, SendData
  PROVE  PairsKept
<1> DEFINE data == << <<"app", sent.app>> >>
           after(link) == IF Listed(link)
                          THEN [pairs[link] EXCEPT !.client = Write(@, data),
                                                   !.remote = Write(@, data)]
                          ELSE pairs[link]
<1>1. data \in Seq(Data)
  <2>1. sent.app \in Nat /\ sent.app < load.app
    BY DEF SendData, IInv, Types
  <2>2. load.app \in 0..MaxData /\ MaxData \in Nat
    BY LoadsAssumption DEF IInv, Types
  <2>3. sent.app \in 0..MaxData
    BY <2>1, <2>2
  <2>4. <<"app", sent.app>> \in Data
    BY <2>3 DEF Data
  <2> QED
    BY <2>4
<1>2. pairs' = [link \in Links |-> after(link)]
  BY DEF SendData
<1>3. ASSUME NEW link \in Links
      PROVE  after(link) \in Pair /\ PairFits(after(link))
  <2>1. /\ pairs[link] \in Pair /\ PairFits(pairs[link])
        /\ pairs[link].client \in Socket /\ pairs[link].remote \in Socket
    BY ListedPair DEF Sides, Pair
  <2> DEFINE client == Write(pairs[link].client, data)
             remote == Write(pairs[link].remote, data)
  <2>2. /\ client \in Socket /\ client.state = pairs[link].client.state
        /\ client.available = pairs[link].client.available
        /\ remote \in Socket /\ remote.state = pairs[link].remote.state
        /\ remote.available = pairs[link].remote.available
    BY <1>1, <2>1, WriteTyped
  <2>3. after(link) = IF Listed(link)
                      THEN [pairs[link] EXCEPT !.client = client, !.remote = remote]
                      ELSE pairs[link]
    OBVIOUS
  <2> HIDE DEF client, remote, after
  <2> QED
    BY <2>1, <2>2, <2>3 DEF Pair, PairFits
<1> HIDE DEF after
<1> QED
  BY <1>2, <1>3 DEF PairsKept, AllFit

LEMMA UnloadKeeps ==
  ASSUME IInv, Unload
  PROVE  PairsKept
<1>1. PICK left \in [ListedLinks -> [Sides -> AllLeft]] :
        /\ \A link \in ListedLinks, side \in Sides :
                left[link][side] \in Flushed(pairs[link][side])
        /\ pairs' = [link \in Links |->
                IF ~Listed(link) THEN pairs[link]
                ELSE [stage |-> "Dropped", readsClient |-> FALSE,
                      client |-> left[link]["client"], remote |-> left[link]["remote"]]]
  BY DEF Unload
<1>2. ASSUME NEW link \in Links
      PROVE  pairs'[link] \in Pair /\ PairFits(pairs'[link])
  <2>1. CASE ~Listed(link)
    BY <1>1, <2>1, ListedPair DEF Sides
  <2>2. CASE Listed(link)
    <3> DEFINE client == left[link]["client"]
               remote == left[link]["remote"]
    <3>1. /\ client \in Flushed(pairs[link]["client"])
          /\ remote \in Flushed(pairs[link]["remote"])
      BY <1>1, <2>2 DEF ListedLinks, Sides
    <3>2. pairs[link]["client"] \in Socket /\ pairs[link]["remote"] \in Socket
      BY ListedPair DEF Sides
    <3>3. /\ client \in Socket /\ client.state = "Unconnected" /\ client.available = <<>>
          /\ remote \in Socket /\ remote.state = "Unconnected" /\ remote.available = <<>>
      BY <3>1, <3>2, FlushedTyped
    <3>4. pairs'[link] = [stage |-> "Dropped", readsClient |-> FALSE,
                          client |-> client, remote |-> remote]
      BY <1>1, <2>2
    <3> HIDE DEF client, remote
    <3> QED
      BY <3>3, <3>4, EndedPair DEF Stages
  <2> QED
    BY <2>1, <2>2
<1>3. pairs' = [link \in Links |-> pairs'[link]]
  BY <1>1
<1> QED
  BY <1>2, <1>3 DEF PairsKept, AllFit

-----------------------------------------------------------------------------
(* The inductive invariant.                                                *)

LEMMA InitFits == Init => IInv
<1> SUFFICES ASSUME Init PROVE IInv
  OBVIOUS
<1> DEFINE pair == [stage |-> "None", readsClient |-> FALSE,
                    client |-> SocketIn("Unconnected"),
                    remote |-> SocketIn("Unconnected")]
<1>1. /\ SocketIn("Unconnected") \in Socket
      /\ SocketIn("Unconnected").state = "Unconnected"
      /\ SocketIn("Unconnected").available = <<>>
  BY SocketInTyped DEF SocketIn
<1>2. pair \in Pair /\ PairFits(pair)
  BY <1>1, EndedPair DEF Stages
<1>3. pairs = [link \in Links |-> pair]
  BY DEF Init
<1>4. pairs \in [Links -> Pair] /\ AllFit
  <2> HIDE DEF pair
  <2> QED
    BY <1>2, <1>3 DEF AllFit
<1>5. emitting \in Seq(Links \X Sides)
  BY DEF Init
<1> QED
  BY <1>4, <1>5 DEF Init, IInv, Types, ConnectedIsListening

LEMMA ReportsKeep ==
  ASSUME IInv, NEW link \in Links, NEW side \in Sides, ReportError(link, side)
  PROVE  emitting' \in Seq(Links \X Sides)
<1>1. <<link, side>> \in Links \X Sides
  OBVIOUS
<1> QED
  BY <1>1 DEF IInv, Types, ReportError

(* What a step leaves to be shown when it changes the pairs only.          *)
LEMMA PairsOnly ==
  ASSUME IInv, PairsKept, UNCHANGED <<base, load, emitting>>,
         sent' \in [client : [Links -> Nat], remote : [Links -> Nat], app : Nat]
  PROVE  IInv'
BY DEF IInv, Types, PairsKept, ConnectedIsListening, base

LEMMA NextKeeps == IInv /\ [Next]_vars => IInv'
<1> SUFFICES ASSUME IInv, [Next]_vars PROVE IInv'
  OBVIOUS
<1>1. CASE Start \/ Connect \/ Disconnect \/ Stop
  <2>1. UNCHANGED <<pairs, sent, load, emitting>>
    BY <1>1 DEF Start, Connect, Disconnect, Stop
  <2>2. AllFit'
    BY <2>1 DEF IInv, AllFit
  <2>3. /\ running' \in BOOLEAN /\ connected' \in BOOLEAN /\ listening' \in BOOLEAN
        /\ connected' <=> listening'
    <3>1. /\ running \in BOOLEAN /\ connected \in BOOLEAN /\ listening \in BOOLEAN
          /\ connected <=> listening
      BY DEF IInv, Types, ConnectedIsListening
    <3>2. CASE Start
      BY <3>1, <3>2, Zenon DEF Start
    <3>3. CASE Connect
      <4>1. PICK listens \in BOOLEAN :
                /\ connected' = (listens /\ ~listening)
                /\ listening' = (listens \/ listening)
        BY <3>3, Zenon DEF Connect
      <4>2. ~connected /\ ~listening /\ running' = running
        BY <3>1, <3>3 DEF Connect
      <4>3. (listens /\ ~listening) = listens /\ (listens \/ listening) = listens
        BY <4>2, Zenon
      <4> QED
        BY <3>1, <4>1, <4>2, <4>3
    <3>4. CASE Disconnect
      BY <3>1, <3>4, Zenon DEF Disconnect
    <3>5. CASE Stop
      <4>1. ~listening \/ connected
        BY <3>1
      <4>2. (listening /\ ~connected) = FALSE
        BY <4>1, Zenon
      <4> QED
        BY <3>5, <4>2, Zenon DEF Stop
    <3> QED
      BY <1>1, <3>2, <3>3, <3>4, <3>5
  <2> QED
    BY <2>1, <2>2, <2>3 DEF IInv, Types, ConnectedIsListening
<1>2. CASE SendData
  <2>1. sent' \in [client : [Links -> Nat], remote : [Links -> Nat], app : Nat]
    <3>1. sent' = [sent EXCEPT !.app = @ + 1]
      BY <1>2, Zenon DEF SendData
    <3>2. sent \in [client : [Links -> Nat], remote : [Links -> Nat], app : Nat]
      BY DEF IInv, Types
    <3>3. sent.app + 1 \in Nat
      BY <3>2
    <3> QED
      BY <3>1, <3>2, <3>3
  <2> QED
    <3>1. UNCHANGED <<base, load, emitting>>
      BY <1>2, Zenon DEF SendData
    <3> QED
      BY <1>2, <2>1, <3>1, SendDataKeeps, PairsOnly
<1>3. CASE Unload
  BY <1>3, UnloadKeeps, PairsOnly DEF Unload, IInv, Types
<1>4. CASE DialogClosed
  <2>1. emitting' \in Seq(Links \X Sides)
    <3>1. emitting \in Seq(Links \X Sides) /\ Len(emitting) \in Nat
      BY DEF IInv, Types
    <3>2. emitting' = SubSeq(emitting, 1, Len(emitting) - 1)
      BY <1>4 DEF DialogClosed, Front
    <3>3. \A i \in 1..(Len(emitting) - 1) : emitting[i] \in Links \X Sides
      BY <3>1
    <3> QED
      BY <3>1, <3>2, <3>3, SubSeqProperties
  <2>2. AllFit'
    BY <1>4 DEF DialogClosed, IInv, AllFit
  <2> QED
    BY <1>4, <2>1, <2>2 DEF DialogClosed, IInv, Types, ConnectedIsListening, base
<1>5. ASSUME NEW link \in Links, NewConnection(link) \/ ConnectionSocketConnected(link)
      PROVE  IInv'
  <2>1. PairsKept
    BY <1>5, NewConnectionKeeps, ConnectedKeeps
  <2>2. UNCHANGED <<base, load, emitting, sent>>
    BY <1>5 DEF NewConnection, ConnectionSocketConnected
  <2> QED
    BY <2>1, <2>2, PairsOnly DEF IInv, Types
<1>6. ASSUME NEW link \in Links, ConnectionFails(link)
      PROVE  IInv'
  <2>1. PairsKept
    BY <1>6, FailsKeeps
  <2>2. emitting' \in Seq(Links \X Sides)
    BY <1>6, ReportsKeep DEF ConnectionFails, Sides
  <2>3. UNCHANGED <<base, load, sent>>
    BY <1>6 DEF ConnectionFails
  <2> QED
    BY <2>1, <2>2, <2>3 DEF IInv, Types, PairsKept, ConnectedIsListening, base
<1>7. ASSUME NEW link \in Links,
             ClientConnectionTerminated(link) \/ ConnectionSocketDisconnected(link)
      PROVE  IInv'
  <2>1. PairsKept
    BY <1>7, ByClientKeeps, ByRemoteKeeps
  <2>2. UNCHANGED <<base, load, sent, emitting>>
    BY <1>7 DEF ClientConnectionTerminated, ConnectionSocketDisconnected
  <2> QED
    BY <2>1, <2>2 DEF IInv, Types, PairsKept, ConnectedIsListening, base
<1>8. ASSUME NEW link \in Links, NEW side \in Sides,
             ReadyRead(link, side) \/ PeerReceives(link, side) \/ PeerCloses(link, side)
      PROVE  IInv'
  <2>1. PairsKept
    BY <1>8, ReadyReadKeeps, PeerReceivesKeeps, ClosesKeeps
  <2>2. UNCHANGED <<base, load, emitting, sent>>
    BY <1>8 DEF ReadyRead, PeerReceives, PeerCloses
  <2> QED
    BY <2>1, <2>2, PairsOnly DEF IInv, Types
<1>9. ASSUME NEW link \in Links, NEW side \in Sides, PeerSends(link, side)
      PROVE  IInv'
  <2>1. PairsKept
    BY <1>9, PeerSendsKeeps
  <2>2. sent' \in [client : [Links -> Nat], remote : [Links -> Nat], app : Nat]
    <3>1. sent' = [sent EXCEPT ![side][link] = @ + 1]
      BY <1>9, Zenon DEF PeerSends
    <3>2. sent \in [client : [Links -> Nat], remote : [Links -> Nat], app : Nat]
      BY DEF IInv, Types
    <3>3. CASE side = "client"
      BY <3>1, <3>2, <3>3
    <3>4. CASE side = "remote"
      BY <3>1, <3>2, <3>4
    <3> QED
      BY <3>3, <3>4 DEF Sides
  <2> QED
    BY <1>9, <2>1, <2>2, PairsOnly DEF PeerSends
<1>10. ASSUME NEW link \in Links, NEW side \in Sides, ConnectionBreaks(link, side)
       PROVE  IInv'
  <2>1. PairsKept
    BY <1>10, BreaksKeeps
  <2>2. UNCHANGED <<base, load, sent>>
    BY <1>10 DEF ConnectionBreaks
  <2>3. emitting' \in Seq(Links \X Sides)
    BY <1>10, <2>2, ReportsKeep DEF ConnectionBreaks
  <2> QED
    BY <2>1, <2>2, <2>3 DEF IInv, Types, PairsKept, ConnectedIsListening, base
<1>11. CASE UNCHANGED vars
  BY <1>11 DEF vars, base, IInv, Types, AllFit, ConnectedIsListening
<1> QED
  BY <1>1, <1>2, <1>3, <1>4, <1>5, <1>6, <1>7, <1>8, <1>9, <1>10, <1>11 DEF Next

(* The inductive invariant holds in every reachable state.                 *)
THEOREM ProxyInvariance == Spec => []IInv
<1> QED
  BY InitFits, NextKeeps, PTL DEF Spec

(* The members keep their types, and a pair is listed exactly as long as   *)
(* its client is connected, however many clients come and go.              *)
THEOREM ProxyTypesCorrect == Spec => []TypeOK
<1>1. IInv => TypeOK
  <2> SUFFICES ASSUME IInv PROVE TypeOK
    OBVIOUS
  <2>1. {running, connected, listening} \subseteq BOOLEAN
    BY DEF IInv, Types
  <2>2. ASSUME NEW link \in Links
        PROVE  /\ pairs[link].stage \in Stages
               /\ {pairs[link].client, pairs[link].remote} \subseteq Socket
               /\ Listed(link) <=> pairs[link].client.state = "Connected"
               /\ pairs[link].readsClient => Listed(link)
    BY ListedPair DEF Pair, PairFits, Listed, Sides
  <2> QED
    BY <2>1, <2>2 DEF TypeOK, IInv, Types, Stages
<1> QED
  BY <1>1, ProxyInvariance, PTL

(* The flag connected of the base and the listening of the server never    *)
(* part: not by stopping, by disconnecting or by a port that is taken.     *)
THEOREM ConnectedListens == Spec => []ConnectedIsListening
<1>1. IInv => ConnectedIsListening
  BY DEF IInv
<1> QED
  BY <1>1, ProxyInvariance, PTL

(* Nothing that has been read into a socket stays there once both sides    *)
(* are connected: what a client has sent before the remote side answered   *)
(* is passed on as soon as it does.                                        *)
THEOREM NothingIsHeldBack == Spec => []NothingHeldBack
<1>1. IInv => NothingHeldBack
  <2> SUFFICES ASSUME IInv, NEW link \in ListedLinks,
                      pairs[link].remote.state = "Connected", NEW side \in Sides
               PROVE  pairs[link][side].available = <<>>
    BY DEF NothingHeldBack
  <2>1. link \in Links /\ PairFits(pairs[link])
    BY ListedPair DEF ListedLinks, Sides
  <2>2. pairs[link].client.available = <<>> /\ pairs[link].remote.available = <<>>
    BY <2>1 DEF PairFits
  <2> QED
    BY <2>2 DEF Sides
<1> QED
  BY <1>1, ProxyInvariance, PTL

-----------------------------------------------------------------------------
(* What one source has contributed to the data that is under way.          *)

(* The data up to i, selected by its source.                               *)
Selects(f, data, source) ==
    f = [i \in 0..Len(data) |->
            IF i = 0 THEN <<>>
            ELSE IF data[i][1] = source THEN Append(f[i - 1], data[i])
            ELSE f[i - 1]]

(* The selection exists, and keeps the type of the data.                   *)
LEMMA SelectionExists ==
  ASSUME NEW S, NEW data \in Seq(S), NEW source
  PROVE  \E f \in [0..Len(data) -> Seq(S)] : Selects(f, data, source)
<1> DEFINE n == Len(data)
           step == [x \in Seq(S) \X (1..n) |->
                        IF data[x[2]][1] = source THEN Append(x[1], data[x[2]])
                        ELSE x[1]]
<1>1. n \in Nat /\ <<>> \in Seq(S)
  OBVIOUS
<1>2. step \in [Seq(S) \X (1..n) -> Seq(S)]
  OBVIOUS
<1>3. PICK f \in [0..n -> Seq(S)] :
        f = [i \in 0..n |-> IF i = 0 THEN <<>> ELSE step[<<f[i - 1], i>>]]
  <2> HIDE DEF step, n
  <2>1. Iterates(Seq(S), <<>>, step, n) # {}
    BY <1>1, <1>2, IteratesExist
  <2> QED
    BY <2>1 DEF Iterates
<1>4. ASSUME NEW i \in 0..n, i # 0
      PROVE  step[<<f[i - 1], i>>] = IF data[i][1] = source
                                     THEN Append(f[i - 1], data[i]) ELSE f[i - 1]
  <2>1. i - 1 \in 0..n /\ i \in 1..n
    BY <1>1, <1>4
  <2>2. <<f[i - 1], i>> \in Seq(S) \X (1..n)
    BY <1>3, <2>1
  <2> QED
    BY <2>2
<1>5. f = [i \in 0..n |-> IF i = 0 THEN <<>>
                          ELSE IF data[i][1] = source THEN Append(f[i - 1], data[i])
                          ELSE f[i - 1]]
  <2> DEFINE g == [i \in 0..n |-> IF i = 0 THEN <<>>
                          ELSE IF data[i][1] = source THEN Append(f[i - 1], data[i])
                          ELSE f[i - 1]]
             h == [i \in 0..n |-> IF i = 0 THEN <<>> ELSE step[<<f[i - 1], i>>]]
  <2>1. \A i \in 0..n : g[i] = h[i]
    BY <1>4
  <2>2. g = h
    BY <2>1
  <2> QED
    BY <1>3, <2>2
<1> QED
  BY <1>5 DEF Selects

(* From is what the selection has at the end.                              *)
LEMMA FromSelects ==
  ASSUME NEW S, NEW data \in Seq(S), NEW source
  PROVE  \E f \in [0..Len(data) -> Seq(S)] :
            Selects(f, data, source) /\ From(data, source) = f[Len(data)]
<1> DEFINE kept == CHOOSE f : Selects(f, data, source)
<1>1. Selects(kept, data, source)
  BY SelectionExists
<1>2. From(data, source) = kept[Len(data)]
  BY DEF From, Selects
<1>3. PICK g \in [0..Len(data) -> Seq(S)] : Selects(g, data, source)
  BY SelectionExists
<1> HIDE DEF kept
<1>4. \A i \in 0..Len(data) : kept[i] \in Seq(S)
  <2> DEFINE n == Len(data)
  <2>1. n \in Nat
    OBVIOUS
  <2>2. kept[0] \in Seq(S)
    BY <1>1, <2>1 DEF Selects
  <2>3. \A i \in 1..n : kept[i - 1] \in Seq(S) => kept[i] \in Seq(S)
    <3> TAKE i \in 1..n
    <3>1. data[i] \in S /\ i \in 0..n /\ i # 0
      BY <2>1
    <3>2. kept[i] = IF data[i][1] = source THEN Append(kept[i - 1], data[i])
                    ELSE kept[i - 1]
      BY <1>1, <3>1 DEF Selects
    <3> QED
      BY <3>1, <3>2
  <2> HIDE DEF n
  <2>4. \A i \in 0..n : kept[i] \in Seq(S)
    BY <2>1, <2>2, <2>3, StaysInside
  <2> QED
    BY <2>4 DEF n
<1>5. kept \in [0..Len(data) -> Seq(S)]
  <2>1. kept = [i \in 0..Len(data) |-> kept[i]]
    BY <1>1 DEF Selects
  <2> QED
    BY <1>4, <2>1
<1> QED
  BY <1>1, <1>2, <1>5

(* Whatever selects the data ends with what From is.                       *)
LEMMA SelectionIsFrom ==
  ASSUME NEW S, NEW data \in Seq(S), NEW source, NEW g, NEW n \in Nat,
         Len(data) <= n, g[0] = <<>>,
         \A i \in 1..Len(data) :
            g[i] = IF data[i][1] = source THEN Append(g[i - 1], data[i]) ELSE g[i - 1]
  PROVE  From(data, source) = g[Len(data)]
<1>1. PICK f \in [0..Len(data) -> Seq(S)] :
            Selects(f, data, source) /\ From(data, source) = f[Len(data)]
  BY FromSelects
<1> DEFINE T == {i \in Nat : i <= Len(data) => f[i] = g[i]}
<1>2. f[0] = <<>>
  BY <1>1 DEF Selects
<1>3. ASSUME NEW i \in Nat, i \in T PROVE i + 1 \in T
  <2> SUFFICES ASSUME i + 1 <= Len(data) PROVE f[i + 1] = g[i + 1]
    OBVIOUS
  <2>1. /\ i + 1 \in 1..Len(data) /\ i + 1 \in 0..Len(data) /\ i + 1 # 0
        /\ (i + 1) - 1 = i /\ f[i] = g[i]
    BY <1>3
  <2>2. f[i + 1] = IF data[i + 1][1] = source THEN Append(f[i], data[i + 1])
                   ELSE f[i]
    BY <1>1, <2>1 DEF Selects
  <2>3. g[i + 1] = IF data[i + 1][1] = source THEN Append(g[i], data[i + 1])
                   ELSE g[i]
    BY <2>1
  <2> QED
    BY <2>1, <2>2, <2>3
<1>4. 0 \in T
  BY <1>2
<1> HIDE DEF T
<1>5. Nat \subseteq T
  BY <1>3, <1>4, SetInduction
<1>6. Len(data) \in T
  BY <1>5
<1> QED
  BY <1>1, <1>6 DEF T

(* Nothing, and one datum more.                                            *)
LEMMA FromEmpty ==
  ASSUME NEW source
  PROVE  From(<<>>, source) = <<>>
<1>1. <<>> \in Seq({}) /\ Len(<<>>) = 0
  OBVIOUS
<1>2. PICK f \in [0..Len(<<>>) -> Seq({})] :
            Selects(f, <<>>, source) /\ From(<<>>, source) = f[Len(<<>>)]
  BY <1>1, FromSelects
<1> QED
  BY <1>1, <1>2 DEF Selects

LEMMA FromAppend ==
  ASSUME NEW S, NEW data \in Seq(S), NEW d \in S, NEW source
  PROVE  From(Append(data, d), source) =
            IF d[1] = source THEN Append(From(data, source), d) ELSE From(data, source)
<1> DEFINE more == Append(data, d)
           n == Len(data)
<1>1. /\ more \in Seq(S) /\ n \in Nat /\ Len(more) = n + 1 /\ more[n + 1] = d
      /\ \A i \in 1..n : more[i] = data[i]
  OBVIOUS
<1> HIDE DEF more, n
<1>2. PICK f \in [0..Len(more) -> Seq(S)] :
            Selects(f, more, source) /\ From(more, source) = f[Len(more)]
  BY <1>1, FromSelects
<1>3. f[0] = <<>>
  BY <1>1, <1>2 DEF Selects
<1>4. \A i \in 1..(n + 1) :
        f[i] = IF more[i][1] = source THEN Append(f[i - 1], more[i]) ELSE f[i - 1]
  <2> TAKE i \in 1..(n + 1)
  <2>1. i \in 0..Len(more) /\ i # 0
    BY <1>1
  <2> QED
    BY <1>2, <2>1 DEF Selects
<1>5. \A i \in 1..n :
        f[i] = IF data[i][1] = source THEN Append(f[i - 1], data[i]) ELSE f[i - 1]
  <2> TAKE i \in 1..n
  <2>1. i \in 1..(n + 1) /\ more[i] = data[i]
    BY <1>1
  <2> QED
    BY <1>4, <2>1
<1>6. From(data, source) = f[n]
  BY <1>1, <1>3, <1>5, SelectionIsFrom DEF n
<1>7. n + 1 \in 1..(n + 1) /\ (n + 1) - 1 = n
  BY <1>1
<1>8. f[n + 1] = IF d[1] = source THEN Append(f[n], d) ELSE f[n]
  BY <1>1, <1>4, <1>7
<1> QED
  BY <1>1, <1>2, <1>6, <1>8 DEF more

LEMMA FromTyped ==
  ASSUME NEW S, NEW data \in Seq(S), NEW source
  PROVE  From(data, source) \in Seq(S)
BY FromSelects

(* Sequences are built by appending: what holds of the empty one and is    *)
(* kept by one more element holds of all.                                  *)
LEMMA ByAppending ==
  ASSUME NEW S, NEW T, <<>> \in T,
         \A data \in Seq(S), d \in S : data \in T => Append(data, d) \in T
  PROVE  Seq(S) \subseteq T
<1> DEFINE N == {n \in Nat : \A data \in Seq(S) : Len(data) = n => data \in T}
<1>1. 0 \in N
  BY EmptySeq
<1>2. ASSUME NEW n \in Nat, n \in N PROVE n + 1 \in N
  <2> SUFFICES ASSUME NEW data \in Seq(S), Len(data) = n + 1 PROVE data \in T
    OBVIOUS
  <2> DEFINE before == SubSeq(data, 1, n)
  <2>1. /\ before \in Seq(S) /\ Len(before) = n /\ data[n + 1] \in S
        /\ data = Append(before, data[n + 1])
    OBVIOUS
  <2> HIDE DEF before
  <2> QED
    BY <1>2, <2>1
<1> HIDE DEF N
<1>3. Nat \subseteq N
  BY <1>1, <1>2, SetInduction
<1> QED
  BY <1>3 DEF N

LEMMA ConcatAppend ==
  ASSUME NEW S, NEW a \in Seq(S), NEW b \in Seq(S), NEW d \in S
  PROVE  a \o Append(b, d) = Append(a \o b, d)
OBVIOUS

(* What is selected of data and more data.                                 *)
LEMMA FromConcat ==
  ASSUME NEW S, NEW data \in Seq(S), NEW more \in Seq(S), NEW source
  PROVE  From(data \o more, source) = From(data, source) \o From(more, source)
<1> DEFINE T == {m \in Seq(S) :
                    From(data \o m, source) = From(data, source) \o From(m, source)}
<1>1. From(data, source) \in Seq(S)
  BY FromTyped
<1>2. <<>> \in T
  <2>1. /\ data \o <<>> = data /\ From(data, source) \o <<>> = From(data, source)
        /\ <<>> \in Seq(S)
    BY <1>1
  <2> QED
    BY <2>1, FromEmpty
<1>3. ASSUME NEW m \in Seq(S), NEW d \in S, m \in T PROVE Append(m, d) \in T
  <2>1. /\ data \o Append(m, d) = Append(data \o m, d) /\ Append(m, d) \in Seq(S)
        /\ data \o m \in Seq(S)
    BY ConcatAppend
  <2>2. From(m, source) \in Seq(S)
    BY FromTyped
  <2>3. From(data \o m, source) = From(data, source) \o From(m, source)
    BY <1>3
  <2>4. From(Append(data \o m, d), source)
            = IF d[1] = source THEN Append(From(data \o m, source), d)
              ELSE From(data \o m, source)
    BY <2>1, FromAppend
  <2>5. From(Append(m, d), source)
            = IF d[1] = source THEN Append(From(m, source), d) ELSE From(m, source)
    BY FromAppend
  <2>6. Append(From(data, source) \o From(m, source), d)
            = From(data, source) \o Append(From(m, source), d)
    <3>1. \A a \in Seq(S), b \in Seq(S), e \in S : a \o Append(b, e) = Append(a \o b, e)
      BY ConcatAppend
    <3> QED
      BY <1>1, <2>2, <3>1, Zenon
  <2> QED
    BY <2>1, <2>3, <2>4, <2>5, <2>6
<1> HIDE DEF T
<1>4. Seq(S) \subseteq T
  BY <1>2, <1>3, ByAppending
<1> QED
  BY <1>4 DEF T

(* Data of one source only.                                                *)
LEMMA FromOne ==
  ASSUME NEW D, NEW source, NEW other, other # source,
         \A d \in D : d[1] = source, NEW data \in Seq(D)
  PROVE  From(data, source) = data /\ From(data, other) = <<>>
<1> DEFINE T == {m \in Seq(D) : From(m, source) = m /\ From(m, other) = <<>>}
<1>1. <<>> \in T
  BY FromEmpty
<1>2. ASSUME NEW m \in Seq(D), NEW d \in D, m \in T PROVE Append(m, d) \in T
  <2>1. d[1] = source /\ From(m, source) = m /\ From(m, other) = <<>>
    BY <1>2
  <2>2. Append(m, d) \in Seq(D)
    OBVIOUS
  <2>3. /\ From(Append(m, d), source)
            = IF d[1] = source THEN Append(From(m, source), d) ELSE From(m, source)
        /\ From(Append(m, d), other)
            = IF d[1] = other THEN Append(From(m, other), d) ELSE From(m, other)
    BY FromAppend
  <2> QED
    BY <2>1, <2>2, <2>3
<1> HIDE DEF T
<1>3. Seq(D) \subseteq T
  BY <1>1, <1>2, ByAppending
<1> QED
  BY <1>3 DEF T

(* A prefix keeps a prefix of what each source has contributed.            *)
LEMMA PrefixOfConcat ==
  ASSUME NEW S, NEW s \in Seq(S), NEW t \in Seq(S)
  PROVE  IsPrefix(s, s \o t)
<1>1. Len(s \o t) = Len(s) + Len(t) /\ \A i \in 1..Len(s) : (s \o t)[i] = s[i]
  OBVIOUS
<1>2. SubSeq(s, 1, Len(s)) = SubSeq(s \o t, 1, Len(s))
  BY <1>1
<1> QED
  BY <1>1, <1>2 DEF IsPrefix

LEMMA SplitAt ==
  ASSUME NEW S, NEW data \in Seq(S), NEW n \in 0..Len(data)
  PROVE  /\ SubSeq(data, 1, n) \in Seq(S)
         /\ SubSeq(data, n + 1, Len(data)) \in Seq(S)
         /\ data = SubSeq(data, 1, n) \o SubSeq(data, n + 1, Len(data))
<1>1. Len(data) \in Nat /\ n \in Nat /\ n <= Len(data)
  OBVIOUS
<1>2. SubSeq(data, 1, n) \in Seq(S) /\ SubSeq(data, n + 1, Len(data)) \in Seq(S)
  BY <1>1
<1>3. 1 \in 1..(Len(data) + 1) /\ n \in (1 - 1)..Len(data) /\ Len(data) \in n..Len(data)
  BY <1>1
<1>4. SubSeq(data, 1, n) \o SubSeq(data, n + 1, Len(data)) = SubSeq(data, 1, Len(data))
  BY <1>3, ConcatAdjacentSubSeq
<1> QED
  BY <1>2, <1>4, SubSeqFull

LEMMA FromPrefix ==
  ASSUME NEW S, NEW data \in Seq(S), NEW rest \in Prefixes(data), NEW source
  PROVE  \E lost \in Seq(S) :
            From(data, source) = From(rest, source) \o From(lost, source)
<1>1. PICK l \in 0..Len(data) : rest = SubSeq(data, 1, l)
  BY DEF Prefixes
<1> DEFINE lost == SubSeq(data, l + 1, Len(data))
<1>2. lost \in Seq(S) /\ rest \in Seq(S) /\ data = rest \o lost
  BY <1>1, SplitAt
<1> HIDE DEF lost
<1> QED
  BY <1>2, FromConcat

-----------------------------------------------------------------------------
(* What is under way on a link, and what an operation makes of it.         *)

PeerData == {"peer"} \X (0..MaxData)
AppData  == {"app"} \X (0..MaxData)

(* Of what is to be read only the peers are the source. A link that does   *)
(* not exist yet carries nothing, a remote side that is not connected has  *)
(* sent nothing, and as long as it is connecting only the application has  *)
(* written to it.                                                          *)
Traffic(pair) ==
    /\ \A side \in Sides : /\ pair[side].wire \in Seq(PeerData)
                           /\ pair[side].available \in Seq(PeerData)
    /\ pair.stage = "None" =>
            \A side \in Sides : /\ pair[side].wire = <<>>
                                /\ pair[side].available = <<>>
                                /\ pair[side].written = <<>>
    /\ pair.stage = "Listed" /\ pair.remote.state # "Connected" =>
            ~pair.remote.open /\ pair.remote.wire = <<>>
    /\ pair.remote.state = "Connecting" => pair.remote.written \in Seq(AppData)

LEMMA FromPeers ==
  ASSUME NEW data \in Seq(PeerData)
  PROVE  From(data, "peer") = data /\ From(data, "app") = <<>>
<1>1. "app" # "peer" /\ \A d \in PeerData : d[1] = "peer"
  BY DEF PeerData
<1>2. \A source, other :
        other # source /\ (\A d \in PeerData : d[1] = source)
            => From(data, source) = data /\ From(data, other) = <<>>
  BY FromOne
<1> QED
  BY <1>1, <1>2, Zenon

LEMMA FromApplication ==
  ASSUME NEW data \in Seq(AppData)
  PROVE  From(data, "app") = data /\ From(data, "peer") = <<>>
<1>1. "peer" # "app" /\ \A d \in AppData : d[1] = "app"
  BY DEF AppData
<1>2. \A source, other :
        other # source /\ (\A d \in AppData : d[1] = source)
            => From(data, source) = data /\ From(data, other) = <<>>
  BY FromOne
<1> QED
  BY <1>1, <1>2, Zenon

LEMMA SideOfPair ==
  ASSUME NEW pair \in Pair, NEW side \in Sides
  PROVE  /\ pair[side] \in Socket /\ Other(side) \in Sides
         /\ Other(side) # side /\ Other(Other(side)) = side
         /\ pair[side].written \in Seq(Data)
         /\ \A s \in Sides : s = side \/ s = Other(side)
<1>1. pair.client \in Socket /\ pair.remote \in Socket
  BY DEF Pair
<1>2. pair[side] \in Socket
  BY <1>1 DEF Sides
<1> QED
  BY <1>2 DEF Sides, Other, Socket

LEMMA PeerDataIsData == /\ PeerData \subseteq Data /\ AppData \subseteq Data
                        /\ Seq(PeerData) \subseteq Seq(Data)
                        /\ Seq(AppData) \subseteq Seq(Data)
<1>1. PeerData \subseteq Data /\ AppData \subseteq Data
  BY DEF PeerData, AppData, Data
<1> QED
  BY <1>1

(* The two parts of what is under way to a side.                           *)
LEMMA UnderWayParts ==
  ASSUME NEW pair, NEW side
  PROVE  /\ UnderWay(pair, side).peer =
                From(pair[side].written, "peer")
                    \o pair[Other(side)].available \o pair[Other(side)].wire
         /\ UnderWay(pair, side).app = From(pair[side].written, "app")
BY DEF UnderWay

(* Sockets that hold the same data have the same under way.                *)
SameData(p, q) ==
    \A side \in Sides : /\ q[side].written = p[side].written
                        /\ q[side].available = p[side].available
                        /\ q[side].wire = p[side].wire

Carries(p, q) == \A side \in Sides : UnderWay(q, side) = UnderWay(p, side)

LEMMA SameDataCarries ==
  ASSUME NEW p, NEW q, SameData(p, q)
  PROVE  Carries(p, q)
<1>1. \A side \in Sides : Other(side) \in Sides
  BY DEF Sides, Other
<1> QED
  BY <1>1 DEF SameData, Carries, UnderWay

(* What one side has sent goes from its socket to the other one.           *)
PassesOn(p, q, from) ==
    /\ q[from].available = <<>>
    /\ q[from].wire = p[from].wire
    /\ q[from].written = p[from].written
    /\ q[Other(from)].available = p[Other(from)].available
    /\ q[Other(from)].wire = p[Other(from)].wire
    /\ q[Other(from)].written = p[Other(from)].written \o p[from].available

(* Three sequences, of which the first takes over the second.              *)
LEMMA TakeOver ==
  ASSUME NEW S, NEW a \in Seq(S), NEW b \in Seq(S), NEW c \in Seq(S)
  PROVE  (a \o b) \o <<>> \o c = a \o b \o c
<1>1. (a \o b) \in Seq(S)
  OBVIOUS
<1>2. \A s \in Seq(S) : s \o <<>> = s
  OBVIOUS
<1> QED
  BY <1>1, <1>2, Zenon

LEMMA PassingOnCarries ==
  ASSUME NEW p \in Pair, NEW q, Traffic(p), NEW from \in Sides, PassesOn(p, q, from)
  PROVE  Carries(p, q)
<1> DEFINE to == Other(from)
           w  == p[to].written
           av == p[from].available
<1>1. /\ w \in Seq(Data) /\ av \in Seq(PeerData) /\ av \in Seq(Data)
      /\ p[from].wire \in Seq(Data)
  BY SideOfPair, PeerDataIsData DEF Traffic
<1> HIDE DEF to, w, av
<1>2. From(av, "peer") = av /\ From(av, "app") = <<>>
  BY <1>1, FromPeers
<1>3. /\ From(w \o av, "peer") = From(w, "peer") \o av
      /\ From(w \o av, "app") = From(w, "app") \o <<>>
      /\ From(w, "peer") \in Seq(Data) /\ From(w, "app") \in Seq(Data)
  <2>1. \A source : From(w \o av, source) = From(w, source) \o From(av, source)
    BY <1>1, FromConcat
  <2>2. \A source : From(w, source) \in Seq(Data)
    BY <1>1, FromTyped
  <2> QED
    BY <1>2, <2>1, <2>2
<1>4. From(w, "app") \o <<>> = From(w, "app")
  BY <1>3
<1>5. (From(w, "peer") \o av) \o <<>> \o p[from].wire
            = From(w, "peer") \o av \o p[from].wire
  BY <1>1, <1>3, TakeOver
<1>6. Other(to) = from /\ q[to].written = w \o av
  BY SideOfPair DEF PassesOn, to, w, av
<1>7. UnderWay(q, to) = UnderWay(p, to)
  <2>1. /\ UnderWay(q, to) = [peer |-> From(w \o av, "peer") \o q[from].available
                                        \o q[from].wire,
                            app |-> From(w \o av, "app")]
        /\ UnderWay(p, to) = [peer |-> From(w, "peer") \o av \o p[from].wire,
                              app |-> From(w, "app")]
    BY <1>6, SideOfPair DEF UnderWay, w, av
  <2>2. q[from].available = <<>> /\ q[from].wire = p[from].wire
    BY DEF PassesOn
  <2> QED
    BY <1>3, <1>4, <1>5, <2>1, <2>2
<1>8. UnderWay(q, from) = UnderWay(p, from)
  BY DEF UnderWay, PassesOn
<1> QED
  BY <1>7, <1>8, SideOfPair DEF Carries, to

(* performReadWrite passes on what has been read.                          *)
LEMMA PerformPasses ==
  ASSUME NEW p \in Pair, NEW from \in Sides, p[Other(from)].state # "Unconnected"
  PROVE  LET q == PerformReadWrite(p, from)
         IN  /\ PassesOn(p, q, from)
             /\ q.stage = p.stage
             /\ \A side \in Sides : /\ q[side].state = p[side].state
                                    /\ q[side].open = p[side].open
<1> DEFINE to == Other(from)
           f  == [p[from] EXCEPT !.available = <<>>]
           g  == [p[to] EXCEPT !.written = @ \o p[from].available]
           q  == PerformReadWrite(p, from)
<1>1. /\ p[from] \in Socket /\ p[to] \in Socket /\ to \in Sides /\ to # from
      /\ p.stage \in Stages
      /\ \A s \in Sides : s = from \/ s = to
  BY SideOfPair DEF Pair
<1>2. Write(p[to], p[from].available) = g
  BY DEF Write
<1>3. q = [p EXCEPT ![from] = f, ![to] = g]
  <2>1. q = [p EXCEPT ![from] = [p[from] EXCEPT !.available = <<>>],
                      ![to] = Write(p[to], p[from].available)]
    <3>1. CASE from = "client"
      BY <3>1 DEF PerformReadWrite, Other, Pair
    <3>2. CASE from = "remote"
      BY <3>2 DEF PerformReadWrite, Other, Pair
    <3> QED
      BY <3>1, <3>2 DEF Sides
  <2> QED
    BY <1>2, <2>1
<1> HIDE DEF q
<1>4. /\ f.available = <<>> /\ f.wire = p[from].wire /\ f.written = p[from].written
      /\ f.state = p[from].state /\ f.open = p[from].open
      /\ g.available = p[to].available /\ g.wire = p[to].wire
      /\ g.written = p[to].written \o p[from].available
      /\ g.state = p[to].state /\ g.open = p[to].open
  BY <1>1 DEF Socket
<1> HIDE DEF f, g
<1>5. q[from] = f /\ q[to] = g /\ q.stage = p.stage
  <2>1. CASE from = "client"
    BY <1>1, <1>3, <2>1 DEF Other, Pair, to
  <2>2. CASE from = "remote"
    BY <1>1, <1>3, <2>2 DEF Other, Pair, to
  <2> QED
    BY <2>1, <2>2 DEF Sides
<1>6. PassesOn(p, q, from)
  BY <1>4, <1>5 DEF PassesOn, to
<1> QED
  BY <1>1, <1>4, <1>5, <1>6 DEF q

(* What arrives on the wire is read into the socket.                       *)
Reads(p, q, from) ==
    /\ q[from].available \o q[from].wire = p[from].available \o p[from].wire
    /\ q[from].written = p[from].written
    /\ q[Other(from)].available = p[Other(from)].available
    /\ q[Other(from)].wire = p[Other(from)].wire
    /\ q[Other(from)].written = p[Other(from)].written

LEMMA ReadingCarries ==
  ASSUME NEW p \in Pair, NEW q, Traffic(p), Traffic(q), NEW from \in Sides,
         Reads(p, q, from)
  PROVE  Carries(p, q)
<1> DEFINE to == Other(from)
           w  == From(p[to].written, "peer")
<1>1. /\ w \in Seq(Data) /\ p[from].available \in Seq(Data) /\ p[from].wire \in Seq(Data)
      /\ q[from].available \in Seq(Data) /\ q[from].wire \in Seq(Data)
  BY SideOfPair, PeerDataIsData, FromTyped DEF Traffic
<1>2. \A a \in Seq(Data), b \in Seq(Data), c \in Seq(Data) : a \o b \o c = a \o (b \o c)
  BY ConcatAssociative
<1>3. w \o q[from].available \o q[from].wire = w \o p[from].available \o p[from].wire
  <2> HIDE DEF w
  <2>1. w \o q[from].available \o q[from].wire = w \o (q[from].available \o q[from].wire)
    BY <1>1, <1>2
  <2>2. w \o p[from].available \o p[from].wire = w \o (p[from].available \o p[from].wire)
    BY <1>1, <1>2
  <2> QED
    BY <2>1, <2>2, Zenon DEF Reads
<1>4. Other(to) = from /\ q[to].written = p[to].written
  BY SideOfPair DEF Reads
<1>5. UnderWay(q, to) = UnderWay(p, to)
  BY <1>3, <1>4 DEF UnderWay
<1>6. UnderWay(q, from) = UnderWay(p, from)
  BY DEF UnderWay, Reads
<1> QED
  BY <1>5, <1>6, SideOfPair DEF Carries

(* The first of four sequences is a prefix of them all.                    *)
LEMMA PrefixOfFour ==
  ASSUME NEW S, NEW a \in Seq(S), NEW b \in Seq(S), NEW c \in Seq(S), NEW d \in Seq(S)
  PROVE  IsPrefix(a, (a \o b) \o c \o d)
<1> DEFINE rest == b \o c \o d
<1>1. rest \in Seq(S) /\ (a \o b) \o c \o d = a \o rest
  OBVIOUS
<1> HIDE DEF rest
<1>2. IsPrefix(a, a \o rest)
  BY <1>1, PrefixOfConcat
<1> QED
  BY <1>1, <1>2

(* A prefix of what is under way, for each of the sources.                 *)
LeavesPrefix(p, q, side) ==
    \A source \in {"peer", "app"} :
        IsPrefix(UnderWay(q, side)[source], UnderWay(p, side)[source])

LEMMA EndingLeavesPrefix ==
  ASSUME NEW p \in Pair, NEW q, Traffic(p), NEW side \in Sides,
         q[side].written \in Prefixes(p[side].written),
         q[Other(side)].available = <<>>, q[Other(side)].wire = <<>>
  PROVE  LeavesPrefix(p, q, side)
<1> DEFINE w == p[side].written
           v == q[side].written
           a == p[Other(side)].available
           b == p[Other(side)].wire
<1>1. w \in Seq(Data) /\ a \in Seq(Data) /\ b \in Seq(Data)
  BY SideOfPair, PeerDataIsData DEF Traffic
<1>2. v \in Seq(Data)
  BY <1>1, PrefixesTyped
<1>0. v \in Prefixes(w)
  OBVIOUS
<1>3. UnderWay(q, side).peer = From(v, "peer") /\ UnderWay(q, side).app = From(v, "app")
  <2>1. From(v, "peer") \in Seq(Data)
    BY <1>2, FromTyped
  <2>2. From(v, "peer") \o <<>> \o <<>> = From(v, "peer")
    BY <2>1
  <2> QED
    BY <2>2 DEF UnderWay
<1>4. /\ UnderWay(p, side).peer = From(w, "peer") \o a \o b
      /\ UnderWay(p, side).app = From(w, "app")
  BY DEF UnderWay
<1> HIDE DEF w, v, a, b
<1>5. ASSUME NEW source PROVE IsPrefix(From(v, source), From(w, source))
  <2>1. PICK lost \in Seq(Data) : From(w, source) = From(v, source) \o From(lost, source)
    BY <1>0, <1>1, FromPrefix
  <2>2. From(v, source) \in Seq(Data) /\ From(lost, source) \in Seq(Data)
    BY <1>2, FromTyped
  <2> QED
    BY <2>1, <2>2, PrefixOfConcat
<1>6. IsPrefix(From(v, "peer"), From(w, "peer") \o a \o b)
  <2>0. \A source : \E lost \in Seq(Data) :
            From(w, source) = From(v, source) \o From(lost, source)
    <3> TAKE source
    <3> QED
      BY <1>0, <1>1, FromPrefix
  <2>1. PICK lost \in Seq(Data) : From(w, "peer") = From(v, "peer") \o From(lost, "peer")
    BY <2>0, Zenon
  <2>2. From(v, "peer") \in Seq(Data) /\ From(lost, "peer") \in Seq(Data)
    BY <1>2, FromTyped
  <2>3. IsPrefix(From(v, "peer"), (From(v, "peer") \o From(lost, "peer")) \o a \o b)
    BY <1>1, <2>2, PrefixOfFour
  <2> QED
    BY <2>1, <2>3
<1> QED
  BY <1>3, <1>4, <1>5, <1>6 DEF LeavesPrefix

-----------------------------------------------------------------------------
(* What the actions do to what is under way.                               *)

AllTraffic == \A link \in Links : Traffic(pairs[link])
Arrivals   == arrived \in [Links -> [Sides -> Seq(Data)]]
TInv       == IInv /\ AllTraffic /\ Arrivals

(* The link is the only one that changes, and goes from one phase to       *)
(* another.                                                                *)
Only(link) == \A other \in Links \ {link} : pairs'[other] = pairs[other]

Moves(link, from, to) ==
    /\ Only(link)
    /\ PhaseOf(pairs[link]) = from
    /\ PhaseOf(pairs'[link]) = to
    /\ Traffic(pairs'[link])

LEMMA LinkOfInv ==
  ASSUME TInv, NEW link \in Links
  PROVE  /\ pairs[link] \in Pair /\ PairFits(pairs[link]) /\ Traffic(pairs[link])
         /\ pairs[link].client \in Socket /\ pairs[link].remote \in Socket
         /\ pairs \in [Links -> Pair]
<1>1. pairs \in [Links -> Pair] /\ PairFits(pairs[link]) /\ Traffic(pairs[link])
  BY DEF TInv, IInv, Types, AllFit, AllTraffic
<1> QED
  BY <1>1 DEF Pair

LEMMA NewConnectionCarries ==
  ASSUME TInv, NEW link \in Links, NewConnection(link)
  PROVE  Moves(link, "None", "Open") /\ Carries(pairs[link], pairs'[link])
<1> DEFINE p == pairs[link]
           q == pairs'[link]
<1>1. /\ p.stage = "None" /\ Only(link)
      /\ q = [stage |-> "Listed", readsClient |-> FALSE,
              client |-> SocketIn("Connected"), remote |-> SocketIn("Connecting")]
  BY LinkOfInv DEF NewConnection, Only
<1>2. /\ q.stage = "Listed" /\ q.remote.state = "Connecting" /\ ~q.remote.open
      /\ \A side \in Sides : /\ q[side].wire = <<>> /\ q[side].available = <<>>
                             /\ q[side].written = <<>>
      /\ q.remote.written = <<>> /\ q.remote.wire = <<>>
  <2>1. /\ q.client = SocketIn("Connected") /\ q.remote = SocketIn("Connecting")
        /\ q.stage = "Listed"
    BY <1>1
  <2>2. /\ SocketIn("Connecting").state = "Connecting"
        /\ ~SocketIn("Connecting").open
        /\ SocketIn("Connecting").wire = <<>>
        /\ SocketIn("Connecting").available = <<>>
        /\ SocketIn("Connecting").written = <<>>
        /\ SocketIn("Connected").wire = <<>>
        /\ SocketIn("Connected").available = <<>>
        /\ SocketIn("Connected").written = <<>>
    BY DEF SocketIn
  <2> HIDE DEF q
  <2> QED
    BY <2>1, <2>2 DEF Sides
<1>3. \A side \in Sides : /\ p[side].wire = <<>> /\ p[side].available = <<>>
                          /\ p[side].written = <<>>
  BY <1>1, LinkOfInv DEF Traffic
<1>4. Traffic(q)
  <2>1. <<>> \in Seq(PeerData) /\ <<>> \in Seq(AppData)
    OBVIOUS
  <2> HIDE DEF q
  <2> QED
    BY <1>2, <2>1 DEF Traffic
<1>5. SameData(p, q)
  <2> HIDE DEF p, q
  <2> QED
    BY <1>2, <1>3 DEF SameData
<1>6. PhaseOf(p) = "None" /\ PhaseOf(q) = "Open"
  <2> HIDE DEF q
  <2> QED
    BY <1>1, <1>2 DEF PhaseOf
<1> QED
  BY <1>1, <1>4, <1>5, <1>6, SameDataCarries DEF Moves

(* A pair whose remote side is connected.                                  *)
LEMMA ConnectedTraffic ==
  ASSUME NEW q, q.stage = "Listed", q.remote.state = "Connected",
         \A side \in Sides : /\ q[side].wire \in Seq(PeerData)
                             /\ q[side].available \in Seq(PeerData)
  PROVE  Traffic(q) /\ PhaseOf(q) = "Established"
BY DEF Traffic, PhaseOf

LEMMA PassedTraffic ==
  ASSUME NEW p \in Pair, Traffic(p), p.stage = "Listed", p.remote.state = "Connected",
         p.client.state = "Connected", NEW from \in Sides
  PROVE  LET q == PerformReadWrite(p, from)
         IN  Carries(p, q) /\ Traffic(q) /\ PhaseOf(q) = "Established"
<1> DEFINE q == PerformReadWrite(p, from)
<1>1. /\ PassesOn(p, q, from) /\ q.stage = "Listed"
      /\ \A side \in Sides : q[side].state = p[side].state
  <2>1. p[Other(from)].state # "Unconnected"
    BY DEF Sides, Other
  <2> QED
    BY <2>1, PerformPasses
<1>2. Carries(p, q)
  BY <1>1, PassingOnCarries
<1>3. q.remote.state = "Connected"
  BY <1>1 DEF Sides
<1>4. \A side \in Sides : /\ q[side].wire \in Seq(PeerData)
                          /\ q[side].available \in Seq(PeerData)
  <2> HIDE DEF q
  <2>1. <<>> \in Seq(PeerData)
    OBVIOUS
  <2>2. \A side \in Sides : /\ p[side].wire \in Seq(PeerData)
                            /\ p[side].available \in Seq(PeerData)
    BY DEF Traffic
  <2>3. /\ q[from].wire \in Seq(PeerData) /\ q[from].available \in Seq(PeerData)
        /\ q[Other(from)].wire \in Seq(PeerData)
        /\ q[Other(from)].available \in Seq(PeerData)
    BY <1>1, <2>1, <2>2, SideOfPair DEF PassesOn
  <2> QED
    BY <2>3, SideOfPair
<1> HIDE DEF q
<1>5. Traffic(q) /\ PhaseOf(q) = "Established"
  BY <1>1, <1>3, <1>4, ConnectedTraffic
<1> QED
  BY <1>2, <1>5 DEF q

LEMMA ConnectedCarries ==
  ASSUME TInv, NEW link \in Links, ConnectionSocketConnected(link)
  PROVE  Moves(link, "Open", "Established") /\ Carries(pairs[link], pairs'[link])
<1> DEFINE p == pairs[link]
           remote == [p.remote EXCEPT !.state = "Connected", !.open = TRUE]
           ready  == [p EXCEPT !.readsClient = TRUE, !.remote = remote]
           q == PerformReadWrite(ready, "client")
<1>1. /\ p \in Pair /\ Traffic(p) /\ PairFits(p) /\ p.stage = "Listed"
      /\ p.client.state = "Connected" /\ p.remote.state = "Connecting"
      /\ p.client \in Socket /\ p.remote \in Socket
  BY LinkOfInv DEF ConnectionSocketConnected, Listed, PairFits
<1>2. /\ remote \in Socket /\ remote.state = "Connected"
      /\ remote.wire = p.remote.wire /\ remote.available = p.remote.available
      /\ remote.written = p.remote.written
  BY <1>1 DEF Socket
<1>3. pairs'[link] = q /\ Only(link)
  BY LinkOfInv DEF ConnectionSocketConnected, Only
<1> HIDE DEF remote
<1>4. /\ ready \in Pair /\ ready.stage = "Listed" /\ ready.remote = remote
      /\ ready.client = p.client
  BY <1>1, <1>2 DEF Pair
<1> HIDE DEF p, ready
<1>5. SameData(p, ready)
  BY <1>2, <1>4 DEF SameData, Sides
<1>6. Carries(p, ready)
  BY <1>5, SameDataCarries
<1>7. Traffic(ready)
  <2>1. \A side \in Sides : /\ ready[side].wire \in Seq(PeerData)
                            /\ ready[side].available \in Seq(PeerData)
    BY <1>1, <1>5 DEF SameData, Traffic
  <2> QED
    BY <1>2, <1>4, <2>1, ConnectedTraffic
<1>8. Carries(ready, q) /\ Traffic(q) /\ PhaseOf(q) = "Established"
  BY <1>1, <1>2, <1>4, <1>7, PassedTraffic DEF Sides
<1>9. PhaseOf(p) = "Open"
  BY <1>1 DEF PhaseOf
<1> HIDE DEF q
<1>10. Carries(p, q)
  BY <1>6, <1>8 DEF Carries
<1> QED
  BY <1>3, <1>8, <1>9, <1>10 DEF Moves, p

LEMMA ReadyReadCarries ==
  ASSUME TInv, NEW link \in Links, NEW side \in Sides, ReadyRead(link, side)
  PROVE  /\ Moves(link, PhaseOf(pairs[link]), PhaseOf(pairs[link]))
         /\ Carries(pairs[link], pairs'[link])
<1> DEFINE p == pairs[link]
           wire == p[side].wire
<1>1. /\ p \in Pair /\ Traffic(p) /\ PairFits(p) /\ p.stage = "Listed"
      /\ p.client.state = "Connected" /\ p[side] \in Socket
  BY LinkOfInv, SideOfPair DEF ReadyRead, Listed, PairFits
<1>2. PICK n \in 1..Len(wire) :
        LET ready == [p EXCEPT
                        ![side].wire = SubSeq(wire, n + 1, Len(wire)),
                        ![side].available = @ \o SubSeq(wire, 1, n)]
        IN  pairs' = [pairs EXCEPT ![link] =
                IF side = "remote" \/ ready.readsClient
                THEN PerformReadWrite(ready, side) ELSE ready]
  BY DEF ReadyRead
<1> DEFINE more   == [p[side] EXCEPT
                        !.wire = SubSeq(wire, n + 1, Len(wire)),
                        !.available = @ \o SubSeq(wire, 1, n)]
           ready  == [p EXCEPT ![side] = more]
           q      == IF side = "remote" \/ ready.readsClient
                     THEN PerformReadWrite(ready, side) ELSE ready
<1>3. pairs'[link] = q /\ Only(link)
  <2> DEFINE read == [p EXCEPT
                        ![side].wire = SubSeq(wire, n + 1, Len(wire)),
                        ![side].available = @ \o SubSeq(wire, 1, n)]
             made == IF side = "remote" \/ read.readsClient
                     THEN PerformReadWrite(read, side) ELSE read
  <2>1. read = ready
    BY <1>1 DEF Pair, Socket, Sides
  <2>2. pairs' = [pairs EXCEPT ![link] = made]
    BY <1>2, Zenon
  <2>3. made = q
    <3> HIDE DEF read, ready
    <3> QED
      BY <2>1
  <2> HIDE DEF made, q
  <2> QED
    BY <2>2, <2>3, LinkOfInv DEF Only
<1>4. /\ more \in Socket /\ more.state = p[side].state /\ more.open = p[side].open
      /\ more.written = p[side].written
      /\ more.wire \in Seq(PeerData) /\ more.available \in Seq(PeerData)
      /\ more.available \o more.wire = p[side].available \o wire
  <2>1. wire \in Seq(PeerData) /\ p[side].available \in Seq(PeerData)
    BY <1>1 DEF Traffic
  <2>2. /\ SubSeq(wire, n + 1, Len(wire)) \in Seq(PeerData)
        /\ SubSeq(wire, 1, n) \in Seq(PeerData)
        /\ wire = SubSeq(wire, 1, n) \o SubSeq(wire, n + 1, Len(wire))
    <3>1. n \in 0..Len(wire)
      BY <1>2
    <3> QED
      BY <2>1, <3>1, SplitAt
  <2> DEFINE read == SubSeq(wire, 1, n)
             left == SubSeq(wire, n + 1, Len(wire))
  <2> HIDE DEF wire, read, left
  <2>3. /\ read \in Seq(PeerData) /\ left \in Seq(PeerData) /\ wire = read \o left
        /\ more = [p[side] EXCEPT !.wire = left, !.available = @ \o read]
    BY <2>2 DEF read, left
  <2>4. p[side].available \o read \in Seq(PeerData)
    BY <2>1, <2>3
  <2>5. /\ more.wire = left /\ more.available = p[side].available \o read
        /\ more.state = p[side].state /\ more.open = p[side].open
        /\ more.written = p[side].written
    BY <1>1, <2>3 DEF Socket
  <2>6. more \in Socket
    <3>1. left \in Seq(Data) /\ p[side].available \o read \in Seq(Data)
      BY <2>3, <2>4, PeerDataIsData
    <3> QED
      BY <1>1, <2>3, <3>1 DEF Socket
  <2>7. (p[side].available \o read) \o left = p[side].available \o (read \o left)
    <3> DEFINE old == p[side].available
    <3>1. old \in Seq(PeerData)
      BY <2>1
    <3> HIDE DEF old
    <3>2. (old \o read) \o left = old \o (read \o left)
      BY <2>3, <3>1, ConcatAssociative
    <3> QED
      BY <3>2 DEF old
  <2> QED
    BY <2>3, <2>4, <2>5, <2>6, <2>7
<1>5. /\ ready \in Pair /\ ready.stage = "Listed" /\ ready[side] = more
      /\ ready[Other(side)] = p[Other(side)] /\ ready.readsClient = p.readsClient
      /\ \A s \in Sides : ready[s].state = p[s].state /\ ready[s].open = p[s].open
  <2> HIDE DEF more
  <2>1. /\ ready \in Pair /\ ready.stage = "Listed" /\ ready.readsClient = p.readsClient
        /\ ready.client = IF side = "client" THEN more ELSE p.client
        /\ ready.remote = IF side = "remote" THEN more ELSE p.remote
    BY <1>1, <1>4 DEF Pair, Sides
  <2> HIDE DEF ready, p
  <2> QED
    BY <1>4, <2>1 DEF Sides, Other
<1> HIDE DEF more, ready, wire, p
<1>6. side = "remote" => p.remote.state = "Connected"
  <2>1. p[side].wire # <<>>
    BY <1>2 DEF wire
  <2> QED
    BY <1>1, <2>1 DEF Traffic
<1>7. /\ \A s \in Sides : /\ ready[s].wire \in Seq(PeerData)
                          /\ ready[s].available \in Seq(PeerData)
      /\ side = "client" => /\ ready.remote = p.remote
                            /\ ready.remote.state = p.remote.state
  <2>1. \A s \in Sides : s = side \/ s = Other(side)
    BY <1>1, SideOfPair
  <2> QED
    BY <1>1, <1>4, <1>5, <2>1 DEF Traffic, Other, Sides
<1>8. Traffic(ready)
  BY <1>1, <1>5, <1>6, <1>7 DEF Traffic, Sides
<1>9. Carries(p, ready)
  BY <1>1, <1>4, <1>5, <1>8, ReadingCarries DEF Reads, wire
<1>10. PhaseOf(ready) = PhaseOf(p)
  BY <1>1, <1>5 DEF PhaseOf, Sides
<1>11. Traffic(q) /\ Carries(ready, q) /\ PhaseOf(q) = PhaseOf(p)
  <2>1. CASE side = "remote" \/ ready.readsClient
    <3>1. ready.remote.state = "Connected" /\ ready.client.state = "Connected"
      BY <1>1, <1>5, <1>6, <2>1 DEF PairFits, Sides
    <3>2. q = PerformReadWrite(ready, side)
      BY <2>1
    <3>3. PhaseOf(ready) = "Established"
      BY <1>5, <3>1 DEF PhaseOf
    <3> QED
      BY <1>5, <1>8, <1>10, <3>1, <3>2, <3>3, PassedTraffic
  <2>2. CASE ~ (side = "remote" \/ ready.readsClient)
    <3>1. q = ready
      BY <2>2
    <3> QED
      BY <1>8, <1>10, <3>1 DEF Carries
  <2> QED
    BY <2>1, <2>2
<1> HIDE DEF q
<1>12. Carries(p, q)
  BY <1>9, <1>11 DEF Carries
<1> QED
  BY <1>3, <1>11, <1>12 DEF Moves, p

(* The phase of a listed link.                                             *)
LEMMA ListedPhase ==
  ASSUME NEW p, p.stage = "Listed"
  PROVE  PhaseOf(p) \in {"Open", "Established"}
BY DEF PhaseOf

LEMMA FailsCarries ==
  ASSUME TInv, NEW link \in Links, ConnectionFails(link)
  PROVE  LET p == pairs[link]
             q == pairs'[link]
         IN  /\ Moves(link, "Open", "Open")
             /\ UnderWay(q, "client") = UnderWay(p, "client")
             /\ UnderWay(q, "remote") = [UnderWay(p, "remote") EXCEPT !.app = <<>>]
<1> DEFINE p == pairs[link]
           q == pairs'[link]
           none == SocketIn("Unconnected")
<1>1. /\ p \in Pair /\ Traffic(p) /\ PairFits(p) /\ p.stage = "Listed"
      /\ p.remote.state = "Connecting"
      /\ p.client \in Socket /\ p.remote \in Socket
  BY LinkOfInv DEF ConnectionFails, Listed
<1>2. /\ none.state = "Unconnected" /\ none.open = FALSE /\ none.wire = <<>>
      /\ none.available = <<>> /\ none.written = <<>>
  BY DEF SocketIn
<1>3. Only(link) /\ q = [p EXCEPT !.remote = none]
  BY LinkOfInv DEF ConnectionFails, Only
<1> HIDE DEF none, q, p
<1>4. /\ q.stage = "Listed" /\ q.client = p.client /\ q.remote = none
  BY <1>1, <1>3 DEF Pair
<1>5. /\ p.remote.wire = <<>> /\ p.remote.available = <<>>
      /\ p.remote.written \in Seq(AppData)
      /\ p.client.wire \in Seq(PeerData) /\ p.client.available \in Seq(PeerData)
      /\ p.client.wire \in Seq(Data) /\ p.client.available \in Seq(Data)
  BY <1>1, PeerDataIsData DEF Traffic, PairFits, Sides
<1>6. Traffic(q)
  <2>1. \A side \in Sides : /\ q[side].wire \in Seq(PeerData)
                            /\ q[side].available \in Seq(PeerData)
    <3>1. <<>> \in Seq(PeerData)
      OBVIOUS
    <3> QED
      BY <1>2, <1>4, <1>5, <3>1 DEF Sides
  <2> QED
    BY <1>2, <1>4, <2>1 DEF Traffic
<1>7. PhaseOf(p) = "Open" /\ PhaseOf(q) = "Open"
  BY <1>1, <1>2, <1>4 DEF PhaseOf
<1>8. UnderWay(q, "client") = UnderWay(p, "client")
  BY <1>2, <1>4, <1>5 DEF UnderWay, Other
<1>9. /\ From(p.remote.written, "peer") = <<>>
      /\ From(q.remote.written, "peer") = <<>> /\ From(q.remote.written, "app") = <<>>
  BY <1>2, <1>4, <1>5, FromApplication, FromEmpty
<1>10. UnderWay(q, "remote") = [UnderWay(p, "remote") EXCEPT !.app = <<>>]
  <2> DEFINE peer == <<>> \o p.client.available \o p.client.wire
  <2>1. Other("remote") = "client"
    BY DEF Other
  <2>2. UnderWay(p, "remote") = [peer |-> peer, app |-> From(p.remote.written, "app")]
    BY <1>9, <2>1 DEF UnderWay
  <2>3. UnderWay(q, "remote") = [peer |-> peer, app |-> <<>>]
    BY <1>4, <1>9, <2>1 DEF UnderWay
  <2> HIDE DEF peer
  <2> QED
    BY <2>2, <2>3
<1> QED
  BY <1>3, <1>6, <1>7, <1>8, <1>10 DEF Moves, p, q

(* A socket that is destroyed leaves a prefix of what was written, all of  *)
(* it if nothing is left to be read.                                       *)
LEMMA EmptyPrefix ==
  ASSUME NEW S, NEW s \in Seq(S)
  PROVE  <<>> \in Prefixes(s) /\ s \in Prefixes(s)
<1>1. Len(s) \in Nat /\ 0 \in 0..Len(s) /\ Len(s) \in 0..Len(s)
  OBVIOUS
<1>2. SubSeq(s, 1, 0) = <<>> /\ SubSeq(s, 1, Len(s)) = s
  BY SubSeqEmpty, SubSeqFull
<1> QED
  BY <1>1, <1>2, Zenon DEF Prefixes

LEMMA FlushedLeaves ==
  ASSUME NEW socket \in Socket, NEW left \in Flushed(socket)
  PROVE  /\ left.wire = <<>> /\ left.available = <<>>
         /\ left.state = "Unconnected"
         /\ left.written \in Prefixes(socket.written)
         /\ socket.state = "Connected" /\ socket.wire \o socket.available = <<>>
                => left.written = socket.written
<1> DEFINE Rests == IF socket.state # "Connected" THEN {<<>>}
                    ELSE IF socket.wire \o socket.available = <<>> THEN {socket.written}
                    ELSE Prefixes(socket.written)
           none == SocketIn("Unconnected")
<1>1. PICK rest \in Rests : left = [none EXCEPT !.open = socket.open, !.written = rest]
  BY DEF Flushed
<1>2. socket.written \in Seq(Data)
  BY DEF Socket
<1>3. /\ none.wire = <<>> /\ none.available = <<>> /\ none.state = "Unconnected"
      /\ none \in Socket
  BY SocketInTyped DEF SocketIn
<1> HIDE DEF none
<1>4. /\ left.wire = <<>> /\ left.available = <<>> /\ left.state = "Unconnected"
      /\ left.written = rest
  BY <1>1, <1>3 DEF Socket
<1>5. rest \in Prefixes(socket.written)
  BY <1>2, EmptyPrefix
<1> QED
  BY <1>4, <1>5

LEMMA LostLeaves ==
  ASSUME NEW socket
  PROVE  /\ Lost(socket).wire = <<>> /\ Lost(socket).available = <<>>
         /\ Lost(socket).written = <<>> /\ Lost(socket).state = "Unconnected"
<1> DEFINE none == SocketIn("Unconnected")
<1>1. /\ none.wire = <<>> /\ none.available = <<>> /\ none.state = "Unconnected"
      /\ none.written = <<>> /\ none \in Socket
  BY SocketInTyped DEF SocketIn
<1>2. Lost(socket) = [none EXCEPT !.open = socket.open]
  BY DEF Lost
<1> HIDE DEF none
<1> QED
  BY <1>1, <1>2 DEF Socket

(* A link that has ended.                                                  *)
LEMMA EndedTraffic ==
  ASSUME NEW q, q.stage \in {"ByClient", "ByRemote", "Dropped"},
         q.remote.state = "Unconnected",
         \A side \in Sides : q[side].wire = <<>> /\ q[side].available = <<>>
  PROVE  Traffic(q) /\ PhaseOf(q) = q.stage
<1>1. <<>> \in Seq(PeerData)
  OBVIOUS
<1> QED
  BY <1>1 DEF Traffic, PhaseOf

(* One side has ended the link: what is lost of what was under way.        *)
MayLose(p, q, side, end) ==
    \/ PhaseOf(p) = "Open"
    \/ end = "Dropped"
    \/ UnderWay(p, side).peer # <<>>
    \/ UnderWay(q, Other(side)) = UnderWay(p, Other(side))

EndsAs(link, side, end) ==
    /\ Moves(link, PhaseOf(pairs[link]), end)
    /\ PhaseOf(pairs[link]) \in {"Open", "Established"}
    /\ \A s \in Sides : LeavesPrefix(pairs[link], pairs'[link], s)
    /\ MayLose(pairs[link], pairs'[link], side, end)

LEMMA EndingCarries ==
  ASSUME TInv, NEW link \in Links, NEW side \in Sides, NEW end \in {"ByClient", "ByRemote"},
         Disconnects(link, side), Only(link),
         pairs'[link].stage = Ended(link, end),
         pairs'[link][side] = Lost(pairs[link][side]),
         pairs'[link][Other(side)] \in Flushed(pairs[link][Other(side)])
  PROVE  EndsAs(link, side, Ended(link, end))
<1> DEFINE p == pairs[link]
           q == pairs'[link]
           to == Other(side)
<1>1. /\ p \in Pair /\ Traffic(p) /\ PairFits(p) /\ p.stage = "Listed"
      /\ p[side] \in Socket /\ p[to] \in Socket /\ to \in Sides /\ Other(to) = side
      /\ \A s \in Sides : s = side \/ s = to
      /\ p[side].written \in Seq(Data) /\ p[to].written \in Seq(Data)
  BY LinkOfInv, SideOfPair DEF Disconnects, Listed
<1>2. /\ q[side].wire = <<>> /\ q[side].available = <<>>
      /\ q[side].written = <<>> /\ q[side].state = "Unconnected"
  BY LostLeaves
<1>3. /\ q[to].wire = <<>> /\ q[to].available = <<>> /\ q[to].state = "Unconnected"
      /\ q[to].written \in Prefixes(p[to].written)
      /\ p[to].state = "Connected" /\ p[to].wire \o p[to].available = <<>>
            => q[to].written = p[to].written
  BY <1>1, FlushedLeaves
<1>4. /\ q.stage \in {"ByClient", "ByRemote", "Dropped"}
      /\ q.stage = Ended(link, end)
      /\ p[side].broken => q.stage = "Dropped"
      /\ ~p[side].broken => p[side].wire = <<>>
  BY DEF Ended, Disconnects
<1> HIDE DEF q, p
<1>5. Traffic(q) /\ PhaseOf(q) = q.stage
  <2>1. q.remote.state = "Unconnected"
    BY <1>1, <1>2, <1>3 DEF Sides
  <2>2. \A s \in Sides : q[s].wire = <<>> /\ q[s].available = <<>>
    BY <1>1, <1>2, <1>3
  <2> QED
    BY <1>4, <2>1, <2>2, EndedTraffic
<1>6. PhaseOf(p) \in {"Open", "Established"}
  BY <1>1, ListedPhase
<1>7. LeavesPrefix(p, q, to) /\ LeavesPrefix(p, q, side)
  <2>1. q[side].written \in Prefixes(p[side].written)
    BY <1>1, <1>2, EmptyPrefix
  <2>2. LeavesPrefix(p, q, side)
    BY <1>1, <1>3, <2>1, EndingLeavesPrefix
  <2>3. LeavesPrefix(p, q, to)
    BY <1>1, <1>2, <1>3, EndingLeavesPrefix
  <2> QED
    BY <2>2, <2>3
<1>8. MayLose(p, q, side, q.stage)
  <2> SUFFICES ASSUME PhaseOf(p) = "Established", ~p[side].broken,
                      UnderWay(p, side).peer = <<>>
               PROVE  UnderWay(q, to) = UnderWay(p, to)
    BY <1>4, <1>6 DEF MayLose
  <2>1. /\ p[side].available = <<>> /\ p[to].available = <<>> /\ p[side].wire = <<>>
        /\ p[to].state = "Connected"
    <3>1. p.remote.state = "Connected"
      BY <1>1 DEF PhaseOf
    <3>2. /\ p.remote.available = <<>> /\ p.client.available = <<>>
          /\ p.client.state = "Connected"
      BY <1>1, <3>1 DEF PairFits
    <3> QED
      BY <1>1, <1>4, <3>1, <3>2 DEF Sides
  <2>2. p[to].wire = <<>>
    <3>1. /\ From(p[side].written, "peer") \in Seq(Data) /\ p[to].wire \in Seq(Data)
      BY <1>1, FromTyped, PeerDataIsData DEF Traffic
    <3>2. From(p[side].written, "peer") \o <<>> \o p[to].wire = <<>>
      BY <2>1 DEF UnderWay
    <3> DEFINE w == From(p[side].written, "peer")
               b == p[to].wire
    <3> HIDE DEF w, b
    <3>3. w \in Seq(Data) /\ b \in Seq(Data) /\ w \o <<>> \o b = <<>>
      BY <3>1, <3>2 DEF w, b
    <3>4. b = <<>>
      <4>1. w \o <<>> = w
        BY <3>3
      <4>2. Len(w \o b) = Len(w) + Len(b)
        BY <3>3
      <4>3. Len(w \o b) = 0
        BY <3>3, <4>1
      <4>4. Len(b) = 0
        BY <3>3, <4>2, <4>3
      <4> QED
        BY <3>3, <4>4
    <3> QED
      BY <3>4 DEF b
  <2>3. q[to].written = p[to].written
    <3>1. <<>> \o <<>> = <<>>
      OBVIOUS
    <3> QED
      BY <1>3, <2>1, <2>2, <3>1
  <2> QED
    BY <1>1, <1>2, <2>1, <2>3 DEF UnderWay
<1> QED
  BY <1>1, <1>4, <1>5, <1>6, <1>7, <1>8 DEF EndsAs, Moves, p, q

LEMMA ByClientCarries ==
  ASSUME TInv, NEW link \in Links, ClientConnectionTerminated(link)
  PROVE  EndsAs(link, "client", Ended(link, "ByClient"))
<1>1. PICK remote \in Flushed(pairs[link].remote) :
        pairs' = [pairs EXCEPT ![link] =
            [stage |-> Ended(link, "ByClient"), readsClient |-> FALSE,
             client |-> Lost(@.client), remote |-> remote]]
  BY DEF ClientConnectionTerminated
<1>2. /\ Only(link)
      /\ pairs'[link] = [stage |-> Ended(link, "ByClient"), readsClient |-> FALSE,
                         client |-> Lost(pairs[link].client), remote |-> remote]
  BY <1>1, LinkOfInv DEF Only
<1>3. /\ pairs'[link].stage = Ended(link, "ByClient")
      /\ pairs'[link]["client"] = Lost(pairs[link]["client"])
      /\ pairs'[link]["remote"] \in Flushed(pairs[link]["remote"])
  BY <1>2
<1>4. "client" \in Sides /\ Other("client") = "remote" /\ Disconnects(link, "client")
  BY DEF Sides, Other, ClientConnectionTerminated
<1> QED
  BY <1>2, <1>3, <1>4, EndingCarries

LEMMA ByRemoteCarries ==
  ASSUME TInv, NEW link \in Links, ConnectionSocketDisconnected(link)
  PROVE  EndsAs(link, "remote", Ended(link, "ByRemote"))
<1>1. PICK client \in Flushed(pairs[link].client) :
        pairs' = [pairs EXCEPT ![link] =
            [stage |-> Ended(link, "ByRemote"), readsClient |-> FALSE,
             client |-> client, remote |-> Lost(@.remote)]]
  BY DEF ConnectionSocketDisconnected
<1>2. /\ Only(link)
      /\ pairs'[link] = [stage |-> Ended(link, "ByRemote"), readsClient |-> FALSE,
                         client |-> client, remote |-> Lost(pairs[link].remote)]
  BY <1>1, LinkOfInv DEF Only
<1>3. /\ pairs'[link].stage = Ended(link, "ByRemote")
      /\ pairs'[link]["remote"] = Lost(pairs[link]["remote"])
      /\ pairs'[link]["client"] \in Flushed(pairs[link]["client"])
  BY <1>2
<1>4. "remote" \in Sides /\ Other("remote") = "client" /\ Disconnects(link, "remote")
  BY DEF Sides, Other, ConnectionSocketDisconnected
<1> QED
  BY <1>2, <1>3, <1>4, EndingCarries

(* A change of a socket that touches no data.                              *)
LEMMA QuietChange ==
  ASSUME TInv, NEW link \in Links, NEW side \in Sides, NEW socket,
         pairs[link].stage = "Listed",
         pairs' = [pairs EXCEPT ![link] = [@ EXCEPT ![side] = socket]],
         socket.wire = pairs[link][side].wire,
         socket.available = pairs[link][side].available,
         socket.written = pairs[link][side].written,
         socket.state = pairs[link][side].state,
         socket.open => pairs[link][side].open
  PROVE  /\ Moves(link, PhaseOf(pairs[link]), PhaseOf(pairs[link]))
         /\ Carries(pairs[link], pairs'[link])
<1> DEFINE p == pairs[link]
           q == pairs'[link]
<1>1. /\ p \in Pair /\ Traffic(p) /\ p[side] \in Socket /\ p.stage = "Listed"
      /\ \A s \in Sides : s = side \/ s = Other(side)
      /\ Other(side) # side /\ Other(side) \in Sides
  BY LinkOfInv, SideOfPair
<1>2. Only(link) /\ q = [p EXCEPT ![side] = socket]
  BY LinkOfInv DEF Only
<1> HIDE DEF p, q
<1>3. /\ q.stage = p.stage /\ q[side] = socket /\ q[Other(side)] = p[Other(side)]
  BY <1>1, <1>2 DEF Pair, Sides, Other
<1>4. /\ socket.wire = p[side].wire /\ socket.available = p[side].available
      /\ socket.written = p[side].written /\ socket.state = p[side].state
      /\ socket.open => p[side].open
  BY DEF p
<1>5. SameData(p, q)
  BY <1>1, <1>3, <1>4 DEF SameData
<1>6. \A s \in Sides : q[s].state = p[s].state /\ (q[s].open => p[s].open)
  BY <1>1, <1>3, <1>4
<1>7. /\ q.remote.state = p.remote.state /\ (q.remote.open => p.remote.open)
      /\ q.remote.wire = p.remote.wire /\ q.remote.written = p.remote.written
  BY <1>5, <1>6 DEF SameData, Sides
<1>8. Traffic(q)
  <2>1. \A s \in Sides : /\ q[s].wire \in Seq(PeerData) /\ q[s].available \in Seq(PeerData)
    BY <1>1, <1>5 DEF SameData, Traffic
  <2> QED
    BY <1>1, <1>3, <1>7, <2>1 DEF Traffic
<1>9. PhaseOf(q) = PhaseOf(p)
  BY <1>3, <1>7 DEF PhaseOf
<1> QED
  BY <1>2, <1>5, <1>8, <1>9, SameDataCarries DEF Moves, p, q

LEMMA BreaksCarries ==
  ASSUME TInv, NEW link \in Links, NEW side \in Sides, ConnectionBreaks(link, side)
  PROVE  /\ Moves(link, PhaseOf(pairs[link]), PhaseOf(pairs[link]))
         /\ Carries(pairs[link], pairs'[link])
<1> DEFINE socket == [pairs[link][side] EXCEPT !.broken = TRUE]
<1>1. pairs[link][side] \in Socket
  BY LinkOfInv, SideOfPair
<1>2. /\ socket.wire = pairs[link][side].wire
      /\ socket.available = pairs[link][side].available
      /\ socket.written = pairs[link][side].written
      /\ socket.state = pairs[link][side].state
      /\ socket.open = pairs[link][side].open
  BY <1>1 DEF Socket
<1>3. /\ pairs[link].stage = "Listed"
      /\ pairs' = [pairs EXCEPT ![link] = [@ EXCEPT ![side] = socket]]
  BY DEF ConnectionBreaks, Listed
<1> HIDE DEF socket
<1> QED
  BY <1>2, <1>3, QuietChange

LEMMA ClosesCarries ==
  ASSUME TInv, NEW link \in Links, NEW side \in Sides, PeerCloses(link, side)
  PROVE  /\ Moves(link, PhaseOf(pairs[link]), PhaseOf(pairs[link]))
         /\ Carries(pairs[link], pairs'[link])
<1> DEFINE socket == [pairs[link][side] EXCEPT !.open = FALSE]
<1>1. pairs[link][side] \in Socket
  BY LinkOfInv, SideOfPair
<1>2. /\ socket.wire = pairs[link][side].wire
      /\ socket.available = pairs[link][side].available
      /\ socket.written = pairs[link][side].written
      /\ socket.state = pairs[link][side].state
      /\ socket.open = FALSE
  BY <1>1 DEF Socket
<1>3. /\ pairs[link].stage = "Listed"
      /\ pairs' = [pairs EXCEPT ![link] = [@ EXCEPT ![side] = socket]]
  BY DEF PeerCloses, Listed
<1> HIDE DEF socket
<1> QED
  BY <1>2, <1>3, QuietChange

(* A peer sends: the datum comes last of what is under way to the other    *)
(* side.                                                                   *)
LEMMA PeerSendsCarries ==
  ASSUME TInv, NEW link \in Links, NEW side \in Sides, PeerSends(link, side)
  PROVE  LET p == pairs[link]
             q == pairs'[link]
             d == <<"peer", sent[side][link]>>
         IN  /\ Moves(link, PhaseOf(p), PhaseOf(p))
             /\ PhaseOf(p) \in {"Open", "Established"} /\ d \in Data
             /\ UnderWay(q, side) = UnderWay(p, side)
             /\ UnderWay(q, Other(side)).peer = Append(UnderWay(p, Other(side)).peer, d)
             /\ UnderWay(q, Other(side)).app = UnderWay(p, Other(side)).app
<1> DEFINE p == pairs[link]
           q == pairs'[link]
           d == <<"peer", sent[side][link]>>
           to == Other(side)
           socket == [p[side] EXCEPT !.wire = Append(@, d)]
<1>1. /\ p \in Pair /\ Traffic(p) /\ p[side] \in Socket /\ p[to] \in Socket
      /\ p.stage = "Listed" /\ p[side].open /\ PairFits(p)
      /\ \A s \in Sides : s = side \/ s = to
      /\ to # side /\ to \in Sides /\ Other(to) = side
  BY LinkOfInv, SideOfPair DEF PeerSends, Listed
<1>2. d \in PeerData /\ d \in Data
  <2>1. sent[side][link] \in Nat /\ sent[side][link] < load.peer
    BY DEF PeerSends, TInv, IInv, Types, Sides
  <2>2. load.peer \in 0..MaxData /\ MaxData \in Nat
    BY LoadsAssumption DEF TInv, IInv, Types
  <2>3. sent[side][link] \in 0..MaxData
    BY <2>1, <2>2
  <2> QED
    BY <2>3 DEF PeerData, Data
<1>3. Only(link) /\ q = [p EXCEPT ![side] = socket]
  BY LinkOfInv DEF PeerSends, Only
<1>4. /\ socket.wire = Append(p[side].wire, d) /\ socket.available = p[side].available
      /\ socket.written = p[side].written /\ socket.state = p[side].state
      /\ socket.open = p[side].open
  BY <1>1 DEF Socket
<1> HIDE DEF p, q, d, socket
<1>5. /\ q.stage = p.stage /\ q[side] = socket /\ q[to] = p[to]
  BY <1>1, <1>3 DEF Pair, Sides, Other
<1>6. /\ p[side].wire \in Seq(PeerData) /\ p[side].available \in Seq(PeerData)
      /\ p[side].wire \in Seq(Data) /\ p[side].available \in Seq(Data)
      /\ p[to].wire \in Seq(PeerData) /\ p[to].available \in Seq(PeerData)
      /\ Append(p[side].wire, d) \in Seq(PeerData)
      /\ From(p[to].written, "peer") \in Seq(Data)
  <2>1. p[side].wire \in Seq(PeerData) /\ p[side].available \in Seq(PeerData)
        /\ p[to].wire \in Seq(PeerData) /\ p[to].available \in Seq(PeerData)
    BY <1>1 DEF Traffic
  <2>2. Append(p[side].wire, d) \in Seq(PeerData)
    BY <1>2, <2>1
  <2>3. From(p[to].written, "peer") \in Seq(Data)
    BY <1>1, FromTyped DEF Socket
  <2> QED
    BY <2>1, <2>2, <2>3, PeerDataIsData
<1>7. side = "remote" => p.remote.state = "Connected"
  BY <1>1 DEF Traffic
<1>8. Traffic(q)
  <2>1. \A s \in Sides : /\ q[s].wire \in Seq(PeerData) /\ q[s].available \in Seq(PeerData)
    BY <1>1, <1>4, <1>5, <1>6
  <2>2. q.remote.state = p.remote.state /\ q.remote.open = p.remote.open
        /\ q.remote.written = p.remote.written
        /\ (side # "remote" => q.remote.wire = p.remote.wire)
    BY <1>1, <1>4, <1>5 DEF Sides, Other
  <2> QED
    BY <1>1, <1>5, <1>7, <2>1, <2>2 DEF Traffic
<1>9. PhaseOf(q) = PhaseOf(p) /\ PhaseOf(p) \in {"Open", "Established"}
  <2>1. q.remote.state = p.remote.state
    BY <1>1, <1>4, <1>5 DEF Sides, Other
  <2> QED
    BY <1>1, <1>5, <2>1, ListedPhase DEF PhaseOf
<1>10. UnderWay(q, side) = UnderWay(p, side)
  BY <1>4, <1>5 DEF UnderWay
<1>11. /\ UnderWay(q, to).peer = Append(UnderWay(p, to).peer, d)
       /\ UnderWay(q, to).app = UnderWay(p, to).app
  <2> DEFINE w == From(p[to].written, "peer")
             a == p[side].available
             b == p[side].wire
             x == From(p[to].written, "app")
  <2>1. /\ UnderWay(p, to) = [peer |-> w \o a \o b, app |-> x]
        /\ UnderWay(q, to) = [peer |-> w \o a \o Append(b, d), app |-> x]
    BY <1>1, <1>4, <1>5 DEF UnderWay
  <2>2. w \in Seq(Data) /\ a \in Seq(Data) /\ b \in Seq(Data)
    BY <1>6
  <2> HIDE DEF w, a, b, x
  <2>3. w \o a \o Append(b, d) = Append(w \o a \o b, d)
    <3>1. w \o a \in Seq(Data)
      BY <2>2
    <3> QED
      BY <1>2, <2>2, <3>1, ConcatAppend
  <2> DEFINE u == w \o a \o b
             v == Append(u, d)
  <2>4. /\ UnderWay(p, to) = [peer |-> u, app |-> x]
        /\ UnderWay(q, to) = [peer |-> v, app |-> x]
    BY <2>1, <2>3
  <2> HIDE DEF u, v
  <2>5. /\ UnderWay(p, to).peer = u /\ UnderWay(p, to).app = x
        /\ UnderWay(q, to).peer = v /\ UnderWay(q, to).app = x
    BY <2>4
  <2> QED
    BY <2>5 DEF v
<1> QED
  BY <1>2, <1>3, <1>8, <1>9, <1>10, <1>11 DEF Moves, p, q, d

(* A peer receives: the first datum under way from one of the sources.     *)
LEMMA FromFirst ==
  ASSUME NEW S, NEW d \in S, NEW rest \in Seq(S), NEW source
  PROVE  From(<<d>> \o rest, source) =
            IF d[1] = source THEN <<d>> \o From(rest, source) ELSE From(rest, source)
<1>1. <<d>> \in Seq(S) /\ <<d>> = Append(<<>>, d) /\ <<>> \in Seq(S)
  OBVIOUS
<1>2. From(<<d>>, source) = IF d[1] = source THEN <<d>> ELSE <<>>
  <2>1. From(Append(<<>>, d), source)
            = IF d[1] = source THEN Append(From(<<>>, source), d) ELSE From(<<>>, source)
    BY <1>1, FromAppend
  <2> QED
    BY <1>1, <2>1, FromEmpty
<1>3. From(<<d>> \o rest, source) = From(<<d>>, source) \o From(rest, source)
  <2> DEFINE one == <<d>>
  <2>1. one \in Seq(S)
    BY <1>1
  <2> HIDE DEF one
  <2>2. From(one \o rest, source) = From(one, source) \o From(rest, source)
    BY <2>1, FromConcat
  <2> QED
    BY <2>2 DEF one
<1>4. From(rest, source) \in Seq(S)
  BY FromTyped
<1>5. <<>> \o From(rest, source) = From(rest, source)
  BY <1>4
<1> QED
  BY <1>2, <1>3, <1>5

Receives(p, q, side, d) ==
    /\ UnderWay(q, Other(side)) = UnderWay(p, Other(side))
    /\ \A source \in {"peer", "app"} :
        IF d[1] = source
        THEN /\ UnderWay(p, side)[source] # <<>>
             /\ Head(UnderWay(p, side)[source]) = d
             /\ Tail(UnderWay(p, side)[source]) = UnderWay(q, side)[source]
        ELSE UnderWay(q, side)[source] = UnderWay(p, side)[source]

LEMMA PeerReceivesCarries ==
  ASSUME TInv, NEW link \in Links, NEW side \in Sides, PeerReceives(link, side)
  PROVE  LET p == pairs[link]
             q == pairs'[link]
             d == Head(p[side].written)
         IN  /\ Moves(link, PhaseOf(p), PhaseOf(p)) /\ d \in Data
             /\ Receives(p, q, side, d)
<1> DEFINE p == pairs[link]
           q == pairs'[link]
           to == Other(side)
           d == Head(p[side].written)
           rest == Tail(p[side].written)
           socket == [p[side] EXCEPT !.written = rest]
<1>1. /\ p \in Pair /\ Traffic(p) /\ p[side] \in Socket /\ PairFits(p)
      /\ p[side].open /\ p[side].written # <<>> /\ p[side].written \in Seq(Data)
      /\ \A s \in Sides : s = side \/ s = to
      /\ to # side /\ to \in Sides /\ Other(to) = side
  BY LinkOfInv, SideOfPair DEF PeerReceives
<1>2. /\ d \in Data /\ rest \in Seq(Data) /\ p[side].written = <<d>> \o rest
  BY <1>1
<1>3. Only(link) /\ q = [p EXCEPT ![side] = socket]
  BY LinkOfInv DEF PeerReceives, Only
<1>4. /\ socket.wire = p[side].wire /\ socket.available = p[side].available
      /\ socket.written = rest /\ socket.state = p[side].state
      /\ socket.open = p[side].open
  BY <1>1 DEF Socket
<1> HIDE DEF p, q, d, rest, socket
<1>5. /\ q.stage = p.stage /\ q[side] = socket /\ q[to] = p[to]
  BY <1>1, <1>3 DEF Pair, Sides, Other
<1>6. \A s \in Sides : /\ q[s].wire = p[s].wire /\ q[s].available = p[s].available
                       /\ q[s].state = p[s].state /\ q[s].open = p[s].open
                       /\ s = to => q[s].written = p[s].written
  BY <1>1, <1>4, <1>5
<1>7. p.stage # "None" /\ (side = "remote" => p.remote.state # "Connecting")
  <2>1. p.stage # "None"
    BY <1>1 DEF Traffic
  <2>2. ASSUME side = "remote", p.remote.state = "Connecting" PROVE FALSE
    <3>1. p.stage = "Listed"
      BY <1>1, <2>2 DEF PairFits
    <3> QED
      BY <1>1, <2>2, <3>1 DEF Traffic
  <2> QED
    BY <2>1, <2>2
<1>8. Traffic(q) /\ PhaseOf(q) = PhaseOf(p)
  <2>1. \A s \in Sides : /\ q[s].wire \in Seq(PeerData) /\ q[s].available \in Seq(PeerData)
    BY <1>1, <1>6 DEF Traffic
  <2>2. /\ q.remote.state = p.remote.state /\ q.remote.open = p.remote.open
        /\ q.remote.wire = p.remote.wire
        /\ (side # "remote" => q.remote.written = p.remote.written)
    BY <1>1, <1>6 DEF Sides
  <2> QED
    BY <1>1, <1>5, <1>7, <2>1, <2>2 DEF Traffic, PhaseOf
<1>9. UnderWay(q, to) = UnderWay(p, to)
  BY <1>1, <1>6 DEF UnderWay
<1>10. \A source : From(p[side].written, source) =
            IF d[1] = source THEN <<d>> \o From(rest, source) ELSE From(rest, source)
  <2> TAKE source
  <2> QED
    BY <1>2, FromFirst
<1> DEFINE a == p[to].available
           b == p[to].wire
           wp == From(rest, "peer")
           wa == From(rest, "app")
<1>11. a \in Seq(Data) /\ b \in Seq(Data) /\ wp \in Seq(Data) /\ wa \in Seq(Data)
  BY <1>1, <1>2, FromTyped, PeerDataIsData DEF Traffic
<1>12. /\ UnderWay(q, side).peer = wp \o a \o b
       /\ UnderWay(q, side).app = wa
       /\ UnderWay(p, side).peer = (IF d[1] = "peer" THEN <<d>> \o wp ELSE wp) \o a \o b
       /\ UnderWay(p, side).app = IF d[1] = "app" THEN <<d>> \o wa ELSE wa
  <2>1. From(p[side].written, "peer") = IF d[1] = "peer" THEN <<d>> \o wp ELSE wp
    BY <1>10
  <2>2. From(p[side].written, "app") = IF d[1] = "app" THEN <<d>> \o wa ELSE wa
    BY <1>10
  <2> HIDE DEF wp, wa
  <2>3. From(q[side].written, "peer") = wp /\ From(q[side].written, "app") = wa
    BY <1>4, <1>5 DEF wp, wa
  <2>4. q[to].available = a /\ q[to].wire = b
    BY <1>6, <1>1
  <2> HIDE DEF a, b
  <2>5. UnderWay(q, side) = [peer |-> wp \o a \o b, app |-> wa]
    BY <2>3, <2>4 DEF UnderWay
  <2>6. UnderWay(p, side) =
          [peer |-> (IF d[1] = "peer" THEN <<d>> \o wp ELSE wp) \o a \o b,
           app |-> IF d[1] = "app" THEN <<d>> \o wa ELSE wa]
    BY <2>1, <2>2 DEF UnderWay, a, b
  <2> DEFINE x == (IF d[1] = "peer" THEN <<d>> \o wp ELSE wp) \o a \o b
             y == IF d[1] = "app" THEN <<d>> \o wa ELSE wa
             z == wp \o a \o b
  <2>7. UnderWay(p, side) = [peer |-> x, app |-> y] /\ UnderWay(q, side) = [peer |-> z, app |-> wa]
    BY <2>5, <2>6
  <2> HIDE DEF x, y, z
  <2>8. /\ UnderWay(p, side).peer = x /\ UnderWay(p, side).app = y
        /\ UnderWay(q, side).peer = z /\ UnderWay(q, side).app = wa
    BY <2>7
  <2> QED
    BY <2>8 DEF x, y, z
<1> HIDE DEF a, b, wp, wa
<1>13. d[1] = "peer" =>
            /\ UnderWay(p, side).peer # <<>> /\ Head(UnderWay(p, side).peer) = d
            /\ Tail(UnderWay(p, side).peer) = UnderWay(q, side).peer
  <2>1. /\ (<<d>> \o wp) \o a \o b # <<>>
        /\ Head((<<d>> \o wp) \o a \o b) = d
        /\ Tail((<<d>> \o wp) \o a \o b) = wp \o a \o b
    <3> DEFINE r == wp \o a \o b
    <3>1. r \in Seq(Data) /\ (<<d>> \o wp) \o a \o b = <<d>> \o r
      BY <1>2, <1>11
    <3> HIDE DEF r
    <3>2. <<d>> \o r # <<>> /\ Head(<<d>> \o r) = d /\ Tail(<<d>> \o r) = r
      BY <1>2, <3>1
    <3> QED
      BY <3>1, <3>2 DEF r
  <2>2. d[1] = "peer" => UnderWay(p, side).peer = (<<d>> \o wp) \o a \o b
    BY <1>12
  <2> QED
    BY <1>12, <2>1, <2>2, Zenon
<1>14. d[1] = "app" =>
            /\ UnderWay(p, side).app # <<>> /\ Head(UnderWay(p, side).app) = d
            /\ Tail(UnderWay(p, side).app) = UnderWay(q, side).app
  <2>1. <<d>> \o wa # <<>> /\ Head(<<d>> \o wa) = d /\ Tail(<<d>> \o wa) = wa
    BY <1>2, <1>11
  <2> QED
    BY <1>12, <2>1
<1>15. /\ d[1] # "peer" => UnderWay(p, side).peer = UnderWay(q, side).peer
       /\ d[1] # "app" => UnderWay(p, side).app = UnderWay(q, side).app
  BY <1>12
<1>16. Receives(p, q, side, d)
  BY <1>9, <1>13, <1>14, <1>15 DEF Receives
<1> QED
  BY <1>2, <1>3, <1>8, <1>16 DEF Moves, p, q, d

(* The application sends: to both sides of every link, but for the remote  *)
(* sides that are not connected any more.                                  *)
Missing == {link \in ListedLinks : pairs[link].remote.state = "Unconnected"}

SentTo(p, q, side, d) ==
    /\ UnderWay(q, side).app = Append(UnderWay(p, side).app, d)
    /\ UnderWay(q, side).peer = UnderWay(p, side).peer

LEMMA WrittenUnderWay ==
  ASSUME NEW p, NEW q, NEW side \in Sides, NEW d \in Data, d[1] = "app",
         p[side].written \in Seq(Data),
         q[side].written = p[side].written \o <<d>>,
         q[Other(side)].available = p[Other(side)].available,
         q[Other(side)].wire = p[Other(side)].wire
  PROVE  SentTo(p, q, side, d)
<1> DEFINE w == p[side].written
           a == p[Other(side)].available
           b == p[Other(side)].wire
<1>1. w \o <<d>> = Append(w, d)
  OBVIOUS
<1>2. /\ From(Append(w, d), "app") = Append(From(w, "app"), d)
      /\ From(Append(w, d), "peer") = From(w, "peer")
  <2>1. \A source : From(Append(w, d), source) =
            IF d[1] = source THEN Append(From(w, source), d) ELSE From(w, source)
    <3> TAKE source
    <3> QED
      BY FromAppend
  <2> HIDE DEF w
  <2> QED
    BY <2>1
<1> HIDE DEF w
<1>3. /\ UnderWay(p, side) = [peer |-> From(w, "peer") \o a \o b, app |-> From(w, "app")]
      /\ UnderWay(q, side) = [peer |-> From(w, "peer") \o a \o b,
                              app |-> Append(From(w, "app"), d)]
  BY <1>1, <1>2 DEF UnderWay, w
<1> DEFINE x == From(w, "peer") \o a \o b
           y == From(w, "app")
           z == Append(y, d)
<1>4. /\ UnderWay(p, side) = [peer |-> x, app |-> y]
      /\ UnderWay(q, side) = [peer |-> x, app |-> z]
  BY <1>3
<1> HIDE DEF x, y, z
<1>5. /\ UnderWay(p, side).peer = x /\ UnderWay(p, side).app = y
      /\ UnderWay(q, side).peer = x /\ UnderWay(q, side).app = z
  BY <1>4
<1> QED
  BY <1>5 DEF SentTo, z

LEMMA WriteLeaves ==
  ASSUME NEW socket \in Socket, NEW data
  PROVE  LET after == Write(socket, data)
         IN  /\ after.state = socket.state /\ after.open = socket.open
             /\ after.wire = socket.wire /\ after.available = socket.available
             /\ after.written = IF socket.state = "Unconnected" THEN socket.written
                                ELSE socket.written \o data
BY DEF Write, Socket

LEMMA WrittenToPair ==
  ASSUME NEW p \in Pair, Traffic(p), PairFits(p), p.stage = "Listed",
         NEW d \in AppData, NEW q,
         q = [p EXCEPT !.client = Write(@, <<d>>), !.remote = Write(@, <<d>>)]
  PROVE  /\ Traffic(q) /\ PhaseOf(q) = PhaseOf(p)
         /\ SentTo(p, q, "client", d)
         /\ IF p.remote.state = "Unconnected"
            THEN UnderWay(q, "remote") = UnderWay(p, "remote")
            ELSE SentTo(p, q, "remote", d)
<1> DEFINE one == <<d>>
<1>1. /\ d \in Data /\ d[1] = "app" /\ one \in Seq(AppData) /\ one = <<d>>
  BY PeerDataIsData DEF AppData
<1>2. /\ p.client \in Socket /\ p.remote \in Socket
      /\ p.client.state = "Connected"
      /\ p["client"].written \in Seq(Data) /\ p["remote"].written \in Seq(Data)
  BY DEF Pair, Socket, PairFits
<1> DEFINE client == Write(p.client, one)
           remote == Write(p.remote, one)
<1>3. /\ client.state = p.client.state /\ client.open = p.client.open
      /\ client.wire = p.client.wire /\ client.available = p.client.available
      /\ client.written = p.client.written \o one
      /\ remote.state = p.remote.state /\ remote.open = p.remote.open
      /\ remote.wire = p.remote.wire /\ remote.available = p.remote.available
      /\ remote.written = IF p.remote.state = "Unconnected" THEN p.remote.written
                          ELSE p.remote.written \o one
  BY <1>2, WriteLeaves
<1>4. q = [p EXCEPT !.client = client, !.remote = remote]
  OBVIOUS
<1> HIDE DEF client, remote
<1>5. q.client = client /\ q.remote = remote /\ q.stage = p.stage
  BY <1>4 DEF Pair
<1> HIDE DEF one
<1>6. \A s \in Sides : /\ q[s].wire = p[s].wire /\ q[s].available = p[s].available
                       /\ q[s].state = p[s].state /\ q[s].open = p[s].open
  BY <1>3, <1>5 DEF Sides
<1>7. Traffic(q)
  <2>1. \A s \in Sides : /\ q[s].wire \in Seq(PeerData)
                         /\ q[s].available \in Seq(PeerData)
    BY <1>6 DEF Traffic
  <2>2. /\ q.remote.state = p.remote.state /\ q.remote.open = p.remote.open
        /\ q.remote.wire = p.remote.wire
    BY <1>3, <1>5
  <2>3. q.remote.state = "Connecting" => q.remote.written \in Seq(AppData)
    <3> SUFFICES ASSUME q.remote.state = "Connecting"
                 PROVE  q.remote.written \in Seq(AppData)
      OBVIOUS
    <3>1. p.remote.written \in Seq(AppData)
      BY <2>2 DEF Traffic
    <3>2. p.remote.written \o one \in Seq(AppData)
      BY <1>1, <3>1
    <3> QED
      BY <1>3, <1>5, <2>2, <3>2
  <2>4. q.stage = "Listed"
    BY <1>5
  <2>5. q.remote.state # "Connected" => ~q.remote.open /\ q.remote.wire = <<>>
    BY <2>2 DEF Traffic
  <2> QED
    BY <2>1, <2>3, <2>4, <2>5 DEF Traffic
<1>8. PhaseOf(q) = PhaseOf(p)
  BY <1>3, <1>5 DEF PhaseOf
<1>9. /\ "client" \in Sides /\ "remote" \in Sides
      /\ Other("client") = "remote" /\ Other("remote") = "client"
  BY DEF Sides, Other
<1>10. SentTo(p, q, "client", d)
  <2>1. q["client"].written = p["client"].written \o <<d>>
    BY <1>1, <1>3, <1>5
  <2> QED
    BY <1>1, <1>2, <1>6, <1>9, <2>1, WrittenUnderWay
<1>11. CASE p.remote.state = "Unconnected"
  <2>1. UnderWay(q, "remote") = UnderWay(p, "remote")
    BY <1>3, <1>5, <1>6, <1>9, <1>11 DEF UnderWay
  <2> QED
    BY <1>7, <1>8, <1>10, <1>11, <2>1
<1>12. CASE p.remote.state # "Unconnected"
  <2>1. q["remote"].written = p["remote"].written \o <<d>>
    BY <1>1, <1>3, <1>5, <1>12
  <2>2. SentTo(p, q, "remote", d)
    BY <1>1, <1>2, <1>6, <1>9, <2>1, WrittenUnderWay
  <2> QED
    BY <1>7, <1>8, <1>10, <1>12, <2>2
<1> QED
  BY <1>11, <1>12

LEMMA SendDataCarries ==
  ASSUME TInv, SendData
  PROVE  LET d == <<"app", sent.app>>
         IN  /\ d \in Data
             /\ \A link \in Links :
                LET p == pairs[link]
                    q == pairs'[link]
                IN  /\ Traffic(q) /\ PhaseOf(q) = PhaseOf(p)
                    /\ ~Listed(link) => q = p
                    /\ Listed(link) => SentTo(p, q, "client", d)
                    /\ Listed(link) =>
                        IF link \in Missing
                        THEN UnderWay(q, "remote") = UnderWay(p, "remote")
                        ELSE SentTo(p, q, "remote", d)
<1> DEFINE d == <<"app", sent.app>>
<1>1. d \in AppData /\ d \in Data
  <2>1. sent.app \in Nat /\ sent.app < load.app
    BY DEF SendData, TInv, IInv, Types
  <2>2. load.app \in 0..MaxData /\ MaxData \in Nat
    BY LoadsAssumption DEF TInv, IInv, Types
  <2>3. sent.app \in 0..MaxData
    BY <2>1, <2>2
  <2> QED
    BY <2>3 DEF AppData, Data
<1>2. \A link \in Links :
        pairs'[link] = IF Listed(link)
                       THEN [pairs[link] EXCEPT !.client = Write(@, <<d>>),
                                                !.remote = Write(@, <<d>>)]
                       ELSE pairs[link]
  BY DEF SendData
<1> HIDE DEF d
<1>3. ASSUME NEW link \in Links
      PROVE  LET p == pairs[link]
                 q == pairs'[link]
             IN  /\ Traffic(q) /\ PhaseOf(q) = PhaseOf(p)
                 /\ ~Listed(link) => q = p
                 /\ Listed(link) => SentTo(p, q, "client", d)
                 /\ Listed(link) =>
                     IF link \in Missing
                     THEN UnderWay(q, "remote") = UnderWay(p, "remote")
                     ELSE SentTo(p, q, "remote", d)
  <2> DEFINE p == pairs[link]
             q == pairs'[link]
  <2>1. p \in Pair /\ Traffic(p) /\ PairFits(p)
    BY LinkOfInv
  <2>2. CASE ~Listed(link)
    <3>1. q = p
      BY <1>2, <2>2
    <3> QED
      BY <2>1, <2>2, <3>1
  <2>3. CASE Listed(link)
    <3>1. q = [p EXCEPT !.client = Write(@, <<d>>), !.remote = Write(@, <<d>>)]
      BY <1>2, <2>3, Zenon
    <3>2. p.stage = "Listed"
      BY <2>3 DEF Listed
    <3>3. link \in Missing <=> p.remote.state = "Unconnected"
      BY <2>3 DEF Missing, ListedLinks
    <3> HIDE DEF p, q
    <3>4. /\ Traffic(q) /\ PhaseOf(q) = PhaseOf(p)
          /\ SentTo(p, q, "client", d)
          /\ IF p.remote.state = "Unconnected"
             THEN UnderWay(q, "remote") = UnderWay(p, "remote")
             ELSE SentTo(p, q, "remote", d)
      BY <1>1, <2>1, <3>1, <3>2, WrittenToPair
    <3> QED
      BY <2>3, <3>3, <3>4 DEF p, q
  <2> QED
    BY <2>2, <2>3
<1> QED
  BY <1>1, <1>3 DEF d

(* The proxy goes away: each listed link is dropped.                       *)
LEMMA UnloadCarries ==
  ASSUME TInv, Unload, NEW link \in Links
  PROVE  LET p == pairs[link]
             q == pairs'[link]
         IN  /\ Traffic(q)
             /\ ~Listed(link) => q = p
             /\ Listed(link) => /\ PhaseOf(q) = "Dropped"
                                /\ \A side \in Sides : LeavesPrefix(p, q, side)
<1> DEFINE p == pairs[link]
           q == pairs'[link]
<1>1. PICK left \in [ListedLinks -> [Sides -> AllLeft]] :
        /\ \A l \in ListedLinks, side \in Sides :
                left[l][side] \in Flushed(pairs[l][side])
        /\ pairs' = [l \in Links |->
                IF ~Listed(l) THEN pairs[l]
                ELSE [stage |-> "Dropped", readsClient |-> FALSE,
                      client |-> left[l]["client"], remote |-> left[l]["remote"]]]
  BY DEF Unload
<1>2. p \in Pair /\ Traffic(p) /\ p.client \in Socket /\ p.remote \in Socket
  BY LinkOfInv
<1>3. CASE ~Listed(link)
  <2>1. q = p
    BY <1>1, <1>3
  <2> QED
    BY <1>2, <1>3, <2>1
<1>4. CASE Listed(link)
  <2>1. q.stage = "Dropped" /\ q["client"] = left[link]["client"]
        /\ q["remote"] = left[link]["remote"]
    BY <1>1, <1>4
  <2>2. \A side \in Sides : q[side] \in Flushed(p[side])
    <3>1. link \in ListedLinks
      BY <1>4 DEF ListedLinks
    <3> QED
      BY <1>1, <2>1, <3>1 DEF Sides
  <2> HIDE DEF p, q
  <2>3. \A side \in Sides :
            /\ p[side] \in Socket /\ p[side].written \in Seq(Data)
            /\ q[side].wire = <<>> /\ q[side].available = <<>>
            /\ q[side].state = "Unconnected"
            /\ q[side].written \in Prefixes(p[side].written)
    <3> TAKE side \in Sides
    <3>1. p[side] \in Socket /\ p[side].written \in Seq(Data)
      BY <1>2, SideOfPair
    <3> QED
      BY <2>2, <3>1, FlushedLeaves
  <2>4. Traffic(q) /\ PhaseOf(q) = "Dropped"
    <3>1. q.remote.state = "Unconnected"
      BY <2>3 DEF Sides
    <3> QED
      BY <2>1, <2>3, <3>1, EndedTraffic
  <2>5. \A side \in Sides : LeavesPrefix(p, q, side)
    <3> TAKE side \in Sides
    <3>1. Other(side) \in Sides
      BY DEF Sides, Other
    <3> QED
      BY <1>2, <2>3, <3>1, EndingLeavesPrefix
  <2> QED
    BY <1>4, <2>4, <2>5 DEF p, q
<1> QED
  BY <1>3, <1>4

-----------------------------------------------------------------------------
(* The traffic is kept by every step.                                      *)

LEMMA InitTraffic == Init => TInv
<1> SUFFICES ASSUME Init PROVE TInv
  OBVIOUS
<1> DEFINE pair == [stage |-> "None", readsClient |-> FALSE,
                    client |-> SocketIn("Unconnected"),
                    remote |-> SocketIn("Unconnected")]
<1>1. /\ SocketIn("Unconnected").wire = <<>> /\ SocketIn("Unconnected").available = <<>>
      /\ SocketIn("Unconnected").written = <<>>
      /\ SocketIn("Unconnected").state = "Unconnected"
  BY DEF SocketIn
<1>2. /\ pair.stage = "None" /\ pair.remote.state = "Unconnected"
      /\ \A side \in Sides : /\ pair[side].wire = <<>> /\ pair[side].available = <<>>
                             /\ pair[side].written = <<>>
  BY <1>1 DEF Sides
<1>3. Traffic(pair)
  <2> HIDE DEF pair
  <2>1. <<>> \in Seq(PeerData)
    OBVIOUS
  <2> QED
    BY <1>2, <2>1 DEF Traffic
<1>4. pairs = [link \in Links |-> pair]
  BY DEF Init
<1>5. AllTraffic
  <2> HIDE DEF pair
  <2> QED
    BY <1>3, <1>4 DEF AllTraffic
<1>6. Arrivals
  <2>1. <<>> \in Seq(Data)
    OBVIOUS
  <2> QED
    BY <2>1 DEF Init, Arrivals
<1> QED
  BY <1>5, <1>6, InitFits DEF TInv

LEMMA MovesKeeps ==
  ASSUME TInv, NEW link \in Links, NEW from, NEW to, Moves(link, from, to)
  PROVE  AllTraffic'
BY DEF TInv, AllTraffic, Moves, Only

LEMMA ArrivalKeeps ==
  ASSUME TInv, NEW link \in Links, NEW side \in Sides, PeerReceives(link, side)
  PROVE  Arrivals'
<1> DEFINE d == Head(pairs[link][side].written)
<1>1. d \in Data
  BY PeerReceivesCarries
<1>2. arrived' = [arrived EXCEPT ![link][side] = Append(@, d)]
  BY DEF PeerReceives
<1> HIDE DEF d
<1>3. arrived \in [Links -> [Sides -> Seq(Data)]]
  BY DEF TInv, Arrivals
<1>4. Append(arrived[link][side], d) \in Seq(Data)
  BY <1>1, <1>3
<1> QED
  BY <1>2, <1>3, <1>4 DEF Arrivals

LEMMA NextTraffic == TInv /\ [Next]_vars => TInv'
<1> SUFFICES ASSUME TInv, [Next]_vars PROVE TInv'
  OBVIOUS
<1>1. IInv'
  BY NextKeeps DEF TInv
<1>2. CASE UNCHANGED <<pairs, arrived>>
  BY <1>1, <1>2 DEF TInv, AllTraffic, Arrivals
<1>3. CASE Start \/ Connect \/ Disconnect \/ Stop \/ DialogClosed \/ UNCHANGED vars
  BY <1>2, <1>3 DEF Start, Connect, Disconnect, Stop, DialogClosed, vars
<1>4. CASE SendData
  <2>1. AllTraffic'
    BY <1>4, SendDataCarries DEF AllTraffic
  <2>2. UNCHANGED arrived
    BY <1>4 DEF SendData
  <2> QED
    BY <1>1, <2>1, <2>2 DEF TInv, Arrivals
<1>5. CASE Unload
  <2>1. AllTraffic'
    BY <1>5, UnloadCarries DEF AllTraffic
  <2>2. UNCHANGED arrived
    BY <1>5 DEF Unload
  <2> QED
    BY <1>1, <2>1, <2>2 DEF TInv, Arrivals
<1>6. ASSUME NEW link \in Links,
             \/ NewConnection(link) \/ ConnectionSocketConnected(link)
             \/ ConnectionFails(link)
             \/ ClientConnectionTerminated(link) \/ ConnectionSocketDisconnected(link)
      PROVE  TInv'
  <2>1. \E from, to : Moves(link, from, to)
    BY <1>6, NewConnectionCarries, ConnectedCarries, FailsCarries, ByClientCarries,
       ByRemoteCarries DEF EndsAs
  <2>2. UNCHANGED arrived
    BY <1>6 DEF NewConnection, ConnectionSocketConnected, ConnectionFails,
                ClientConnectionTerminated, ConnectionSocketDisconnected
  <2> QED
    BY <1>1, <2>1, <2>2, MovesKeeps DEF TInv, Arrivals
<1>7. ASSUME NEW link \in Links, NEW side \in Sides,
             \/ ReadyRead(link, side) \/ ConnectionBreaks(link, side)
             \/ PeerSends(link, side) \/ PeerCloses(link, side)
      PROVE  TInv'
  <2>1. \E from, to : Moves(link, from, to)
    BY <1>7, ReadyReadCarries, BreaksCarries, PeerSendsCarries, ClosesCarries
  <2>2. UNCHANGED arrived
    BY <1>7 DEF ReadyRead, ConnectionBreaks, PeerSends, PeerCloses
  <2> QED
    BY <1>1, <2>1, <2>2, MovesKeeps DEF TInv, Arrivals
<1>8. ASSUME NEW link \in Links, NEW side \in Sides, PeerReceives(link, side)
      PROVE  TInv'
  <2>1. \E from, to : Moves(link, from, to)
    BY <1>8, PeerReceivesCarries
  <2> QED
    BY <1>1, <1>8, <2>1, MovesKeeps, ArrivalKeeps DEF TInv
<1> QED
  BY <1>3, <1>4, <1>5, <1>6, <1>7, <1>8 DEF Next

-----------------------------------------------------------------------------
(* The variables of Relay, and what a step makes of them.                  *)

Way == [peer : Seq(Data), app : Seq(Data)]

LEMMA WayTyped ==
  TInv => /\ UnderWayOfLinks \in [Links -> [Sides -> Way]]
          /\ ArrivedOfLinks \in [Links -> [Sides -> Way]]
<1> SUFFICES ASSUME TInv
             PROVE  /\ UnderWayOfLinks \in [Links -> [Sides -> Way]]
                    /\ ArrivedOfLinks \in [Links -> [Sides -> Way]]
  OBVIOUS
<1>1. ASSUME NEW link \in Links, NEW side \in Sides
      PROVE  UnderWay(pairs[link], side) \in Way
  <2> DEFINE a == pairs[link][Other(side)].available
             b == pairs[link][Other(side)].wire
             w == pairs[link][side].written
  <2>1. a \in Seq(Data) /\ b \in Seq(Data) /\ w \in Seq(Data)
    BY LinkOfInv, SideOfPair, PeerDataIsData DEF Traffic
  <2>2. UnderWay(pairs[link], side) = [peer |-> From(w, "peer") \o a \o b,
                                       app  |-> From(w, "app")]
    BY DEF UnderWay
  <2> HIDE DEF a, b, w
  <2>3. From(w, "peer") \in Seq(Data) /\ From(w, "app") \in Seq(Data)
    BY <2>1, FromTyped
  <2>4. From(w, "peer") \o a \o b \in Seq(Data)
    BY <2>1, <2>3
  <2> QED
    BY <2>2, <2>3, <2>4 DEF Way
<1>2. ASSUME NEW link \in Links, NEW side \in Sides
      PROVE  BySource(arrived[link][side]) \in Way
  <2>1. arrived[link][side] \in Seq(Data)
    BY DEF TInv, Arrivals
  <2>2. /\ From(arrived[link][side], "peer") \in Seq(Data)
        /\ From(arrived[link][side], "app") \in Seq(Data)
    BY <2>1, FromTyped
  <2> QED
    BY <2>2 DEF BySource, Way
<1> QED
  BY <1>1, <1>2 DEF UnderWayOfLinks, ArrivedOfLinks

LEMMA WayTypedNext ==
  TInv' => /\ UnderWayOfLinks' \in [Links -> [Sides -> Way]]
           /\ ArrivedOfLinks' \in [Links -> [Sides -> Way]]
<1>1. (/\ UnderWayOfLinks \in [Links -> [Sides -> Way]]
       /\ ArrivedOfLinks \in [Links -> [Sides -> Way]])'
      <=> /\ UnderWayOfLinks' \in [Links -> [Sides -> Way]]
          /\ ArrivedOfLinks' \in [Links -> [Sides -> Way]]
  OBVIOUS
<1> QED
  BY <1>1, WayTyped, PTL

(* One sequence of all changes.                                            *)
Becomes(U, V, link, side, source, x) == V = [U EXCEPT ![link][side][source] = x]

LEMMA OneSource ==
  ASSUME NEW U \in [Links -> [Sides -> Way]], NEW V \in [Links -> [Sides -> Way]],
         NEW link \in Links, NEW side \in Sides, NEW source \in {"peer", "app"},
         \A l \in Links \ {link} : V[l] = U[l],
         V[link][Other(side)] = U[link][Other(side)],
         \A o \in {"peer", "app"} : o # source => V[link][side][o] = U[link][side][o]
  PROVE  Becomes(U, V, link, side, source, V[link][side][source])
<1> DEFINE x == V[link][side][source]
           W == [U EXCEPT ![link][side][source] = x]
<1>1. /\ U[link] \in [Sides -> Way] /\ V[link] \in [Sides -> Way]
      /\ U[link][side] \in Way /\ V[link][side] \in Way
  OBVIOUS
<1>2. V[link][side] = [U[link][side] EXCEPT ![source] = x]
  <2>1. CASE source = "peer"
    <3>1. V[link][side].app = U[link][side].app
      BY <2>1
    <3> QED
      BY <1>1, <2>1, <3>1 DEF Way
  <2>2. CASE source = "app"
    <3>1. V[link][side].peer = U[link][side].peer
      BY <2>2
    <3> QED
      BY <1>1, <2>2, <3>1 DEF Way
  <2> QED
    BY <2>1, <2>2
<1> HIDE DEF x
<1> DEFINE y == [U[link][side] EXCEPT ![source] = x]
           z == [U[link] EXCEPT ![side] = y]
<1>3. V[link] = z
  <2>1. \A s \in Sides : s = side \/ s = Other(side)
    BY DEF Sides, Other
  <2>2. Other(side) # side
    BY DEF Sides, Other
  <2> HIDE DEF y
  <2> QED
    BY <1>1, <1>2, <2>1, <2>2 DEF y
<1>4. V = [U EXCEPT ![link] = z]
  <2> HIDE DEF z
  <2> QED
    BY <1>3
<1>5. V = W
  BY <1>4
<1> QED
  BY <1>5 DEF x, Becomes

LEMMA PhaseMoves ==
  ASSUME NEW link \in Links, NEW from, NEW to, Moves(link, from, to)
  PROVE  /\ PhaseOfLinks[link] = from
         /\ PhaseOfLinks' = [PhaseOfLinks EXCEPT ![link] = to]
<1>1. \A l \in Links : PhaseOf(pairs'[l]) = IF l = link THEN to ELSE PhaseOf(pairs[l])
  BY DEF Moves, Only
<1>2. PhaseOf(pairs[link]) = from
  BY DEF Moves
<1> QED
  BY <1>1, <1>2 DEF PhaseOfLinks

LEMMA PhaseStays ==
  ASSUME NEW link \in Links, NEW from, Moves(link, from, from)
  PROVE  PhaseOfLinks' = PhaseOfLinks
<1>1. \A l \in Links : PhaseOf(pairs'[l]) = PhaseOf(pairs[l])
  BY DEF Moves, Only
<1> QED
  BY <1>1 DEF PhaseOfLinks

LEMMA OthersWay ==
  ASSUME NEW link \in Links, Only(link)
  PROVE  \A l \in Links \ {link} : UnderWayOfLinks'[l] = UnderWayOfLinks[l]
<1> TAKE l \in Links \ {link}
<1>1. pairs'[l] = pairs[l]
  BY DEF Only
<1> QED
  BY <1>1 DEF UnderWayOfLinks

LEMMA WayAt ==
  ASSUME NEW link \in Links, NEW side \in Sides
  PROVE  /\ UnderWayOfLinks[link][side] = UnderWay(pairs[link], side)
         /\ UnderWayOfLinks'[link][side] = UnderWay(pairs'[link], side)
BY DEF UnderWayOfLinks

LEMMA CarriedOn ==
  ASSUME NEW link \in Links, Only(link), Carries(pairs[link], pairs'[link])
  PROVE  UnderWayOfLinks' = UnderWayOfLinks
<1>1. ASSUME NEW l \in Links, NEW s \in Sides
      PROVE  UnderWay(pairs'[l], s) = UnderWay(pairs[l], s)
  BY DEF Only, Carries
<1> QED
  BY <1>1 DEF UnderWayOfLinks

LEMMA NothingArrives ==
  ASSUME UNCHANGED arrived
  PROVE  ArrivedOfLinks' = ArrivedOfLinks
BY DEF ArrivedOfLinks

-----------------------------------------------------------------------------
(* The steps of the proxy as steps of Relay.                               *)

LEMMA RelayConstants ==
  /\ Promise!Sides = Sides /\ Promise!Sources = {"peer", "app"}
  /\ \A side : Promise!Other(side) = Other(side)
BY DEF Promise!Sides, Sides, Promise!Sources, Promise!Other, Other

LEMMA RelayPrefix ==
  ASSUME NEW s, NEW t, IsPrefix(s, t)
  PROVE  Promise!IsPrefix(s, t)
BY DEF IsPrefix, Promise!IsPrefix

LEMMA SelfPrefix ==
  ASSUME NEW S, NEW s \in Seq(S)
  PROVE  IsPrefix(s, s)
BY DEF IsPrefix

LEMMA InitRelays == Init => Promise!RelayInit
<1> SUFFICES ASSUME Init PROVE Promise!RelayInit
  OBVIOUS
<1> DEFINE none == SocketIn("Unconnected")
<1>1. none.wire = <<>> /\ none.available = <<>> /\ none.written = <<>>
  BY DEF SocketIn
<1> HIDE DEF none
<1>2. ASSUME NEW link \in Links
      PROVE  /\ pairs[link].stage = "None"
             /\ \A side \in Sides : /\ pairs[link][side].wire = <<>>
                                    /\ pairs[link][side].available = <<>>
                                    /\ pairs[link][side].written = <<>>
             /\ \A side \in Sides : arrived[link][side] = <<>>
  <2>1. /\ pairs[link] = [stage |-> "None", readsClient |-> FALSE,
                          client |-> none, remote |-> none]
        /\ arrived[link] = [side \in Sides |-> <<>>]
    BY DEF Init, none
  <2> QED
    BY <1>1, <2>1 DEF Sides
<1>3. /\ From(<<>>, "peer") = <<>> /\ From(<<>>, "app") = <<>>
      /\ <<>> \o <<>> \o <<>> = <<>>
  <2>1. From(<<>>, "peer") = <<>> /\ From(<<>>, "app") = <<>>
    BY FromEmpty
  <2> QED
    BY <2>1
<1> DEFINE empty == [source \in {"peer", "app"} |-> <<>>]
<1>4. [peer |-> <<>>, app |-> <<>>] = empty
  OBVIOUS
<1>5. ASSUME NEW link \in Links, NEW side \in Sides
      PROVE  /\ PhaseOf(pairs[link]) = "None"
             /\ UnderWay(pairs[link], side) = empty
             /\ BySource(arrived[link][side]) = empty
  <2>1. PhaseOf(pairs[link]) = "None"
    BY <1>2 DEF PhaseOf
  <2>2. Other(side) \in Sides
    BY DEF Sides, Other
  <2>3. UnderWay(pairs[link], side) = [peer |-> <<>>, app |-> <<>>]
    BY <1>2, <1>3, <2>2 DEF UnderWay
  <2>4. BySource(arrived[link][side]) = [peer |-> <<>>, app |-> <<>>]
    BY <1>2, <1>3 DEF BySource
  <2> QED
    BY <1>4, <2>1, <2>3, <2>4
<1> HIDE DEF empty
<1>6. "client" \in Sides
  BY DEF Sides
<1>7. Promise!Everywhere(<<>>) = [link \in Links |-> [side \in Sides |-> empty]]
  BY RelayConstants DEF Promise!Everywhere, empty
<1>8. PhaseOfLinks = [link \in Links |-> "None"]
  BY <1>5, <1>6 DEF PhaseOfLinks
<1>9. /\ UnderWayOfLinks = [link \in Links |-> [side \in Sides |-> empty]]
      /\ ArrivedOfLinks = [link \in Links |-> [side \in Sides |-> empty]]
  BY <1>5 DEF UnderWayOfLinks, ArrivedOfLinks
<1> QED
  BY <1>7, <1>8, <1>9 DEF Promise!RelayInit

LEMMA NewConnectionRelays ==
  ASSUME TInv, NEW link \in Links, NewConnection(link)
  PROVE  Promise!Accept(link)
<1>1. Moves(link, "None", "Open") /\ Carries(pairs[link], pairs'[link])
  BY NewConnectionCarries
<1>2. /\ PhaseOfLinks[link] = "None"
      /\ PhaseOfLinks' = [PhaseOfLinks EXCEPT ![link] = "Open"]
  BY <1>1, PhaseMoves
<1>3. UnderWayOfLinks' = UnderWayOfLinks
  BY <1>1, CarriedOn DEF Moves
<1>4. ArrivedOfLinks' = ArrivedOfLinks
  BY NothingArrives DEF NewConnection
<1> QED
  BY <1>2, <1>3, <1>4 DEF Promise!Accept, Promise!Advance

LEMMA ConnectedRelays ==
  ASSUME TInv, NEW link \in Links, ConnectionSocketConnected(link)
  PROVE  Promise!Establish(link)
<1>1. Moves(link, "Open", "Established") /\ Carries(pairs[link], pairs'[link])
  BY ConnectedCarries
<1>2. /\ PhaseOfLinks[link] = "Open"
      /\ PhaseOfLinks' = [PhaseOfLinks EXCEPT ![link] = "Established"]
  BY <1>1, PhaseMoves
<1>3. UnderWayOfLinks' = UnderWayOfLinks
  BY <1>1, CarriedOn DEF Moves
<1>4. ArrivedOfLinks' = ArrivedOfLinks
  BY NothingArrives DEF ConnectionSocketConnected
<1> QED
  BY <1>2, <1>3, <1>4 DEF Promise!Establish, Promise!Advance

(* A remote side that cannot be reached misses what waited for it.         *)
LEMMA FailsRelays ==
  ASSUME TInv, TInv', NEW link \in Links, ConnectionFails(link)
  PROVE  Promise!Refused(link)
<1> DEFINE p == pairs[link]
           q == pairs'[link]
<1>1. /\ Moves(link, "Open", "Open")
      /\ UnderWay(q, "client") = UnderWay(p, "client")
      /\ UnderWay(q, "remote") = [UnderWay(p, "remote") EXCEPT !.app = <<>>]
  BY FailsCarries
<1>2. /\ PhaseOfLinks[link] = "Open" /\ PhaseOfLinks' = PhaseOfLinks
  BY <1>1, PhaseMoves, PhaseStays
<1>3. ArrivedOfLinks' = ArrivedOfLinks
  BY NothingArrives DEF ConnectionFails
<1>4. /\ "client" \in Sides /\ "remote" \in Sides /\ Other("remote") = "client"
  BY DEF Sides, Other
<1>5. /\ UnderWayOfLinks \in [Links -> [Sides -> Way]]
      /\ UnderWayOfLinks' \in [Links -> [Sides -> Way]]
  BY WayTyped, WayTypedNext
<1>6. \A l \in Links \ {link} : UnderWayOfLinks'[l] = UnderWayOfLinks[l]
  BY <1>1, OthersWay DEF Moves
<1>7. /\ UnderWayOfLinks[link]["client"] = UnderWay(p, "client")
      /\ UnderWayOfLinks'[link]["client"] = UnderWay(q, "client")
      /\ UnderWayOfLinks[link]["remote"] = UnderWay(p, "remote")
      /\ UnderWayOfLinks'[link]["remote"] = UnderWay(q, "remote")
  BY <1>4, WayAt
<1>8. UnderWay(p, "remote") \in Way
  BY <1>4, <1>5, <1>7
<1>9. /\ UnderWay(q, "remote")["app"] = <<>>
      /\ UnderWay(q, "remote")["peer"] = UnderWay(p, "remote")["peer"]
  BY <1>1, <1>8 DEF Way
<1> HIDE DEF p, q
<1> DEFINE U == UnderWayOfLinks
           V == UnderWayOfLinks'
<1>10. V = [U EXCEPT ![link]["remote"]["app"] = V[link]["remote"]["app"]]
  <2>1. V[link][Other("remote")] = U[link][Other("remote")]
    BY <1>1, <1>4, <1>7 DEF p, q
  <2>2. \A o \in {"peer", "app"} : o # "app" => V[link]["remote"][o] = U[link]["remote"][o]
    BY <1>7, <1>9
  <2>3. /\ U \in [Links -> [Sides -> Way]] /\ V \in [Links -> [Sides -> Way]]
        /\ \A l \in Links \ {link} : V[l] = U[l]
    BY <1>5, <1>6
  <2> HIDE DEF U, V
  <2>4. Becomes(U, V, link, "remote", "app", V[link]["remote"]["app"])
    BY <1>4, <2>1, <2>2, <2>3, OneSource
  <2> QED
    BY <2>4 DEF Becomes
<1>11. V[link]["remote"]["app"] = <<>>
  BY <1>7, <1>9
<1>12. UnderWayOfLinks' = [UnderWayOfLinks EXCEPT ![link]["remote"]["app"] = <<>>]
  BY <1>10, <1>11
<1> QED
  BY <1>2, <1>3, <1>12 DEF Promise!Refused

LEMMA PeerSendsRelays ==
  ASSUME TInv, TInv', NEW link \in Links, NEW side \in Sides, PeerSends(link, side)
  PROVE  \E data \in Data : Promise!PeerSends(link, Other(side), data)
<1> DEFINE p == pairs[link]
           q == pairs'[link]
           d == <<"peer", sent[side][link]>>
           to == Other(side)
<1>1. /\ Moves(link, PhaseOf(p), PhaseOf(p))
      /\ PhaseOf(p) \in {"Open", "Established"} /\ d \in Data
      /\ UnderWay(q, side) = UnderWay(p, side)
      /\ UnderWay(q, to).peer = Append(UnderWay(p, to).peer, d)
      /\ UnderWay(q, to).app = UnderWay(p, to).app
  BY PeerSendsCarries
<1>2. /\ PhaseOfLinks[link] \in {"Open", "Established"}
      /\ PhaseOfLinks' = PhaseOfLinks
  BY <1>1, PhaseMoves, PhaseStays
<1>3. ArrivedOfLinks' = ArrivedOfLinks
  BY NothingArrives DEF PeerSends
<1>4. to \in Sides /\ Other(to) = side
  BY DEF Sides, Other
<1>5. /\ UnderWayOfLinks \in [Links -> [Sides -> Way]]
      /\ UnderWayOfLinks' \in [Links -> [Sides -> Way]]
  BY WayTyped, WayTypedNext
<1>6. \A l \in Links \ {link} : UnderWayOfLinks'[l] = UnderWayOfLinks[l]
  BY <1>1, OthersWay DEF Moves
<1>7. \A s \in Sides : /\ UnderWayOfLinks[link][s] = UnderWay(p, s)
                       /\ UnderWayOfLinks'[link][s] = UnderWay(q, s)
  BY WayAt
<1> HIDE DEF p, q, d, to
<1> DEFINE U == UnderWayOfLinks
           V == UnderWayOfLinks'
<1>8. /\ V[link][Other(to)] = U[link][Other(to)]
      /\ V[link][to]["peer"] = Append(U[link][to]["peer"], d)
      /\ V[link][to]["app"] = U[link][to]["app"]
  BY <1>1, <1>4, <1>7
<1>9. V = [U EXCEPT ![link][to]["peer"] = V[link][to]["peer"]]
  <2>1. \A o \in {"peer", "app"} : o # "peer" => V[link][to][o] = U[link][to][o]
    BY <1>8
  <2>2. /\ U \in [Links -> [Sides -> Way]] /\ V \in [Links -> [Sides -> Way]]
        /\ \A l \in Links \ {link} : V[l] = U[l]
        /\ V[link][Other(to)] = U[link][Other(to)]
    BY <1>5, <1>6, <1>8
  <2> HIDE DEF U, V
  <2>3. Becomes(U, V, link, to, "peer", V[link][to]["peer"])
    BY <1>4, <2>1, <2>2, OneSource
  <2> QED
    BY <2>3 DEF Becomes
<1>10. UnderWayOfLinks' = [UnderWayOfLinks EXCEPT ![link][to]["peer"] = Append(@, d)]
  BY <1>8, <1>9
<1>11. Promise!PeerSends(link, to, d)
  BY <1>2, <1>3, <1>10 DEF Promise!PeerSends, Promise!IsOpen
<1> QED
  BY <1>1, <1>11 DEF to

(* What a peer receives is the first datum under way from its source.      *)
LEMMA PeerReceivesRelays ==
  ASSUME TInv, TInv', NEW link \in Links, NEW side \in Sides, PeerReceives(link, side)
  PROVE  \E source \in {"peer", "app"} : Promise!Arrives(link, side, source)
<1> DEFINE p == pairs[link]
           q == pairs'[link]
           d == Head(p[side].written)
           s == d[1]
<1>1. Moves(link, PhaseOf(p), PhaseOf(p)) /\ d \in Data /\ Receives(p, q, side, d)
  BY PeerReceivesCarries
<1>2. s \in {"peer", "app"}
  BY <1>1 DEF Data
<1>3. PhaseOfLinks' = PhaseOfLinks
  BY <1>1, PhaseStays
<1>4. Other(side) \in Sides /\ Other(Other(side)) = side
  BY DEF Sides, Other
<1>5. /\ UnderWayOfLinks \in [Links -> [Sides -> Way]]
      /\ UnderWayOfLinks' \in [Links -> [Sides -> Way]]
      /\ ArrivedOfLinks \in [Links -> [Sides -> Way]]
      /\ ArrivedOfLinks' \in [Links -> [Sides -> Way]]
  BY WayTyped, WayTypedNext
<1>6. \A l \in Links \ {link} : UnderWayOfLinks'[l] = UnderWayOfLinks[l]
  BY <1>1, OthersWay DEF Moves
<1>7. \A x \in Sides : /\ UnderWayOfLinks[link][x] = UnderWay(p, x)
                       /\ UnderWayOfLinks'[link][x] = UnderWay(q, x)
  BY WayAt
<1>8. /\ arrived' = [arrived EXCEPT ![link][side] = Append(@, d)]
      /\ arrived \in [Links -> [Sides -> Seq(Data)]]
  BY DEF PeerReceives, TInv, Arrivals
<1> HIDE DEF p, q, d
<1> DEFINE U == UnderWayOfLinks
           V == UnderWayOfLinks'
           A == ArrivedOfLinks
           B == ArrivedOfLinks'
<1>9. /\ V[link][Other(side)] = U[link][Other(side)]
      /\ U[link][side][s] # <<>> /\ Head(U[link][side][s]) = d
      /\ V[link][side][s] = Tail(U[link][side][s])
      /\ \A o \in {"peer", "app"} : o # s => V[link][side][o] = U[link][side][o]
  <2>1. /\ U[link][side] = UnderWay(p, side) /\ V[link][side] = UnderWay(q, side)
        /\ V[link][Other(side)] = U[link][Other(side)]
    BY <1>1, <1>4, <1>7 DEF Receives
  <2> HIDE DEF U, V
  <2>2. \A o \in {"peer", "app"} :
            IF s = o
            THEN /\ UnderWay(p, side)[o] # <<>>
                 /\ Head(UnderWay(p, side)[o]) = d
                 /\ Tail(UnderWay(p, side)[o]) = UnderWay(q, side)[o]
            ELSE UnderWay(q, side)[o] = UnderWay(p, side)[o]
    BY <1>1 DEF Receives
  <2> HIDE DEF s
  <2> QED
    BY <1>2, <2>1, <2>2
<1>10. /\ \A l \in Links \ {link} : B[l] = A[l]
       /\ B[link][Other(side)] = A[link][Other(side)]
       /\ B[link][side] = BySource(Append(arrived[link][side], d))
       /\ A[link][side] = BySource(arrived[link][side])
  <2>1. \A l \in Links, x \in Sides :
            arrived'[l][x] = IF l = link /\ x = side THEN Append(arrived[l][x], d)
                             ELSE arrived[l][x]
    BY <1>8
  <2>2. \A l \in Links \ {link} : B[l] = A[l]
    BY <2>1 DEF ArrivedOfLinks
  <2>3. Other(side) # side
    BY DEF Sides, Other
  <2> QED
    BY <1>4, <2>1, <2>2, <2>3 DEF ArrivedOfLinks
<1>11. /\ B[link][side][s] = Append(A[link][side][s], d)
       /\ \A o \in {"peer", "app"} : o # s => B[link][side][o] = A[link][side][o]
  <2> DEFINE a == arrived[link][side]
  <2>1. a \in Seq(Data)
    BY <1>8
  <2> HIDE DEF A, B, a
  <2>2. \A o \in {"peer", "app"} :
            From(Append(a, d), o) = IF d[1] = o THEN Append(From(a, o), d) ELSE From(a, o)
    <3> TAKE o \in {"peer", "app"}
    <3> QED
      BY <1>1, <2>1, FromAppend
  <2>3. \A o \in {"peer", "app"} : /\ BySource(a)[o] = From(a, o)
                                   /\ BySource(Append(a, d))[o] = From(Append(a, d), o)
    BY DEF BySource
  <2>4. B[link][side] = BySource(Append(a, d)) /\ A[link][side] = BySource(a)
    BY <1>10 DEF a
  <2> QED
    BY <1>2, <2>2, <2>3, <2>4
<1> HIDE DEF s
<1>12. V = [U EXCEPT ![link][side][s] = Tail(U[link][side][s])]
  <2>1. /\ U \in [Links -> [Sides -> Way]] /\ V \in [Links -> [Sides -> Way]]
        /\ \A l \in Links \ {link} : V[l] = U[l]
    BY <1>5, <1>6
  <2> HIDE DEF U, V
  <2>2. Becomes(U, V, link, side, s, V[link][side][s])
    BY <1>2, <1>9, <2>1, OneSource
  <2> QED
    BY <1>9, <2>2 DEF Becomes
<1>13. B = [A EXCEPT ![link][side][s] = Append(A[link][side][s], d)]
  <2>1. A \in [Links -> [Sides -> Way]] /\ B \in [Links -> [Sides -> Way]]
    BY <1>5
  <2> HIDE DEF A, B
  <2>2. Becomes(A, B, link, side, s, B[link][side][s])
    BY <1>2, <1>10, <1>11, <2>1, OneSource
  <2> QED
    BY <1>11, <2>2 DEF Becomes
<1>14. Promise!Arrives(link, side, s)
  <2>1. B = [A EXCEPT ![link][side][s] =
                Append(A[link][side][s], Head(U[link][side][s]))]
    BY <1>9, <1>13
  <2>2. U[link][side][s] # <<>>
    BY <1>9
  <2> QED
    BY <1>3, <1>12, <2>1, <2>2 DEF Promise!Arrives
<1> QED
  BY <1>2, <1>14

(* A link that ends loses what Relay says it may.                          *)
LEMMA EndsRelays ==
  ASSUME TInv, TInv', NEW link \in Links, NEW side \in Sides,
         NEW end \in {"ByClient", "ByRemote", "Dropped"},
         end \in {"Dropped", Promise!EndedBy(side)},
         EndsAs(link, side, end), UNCHANGED arrived
  PROVE  Promise!End(link, end)
<1> DEFINE p == pairs[link]
           q == pairs'[link]
<1>1. /\ Moves(link, PhaseOf(p), end) /\ PhaseOf(p) \in {"Open", "Established"}
      /\ \A s \in Sides : LeavesPrefix(p, q, s)
      /\ MayLose(p, q, side, end)
  BY DEF EndsAs
<1>2. /\ PhaseOfLinks[link] = PhaseOf(p)
      /\ PhaseOfLinks' = [PhaseOfLinks EXCEPT ![link] = end]
  BY <1>1, PhaseMoves
<1>3. ArrivedOfLinks' = ArrivedOfLinks
  BY NothingArrives
<1>4. \A l \in Links \ {link} : UnderWayOfLinks'[l] = UnderWayOfLinks[l]
  BY <1>1, OthersWay DEF Moves
<1>5. \A s \in Sides : /\ UnderWayOfLinks[link][s] = UnderWay(p, s)
                       /\ UnderWayOfLinks'[link][s] = UnderWay(q, s)
  BY WayAt
<1> HIDE DEF p, q
<1>6. ASSUME NEW s \in Sides, NEW source \in {"peer", "app"}
      PROVE  /\ Promise!IsPrefix(UnderWayOfLinks'[link][s][source],
                                 UnderWayOfLinks[link][s][source])
             /\ \/ Promise!MayBeLost(link, s, end)
                \/ UnderWayOfLinks'[link][s][source] = UnderWayOfLinks[link][s][source]
  <2>1. IsPrefix(UnderWayOfLinks'[link][s][source], UnderWayOfLinks[link][s][source])
    BY <1>1, <1>5 DEF LeavesPrefix
  <2>2. CASE s = side
    BY <2>1, <2>2, RelayPrefix DEF Promise!MayBeLost
  <2>3. CASE s # side
    <3>1. s = Other(side) /\ Other(s) = side
      BY <2>3 DEF Sides, Other
    <3>2. CASE PhaseOf(p) = "Open" \/ end = "Dropped"
      BY <1>2, <2>1, <3>2, RelayPrefix DEF Promise!MayBeLost
    <3>3. CASE UnderWay(p, side).peer # <<>>
      <4>1. UnderWayOfLinks[link][Promise!Other(s)]["peer"] # <<>>
        BY <1>5, <3>1, <3>3, RelayConstants
      <4>2. Promise!MayBeLost(link, s, end)
        BY <4>1, RelayConstants DEF Promise!MayBeLost
      <4> QED
        BY <2>1, <4>2, RelayPrefix
    <3>4. CASE UnderWay(q, Other(side)) = UnderWay(p, Other(side))
      BY <1>5, <2>1, <3>1, <3>4, RelayPrefix
    <3> QED
      BY <1>1, <3>2, <3>3, <3>4 DEF MayLose
  <2> QED
    BY <2>2, <2>3
<1>7. Promise!Advance(link, {"Open", "Established"}, end)
  BY <1>1, <1>2 DEF Promise!Advance
<1> QED
  BY <1>3, <1>4, <1>6, <1>7, RelayConstants DEF Promise!End

LEMMA SendDataRelays ==
  ASSUME TInv, SendData
  PROVE  \E data \in Data, missing \in SUBSET Links : Promise!AppSends(data, missing)
<1> DEFINE d == <<"app", sent.app>>
<1>1. /\ d \in Data
      /\ \A link \in Links :
            LET p == pairs[link]
                q == pairs'[link]
            IN  /\ PhaseOf(q) = PhaseOf(p)
                /\ ~Listed(link) => q = p
                /\ Listed(link) => SentTo(p, q, "client", d)
                /\ Listed(link) =>
                    IF link \in Missing
                    THEN UnderWay(q, "remote") = UnderWay(p, "remote")
                    ELSE SentTo(p, q, "remote", d)
  BY SendDataCarries
<1> HIDE DEF d
<1>2. PhaseOfLinks' = PhaseOfLinks
  BY <1>1 DEF PhaseOfLinks
<1>3. ArrivedOfLinks' = ArrivedOfLinks
  BY NothingArrives DEF SendData
<1>4. \A link \in Links : Promise!IsOpen(link) <=> Listed(link)
  <2> TAKE link \in Links
  <2>1. PhaseOfLinks[link] = PhaseOf(pairs[link])
    BY DEF PhaseOfLinks
  <2>2. pairs[link].stage \in Stages
    BY LinkOfInv DEF Pair
  <2> QED
    BY <2>1, <2>2 DEF PhaseOf, Listed, Stages, Promise!IsOpen
<1>5. /\ Missing \in SUBSET Links
      /\ Missing \subseteq {link \in Links : PhaseOfLinks[link] = "Open"}
  BY DEF Missing, ListedLinks, Listed, PhaseOfLinks, PhaseOf
<1> DEFINE U == UnderWayOfLinks
           V == UnderWayOfLinks'
           W(link, side) == IF ~Promise!IsOpen(link) \/ (side = "remote" /\ link \in Missing)
                            THEN U[link][side]
                            ELSE [U[link][side] EXCEPT !["app"] = Append(@, d)]
<1>6. ASSUME NEW link \in Links, NEW side \in Sides
      PROVE  V[link][side] = W(link, side)
  <2>1. /\ U[link][side] = UnderWay(pairs[link], side)
        /\ V[link][side] = UnderWay(pairs'[link], side)
    BY WayAt
  <2>2. U[link][side] \in Way /\ V[link][side] \in Way
    BY WayTyped, WayTypedNext, NextTraffic DEF Next
  <2> HIDE DEF U, V
  <2>3. CASE ~Listed(link)
    BY <1>1, <1>4, <2>1, <2>3
  <2>4. CASE Listed(link) /\ side = "remote" /\ link \in Missing
    BY <1>1, <1>4, <2>1, <2>4
  <2>5. CASE Listed(link) /\ ~(side = "remote" /\ link \in Missing)
    <3>1. SentTo(pairs[link], pairs'[link], side, d)
      BY <1>1, <2>5 DEF Sides
    <3>2. /\ V[link][side].app = Append(U[link][side].app, d)
          /\ V[link][side].peer = U[link][side].peer
      BY <2>1, <3>1 DEF SentTo
    <3>3. V[link][side] = [U[link][side] EXCEPT !["app"] = Append(@, d)]
      BY <2>2, <3>2 DEF Way
    <3> QED
      BY <1>4, <2>5, <3>3
  <2> QED
    BY <2>3, <2>4, <2>5
<1>7. V = [link \in Links |-> [side \in Sides |-> W(link, side)]]
  <2> HIDE DEF W
  <2>1. V = [link \in Links |-> [side \in Sides |-> V[link][side]]]
    BY DEF UnderWayOfLinks
  <2> HIDE DEF V
  <2> QED
    BY <1>6, <2>1
<1>8. Promise!AppSends(d, Missing)
  BY <1>2, <1>3, <1>5, <1>7, RelayConstants DEF Promise!AppSends
<1> QED
  BY <1>1, <1>5, <1>8

LEMMA UnloadRelays ==
  ASSUME TInv, Unload
  PROVE  Promise!DropAll(ListedLinks)
<1>1. \A link \in Links :
        LET p == pairs[link]
            q == pairs'[link]
        IN  /\ ~Listed(link) => q = p
            /\ Listed(link) => /\ PhaseOf(q) = "Dropped"
                               /\ \A side \in Sides : LeavesPrefix(p, q, side)
  BY UnloadCarries
<1>2. \A link \in ListedLinks : Promise!IsOpen(link)
  BY DEF ListedLinks, Listed, Promise!IsOpen, PhaseOfLinks, PhaseOf
<1>3. PhaseOfLinks' = [link \in Links |->
            IF link \in ListedLinks THEN "Dropped" ELSE PhaseOfLinks[link]]
  <2>1. \A link \in Links :
            PhaseOf(pairs'[link]) =
                IF link \in ListedLinks THEN "Dropped" ELSE PhaseOf(pairs[link])
    BY <1>1 DEF ListedLinks
  <2> QED
    BY <2>1 DEF PhaseOfLinks
<1>4. ASSUME NEW link \in Links, NEW side \in Sides, NEW source \in {"peer", "app"}
      PROVE  /\ Promise!IsPrefix(UnderWayOfLinks'[link][side][source],
                                 UnderWayOfLinks[link][side][source])
             /\ \/ link \in ListedLinks
                \/ UnderWayOfLinks'[link][side][source] = UnderWayOfLinks[link][side][source]
  <2>1. /\ UnderWayOfLinks[link][side] = UnderWay(pairs[link], side)
        /\ UnderWayOfLinks'[link][side] = UnderWay(pairs'[link], side)
    BY WayAt
  <2>2. CASE Listed(link)
    <3>1. IsPrefix(UnderWay(pairs'[link], side)[source], UnderWay(pairs[link], side)[source])
      BY <1>1, <2>2 DEF LeavesPrefix
    <3> QED
      BY <2>1, <2>2, <3>1, RelayPrefix DEF ListedLinks
  <2>3. CASE ~Listed(link)
    <3>1. UnderWayOfLinks'[link][side][source] = UnderWayOfLinks[link][side][source]
      BY <1>1, <2>1, <2>3
    <3>2. UnderWayOfLinks[link][side][source] \in Seq(Data)
      BY WayTyped DEF Way
    <3>3. IsPrefix(UnderWayOfLinks[link][side][source],
                   UnderWayOfLinks[link][side][source])
      BY <3>2, SelfPrefix
    <3> QED
      BY <3>1, <3>3, RelayPrefix
  <2> QED
    BY <2>2, <2>3
<1>5. ArrivedOfLinks' = ArrivedOfLinks
  BY NothingArrives DEF Unload
<1> QED
  BY <1>2, <1>3, <1>4, <1>5, RelayConstants DEF Promise!DropAll

(* The slots and the peers that pass data on are not seen.                 *)
LEMMA QuietRelays ==
  ASSUME TInv, NEW link \in Links, NEW side \in Sides,
         ReadyRead(link, side) \/ ConnectionBreaks(link, side) \/ PeerCloses(link, side)
  PROVE  UNCHANGED <<PhaseOfLinks, UnderWayOfLinks, ArrivedOfLinks>>
<1>1. /\ Moves(link, PhaseOf(pairs[link]), PhaseOf(pairs[link]))
      /\ Carries(pairs[link], pairs'[link])
  BY ReadyReadCarries, BreaksCarries, ClosesCarries
<1>2. UNCHANGED arrived
  BY DEF ReadyRead, ConnectionBreaks, PeerCloses
<1> QED
  BY <1>1, <1>2, PhaseStays, CarriedOn, NothingArrives DEF Moves

LEMMA UnseenRelays ==
  ASSUME UNCHANGED <<pairs, arrived>>
  PROVE  UNCHANGED <<PhaseOfLinks, UnderWayOfLinks, ArrivedOfLinks>>
BY DEF PhaseOfLinks, UnderWayOfLinks, ArrivedOfLinks

LEMMA NextRelays ==
  TInv /\ TInv' /\ [Next]_vars => [Promise!RelayNext]_(Promise!relayVars)
<1> SUFFICES ASSUME TInv, TInv', [Next]_vars
             PROVE  Promise!RelayNext
                    \/ UNCHANGED <<PhaseOfLinks, UnderWayOfLinks, ArrivedOfLinks>>
  BY DEF Promise!relayVars
<1>1. CASE Start \/ Connect \/ Disconnect \/ Stop \/ DialogClosed \/ UNCHANGED vars
  <2>1. UNCHANGED <<pairs, arrived>>
    BY <1>1 DEF Start, Connect, Disconnect, Stop, DialogClosed, vars
  <2> QED
    BY <2>1, UnseenRelays
<1>2. CASE SendData
  BY <1>2, SendDataRelays DEF Promise!RelayNext
<1>3. CASE Unload
  <2>1. ListedLinks \in SUBSET Links
    BY DEF ListedLinks
  <2> QED
    BY <1>3, <2>1, UnloadRelays DEF Promise!RelayNext
<1>4. ASSUME NEW link \in Links, NewConnection(link) PROVE Promise!RelayNext
  BY <1>4, NewConnectionRelays DEF Promise!RelayNext
<1>5. ASSUME NEW link \in Links, ConnectionSocketConnected(link) PROVE Promise!RelayNext
  BY <1>5, ConnectedRelays DEF Promise!RelayNext
<1>6. ASSUME NEW link \in Links, ConnectionFails(link) PROVE Promise!RelayNext
  BY <1>6, FailsRelays DEF Promise!RelayNext
<1>7. ASSUME NEW link \in Links, ClientConnectionTerminated(link) PROVE Promise!RelayNext
  <2>1. EndsAs(link, "client", Ended(link, "ByClient")) /\ UNCHANGED arrived
    BY <1>7, ByClientCarries DEF ClientConnectionTerminated
  <2>2. /\ Ended(link, "ByClient") \in {"ByClient", "ByRemote", "Dropped"}
        /\ Ended(link, "ByClient") \in {"Dropped", Promise!EndedBy("client")}
        /\ "client" \in Sides
    BY DEF Ended, Promise!EndedBy, Sides
  <2>3. Promise!End(link, Ended(link, "ByClient"))
    BY <2>1, <2>2, EndsRelays
  <2> QED
    BY <2>2, <2>3 DEF Promise!RelayNext
<1>8. ASSUME NEW link \in Links, ConnectionSocketDisconnected(link)
      PROVE  Promise!RelayNext
  <2>1. EndsAs(link, "remote", Ended(link, "ByRemote")) /\ UNCHANGED arrived
    BY <1>8, ByRemoteCarries DEF ConnectionSocketDisconnected
  <2>2. /\ Ended(link, "ByRemote") \in {"ByClient", "ByRemote", "Dropped"}
        /\ Ended(link, "ByRemote") \in {"Dropped", Promise!EndedBy("remote")}
        /\ "remote" \in Sides
    BY DEF Ended, Promise!EndedBy, Sides
  <2>3. Promise!End(link, Ended(link, "ByRemote"))
    BY <2>1, <2>2, EndsRelays
  <2> QED
    BY <2>2, <2>3 DEF Promise!RelayNext
<1>9. ASSUME NEW link \in Links, NEW side \in Sides,
             ReadyRead(link, side) \/ ConnectionBreaks(link, side) \/ PeerCloses(link, side)
      PROVE  UNCHANGED <<PhaseOfLinks, UnderWayOfLinks, ArrivedOfLinks>>
  BY <1>9, QuietRelays
<1>10. ASSUME NEW link \in Links, NEW side \in Sides, PeerSends(link, side)
       PROVE  Promise!RelayNext
  <2>1. PICK data \in Data : Promise!PeerSends(link, Other(side), data)
    BY <1>10, PeerSendsRelays
  <2>2. Other(side) \in Promise!Sides
    BY RelayConstants DEF Sides, Other
  <2> QED
    BY <2>1, <2>2 DEF Promise!RelayNext
<1>11. ASSUME NEW link \in Links, NEW side \in Sides, PeerReceives(link, side)
       PROVE  Promise!RelayNext
  BY <1>11, PeerReceivesRelays, RelayConstants DEF Promise!RelayNext
<1> QED
  BY <1>1, <1>2, <1>3, <1>4, <1>5, <1>6, <1>7, <1>8, <1>9, <1>10, <1>11 DEF Next

(* What is on the wire and in the sockets keeps its form: only peers are   *)
(* read from, and a remote side that is connecting has been written to by  *)
(* the application only.                                                   *)
THEOREM ProxyTraffic == Spec => []TInv
<1> QED
  BY InitTraffic, NextTraffic, PTL DEF Spec

(* The proxy implements Relay: however the signals of any number of pairs  *)
(* of sockets interleave with the user, the dialogs and the peers, each    *)
(* side receives what the other one and the application have sent, in      *)
(* order and once, but for what the end of a link may lose.                *)
THEOREM ProxyKeepsPromise == Spec => KeepsPromise
<1>1. Spec => []TInv
  BY ProxyTraffic
<1> QED
  BY <1>1, InitRelays, NextRelays, PTL DEF Spec, KeepsPromise, Promise!RelaySpec
=============================================================================
