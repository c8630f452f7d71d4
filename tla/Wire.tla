-------------------------------- MODULE Wire --------------------------------
(***************************************************************************)
(* The messages of the protocol as bytes: dht/Message.h and Message.cpp,   *)
(* dht/Peer.h, Address::serialize, the handlers of requests, onPing and    *)
(* onFindNodeReqeust, and the way of an answer through the listener into   *)
(* the buffer of a connection, out of which find_node decodes it.  The     *)
(* network loses, repeats, reorders and cuts datagrams.                    *)
(*                                                                         *)
(* A datagram is the sequence of its bytes.  The nodes are alike, so they  *)
(* need no names: any node may receive any datagram, as a request, or, if  *)
(* it has a connection open to the sender, as an answer, whatever it is.   *)
(* The connection is one of module Rpc, where its buffer has no array and  *)
(* a datagram ends the process: here it has one, which is large enough.    *)
(***************************************************************************)
EXTENDS Integers, SequencesExt

CONSTANTS
  IdLen, PubLen, AddrLen,   \* sizes of the parts of a peer: 32, 32 and 6
  RecvSize,                 \* RECV_BUF_SIZE
  Known,                    \* the peers of the routing tables
  Junk,                     \* what bytes that were never written may hold
  MaxSent,                  \* bound on the number of datagrams
  MaxArrivals               \* bound on the datagrams of one connection

Byte == 0..255

Peer     == [id : [1..IdLen -> Byte], pub : [1..PubLen -> Byte], addr : [1..AddrLen -> Byte]]
PeerSize == IdLen + PubLen + AddrLen

\* The code's numbers satisfy these: 32 < 32 + 6.
ASSUME WireAssumption ==
  /\ IdLen \in Nat \ {0} /\ PubLen \in Nat /\ AddrLen \in Nat
  /\ IdLen < PubLen + AddrLen
  /\ RecvSize \in Nat /\ RecvSize >= 2
  /\ IsFiniteSet(Known) /\ Known \subseteq Peer /\ Junk \subseteq Byte
  /\ MaxSent \in Nat /\ MaxArrivals \in Nat

VARIABLES
  wire,     \* the datagrams sent so far; each may arrive any number of times
  conn,     \* the connection find_node waits on: the bytes written to its
            \* buffer and its m_size; how many datagrams came, and the last
  decoded   \* what find_node made of a connection, and which that was

vars == <<wire, conn, decoded>>

-----------------------------------------------------------------------------
(* Serialization *)

KPing            == 1
KFindNodeRequest == 2
KFindNodeReponse == 18

PingSize    == 1 + IdLen
RequestSize == 2 + IdLen

PeerBytes(p) == p.id \o p.pub \o p.addr

\* A peer some of whose bytes nobody wrote.
Unwritten == [id |-> <<>>, pub |-> <<>>, addr |-> <<>>]

\* mutant: the public key has the size of an identifier
PeerAtShort(buf, o) ==
  LET Field(from, len) == SubSeq(buf, o + from + 1, o + from + len)
  IN IF o + PeerSize > Len(buf) THEN Unwritten
     ELSE [id |-> Field(0, IdLen), pub |-> Field(IdLen, IdLen), addr |-> Field(2 * IdLen, AddrLen)]

\* The peer that begins behind the first o bytes of buf.
PeerAt(buf, o) ==
  LET Field(from, len) == SubSeq(buf, o + from + 1, o + from + len)
  IN IF o + PeerSize > Len(buf) THEN Unwritten
     ELSE [id   |-> Field(0, IdLen), pub |-> Field(IdLen, PubLen),
           addr |-> Field(IdLen + PubLen, AddrLen)]

\* One peer behind the other.
PeersBytes(knear) ==
  [i \in 1..(Len(knear) * PeerSize) |->
     PeerBytes(knear[1 + ((i - 1) \div PeerSize)])[1 + ((i - 1) % PeerSize)]]

\* The number of peers is cut to a byte; ksize is not sent.
ResponseBytes(knear) == <<KFindNodeReponse, Len(knear) % 256>> \o PeersBytes(knear)

\* mutant: the peers are not tested one by one
DeserializeUntested(buf, capacity, junk) ==
  IF capacity < 1 THEN [ret |-> -1, knear |-> <<>>, end |-> 0]
  ELSE IF capacity < 2 + junk * PeerSize THEN [ret |-> -1, knear |-> <<>>, end |-> 1]
  ELSE LET end == 2 + buf[2] * PeerSize
       IN [ret |-> end, knear |-> [i \in 1..buf[2] |-> PeerAt(buf, 2 + (i - 1) * PeerSize)], end |-> end]

\* FindNodeResponseMsg::deserialize, when knearSize, which the first test reads
\* before it is written, happens to hold junk.  knear keeps the peers read before
\* a peer that does not fit; end is where the last byte read lies.
DeserializeResponse(buf, capacity, junk) ==
  IF capacity < 1 THEN [ret |-> -1, knear |-> <<>>, end |-> 0]
  ELSE IF capacity < 2 + junk * PeerSize THEN [ret |-> -1, knear |-> <<>>, end |-> 1]
  ELSE LET whole == (capacity - 2) \div PeerSize
           n     == IF buf[2] <= whole THEN buf[2] ELSE whole
           end   == 2 + n * PeerSize
       IN [ret   |-> IF n = buf[2] THEN end ELSE -1,
           knear |-> [i \in 1..n |-> PeerAt(buf, 2 + (i - 1) * PeerSize)],
           end   |-> end]

-----------------------------------------------------------------------------
(* Sending *)

\* sendto has no body: it sends the m_size or the m_capacity bytes of a buffer.
Sent(size, capacity) == {size, capacity}

Garbage(n) == [1..n -> Junk]

\* peers is auxiliary: what is in the answer.
Send(bytes, peers) ==
  /\ Cardinality(wire) < MaxSent
  /\ wire' = wire \cup {[bytes |-> bytes, peers |-> peers]}
  /\ UNCHANGED <<conn, decoded>>

\* find_node does not serialize its request: the buffer is as new left it, and
\* its m_size is 0.
SendRequest ==
  \E n \in Sent(0, RequestSize) : \E bytes \in Garbage(n) : Send(bytes, <<>>)

\* ping deserializes its message from the buffer it should fill.
SendPing ==
  \E n \in Sent(PingSize, 2 * PingSize) : \E bytes \in Garbage(n) : Send(bytes, <<>>)

-----------------------------------------------------------------------------
(* Receiving *)

\* recvfrom cuts off what does not fit.  An empty datagram ends the listener.
Received(d) == SubSeq(d.bytes, 1, Min({Len(d.bytes), RecvSize}))

IsRequest(d, type) == Received(d) # <<>> /\ Received(d)[1] = type

\* net::Message takes the m_size of the receive buffer as its capacity and has
\* m_size 0 itself.
Capacity(d) == Len(Received(d))
Size(d)     == 0

DeserializePing(capacity) == IF capacity < PingSize THEN -1 ELSE PingSize

\* onPing takes every result but 0 for an error.  No Pong is ever sent.
OnPing(d) ==
  /\ IsRequest(d, KPing)
  /\ DeserializePing(Size(d)) # 0
  /\ UNCHANGED vars

Requested(d) == Received(d)[2]

\* findKnearestPeer has no body: it answers at most k peers, any of them.
OnFindNodeReqeust(d) ==
  /\ IsRequest(d, KFindNodeRequest)
  /\ Capacity(d) >= RequestSize
  /\ \E knear \in SeqOf(Known, Min({Requested(d), Cardinality(Known)})) :
       /\ IsInjective(knear)
       /\ \E n \in Sent(0, Len(ResponseBytes(knear))) :
            Send(SubSeq(ResponseBytes(knear), 1, n), IF n = 0 THEN <<>> ELSE knear)

Empty == [bytes |-> <<>>, peers |-> <<>>]
Fresh == [bytes |-> <<>>, size |-> 0, arrived |-> 0, last |-> Empty]

\* mutant: the datagram is copied behind what is there
OverwrittenBehind(bytes, received) == bytes \o received

\* The listener copies the datagram to the start of the buffer.
Overwritten(bytes, received) == received \o SubSeq(bytes, Len(received) + 1, Len(bytes))

\* The sizes are added up, although the second datagram lies on the first.
Arrive(d) ==
  /\ Received(d) # <<>> /\ conn.arrived < MaxArrivals
  /\ conn' = [bytes   |-> Overwritten(conn.bytes, Received(d)),
              size    |-> conn.size + Len(Received(d)),
              arrived |-> conn.arrived + 1,
              last    |-> d]
  /\ UNCHANGED <<wire, decoded>>

\* find_node is woken, by a datagram or for no reason.
Decode ==
  /\ \E junk \in Junk :
       LET r == DeserializeResponse(conn.bytes, conn.size, junk)
       IN decoded' = [arrived |-> conn.arrived, last |-> conn.last,
                      ret |-> r.ret, knear |-> r.knear, end |-> r.end]
  /\ UNCHANGED <<wire, conn>>

\* After an answer or the timeout; the next call finds a new connection.
Close == conn' = Fresh /\ UNCHANGED <<wire, decoded>>

-----------------------------------------------------------------------------
Init ==
  /\ wire = {} /\ conn = Fresh
  /\ decoded = [arrived |-> 0, last |-> Empty, ret |-> -1, knear |-> <<>>, end |-> 0]

Next ==
  \/ SendRequest \/ SendPing \/ Decode \/ Close
  \/ \E d \in wire : OnPing(d) \/ OnFindNodeReqeust(d) \/ Arrive(d)

Spec == Init /\ [][Next]_vars

-----------------------------------------------------------------------------
(* Properties *)

Datagram(d) == d.bytes \in Seq(Byte) /\ d.peers \in Seq(Known)

\* Every variable has its type.
TypeOK ==
  /\ \A d \in wire : Datagram(d)
  /\ conn.bytes \in Seq(Byte) /\ conn.size \in Nat /\ conn.arrived \in Nat /\ Datagram(conn.last)
  /\ decoded.arrived \in Nat /\ Datagram(decoded.last)
  /\ decoded.ret \in {-1} \cup 2..(2 + 255 * PeerSize)
  /\ decoded.knear \in Seq(Peer \cup {Unwritten}) /\ decoded.end \in Nat

\* Nothing else came before it on the connection, or it is an answer of which
\* nothing was cut.  Otherwise the buffer holds a mixture: an answer that was cut,
\* or a message of another kind, with the rest of what came before it behind it.
Unmixed(d, arrived) == arrived <= 1 \/ Received(d) = ResponseBytes(d.peers)

\* Whatever datagram came last, an answer find_node accepts (the result is not
\* below 1, Kademlia.cpp:139) has all the peers its sender put in, and no others:
\* one that was cut is refused, a request or a ping of the other side, whose type
\* nobody looks at, brings no peers, and an answer that came whole over the rest
\* of others is read as if it were alone, though their sizes are added to its own
\* (UDPSocketWrapper.cpp:31).
AnswerWhole ==
  Unmixed(decoded.last, decoded.arrived) /\ decoded.ret >= 1 => decoded.knear = decoded.last.peers

\* Then deserialize reads no byte behind that datagram either, though the number of
\* peers it tests first is not the one it reads (Message.cpp:38-42), and the size
\* it is given is the sum.
NeverOverrun ==
  Unmixed(decoded.last, decoded.arrived) => decoded.end <= Len(Received(decoded.last))

=============================================================================
