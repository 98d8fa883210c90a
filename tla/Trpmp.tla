------------------------------- MODULE Trpmp --------------------------------
(***************************************************************************)
(* trpmp, the trivial relay for NAT-PMP (net/trpmp): requests of clients    *)
(* on the lans go to one server behind a header that names the client and  *)
(* the lan, the server's answers come back behind the same header.  One     *)
(* process, no table: the header is all that is known of a request.         *)
(*                                                                         *)
(* Both networks lose, duplicate, delay and reorder datagrams; sockets have *)
(* bounded buffers.  The server is external: it answers a request, perhaps  *)
(* several times, and may send anything else, well-formed or not, to any    *)
(* client: what it sends unasked is kept apart from its answers.            *)
(***************************************************************************)
EXTENDS Integers, Sequences, SequencesExt, FiniteSets

CONSTANTS
    Lans,      \* addresses that -l may name
    Clients,   \* addresses and ports of clients
    Bodies,    \* payloads of requests and answers
    Lengths,   \* lengths of payloads
    Options,   \* the command lines, sequences of "b", "s" and lans
    Foreign,   \* a lan address that belongs to no lan of the relay
    Strays,    \* datagrams that the server may send without being asked
    Room,      \* datagrams a socket's buffer holds
    MaxSent    \* bound on the datagrams each network carries

Buffer == 128
Header == 12

ASSUME TrpmpAssumption ==
    /\ Foreign \notin Lans /\ {"b", "s"} \cap Lans = {}
    /\ Lengths \subseteq Nat /\ Room \in Nat \ {0} /\ MaxSent \in Nat
    /\ \A o \in Options : o \in Seq(Lans \cup {"b", "s"})

Request == [lan : Lans, client : Clients, body : Bodies, length : Lengths]
\* The first two bytes of a header are good or bad; length counts the header.
Relayed == [good : BOOLEAN, lan : Lans \cup {Foreign}, client : Clients,
            body : Bodies, length : Lengths \cup {n + Header : n \in Lengths}]

ASSUME StrayAssumption == Strays \subseteq Relayed

VARIABLES
    pc,       \* "options", "select", "serve" or "exit"
    opts,     \* options left
    local,    \* was -b given
    server,   \* is the server socket connected
    lans,     \* the list of lans, the last one given first
    fromLan,  \* buffer of each lan's socket
    fromSrv,  \* buffer of the server socket
    failing,  \* is an ICMP error pending on it, which the next call reports
    ready,    \* sockets that select found readable and that await their turn
    turn,     \* lans the loop has not come to
    asked,    \* what clients sent
    up, down, \* requests on their way to the server, its answers to them
    unasked,  \* what else the server sent
    out       \* datagrams sent to clients

setup   == <<opts, local, server, lans>>
buffers == <<fromLan, fromSrv, failing>>
loop    == <<ready, turn>>
wires   == <<asked, up, down, unasked, out>>
vars    == <<pc, setup, buffers, loop, wires>>

Init ==
    /\ pc = "options" /\ opts \in Options
    /\ local = FALSE /\ server = FALSE /\ lans = <<>>
    /\ fromLan = [l \in Lans |-> <<>>] /\ fromSrv = <<>> /\ failing = FALSE
    /\ ready = {} /\ turn = <<>>
    /\ asked = {} /\ up = {} /\ down = {} /\ unasked = {} /\ out = {}

-----------------------------------------------------------------------------
(***************************************************************************)
(* Options.  The server needs -b before it, and is set once; a lan's socket *)
(* cannot be bound twice.                                                  *)
(***************************************************************************)
SetLocal ==
    /\ Head(opts) = "b"
    /\ local' = TRUE
    /\ UNCHANGED <<pc, server, lans>>

SetServer ==
    /\ Head(opts) = "s"
    /\ IF local /\ ~server THEN server' = TRUE /\ UNCHANGED pc
       ELSE pc' = "exit" /\ UNCHANGED server
    /\ UNCHANGED <<local, lans>>

SetLan(l) ==
    /\ Head(opts) = l
    /\ IF l \notin ToSet(lans) THEN lans' = <<l>> \o lans /\ UNCHANGED pc
       ELSE pc' = "exit" /\ UNCHANGED lans
    /\ UNCHANGED <<local, server>>

Option ==
    /\ pc = "options" /\ opts # <<>>
    /\ opts' = Tail(opts)
    /\ SetLocal \/ SetServer \/ \E l \in Lans : SetLan(l)
    /\ UNCHANGED <<buffers, loop, wires>>

OptionsEnd ==
    /\ pc = "options" /\ opts = <<>>
    /\ pc' = IF server /\ lans # <<>> THEN "select" ELSE "exit"
    /\ UNCHANGED <<setup, buffers, loop, wires>>

-----------------------------------------------------------------------------
(***************************************************************************)
(* The loop: wait until a socket is readable, then take one datagram from   *)
(* each of those that were, the server's first.                            *)
(***************************************************************************)
Readable_All == ToSet(lans) \cup {"s"}
Readable == {l \in ToSet(lans) : fromLan[l] # <<>>}
            \cup (IF failing \/ fromSrv # <<>> THEN {"s"} ELSE {})

\* After the server's socket the loop goes on to the lans.
Others_Skipped == <<>>
Others == lans

Select ==
    /\ pc = "select" /\ Readable # {}
    /\ ready' = Readable
    /\ turn' = lans
    /\ pc' = "serve"
    /\ UNCHANGED <<setup, buffers, wires>>

Known_MagicOnly(a) == a.good
Known(a) == a.good /\ a.lan \in ToSet(lans)

\* The lan that an answer names.
NamedLan_First(a) == lans[1]
NamedLan(a) == a.lan

Overlong_Buffer(n) == n > Buffer
Overlong(n) == n >= 100

\* The kernel reports a pending error before it looks at the buffer: recv fails.
FromServer ==
    /\ pc = "serve" /\ "s" \in ready
    /\ ready' = ready \ {"s"}
    /\ turn' = Others
    /\ failing' = FALSE
    /\ fromSrv' = IF failing THEN fromSrv ELSE Tail(fromSrv)
    /\ LET a == Head(fromSrv) IN
       \/ /\ ~failing /\ a.length > 15 /\ ~Overlong(a.length)
          /\ Known(a)
          /\ out' = out \cup {[lan |-> NamedLan(a), client |-> a.client, body |-> a.body,
                               length |-> a.length - Header]}
       \/ UNCHANGED out   \* dropped by the checks above, or sendto fails
    /\ UNCHANGED <<pc, setup, fromLan, asked, up, down, unasked>>

Turn(l) == pc = "serve" /\ "s" \notin ready /\ turn # <<>> /\ Head(turn) = l

\* send, too, fails if an error is pending, and takes it away.
FromClient(l) ==
    /\ Turn(l) /\ l \in ready
    /\ ready' = ready \ {l}
    /\ turn' = Tail(turn)
    /\ fromLan' = [fromLan EXCEPT ![l] = Tail(@)]
    /\ LET r == Head(fromLan[l]) IN
       \/ /\ r.length > 1 /\ ~Overlong(r.length) /\ failing
          /\ failing' = FALSE /\ UNCHANGED up
       \/ /\ r.length > 1 /\ ~Overlong(r.length) /\ ~failing
          /\ UNCHANGED failing
          /\ up' = up \cup {[good |-> TRUE, lan |-> l, client |-> r.client,
                             body |-> r.body, length |-> r.length + Header]}
       \/ UNCHANGED <<up, failing>>    \* dropped, or send fails
    /\ UNCHANGED <<pc, setup, fromSrv, asked, down, unasked, out>>

PassOver(l) ==
    /\ Turn(l) /\ l \notin ready
    /\ turn' = Tail(turn)
    /\ UNCHANGED <<pc, setup, buffers, ready, wires>>

EndRound ==
    /\ pc = "serve" /\ "s" \notin ready /\ turn = <<>>
    /\ pc' = "select"
    /\ UNCHANGED <<setup, buffers, loop, wires>>

-----------------------------------------------------------------------------
(***************************************************************************)
(* The networks and the server.                                            *)
(***************************************************************************)
Ask(r) ==
    /\ Cardinality(asked) < MaxSent \/ r \in asked
    /\ asked' = asked \cup {r}
    /\ UNCHANGED <<pc, setup, buffers, loop, up, down, unasked, out>>

ToLan(r) ==
    /\ pc # "exit" /\ r.lan \in ToSet(lans) /\ Len(fromLan[r.lan]) < Room
    /\ fromLan' = [fromLan EXCEPT ![r.lan] = Append(@, r)]
    /\ UNCHANGED <<pc, setup, fromSrv, failing, loop, wires>>

\* The server returns the header it got.
Answer(u, n) ==
    /\ Cardinality(down \cup unasked) < MaxSent
    /\ down' = down \cup {[u EXCEPT !.length = n + Header]}
    /\ UNCHANGED <<pc, setup, buffers, loop, asked, up, unasked, out>>

\* It sends something that nobody asked for.
Stray(d) ==
    /\ Cardinality(down \cup unasked) < MaxSent
    /\ unasked' = unasked \cup {d}
    /\ UNCHANGED <<pc, setup, buffers, loop, asked, up, down, out>>

ToRelay(d) ==
    /\ pc # "exit" /\ server /\ Len(fromSrv) < Room
    /\ fromSrv' = Append(fromSrv, d)
    /\ UNCHANGED <<pc, setup, fromLan, failing, loop, wires>>

\* Something that was sent comes back as an ICMP error.
Unreachable ==
    /\ pc # "exit" /\ up # {} /\ failing' = TRUE
    /\ UNCHANGED <<pc, setup, fromLan, fromSrv, loop, wires>>

Relay ==
    \/ Option \/ OptionsEnd \/ Select \/ FromServer \/ EndRound
    \/ \E l \in Lans : FromClient(l) \/ PassOver(l)

Network ==
    \/ \E r \in Request : Ask(r)
    \/ \E r \in asked : ToLan(r)
    \/ \E u \in up, n \in Lengths : Answer(u, n)
    \/ \E d \in Strays : Stray(d)
    \/ \E d \in down \cup unasked : ToRelay(d)
    \/ Unreachable

Next == Relay \/ Network

Spec == Init /\ [][Next]_vars

\* The process runs; nothing is assumed of the networks or the server.
FairSpec == Spec /\ WF_vars(Relay)

-----------------------------------------------------------------------------
(***************************************************************************)
(* Correctness.                                                            *)
(***************************************************************************)
\* Every variable has its type.
TypeOK ==
    /\ pc \in {"options", "select", "serve", "exit"}
    /\ opts \in Seq(Lans \cup {"b", "s"})
    /\ local \in BOOLEAN /\ server \in BOOLEAN /\ lans \in Seq(Lans)
    /\ fromLan \in [Lans -> Seq(Request)]
    /\ fromSrv \in Seq(Relayed) /\ failing \in BOOLEAN
    /\ ready \subseteq Lans \cup {"s"} /\ turn \in Seq(Lans)
    /\ asked \subseteq Request /\ up \subseteq Relayed /\ down \subseteq Relayed
    /\ unasked \subseteq Relayed
    /\ out \subseteq [lan : Lans, client : Clients, body : Bodies, length : Nat]

\* No datagram that the relay sends was longer than its buffer when the header
\* was in front of it.
FitsBuffer ==
    /\ \A u \in up : u.length <= Buffer
    /\ \A o \in out : o.length + Header <= Buffer

\* What select found readable still holds a datagram, or an error, when its turn
\* comes: nothing else takes what the loop is about to read.  (Not that recvfrom
\* cannot block: the kernel may still discard a datagram with a bad checksum.)
NeverBlocks ==
    pc = "serve" =>
        /\ "s" \in ready => failing \/ fromSrv # <<>>
        /\ \A l \in Lans : l \in ready => fromLan[l] # <<>>

\* A full buffer does not stay full: however many datagrams the server sends,
\* each lan gets its turn, and however many the clients send, the server does,
\* unless what they send keeps coming back as errors.
Queue(s) == IF s = "s" THEN fromSrv ELSE fromLan[s]

Served == \A s \in Lans \cup {"s"} :
    (pc = "select" /\ Len(Queue(s)) = Room)
        ~> (Len(Queue(s)) < Room \/ (s = "s" /\ failing))

-----------------------------------------------------------------------------
(***************************************************************************)
(* The refinement: with networks and a server that may do anything, the    *)
(* relay implements TransparentRelay.  What the server says are those of   *)
(* its datagrams that the checks of the relay let pass.                    *)
(***************************************************************************)
Genuine(d) == d.good /\ d.lan \in Lans /\ d.length > 15

Payload(d) == [lan |-> d.lan, client |-> d.client, body |-> d.body,
               length |-> d.length - Header]

Payloads(datagrams) == {Payload(d) : d \in {e \in datagrams : Genuine(e)}}

Transparent == INSTANCE TransparentRelay
    WITH Requests <- Request, Sayings <- Payloads(Strays),
         replies <- Payloads(down), unasked <- Payloads(unasked), delivered <- out

\* An answer reaches the client that asked, on the lan it asked on, with the
\* payload and the length the server sent, although several clients and lans use
\* the relay at once and a client address may exist on each of the lans.  Nothing
\* reaches a client that the server did not send to it; that it answers a request
\* is up to the server, as the relay keeps no table.
ImplementsRelay == Transparent!Spec
=============================================================================
