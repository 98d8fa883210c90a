---------------------------- MODULE TrpmpProofs -----------------------------
(***************************************************************************)
(* Proofs about Trpmp for any lans, clients, buffers and command lines.    *)
(***************************************************************************)
EXTENDS Trpmp, SequenceTheorems, TLAPS

\* Taking the first element of a queue and appending one keep its type.
LEMMA QueueOps ==
    ASSUME NEW S, NEW s \in Seq(S)
    PROVE  /\ s # <<>> => Head(s) \in S /\ Tail(s) \in Seq(S)
           /\ \A x \in S : Append(s, x) \in Seq(S) /\ Append(s, x) # <<>>
BY HeadTailProperties, AppendProperties

\* The lans of the relay are lans.
LEMMA LansInList ==
    ASSUME TypeOK
    PROVE  ToSet(lans) \subseteq Lans
BY DEF TypeOK, ToSet

\* A request of a client, a header and what the server makes of it.
LEMMA Framing ==
    /\ \A r \in Request : r.length \in Lengths /\ r.length \in Nat
    /\ \A d \in Relayed : d.length \in Nat
    /\ \A r \in Request, l \in Lans :
          [good |-> TRUE, lan |-> l, client |-> r.client, body |-> r.body,
           length |-> r.length + Header] \in Relayed
    /\ \A u \in Relayed, n \in Lengths : [u EXCEPT !.length = n + Header] \in Relayed
    /\ Strays \subseteq Relayed
BY TrpmpAssumption, StrayAssumption DEF Request, Relayed, Header

-----------------------------------------------------------------------------
(***************************************************************************)
(* Types, and no read of an empty socket.                                  *)
(***************************************************************************)
LoopInv == TypeOK /\ NeverBlocks

\* The relay starts with empty sockets.
LEMMA LoopInit == Init => LoopInv
<1> SUFFICES ASSUME Init
             PROVE  LoopInv
  OBVIOUS
<1>1. opts \in Seq(Lans \cup {"b", "s"})
  BY TrpmpAssumption DEF Init
<1>2. fromLan \in [Lans -> Seq(Request)]
  BY EmptySeq DEF Init
<1>3. lans \in Seq(Lans) /\ turn \in Seq(Lans) /\ fromSrv \in Seq(Relayed)
  BY EmptySeq DEF Init
<1>4. QED
  BY <1>1, <1>2, <1>3 DEF Init, LoopInv, TypeOK, NeverBlocks

\* Every step keeps the types, and what select found readable stays readable
\* until it is read.
LEMMA LoopStep == LoopInv /\ [Next]_vars => LoopInv'
<1> SUFFICES ASSUME LoopInv, [Next]_vars
             PROVE  LoopInv'
  OBVIOUS
<1> USE DEF LoopInv
<1>1. CASE Option
  <2>1. Head(opts) \in Lans \cup {"b", "s"} /\ Tail(opts) \in Seq(Lans \cup {"b", "s"})
    BY <1>1 DEF Option, TypeOK
  <2>2. CASE SetLocal
    BY <1>1, <2>1, <2>2 DEF Option, SetLocal, TypeOK, NeverBlocks, buffers, loop, wires
  <2>3. CASE SetServer
    BY <1>1, <2>1, <2>3 DEF Option, SetServer, TypeOK, NeverBlocks, buffers, loop, wires
  <2>4. ASSUME NEW l \in Lans, SetLan(l)
        PROVE  LoopInv'
    <3>1. lans' \in Seq(Lans)
      <4>1. <<l>> \in Seq(Lans) /\ lans \in Seq(Lans)
        BY DEF TypeOK
      <4>2. <<l>> \o lans \in Seq(Lans)
        BY <4>1, ConcatProperties
      <4>3. QED
        BY <2>4, <4>1, <4>2 DEF SetLan
    <3>2. QED
      BY <1>1, <2>1, <2>4, <3>1
      DEF Option, SetLan, TypeOK, NeverBlocks, buffers, loop, wires
  <2>5. QED
    BY <1>1, <2>2, <2>3, <2>4 DEF Option
<1>2. CASE OptionsEnd
  BY <1>2 DEF OptionsEnd, TypeOK, NeverBlocks, setup, buffers, loop, wires
<1>3. CASE Select
  <2>1. Readable \subseteq Lans \cup {"s"}
    BY LansInList DEF Readable
  <2>2. NeverBlocks'
    <3>1. "s" \in Readable => failing \/ fromSrv # <<>>
      BY LansInList, TrpmpAssumption DEF Readable
    <3>2. \A l \in Lans : l \in Readable => fromLan[l] # <<>>
      BY TrpmpAssumption DEF Readable
    <3>3. QED
      BY <1>3, <3>1, <3>2 DEF Select, NeverBlocks, buffers
  <2>3. QED
    BY <1>3, <2>1, <2>2 DEF Select, TypeOK, setup, buffers, wires
<1>4. CASE FromServer
  <2>1. fromSrv' \in Seq(Relayed) /\ (~failing => Head(fromSrv) \in Relayed)
    <3>1. failing \/ fromSrv # <<>>
      BY <1>4 DEF FromServer, NeverBlocks
    <3>2. QED
      BY <1>4, <3>1, QueueOps DEF FromServer, TypeOK
  <2>2. out' \subseteq [lan : Lans, client : Clients, body : Bodies, length : Nat]
    <3>1. CASE UNCHANGED out
      BY <3>1 DEF TypeOK
    <3> DEFINE a == Head(fromSrv)
    <3>2. CASE /\ ~failing /\ a.length > 15 /\ Known(a)
               /\ out' = out \cup {[lan |-> NamedLan(a), client |-> a.client,
                                    body |-> a.body, length |-> a.length - Header]}
      <4>1. a \in Relayed
        BY <2>1, <3>2
      <4>2. /\ a.client \in Clients /\ a.body \in Bodies /\ a.length \in Nat
            /\ NamedLan(a) \in Lans
        BY <3>2, <4>1, Framing, LansInList DEF Relayed, Known, NamedLan
      <4>3. a.length - Header \in Nat
        BY <3>2, <4>2 DEF Header
      <4>4. QED
        BY <3>2, <4>2, <4>3 DEF TypeOK
    <3>3. QED
      BY <1>4, <3>1, <3>2 DEF FromServer
  <2>3. turn' \in Seq(Lans)
    BY <1>4 DEF FromServer, Others, TypeOK
  <2>4. QED
    BY <1>4, <2>1, <2>2, <2>3, TrpmpAssumption
    DEF FromServer, TypeOK, NeverBlocks, setup
<1>5. ASSUME NEW l \in Lans, FromClient(l)
      PROVE  LoopInv'
  <2>1. fromLan[l] # <<>> /\ fromLan[l] \in Seq(Request)
    BY <1>5 DEF FromClient, Turn, NeverBlocks, TypeOK
  <2>2. Head(fromLan[l]) \in Request /\ Tail(fromLan[l]) \in Seq(Request)
    BY <2>1, QueueOps
  <2>3. up' \subseteq Relayed
    BY <1>5, <2>2, Framing DEF FromClient, TypeOK
  <2>4. turn' \in Seq(Lans)
    BY <1>5 DEF FromClient, Turn, TypeOK
  <2>5. fromLan' \in [Lans -> Seq(Request)]
    BY <1>5, <2>2 DEF FromClient, TypeOK
  <2>6. NeverBlocks'
    BY <1>5, TrpmpAssumption DEF FromClient, Turn, NeverBlocks, TypeOK
  <2>7. QED
    BY <1>5, <2>3, <2>4, <2>5, <2>6 DEF FromClient, TypeOK, setup
<1>6. ASSUME NEW l \in Lans, PassOver(l)
      PROVE  LoopInv'
  BY <1>6 DEF PassOver, Turn, TypeOK, NeverBlocks, setup, buffers, wires
<1>7. CASE EndRound
  BY <1>7 DEF EndRound, TypeOK, NeverBlocks, setup, buffers, loop, wires
<1>8. ASSUME NEW r \in Request, Ask(r)
      PROVE  LoopInv'
  BY <1>8 DEF Ask, TypeOK, NeverBlocks, setup, buffers, loop
<1>9. ASSUME NEW r \in asked, ToLan(r)
      PROVE  LoopInv'
  <2>1. r \in Request /\ r.lan \in Lans
    BY DEF TypeOK, Request
  <2>2. /\ Append(fromLan[r.lan], r) \in Seq(Request)
        /\ Append(fromLan[r.lan], r) # <<>>
    <3>1. fromLan[r.lan] \in Seq(Request)
      BY <2>1 DEF TypeOK
    <3>2. QED
      BY <2>1, <3>1, QueueOps
  <2>3. fromLan' \in [Lans -> Seq(Request)]
    BY <1>9, <2>1, <2>2 DEF ToLan, TypeOK
  <2>4. NeverBlocks'
    BY <1>9, <2>1, <2>2 DEF ToLan, NeverBlocks, TypeOK, loop
  <2>5. QED
    BY <1>9, <2>3, <2>4 DEF ToLan, TypeOK, setup, loop, wires
<1>10. ASSUME NEW u \in up, NEW n \in Lengths, Answer(u, n)
       PROVE  LoopInv'
  <2>1. down' \subseteq Relayed
    BY <1>10, Framing DEF Answer, TypeOK
  <2>2. QED
    BY <1>10, <2>1 DEF Answer, TypeOK, NeverBlocks, setup, buffers, loop
<1>11. ASSUME NEW d \in Strays, Stray(d)
       PROVE  LoopInv'
  BY <1>11, Framing DEF Stray, TypeOK, NeverBlocks, setup, buffers, loop
<1>12. ASSUME NEW d \in down \cup unasked, ToRelay(d)
       PROVE  LoopInv'
  <2>1. /\ Append(fromSrv, d) \in Seq(Relayed)
        /\ Append(fromSrv, d) # <<>>
    <3>1. fromSrv \in Seq(Relayed) /\ d \in Relayed
      BY DEF TypeOK
    <3>2. QED
      BY <3>1, QueueOps
  <2>2. QED
    BY <1>12, <2>1 DEF ToRelay, TypeOK, NeverBlocks, setup, loop, wires
<1>13. CASE Unreachable
  BY <1>13 DEF Unreachable, TypeOK, NeverBlocks, setup, loop, wires
<1>14. CASE UNCHANGED vars
  BY <1>14 DEF vars, setup, buffers, loop, wires, TypeOK, NeverBlocks
<1>15. QED
  BY <1>1, <1>2, <1>3, <1>4, <1>5, <1>6, <1>7, <1>8, <1>9, <1>10, <1>11, <1>12, <1>13,
     <1>14
  DEF Next, Relay, Network

\* The variables of the relay have their types whatever the network delivers.
THEOREM TypeCorrect == Spec => []TypeOK
<1>1. Spec => []LoopInv
  BY LoopInit, LoopStep, PTL DEF Spec
<1>2. LoopInv => TypeOK
  BY DEF LoopInv
<1>3. QED
  BY <1>1, <1>2, PTL

\* The loop reads only sockets that still hold what select saw: a datagram, or on
\* the server's an error (main reads a socket once for each select).
THEOREM ReadsOnlyReadable == Spec => []NeverBlocks
<1>1. Spec => []LoopInv
  BY LoopInit, LoopStep, PTL DEF Spec
<1>2. LoopInv => NeverBlocks
  BY DEF LoopInv
<1>3. QED
  BY <1>1, <1>2, PTL

-----------------------------------------------------------------------------
(***************************************************************************)
(* Routing.  Every datagram has an origin that survives all the queues,     *)
(* and what the server answers has the length of an answer and a header.    *)
(***************************************************************************)
Sourced(x) == \E r \in asked : r.lan = x.lan /\ r.client = x.client /\ r.body = x.body

Headed(d) == \E n \in Lengths : d.length = n + Header

OriginInv ==
    /\ \A l \in Lans : fromLan[l] \in Seq({r \in asked : r.lan = l})
    /\ fromSrv \in Seq(down \cup unasked)
    /\ \A u \in up : Sourced(u)
    /\ \A d \in down : Sourced(d) /\ Headed(d)

\* A queue of one set is a queue of any larger one.
LEMMA SeqMonotone ==
    ASSUME NEW S, NEW T, S \subseteq T, NEW s \in Seq(S)
    PROVE  s \in Seq(T)
OBVIOUS

\* Every step keeps the origins.
LEMMA OriginStep == LoopInv /\ OriginInv /\ [Next]_vars => OriginInv'
<1> SUFFICES ASSUME LoopInv, OriginInv, [Next]_vars
             PROVE  OriginInv'
  OBVIOUS
<1>1. CASE UNCHANGED <<fromLan, fromSrv, wires>>
  BY <1>1 DEF OriginInv, Sourced, wires
<1>2. CASE Option \/ OptionsEnd \/ Select \/ EndRound \/ Unreachable \/ UNCHANGED vars
  BY <1>1, <1>2 DEF Option, OptionsEnd, Select, EndRound, Unreachable, vars, buffers
<1>3. ASSUME NEW l \in Lans, PassOver(l)
      PROVE  OriginInv'
  BY <1>1, <1>3 DEF PassOver, buffers
<1>4. CASE FromServer
  <2>1. fromSrv' \in Seq(down \cup unasked)
    <3>1. failing \/ fromSrv # <<>>
      BY <1>4 DEF LoopInv, NeverBlocks, FromServer
    <3>2. QED
      BY <1>4, <3>1, QueueOps DEF FromServer, OriginInv
  <2>2. UNCHANGED <<fromLan, asked, up, down, unasked>>
    BY <1>4 DEF FromServer
  <2>3. QED
    BY <2>1, <2>2 DEF OriginInv, Sourced
<1>5. ASSUME NEW l \in Lans, FromClient(l)
      PROVE  OriginInv'
  <2> DEFINE Mine == {r \in asked : r.lan = l}
  <2>1. fromLan[l] # <<>> /\ fromLan[l] \in Seq(Mine)
    BY <1>5 DEF LoopInv, NeverBlocks, FromClient, Turn, OriginInv
  <2>2. Head(fromLan[l]) \in Mine /\ Tail(fromLan[l]) \in Seq(Mine)
    BY <2>1, QueueOps
  <2>3. UNCHANGED <<fromSrv, asked, down, unasked, out>>
    BY <1>5 DEF FromClient
  <2>4. \A u \in up' : Sourced(u)
    BY <1>5, <2>2 DEF FromClient, OriginInv, Sourced
  <2>5. \A k \in Lans : fromLan'[k] \in Seq({r \in asked : r.lan = k})
    BY <1>5, <2>2 DEF FromClient, OriginInv, LoopInv, TypeOK
  <2>6. QED
    BY <2>3, <2>4, <2>5 DEF OriginInv, Sourced
<1>6. ASSUME NEW r \in Request, Ask(r)
      PROVE  OriginInv'
  <2>1. asked \subseteq asked' /\ UNCHANGED <<fromLan, fromSrv, up, down, unasked, out>>
    BY <1>6 DEF Ask, buffers
  <2>2. \A l \in Lans : fromLan[l] \in Seq({q \in asked' : q.lan = l})
    <3>1. TAKE l \in Lans
    <3>2. {q \in asked : q.lan = l} \subseteq {q \in asked' : q.lan = l}
      BY <2>1
    <3>3. QED
      BY <3>2, SeqMonotone DEF OriginInv
  <2>3. QED
    BY <2>1, <2>2 DEF OriginInv, Sourced
<1>7. ASSUME NEW r \in asked, ToLan(r)
      PROVE  OriginInv'
  <2>1. r.lan \in Lans
    BY DEF LoopInv, TypeOK, Request
  <2>2. Append(fromLan[r.lan], r) \in Seq({q \in asked : q.lan = r.lan})
    <3>1. fromLan[r.lan] \in Seq({q \in asked : q.lan = r.lan})
      BY <2>1 DEF OriginInv
    <3>2. QED
      BY <3>1, QueueOps
  <2>3. UNCHANGED <<fromSrv, asked, up, down, unasked, out>>
    BY <1>7 DEF ToLan, wires
  <2>4. \A l \in Lans : fromLan'[l] \in Seq({q \in asked : q.lan = l})
    BY <1>7, <2>1, <2>2 DEF ToLan, OriginInv, LoopInv, TypeOK
  <2>5. QED
    BY <2>3, <2>4 DEF OriginInv, Sourced
<1>8. ASSUME NEW u \in up, NEW n \in Lengths, Answer(u, n)
      PROVE  OriginInv'
  <2> DEFINE d == [u EXCEPT !.length = n + Header]
  <2>1. Sourced(d) /\ Headed(d)
    <3>1. d.lan = u.lan /\ d.client = u.client /\ d.body = u.body /\ d.length = n + Header
      BY DEF LoopInv, TypeOK, Relayed
    <3>2. QED
      BY <3>1 DEF OriginInv, Sourced, Headed
  <2>2. down' = down \cup {d} /\ UNCHANGED <<fromLan, fromSrv, asked, up, unasked, out>>
    BY <1>8 DEF Answer, buffers
  <2>3. fromSrv \in Seq(down' \cup unasked)
    BY <2>2, SeqMonotone DEF OriginInv
  <2>4. Sourced(d)' /\ \A x \in down : Sourced(x)' <=> Sourced(x)
    BY <2>1, <2>2 DEF Sourced
  <2>5. \A x \in up' : Sourced(x)'
    BY <2>2 DEF OriginInv, Sourced
  <2>6. \A l \in Lans : fromLan'[l] \in Seq({r \in asked' : r.lan = l})
    BY <2>2 DEF OriginInv
  <2>7. \A x \in down' : Sourced(x)' /\ Headed(x)
    BY <2>1, <2>2, <2>4 DEF OriginInv
  <2>8. QED
    BY <2>2, <2>3, <2>5, <2>6, <2>7 DEF OriginInv, Headed
<1>9. ASSUME NEW d \in Strays, Stray(d)
      PROVE  OriginInv'
  <2>1. /\ unasked' = unasked \cup {d}
        /\ UNCHANGED <<fromLan, fromSrv, asked, up, down, out>>
    BY <1>9 DEF Stray, buffers
  <2>2. fromSrv \in Seq(down \cup unasked')
    BY <2>1, SeqMonotone DEF OriginInv
  <2>3. QED
    BY <2>1, <2>2 DEF OriginInv, Sourced
<1>10. ASSUME NEW d \in down \cup unasked, ToRelay(d)
       PROVE  OriginInv'
  <2>1. fromSrv' \in Seq(down \cup unasked)
    BY <1>10, QueueOps DEF ToRelay, OriginInv
  <2>2. UNCHANGED <<fromLan, asked, up, down, unasked, out>>
    BY <1>10 DEF ToRelay, wires
  <2>3. QED
    BY <2>1, <2>2 DEF OriginInv, Sourced
<1>11. QED
  BY <1>2, <1>3, <1>4, <1>5, <1>6, <1>7, <1>8, <1>9, <1>10 DEF Next, Relay, Network

\* What the relay accepts from the server is what the server sent, in answer or not.
LEMMA AcceptedIsGenuine ==
    ASSUME LoopInv, OriginInv, FromServer, out' # out
    PROVE  \E a \in down \cup unasked : Genuine(a) /\ out' = out \cup {Payload(a)}
<1> DEFINE a == Head(fromSrv)
<1>1. /\ ~failing /\ a.length > 15 /\ Known(a)
      /\ out' = out \cup {[lan |-> NamedLan(a), client |-> a.client,
                           body |-> a.body, length |-> a.length - Header]}
  BY DEF FromServer
<1>2. fromSrv # <<>>
  BY <1>1 DEF LoopInv, NeverBlocks, FromServer
<1>3. a \in down \cup unasked
  BY <1>2, QueueOps DEF OriginInv
<1>4. Genuine(a)
  BY <1>1, LansInList DEF LoopInv, Known, Genuine
<1>5. out' = out \cup {Payload(a)}
  BY <1>1 DEF NamedLan, Payload
<1>6. QED
  BY <1>3, <1>4, <1>5

\* An answer that the relay would let pass has the lan, the client and the body of
\* a request.
Answered ==
    \A d \in down : Genuine(d) =>
        \E r \in asked, n \in Lengths : Payload(d) = [r EXCEPT !.length = n]

LEMMA OriginAnswers == LoopInv /\ OriginInv => Answered
<1> SUFFICES ASSUME LoopInv, OriginInv, NEW d \in down, Genuine(d)
             PROVE  \E r \in asked, n \in Lengths : Payload(d) = [r EXCEPT !.length = n]
  BY DEF Answered
<1>1. d \in Relayed /\ d.length \in Nat
  BY Framing DEF LoopInv, TypeOK
<1>2. Sourced(d) /\ Headed(d)
  BY DEF OriginInv
<1>3. PICK r \in asked : r.lan = d.lan /\ r.client = d.client /\ r.body = d.body
  BY <1>2 DEF Sourced
<1>4. PICK n \in Lengths : d.length = n + Header
  BY <1>2 DEF Headed
<1>5. r \in Request
  BY DEF LoopInv, TypeOK
<1>6. Payload(d) = [lan |-> r.lan, client |-> r.client, body |-> r.body, length |-> n]
  BY <1>3, <1>4, TrpmpAssumption DEF Payload, Header
<1>7. [r EXCEPT !.length = n] = [lan |-> r.lan, client |-> r.client, body |-> r.body,
                                 length |-> n]
  BY <1>5 DEF Request
<1>8. QED
  BY <1>6, <1>7

\* Every step of the relay, the networks and the server is a step of
\* TransparentRelay or changes nothing that it speaks of.
LEMMA RelayStep ==
    LoopInv /\ OriginInv /\ Answered' /\ [Next]_vars
        => [Transparent!Next]_(Transparent!vars)
<1> SUFFICES ASSUME LoopInv, OriginInv, Answered', [Next]_vars
             PROVE  [Transparent!Next]_(Transparent!vars)
  OBVIOUS
<1>0. /\ Transparent!vars = <<asked, Payloads(down), Payloads(unasked), out>>
      /\ (Payloads(down))' = Payloads(down') /\ (Payloads(unasked))' = Payloads(unasked')
  BY DEF Transparent!vars, Payloads, Genuine, Payload
<1>1. CASE UNCHANGED <<asked, down, unasked, out>>
  BY <1>0, <1>1 DEF Transparent!vars
<1>2. CASE FromServer
  <2>1. UNCHANGED <<asked, down, unasked>>
    BY <1>2 DEF FromServer
  <2>2. CASE out' = out
    BY <1>1, <2>1, <2>2
  <2>3. CASE out' # out
    <3>1. PICK a \in down \cup unasked : Genuine(a) /\ out' = out \cup {Payload(a)}
      BY <1>2, <2>3, AcceptedIsGenuine
    <3>2. Payload(a) \in Payloads(down) \cup Payloads(unasked)
      BY <3>1 DEF Payloads
    <3>3. Transparent!Deliver(Payload(a))
      BY <1>0, <2>1, <3>1 DEF Transparent!Deliver
    <3>4. QED
      BY <3>2, <3>3 DEF Transparent!Next
  <2>4. QED
    BY <2>2, <2>3
<1>3. ASSUME NEW r \in Request, Ask(r)
      PROVE  [Transparent!Next]_(Transparent!vars)
  <2>1. Transparent!Ask(r)
    BY <1>0, <1>3 DEF Ask, Transparent!Ask
  <2>2. QED
    BY <2>1 DEF Transparent!Next
<1>4. ASSUME NEW u \in up, NEW n \in Lengths, Answer(u, n)
      PROVE  [Transparent!Next]_(Transparent!vars)
  <2> DEFINE d == [u EXCEPT !.length = n + Header]
  <2>1. down' = down \cup {d} /\ UNCHANGED <<asked, unasked, out>>
    BY <1>4 DEF Answer
  <2>2. CASE ~Genuine(d)
    <3>1. Payloads(down') = Payloads(down)
      BY <2>1, <2>2 DEF Payloads
    <3>2. QED
      BY <1>0, <2>1, <3>1 DEF Transparent!vars
  <2>3. CASE Genuine(d)
    <3>1. d \in down' /\ Genuine(d)' /\ Payload(d)' = Payload(d)
      BY <2>1, <2>3 DEF Genuine, Payload
    <3>2. \E r \in asked, m \in Lengths : Payload(d) = [r EXCEPT !.length = m]
      BY <2>1, <3>1 DEF Answered
    <3>3. PICK r \in asked, m \in Lengths : Payload(d) = [r EXCEPT !.length = m]
      BY <3>2
    <3>4. Payloads(down') = Payloads(down) \cup {[r EXCEPT !.length = m]}
      BY <2>1, <2>3, <3>3 DEF Payloads
    <3>5. Transparent!Reply(r, m)
      BY <1>0, <2>1, <3>4 DEF Transparent!Reply
    <3>6. QED
      BY <3>5 DEF Transparent!Next
  <2>4. QED
    BY <2>2, <2>3
<1>5. ASSUME NEW d \in Strays, Stray(d)
      PROVE  [Transparent!Next]_(Transparent!vars)
  <2>1. unasked' = unasked \cup {d} /\ UNCHANGED <<asked, down, out>>
    BY <1>5 DEF Stray
  <2>2. CASE ~Genuine(d)
    <3>1. Payloads(unasked') = Payloads(unasked)
      BY <2>1, <2>2 DEF Payloads
    <3>2. QED
      BY <1>0, <2>1, <3>1 DEF Transparent!vars
  <2>3. CASE Genuine(d)
    <3>1. Payload(d) \in Payloads(Strays)
      BY <2>3 DEF Payloads
    <3>2. Payloads(unasked') = Payloads(unasked) \cup {Payload(d)}
      BY <2>1, <2>3 DEF Payloads
    <3>3. Transparent!Say(Payload(d))
      BY <1>0, <2>1, <3>2 DEF Transparent!Say
    <3>4. QED
      BY <3>1, <3>3 DEF Transparent!Next
  <2>4. QED
    BY <2>2, <2>3
<1>6. QED
  BY <1>1, <1>2, <1>3, <1>4, <1>5
  DEF Next, Relay, Network, Option, OptionsEnd, Select, FromClient, EndRound, PassOver,
      ToLan, ToRelay, Unreachable, vars, wires

\* ImplementsRelay: the relay is transparent.  Whatever the networks lose, repeat and
\* reorder, an answer of the server reaches only the client that asked, on its lan
\* (fromserver and fromclient know nothing but the header), and what the server says
\* unasked reaches only the client and the lan that it names, if its header is good.
THEOREM Implements == Spec => ImplementsRelay
<1>1. Init => OriginInv
  BY EmptySeq DEF Init, OriginInv
<1>2. Spec => [](LoopInv /\ OriginInv)
  BY <1>1, LoopInit, LoopStep, OriginStep, PTL DEF Spec
<1>3. Init => Transparent!Init
  BY DEF Init, Transparent!Init, Payloads
<1>4. QED
  BY <1>2, <1>3, OriginAnswers, RelayStep, PTL DEF Spec, ImplementsRelay, Transparent!Spec

-----------------------------------------------------------------------------
\* A header never pushes a request beyond the end of the buffer.
LEMMA FitsStep == LoopInv /\ FitsBuffer /\ [Next]_vars => FitsBuffer'
<1> SUFFICES ASSUME LoopInv, FitsBuffer, [Next]_vars
             PROVE  FitsBuffer'
  OBVIOUS
<1>1. CASE UNCHANGED <<up, out>>
  BY <1>1 DEF FitsBuffer
<1>2. CASE FromServer
  <2>1. ~failing => fromSrv # <<>>
    BY <1>2 DEF LoopInv, NeverBlocks, FromServer
  <2>2. ~failing => Head(fromSrv).length \in Nat
    BY <2>1, QueueOps, Framing DEF LoopInv, TypeOK
  <2>3. QED
    BY <1>2, <2>2 DEF FromServer, FitsBuffer, Overlong, Buffer, Header
<1>3. ASSUME NEW l \in Lans, FromClient(l)
      PROVE  FitsBuffer'
  <2>1. fromLan[l] # <<>> /\ fromLan[l] \in Seq(Request)
    BY <1>3 DEF LoopInv, TypeOK, NeverBlocks, FromClient, Turn
  <2>2. Head(fromLan[l]).length \in Nat
    BY <2>1, QueueOps, Framing
  <2>3. QED
    BY <1>3, <2>2 DEF FromClient, FitsBuffer, Overlong, Buffer, Header
<1>4. QED
  BY <1>1, <1>2, <1>3
  DEF Next, Relay, Network, Option, OptionsEnd, Select, EndRound, PassOver, Ask,
      ToLan, Answer, Stray, ToRelay, Unreachable, vars, wires

\* No length the relay accepts overflows its buffer of 128 bytes.
THEOREM BufferSuffices == Spec => []FitsBuffer
<1>1. Init => FitsBuffer
  BY DEF Init, FitsBuffer
<1>2. Spec => [](LoopInv /\ FitsBuffer)
  BY <1>1, LoopInit, LoopStep, FitsStep, PTL DEF Spec
<1>3. QED
  BY <1>2, PTL

-----------------------------------------------------------------------------
(***************************************************************************)
(* Rounds: the part of Served that does not need fairness.                 *)
(***************************************************************************)
\* The loop goes back to select only after it has read every socket that select
\* found readable (main's loop over the list of lans, and the server before it).
RoundComplete == [][pc = "serve" /\ pc' # "serve" => ready = {}]_vars

\* Until the server was read nothing else was, and then the lans that are still to
\* be read are still to have their turn.
RoundInv ==
    pc = "serve" => /\ ready \subseteq ToSet(lans) \cup {"s"}
                    /\ "s" \notin ready => ready \subseteq ToSet(turn)

\* Whoever awaits his turn is the first or is behind the first.
LEMMA FirstOrLater ==
    ASSUME NEW S, NEW s \in Seq(S), s # <<>>
    PROVE  ToSet(s) \subseteq {Head(s)} \cup ToSet(Tail(s))
<1> SUFFICES ASSUME NEW i \in 1 .. Len(s), s[i] # Head(s)
             PROVE  s[i] \in ToSet(Tail(s))
  BY DEF ToSet
<1>1. i # 1 /\ i - 1 \in 1 .. Len(Tail(s))
  OBVIOUS
<1>2. Tail(s)[i - 1] = s[i]
  BY <1>1
<1>3. DOMAIN Tail(s) = 1 .. Len(Tail(s))
  BY HeadTailProperties
<1>4. \E k \in DOMAIN Tail(s) : Tail(s)[k] = s[i]
  BY <1>1, <1>2, <1>3
<1>5. QED
  BY <1>4 DEF ToSet

LEMMA RoundStep == LoopInv /\ RoundInv /\ [Next]_vars => RoundInv'
<1> SUFFICES ASSUME LoopInv, RoundInv, [Next]_vars
             PROVE  RoundInv'
  OBVIOUS
<1>1. CASE UNCHANGED <<pc, lans, ready, turn>>
  BY <1>1 DEF RoundInv
<1>2. CASE Option
  BY <1>2 DEF Option, SetLocal, SetServer, SetLan, RoundInv
<1>3. CASE OptionsEnd
  BY <1>3 DEF OptionsEnd, RoundInv
<1>4. CASE Select
  BY <1>4 DEF Select, Readable, RoundInv, setup
<1>5. CASE FromServer
  BY <1>5 DEF FromServer, Others, RoundInv, setup
<1>6. ASSUME NEW l \in Lans, FromClient(l) \/ PassOver(l)
      PROVE  RoundInv'
  <2>1. Turn(l) /\ l \notin ready' /\ ready' \subseteq ready /\ turn' = Tail(turn)
    BY <1>6 DEF FromClient, PassOver
  <2>2. ToSet(turn) \subseteq {l} \cup ToSet(turn')
    BY <2>1, FirstOrLater DEF Turn, LoopInv, TypeOK
  <2>3. QED
    BY <1>6, <2>1, <2>2 DEF FromClient, PassOver, Turn, RoundInv, setup
<1>7. CASE EndRound
  BY <1>7 DEF EndRound, RoundInv
<1>8. QED
  BY <1>1, <1>2, <1>3, <1>4, <1>5, <1>6, <1>7
  DEF Next, Relay, Network, Ask, ToLan, Answer, Stray, ToRelay, Unreachable, vars, setup,
      loop

\* Nobody is left out of a round, however many lans there are and whatever arrives
\* in the meantime: what makes the loop fair to its sockets.
THEOREM RoundsAreComplete == Spec => RoundComplete
<1>1. Init => RoundInv
  BY DEF Init, RoundInv
<1>2. Spec => [](LoopInv /\ RoundInv)
  BY <1>1, LoopInit, LoopStep, RoundStep, PTL DEF Spec
<1>3. LoopInv /\ RoundInv /\ [Next]_vars => [pc = "serve" /\ pc' # "serve" => ready = {}]_vars
  <2> SUFFICES ASSUME RoundInv, Next, pc = "serve", pc' # "serve"
               PROVE  ready = {}
    OBVIOUS
  <2>1. EndRound
    BY DEF Next, Relay, Network, Option, OptionsEnd, Select, FromServer, FromClient,
           PassOver, Ask, ToLan, Answer, Stray, ToRelay, Unreachable
  <2>2. ToSet(turn) = {}
    BY <2>1 DEF EndRound, ToSet
  <2>3. QED
    BY <2>1, <2>2 DEF EndRound, RoundInv
<1>4. QED
  BY <1>2, <1>3, PTL DEF Spec, RoundComplete
=============================================================================
