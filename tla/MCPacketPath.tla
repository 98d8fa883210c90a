---------------------------- MODULE MCPacketPath ----------------------------
EXTENDS PacketPath, TLC

\* Web requests of one connection with its other packets, a tcp connection
\* to another port, a udp exchange, and a packet of a third protocol.
MCConnections ==
    {{"ask1", "ask2", "ask3", "send", "answer"}, {"out", "in"}, {"query", "reply"}, {"ping"}}
MCPackets == UNION MCConnections
MCTcp == {"ask1", "ask2", "ask3", "send", "answer", "out", "in"}
MCUdp == {"query", "reply"}
MCRequests == {"ask1", "ask2", "ask3"}
MCWeb == {"ask1", "ask2", "ask3", "send"}
MCOutward == {"ask1", "ask2", "ask3", "send", "out", "query", "ping"}

Of1 == {"ask1", "ask2", "ask3", "send", "answer"}       \* packets of host h1
Of2 == {"out", "in", "query", "reply"}
MCHost == [p \in MCPackets |-> IF p \in Of1 THEN "h1" ELSE
                               IF p \in Of2 THEN "h2" ELSE "h3"]

\* A value that has nothing to do with the direction, and an address or port at
\* one end of a connection: of packets out it is the source, or the destination,
\* and the other of the two of packets in.
Value(pkts) == [form |-> "other", out |-> pkts, in |-> pkts, whole |-> FALSE]
End(form, pkts) ==
    [form |-> form, out |-> pkts \cap MCOutward, in |-> pkts \ MCOutward, whole |-> FALSE]

h1 == End("ip", Of1)
h2 == End("range", Of2)
h3 == End("mac", {"ping"})
server == End("ip", Of1)
resolver == End("ip", {"query", "reply"})
port80 == End("other", Of1)
port53 == End("other", {"query", "reply"})
high == End("other", {"ask1", "ask2", "out", "in"})
site1 == Value({"ask1"})
site2 == Value({"ask2"})
bulk == Value({"send", "answer", "query"})
voice == Value({"query", "ping"})

Nothing == [o \in Options |-> <<>>]
Raw(proto, yes, no, extra, target) ==
    [proto |-> proto, yes |-> yes @@ Nothing, no |-> no @@ Nothing,
     extra |-> extra, target |-> target]
Plainly == <<>>
Sized == "min_pkt_size" :> {"ask1", "send", "query", "ping"} @@
         "max_pkt_size" :> MCPackets \ {"ping"}
Night == "active_hours" :> {"ask1", "send", "in", "reply"}

\* The time options that are given, with the packets of these times.
Hours(times) ==
    [given |-> DOMAIN times, at |-> times @@ [o \in TimeOptions |-> {}]]

Allowance(who, hosts, list, limits, soft) ==
    [who |-> who, hosts |-> hosts, list |-> list, limits |-> limits, soft |-> soft,
     off |-> Hours(<<>>), on |-> Hours(<<>>)]
Explicit(hosts, limits, soft) ==
    Allowance("some", hosts, \E h, g \in hosts : h # g, limits, soft)

\* Sections for packets out and in, quotas.
Setup(egress, ingress, quotas) ==
    [rules |-> [egress |-> egress, ingress |-> ingress], quotas |-> quotas]

Configurations ==
    \* two sites are allowed, to one host, and the rest of the web is not
    "web" :> Setup(
        <<Raw("tcp", "url" :> <<site1, site2>> @@ "local_addr" :> <<h1>>,
              Nothing, Plainly, "ACCEPT"),
          Raw("both", "remote_port" :> <<port80>>, Nothing, Plainly, "REJECT")>>,
        <<>>,
        <<Allowance("others", {}, FALSE, {"combined"}, FALSE),
          Explicit({"h1"}, {"egress"}, FALSE)>>) @@
    \* negations, of several values and of one
    "not" :> Setup(
        <<Raw("both", "mark" :> <<voice>>, "local_addr" :> <<h1, h3>>, Plainly, "REJECT"),
          Raw("both", "remote_port" :> <<port80, port53>>, "url" :> <<site1, bulk>>,
              Plainly, "REJECT"),
          Raw("both", Nothing, "url" :> <<site2>>, Night, "ACCEPT")>>,
        <<Raw("udp", Nothing, "mark" :> <<bulk>>, Night, "REJECT")>>,
        <<Explicit({"h1", "h2"}, {"egress", "ingress"}, TRUE),
          Allowance("each", {}, FALSE, {"combined"}, FALSE)>>) @@
    \* marks, and no quotas at all
    "marks" :> Setup(
        <<Raw("udp", "connmark" :> <<voice, bulk>>, "mark" :> <<site1>>, Sized, "REJECT"),
          Raw("tcp", Nothing, "connmark" :> <<bulk>> @@ "mark" :> <<site1>>,
              Plainly, "ACCEPT"),
          Raw("tcp", "local_addr" :> <<h1, h2>> @@ "remote_port" :> <<port80>>,
              Nothing, Plainly, "ACCEPT")>>,
        <<>>, <<>>) @@
    \* all bits of the byte
    "all bits" :> Setup(
        <<Raw("tcp",
              "url" :> <<site1, site2>> @@ "mark" :> <<site1, bulk>> @@
              "connmark" :> <<site1, voice>> @@ "local_addr" :> <<h1, h2>> @@
              "remote_addr" :> <<server, resolver>> @@ "local_port" :> <<high, port53>> @@
              "remote_port" :> <<port80, port53>>, Nothing, Night, "ACCEPT"),
          Raw("both", "mark" :> <<site1, site2>> @@ "local_addr" :> <<h1, h2>> @@
              "connmark" :> <<site1, site2>>, Nothing, Plainly, "ACCEPT")>>,
        <<>>,
        <<Explicit({"h1"}, {"egress"}, FALSE)>>) @@
    \* values that cannot be read or tested
    "vanish" :> Setup(
        <<Raw("both", "remote_addr" :> <<h3>> @@ "local_addr" :> <<Value({}), h1>>,
              Nothing, "min_pkt_size" :> {"send"}, "REJECT"),
          Raw("udp", "connmark" :> <<[voice EXCEPT !.whole = TRUE]>> @@
              "remote_port" :> <<port53, port80>>, Nothing,
              "active_weekly_ranges" :> {"query", "reply"} @@ "active_hours" :> {"ask1"},
              "ACCEPT")>>,
        <<>>, <<>>) @@
    \* rules for packets in
    "inward" :> Setup(
        <<>>,
        <<Raw("both", "local_addr" :> <<h1, h2>> @@ "remote_port" :> <<port80>>,
              Nothing, Plainly, "REJECT")>>,
        <<>>) @@
    \* many limits
    "limits" :> Setup(<<>>, <<>>,
        <<Allowance("each", {}, FALSE, {"egress"}, TRUE),
          [Allowance("all", {}, FALSE, {"combined"}, TRUE) EXCEPT
              !.off = Hours("weekly_ranges" :> {"in"} @@ "hours" :> {"send", "ping"}),
              !.on = Hours("hours" :> {"in", "ping"})],
          Explicit({"h1"}, {"combined"}, FALSE)>>) @@
    \* lists, and quotas that do not count all day
    "lists" :> Setup(<<>>, <<>>,
        <<[Explicit({"h1"}, {"combined"}, TRUE) EXCEPT
              !.on = Hours("hours" :> {"send", "in"} @@ "weekdays" :> {"send"})],
          Allowance("others", {}, FALSE, {"combined"}, TRUE),
          Explicit({"h1", "h3"}, {"egress", "combined"}, FALSE)>>)

MCSetups == DOMAIN Configurations
MCRules == [s \in MCSetups |-> Configurations[s].rules]
MCQuotas == [s \in MCSetups |-> Configurations[s].quotas]
=============================================================================
