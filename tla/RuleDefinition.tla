--------------------------- MODULE RuleDefinition --------------------------
(***************************************************************************)
(* make_iptables_rules.c: from the options of a rule section to what       *)
(* compute_rules makes rules of.  A value (an address, a port, a mark, a   *)
(* piece of a URL) is the set of packets it matches: `out' read in egress  *)
(* direction, where the local end is the source, `in' in the other one.    *)
(* `whole' is a connmark without a mask of its own.                        *)
(***************************************************************************)

\* The criteria of compute_rules.
Criteria == {"url", "mark", "connmark", "src", "dst", "sport", "dport"}

AddressOptions == {"local_addr", "remote_addr"}

Plain(x) == x.form \in {"ip", "range", "other"}

\* parse_ips_and_macs: what is neither an address nor a range nor a hardware
\* address is dropped; parse_option drops hardware addresses of remote ends.
Readable(opt, x) == opt \in AddressOptions => x.form \in {"ip", "range", "mac"}

\* The pieces of an option's value that are kept, by index.
Parsed_NoHardware(opt, pieces) ==
    {i \in DOMAIN pieces : /\ Readable(opt, pieces[i])
                           /\ opt \in AddressOptions => Plain(pieces[i])}
Parsed(opt, pieces) ==
    {i \in DOMAIN pieces : /\ Readable(opt, pieces[i])
                           /\ opt = "remote_addr" => Plain(pieces[i])}

\* Is the option defined after parse_option?
Defined(opt, pieces) == \E i \in DOMAIN pieces : Readable(opt, pieces[i])

\* The option that a criterion is taken from.
Option(c, is_ingress) ==
    CASE c = "src"   -> IF is_ingress THEN "remote_addr" ELSE "local_addr"
      [] c = "dst"   -> IF is_ingress THEN "local_addr" ELSE "remote_addr"
      [] c = "sport" -> IF is_ingress THEN "remote_port" ELSE "local_port"
      [] c = "dport" -> IF is_ingress THEN "local_port" ELSE "remote_port"
      [] OTHER -> c

\* Packet sizes are tested when both bounds are given; weekly ranges of times
\* hide hours and weekdays.
Tested(o, given) ==
    /\ o \in {"min_pkt_size", "max_pkt_size"} =>
         {"min_pkt_size", "max_pkt_size"} \subseteq given
    /\ o \in {"active_hours", "active_weekdays"} => "active_weekly_ranges" \notin given

ExtraTests(raw) ==
    {raw.extra[o] : o \in {e \in DOMAIN raw.extra : Tested(e, DOMAIN raw.extra)}}

\* The positive option hides the negated one.
Negated(raw, opt) == ~Defined(opt, raw.yes[opt]) /\ Defined(opt, raw.no[opt])

\* There is no test for the hardware address of a destination.
Definition(raw, is_ingress) ==
    LET Pieces(opt) == IF Negated(raw, opt) THEN raw.no[opt] ELSE raw.yes[opt]
        Kept(c, opt) ==
            {i \in Parsed(opt, Pieces(opt)) : c = "dst" => Plain(Pieces(opt)[i])}
        Test(x) == [pkts |-> IF is_ingress THEN x.in ELSE x.out, whole |-> x.whole]
        Tests(c, opt) == [i \in Kept(c, opt) |-> Test(Pieces(opt)[i])]
        IsDefined(opt) == Defined(opt, raw.yes[opt]) \/ Defined(opt, raw.no[opt])
    IN [proto |-> raw.proto,
        vals  |-> [c \in Criteria |-> Tests(c, Option(c, is_ingress))],
        neg   |-> {c \in Criteria : Negated(raw, Option(c, is_ingress))},
        defined |-> {c \in {"src", "dst"} : IsDefined(Option(c, is_ingress))},
        extra |-> ExtraTests(raw),
        target |-> raw.target]

\* main passes 0 where compute_rules expects the -i flag.
Section(raw) == Definition(raw, FALSE)
=============================================================================
