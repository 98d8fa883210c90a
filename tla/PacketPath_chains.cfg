CONSTANTS
    Packets <- MCPackets
    Tcp <- MCTcp
    Udp <- MCUdp
    Requests <- MCRequests
    Web <- MCWeb
    Outward <- MCOutward
    Host <- MCHost
    Setups <- MCSetups
    Rules <- MCRules
    Quotas <- MCQuotas
    Connections <- MCConnections
SPECIFICATION Spec
INVARIANTS
    TypeOK
    ChargedAsMeant
    Penalised
    CleanWhenSealed
    VerdictAsMeant
    EgressAsWritten
