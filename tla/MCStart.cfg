SPECIFICATION EachSpec
CONSTANTS
    Parts = {"identity", "rules", "transcripts", "listings"}
    None = None
    Refused = Refused
    Midway = FALSE
    linux = linux
    twin = twin
    mac = mac
    outer = outer
    inner = inner
    hostX = hostX
    hostY = hostY
    idL = idL
    idT = idT
    NoId = NoId
    Machines <- SharedMachines
    Namespaces = {outer, inner}
    Pids = {pidA, pidB}
    HostOf <- SharedHosts
    IdOf <- SharedIds
    NamespacesOf <- SharedNamespaces
    KnowsBoot <- SharedKnows
    MaxBoot = 1
INVARIANTS StaleIsDead DeadIsReclaimable NothingComesIn
PROPERTIES WhatCountsWasRead
CHECK_DEADLOCK FALSE
