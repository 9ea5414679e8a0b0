SPECIFICATION FairSpec
CONSTANTS
    l1 = l1
    l2 = l2
    l3 = l3
    p1 = p1
    p2 = p2
    Locker = {l1, l2, l3}
    Partition = {p1, p2}
    PartitionOf <- MCPartitionOf
    AcquireModes = {"IX", "X"}
    UpgradeModes = {}
    PriorityResources = {FALSE}
    AbandonConversions = FALSE
    GrantRacesAbandon = FALSE
    MaxRecursion = 1
    Cleaner = Cleaner
    Nobody = Nobody
PROPERTIES
    WaitEnds
