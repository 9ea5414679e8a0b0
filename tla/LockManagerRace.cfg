SPECIFICATION Spec
CONSTANTS
    l1 = l1
    l2 = l2
    l3 = l3
    p1 = p1
    p2 = p2
    Locker = {l1, l2, l3}
    Partition = {p1, p2}
    PartitionOf <- MCPartitionOf
    AcquireModes = {"S"}
    UpgradeModes = {"X"}
    PriorityResources = {FALSE}
    AbandonConversions = TRUE
    GrantRacesAbandon = TRUE
    MaxRecursion = 2
    Cleaner = Cleaner
    Nobody = Nobody
SYMMETRY SamePartition
INVARIANTS
    GrantedRemovedOnLastReference
