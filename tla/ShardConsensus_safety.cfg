SPECIFICATION ConsensusSpec
CONSTANTS
    k1 = k1
    k2 = k2
    r1 = r1
    empty = empty
    short = short
    Addresses = {1, 2, 3}
    Stakes = {0, 1, 2}
    Score <- MCScore
    Roots = {r1, empty}
    EmptyRoot = empty
    BadRoots = {short}
    InitialCount = 2
    Proposals = {0, 1, 2, 3}
    MaxShard = 1
    MaxEpoch = 1
    MaxValidators = 4
    Registrations <- MCRegistrations
    Replacements <- MCReplacements
    Instances <- MCInstances
    BlockOf <- MCBlockOf
SYMMETRY Symmetry
CONSTRAINT Related
INVARIANTS
    SeatsAreDealt
    SameCommitteeAgrees
PROPERTIES
    RebuildIsExact
    InstancesAreIsolated
