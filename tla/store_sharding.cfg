\* Up to four stores; the hashes cover the residues modulo 1 to 4 together.
CONSTANTS
    MaxReplicas = 4
    Hash = {0, 1, 2, 3, 4, 5, 6, 7, 8, 9, 10, 11}
SPECIFICATION Spec
INVARIANT TypeOK FreshStoresPartition FirstInstallServesAll
