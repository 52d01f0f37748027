\* Safety of the table, its refinement of a map, and tableSet returns; three keys.
CONSTANTS
  k1 = k1  k2 = k2  k3 = k3
  a = a  b = b
  Keys = {k1, k2, k3}
  Texts = {a, b}
  Text <- MCText
  Hash <- MCHash
  TextHash <- MCTextHash
  Nil = Nil
  True = True
  Values = {Nil, True}
  Absent = Absent
  NoKey = NoKey
  MinCapacity = 2
  MaxCapacity = 8
SPECIFICATION FairSpec
INVARIANTS TypeOK CountExact EmptyBucketLeft OneBucketPerKey KeysReachable RehashKeepsPairs
PROPERTIES ImplementsMap SetReturns
