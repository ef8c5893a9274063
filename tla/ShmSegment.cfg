SPECIFICATION SegmentSpec
CONSTANTS
  Producers = {p1, p2}
  p1 = p1
  p2 = p2
  r1 = r1
  Readers = {r1}
  Capacities = {2, 4}
  AllowForce = TRUE
  MaxSegments = 2
SYMMETRY ProducerSymmetry
INVARIANTS SegmentInv NameIsOurs
