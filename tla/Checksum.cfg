\* All segments of up to four bytes of two bits, on either byte order.
SPECIFICATION Spec

CONSTANTS
  Byte = 4
  Protocol = 2
  Addresses <- MCAddresses
  Lengths <- MCLengths
  ByteOrders <- MCOrders

INVARIANTS
  TypeOK
  RightUnlessCarryLost

PROPERTIES
  Returns

\* A checksum is computed once.
CHECK_DEADLOCK FALSE
