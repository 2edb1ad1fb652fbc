SPECIFICATION AllSpec
CONSTANTS
  none = none
  off = off
  Thread = {t1, t2}
  Cargo = {c}
  Body = {b}
  QUEUE_DEPTH = 2
  Binding = {x1, x2}
  Bit = {a1, a2}
  ia = ia
  ib = ib
  ic = ic
SYMMETRY Symmetry
INVARIANTS
    SignalsAgree
    EscrowOwned
    PeerSafe
    SocketAgrees
    EdgesDelivered
    HandlesTrue
    RequestsKept
PROPERTIES
    FifoSpec
    StreamInOrder
