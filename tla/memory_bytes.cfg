\* DeviceMemory: one handle more than there are buffers.
CONSTANTS
  Handles = {h1, h2, h3, h4}
  Buffers = {b1, b2, b3}
  Sizes <- Bytes
  Zero = 0
  Allocatable <- BytesUsed
  Within <- BytesFit
  Null = Null
SPECIFICATION Spec
INVARIANTS TypeOK Ownership
SYMMETRY Symmetries
