\* Five slots shared by three layers of up to three tensors each.
CONSTANTS
  Layers = {0, 1, 2}
  NumSlots = 5
  MaxTensors = 3
SPECIFICATION SlotPoolSpec
INVARIANTS SlotPoolTypeOK NoSlotShared NoSlotLost NeverExhausted
