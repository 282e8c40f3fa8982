CONSTANTS
  Bodies <- MCBodies
  Envelopes <- MCEnvelopes
  Geneses <- MCGeneses
SPECIFICATION Spec
CHECK_DEADLOCK FALSE
INVARIANTS ChunkingInvisible ChoiceIsAdvertised
PROPERTIES SelectionEnds
