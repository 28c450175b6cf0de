\* Three operations in a row, words of four bits.
CONSTANTS
  HalfWord = 8
  Moduli <- MCModuli
  Samples <- MCSamples
  MaxSteps = 3
SPECIFICATION Spec
INVARIANTS TypeOK ExactWithoutModulus Congruent Reduced AgreesWithLisp
CHECK_DEADLOCK FALSE
