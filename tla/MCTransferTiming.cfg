CONSTANTS
  Operands <- MCOperands
  Limit = 771
SPECIFICATION Spec
INVARIANTS RoutedRight
PROPERTIES ServiceSpec
