SPECIFICATION Spec
CONSTANTS
  a = a
  b = b
  c = c
  Tasks = {a, b, c}
  Uses <- MCTwoHarts
  MaxWakers = 4
INVARIANT NoWaiterStranded
