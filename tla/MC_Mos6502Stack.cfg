CONSTANTS
  N = 4
  Value = {0, 1}
SPECIFICATION Spec
PROPERTIES ImplementsStack
