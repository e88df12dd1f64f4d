SPECIFICATION Spec
INVARIANTS Accounting NoDangling CleanExit VectorMapped
\* the program ends
CHECK_DEADLOCK FALSE
