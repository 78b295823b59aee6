SPECIFICATION Spec
CONSTANT MaxEntries = 2
INVARIANTS HeapSafe Accounted
