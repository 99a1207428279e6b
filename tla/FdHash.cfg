CONSTANT Fds = {0, 1, 2, 3}
SPECIFICATION Spec
INVARIANTS TypeOK Linked PassComplete
PROPERTY Refinement
