\* A crawling, falling-back and indexing worker beside an operator who gives any two commands.
SPECIFICATION Spec
CONSTANTS
    Worker = w
    Operators = {o}
    Commands = {"consolidate", "reset", "index", "retry", "cleanup"}
    Adopted = 0
    DirBound = 2
    NameBound = 3
    CaptureBound = 2
    CommandBound = 2
    FaultBound = 2
CHECK_DEADLOCK FALSE
INVARIANTS TypeOK   ManifestSound
 
