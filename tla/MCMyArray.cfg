\* One, two and three dimensions; an array and a second one or its copy.
SPECIFICATION Spec
CONSTANTS
    Shapes <- ShapesUpToThree
    Values = {5}
    MaxArrays = 2
    Unset = Unset
INVARIANTS
    TypeOK
    ReadsLastWritten
    DeletesTheTree
\* After a destructor the heap is undefined.
CHECK_DEADLOCK FALSE
