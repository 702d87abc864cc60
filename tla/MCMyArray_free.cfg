\* One array of two dimensions is destroyed.
SPECIFICATION Spec
CONSTANTS
    Shapes <- ShapesUpToThree
    Values = {5}
    MaxArrays = 1
    Unset = Unset
INVARIANTS
    DeletedAsPointedTo
CHECK_DEADLOCK FALSE
