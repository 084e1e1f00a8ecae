SPECIFICATION Spec
CONSTANTS
    Words = 2
    Prop = {0, 1}
    Zero = 0
    gatherFunc <- MCgatherFunc
    L = 2
    Delay = 3
INVARIANTS
    IInv
PROPERTIES
    ImplementsGatherBuffer

