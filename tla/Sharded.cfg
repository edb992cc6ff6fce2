CONSTANTS
    Half = 2
    Names = {1, 2, 3}
SPECIFICATION Spec
INVARIANTS TypeOK RingIsReference LookupHasResource LookupIsNearest MinimalDisruption
