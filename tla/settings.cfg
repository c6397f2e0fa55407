SPECIFICATION Spec
PROPERTIES EditsAreLocal WritesReadBack
