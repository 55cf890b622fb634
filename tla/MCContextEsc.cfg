CONSTANT Gens = {1, 2}
SPECIFICATION Spec
INVARIANT InterruptsAreTransparent
