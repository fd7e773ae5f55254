SPECIFICATION Spec
INVARIANTS SeedsFit
