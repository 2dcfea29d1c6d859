SPECIFICATION FairSpec
CONSTANT Items <- FiveItems
INVARIANTS Inv
PROPERTIES ActsAsSet CallReturns
