SPECIFICATION Spec
CONSTANTS
  Groups <- MCGroups
  Values <- MCValues
  Short <- MCShort
  Mappings <- MCMappings
INVARIANTS Decoded EvaluatedInside DeltaFollows
