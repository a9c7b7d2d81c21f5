SPECIFICATION Spec
CONSTANT Unit = 1
INVARIANT InclusionSumsToK
