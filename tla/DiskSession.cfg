SPECIFICATION Spec
CONSTANTS
  Sources = {s1, s2, s3}
  Adapters = {a1, a2, a3}
  None = None
INVARIANTS
  
  SourcesAgree
  AnalysisAgrees
  PreparedIsCurrent
