SPECIFICATION Spec
CONSTANTS
   OtherRules <- MCOtherRules
   Names <- MCNames
INVARIANTS
   AdmittedIsCovered
   DependenciesAreUsable
   BudgetsStayInWorkspace
   ScopedSearchesAreRead
