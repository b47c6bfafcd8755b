\* Ids in the query and in the body of a POST.
SPECIFICATION Spec
CONSTANTS
   Items <- MCItems
   Unquotable <- MCUnquotable
   Callers <- MCCallers
   Requests <- MCPostedSearches
INVARIANTS
   BothSourcesAreNarrowed
