SPECIFICATION Spec
CONSTANTS
   Items <- MCItems
   Unquotable <- MCUnquotable
   Callers <- MCCallers
   Requests <- MCRequests
INVARIANTS
   ShownIsReadable
   NarrowingNeverWidens
   ReadableIsKept
   ContextEndsWithRequest
