CONSTANTS
  None = None
  File <- Files
  Option <- Options
  Faults = {"io"}
SPECIFICATION Spec
INVARIANT OneSource
INVARIANT BestField
INVARIANT Verified
INVARIANT XmlAgrees
INVARIANT NotRefused
INVARIANT NoFailedResult
