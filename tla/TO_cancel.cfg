\* Owner resets up to three times and cancels from either thread.
CONSTANTS
  Main = Main
  Other = Other
  MaxResets = 3
SPECIFICATION Spec
INVARIANT CancelPreventsCallback
PROPERTY ArmedEventuallyDeleted
\* The object deletes itself and the owner stops: the system really halts.
CHECK_DEADLOCK FALSE
