SPECIFICATION Spec
CONSTANT Documents <- MCDocuments
INVARIANT ConvertedBack
\* A conversion ends.
CHECK_DEADLOCK FALSE
