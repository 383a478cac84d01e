SPECIFICATION Spec
CONSTANT Worlds <- MCWorlds
INVARIANT SelfContained
\* A walk ends.
CHECK_DEADLOCK FALSE
