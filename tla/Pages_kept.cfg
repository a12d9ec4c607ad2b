SPECIFICATION Spec
CONSTANT Widgets = {"cut"}
CHECK_DEADLOCK FALSE
INVARIANT EveryLineKept
