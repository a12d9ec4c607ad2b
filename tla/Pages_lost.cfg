SPECIFICATION Spec
CONSTANT Widgets = {"previews"}
CHECK_DEADLOCK FALSE
INVARIANT TextIsKept
