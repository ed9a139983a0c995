CONSTANT Turns = {t1, t2, t3}
SPECIFICATION Spec
INVARIANT NoDeletedContext
CHECK_DEADLOCK FALSE
