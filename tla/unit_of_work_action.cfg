SPECIFICATION Spec
INVARIANT EffectOnce
CHECK_DEADLOCK FALSE
