---------------------------- MODULE MCEngineReload ----------------------------
\* EngineReload on small instances.
EXTENDS EngineReload

CONSTANTS rules1, rules2, broken, nullRule, f1, f2
================================================================================
