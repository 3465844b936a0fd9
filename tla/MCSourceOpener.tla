---------------------------- MODULE MCSourceOpener ----------------------------
\* SourceOpener on small instances.
EXTENDS SourceOpener

CONSTANTS ch1, ch2, group
================================================================================
