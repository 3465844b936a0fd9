----------------------------- MODULE MCChatWarmup -----------------------------
\* ChatWarmup on small instances.
EXTENDS ChatWarmup

CONSTANTS w1, w2
================================================================================
