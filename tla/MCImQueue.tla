---- MODULE MCImQueue ----
EXTENDS ImQueue
CONSTANTS i1, i2, u1, u2
\* two requests of one user and one of another
MCFrom == <<u1, u1, u2>>
====
