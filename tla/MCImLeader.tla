---- MODULE MCImLeader ----
EXTENDS ImLeader
CONSTANTS i1, i2
====
