---- MODULE MCWikiQueue ----
EXTENDS WikiQueue
CONSTANTS d1, d2
\* Documents are alike: d1 is the first that anything happens to.
Touched == DocsOf(Ids) \cup {d \in Docs : Abandoned(d)}
MCNext == Next /\ (Touched' = {} \/ d1 \in Touched')
MCSpec == Init /\ [][MCNext]_vars /\ Fairness
====
