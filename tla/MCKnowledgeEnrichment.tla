----------------------- MODULE MCKnowledgeEnrichment -----------------------
(* Small instances of the knowledge lifecycle. *)
EXTENDS KnowledgeEnrichment

CONSTANTS summary, graph1, graph2, wiki

SummaryOrAll    == {{}, {summary}, Subtasks}
AllOrNothing    == {{}, Subtasks}
Everything      == {Subtasks}
=============================================================================
