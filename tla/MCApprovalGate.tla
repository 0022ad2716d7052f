--------------------------- MODULE MCApprovalGate ---------------------------
(* Two replicas, a dangerous tool call on one of them, and three answers: the *)
(* owner approves, the owner rejects, somebody else approves.                 *)
EXTENDS ApprovalGate

CONSTANTS r1, r2, tool, yes, no, stranger

TwoReplicas == {r1, r2}
OnFirst == [p \in Requests |-> r1]
OnlyTool == {tool}
AllCalls == {yes, no, stranger}
ToTool == [c \in Calls |-> tool]
Approvers == {yes, stranger}
Owners == {yes, no}
=============================================================================
