-------------------------- MODULE MCEvaluationGateway --------------------------
(* One credential.  The product that asks for data and the one that asks the   *)
(* model are connected to two processes.                                       *)
EXTENDS EvaluationGateway

CONSTANTS c1, p1, p2, MaxData, Rate

MCCredentialOf == [o \in Operation |-> c1]
MCReaches == [o \in Operation |-> IF o \in Data THEN {p1} ELSE {p2}]
MCMaximum == [c \in Credential |-> [k \in Kind |-> IF k = "data" THEN MaxData ELSE 1]]
MCPerMinute == [c \in Credential |-> Rate]
MCExpiresAt == [c \in Credential |-> LastMinute + 1]

=============================================================================
