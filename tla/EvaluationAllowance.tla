-------------------------- MODULE EvaluationAllowance --------------------------
(***************************************************************************)
(* What a credential of the evaluator gateway is worth, however many       *)
(* processes serve it and whenever they stop: each grant pays for one      *)
(* dispatch, a credential has so many of each kind in all and so many of   *)
(* any kind a minute, and none once it is revoked                          *)
(* (CredentialStore of src/src/evaluator/store.py).                        *)
(***************************************************************************)
EXTENDS Integers, FiniteSets

CONSTANTS
    Credential,     \* credentials the owner may issue
    Operation,      \* what the evaluator's product asks for
    CredentialOf,   \* [Operation -> Credential]
    KindOf,         \* [Operation -> "llm" or "data"]
    Maximum,        \* [Credential -> [kind -> grants in all]]
    PerMinute,      \* [Credential -> grants a minute]
    Try,            \* the tries of an operation
    Minute          \* the minutes of the clock

VARIABLES
    grants,     \* the grants given: an operation, its try and the minute
    revoked     \* the credentials revoked

Grant == [ operation : Operation, try : Try, minute : Minute ]

OfKind(c, k) == { g \in grants : CredentialOf[g.operation] = c /\ KindOf[g.operation] = k }
InMinute(c, m) == { g \in grants : CredentialOf[g.operation] = c /\ g.minute = m }

Init == grants = {} /\ revoked = {}

\* One grant is given.
Give(g) ==
    LET c == CredentialOf[g.operation]
    IN  /\ c \notin revoked
        /\ \A h \in grants : <<h.operation, h.try>> # <<g.operation, g.try>>
        /\ Cardinality(OfKind(c, KindOf[g.operation])) < Maximum[c][KindOf[g.operation]]
        /\ Cardinality(InMinute(c, g.minute)) < PerMinute[c]
        /\ grants' = grants \cup {g}
        /\ UNCHANGED revoked

\* The owner takes a credential back.
TakeBack(c) ==
    /\ revoked' = revoked \cup {c}
    /\ UNCHANGED grants

Next == (\E g \in Grant : Give(g)) \/ \E c \in Credential : TakeBack(c)

Spec == Init /\ [][Next]_<<grants, revoked>>

=============================================================================
