-------------------------- MODULE MCAdaptiveRecovery --------------------------
(* An instance of AdaptiveRecovery for TLC: the four registered routes and   *)
(* two deliveries, of one scope or of two.                                   *)
EXTENDS AdaptiveRecovery

Deliveries == {"d1", "d2"}
Scopes == {"s1", "s2"}

Routes == {"sol", "luna", "terra", "mimo"}
Places == [sol |-> 1, luna |-> 2, terra |-> 3, mimo |-> 4]
Providers == [sol |-> "teamorouter", luna |-> "teamorouter", terra |-> "teamorouter",
              mimo |-> "mimo"]
\* The four routes are within the reach of a walk.
ASSUME RoutesAssumption == RoutesInReach

Grants == [sol |-> {}, luna |-> {"terra"}, terra |-> {}, mimo |-> {}]

Found(mode, authority, prior, second) ==
    [scope |-> [d1 |-> "s1", d2 |-> second], mode |-> mode, authority |-> authority,
     prior |-> prior]

\* The capability of the first route matters only if it is quarantined.
Priors == { p \in [Routes -> Capability] : p["sol"] = "UNKNOWN" }
Unknown == [r \in Routes |-> "UNKNOWN"]

\* Twice the same scope, with credentials for every route or all but one and
\* anything known of them; and two scopes of which nothing is known.  Generated
\* capabilities are not asked of mimo.
SomeSettings ==
         { Found(m, a, p, "s1") : m \in {"plain", "walk"}, p \in Priors,
               a \in {Routes, Routes \ {"terra"}, Routes \ {"sol"}} }
    \cup { Found("generated", a, p, "s1") : p \in { q \in Priors : q["mimo"] = "UNKNOWN" },
               a \in {Routes \ {"mimo"}, Routes \ {"mimo", "sol"}} }
    \cup { Found("plain", Routes, [Unknown EXCEPT !["sol"] = "QUARANTINED"], "s1") }
    \cup { Found("plain", Routes, Unknown, "s2"),
           Found("generated", Routes \ {"mimo"}, Unknown, "s2") }
=============================================================================
