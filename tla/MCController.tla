---------------------------- MODULE MCController ----------------------------
(***************************************************************************)
(* Instances of ObservabilityController for TLC.                           *)
(***************************************************************************)
EXTENDS ObservabilityController

\* Three representative stages: one that only leaves objects, the one without
\* a cleanup stage, and the one that touches the labels of the CR.
ShortInstall == << PrometheusInstallation, Migration, Configuration >>
ShortCleanup == << PrometheusInstallation, Configuration >>

\* The smallest instance in which a pass can stop between two stages.
OneInstall == << Configuration >>
TwoCleanup == << PrometheusInstallation, Configuration >>

\* The two default specs; neither names a component.
DefaultSpecs == {"cloud", "local"}
DefaultNames == [s \in DefaultSpecs |-> ""]

\* The no-init ConfigMap exists from the start.
NoInitStart == Init /\ noInitCM = TRUE

NoInitSpec == NoInitStart /\ [][Next]_vars
=============================================================================
