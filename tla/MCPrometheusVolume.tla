------------------------- MODULE MCPrometheusVolume -------------------------
(***************************************************************************)
(* Instances of PrometheusVolume for TLC.                                  *)
(***************************************************************************)
EXTENDS PrometheusVolume

\* The default name, and one a CR may ask for.
DefaultClaim == {New}
AnyClaim == {New, "managed-services-prometheus-own-prometheus-0"}

NoOther == {}
NoVolumes == [c \in NoOther |-> None]

\* Alertmanager has a claim in the same namespace.
Alertmanager == "alertmanager"
AlertmanagerClaim == {Alertmanager}
AlertmanagerVolume == [c \in AlertmanagerClaim |-> "silences"]
=============================================================================
