----------------------------- MODULE StageNames -----------------------------
(***************************************************************************)
(* The stages of a reconcile pass and the two orders in which the          *)
(* controller runs them (api/v1/observability_types.go and                 *)
(* controllers/observability_controller.go).                               *)
(***************************************************************************)
EXTENDS Naturals, Sequences

GrafanaInstallation      == "Grafana"
GrafanaConfiguration     == "GrafanaConfiguration"
PrometheusInstallation   == "Prometheus"
PrometheusConfiguration  == "PrometheusConfiguration"
Csv                      == "Csv"
TokenRequest             == "TokenRequest"
PromtailInstallation     == "PromtailInstallation"
AlertmanagerInstallation == "AlertmanagerInstallation"
Configuration            == "configuration"
LoggingInstallation      == "Logging"
Migration                == "resource name migration"

ResultSuccess    == "success"
ResultFailed     == "failed"
ResultInProgress == "in progress"

Results == {ResultSuccess, ResultFailed, ResultInProgress}

\* The order of a pass over a live CR.
getInstallationStages ==
    << TokenRequest, PrometheusInstallation, PrometheusConfiguration,
       GrafanaInstallation, GrafanaConfiguration, AlertmanagerInstallation,
       PromtailInstallation, LoggingInstallation, Csv, Migration,
       Configuration >>

\* The order of a pass over a CR that is being deleted.  Migration has no
\* cleanup stage: its Reconcile only ever deletes objects.
getCleanupStages ==
    << PrometheusConfiguration, GrafanaConfiguration, PrometheusInstallation,
       GrafanaInstallation, AlertmanagerInstallation, PromtailInstallation,
       LoggingInstallation, Configuration, TokenRequest, Csv >>
=============================================================================
