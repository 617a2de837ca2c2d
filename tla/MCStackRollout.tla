--------------------------- MODULE MCStackRollout ---------------------------
(***************************************************************************)
(* Instances of StackRollout for TLC.                                      *)
(***************************************************************************)
EXTENDS StackRollout

\* A CR with a selector, synchronised from GitHub, and its variants.
Plain == [descoped |-> FALSE, externalSyncOff |-> FALSE,
          observatoriumOff |-> FALSE, logging |-> "unset", selector |-> TRUE,
          named |-> FALSE, ownConfigSecret |-> FALSE, container |-> FALSE]
SelfContained == [Plain EXCEPT !.externalSyncOff = TRUE, !.named = TRUE]
Logging       == [Plain EXCEPT !.logging = "on", !.observatoriumOff = TRUE,
                               !.container = TRUE, !.ownConfigSecret = TRUE]
Descoped      == [Plain EXCEPT !.descoped = TRUE]

AllCrds == {Crds(op) : op \in Operators}
Fresh   == AllCrds \cup {ConfigSecret, NoInitConfigMap}
\* Installed by OLM, beside a logging namespace.
ByOlm   == Fresh \cup {OlmOperatorGroup, LoggingNamespace}
\* Left by an earlier version: objects with old names, or the old CSV and
\* subscription of an operator.
OldNames  == Fresh \cup {Cr(OldPrometheus), Cr(OldGrafana), OldClaim}
             \cup Access(OldPrometheus) \cup Access(OldPromtail)
OldPrometheusOperator ==
    Fresh \cup {OldCsv(PrometheusOperator), Deployment(PrometheusOperator),
                Ready(PrometheusOperator), Subscription(PrometheusOperator),
                OperatorGroup}
OldGrafanaOperator ==
    Fresh \cup {OldCsv(GrafanaOperator), Deployment(GrafanaOperator),
                Ready(GrafanaOperator), OldGrafanaSubscription, OlmOperatorGroup}

\* A CR without selfContained block, and one whose descoped Prometheus is
\* configured from an image.
NoSelfContained == [Plain EXCEPT !.logging = "none"]
DescopedImage   == [Descoped EXCEPT !.container = TRUE]
Synchronised    == [SelfContained EXCEPT !.externalSyncOff = FALSE]
NoObservatorium == [Synchronised EXCEPT !.observatoriumOff = TRUE]

\* Neither external sync nor Observatorium, after a version with promtail.
Isolated == [SelfContained EXCEPT !.observatoriumOff = TRUE]

ScopedStarts == {<<Plain, OldNames>>, <<Isolated, Access(OldPromtail)>>,
                 <<SelfContained, OldPrometheusOperator>>, <<Logging, ByOlm>>}
LiveStarts == {<<SelfContained, Fresh>>, <<DescopedImage, Fresh>>,
               <<NoSelfContained, ByOlm>>,
               <<SelfContained, Fresh \cup {GlobalOperatorGroup}>>}
EditStarts == {<<SelfContained, Fresh>>, <<NoObservatorium, Fresh>>,
               <<Synchronised, AllCrds \cup {NoInitConfigMap}>>}

UpgradeStarts == {<<SelfContained, OldGrafanaOperator>>}
=============================================================================
