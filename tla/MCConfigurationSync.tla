------------------------ MODULE MCConfigurationSync ------------------------
(***************************************************************************)
(* Instances of ConfigurationSync for TLC.                                 *)
(***************************************************************************)
EXTENDS ConfigurationSync

PlainCr == [syncOff |-> FALSE, obsOff |-> FALSE, descoped |-> FALSE,
            selector |-> TRUE, ownConfigSecret |-> FALSE,
            pagerDutyOff |-> FALSE, snitchOff |-> FALSE, smtpOff |-> FALSE,
            bearer |-> TRUE, exporterOff |-> FALSE, badPeriod |-> FALSE,
            selectors |-> "unset", federation |-> << <<1, "up">> >>]

Observatorium(id, secret) ==
    [id |-> id, secret |-> secret, auth |-> None, gateway |-> FALSE,
     dex |-> None, sso |-> {}]

Files(dashboards, rules, monitors) ==
    [k \in Kinds |-> CASE k = Dashboards  -> dashboards
                       [] k = Rules       -> rules
                       [] k = PodMonitors -> monitors]

Alert == [pagerDuty |-> "pager", snitch |-> None, mail |-> FALSE, smtp |-> None]

\* A service behind sso, and one by dex, which has a second observatorium with
\* its dex credentials in a secret of their own.
Kafka == [id |-> "kafka", config |-> TRUE, prometheus |-> TRUE,
          metricsTo |-> "sso", selectors |-> TRUE,
          federation |-> << <<0, "up">>, <<0, "cpu">> >>,
          files |-> Files(<<"d1">>, <<"r1">>, <<"m1", "m2">>),
          promtail |-> TRUE, logsTo |-> "sso", alert |-> {Alert},
          observatoria |-> << Observatorium("sso", "sso-secret") >>]
Connectors ==
         [id |-> "connectors", config |-> TRUE, prometheus |-> TRUE,
          metricsTo |-> "dex", selectors |-> FALSE,
          federation |-> << <<0, "up">> >>,
          files |-> Files(<<"d2">>, <<"r2">>, <<"m1", "m3">>),
          promtail |-> TRUE, logsTo |-> "old", alert |-> {Alert},
          observatoria |->
              << Observatorium("dex", "dex-secret"),
                 [Observatorium("old", None) EXCEPT
                     !.auth = Dex, !.gateway = TRUE, !.dex = "secret"] >>]

Clients(types) == [url |-> TRUE, clients |-> types]
SsoSecret == [auth |-> Redhat, gateway |-> TRUE, sso |-> Clients({Metrics, Logs})]
DexSecret == [auth |-> Dex, gateway |-> TRUE, sso |-> Clients({})]
Secrets   == [s \in {"sso-secret", "dex-secret", "dex"} |->
                 CASE s = "sso-secret" -> {SsoSecret}
                   [] s = "dex-secret" -> {DexSecret}
                   [] s = "dex"        -> {DexSecret}]

One == [cr |-> PlainCr, repo |-> [a |-> Kafka], creds |-> Secrets,
        oauth2 |-> FALSE, alerts |-> {"pager"}, bearer |-> {"t1"}]
Two == [One EXCEPT !.repo = [a |-> Kafka, b |-> Connectors]]

\* No sync gets past the token refreshers, and the resync period does not parse.
Malformed ==
    [One EXCEPT !.repo = [b |-> [Connectors EXCEPT !.observatoria =
                     << Observatorium("dex", "dex-secret"),
                        Observatorium("sso", "sso-secret") >>]],
                !.creds["sso-secret"] = {[SsoSecret EXCEPT !.sso.url = FALSE]},
                !.cr.badPeriod = TRUE]

SyncWorlds == {Two, [One EXCEPT !.repo = <<>>],
               [One EXCEPT !.cr.obsOff = TRUE],
               [One EXCEPT !.cr.syncOff = TRUE, !.cr.selectors = "given"],
               [One EXCEPT !.oauth2 = TRUE, !.cr.descoped = TRUE,
                           !.cr.ownConfigSecret = TRUE],
               [One EXCEPT !.repo = [b |-> Connectors], !.creds["dex"] = {},
                           !.alerts = {}, !.cr.bearer = FALSE,
                           !.cr.exporterOff = TRUE],
               Malformed}
JsonnetDashboards == {"d1"}

\* The secret of the sso observatorium comes without a client for logs.
NoLogsWorlds == {One, [One EXCEPT !.creds["sso-secret"] =
                           {[SsoSecret EXCEPT !.sso = Clients({Metrics})]}]}

\* Both services list the rule r1.
SharedRuleWorlds ==
    {[Two EXCEPT !.repo["a"].files[Rules] = <<"r1", "r2">>,
                 !.repo["b"].files[Rules] = <<"r1", "r3">>]}
=============================================================================
