------------------------- MODULE ConfigurationSync -------------------------
(***************************************************************************)
(* The configuration stage of a live CR, pass by pass: whether a pass      *)
(* synchronises at all, and how a sync brings tokens, token refreshers,    *)
(* alert routing, the Prometheus CR, dashboards, rules, pod monitors and   *)
(* promtail in line with the repositories, while the repositories, the CR  *)
(* and the secrets are edited and requests fail.                           *)
(*                                                                         *)
(* A sync works on the CR and the index files it has read, and reads the   *)
(* secrets when it needs them.  One step of a sync is one of its functions.*)
(* The other objects it makes (the resources deployment, the Alertmanager  *)
(* and Grafana CRs) are in StackStages, the claims in PrometheusVolume.    *)
(***************************************************************************)
EXTENDS TokenManager

CONSTANTS
    Worlds,     \* what users can make of the CR, repositories and secrets
    Jsonnet,    \* the dashboards whose file is jsonnet
    Period,     \* spec.resyncPeriod, in ticks, where it parses
    MaxEdits,   \* bound on what users change
    MaxFaults   \* bound on failed requests and crashes

ASSUME SyncBoundsAssumption ==
    Period \in Nat /\ MaxEdits \in Nat /\ MaxFaults \in Nat

VARIABLES
    world,      \* the CR, repositories and secrets as they are now
    pass,       \* the sync in progress
    synced,     \* ticks since status.lastSynced, up to Period; -1 if it is 0
    tokens,     \* the token secret of every observatorium
    refreshers, \* deployments of token refreshers: <<observatorium, type>>
    policies,   \* and their network policies
    configs,    \* the configuration of Alertmanager, of the additional scrape jobs
                \* (sequence of patterns) and of the blackbox exporter (bearer token)
    prometheus, \* the Prometheus CR: {} or a record
    resources,  \* dashboards, rules and pod monitors: <<name, index>>
    promtails,  \* the ids of the indexes with a promtail daemonset
    accepted,   \* the config secrets annotated as accepted
    seen,       \* has there been a pass since the last tick?
    edits, faults

owned == << tokens, refreshers, policies, configs, prometheus, resources,
            promtails, accepted >>
vars == << world, pass, synced, owned, seen, edits, faults >>

----------------------------------------------------------------------------
(* A world is a record                                                     *)
(*   cr       syncOff, obsOff, descoped, selector, ownConfigSecret,        *)
(*            pagerDutyOff, snitchOff, smtpOff, bearer, exporterOff,       *)
(*            badPeriod (spec.resyncPeriod does not parse): BOOLEAN;       *)
(*            selectors, and federation, a sequence of patterns            *)
(*   repo     for every config secret: the index file it points to         *)
(*   creds    for every name of a secret with credentials: its content     *)
(*   oauth2   is there a secret for remote write with OAuth2?              *)
(*   alerts   the names of the secrets for alert receivers                 *)
(*   bearer   the token of the blackbox exporter, if its secret exists      *)

ObservatoriumIds ==
    UNION {{o.id : o \in Range(index.observatoria)} :
           index \in UNION {Range(w.repo) : w \in Worlds}}

\* `steady`: since the sync began, have users left everything alone, and has
\* no failed request been passed over?
NoPass == [pc |-> "idle", cr |-> {}, indexes |-> <<>>, last |-> None, n |-> 1,
           steady |-> TRUE]

Init ==
    /\ world \in Worlds
    /\ pass = NoPass
    /\ synced = -1
    /\ tokens = [o \in ObservatoriumIds |-> NoToken]
    /\ refreshers = {} /\ policies = {}
    /\ configs = [receivers |-> {}, mail |-> FALSE, federation |-> <<>>,
                  blackbox |-> {}]
    /\ prometheus = {}
    /\ resources = [k \in Kinds |-> {}]
    /\ promtails = {}
    /\ accepted = {}
    /\ seen = FALSE /\ edits = 0 /\ faults = 0

At(pc) == pass.pc = pc
Go(pc) == pass' = [pass EXCEPT !.pc = pc, !.n = 1]
Cr     == CHOOSE cr \in pass.cr : TRUE

\* A sync that ends with an error starts over in a later pass.
Return == pass' = NoPass

\* A request fails or the process dies; what was done so far remains.
MoreFaults == faults < MaxFaults /\ faults' = faults + 1
NoFault    == UNCHANGED faults
Fault      == MoreFaults /\ Return

\* Go on, but if a failed request has been passed over then not steadily.
GoOn(pc, failed) ==
    /\ pass' = [pass EXCEPT !.pc = pc, !.n = 1, !.steady = @ /\ ~failed]
    /\ IF failed THEN MoreFaults ELSE NoFault

\* Delete the elements of `unwanted`, one request each, and go on.
DeleteAll(unwanted, gone, next) ==
    /\ gone \subseteq unwanted
    /\ \/ gone = unwanted /\ Go(next) /\ NoFault
       \/ gone # unwanted /\ Fault

\* Write the elements of a sequence in order, and go on.
WriteAll(wanted, made, next) ==
    /\ made \in Prefixes(wanted)
    /\ \/ made = wanted /\ Go(next) /\ NoFault
       \/ made # wanted /\ Fault

----------------------------------------------------------------------------
(* Does a pass synchronise?                                                *)

NothingToDo == ~world.cr.selector /\ ~world.cr.syncOff

\* Mutant: an expiring token does not force a sync.
Forced_NotByTokens == world.cr.syncOff \/ prometheus = {}

\* A token to renew, no external sync, or a missing CR.  The Prometheus CR stands
\* for the three checkForMissingCR looks for.  They are looked for once s.Migrated
\* is set, which the Migration stage does earlier in the same pass.
Forced == TokensExpired(tokens) \/ world.cr.syncOff \/ prometheus = {}

\* Mutant: only the first sync is ever due.
Due_Once == synced = -1

\* A resync period that does not parse ends the stage with an error.
Due == synced = -1 \/ (~world.cr.badPeriod /\ synced >= Period)

\* The pass leaves everything as it is, with an error or without.
SkipSync ==
    /\ At("idle")
    /\ NothingToDo \/ (~Forced /\ ~Due)
    /\ seen' = TRUE
    /\ UNCHANGED << world, pass, synced, owned, edits, faults >>

\* The label selector of the CR is dereferenced in every sync.
Begin ==
    /\ At("idle") /\ ~NothingToDo
    /\ pass' = [NoPass EXCEPT !.pc = IF world.cr.selector THEN "read"
                                     ELSE "panicked",
                              !.cr = {world.cr}]
    /\ seen' = TRUE
    /\ UNCHANGED << world, synced, owned, edits >>

StartSync == (Forced \/ Due) /\ Begin /\ NoFault

\* checkForMissingCR takes a CR it cannot read for a missing one.
StartNeedlessly == ~Forced /\ ~Due /\ Begin /\ MoreFaults

\* The index files are read in the order of a Go map.  All of them refer to
\* the config secret that was listed last.
ReadIndexes ==
    /\ At("read")
    /\ IF Cr.syncOff
       THEN Go("secrets") /\ UNCHANGED synced
       ELSE IF DOMAIN world.repo = {}
       THEN Return /\ synced' = -1
       ELSE /\ \E order \in SetToSeqs(DOMAIN world.repo),
                  last \in DOMAIN world.repo :
                   pass' = [pass EXCEPT
                       !.pc = "secrets", !.last = last,
                       !.indexes = [i \in DOMAIN order |-> world.repo[order[i]]]]
            /\ UNCHANGED synced
    /\ UNCHANGED << world, owned, seen, edits, faults >>

----------------------------------------------------------------------------
(* Tokens.                                                                 *)

\* A failed list of the secrets is not noticed: there is nothing to delete.
deleteUnrequestedCredentialSecrets ==
    /\ At("secrets")
    /\ LET expected == UNION {{o.id : o \in Range(index.observatoria)} :
                                index \in Range(pass.indexes)}
           unwanted == {o \in ObservatoriumIds : tokens[o] # NoToken} \ expected
       IN  \E gone \in SUBSET unwanted :
               /\ \/ DeleteAll(unwanted, gone, "observatoria")
                  \/ /\ gone = {} /\ unwanted # {}
                     /\ GoOn("observatoria", TRUE)
               /\ tokens' = [o \in ObservatoriumIds |->
                                IF o \in gone THEN NoToken ELSE tokens[o]]
    /\ UNCHANGED << world, synced, refreshers, policies, configs, prometheus,
                    resources, promtails, accepted, seen, edits >>

\* The observatoria of an index up to the first that cannot be configured.
Configurable(observatoria) ==
    LET bad == {i \in DOMAIN observatoria :
                   \/ transform(world.creds, observatoria[i]) = {}
                   \/ Diverges(world.creds, observatoria[i])}
    IN  [i \in 1 .. (Min(bad \cup {Len(observatoria) + 1}) - 1) |->
            CHOOSE o \in transform(world.creds, observatoria[i]) : TRUE]

\* One index.  If one of its observatoria cannot be configured, because its
\* secret is missing or cannot be read (`read` counts those that could), the
\* index is used as it was read.  All failures are only logged.
ReconcileObservatoria ==
    /\ At("observatoria") /\ pass.n <= Len(pass.indexes)
    /\ LET given == IF Cr.obsOff THEN <<>>
                    ELSE pass.indexes[pass.n].observatoria
           ready == Configurable(given)
           hangs == Len(ready) < Len(given)
                    /\ Diverges(world.creds, given[Len(ready) + 1])
       IN  \E read \in 0 .. Len(ready) :
           \E asks \in {{o.id : o \in {o \in Range(SubSeq(ready, 1, read)) :
                                          needsToken(tokens[o.id], o)}}} :
           \E done \in {read = Len(given)} :
           \E failed \in SUBSET asks :
           \E blank \in SUBSET (asks \ failed), stamped \in {done, FALSE} :
               /\ IF read = Len(ready) /\ failed \cup blank = {} /\ stamped = done
                  THEN NoFault ELSE MoreFaults
               /\ tokens' = renewed(tokens, Range(SubSeq(ready, 1, read)),
                                    failed, blank)
               /\ accepted' = accepted \cup (IF stamped THEN {pass.last} ELSE {})
               /\ IF hangs /\ read = Len(ready) THEN Go("hung")
                  ELSE pass' = [pass EXCEPT
                           !.n = @ + 1,
                           !.steady = @ /\ read = Len(ready),
                           !.indexes[pass.n].observatoria =
                               IF done /\ ~Cr.obsOff THEN ready ELSE @]
    /\ UNCHANGED << world, synced, refreshers, policies, configs, prometheus,
                    resources, promtails, seen, edits >>

ObservatoriaDone ==
    /\ At("observatoria") /\ pass.n > Len(pass.indexes)
    /\ Go("unrequested refreshers")
    /\ UNCHANGED << world, synced, owned, seen, edits, faults >>

----------------------------------------------------------------------------
(* Token refreshers.                                                       *)

ShouldExist(name) ==
    refresherShouldExist(Cr, world.oauth2, pass.indexes, name)

\* Deletes what should not exist, in the order of the list, which may reach
\* a name for which the question has no answer.
DeleteUnrequested(existing, gone, next) ==
    LET unwanted == {name \in existing : ShouldExist(name) = "no"}
    IN  IF \E name \in existing : ShouldExist(name) = "panic"
        THEN gone \subseteq unwanted /\ Go("panicked") /\ NoFault
        ELSE DeleteAll(unwanted, gone, next)

deleteUnrequestedTokenRefreshers ==
    /\ At("unrequested refreshers")
    /\ \E gone \in SUBSET refreshers :
           /\ DeleteUnrequested(refreshers, gone, "unrequested policies")
           /\ refreshers' = refreshers \ gone
    /\ UNCHANGED << world, synced, tokens, policies, configs, prometheus,
                    resources, promtails, accepted, seen, edits >>

deleteUnrequestedNetworkPolicies ==
    /\ At("unrequested policies")
    /\ \E gone \in SUBSET policies :
           /\ DeleteUnrequested(policies, gone, "refreshers")
           /\ policies' = policies \ gone
    /\ UNCHANGED << world, synced, tokens, refreshers, configs, prometheus,
                    resources, promtails, accepted, seen, edits >>

\* For each refresher the network policy first, then the deployment.
reconcileTokenRefresher ==
    /\ At("refreshers")
    /\ LET all    == requestedRefreshers(Cr, world.oauth2, pass.indexes)
           stop   == SelectInSeq(all, LAMBDA r : r = Incomplete)
           wanted == IF stop = 0 THEN all ELSE SubSeq(all, 1, stop - 1)
       IN  \E made, covered \in Prefixes(wanted) :
               /\ \/ /\ made = wanted /\ covered = wanted /\ NoFault
                     /\ IF stop = 0 THEN Go("alerts") ELSE Return
                  \/ /\ Len(covered) \in {Len(made), Len(made) + 1}
                     /\ made # wanted /\ Fault
               /\ refreshers' = refreshers \cup Range(made)
               /\ policies' = policies \cup Range(covered)
    /\ UNCHANGED << world, synced, tokens, configs, prometheus, resources,
                    promtails, accepted, seen, edits >>

----------------------------------------------------------------------------
(* Alertmanager and Prometheus.                                            *)

\* A secret for a receiver that cannot be read counts as missing.
reconcileAlertmanagerSecret ==
    /\ At("alerts")
    /\ LET global == createGlobalConfig(Cr, world.alerts, pass.indexes)
           reads  == UNION {alertSecrets(Cr, world.alerts, index) :
                               index \in Range(pass.indexes)}
       IN  IF Cr.syncOff \/ Cr.ownConfigSecret
           THEN GoOn("federation", FALSE) /\ UNCHANGED configs
           ELSE IF global = "panic"
           THEN GoOn("panicked", FALSE) /\ UNCHANGED configs
           ELSE IF global = "error"
           THEN Return /\ UNCHANGED << configs, faults >>
           ELSE \E unread \in SUBSET reads :
                   /\ configs' = [configs EXCEPT
                          !.receivers = receivers(Cr, world.alerts, unread,
                                                  pass.indexes),
                          !.mail = (global = "mail")]
                   /\ GoOn("federation", unread # {})
    /\ UNCHANGED << world, synced, tokens, refreshers, policies, prometheus,
                    resources, promtails, accepted, seen, edits >>

createAdditionalScrapeConfigSecret ==
    /\ At("federation")
    /\ configs' = [configs EXCEPT
                      !.federation = fetchFederationConfigs(Cr, pass.indexes)]
    /\ Go("blackbox")
    /\ UNCHANGED << world, synced, tokens, refreshers, policies, prometheus,
                    resources, promtails, accepted, seen, edits, faults >>

\* If the secret with the bearer token cannot be read, there is no token.
createBlackBoxConfig ==
    /\ At("blackbox")
    /\ \E token \in {IF Cr.bearer THEN world.bearer ELSE {}} :
       \E read \in {token, {}} :
           /\ configs' = [configs EXCEPT !.blackbox = read]
           /\ GoOn("prometheus", read # token)
    /\ UNCHANGED << world, synced, tokens, refreshers, policies, prometheus,
                    resources, promtails, accepted, seen, edits >>

\* An index without prometheus section is dereferenced all the same.  A remote
\* write is left out if the secret for OAuth2 cannot be read.  A hash of the
\* configuration of the blackbox exporter restarts it when that changes.
reconcilePrometheus ==
    /\ At("prometheus")
    /\ IF ~Cr.obsOff /\ \E index \in Range(pass.indexes) : ~index.prometheus
       THEN GoOn("panicked", FALSE) /\ UNCHANGED prometheus
       ELSE \E writes \in {remoteWrites(Cr, world.oauth2, pass.indexes)} :
            \E lost \in SUBSET {w \in writes : w[3] # "secret"} :
               /\ prometheus' =
                      {[writes    |-> writes \ lost,
                        selectors |-> selectorsFrom(Cr, pass.indexes),
                        exporter  |-> IF Cr.exporterOff THEN {}
                                      ELSE {configs.blackbox}]}
               /\ GoOn(CASE Cr.syncOff  -> "deadman"
                         [] Cr.descoped -> "unrequested rules"
                         [] OTHER       -> "unrequested dashboards", lost # {})
    /\ UNCHANGED << world, synced, tokens, refreshers, policies, configs,
                    resources, promtails, accepted, seen, edits >>

----------------------------------------------------------------------------
(* Dashboards, rules, pod monitors and promtail.                           *)

Steps == [dashboards   |-> [delete |-> "unrequested dashboards",
                            write  |-> "dashboards",
                            next   |-> "unrequested rules"],
          rules        |-> [delete |-> "unrequested rules",
                            write  |-> "rules",
                            next   |-> "unrequested monitors"],
          pod_monitors |-> [delete |-> "unrequested monitors",
                            write  |-> "monitors",
                            next   |-> "unrequested promtails"]]

deleteUnrequested(kind) ==
    /\ At(Steps[kind].delete)
    /\ LET requested == Names(Range(getUnique(kind, pass.indexes)))
           unwanted  == {r \in resources[kind] : r[1] \notin requested}
       IN  \E gone \in SUBSET unwanted :
               /\ DeleteAll(unwanted, gone, Steps[kind].write)
               /\ resources' = [resources EXCEPT ![kind] = @ \ gone]
    /\ UNCHANGED << world, synced, tokens, refreshers, policies, configs,
                    prometheus, promtails, accepted, seen, edits >>

\* Mutant: a resource is created beside the one with its name.
createRequested_Beside(kind) ==
    /\ At(Steps[kind].write)
    /\ LET wanted == SelectSeq(getUnique(kind, pass.indexes),
                               LAMBDA r : kind = Dashboards => r[1] \notin Jsonnet)
       IN  \E made \in Prefixes(wanted) :
               /\ WriteAll(wanted, made, Steps[kind].next)
               /\ resources' = [resources EXCEPT ![kind] = @ \cup Range(made)]
    /\ UNCHANGED << world, synced, tokens, refreshers, policies, configs,
                    prometheus, promtails, accepted, seen, edits >>

\* A dashboard in jsonnet is fetched, and then left out.
createRequested(kind) ==
    /\ At(Steps[kind].write)
    /\ LET wanted == SelectSeq(getUnique(kind, pass.indexes),
                               LAMBDA r : kind = Dashboards => r[1] \notin Jsonnet)
       IN  \E made \in Prefixes(wanted) :
               /\ WriteAll(wanted, made, Steps[kind].next)
               /\ resources' = [resources EXCEPT ![kind] =
                      Range(made)
                      \cup {r \in @ : r[1] \notin Names(Range(made))}]
    /\ UNCHANGED << world, synced, tokens, refreshers, policies, configs,
                    prometheus, promtails, accepted, seen, edits >>

createDMSAlert ==
    /\ At("deadman")
    /\ resources' = [resources EXCEPT ![Rules] =
                         @ \cup {<<"generated-deadmansswitch", None>>}]
    /\ Go("unrequested promtails")
    /\ UNCHANGED << world, synced, tokens, refreshers, policies, configs,
                    prometheus, promtails, accepted, seen, edits, faults >>

deleteUnrequestedDaemonsets ==
    /\ At("unrequested promtails")
    /\ LET unwanted == {id \in promtails :
                           ~promtailShouldExist(Cr, pass.indexes, id)}
       IN  \E gone \in SUBSET unwanted :
               /\ DeleteAll(unwanted, gone, "promtails")
               /\ promtails' = promtails \ gone
    /\ UNCHANGED << world, synced, tokens, refreshers, policies, configs,
                    prometheus, resources, accepted, seen, edits >>

createPromtailDaemonsets ==
    /\ At("promtails")
    /\ LET wanted == requestedPromtails(Cr, pass.indexes)
       IN  \E made \in Prefixes(wanted) :
               /\ WriteAll(wanted, made, "stamp")
               /\ promtails' = promtails \cup Range(made)
    /\ UNCHANGED << world, synced, tokens, refreshers, policies, configs,
                    prometheus, resources, accepted, seen, edits >>

\* The sync is complete; the time is saved with the status of the CR.
StampSync ==
    /\ At("stamp")
    /\ synced' = IF Cr.syncOff THEN -1 ELSE 0
    /\ Return
    /\ UNCHANGED << world, owned, seen, edits, faults >>

----------------------------------------------------------------------------

\* Any request of a step fails before the step has done anything.
SyncFails ==
    /\ pass.pc \notin {"idle", "panicked", "hung"}
    /\ Fault
    /\ UNCHANGED << world, synced, owned, seen, edits >>

Worker ==
    \/ SkipSync \/ StartSync \/ ReadIndexes
    \/ deleteUnrequestedCredentialSecrets
    \/ ReconcileObservatoria \/ ObservatoriaDone
    \/ deleteUnrequestedTokenRefreshers
    \/ deleteUnrequestedNetworkPolicies
    \/ reconcileTokenRefresher
    \/ reconcileAlertmanagerSecret
    \/ createAdditionalScrapeConfigSecret \/ createBlackBoxConfig
    \/ reconcilePrometheus
    \/ \E kind \in Kinds : deleteUnrequested(kind) \/ createRequested(kind)
    \/ createDMSAlert
    \/ deleteUnrequestedDaemonsets \/ createPromtailDaemonsets
    \/ StampSync

\* A tick is long compared with a pass and with the delay between two passes.
Tick ==
    /\ At("idle") /\ seen
    /\ seen' = FALSE
    /\ tokens' = [o \in ObservatoriumIds |-> older(tokens[o])]
    /\ synced' = IF synced = -1 \/ synced = Period THEN synced ELSE synced + 1
    /\ UNCHANGED << world, pass, refreshers, policies, configs, prometheus,
                    resources, promtails, accepted, edits, faults >>

Edit ==
    /\ edits < MaxEdits /\ edits' = edits + 1
    /\ world' \in Worlds \ {world}
    /\ pass' = [pass EXCEPT !.steady = (pass.pc = "idle")]
    /\ UNCHANGED << synced, owned, seen, faults >>

\* Someone deletes the Prometheus CR.
LosePrometheus ==
    /\ edits < MaxEdits /\ edits' = edits + 1
    /\ prometheus # {} /\ prometheus' = {}
    /\ pass' = [pass EXCEPT !.steady = (pass.pc = "idle")]
    /\ UNCHANGED << world, synced, tokens, refreshers, policies, configs,
                    resources, promtails, accepted, seen, faults >>

Next == Worker \/ StartNeedlessly \/ SyncFails \/ Tick \/ Edit \/ LosePrometheus

Spec == Init /\ [][Next]_vars

\* Can the worker do something?
Working == /\ ~At("panicked") /\ ~At("hung")
           /\ At("idle") => ~seen \/ (~NothingToDo /\ (Forced \/ Due))

\* The manager requeues every CR, and time passes.  The first conjunct is weak
\* fairness of Worker with ENABLED <<Worker>>_vars written out as Working.
LiveSpec == /\ Spec
            /\ []<>~Working \/ []<><<Worker>>_vars
            /\ WF_vars(Tick)

----------------------------------------------------------------------------
(* What a world asks for, without regard to how a sync gets there.         *)

Indexes == IF world.cr.syncOff THEN {} ELSE Range(world.repo)

\* The observatoria of an index, configured only if all of them can be.
InForce(index) ==
    LET given == Range(index.observatoria)
    IN  IF \E o \in given : transform(world.creds, o) = {} THEN given
        ELSE UNION {transform(world.creds, o) : o \in given}

\* There is a configuration, and one that a sync can get through: the resync
\* period parses, and so do the urls of the sso observatoria that are in force,
\* which have a gateway.
Configured ==
    \/ world.cr.syncOff
    \/ /\ DOMAIN world.repo # {} /\ ~world.cr.badPeriod
       /\ \A index \in Indexes : \A o \in InForce(index) :
              o.auth = Redhat => o.gateway /\ ~BadUrl(o)

Requested(kind) == UNION {Range(index.files[kind]) : index \in Indexes}

\* The refreshers of an index: one for each client of its sso observatoria.
Refreshers(index) ==
    {<<o.id, t>> : o \in {o \in InForce(index) : o.auth = Redhat},
                   t \in IF index.promtail THEN {Metrics, Logs} ELSE {Metrics}}
    \cap UNION {{<<o.id, t>> : t \in UNION {s.clients : s \in o.sso}} :
                o \in InForce(index)}

RefreshersApplied ==
    /\ refreshers = IF world.cr.obsOff \/ world.oauth2 THEN {}
                    ELSE UNION {Refreshers(index) : index \in Indexes}
    /\ policies = refreshers

TokensApplied ==
    {o \in ObservatoriumIds : tokens[o] # NoToken} \subseteq
        UNION {{o.id : o \in Range(index.observatoria)} : index \in Indexes}

PromtailsApplied ==
    promtails = IF world.cr.obsOff THEN {}
                ELSE {index.id : index \in {index \in Indexes :
                         /\ index.promtail
                         /\ \E o \in Range(index.observatoria) :
                                o.id = index.logsTo}}

WritesApplied ==
    \E p \in prometheus :
        {<<w[1], w[2]>> : w \in p.writes} =
            IF world.cr.obsOff THEN {}
            ELSE {<<index.id, index.metricsTo>> : index \in
                     {index \in Indexes : \E o \in InForce(index) :
                         o.id = index.metricsTo /\ o.auth \in {Dex, Redhat}}}

\* Rules and dashboards: nothing is left that no index asks for.
FilesApplied ==
    world.cr.syncOff \/
        /\ Names(resources[PodMonitors]) = Requested(PodMonitors)
        /\ Names(resources[Rules]) \subseteq Requested(Rules)
        /\ world.cr.descoped \/
               Names(resources[Dashboards]) \subseteq Requested(Dashboards)

\* Every enabled receiver of every service, unless one of their secrets is
\* missing; none that no one asked for.
ReceiversApplied ==
    LET enabled == {r \in {"pagerduty", "snitch", "smtp"} :
                       CASE r = "pagerduty" -> ~world.cr.pagerDutyOff
                         [] r = "snitch"    -> ~world.cr.snitchOff
                         [] r = "smtp"      -> ~world.cr.smtpOff}
        asked   == UNION {{<<index.id, r>> : r \in
                              {r \in enabled : \E alert \in index.alert :
                                                   r = "smtp" => alert.mail}} :
                          index \in Indexes}
        known   == \A index \in Indexes : \A alert \in index.alert :
                       {alert.pagerDuty, alert.snitch} \subseteq
                           world.alerts \cup {None}
    IN  /\ configs.receivers \subseteq asked
        /\ known => configs.receivers = asked

FederationApplied ==
    {p[2] : p \in Range(configs.federation)} =
        {p[2] : p \in IF world.cr.syncOff THEN Range(world.cr.federation)
                      ELSE UNION {Range(index.federation) : index \in Indexes}}

\* The exporter runs with the configuration that is stored.
ConfigsApplied ==
    /\ world.cr.syncOff \/ world.cr.ownConfigSecret \/ ReceiversApplied
    /\ FederationApplied
    /\ configs.blackbox = IF world.cr.bearer THEN world.bearer ELSE {}
    /\ \A p \in prometheus : p.exporter \subseteq {configs.blackbox}

ContentApplied ==
    PromtailsApplied /\ WritesApplied /\ FilesApplied /\ ConfigsApplied

Applied == TokensApplied /\ RefreshersApplied /\ ContentApplied

----------------------------------------------------------------------------
(* Properties.                                                             *)

\* Every variable has its type: tokens as TokenManager stores them, a sync
\* only with the CR it has read, resources one per name.
TypeOK ==
    /\ world \in Worlds
    /\ pass.pc # "idle" => pass.cr # {}
    /\ pass.n \in 1 .. Len(pass.indexes) + 1
    /\ synced \in -1 .. Period
    /\ tokens \in [ObservatoriumIds -> Tokens]
    /\ refreshers \cup policies \subseteq ObservatoriumIds \X {Metrics, Logs}
    /\ \A kind \in Kinds : \A r1, r2 \in resources[kind] :
           r1[1] = r2[1] => r1 = r2
    /\ seen \in BOOLEAN /\ edits \in 0 .. MaxEdits /\ faults \in 0 .. MaxFaults

\* When a sync is about to record its time (Reconcile of the configuration
\* stage, "Next status: update timestamp"), no one has edited anything since
\* it began, and it could read every secret, then the cluster is what the CR,
\* the repositories and the secrets ask for, whatever earlier syncs left half
\* done.
SyncedMeansApplied == At("stamp") /\ pass.steady => Applied

\* A sync of what is already applied disturbs nothing: deleting what is
\* unrequested and then writing what is requested never takes down a
\* promtail, a remote write, a pod monitor or a receiver in between, unless
\* it passes over a failed request.
ResyncIsInvisible ==
    [][/\ UNCHANGED << world, edits >>
       /\ << promtails, prometheus, resources, configs >>'
              # << promtails, prometheus, resources, configs >>
       /\ pass.steady /\ pass'.steady /\ ContentApplied
       => ContentApplied']_vars

\* As long as an observatorium is listed, its token is never lost, however
\* many renewals fail (ReconcileObservatoria keeps the old token) and however
\* many syncs are cut short.  Only an answer of dex without a token, which
\* Fetch does not tell from one with a token, takes its place.
TokenKept ==
    [][\A o \in ObservatoriumIds : ~tokens[o].empty /\ tokens'[o].empty =>
           \/ ~pass.steady
           \/ tokens'[o] = BlankToken
           \/ \A index \in Indexes : \A x \in Range(index.observatoria) :
                  x.id # o]_vars

\* The time by which AuthTokenExpires renews in advance is enough: the token of
\* a dex observatorium that can be configured never expires, though syncs and
\* requests for tokens fail, be it in every sync after the tokens are renewed.
NoTokenExpires ==
    \A id \in ObservatoriumIds :
        tokens[id].left = 0 /\ ~tokens[id].empty /\ ~world.cr.obsOff =>
            \A index \in Indexes : \A o \in Range(Configurable(index.observatoria)) :
                ~(o.id = id /\ o.auth = Dex /\ o.dex # None)

\* When users stop editing and requests stop failing, the cluster is what they
\* asked for, and stays so, even after a sync that passed over a failure, given
\* a resync period and urls that parse.  The
\* token refreshers may be deleted and created again by every sync (shouldExist
\* returns false at the first observatorium without sso), but not for good.
\* Without a configuration secret the operator waits for one.
EventuallyApplied ==
    /\ <>[](Configured => TokensApplied /\ ContentApplied)
    /\ []<>(Configured => RefreshersApplied)

\* "Check which rules are no longer requested and delete them": a sync deletes
\* a rule only if none of the indexes it has read lists it.
OnlyUnrequestedRulesDeleted ==
    [][\A name \in Names(resources[Rules]) \ Names(resources'[Rules]) :
           \A index \in Range(pass.indexes) :
               name \notin Range(index.files[Rules])]_vars

\* "Do not abort in case of error, setups that skip logs are expected": no sync
\* dereferences a nil pointer, which would end the process.
NeverPanics == ~At("panicked")
=============================================================================
