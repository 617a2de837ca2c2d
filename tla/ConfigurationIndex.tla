------------------------- MODULE ConfigurationIndex -------------------------
(***************************************************************************)
(* What the index files of the configuration repositories ask for: the     *)
(* pure functions of the configuration stage.  `indexes` is the sequence   *)
(* of the index files a sync has read, in the order it works through them. *)
(*                                                                         *)
(* An index is a record                                                    *)
(*   id          index.Id                                                  *)
(*   config      is there a config section?  Without one the fields below  *)
(*               are FALSE, None or empty                                  *)
(*   prometheus  is there a config.prometheus section?                     *)
(*   metricsTo   config.prometheus.observatorium, or None                  *)
(*   selectors   does config.prometheus give label and namespace selectors?*)
(*   federation  the patterns of the metrics to federate, in order: pairs of *)
(*               the quotes around a pattern and its text                  *)
(*   files       the names of the files listed for each of Kinds, in order *)
(*   promtail    is promtail enabled?                                      *)
(*   logsTo      config.promtail.observatorium, or None                    *)
(*   alert       config.alertmanager: {} or a record of the pagerDuty and  *)
(*               snitch secrets, is there mail to send, and the smtp secret*)
(*   observatoria  a sequence of records                                   *)
(*     id, secret     its id and the secret with its credentials, or None  *)
(*     auth, gateway  its auth type or None, and is the gateway known?     *)
(*     dex            where dex is configured: None, "inline" or "secret"  *)
(*     sso            RedhatSsoConfig: {} or a record: does its url parse, *)
(*                    and the clients it has credentials for               *)
(* A pointer that may be nil is a set with at most one element.            *)
(***************************************************************************)
EXTENDS Integers, SequencesExt

None   == "none"
Dex    == "dex"
Redhat == "redhat"

Metrics == "metrics"
Logs    == "logs"

Dashboards  == "dashboards"
Rules       == "rules"
PodMonitors == "pod_monitors"
Kinds       == {Dashboards, Rules, PodMonitors}

Names(files) == {f[1] : f \in files}

\* The values of f for the elements of a sequence, one after another.
Collect(f(_), sequence) == FlattenSeq([i \in DOMAIN sequence |-> f(sequence[i])])

----------------------------------------------------------------------------
(* Files listed by several indexes: a sequence of <<name, id of the index  *)
(* it is fetched from>>.                                                   *)

\* The files of an index up to the first whose name is already taken: the
\* label of the `continue` is on the loop over the indexes.
UntilDuplicate(files, taken) ==
    LET duplicates == {i \in DOMAIN files :
                          files[i] \in taken \cup Range(SubSeq(files, 1, i - 1))}
    IN  IF duplicates = {} THEN files
        ELSE SubSeq(files, 1, Min(duplicates) - 1)

UniqueUntilDuplicate(kind, indexes) ==
    FoldLeft(LAMBDA found, index :
                 LET files == UntilDuplicate(index.files[kind],
                                             Names(Range(found)))
                 IN  found \o [i \in DOMAIN files |-> <<files[i], index.id>>],
             <<>>, indexes)

getUniqueRules(indexes)      == UniqueUntilDuplicate(Rules, indexes)
getUniqueDashboards(indexes) == UniqueUntilDuplicate(Dashboards, indexes)

\* Mutant: the label of the `continue` is on the loop over the indexes.
getUniquePodMonitors_SkipsIndex(indexes) ==
    UniqueUntilDuplicate(PodMonitors, indexes)

\* Only the duplicate itself is left out.
getUniquePodMonitors(indexes) ==
    FoldLeft(LAMBDA found, r : IF r[1] \in Names(Range(found)) THEN found
                               ELSE Append(found, r),
             <<>>,
             Collect(LAMBDA index : [i \in DOMAIN index.files[PodMonitors] |->
                                        <<index.files[PodMonitors][i], index.id>>],
                     indexes))

getUnique(kind, indexes) ==
    CASE kind = Dashboards  -> getUniqueDashboards(indexes)
      [] kind = Rules       -> getUniqueRules(indexes)
      [] kind = PodMonitors -> getUniquePodMonitors(indexes)

----------------------------------------------------------------------------
(* Token refreshers.                                                       *)

HasCredentials(observatorium, type) ==
    \E sso \in observatorium.sso : type \in sso.clients

BadUrl(observatorium) == \E sso \in observatorium.sso : ~sso.url

\* One visit of the nested loops of shouldExist: what it returns for `name`,
\* None if it goes on, or a dereferenced nil pointer.
Compare(name, observatorium, type) ==
    IF ~HasCredentials(observatorium, type) THEN "panic"
    ELSE IF name = <<observatorium.id, type>> THEN "yes" ELSE None

Visits(name, index) ==
    IF ~index.config THEN << "no" >>
    ELSE Collect(LAMBDA o : IF ~o.gateway \/ o.sso = {} \/ BadUrl(o)
                            THEN << "no" >>
                            ELSE << Compare(name, o, Metrics),
                                    IF index.promtail THEN Compare(name, o, Logs)
                                                      ELSE "no" >>,
                 index.observatoria)

\* shouldExist of the deployments and of the network policies: the first
\* visit that returns decides.
refresherShouldExist(cr, oauth2, indexes, name) ==
    LET answers == SelectSeq(Collect(LAMBDA index : Visits(name, index), indexes),
                             LAMBDA a : a # None)
    IN  IF cr.syncOff \/ cr.obsOff \/ oauth2 \/ answers = <<>> THEN "no"
        ELSE answers[1]

\* Don't deploy a token refresher for promtail when logs are disabled; setups
\* that skip logs are expected.
refreshersFor(index, observatorium) ==
    LET wanted == SelectSeq(<< Metrics, Logs >>,
                            LAMBDA t : /\ HasCredentials(observatorium, t)
                                       /\ t = Logs => index.promtail)
    IN  [i \in DOMAIN wanted |-> <<observatorium.id, wanted[i]>>]

\* An observatorium without gateway, or whose sso url does not parse: there
\* reconcileTokenRefresher stops.
Incomplete == << None, None >>

requestedRefreshers(cr, oauth2, indexes) ==
    IF cr.obsOff THEN <<>>
    ELSE Collect(LAMBDA index :
                     Collect(LAMBDA o : IF ~o.gateway THEN << Incomplete >>
                                        ELSE IF oauth2 THEN <<>>
                                        ELSE IF BadUrl(o) THEN << Incomplete >>
                                        ELSE refreshersFor(index, o),
                             SelectSeq(index.observatoria,
                                       LAMBDA o : o.auth = Redhat)),
                 indexes)

----------------------------------------------------------------------------
(* Promtail and remote write.                                              *)

First(sequence, Test(_)) ==
    LET found == SelectSeq(sequence, Test)
    IN  IF found = <<>> THEN {} ELSE {found[1]}

GetObservatoriumConfig(index, id) ==
    First(index.observatoria, LAMBDA o : o.id = id)

\* Mutant: only the first index is looked at.
promtailShouldExist_FirstIndex(cr, indexes, id) ==
    /\ ~cr.syncOff /\ ~cr.obsOff /\ indexes # <<>>
    /\ indexes[1].id = id /\ indexes[1].promtail /\ indexes[1].logsTo # None

\* shouldExist of the daemonsets: the first index with this id decides.
promtailShouldExist(cr, indexes, id) ==
    /\ ~cr.syncOff /\ ~cr.obsOff
    /\ \E index \in First(indexes, LAMBDA i : i.id = id) :
           index.promtail /\ index.logsTo # None

requestedPromtails(cr, indexes) ==
    Collect(LAMBDA index : IF /\ ~cr.syncOff /\ ~cr.obsOff
                              /\ index.promtail
                              /\ GetObservatoriumConfig(index, index.logsTo) # {}
                           THEN << index.id >> ELSE <<>>,
            indexes)

\* getRemoteWriteSpec: <<index, observatorium, how Prometheus gets a token>>.
getRemoteWriteSpec(oauth2, index) ==
    {<<index.id, o.id, CASE o.auth = Dex -> "secret"
                         [] oauth2       -> "oauth2"
                         [] OTHER        -> "refresher">> :
        o \in {o \in GetObservatoriumConfig(index, index.metricsTo) :
                  o.auth \in {Dex, Redhat}}}

remoteWrites(cr, oauth2, indexes) ==
    IF cr.obsOff THEN {}
    ELSE UNION {getRemoteWriteSpec(oauth2, index) : index \in Range(indexes)}

\* Where the selectors of the Prometheus CR come from; of the indexes only the
\* first is asked.
selectorsFrom(cr, indexes) ==
    CASE cr.selectors = "given"    -> "cr"
      [] cr.selectors = "override" -> "everything"
      [] cr.selectors = "unset"    ->
             IF indexes # <<>> /\ indexes[1].selectors THEN indexes[1].id
             ELSE "default"

\* The patterns of the indexes are put in quotes, and compared without them to
\* those already found; the patterns of the CR are taken as they are.
fetchFederationConfigs(cr, indexes) ==
    LET add(found, p) == IF p \in Range(found) THEN found
                         ELSE Append(found, <<p[1] + 1, p[2]>>)
    IN  IF cr.syncOff THEN cr.federation
        ELSE FoldLeft(add, <<>>, Collect(LAMBDA index : index.federation, indexes))

----------------------------------------------------------------------------
(* Alert routing; `secrets` are the names of the secrets that exist, and   *)
(* `unread` those of <<index, secret>> whose request fails.                *)

Found(name, secrets) == name = None \/ name \in secrets

\* The secrets that an index makes reconcileAlertmanagerSecret read.
alertSecrets(cr, secrets, index) ==
    UNION {{<<index.id, s>> : s \in secrets \cap
              ((IF cr.pagerDutyOff THEN {} ELSE {alert.pagerDuty})
               \cup (IF cr.snitchOff THEN {} ELSE {alert.snitch}))} :
           alert \in index.alert}

\* A missing secret leaves out the receivers after it.
receiversFor(cr, secrets, index, alert) ==
    LET pager  == cr.pagerDutyOff \/ Found(alert.pagerDuty, secrets)
        snitch == cr.snitchOff \/ Found(alert.snitch, secrets)
    IN  {<<index.id, r>> : r \in
            (IF pager /\ ~cr.pagerDutyOff THEN {"pagerduty"} ELSE {})
            \cup (IF pager /\ snitch /\ ~cr.snitchOff THEN {"snitch"} ELSE {})
            \cup (IF pager /\ snitch /\ ~cr.smtpOff /\ alert.mail
                  THEN {"smtp"} ELSE {})}

receivers(cr, secrets, unread, indexes) ==
    UNION {UNION {receiversFor(cr, {s \in secrets : <<index.id, s>> \notin unread},
                               index, alert) : alert \in index.alert} :
           index \in Range(indexes)}

\* createGlobalConfig looks at the first index only: "panic" if it has no
\* alertmanager section, "error" if its smtp secret is missing.
createGlobalConfig(cr, secrets, indexes) ==
    IF cr.smtpOff THEN "no mail"
    ELSE IF indexes[1].alert = {} THEN "panic"
    ELSE LET alert == CHOOSE a \in indexes[1].alert : TRUE
         IN  IF ~alert.mail THEN "no mail"
             ELSE IF Found(alert.smtp, secrets) THEN "mail" ELSE "error"
=============================================================================
