---------------------------- MODULE ReportQueries ----------------------------
(***************************************************************************)
(* The diagnoses of composite.py: reports made of the answers of the read  *)
(* tools, one section each, with a verdict over them.                      *)
(***************************************************************************)
EXTENDS QuerySteps

\* The answer of a tool as a section.  Failed or not found, the section is
\* "unavailable", which the report lists as not covered by its verdict.
Section(r) == Named([r EXCEPT !.absent = "named"])

\* A section of what the tool gives on one page, which the report says is
\* all it looked at, or does not say.
Told   == Section(FirstPage(Walk(Totalled, "told")))
Untold == Section(FirstPage(Walk(Totalled, "silent")))

\* Lists without a total.
ToldFull   == Section(FirstPage(Walk(Full, "told")))
UntoldFull == Section(FirstPage(Walk(Full, "silent")))

-----------------------------------------------------------------------------
\* The record first; what is read then goes by the names in it.  Alarms and
\* their history, device alarms, events and the EMF node need the host name,
\* the interface errors the uuid, the NSO check a device NSO knows.
investigate_device ==
    {<<Section(The), Section(One)>>
        \o If(host, <<Told, Told, UntoldFull, Section(One), Section(The)>>)
        \o If(nso, <<Section(One)>>)
        \o If(host, <<Section(The)>>)
        \o <<Section(One)>>
        \o If(uuid, <<UntoldFull, Named(One)>>) :
            host \in BOOLEAN, nso \in BOOLEAN, uuid \in BOOLEAN}

\* Devices (those still being checked by name), collection, cluster, data
\* gateways, collection service, providers, topology, policies, critical and
\* major alarms, device alarms, NSO.
network_health_report ==
    {<<Section(One)>> \o If(checking, <<Told>>)
        \o <<Section(One), Section(One), Section(One), Section(One), Untold,
             Section(One), Section(One), Told, Told, ToldFull, Untold>> :
            checking \in BOOLEAN}

-----------------------------------------------------------------------------
\* The services named like the policy are read one by one until one of them
\* is its origin; one that cannot be read is passed over.
policy_service_candidates ==
    Candidate(Ignored([FirstMatch(Walk({"total", "uncounted"}, "told")) EXCEPT
                          !.absent = "named"]))

\* Node names, the policy, its route and metrics, three series, the services
\* that ride it; for a policy a router made itself the service it may come
\* from and the configuration of its head-end.
explain_sr_policy ==
    {<<Untold, Section(The), Section(The), Section(The), Section(The),
       Section(One), Section(One), Section(One)>>
        \o If(ownMaking, <<UntoldFull>>)
        \o If(ownMaking /\ listed, <<policy_service_candidates>>)
        \o If(ownMaking /\ named, <<Section(The)>>) :
            ownMaking \in BOOLEAN, listed \in BOOLEAN, named \in BOOLEAN}

-----------------------------------------------------------------------------
\* More open alarms than one answer holds are read again, state by state, and
\* what that leaves out is noted.
read_open_alarms ==
    {<<Section(One)>>, <<Section(One), Told, Told, Told, Told, Told>>}

\* Stale alarms are held against the cluster and its services.
alarm_triage ==
    {alarms \o If(stale, <<Section(One), Told>>) \o <<ToldFull>>
        \o If(cleared, <<Section(FirstPage(Walk(Totalled, "silent")))>>) :
            alarms \in read_open_alarms,
            stale \in BOOLEAN, cleared \in BOOLEAN}

-----------------------------------------------------------------------------
\* A name is looked up on one page; a failed lookup is the verdict "unknown".
resolve_service_name ==
    Seeking(FirstPage(Walk(Full, "silent")))

explain_service ==
    {If(byName, <<resolve_service_name>>) \o <<Section(The), Section(IfThere(One))>>
        \o If(vpn, <<Section(The), Section(IfThere(One)), UntoldFull,
                     Section(IfThere(One))>>) :
            byName \in BOOLEAN, vpn \in BOOLEAN}

-----------------------------------------------------------------------------
\* Summary, locators, nodes, links, policies, performance policies, devices.
srv6_readiness ==
    {<<Section(One), Section(One), Told, Told, Section(One), Section(One), Told>>}

-----------------------------------------------------------------------------
cnc_investigate_device == investigate_device

cnc_network_health_report == network_health_report

cnc_explain_sr_policy == explain_sr_policy

cnc_alarm_triage == alarm_triage

cnc_explain_service == explain_service

cnc_srv6_readiness == srv6_readiness

ReportQuerySets ==
    cnc_investigate_device \union cnc_network_health_report \union
    cnc_explain_sr_policy \union cnc_alarm_triage \union
    cnc_explain_service \union cnc_srv6_readiness
=============================================================================
