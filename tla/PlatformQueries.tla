---------------------------- MODULE PlatformQueries ----------------------------
(***************************************************************************)
(* The read tools of fault.py, notifications.py, collection.py,            *)
(* performance.py and admin.py.                                            *)
(***************************************************************************)
EXTENDS QuerySteps

-----------------------------------------------------------------------------
\* fault.py.  Every alarm in scope, as far as the pages allowed go; the log
\* alone hears of more.
fetch_alarms == Distinct(Walk(Full, "silent"))

\* The open alarms first, then all of them.
resolve_alarm == <<OrElse(Seeking(fetch_alarms)), Seeking(fetch_alarms)>>

cnc_get_alarm == {resolve_alarm}

cnc_search_alarms == {<<fetch_alarms>>}

\* A page is filtered here; whether there is more, the page itself tells.
cnc_list_events == {<<Paged(Full)>>}

cnc_list_device_alarms == {<<Paged(Full)>>}

cnc_get_alarm_settings == {<<One, NamedIfRefused(One)>>}

cnc_get_alarm_manager_settings == {<<One>>}

\* The catalogue comes whole and is filtered and cut into pages here.
cnc_list_event_types == {<<Paged(Totalled)>>}

cnc_get_event_type_recommendation == {<<The>>}

cnc_list_alarm_suppression_policies == {<<One>>}

-----------------------------------------------------------------------------
\* notifications.py.
cnc_list_notification_streams == {<<One>>}

cnc_list_notification_subscriptions == {<<Paged(Full)>>}

cnc_get_notification_subscription == {<<The>>}

cnc_list_kafka_subscriptions == {<<One>>}

-----------------------------------------------------------------------------
\* collection.py: tokens lead from page to page; a full page without a new
\* one may be the last or not, and the answer says that this is not known.
tokened_page == Paged({"short", "token_or_told"})

read_counts == One

read_summary == tokened_page

read_states == FirstPage(Walk(Full, "told"))

cnc_get_collection_job_count == {<<read_counts>>}

cnc_get_collection_job_summary == {<<read_summary>>}

cnc_get_collection_job_state == {<<read_states>>}

cnc_list_export_collection_jobs == {<<One>>}

cnc_list_sensor_templates == {<<tokened_page>>}

\* The verdict rests on one context, of which the platform keeps one job.
cnc_get_collection_health ==
    {<<read_counts, FirstPage(Walk(Full, "silent")),
       FirstPage(Walk(Full, "silent"))>>}

-----------------------------------------------------------------------------
\* performance.py.  A lookup goes through the pages until it has as many rows
\* as there are; after the last page allowed it stops without a word.
perf_rows == Walk(Totalled \union {"empty"}, "silent")

inventory_matches == Seeking(perf_rows)

\* The ends of a policy are router ids, or names looked up in the topology.
policy_ends == {<<>>, <<The>>}

cnc_list_performance_policies == {<<One>>}

cnc_get_performance_policy == {<<The>>}

cnc_get_performance_policy_history == {<<The>>}

cnc_list_performance_policy_devices == {<<Paged(Totalled)>>}

cnc_list_performance_policy_templates == {<<One>>}

cnc_get_performance_retention == {<<One, One>>}

cnc_get_performance_health_settings == {<<One>>, <<The>>}

\* Host names and units adorn the rows: without them the rows are given as
\* they are.
cnc_get_performance_statistics ==
    {<<Paged(Full)>> \o If(ends, <<Ignored(Spare(One))>>)
                   \o If(units, <<Ignored(Spare(One))>>) :
        ends \in BOOLEAN, units \in BOOLEAN}

\* The first rows of a ranking, and no word on the rest.
cnc_get_performance_top_n == {<<FirstPage(Walk(Full, "silent"))>>}

cnc_list_performance_top_n_columns == {<<One>>}

cnc_get_performance_summary == {<<One>>}

cnc_get_lsp_utilization == {ends \o <<One, One>> : ends \in policy_ends}

cnc_get_lsp_delay == {ends \o <<One, One, One, One>> : ends \in policy_ends}

cnc_get_interface_delay == {<<One, One, One>>}

srv6_locator_device == {<<>>, <<inventory_matches>>}

\* Why there are no rows: a bonus, whose own failure is named.
srv6_locator_empty_reason ==
    {If(byUuid, <<Named(IfThere(perf_rows))>>) \o <<Named(One)>> :
        byUuid \in BOOLEAN}

cnc_get_srv6_locator_statistics ==
    {device \o <<Ignored(Spare(One)), Paged(Full)>> \o why :
        device \in srv6_locator_device,
        why \in {<<>>} \union srv6_locator_empty_reason}

-----------------------------------------------------------------------------
\* admin.py.
fetch_microservices == One

\* Tokens again; a token that does not change is the end.
fetch_capp_pages == Walk({"empty", "token"}, "told")

\* The role is read from one path, and from an older one where that does not
\* know it or does not let the user in.
fetch_rbac_object == <<OrElsewhere(The), The>>

cnc_get_platform_version == {<<The>>}

cnc_get_cluster_health == {<<One, One, One>>}

cnc_list_cluster_nodes == {<<One>>}

cnc_get_cluster_node == {<<The>>}

\* Of one application, of one node, or of all the applications there are.
cnc_list_microservices ==
    {<<Paged(Totalled)>>, <<One, Paged(Totalled)>>}

cnc_list_application_status == {<<One>>}

cnc_list_app_manager_jobs == {<<fetch_capp_pages>>}

cnc_list_app_manager_events == {<<fetch_capp_pages>>}

cnc_get_maintenance_status == {<<One, One, One>>}

cnc_list_certificates == {<<One>>}

cnc_check_certificate_expiry == {<<One>>}

cnc_get_login_banner == {<<One>>}

cnc_get_session_config == {<<One, One>>}

cnc_list_active_sessions == {<<One>>}

cnc_get_user == {<<The>>}

cnc_list_roles == {<<One>>}

cnc_get_role_tasks == {<<One, One>>}

cnc_get_role_permissions == {<<One>>}

cnc_get_password_policy == {<<One>>}

cnc_list_secured_apis == {<<One>>}

cnc_check_permissions ==
    {fetch_rbac_object \o <<NamedIfRefused(IfThere(One))>>}

-----------------------------------------------------------------------------
PlatformQuerySets ==
    cnc_get_alarm \union cnc_search_alarms \union cnc_list_events \union
    cnc_list_device_alarms \union cnc_get_alarm_settings \union
    cnc_get_alarm_manager_settings \union cnc_list_event_types \union
    cnc_get_event_type_recommendation \union
    cnc_list_alarm_suppression_policies \union
    cnc_list_notification_streams \union
    cnc_list_notification_subscriptions \union
    cnc_get_notification_subscription \union cnc_list_kafka_subscriptions \union
    cnc_get_collection_job_count \union cnc_get_collection_job_summary \union
    cnc_get_collection_job_state \union cnc_list_export_collection_jobs \union
    cnc_list_sensor_templates \union cnc_get_collection_health \union
    cnc_list_performance_policies \union cnc_get_performance_policy \union
    cnc_get_performance_policy_history \union
    cnc_list_performance_policy_devices \union
    cnc_list_performance_policy_templates \union
    cnc_get_performance_retention \union
    cnc_get_performance_health_settings \union
    cnc_get_performance_statistics \union cnc_get_performance_top_n \union
    cnc_list_performance_top_n_columns \union cnc_get_performance_summary \union
    cnc_get_lsp_utilization \union cnc_get_lsp_delay \union
    cnc_get_interface_delay \union cnc_get_srv6_locator_statistics \union
    cnc_get_platform_version \union cnc_get_cluster_health \union
    cnc_list_cluster_nodes \union cnc_get_cluster_node \union
    cnc_list_microservices \union cnc_list_application_status \union
    cnc_list_app_manager_jobs \union cnc_list_app_manager_events \union
    cnc_get_maintenance_status \union cnc_list_certificates \union
    cnc_check_certificate_expiry \union cnc_get_login_banner \union
    cnc_get_session_config \union cnc_list_active_sessions \union
    cnc_get_user \union cnc_list_roles \union cnc_get_role_tasks \union
    cnc_get_role_permissions \union cnc_get_password_policy \union
    cnc_list_secured_apis \union cnc_check_permissions
=============================================================================
