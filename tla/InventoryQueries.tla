--------------------------- MODULE InventoryQueries ---------------------------
(***************************************************************************)
(* The read tools of credentials.py, providers.py, devices.py,             *)
(* inventory_extras.py, ems_jobs.py, nso.py, physical_inventory.py,        *)
(* platform.py, grouping.py and data_gateway.py.                           *)
(***************************************************************************)
EXTENDS QuerySteps

-----------------------------------------------------------------------------
\* credentials.py: the filter is an exact name, so one answer tells.
cnc_list_credential_profiles == {<<Paged(Totalled)>>}

cnc_get_credential_profile == {<<The>>}

\* providers.py: a uuid is no filter of the platform's, so the collection is
\* walked until it turns up; after the last page allowed it is "not found".
find_provider ==
    Asking(FirstMatch(Walk(Totalled \union {"empty"}, "silent")))

cnc_list_providers == {<<Paged(Totalled)>>}

cnc_get_provider == {<<find_provider>>}

-----------------------------------------------------------------------------
\* devices.py: two rows are asked for, to see whether the selector is unique.
find_device == The

cnc_list_devices == {<<Paged(Totalled)>>}

cnc_get_device == {<<find_device>>}

cnc_get_device_collection_summary == {<<One>>}

-----------------------------------------------------------------------------
\* inventory_extras.py: one page, and an error if the selector matches more
\* than it holds; a scan goes through every page, or is an error.
resolve_devices == Seeking(FirstPage(Walk(Totalled, "error")))

scan_devices == Seeking(Distinct(Walk({"short", "total"}, "error")))

cnc_get_device_summary == {<<One, One, One, One>>}

cnc_get_inventory_config == {<<One, One>>}

cnc_get_collection_cadence == {<<One>>}

cnc_get_device_tags == {<<resolve_devices>>}

-----------------------------------------------------------------------------
\* ems_jobs.py: one window of rows.  The list says how many there are; a
\* lookup knows only the rows of it, and "not found" may be beyond it.
read_jobs == FirstPage(Walk({"total", "uncounted"}, "told"))

read_job == Seeking([read_jobs EXCEPT !.capped = "silent"])

cnc_list_inventory_scheduler_jobs == {<<read_jobs>>}

cnc_get_inventory_scheduler_job == {<<read_job>>}

-----------------------------------------------------------------------------
\* nso.py: a selector names one device, or is a pattern, and the answer then
\* carries how many devices match it beside those it shows.
nso_resolve_devices == {<<The>>, <<FirstPage(Walk({"total", "uncounted"}, "told"))>>}

cnc_is_nso_configured == {<<One>>}

cnc_get_nso_policy == {<<One>>}

cnc_list_nso_devices == {<<One>>}

cnc_get_nso_device == {<<The>>}

cnc_get_nso_device_config == {<<The>>}

cnc_check_device_nso_state == nso_resolve_devices

-----------------------------------------------------------------------------
\* physical_inventory.py: pages of 100 until the caller's limit, or a page
\* that is short; the counts of the summary are those of one page, "100+"
\* when it is full.
get_many == Walk(Full, "told")

first_page_count == Named(FirstPage(Walk(Full, "told")))

cnc_list_ems_nodes == {<<get_many>>}

cnc_get_ems_node == {<<The>>}

cnc_list_ems_interfaces == {<<get_many>>}

cnc_get_ems_interface == {<<The>>}

cnc_get_ems_inventory_summary ==
    {<<get_many, first_page_count, first_page_count, first_page_count>>}

-----------------------------------------------------------------------------
\* platform.py: the tags come in one answer and are sliced here.
cnc_list_tags == {<<Paged(Totalled)>>}

cnc_list_users == {<<One>>}

cnc_list_applications == {<<One>>}

cnc_list_alarms == {<<Paged(Full)>>}

cnc_list_inventory_jobs == {<<Paged(Totalled)>>}

cnc_get_inventory_job == {<<The>>}

-----------------------------------------------------------------------------
\* grouping.py: windows of the service; a tool that replaces the members of a
\* group reads them all, up to the last window the service has.
all_group_devices == Walk({"empty", "short", "total"}, "silent")

cnc_list_group_rule_conditions == {<<One>>}

cnc_list_root_groups == {<<One>>}

cnc_get_group_hierarchy == {<<One>>}

cnc_get_group_details == {<<The>>}

cnc_list_group_devices == {<<Paged(Totalled)>>}

cnc_list_group_rules == {<<IfThere(One)>>, <<One>>}

cnc_list_group_ports == {<<Paged(Totalled)>>}

-----------------------------------------------------------------------------
\* data_gateway.py.
cnc_list_data_gateways == {<<One>>}

cnc_get_data_gateway == {<<The>>}

cnc_list_data_gateway_pools == {<<One>>}

cnc_get_data_gateway_load_metrics == {<<One>>}

cnc_list_data_gateway_outages == {<<One>>}

cnc_get_data_gateway_health == {<<One>>}

cnc_get_data_gateway_global_parameters == {<<One>>}

cnc_list_data_destinations == {<<FirstPage(Walk(Totalled, "told"))>>}

cnc_list_data_gateway_files == {<<Paged(Totalled)>>}

-----------------------------------------------------------------------------
InventoryQuerySets ==
    cnc_list_credential_profiles \union cnc_get_credential_profile \union
    cnc_list_providers \union cnc_get_provider \union cnc_list_devices \union
    cnc_get_device \union cnc_get_device_collection_summary \union
    cnc_get_device_summary \union cnc_get_inventory_config \union
    cnc_get_collection_cadence \union cnc_get_device_tags \union
    cnc_list_inventory_scheduler_jobs \union
    cnc_get_inventory_scheduler_job \union cnc_is_nso_configured \union
    cnc_get_nso_policy \union cnc_list_nso_devices \union
    cnc_get_nso_device \union cnc_get_nso_device_config \union
    cnc_check_device_nso_state \union cnc_list_ems_nodes \union
    cnc_get_ems_node \union cnc_list_ems_interfaces \union
    cnc_get_ems_interface \union cnc_get_ems_inventory_summary \union
    cnc_list_tags \union cnc_list_users \union cnc_list_applications \union
    cnc_list_alarms \union cnc_list_inventory_jobs \union
    cnc_get_inventory_job \union cnc_list_group_rule_conditions \union
    cnc_list_root_groups \union cnc_get_group_hierarchy \union
    cnc_get_group_details \union cnc_list_group_devices \union
    cnc_list_group_rules \union cnc_list_group_ports \union
    cnc_list_data_gateways \union cnc_get_data_gateway \union
    cnc_list_data_gateway_pools \union cnc_get_data_gateway_load_metrics \union
    cnc_list_data_gateway_outages \union cnc_get_data_gateway_health \union
    cnc_get_data_gateway_global_parameters \union
    cnc_list_data_destinations \union cnc_list_data_gateway_files
=============================================================================
