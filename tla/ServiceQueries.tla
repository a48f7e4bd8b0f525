---------------------------- MODULE ServiceQueries ----------------------------
(***************************************************************************)
(* The read tools of services.py, device_config.py and swim_ztp.py.        *)
(***************************************************************************)
EXTENDS QuerySteps

-----------------------------------------------------------------------------
\* services.py: the RPCs of CAT, and reads of NSO's data tree.
call_cat_rpc == One

\* CAT answers for an unknown plan with a record that says so.
fetch_plan_entry == IfThere(call_cat_rpc)

\* "Not there" is told from a failure by the error the data tree answers with.
restconf_get == The

resolve_headend_device == The

resolve_endpoint_router_id == The

cnc_list_service_types == {<<call_cat_rpc>>}

cnc_get_service_counts == {<<call_cat_rpc>>}

cnc_list_services == {<<Paged(Full)>>}

\* The plan is a bonus, whose refusal is named.
cnc_get_service ==
    {<<restconf_get>>, <<restconf_get, NamedIfRefused(fetch_plan_entry)>>}

cnc_get_service_plan ==
    {<<fetch_plan_entry>>, <<fetch_plan_entry, IfThere(restconf_get)>>}

cnc_list_vpn_services == {<<Paged(Full)>>}

cnc_get_vpn_service == {<<restconf_get>>}

cnc_get_vpn_service_health == {<<restconf_get>>}

cnc_get_vpn_underlay_transport == {<<IfThere(restconf_get)>>}

cnc_list_sub_services == {<<call_cat_rpc, Paged(Full)>>}

\* The head-end goes by the name of the device, the endpoint by its router
\* id: whichever was given the other way round is looked up first.
cnc_find_services_on_transport ==
    {If(byAddress, <<resolve_headend_device>>)
        \o If(byName, <<resolve_endpoint_router_id>>) \o <<call_cat_rpc>> :
            byAddress \in BOOLEAN, byName \in BOOLEAN}

cnc_list_function_packs == {<<One, One>>}

-----------------------------------------------------------------------------
\* device_config.py: more matches than one page holds is an error.
config_devices == Seeking(FirstPage(Walk(Totalled, "error")))

fetch_backup_job == The

\* The page parameter may be ignored: rows are kept once each, and a page
\* that brings nothing new is the end; the answer has the total beside it.
fetch_deployment ==
    Distinct(Compared(Walk({"total", "uncounted", "nothing_new"}, "told")))

cnc_get_device_config_preferences == {<<One>>}

cnc_list_device_backups == {<<config_devices, One>>}

cnc_get_device_backup == {<<config_devices, The>>}

\* One page of the platform's own size.  What it says of the rest goes into
\* the JSON answer only.
cnc_list_config_backup_jobs ==
    {<<FirstPage(Walk(Full, said))>> : said \in {"told", "silent"}}

cnc_get_config_backup_job == {<<fetch_backup_job>>}

cnc_list_config_templates == {<<Paged(Totalled)>>}

cnc_get_config_template == {<<The>>}

cnc_list_template_deployments ==
    {<<FirstPage(Walk(Full, said))>> : said \in {"told", "silent"}}

cnc_get_template_deployment == {<<fetch_deployment>>}

-----------------------------------------------------------------------------
\* swim_ztp.py.
ztp_query == Paged(Totalled)

\* One page of the largest size, whose filter should leave one row.
ztp_find == Seeking(FirstPage(Walk(Totalled, "silent")))

\* Filtered here, the pages stay those of the service: its full page means
\* more, up to the number of all rows.
guarded_page == Paged({"short", "total"})

cnc_get_swim_preferences == {<<One>>}

cnc_list_software_images == {<<Paged(Totalled)>>}

cnc_get_device_running_images == {<<One>>}

cnc_get_swim_job == {<<One>>}

cnc_list_ztp_profiles == {<<ztp_query>>}

cnc_list_ztp_devices == {<<ztp_query>>}

cnc_list_ztp_serial_numbers == {<<ztp_query>>}

cnc_list_ztp_static_routes == {<<ztp_query>>}

cnc_get_ztp_device_policy == {<<One>>}

\* The page, the count, the types and the platforms are read together.
cnc_list_ztp_config_files ==
    {<<page, One, One, One>> : page \in {Paged(Totalled), guarded_page}}

cnc_list_ztp_images ==
    {<<page, One, One>> : page \in {Paged(Totalled), guarded_page}}

-----------------------------------------------------------------------------
ServiceQuerySets ==
    cnc_list_service_types \union cnc_get_service_counts \union
    cnc_list_services \union cnc_get_service \union cnc_get_service_plan \union
    cnc_list_vpn_services \union cnc_get_vpn_service \union
    cnc_get_vpn_service_health \union cnc_get_vpn_underlay_transport \union
    cnc_list_sub_services \union cnc_find_services_on_transport \union
    cnc_list_function_packs \union cnc_get_device_config_preferences \union
    cnc_list_device_backups \union cnc_get_device_backup \union
    cnc_list_config_backup_jobs \union cnc_get_config_backup_job \union
    cnc_list_config_templates \union cnc_get_config_template \union
    cnc_list_template_deployments \union cnc_get_template_deployment \union
    cnc_get_swim_preferences \union cnc_list_software_images \union
    cnc_get_device_running_images \union cnc_get_swim_job \union
    cnc_list_ztp_profiles \union cnc_list_ztp_devices \union
    cnc_list_ztp_serial_numbers \union cnc_list_ztp_static_routes \union
    cnc_get_ztp_device_policy \union cnc_list_ztp_config_files \union
    cnc_list_ztp_images
=============================================================================
