---------------------------- MODULE NetworkQueries ----------------------------
(***************************************************************************)
(* The read tools of topology.py, te_state.py, sr_te_operations.py, oam.py *)
(* and lcm_csm.py.                                                         *)
(***************************************************************************)
EXTENDS QuerySteps

-----------------------------------------------------------------------------
\* topology.py.  The collection is read and the network picked here: an
\* unknown one among others is an error, none at all is a note.
fetch_network == {The, IfThere(One)}

fetch_node == The

cnc_get_topology_summary == {<<n>> : n \in fetch_network}

\* Every page is cut from a new reading of the whole network.
cnc_list_topology_nodes == {<<n, Paged(Totalled)>> : n \in fetch_network}

cnc_list_topology_links == {<<n, Paged(Totalled)>> : n \in fetch_network}

cnc_get_topology_node == {<<fetch_node>>}

cnc_list_node_interfaces == {<<fetch_node>>}

cnc_get_node_interface == {<<The>>}

cnc_get_topology_link == {<<The>>}

cnc_list_srv6_locators == {<<n>> : n \in fetch_network}

-----------------------------------------------------------------------------
\* te_state.py.  Two addresses are the key of a policy as they are; host
\* names are resolved from one reading of the topology, and where that gives
\* IPv6 keys as well, those are tried when the first ones find nothing.
fetch_topology_nodes == The

resolve_policy_key == {<<>>, <<fetch_topology_nodes>>}

get_policy_keyed == {<<The>>, <<OrElse(The), The>>}

PolicyReads == {ends \o keyed : ends \in resolve_policy_key, keyed \in get_policy_keyed}
                   \ {<<OrElse(The), The>>}

\* The filters may need the topology; host names for the answer are a bonus
\* whose failure is named.
cnc_list_sr_policies ==
    {<<One>>, <<fetch_topology_nodes, One>>, <<One, Named(fetch_topology_nodes)>>}

cnc_get_sr_policy == PolicyReads

cnc_get_sr_policy_performance_metrics == PolicyReads

cnc_list_p2mp_policies == {<<One>>}

cnc_get_p2mp_policy == {<<The>>}

cnc_list_rsvp_te_tunnels == {<<One>>}

cnc_get_rsvp_te_tunnel == {<<The>>}

cnc_get_link_performance_metrics == {<<The>>}

cnc_get_rsvp_tunnel_performance_metrics == {<<The>>}

cnc_get_te_summary == {<<One, One, One>>}

-----------------------------------------------------------------------------
\* sr_te_operations.py: names are resolved against the topology before the
\* engine is asked, which answers an unknown name with an empty error.
resolve_ends == fetch_topology_nodes

cnc_list_sr_policies_on_nodes == {<<fetch_topology_nodes, One>>}

cnc_list_sr_policies_on_interface == {<<fetch_topology_nodes, One>>}

cnc_get_sr_policy_routes == {<<resolve_ends, The>>}

cnc_get_sr_policy_metrics == {<<resolve_ends, The>>}

cnc_preview_sr_policy_route == {<<resolve_ends, The>>}

cnc_dryrun_sr_policy == {<<resolve_ends, One>>}

cnc_get_sr_policy_path_notification_state == {<<One>>}

-----------------------------------------------------------------------------
\* oam.py.  The names of the devices on the paths are looked up in the
\* inventory, counting the rows that came; what fails there, or is not found
\* there, is named and the paths are shown with uuids.
device_names_for ==
    [Named(Walk({"empty", "uncounted", "total"}, "told"))
        EXCEPT !.seeks = "match", !.absent = "named"]

fetch_trace_route == The

cnc_get_oam_settings == {<<One>>}

cnc_list_oam_trace_routes == {<<Paged(Totalled)>>}

cnc_get_oam_trace_route ==
    {<<fetch_trace_route>>, <<fetch_trace_route, device_names_for>>}

cnc_get_probe_status == {<<IfThere(One)>>}

-----------------------------------------------------------------------------
\* lcm_csm.py.  A domain that is suspected not to exist is an error of the
\* call; the Circuit-Style Manager gets names the topology knows.
domain_rpc == The

cnc_list_lcm_domains == {<<One>>}

cnc_get_lcm_config == {<<domain_rpc>>}

cnc_list_lcm_managed_interfaces == {<<domain_rpc>>}

cnc_get_lcm_recommendation == {<<domain_rpc>>}

cnc_get_lcm_recommendation_preview == {<<domain_rpc>>}

cnc_list_csm_bandwidth_pools == {<<One>>}

cnc_list_cs_policy_paths == {<<One>>}

cnc_list_cs_policies_on_nodes == {<<fetch_topology_nodes, One>>}

cnc_list_cs_policies_on_interface == {<<fetch_topology_nodes, One>>}

-----------------------------------------------------------------------------
NetworkQuerySets ==
    cnc_get_topology_summary \union cnc_list_topology_nodes \union
    cnc_list_topology_links \union cnc_get_topology_node \union
    cnc_list_node_interfaces \union cnc_get_node_interface \union
    cnc_get_topology_link \union cnc_list_srv6_locators \union
    cnc_list_sr_policies \union cnc_get_sr_policy \union
    cnc_get_sr_policy_performance_metrics \union cnc_list_p2mp_policies \union
    cnc_get_p2mp_policy \union cnc_list_rsvp_te_tunnels \union
    cnc_get_rsvp_te_tunnel \union cnc_get_link_performance_metrics \union
    cnc_get_rsvp_tunnel_performance_metrics \union cnc_get_te_summary \union
    cnc_list_sr_policies_on_nodes \union
    cnc_list_sr_policies_on_interface \union cnc_get_sr_policy_routes \union
    cnc_get_sr_policy_metrics \union cnc_preview_sr_policy_route \union
    cnc_dryrun_sr_policy \union
    cnc_get_sr_policy_path_notification_state \union
    cnc_get_oam_settings \union cnc_list_oam_trace_routes \union
    cnc_get_oam_trace_route \union cnc_get_probe_status \union
    cnc_list_lcm_domains \union cnc_get_lcm_config \union
    cnc_list_lcm_managed_interfaces \union cnc_get_lcm_recommendation \union
    cnc_get_lcm_recommendation_preview \union
    cnc_list_csm_bandwidth_pools \union cnc_list_cs_policy_paths \union
    cnc_list_cs_policies_on_nodes \union cnc_list_cs_policies_on_interface
=============================================================================
