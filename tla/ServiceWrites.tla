---------------------------- MODULE ServiceWrites ----------------------------
(***************************************************************************)
(* The write tools of service_provisioning.py (services committed by NSO   *)
(* over RESTCONF), sr_te_operations.py (SR policies, RPCs of the           *)
(* optimization engine) and oam.py.                                        *)
(***************************************************************************)
EXTENDS WriteSteps

-----------------------------------------------------------------------------
(* service_provisioning.py.                                                *)

\* A dry run asks the same of the platform and changes nothing.
Rehearsed(s) == [Blank EXCEPT !.on = s.on, !.off = s.off, !.else = "error"]

\* The plan of the service is read after every committed write but a DELETE;
\* that it is not there yet, or not readable, is a note.
provision(s, plan, dry_run) ==
    Repeatable(IF dry_run THEN <<Rehearsed(s)>>
               ELSE <<s>> \o When(plan, <<Tolerantly(Confirms({"plan"}))>>))

Created(dry_run) == provision(Puts({"service"}), TRUE, dry_run)
Removed(dry_run) == provision(Deletes({"service"}), FALSE, dry_run)
Merged(dry_run) == provision(On({"service"}, Patches({"leaves"})), TRUE, dry_run)

cnc_create_odn_template == {Created(dry_run) : dry_run \in BOOLEAN}
cnc_delete_odn_template == {Removed(dry_run) : dry_run \in BOOLEAN}
cnc_create_sr_policy_service == {Created(dry_run) : dry_run \in BOOLEAN}
cnc_update_sr_policy_service == {Merged(dry_run) : dry_run \in BOOLEAN}
cnc_delete_sr_policy_service == {Removed(dry_run) : dry_run \in BOOLEAN}
cnc_create_sid_list == {Created(dry_run) : dry_run \in BOOLEAN}
cnc_delete_sid_list == {Removed(dry_run) : dry_run \in BOOLEAN}
cnc_create_l3vpn_service == {Created(dry_run) : dry_run \in BOOLEAN}
cnc_delete_vpn_service == {Removed(dry_run) : dry_run \in BOOLEAN}
cnc_provision_service ==
    {Created(dry_run) : dry_run \in BOOLEAN}
    \union {Merged(dry_run) : dry_run \in BOOLEAN}
cnc_delete_service == {Removed(dry_run) : dry_run \in BOOLEAN}

\* Answered 200 with a status of its own, which must be success.
cnc_resync_service_inventory == {Repeatable(<<Checked(Posts({"synced"}))>>)}

-----------------------------------------------------------------------------
(* sr_te_operations.py.  Head-end, endpoint and hops are looked up first;  *)
(* the RPC answers 200 with a state for each policy, "degraded" is a note. *)

write_policy(s) == <<Needs({"nodes"}), CheckedOrNoted(s)>>

cnc_create_sr_policy == {Once(write_policy(Creates({"policy"})))}

cnc_update_sr_policy ==
    {Repeatable(write_policy(On({"policy"}, Posts({"path"}))))}

\* Only a policy the PCE created may go, unless the caller forces it.
cnc_delete_sr_policy ==
    {Repeatable(<<Needs({"nodes"}), Guards(force, {"device's own"}),
                  Sparing(Unless(force, {"device's own"}),
                      On({"policy"},
                          Checked(Taking({"policy"}, Posts({})))))>>) :
        force \in BOOLEAN}

cnc_set_sr_policy_path_notifications ==
    {Repeatable(<<Checked(Posts({"enabled"})), Verifies({"enabled"})>>)}

-----------------------------------------------------------------------------
\* oam.py.  A trace that was started is known by its query id only; the
\* device names in the answer are a courtesy.
cnc_start_oam_trace_route ==
    {Once(<<Needs({"head"}), Needs({"tail"}), Checked(Adds({"trace"})),
            Peeks({"names"})>>)}

cnc_reactivate_probe ==
    {Once(<<On({"probe"}, Checked(Posts({"active"})))>>)}

ServiceCalls ==
    cnc_create_odn_template \union cnc_delete_odn_template
    \union cnc_create_sr_policy_service \union cnc_update_sr_policy_service
    \union cnc_delete_sr_policy_service \union cnc_create_sid_list
    \union cnc_delete_sid_list \union cnc_create_l3vpn_service
    \union cnc_delete_vpn_service \union cnc_provision_service
    \union cnc_delete_service \union cnc_resync_service_inventory
    \union cnc_create_sr_policy \union cnc_update_sr_policy
    \union cnc_delete_sr_policy \union cnc_set_sr_policy_path_notifications
    \union cnc_start_oam_trace_route \union cnc_reactivate_probe
=============================================================================
