--------------------------- MODULE InventoryWrites ---------------------------
(***************************************************************************)
(* The write tools of credentials.py, providers.py, devices.py (but for    *)
(* the gNMI workflow, see DeviceOnboarding), inventory_extras.py,          *)
(* data_gateway.py, nso.py and ems_jobs.py.  Every answer but the lock's   *)
(* and the scheduler's is a job envelope, read by crosswork.check_job.     *)
(***************************************************************************)
EXTENDS WriteSteps

-----------------------------------------------------------------------------
\* credentials.py.  The POST overwrites a profile of the same name, so the
\* tool looks first; an update replaces the whole profile, and what cannot
\* be sent again would go with it unless the caller forces that.
cnc_create_credential_profile ==
    {Once(<<Lacks({"profile"}),
            Sparing({"profile"}, Job(Posts({"profile"})))>>)}

cnc_update_credential_profile ==
    {Repeatable(<<Off(Unless(force, {"unreadable"}), Needs({"profile"})),
                  Sparing(Unless(force, {"unreadable"}),
                          Taking({"unreadable"}, Job(Puts({"values"}))))>>) :
        force \in BOOLEAN}

cnc_delete_credential_profile ==
    {Repeatable(<<Off({"used"}, Job(Deletes({"profile"})))>>)}

-----------------------------------------------------------------------------
\* providers.py and devices.py.  Nothing is read first: the platform decides,
\* and refuses a name it knows.
cnc_create_provider == {Once(<<Job(Creates({"provider"}))>>)}

cnc_update_provider ==
    {Repeatable(<<On({"provider"}, Job(Patches({"values"})))>>)}

cnc_delete_provider ==
    {Repeatable(<<Off({"used"}, Job(Deletes({"provider"})))>>)}

cnc_create_device ==
    {Once(<<On({"profile"}, Job(Creates({"device"})))>>)}

cnc_update_device ==
    {Repeatable(<<On({"device"}, Job(Patches({"values"})))>>)}

cnc_delete_device ==
    {Repeatable(<<Off({"used"}, Job(Deletes({"device"})))>>)}

-----------------------------------------------------------------------------
\* inventory_extras.py.  Devices are selected by a read that refuses none,
\* too many for one page and, where one is meant, several.
cnc_create_tag == {Once(<<Job(Creates({"tag"}))>>)}

cnc_delete_tag == {Repeatable(<<Off({"carried"}, Job(Deletes({"tag"})))>>)}

cnc_assign_tags ==
    {Repeatable(<<Needs({"device"}),
                  On({"device", "tag"}, Job(Patches({"carried"})))>>)}

\* An exact selector must carry every tag, a wildcard scan some.
cnc_unassign_tags ==
    {Repeatable(<<Needs({"device", "carried"}),
                  Mild(Taking({"carried"}, Job(Puts({}))))>>)}

cnc_set_device_location ==
    {Repeatable(<<Needs({"device"}),
                  On({"device"}, Job(Patches({"location"})))>>)}

cnc_clear_device_location ==
    {Repeatable(<<Needs({"device"}),
                  Taking({"location"}, On({"device"}, Job(Patches({}))))>>)}

\* Every accepted lock mints a lock of its own; a device that is locked, or
\* not operational, is refused by the platform in an answer of status 200.
cnc_lock_device ==
    {Once(<<Needs({"device"}),
            Off({"locked"}, On({"device"}, Checked(Adds({"locked"}))))>>)}

\* Somebody else's lock is left alone unless the caller names the lock.
cnc_unlock_device ==
    {Repeatable(<<IF named THEN Needs({"device"})
                  ELSE Off({"theirs"}, Needs({"device", "locked"})),
                  Sparing(Unless(named, {"theirs"}),
                      Taking({"locked", "theirs"},
                          On({"locked"}, Checked(Posts({})))))>>) :
        named \in BOOLEAN}

-----------------------------------------------------------------------------
\* data_gateway.py.  The platform maps a device that is not mapped, moves or
\* unmaps one that is; without a gateway in the arguments there must be one.
cnc_map_devices_to_data_gateway ==
    {Repeatable(When(default, <<Needs({"gateway"})>>) \o
                <<CASE oper = "add" -> Off({"mapped"}, Job(Puts({"mapped"})))
                    [] oper = "remove" ->
                         Taking({"mapped"}, On({"mapped"}, Job(Puts({}))))
                    [] OTHER -> On({"mapped"}, Job(Puts({"moved"})))>>) :
        default \in BOOLEAN, oper \in {"add", "remove", "update"}}

-----------------------------------------------------------------------------
\* nso.py.  The actions are queued for whatever the filter matches when the
\* platform evaluates it, a job for every time they are asked for; sync-to is for one
\* device, which is read first.
cnc_nso_device_action ==
    {Repeatable(<<Needs({"device"}),
                  On({"device"}, Job(Queues({"queued"})))>>)}

cnc_nso_sync_to_device ==
    {Repeatable(<<Off({"another"}, Needs({"device"})),
                  Sparing({"another"},
                          On({"device"}, Job(Queues({"queued"}))))>>)}

cnc_sync_inventory_with_nso == {Repeatable(<<Job(Queues({"queued"}))>>)}

-----------------------------------------------------------------------------
\* ems_jobs.py.  The scheduler answers true or false; a false is explained
\* with one more read.  The read-back cannot turn a true into an error.
perform(F, s) == <<s, Tolerantly(Confirms(F))>>

cnc_run_inventory_scheduler_job ==
    {Once(<<[Off({"running"}, Needs({"job"})) EXCEPT !.fails = "go on"]>> \o
          perform({"running"}, On({"job"}, Checked(Adds({"running"})))))}

cnc_suspend_inventory_scheduler_job ==
    {Repeatable(perform({"suspended"},
                        On({"job"}, Checked(Posts({"suspended"})))))}

cnc_resume_inventory_scheduler_job ==
    {Repeatable(perform({"scheduled"},
                        On({"job"}, Checked(Posts({"scheduled"})))))}

InventoryCalls ==
    cnc_create_credential_profile \union cnc_update_credential_profile
    \union cnc_delete_credential_profile \union cnc_create_provider
    \union cnc_update_provider \union cnc_delete_provider
    \union cnc_create_device \union cnc_update_device \union cnc_delete_device
    \union cnc_create_tag \union cnc_delete_tag \union cnc_assign_tags
    \union cnc_unassign_tags \union cnc_set_device_location
    \union cnc_clear_device_location \union cnc_lock_device
    \union cnc_unlock_device \union cnc_map_devices_to_data_gateway
    \union cnc_nso_device_action \union cnc_nso_sync_to_device
    \union cnc_sync_inventory_with_nso
    \union cnc_run_inventory_scheduler_job
    \union cnc_suspend_inventory_scheduler_job
    \union cnc_resume_inventory_scheduler_job
=============================================================================
