----------------------------- MODULE ConfigWrites -----------------------------
(***************************************************************************)
(* The write tools of device_config.py, notifications.py, admin.py and     *)
(* lcm_csm.py.  These services confirm in prose or not at all: a tool that *)
(* cannot find the sentence it knows says so, as an error or as a note.    *)
(***************************************************************************)
EXTENDS WriteSteps

-----------------------------------------------------------------------------
\* device_config.py.  A backup and a deployment are jobs the platform works
\* off later; each accepted POST starts one, a used job name is refused.
cnc_backup_device_config ==
    {Once(<<Needs({"device"}), Creates({"job"})>>)}

\* Any name is answered 204.
cnc_delete_config_backup_job == {Repeatable(<<Mild(Deletes({"job"}))>>)}

cnc_delete_device_backup ==
    {Repeatable(<<Needs({"device"}), CheckedOrNoted(Deletes({"backup"}))>>)}

cnc_create_config_template == {Once(<<Creates({"template"})>>)}

\* One text for the unknown, the deployed and the system template.
cnc_delete_config_template ==
    {Repeatable(<<Off({"deployed"}, Deletes({"template"}))>>)}

\* An answer of status 202 without the id of a job is an error.
cnc_deploy_config_template ==
    {Once(<<Needs({"template"}), Needs({"device"}),
            On({"template"}, Checked(Adds({"deployment"})))>>)}

cnc_delete_template_deployment ==
    {Repeatable(<<Mild(Deletes({"deployment"}))>>)}

-----------------------------------------------------------------------------
\* notifications.py.
\* The platform refuses a client it cannot reach and a second subscription;
\* a body that cannot be read leaves the id of the new one unknown.
cnc_create_webhook_subscription ==
    {Once(<<On({"client"}, CheckedOrNoted(Creates({"subscription"})))>>)}

cnc_delete_notification_subscription ==
    {Repeatable(<<Checked(Deletes({"subscription"}))>>)}

\* The destinations are read for the diagnosis of a refusal only.
cnc_create_external_subscription ==
    {Once(<<On({"destination"}, Checked(Creates({"subscription"})))>>)}

cnc_delete_external_subscription ==
    {Repeatable(<<Checked(Deletes({"subscription"}))>>)}

\* Clears every user's subscriptions of the topic; nothing is sent when the
\* page shows none, and one that is still on the page afterwards is an error.
cnc_clear_notification_subscriptions_by_topic ==
    {Repeatable(<<[Needs({"subscription"}) EXCEPT !.else = "already"],
                  Checked(Taking({"subscription"}, Posts({}))),
                  [Gone({"subscription"}) EXCEPT !.else = "error"]>>)}

-----------------------------------------------------------------------------
\* admin.py.  A banner is merged into the one that is shown, a reset is not;
\* the answer shows what is read back.
cnc_set_login_banner ==
    {Repeatable(When(~reset, <<Looks({"banner"})>>)
                \o <<Checked(Posts({"banner"})), Looks({"banner"})>>) :
        reset \in BOOLEAN}

cnc_set_maintenance_mode ==
    {Repeatable(<<Checked(Posts({"mode"})), Looks({"mode"})>>)}

cnc_restart_microservice == {Once(<<Checked(Adds({"restarted"}))>>)}

\* lcm_csm.py.  The answer states the pause state; another one is an error,
\* none at all a note.
cnc_pause_lcm_recommendations ==
    {Repeatable(<<CheckedOrNoted(Posts({"paused"}))>>)}

ConfigCalls ==
    cnc_backup_device_config \union cnc_delete_config_backup_job
    \union cnc_delete_device_backup \union cnc_create_config_template
    \union cnc_delete_config_template \union cnc_deploy_config_template
    \union cnc_delete_template_deployment
    \union cnc_create_webhook_subscription
    \union cnc_delete_notification_subscription
    \union cnc_create_external_subscription
    \union cnc_delete_external_subscription
    \union cnc_clear_notification_subscriptions_by_topic
    \union cnc_set_login_banner \union cnc_set_maintenance_mode
    \union cnc_restart_microservice \union cnc_pause_lcm_recommendations
=============================================================================
