--------------------------- MODULE AssuranceWrites ---------------------------
(***************************************************************************)
(* The write tools of fault.py, performance.py and grouping.py that change *)
(* more than fields of one record (see RecordUpdate) or the members of a   *)
(* group (see GroupMembers).                                               *)
(***************************************************************************)
EXTENDS WriteSteps

-----------------------------------------------------------------------------
(* fault.py.  Lifecycle answers have status 200 and a state in the body.   *)

\* Each accepted acknowledgement is recorded, each note is kept: these PUTs
\* are not sent again.  An alarm nobody acknowledged is not un-acknowledged.
cnc_acknowledge_alarm ==
    {Once(<<Needs(F), On(F, Checked(Adding(SentOnce(Puts({"history"})))))>>) :
        F \in {{"alarm"}, {"alarm", "acknowledged"}}}

cnc_annotate_alarm ==
    {Once(<<Needs({"alarm"}),
            On({"alarm"}, Checked(Adding(SentOnce(Puts({"note"})))))>>)}

\* A second clear is refused, so the PUT may be sent again.
cnc_clear_alarm ==
    {Repeatable(<<Needs({"alarm"}),
                  Checked(Off({"clear"}, On({"alarm"}, Puts({"clear"}))))>>)}

cnc_create_alarm_suppression_policy ==
    {Once(<<Checked(Creates({"policy"}))>>)}

cnc_delete_alarm_suppression_policy ==
    {Repeatable(<<Checked(Deletes({"policy"}))>>)}

\* The catalogue is a settings store: the POST may be sent again, and the
\* read-back decides, for the service drops a change it does not know.
catalogue_write(s, after) ==
    Repeatable(<<Needs({"type"}), On({"type"}, Checked(Resent(s))), after>>)

cnc_set_event_type_severity ==
    {catalogue_write(Posts({"set"}), Verifies({"set"}))}

cnc_set_event_type_autoclear ==
    {catalogue_write(Posts({"set"}), Verifies({"set"}))}

cnc_revert_event_type_autoclear ==
    {catalogue_write(Taking({"set"}, Posts({})),
                     [Gone({"set"}) EXCEPT !.else = "error"])}

cnc_set_event_type_recommendation ==
    {catalogue_write(Posts({"set"}), Verifies({"set"}))}

\* The answer carries the flag: another value, or none, is an error.
write_flag ==
    Repeatable(<<Needs({"flag"}), On({"flag"}, Checked(Resent(Posts({"set"}))))>>)

cnc_update_alarm_manager_settings == {write_flag}
cnc_update_gnmi_alarm_settings == {write_flag}

-----------------------------------------------------------------------------
(* performance.py.  A result per policy comes back with status 200.        *)

\* The PUT that activates, and what tells how the devices take it: a wait
\* that fails or runs out is told in the text.
activate_policies == <<On({"policy"}, Checked(Puts({"active"}))),
                       Tolerantly(Confirms({"deployed"}))>>

\* Created inactive; that the activation then fails does not undo it: the
\* answer says the policy was created and NOT activated.
cnc_create_performance_policy ==
    {Once(<<Needs({"template"}), Needs({"selection"}),
            Checked(Creates({"policy"}))>>
          \o When(activate,
                  <<ToldIfNot(activate_policies[1]), activate_policies[2],
                    Peeks({"policy"})>>)) :
        activate \in BOOLEAN}

cnc_activate_performance_policy == {Repeatable(activate_policies)}

cnc_deactivate_performance_policy ==
    {Repeatable(<<On({"policy"}, Checked(Taking({"active"}, Puts({}))))>>)}

cnc_delete_performance_policy ==
    {Repeatable(<<Checked(Deletes({"policy"}))>>)}

\* The retention of every table before, the reset, and of every table after.
cnc_reset_performance_retention ==
    {Repeatable(<<Looks({"custom"}), Checked(Taking({"custom"}, Posts({}))),
                  Looks({"custom"})>>)}

-----------------------------------------------------------------------------
(* grouping.py.                                                            *)

\* A group and its rule are two requests.  Without the rule the group is not
\* what was asked for: it is deleted again, and the error says whether that
\* was possible.  The platform deletes the rule of a group with it.
rollback == <<Telling(Checked(Taking({"rule"}, Deletes({"group"}))))>>

cnc_create_device_group ==
    {CallOf(When(rule, <<Needs({"vocabulary"})>>)
            \o When(default, <<Needs({"parent"})>>)
            \o <<On({"parent"}, Checked(Creates({"group"})))>>
            \o When(rule, <<On({"group"}, Checked(Creates({"rule"})))>>),
            When(rule, rollback), FALSE) :
        rule \in BOOLEAN, default \in BOOLEAN}

\* The group first, then its rule; when the rule fails the error says what
\* was already done to the group.  What is to be done to the rule depends on
\* the one the group has.
cnc_update_device_group ==
    LET Tell(s) == [k \in 1..Len(s) |-> Telling(s[k])]
        Then(changed, found, s) ==
            Repeatable(<<Off({"system"}, Needs({"group"}))>> \o found
                \o When(changed, <<On({"group"}, Checked(Puts({"values"})))>>)
                \o (IF changed THEN Tell(s) ELSE s)
                \o <<Looks({"group"})>>)
    IN  UNION {
          {Then(changed, <<>>, <<>>),
           Then(changed, <<Misses({"rule"})>>, <<>>),
           Then(changed, <<Misses({"rule"}), Needs({"vocabulary"})>>,
                <<On({"group"}, Checked(Creates({"rule"})))>>),
           Then(changed, <<Finds({"rule"}), Needs({"vocabulary"})>>,
                <<On({"rule"}, Checked(Puts({"conditions"})))>>),
           Then(changed, <<Needs({"rule"})>>,
                <<On({"rule"}, Checked(Puts({"active"})))>>),
           Then(changed, <<Finds({"rule"})>>, <<Checked(Deletes({"rule"}))>>)} :
          changed \in BOOLEAN}

AssuranceCalls ==
    cnc_acknowledge_alarm \union cnc_annotate_alarm \union cnc_clear_alarm
    \union cnc_create_alarm_suppression_policy
    \union cnc_delete_alarm_suppression_policy
    \union cnc_set_event_type_severity \union cnc_set_event_type_autoclear
    \union cnc_revert_event_type_autoclear
    \union cnc_set_event_type_recommendation
    \union cnc_update_alarm_manager_settings
    \union cnc_update_gnmi_alarm_settings
    \union cnc_create_performance_policy \union cnc_activate_performance_policy
    \union cnc_deactivate_performance_policy
    \union cnc_delete_performance_policy
    \union cnc_reset_performance_retention \union cnc_create_device_group
    \union cnc_update_device_group
=============================================================================
