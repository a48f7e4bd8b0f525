------------------------------ MODULE ZtpWrites ------------------------------
(***************************************************************************)
(* The write tools of swim_ztp.py: configuration files, profiles, serial   *)
(* numbers, static routes and devices of zero-touch provisioning.  The     *)
(* service answers refusals with status 200 and a code in the body, which  *)
(* check_ztp_write reads.  It deletes a file or a profile that is in use,  *)
(* so the tools look for its users first.  The updates of profiles and     *)
(* devices also keep fields of the record: see RecordUpdate.               *)
(***************************************************************************)
EXTENDS WriteSteps

\* One ZTP write under the code rule.
ztp_write(s) == Checked(s)

-----------------------------------------------------------------------------
\* Configuration files.  A file is replaced whole: without new content the
\* tool downloads the old one and sends it back.
cnc_upload_ztp_config_file == {Once(<<Creates({"file"})>>)}

cnc_update_ztp_config_file ==
    {Repeatable(<<Needs({"file"})>>
                \o When(keeps, <<Looks({"file"})>>)
                \o <<On({"file"}, Puts({"values"}))>>) : keeps \in BOOLEAN}

\* Four queries made at once for the users of the file, as one read of the
\* profiles and one of the devices.
cnc_delete_ztp_config_file ==
    {Repeatable(<<Needs({"file"}),
                  Guards(force, {"inProfile"}), Guards(force, {"inDevice"}),
                  Sparing(Unless(force, {"inProfile", "inDevice"}),
                          Deletes({"file"}))>>) : force \in BOOLEAN}

-----------------------------------------------------------------------------
\* Profiles.  The read-back by name cannot fail the call by finding nothing,
\* but does when it is not answered.
cnc_create_ztp_profile ==
    {Once(<<On({"file"}, ztp_write(Creates({"profile"}))),
            Confirms({"profile"})>>)}

cnc_delete_ztp_profile ==
    {Repeatable(<<Needs({"profile"}), Guards(force, {"named"}),
                  Sparing(Unless(force, {"named"}),
                      Off({"fileUsed"}, ztp_write(Deletes({"profile"}))))>>) :
        force \in BOOLEAN}

-----------------------------------------------------------------------------
\* Serial numbers.  The service counts a known one as a duplicate and says
\* "deleted" of an unknown one; one that a device holds it refuses.
cnc_add_ztp_serial_numbers ==
    {Repeatable(<<ztp_write(Resent(Posts({"serial"})))>>)}

cnc_delete_ztp_serial_numbers ==
    {Repeatable(<<Off({"bound"}, Needs({"serial"})),
                  Sparing({"bound"}, Off({"bound"},
                      ztp_write(Mild(Deletes({"serial"})))))>>)}

-----------------------------------------------------------------------------
\* Static routes are installed and removed in the background: the tool polls
\* until the route has settled, or is gone, and says so when it has not.
cnc_create_ztp_static_route ==
    {Once(<<ztp_write(Creates({"route"})), Confirms({"route"})>>)}

cnc_delete_ztp_static_route ==
    {Repeatable(<<Looks({"route"}),
                  Off({"settling"}, ztp_write(Deletes({"route"}))),
                  Gone({"route"})>>)}

-----------------------------------------------------------------------------
\* Devices.  The serial may be registered on the way; when the device is then
\* refused, or not answered, the text says that the serial stays.
cnc_create_ztp_device ==
    {Once(When(register, <<ztp_write(Resent(Posts({"serial"})))>>)
          \o <<On({"serial", "profile"},
                  [ztp_write(Creates({"device"})) EXCEPT !.tells = register]),
               Confirms({"device"})>>) : register \in BOOLEAN}

\* An unknown device is answered with code 200 and a message, which the tool
\* looks for.
cnc_delete_ztp_device ==
    {Repeatable(<<Needs({"device"}), ztp_write(Deletes({"device"}))>>)}

ZtpCalls ==
    cnc_upload_ztp_config_file \union cnc_update_ztp_config_file
    \union cnc_delete_ztp_config_file \union cnc_create_ztp_profile
    \union cnc_delete_ztp_profile \union cnc_add_ztp_serial_numbers
    \union cnc_delete_ztp_serial_numbers \union cnc_create_ztp_static_route
    \union cnc_delete_ztp_static_route \union cnc_create_ztp_device
    \union cnc_delete_ztp_device
=============================================================================
