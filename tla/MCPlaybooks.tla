------------------------------- MODULE MCPlaybooks -------------------------------
(* The tools the two playbooks are made of, one of their reads, and the settings. *)
EXTENDS Playbooks

MCWrites == {CreateL3vpn, StartTrace, CreateSr} \union Playbook
MCTools == MCWrites \union {WaitPlan}
MCPreviews == {CreateL3vpn} \union Playbook
MCArea ==
    [t \in MCTools |->
        CASE t = CreateL3vpn -> "service_provisioning"
          [] t = StartTrace -> "oam"
          [] t = CreateSr -> "sr_te_operations"
          [] t = WaitPlan -> "services"
          [] t \in Playbook -> "composite"]
MCAreas == {"service_provisioning", "oam", "sr_te_operations", "services", "composite"}
MCNames == MCTools \union {"cnc_start_oam_tracert"}
MCRequires == [t \in MCTools |-> IF t \in Playbook THEN {CommitTool(t)} ELSE {}]

WriteAreas ==
    {{}, {"composite"}, {"composite", "service_provisioning"}, {"composite", "srte"},
     {"composite", "sr_te_operations", "oam"}, {"service_provisioning", "oam"}}
MCSettings ==
    [enable_writes : BOOLEAN,
     write_areas : WriteAreas,
     disabled_tools : {{}} \union {{t} : t \in MCNames},
     dry_run : BOOLEAN]
\* A server all of whose tools are there.
OpenSettings ==
    {[enable_writes |-> TRUE, write_areas |-> {}, disabled_tools |-> {}, dry_run |-> FALSE]}
================================================================================
