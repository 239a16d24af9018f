--------------------------- MODULE MCJobLifecycle ---------------------------
(***************************************************************************)
(* Instances of JobLifecycle for TLC.                                      *)
(***************************************************************************)
EXTENDS JobLifecycle

\* Plist jobs: what they advertise, and what keeps them running
SafetyConfigs ==
  {{"ExitTimeOut"} \cup c : c \in
     {{"MachServices", "ResetAtClose", "AfterInitialDemand", "support_system"},
      {"MachServices", "DrainAll", "KeepAlive", "root_jobmgr"},
      {"DidNotCrash", "support_system"},
      {"StartInterval", "StartOnMount"},
      {"SuccessfulExit", "NetworkUp", "support_system"},
      {"FailedExit", "Crashed", "NetworkDown", "root_jobmgr"},
      {"RunAtLoad", "LaunchOnlyOnce"},
      {"MachServices", "legacy_mach_job", "root_jobmgr"},
      {"legacy_mach_job"}}}

\* For liveness: a job its process may switch between on demand and kept
\* alive, one that is always kept alive, one that resets its port, one that
\* is restarted and drained after a crash
LivenessConfigs ==
  {{"ExitTimeOut", "MachServices"},
   {"ExitTimeOut", "KeepAlive", "root_jobmgr"},
   {"ExitTimeOut", "MachServices", "ResetAtClose", "root_jobmgr"},
   {"ExitTimeOut", "MachServices", "DrainOne", "Crashed"}}

KeepAliveConfigs == {{"ExitTimeOut", "KeepAlive"}}
OnDemandConfigs  == {{"ExitTimeOut", "MachServices"}}
=============================================================================
