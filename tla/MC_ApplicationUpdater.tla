----------------------- MODULE MC_ApplicationUpdater -----------------------
(* Model values and bounds for checking ApplicationUpdater with TLC.       *)
EXTENDS ApplicationUpdater

MC_Names    == {"", "DB_HOST"}
MC_Vals     == {"", "db1"}
MC_Paths    == {"", "/etc/a", "/etc/b"}
MC_Contents == {"c1", "c2"}
MC_Volumes  == {"pv1"}
MC_Hosts    == {1, 2}
MC_Mems     == {0, 512}

(* The backend's configuration when the editor opens: one row of every    *)
(* list, so that deleting, replacing and re-adding rows all happen.        *)
MC_InitServer ==
    {[proxy |-> FALSE, memory |-> 512, hosts |-> <<2, 1>>,
      env |-> <<[name |-> "DB_HOST", value |-> "db1"]>>,
      mounts |-> <<[path |-> "/etc/a", content |-> "c1"]>>,
      pvs |-> <<[volume |-> "pv1", path |-> "/etc/b"]>>,
      gitCred |-> 1, regCred |-> NullID,
      buildArgs |-> [k \in ArgKeys |-> "db1"]]}
(* The same application deployed without a git credential: the backend   *)
(* holds null, as applyConfigurationChanges itself sends for "none".      *)
MC_NullCredInitServer == {[c EXCEPT !.gitCred = NullID] : c \in MC_InitServer}

(* Smaller domains for the runs that also send updates: one free path      *)
(* besides the one the backend uses, one content, one hostname.           *)
MC_SavePaths    == {"", "/etc/a"}
MC_SaveContents == {"c1"}
MC_SaveHosts    == {1}
MC_SaveMems     == {0}

MC_SaveInitServer ==
    {[proxy |-> FALSE, memory |-> 0, hosts |-> <<1>>,
      env |-> <<[name |-> "DB_HOST", value |-> "db1"]>>,
      mounts |-> <<[path |-> "/etc/a", content |-> "c1"]>>,
      pvs |-> <<>>, gitCred |-> 1, regCred |-> NullID,
      buildArgs |-> <<>>]}
=============================================================================
