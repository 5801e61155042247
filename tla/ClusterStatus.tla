---------------------------- MODULE ClusterStatus ----------------------------
(***************************************************************************)
(* The status of one cluster as a user sees it when operations on it are   *)
(* run one at a time: what autok3s list shows, "Absent" when the cluster   *)
(* is not listed.                                                          *)
(***************************************************************************)
VARIABLE status

Settled == {"Running", "Failed", "Missing", "Removing"}
InProgress == {"Creating", "Upgrading"}

Init == status = "Absent"

(* A create is accepted for a new cluster, or for one whose create failed. *)
BeginCreate == status \in {"Absent", "Failed"} /\ status' = "Creating"

(* A create ends; one that is Running may still fail on its manifests.     *)
EndCreate ==
  \/ status = "Creating" /\ status' \in {"Running", "Failed"}
  \/ status = "Running" /\ status' = "Failed"

(* A join or an upgrade.                                                   *)
BeginUpgrade == status \in Settled /\ status' = "Upgrading"
EndUpgrade == status = "Upgrading" /\ status' = "Running"

(* list finds no instance.                                                 *)
Lose == status = "Running" /\ status' = "Missing"

(* A delete that fails leaves Removing behind.                             *)
BeginDelete == status \in Settled /\ status' = "Removing"
EndDelete == status = "Removing" /\ status' = "Absent"

Settle == (status = "Creating" /\ EndCreate) \/ EndUpgrade

Next == BeginCreate \/ EndCreate \/ BeginUpgrade \/ EndUpgrade
          \/ Lose \/ BeginDelete \/ EndDelete

(* Creating and Upgrading do not last.                                     *)
Spec == Init /\ [][Next]_status /\ WF_status(Settle)
=============================================================================
