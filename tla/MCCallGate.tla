---------------------------- MODULE MCCallGate ----------------------------
(***************************************************************************)
(* A run over eight actions: a read, a push an ask rule wants reviewed     *)
(* each time, three deletions under one key of which a deny rule refuses   *)
(* one and one cannot list its targets, a privileged command, an           *)
(* allow-listed read the capability token does not cover, and a note to    *)
(* itself that needs nothing.                                              *)
(***************************************************************************)
EXTENDS CallGate

Deletions == {"delete_build", "delete_etc", "delete_glob"}
MCActions == {"read_file", "push", "sudo", "read_secret", "note"} \cup Deletions
MCKeys == {"note", "read_file", "git_push", "delete", "sudo"}

MCKeyOf == [a \in MCActions |->
    CASE a \in {"read_file", "read_secret"} -> "read_file"
      [] a = "push" -> "git_push"
      [] a \in Deletions -> "delete"
      [] a \in {"sudo", "note"} -> a]

MCRiskOf == [a \in MCActions |->
    CASE a \in {"read_file", "read_secret", "note"} -> Read
      [] a = "push" -> External
      [] a \in Deletions -> Destructive
      [] a = "sudo" -> Privileged]

MCHarmless == {"note"}
MCCapable == MCActions \ {"read_secret", "note"}
MCCeiling == Destructive
MCUnenumerable == {"delete_glob"}
MCAllowListed == {"read_secret"}
MCDenied == {"delete_etc"}
MCAskFirst == {"push"}

=============================================================================
