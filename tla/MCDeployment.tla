---------------------------- MODULE MCDeployment ----------------------------
(* Small instances of Deployment for TLC: the values of its constants. *)
EXTENDS DeploymentInvariant, TLC

CONSTANTS p, q

MCBase == [img |-> "v0", rest |-> "t0", audit |-> "a0", by |-> Outside]

MCImages == {"v0", "vp", "vq"}
MCAudits == {"a0", "ap", "aq"}

MCImageOf == [r \in Runs |-> IF r = p THEN "vp" ELSE "vq"]
MCAuditOf == [r \in Runs |-> IF r = p THEN "ap" ELSE "aq"]
=============================================================================
