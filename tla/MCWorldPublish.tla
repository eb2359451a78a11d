--------------------------- MODULE MCWorldPublish ---------------------------
(* Values of WorldPublish's constants for TLC. *)
EXTENDS WorldPublish

MCNoAdmins == {}
MCOneAdmin == {"http"}

MCAllJobs == Jobs
MCSaveOnly == {"save"}
MCNoFaults == {}
MCAllFaults == FaultKinds
MCPinFaults == {"put", "pin", "unpin"}

=============================================================================
