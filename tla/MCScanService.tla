--------------------------- MODULE MCScanService ---------------------------
(* Every target kind, standalone and client/server, with and without a     *)
(* cache in the configuration.                                             *)
EXTENDS ScanService

MCKinds == LocalKinds \cup RemoteKinds
=============================================================================
