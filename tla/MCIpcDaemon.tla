----------------------------- MODULE MCIpcDaemon -----------------------------
(***************************************************************************)
(* Two clients, so that one can be left behind on a socket while the other *)
(* is served; two sockets, so that an old one with clients on it and a new *)
(* one exist together; two kills, of clients or of the daemon.             *)
(***************************************************************************)
EXTENDS IpcDaemon
=============================================================================
