--------------------------- MODULE MCServerStart ----------------------------
(* A console and the service, with both PXE services or with none.          *)
EXTENDS ServerStart

CONSTANTS c1, c2, s1, s2

Both == [pxe |-> {"tftp", "dhcp"}]
MCSettings == {Both, DefaultConfig}
=============================================================================
