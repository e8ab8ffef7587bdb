------------------------------ MODULE MCSetup ------------------------------
(* Two mirrors that may have the file or something smaller or larger, with *)
(* clamps and a word small enough that both clamps of a block bind, that a *)
(* block asked for may be longer than the file, and that a size reported   *)
(* may be too large for a file.                                            *)
EXTENDS Setup

SomeSizes == {1, 10, 24, 40}
OtherSizes == {0, 5, 79}
SomeCounts == 1 .. 3
SomeForces == {0, 1, 7, 79}

Names == {"lo", "eth", "wlan", "docker", "usb"}
SomeRoutes == {<<>>, <<"eth", "lo", "wlan", "eth">>, <<"docker", "eth", "usb">>}
Bridges == {"docker"}
AreUp == {"lo", "eth", "wlan", "docker"}
SomeNamed == {<<>>, <<"usb">>, <<"eth", "wlan">>}

=============================================================================
