----------------------------- MODULE MCStatusView -----------------------------
(* A client that is stopped, one that is suspended without network, and two    *)
(* that compute under a network mode and under a run mode that ClientStatus    *)
(* cannot parse.  A poll whose two calls see the third and then the first      *)
(* gives an idle one.                                                          *)
EXTENDS StatusView

CState(mode, reason, active, net, netReason) ==
    [mode |-> mode, reason |-> reason, active |-> active, net |-> net,
     netReason |-> netReason]

MCClientStates == {
    CState("never", 4, FALSE, "auto", 0),
    CState("auto", 1, TRUE, "auto", 8192),
    CState("auto", 0, TRUE, "always", 0),
    CState("always", 0, TRUE, "auto", 0) }
=============================================================================
