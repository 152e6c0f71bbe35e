--------------------------- MODULE MCCommandRuntime ---------------------------
(* Two clients and one session, which may end and begin again under a      *)
(* bootstrap; the runtime is bootstrapped again after a reset.             *)
EXTENDS CommandRuntime

CONSTANTS c1, c2, s1, nobody
TwoClients == {c1, c2}
OneSession == {s1}
=============================================================================
