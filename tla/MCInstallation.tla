--------------------------- MODULE MCInstallation ---------------------------
(* Two accounts: the administrator that elevates and the daily user.         *)
EXTENDS Installation
CONSTANTS u1, u2
MCAccounts == {u1, u2}
==============================================================================
