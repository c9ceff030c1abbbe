---------------------------- MODULE MCAdminModes ----------------------------
(* Two admins, whose requests can cross, and a client without the token.    *)
EXTENDS AdminModes

CONSTANTS alice, bob, carol

MCClients == {alice, bob, carol}
MCAdmins == {alice, bob}
=============================================================================
