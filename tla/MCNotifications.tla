-------------------------- MODULE MCNotifications --------------------------
(***************************************************************************)
(* The instances of MCSignaling, with what the gateway pushes.             *)
(***************************************************************************)
EXTENDS Notifications, MCSignaling
=============================================================================
