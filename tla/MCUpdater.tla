----------------------------- MODULE MCUpdater -----------------------------
(* Constants of Updater for TLC: a panel, a helper and a text the installation *)
(* may lack, and one helper process.                                           *)
EXTENDS Updater

CONSTANTS helper

MCOptional == {LastFile}
MCHelper == {helper}
=============================================================================
