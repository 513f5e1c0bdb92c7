----------------------------- MODULE MCUpdater ------------------------------
(***************************************************************************)
(* An instance of Updater for TLC: versions of one to three components,    *)
(* some of which compare alike or have a component that is no number.      *)
(***************************************************************************)
EXTENDS Updater

FirstVersion == <<1, 1>>

SomeVersions == {<<1, 1>>, <<1, 1, 1>>, <<2, 0>>, <<1, Text>>}

=============================================================================
