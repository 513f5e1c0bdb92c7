-------------------------- MODULE MCDownloadLadder --------------------------
(***************************************************************************)
(* DownloadLadder for TLC: three files of one section that discovery found *)
(* by the show-all click, whose expanded listing left an address.          *)
(***************************************************************************)
EXTENDS DownloadLadder

CONSTANTS section, instance  \* the section's URL, and the one left by the click

MCPagesOf == <<<<section, instance>>, <<section, instance>>, <<section>>>>
MCBeyond == {{}, {1, 2, 3}}
=============================================================================
