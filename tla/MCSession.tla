------------------------------ MODULE MCSession ------------------------------
(***************************************************************************)
(* Session for TLC: a preview of the GUI, which takes no sync.lock, beside *)
(* a command of the CLI.                                                   *)
(***************************************************************************)
EXTENDS Session

CONSTANTS preview, command, gui, cli

MCProcess == [r \in Runs |-> IF r = preview THEN gui ELSE cli]
MCKinds == [r \in Runs |-> IF r = preview THEN {"list"} ELSE {"sync", "login"}]
\* One thread is enough for a process that ends with its run.
MCThreads == [p \in Processes |-> IF p = gui THEN {1, 2} ELSE {1}]
=============================================================================
