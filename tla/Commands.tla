------------------------------ MODULE Commands ------------------------------
(***************************************************************************)
(* The commands of proxy-ssh (src/worker/cli.py) that read or change the   *)
(* configuration, with the setup dialogue (src/worker/setup_wizard.py) and *)
(* the files (src/common/config_base.py, src/worker/config.py).            *)
(*                                                                         *)
(* A command is the user's program: it may stop at a question, or end with *)
(* an exception.  Names are resolved as Python does when a line runs:      *)
(*   - setup_wizard.py imports the module getpass, and not ClientConfig;   *)
(*   - the WorkerConfigManager of cli.py is the one of worker/config.py,   *)
(*     which has none of the pid file methods of worker/paths.py.          *)
(***************************************************************************)

VARIABLES
    config,     \* config.json exists
    client,     \* client-config.json exists
    at,         \* the question the running command asks, or "shell"
    last        \* how the last command ended

vars == <<config, client, at, last>>

(* Files written by hand or left by another version may be there.          *)
Init ==
    /\ config \in BOOLEAN /\ client \in BOOLEAN
    /\ at = "shell" /\ last = "none"

Ends(how) == at' = "shell" /\ last' = how
Asks(question) == at' = question /\ UNCHANGED last

-----------------------------------------------------------------------------
(* proxy-ssh setup.                                                        *)

(* BaseConfigManager.delete.                                               *)
Delete == config' = FALSE /\ client' = FALSE

(* An existing configuration is kept, unless --reset is given: then both   *)
(* files are deleted before the first question.                            *)
Setup(reset) ==
    /\ at = "shell"
    /\ IF config /\ ~reset THEN Ends("kept") ELSE Asks("ssh")
    /\ IF reset THEN Delete ELSE UNCHANGED <<config, client>>

(* _collect_ssh: a key without passphrase, or one that is not found; the   *)
(* default key is one of them if the user says nothing.                    *)
SshAnswered ==
    /\ at = "ssh"
    /\ Asks("server")
    /\ UNCHANGED <<config, client>>

(* A password or an encrypted key: getpass is the module, not the function.*)
SecretAsked ==
    /\ at = "ssh"
    /\ Ends("TypeError")
    /\ UNCHANGED <<config, client>>

(* _collect_server: the last question is answered.                         *)
ServerAnswered ==
    /\ at = "server"
    /\ Asks("nothing")
    /\ UNCHANGED <<config, client>>

(* run() goes on to WorkerConfig(..., client=ClientConfig(...)).  What     *)
(* follows (_verify_ssh, save, generate_client_config) is not reached.     *)
ConfigBuilt ==
    /\ at = "nothing"
    /\ Ends("NameError")
    /\ UNCHANGED <<config, client>>

(* Ctrl-C at a question.                                                   *)
Interrupted ==
    /\ at \in {"ssh", "server", "delete?"}
    /\ Ends("interrupted")
    /\ UNCHANGED <<config, client>>

-----------------------------------------------------------------------------
(* The other commands.                                                     *)

(* check_process_running() is called first, or after exists().             *)
Start ==
    /\ at = "shell"
    /\ Ends(IF config THEN "AttributeError" ELSE "no configuration")
    /\ UNCHANGED <<config, client>>

(* stop and status; restart stops first.                                   *)
StopOrStatus ==
    /\ at = "shell"
    /\ Ends("AttributeError")
    /\ UNCHANGED <<config, client>>

ShowConfig ==
    /\ at = "shell"
    /\ Ends(IF config THEN "shown" ELSE "no configuration")
    /\ UNCHANGED <<config, client>>

Reset ==
    /\ at = "shell"
    /\ IF config THEN Asks("delete?") ELSE Ends("no configuration")
    /\ UNCHANGED <<config, client>>

(* Confirmed, it stops the worker before it deletes anything.              *)
ResetAnswered ==
    /\ at = "delete?"
    /\ \E how \in {"cancelled", "AttributeError"} : Ends(how)
    /\ UNCHANGED <<config, client>>

-----------------------------------------------------------------------------
(* The user answers, or interrupts, every question.                        *)
Dialogue ==
    SshAnswered \/ SecretAsked \/ ServerAnswered \/ ConfigBuilt \/ Interrupted \/ ResetAnswered

Next ==
    \/ \E reset \in BOOLEAN : Setup(reset)
    \/ Dialogue
    \/ Start \/ StopOrStatus \/ ShowConfig \/ Reset

Spec == Init /\ [][Next]_vars /\ WF_vars(Dialogue)

(* README.md:101-103: after the dialogue "The Worker then: 1. Saves config *)
(* to ~/.config/proxy-ssh/config.json 2. Generates client config".         *)
SetupSaves == at = "nothing" ~> config /\ client
=============================================================================
