----------------------------- MODULE AgentDaemon -----------------------------
(***************************************************************************)
(* The agent daemon (agent/src/daemon.rs): agents are files, each with a DID *)
(* under the name of the daemon's key in Kubo, which is to be published     *)
(* before any agent gets one.                                               *)
(*                                                                          *)
(* Requests run beside each other and beside the task of the startup; the   *)
(* configuration is read, written to its file and put in place in separate  *)
(* steps, and calls of Kubo, or of the file system, may fail.  A key of Kubo *)
(* has one alias, by which its name, the base of DIDs, is known here.  Logs, *)
(* secrets and the answers of the world are left out.                       *)
(***************************************************************************)
CONSTANTS
    Handlers, Startup,      \* the requests under way at once, and the task of the startup
    Ids,                    \* the agents' ids
    Aliases,                \* of keys in Kubo
    Legacy,                 \* the agents that an earlier version's directories have
    Elsewhere,              \* configurations in a file that is not the daemon's
    Missing

Config == [alias : Aliases, base : Aliases \cup {Missing}]
Handling ==
    [op : {"startup", "create", "send", "update", "append", "reload"},
     at : {"read", "find", "resolve", "publish", "keep", "install", "granted", "peek", "name",
           "say", "resave"},
     id : Ids \cup {Missing}, found : Aliases \cup {Missing},   \* the agent, and the base its file named
     conf : Config \cup {Missing}, next : Config \cup {Missing}, \* what was read, and what is to be
     base : Aliases \cup {Missing}]                         \* what the agent's DID is to be under

ASSUME DaemonAssumption ==
    /\ Startup \notin Handlers /\ Missing \notin Aliases \cup Ids \cup Config \cup Handling
    /\ Legacy \in [Ids -> Aliases \cup {Missing}]
    /\ Elsewhere \subseteq [alias : Aliases, base : {Missing}]

VARIABLES
    cfg,        \* state.cfg
    file,       \* agentd.yaml
    agents,     \* agents/<id>.json: the base of the agent's DID
    call,       \* what each handler is about
    keys,       \* Kubo: the keys there are
    records,    \* IPNS: the names that lead to the daemon's DID document
    spoken      \* the bases of the DIDs that messages were sent under

daemonVars == <<cfg, file, agents, call, keys, records, spoken>>

Blank == [op |-> "startup", at |-> "read", id |-> Missing, found |-> Missing, conf |-> Missing, next |-> Missing,
             base |-> Missing]
Booting == [t \in Handlers \cup {Startup} |-> IF t = Startup THEN Blank ELSE Missing]

\* migrate_legacy_agent_data: what is not there is copied, deleted or not.
Migrated == [i \in Ids |-> IF agents[i] = Missing THEN Legacy[i] ELSE agents[i]]

DaemonInit ==
    /\ \E a \in Aliases : cfg = [alias |-> a, base |-> Missing]
    /\ file = cfg
    /\ agents = Legacy
    /\ call = Booting
    /\ keys \in SUBSET Aliases /\ records = {} /\ spoken = {}

-----------------------------------------------------------------------------
Reached(t, step) == call[t] # Missing /\ call[t].at = step
Goes(t, c) == call' = [call EXCEPT ![t] = c]
Ends(t) == Goes(t, Missing)
Proceeds(t, step) == Goes(t, [call[t] EXCEPT !.at = step])
Starts(t, c) == t \in Handlers /\ call[t] = Missing /\ Goes(t, c)

Outside == <<keys, records, spoken>>

-----------------------------------------------------------------------------
(* ensure_world_base_did_published                                          *)

ReadConfig(t) ==
    /\ Reached(t, "read")
    /\ Goes(t, [call[t] EXCEPT !.at = "find", !.conf = cfg, !.base = cfg.alias])
    /\ UNCHANGED <<cfg, file, agents, Outside>>

\* A missing key is made, and then looked up again, each of which may fail.
FindKey(t) ==
    /\ Reached(t, "find")
    /\ \/ keys' = keys \cup {call[t].base} /\ (Proceeds(t, "resolve") \/ Ends(t))
       \/ Ends(t) /\ UNCHANGED keys
    /\ UNCHANGED <<cfg, file, agents, records, spoken>>

\* Broken variant of Found: whatever the name leads to is taken for the document.
FoundAnything(a) == a \in keys

\* resolved_base_did_document: the document of that id, with all its fields.
Found(a) == a \in records

\* A name that is not found, or cannot be asked for, is published.
Resolve(t) ==
    /\ Reached(t, "resolve")
    /\ \/ Found(call[t].base) /\ Proceeds(t, "keep")
       \/ Proceeds(t, "publish")
    /\ UNCHANGED <<cfg, file, agents, Outside>>

\* A publication that fails may have gone through.
PublishBase(t) ==
    /\ Reached(t, "publish")
    /\ \/ records' = records \cup {call[t].base} /\ (Proceeds(t, "keep") \/ Ends(t))
       \/ Ends(t) /\ UNCHANGED records
    /\ UNCHANGED <<cfg, file, agents, keys, spoken>>

\* The base is kept with the configuration as it was read.
KeepBase(t) ==
    LET c == call[t] IN
    /\ Reached(t, "keep") /\ c.op # "update"
    /\ IF c.conf.base = c.base THEN Proceeds(t, "granted") /\ UNCHANGED file
       ELSE \/ /\ file' = [c.conf EXCEPT !.base = c.base]
               /\ Goes(t, [c EXCEPT !.at = "install", !.next = file'])
            \/ Ends(t) /\ UNCHANGED file
    /\ UNCHANGED <<cfg, agents, Outside>>

\* The end of persist_runtime_config and of reload_runtime_config.
InstallConfig(t) ==
    /\ Reached(t, "install")
    /\ cfg' = call[t].next
    /\ IF call[t].op \in {"update", "reload"} THEN Ends(t) ELSE Proceeds(t, "granted")
    /\ UNCHANGED <<file, agents, Outside>>

Ensure(t) == ReadConfig(t) \/ FindKey(t) \/ Resolve(t) \/ PublishBase(t) \/ KeepBase(t) \/ InstallConfig(t)

-----------------------------------------------------------------------------
(* Agents                                                                   *)

\* save_agent_meta, which may fail.
Saves(i, base) == agents' \in {agents, [agents EXCEPT ![i] = base]}

AskCreate(t, i) ==
    /\ agents[i] = Missing
    /\ Starts(t, [Blank EXCEPT !.op = "create", !.id = i])
    /\ UNCHANGED <<cfg, file, agents, Outside>>

\* The startup wants no more than the publication.
Granted(t) ==
    LET c == call[t] IN
    /\ Reached(t, "granted")
    /\ \/ c.op = "startup" /\ Ends(t) /\ UNCHANGED agents
       \/ c.op = "create" /\ Saves(c.id, c.base) /\ Ends(t)
       \/ c.op = "send" /\ Proceeds(t, "name") /\ UNCHANGED agents
    /\ UNCHANGED <<cfg, file, Outside>>

Delete(i) ==
    /\ agents' \in {agents, [agents EXCEPT ![i] = Missing]}
    /\ UNCHANGED <<cfg, file, call, Outside>>

\* append_log and send_agent begin with the agent's file.
AskAgent(t, i) ==
    /\ agents[i] # Missing
    /\ \E op \in {"append", "send"} :
        Starts(t, [Blank EXCEPT !.op = op, !.id = i, !.found = agents[i],
                                !.at = IF op = "append" THEN "resave" ELSE "peek"])
    /\ UNCHANGED <<cfg, file, agents, Outside>>

Resave(t) ==
    /\ Reached(t, "resave")
    /\ Saves(call[t].id, call[t].found)
    /\ Ends(t)
    /\ UNCHANGED <<cfg, file, Outside>>

\* A base that is configured is used as it is.
Peek(t) ==
    /\ Reached(t, "peek")
    /\ IF cfg.base = Missing THEN Proceeds(t, "read")
       ELSE Goes(t, [call[t] EXCEPT !.at = "name", !.base = cfg.base])
    /\ UNCHANGED <<cfg, file, agents, Outside>>

Name(t) ==
    LET c == call[t] IN
    /\ Reached(t, "name")
    /\ IF c.found = c.base THEN UNCHANGED agents ELSE Saves(c.id, c.base)
    /\ Proceeds(t, "say")
    /\ UNCHANGED <<cfg, file, Outside>>

\* Resolving the target, signing or sending may fail.
Speak(t) ==
    /\ Reached(t, "say")
    /\ spoken' \in {spoken, spoken \cup {call[t].base}}
    /\ Ends(t)
    /\ UNCHANGED <<cfg, file, agents, keys, records>>

Agents(t) ==
    \/ \E i \in Ids : AskCreate(t, i) \/ AskAgent(t, i)
    \/ Granted(t) \/ Resave(t) \/ Peek(t) \/ Name(t) \/ Speak(t)

-----------------------------------------------------------------------------
(* The configuration                                                        *)

AskUpdate(t, a) ==
    /\ Starts(t, [Blank EXCEPT !.op = "update", !.at = "keep", !.conf = cfg,
                               !.next = [cfg EXCEPT !.alias = a]])
    /\ UNCHANGED <<cfg, file, agents, Outside>>

WriteUpdate(t) ==
    /\ Reached(t, "keep") /\ call[t].op = "update"
    /\ \/ file' = call[t].next /\ Proceeds(t, "install")
       \/ Ends(t) /\ UNCHANGED file
    /\ UNCHANGED <<cfg, agents, Outside>>

\* A reload reads the file at the default place, which is the daemon's unless it
\* was started with another.
AskReload(t) ==
    /\ \E c \in {file} \cup Elsewhere :
        Starts(t, [Blank EXCEPT !.op = "reload", !.at = "install", !.next = c])
    /\ UNCHANGED <<cfg, file, agents, Outside>>

\* A process that starts may be given another alias, and writes its file.
Reboot ==
    /\ \E a \in Aliases : cfg' = [file EXCEPT !.alias = a]
    /\ file' = cfg'
    /\ agents' = Migrated
    /\ call' = Booting
    /\ UNCHANGED Outside

Configures(t) == (\E a \in Aliases : AskUpdate(t, a)) \/ WriteUpdate(t) \/ AskReload(t)

DaemonNext ==
    \/ \E t \in Handlers \cup {Startup} : Ensure(t) \/ Agents(t) \/ Configures(t)
    \/ \E i \in Ids : Delete(i)
    \/ Reboot

DaemonSpec == DaemonInit /\ [][DaemonNext]_daemonVars

-----------------------------------------------------------------------------
\* No agent has a DID, and no message is sent, under a name that does not lead to
\* the daemon's document: however updates, reloads, failures and restarts mix the
\* configurations that others have read, a base that is kept was found or
\* published before (ensure_world_base_did_published, send_agent).  What an
\* earlier version left is taken as it is.
Bases == {cfg.base, file.base} \cup {agents[i] : i \in {j \in Ids : agents[j] # Legacy[j]}} \cup spoken
BasesPublished == Bases \subseteq records \cup {Missing}
=============================================================================
