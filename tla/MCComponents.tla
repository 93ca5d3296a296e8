---------------------------- MODULE MCComponents ----------------------------
(***************************************************************************)
(* Small instances, for TLC, of the components that share no state: each   *)
(* behaviour is one of one component, so that the state spaces add up.     *)
(* Calls and their servers are numbers, so that of the initial states that *)
(* differ only in which is which one is enough.                            *)
(***************************************************************************)
EXTENDS DirectRuns, AgentProcess, OpenCodeTasks, McpSessions, AgentAttempts,
        OcpConnector, OcpConfiguration, SessionWatch, WorkspaceFiles, RecoverySnapshots,
        LanguageServers, PromptAttempts, MCSessionBindings,
        JournalReaders

(* One session with a journal, and one without an event to look at instead.*)
OneJournal == [s \in TraceSessions |-> IF s = 1 THEN 4 ELSE 0]

VARIABLE component

vars == <<component, directVars, processVars, openCodeVars, mcpVars, attemptVars,
          connectorVars, configurationVars, watchVars, filesVars, recoveryVars,
          languageVars, promptVars, bindingVars, readersVars>>

KeyUsers(k) == Cardinality({c \in Calls : key[c] = k})
InOrder(of, calls) == \A c, d \in calls : c < d => of[c] <= of[d]
Somewhere == CHOOSE f \in Directories : TRUE
Something == CHOOSE c \in Contents : TRUE

ComponentsInit ==
  /\ component \in {"agents", "prompts", "process", "opencode", "mcp", "attempts",
                    "connector", "configuration", "watch", "files", "recovery",
                    "documents", "requests", "chats", "bindings", "journal"}
  /\ DirectInit
  /\ ProcessInit /\ (component # "process" => mode = "jsonl")
  /\ OpenCodeInit /\ (component # "opencode" => \A c \in Calls : key[c] = 1)
     /\ InOrder(key, Calls) /\ \A i, j \in ServerKeys : i < j => KeyUsers(i) >= KeyUsers(j)
  /\ McpInit /\ (component # "mcp" => \A c \in McpCalls : mcp[c].key = 1)
     /\ InOrder([c \in McpCalls |-> mcp[c].key], McpCalls) /\ mcp[1].key = 1
  /\ AttemptsInit
  /\ ConnectorInit /\ (component # "connector" => approval.state = "none")
  /\ ConfigurationInit
  /\ WatchInit /\ (component # "watch" => record.kind = "agent")
  /\ FilesInit /\ root.folder = Somewhere
     /\ (component # "files" => \A f \in Directories : disk[f] = Something)
  /\ LanguageInit
  /\ PromptInit /\ (component # "chats" => prompt.kind = "edit")
  /\ BindingsInit
  /\ component # "bindings" => settings = [rules |-> "rules", catalog |-> CHOOSE c \in TwoCatalogs : TRUE]
  /\ RecoveryInit /\ folder.at = Somewhere
  /\ ReadersInit /\ console.session = CHOOSE s \in TraceSessions : JournalLimit[s] > 0

ComponentsNext ==
  /\ UNCHANGED component
  /\ component \notin {"agents", "prompts"} => UNCHANGED directVars
  /\ component # "process" => UNCHANGED processVars
  /\ component # "opencode" => UNCHANGED openCodeVars
  /\ component # "mcp" => UNCHANGED mcpVars
  /\ component # "attempts" => UNCHANGED attemptVars
  /\ component # "connector" => UNCHANGED connectorVars
  /\ component # "configuration" => UNCHANGED configurationVars
  /\ component # "watch" => UNCHANGED watchVars
  /\ component # "files" => UNCHANGED filesVars
  /\ component # "recovery" => UNCHANGED recoveryVars
  /\ component # "chats" => UNCHANGED promptVars
  /\ component # "bindings" => UNCHANGED bindingVars
  /\ component # "journal" => UNCHANGED readersVars
  /\ component # "documents" => UNCHANGED documentVars
  /\ component # "requests" => UNCHANGED requestVars
  /\ \/ component = "agents" /\ AgentRunNext
     \/ component = "prompts" /\ PromptRunNext
     \/ component = "process" /\ ProcessNext
     \/ component = "opencode" /\ OpenCodeNext
     \/ component = "mcp" /\ McpNext
     \/ component = "attempts" /\ AttemptsNext
     \/ component = "connector" /\ ConnectorNext
     \/ component = "configuration" /\ ConfigurationNext
     \/ component = "watch" /\ WatchNext
     \/ component = "files" /\ FilesNext
     \/ component = "recovery" /\ RecoveryNext
     \/ component = "chats" /\ PromptNext
     \/ component = "bindings" /\ BindingsNext
     \/ component = "journal" /\ ReadersNext
     \/ component = "documents" /\ DocumentNext
     \/ component = "requests" /\ RequestNext

ComponentsSpec == ComponentsInit /\ [][ComponentsNext]_vars
=============================================================================
