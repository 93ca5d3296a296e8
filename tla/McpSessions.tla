----------------------------- MODULE McpSessions -----------------------------
(***************************************************************************)
(* Connections to MCP servers (infrastructure/mcp.rs): calls with the same *)
(* server configuration share one process, kept in a table of at most      *)
(* MCP_MAX_SESSIONS entries.  A connection lives while the table or a call *)
(* refers to it (Arc).  A call that finds none starts one under a lock of  *)
(* its key; the lock is taken out of the map of locks as soon as it is     *)
(* held, so that calls which come later make, and hold, another one.       *)
(***************************************************************************)
EXTENDS Naturals, FiniteSets

CONSTANTS
  McpCalls,       (* calls of with_mcp_client, each of them once           *)
  McpKeys,        (* values of mcp_server_key                              *)
  NoCall,
  McpLimit        (* MCP_MAX_SESSIONS                                      *)

ASSUME McpAssumption == NoCall \notin McpCalls /\ McpLimit \in Nat \ {0}

VARIABLES
  mcp,            (* a call: its key, place, lock and connection           *)
  connection,     (* what the process a call started is: none, up, failing *)
  sessions,       (* per key the call that started its entry, or NoCall    *)
  initializations (* per key the call that made the lock in the map, or NoCall *)

mcpVars == <<mcp, connection, sessions, initializations>>

McpInit ==
  /\ mcp \in [McpCalls -> {[key |-> k, at |-> "look", lock |-> NoCall, via |-> NoCall] :
                             k \in McpKeys}]
  /\ connection = [c \in McpCalls |-> "none"]
  /\ sessions = [k \in McpKeys |-> NoCall]
  /\ initializations = [k \in McpKeys |-> NoCall]

Kept == {k \in McpKeys : sessions[k] # NoCall}
CallersOf(i) == {c \in McpCalls : mcp[c].via = i}

(* Entries that only the table refers to (strong_count of 1).              *)
IdleEntries == {k \in Kept : CallersOf(sessions[k]) = {}}
Without(table, keys) == [k \in McpKeys |-> IF k \in keys THEN NoCall ELSE table[k]]

UseConnection(c, i) == mcp' = [mcp EXCEPT ![c].at = "use", ![c].via = i]

-----------------------------------------------------------------------------
(* The first look, after the entries unused for ten minutes were taken out. *)
LookUp(c) ==
  LET k == mcp[c].key IN
  /\ mcp[c].at = "look"
  /\ \E expired \in SUBSET IdleEntries :
       /\ sessions' = Without(sessions, expired)
       /\ IF sessions'[k] # NoCall
          THEN UseConnection(c, sessions'[k]) /\ UNCHANGED initializations
          ELSE LET lock == IF initializations[k] = NoCall THEN c ELSE initializations[k] IN
               /\ initializations' = [initializations EXCEPT ![k] = lock]
               /\ mcp' = [mcp EXCEPT ![c].at = "lock", ![c].lock = lock]
  /\ UNCHANGED connection

Held(lock) == \E d \in McpCalls : mcp[d].at = "start" /\ mcp[d].lock = lock

(* With the lock: the lock leaves the map and the table is read again.     *)
TakeLock(c) ==
  LET k == mcp[c].key IN
  /\ mcp[c].at = "lock" /\ ~Held(mcp[c].lock)
  /\ initializations' = [initializations EXCEPT ![k] = NoCall]
  /\ IF sessions[k] # NoCall THEN UseConnection(c, sessions[k])
     ELSE mcp' = [mcp EXCEPT ![c].at = "start"]
  /\ UNCHANGED <<connection, sessions>>

(* StdioMcpClient::start, initialize and tools fail.                       *)
StartFails(c) ==
  /\ mcp[c].at = "start"
  /\ mcp' = [mcp EXCEPT ![c].at = "done"]
  /\ UNCHANGED <<connection, sessions, initializations>>

(* evict_oldest_idle_session: what it may leave of a table.  The ages of   *)
(* the entries are not modelled.                                           *)
AfterEviction ==
  {left \in {Without(sessions, out) : out \in SUBSET IdleEntries} :
     LET n == Cardinality({k \in McpKeys : left[k] # NoCall})
         idle == {k \in IdleEntries : left[k] # NoCall}
     IN n < McpLimit \/ idle = {}}

(* The connection is ready: it takes the place of the entry of its key, or *)
(* is given up when the table stays full.                                  *)
KeepConnection(c) ==
  /\ mcp[c].at = "start"
  /\ \E left \in AfterEviction :
       IF Cardinality({k \in McpKeys : left[k] # NoCall}) >= McpLimit
       THEN /\ mcp' = [mcp EXCEPT ![c].at = "done"]
            /\ sessions' = left
            /\ UNCHANGED connection
       ELSE /\ sessions' = [left EXCEPT ![mcp[c].key] = c]
            /\ connection' = [connection EXCEPT ![c] = "up"]
            /\ UseConnection(c, c)
  /\ UNCHANGED initializations

-----------------------------------------------------------------------------
(* The operation of a call: requests by number, each answered, failed by   *)
(* the reader that ended, or timed out.  "invalid" is an error of          *)
(* mcp_error_invalidates_session; an operation with a fallback may hide it. *)
Operate(c) ==
  /\ mcp[c].at = "use"
  /\ \E result \in {"valid", "invalid"} : mcp' = [mcp EXCEPT ![c].at = result]
  /\ UNCHANGED <<connection, sessions, initializations>>

(* The process ends, closes its output or breaks the protocol.             *)
ConnectionFails(i) ==
  /\ connection[i] = "up"
  /\ connection' = [connection EXCEPT ![i] = "failing"]
  /\ UNCHANGED <<mcp, sessions, initializations>>

(* is_alive: a process that fails otherwise than by ending is alive.       *)
MayBeAlive(i) == {TRUE} \cup {connection[i] = "up"}

(* Mutant of Settle: the entry of the key is taken out, whosever it is.    *)
SettleByKey(c) ==
  /\ mcp[c].at \in {"valid", "invalid"}
  /\ \E alive \in MayBeAlive(mcp[c].via) :
       sessions' = IF alive /\ mcp[c].at = "valid" THEN sessions
                   ELSE Without(sessions, {mcp[c].key})
  /\ mcp' = [mcp EXCEPT ![c].at = "done", ![c].via = NoCall]
  /\ UNCHANGED <<connection, initializations>>

(* The end of a call: its own connection is taken out if it failed.        *)
Settle(c) ==
  LET k == mcp[c].key IN
  /\ mcp[c].at \in {"valid", "invalid"}
  /\ \E alive \in MayBeAlive(mcp[c].via) :
       sessions' = IF sessions[k] # mcp[c].via \/ (alive /\ mcp[c].at = "valid") THEN sessions
                   ELSE Without(sessions, {k})
  /\ mcp' = [mcp EXCEPT ![c].at = "done", ![c].via = NoCall]
  /\ UNCHANGED <<connection, initializations>>

(* close_mcp_session: on disconnect, before a test and when a test took    *)
(* too long; close_all_mcp_sessions at the end of the application.         *)
CloseSessions(keys) ==
  /\ sessions' = Without(sessions, keys)
  /\ initializations' = Without(initializations, keys)
  /\ UNCHANGED <<mcp, connection>>

McpNext ==
  \/ \E c \in McpCalls :
       \/ LookUp(c) \/ TakeLock(c) \/ StartFails(c) \/ KeepConnection(c)
       \/ Operate(c) \/ Settle(c) \/ ConnectionFails(c)
  \/ \E keys \in {{k} : k \in McpKeys} \cup {McpKeys} : CloseSessions(keys)

McpSpec == McpInit /\ [][McpNext]_mcpVars

-----------------------------------------------------------------------------
FoundFailed(i) == connection[i] = "failing" \/ \E c \in CallersOf(i) : mcp[c].at = "invalid"

(* A connection leaves the table only when no call uses it, when a newer   *)
(* one of its key takes its place, when it failed or failed one of its own *)
(* callers, or when the user closes it: a call that ends late on a         *)
(* connection that was replaced leaves the replacement to its callers.     *)
ConnectionsAreKept ==
  [][\A k \in Kept :
       \/ sessions'[k] # NoCall
       \/ k \in IdleEntries
       \/ FoundFailed(sessions[k])
       \/ \E keys \in SUBSET McpKeys : k \in keys /\ CloseSessions(keys)]_mcpVars
=============================================================================
