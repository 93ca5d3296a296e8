--------------------------- MODULE OpenCodeTasks ---------------------------
(***************************************************************************)
(* Agent runs on OpenCode (infrastructure/ai_worker.rs): the pool of       *)
(* persistent servers that runs of one command, folder and connectors      *)
(* share, the OpenCode sessions remembered for later runs, and what a run  *)
(* must show to count as completed.                                        *)
(*                                                                         *)
(* A server is looked up under the lock of the pool, and again under a     *)
(* second lock that lets one server start at a time; it is started with    *)
(* the pool unlocked.  A server lives while the pool or a run refers to it *)
(* (Arc), unless its process ends.                                         *)
(***************************************************************************)
EXTENDS Naturals, FiniteSets

CONSTANTS
  Calls,          (* runs, each of them once                               *)
  ServerKeys,     (* values of opencode_server_key                         *)
  PoolLimit       (* MAX_OPENCODE_SERVERS                                  *)

ASSUME OpenCodeAssumption == PoolLimit \in Nat \ {0}

VARIABLES
  key,            (* opencode_server_key of a run                          *)
  task,           (* where a run is, and its session                       *)
  server,         (* process of the server a run started: absent, starting, up or dead *)
  uses,           (* the run whose server a run uses, or none              *)
  pool,           (* OPENCODE_SERVERS: runs whose servers are in it        *)
  remembered,     (* OPENCODE_SESSIONS: keys with a session                *)
  closed          (* close_all_opencode_servers was called                 *)

openCodeVars == <<key, task, server, uses, pool, remembered, closed>>

OpenCodeInit ==
  /\ key \in [Calls -> ServerKeys]
  /\ task = [c \in Calls |-> [at |-> "lookup", session |-> "none"]]
  /\ server = [c \in Calls |-> "absent"]
  /\ uses = [c \in Calls |-> {}]
  /\ pool = {}
  /\ remembered = {}
  /\ closed = FALSE

GoTo(c, place) == task' = [task EXCEPT ![c].at = place]
Up(i) == server[i] = "up"
Alive == {i \in pool : Up(i)}
Hit(c) == {i \in Alive : key[i] = key[c]}
Users(i) == {c \in Calls : i \in uses[c]}
Starting == \E c \in Calls : task[c].at = "starting"

(* Servers nobody refers to end (Drop for OpenCodeServer).                 *)
Dropped(kept, using) ==
  [i \in Calls |->
    IF Up(i) /\ i \notin kept /\ \A c \in Calls : i \notin using[c]
    THEN "dead" ELSE server[i]]

-----------------------------------------------------------------------------
(* The first look, which forgets servers that ended.                       *)
Lookup(c) ==
  /\ task[c].at = "lookup"
  /\ pool' = Alive
  /\ IF Hit(c) # {}
     THEN GoTo(c, "serve") /\ uses' = [uses EXCEPT ![c] = Hit(c)]
     ELSE GoTo(c, "wait") /\ UNCHANGED uses
  /\ UNCHANGED <<server, remembered, closed>>

Launch(c, kept) ==
  /\ pool' = kept
  /\ GoTo(c, "starting")
  /\ server' = [Dropped(kept, uses) EXCEPT ![c] = "starting"]
  /\ UNCHANGED uses

Reuse(c) ==
  /\ pool' = Alive
  /\ GoTo(c, "serve")
  /\ uses' = [uses EXCEPT ![c] = Hit(c)]
  /\ UNCHANGED server

(* A full pool gives up a server no run uses; there may be none, or the    *)
(* process cannot be started: the run goes on without a server.            *)
MakeRoom(c) ==
  \/ Cardinality(Alive) < PoolLimit /\ Launch(c, Alive)
  \/ /\ Cardinality(Alive) >= PoolLimit
     /\ \E idle \in Alive : Users(idle) = {} /\ Launch(c, Alive \ {idle})
  \/ pool' = Alive /\ GoTo(c, "serve") /\ UNCHANGED <<server, uses>>

(* Mutant of LookAgain: the pool is not looked up a second time.           *)
LaunchAtOnce(c) ==
  /\ task[c].at = "wait" /\ ~Starting
  /\ MakeRoom(c)
  /\ UNCHANGED <<remembered, closed>>

(* Under the startup lock.                                                 *)
LookAgain(c) ==
  /\ task[c].at = "wait" /\ ~Starting
  /\ IF Hit(c) # {} THEN Reuse(c) ELSE MakeRoom(c)
  /\ UNCHANGED <<remembered, closed>>

(* The health endpoint answered, or the process ended or timed out.        *)
ServerReady(c) ==
  /\ task[c].at = "starting"
  /\ GoTo(c, "serve")
  /\ \/ /\ server[c] = "starting"
        /\ server' = [server EXCEPT ![c] = "up"]
        /\ pool' = pool \cup {c}
        /\ uses' = [uses EXCEPT ![c] = {c}]
     \/ /\ server' = [server EXCEPT ![c] = "dead"]
        /\ UNCHANGED <<pool, uses>>
  /\ UNCHANGED <<remembered, closed>>

ServerDies(i) ==
  /\ server[i] \in {"starting", "up"}
  /\ server' = [server EXCEPT ![i] = "dead"]
  /\ UNCHANGED <<task, uses, pool, remembered, closed>>

CloseAll ==
  /\ ~closed
  /\ closed' = TRUE
  /\ pool' = {}
  /\ remembered' = {}
  /\ server' = Dropped({}, uses)
  /\ UNCHANGED <<task, uses>>

-----------------------------------------------------------------------------
(* The run *)

(* The session of the Task Session, or else the remembered one.            *)
BeginRunning(c) ==
  /\ task[c].at = "serve"
  /\ \E given \in {TRUE, FALSE} :
       task' = [task EXCEPT ![c] =
         [at |-> "run",
          session |-> IF given \/ (uses[c] # {} /\ key[c] \in remembered)
                      THEN "expected" ELSE "new"]]
  /\ UNCHANGED <<server, uses, pool, remembered, closed>>

(* What git says of the folder after the run; git may say nothing.         *)
Facts == [clean : {"yes", "no", "unknown"}, head : {"new", "same", "unknown", "nostart"},
          pushed : {"yes", "no", "unknown"}]
Demands == {"nothing", "push", "environment"}

(* enforce_opencode_completion_guards, on a result that says COMPLETE.     *)
Guarded(demand, facts) ==
  demand = "nothing" \/
  /\ facts.pushed # "no"
  /\ demand = "environment" => facts.clean # "no" /\ facts.head \notin {"same", "nostart"}

(* The outcomes a run of the expected session can have: failed, and with   *)
(* the words COMPLETE or another, with the approval it needs or without.   *)
Verdicts ==
  {"failed"} \cup
  {IF complete /\ approved /\ Guarded(demand, facts) THEN "completed" ELSE "blocked" :
     complete \in BOOLEAN, approved \in BOOLEAN, demand \in Demands, facts \in Facts}

Finish(c, place) ==
  /\ task' = [task EXCEPT ![c] = [at |-> place, session |-> "none"]]
  /\ uses' = [uses EXCEPT ![c] = {}]
  /\ server' = Dropped(pool, uses')
  /\ UNCHANGED <<pool, closed>>

(* A line of another session than the expected one ends the run.           *)
OtherSession(c) ==
  /\ task[c].at = "run" /\ task[c].session = "expected"
  /\ Finish(c, "failed")
  /\ UNCHANGED remembered

EndRunning(c) ==
  /\ task[c].at = "run"
  /\ \E verdict \in Verdicts :
       /\ Finish(c, verdict)
       /\ remembered' = IF verdict # "failed" /\ uses[c] # {}
                        THEN remembered \cup {key[c]} ELSE remembered

OpenCodeNext ==
  /\ UNCHANGED key
  /\ \/ CloseAll
     \/ \E c \in Calls :
          \/ Lookup(c) \/ LookAgain(c) \/ ServerReady(c) \/ ServerDies(c)
          \/ BeginRunning(c) \/ OtherSession(c) \/ EndRunning(c)

OpenCodeSpec == OpenCodeInit /\ [][OpenCodeNext]_openCodeVars

-----------------------------------------------------------------------------
(* However lookups, starts, ends of servers and evictions interleave: runs *)
(* with one key never have two live servers, no more servers live than the *)
(* pool may hold, and no server is ended under a run that uses it, unless  *)
(* the application is closing.                                             *)
ServersShared ==
  ~closed =>
    /\ \A i, j \in Calls : Up(i) /\ Up(j) /\ key[i] = key[j] => i = j
    /\ Cardinality({i \in Calls : Up(i)}) <= PoolLimit
    /\ \A i \in Calls : Up(i) => i \in pool
=============================================================================
