---------------------------- MODULE AgentProcess ----------------------------
(***************************************************************************)
(* One child process of infrastructure/ai_worker.rs with the threads that  *)
(* supervise it: run_cancellable_jsonl_command, whose reader thread sends  *)
(* line after line through a channel to the supervisor, and                *)
(* run_monitored_command, whose reader keeps what it reads up to a limit.  *)
(*                                                                         *)
(* The child leads a process group.  A helper it started is born in the    *)
(* group and with the output of the child, may give up either and may      *)
(* outlive the child.  The end of the output is the end of all who hold    *)
(* it, not of the group.  A line stands for a piece of output and is its   *)
(* number; stdout and stderr of the second function are one output.        *)
(***************************************************************************)
EXTENDS Naturals, Sequences

CONSTANTS
  Modes,          (* "jsonl" or "monitored"                                *)
  OutputLimit,    (* output_limit, in lines                                *)
  MaxLines        (* bound: lines written to the output                    *)

ASSUME ProcessAssumption ==
  MaxLines \in Nat /\ OutputLimit \in Nat /\ Modes \subseteq {"jsonl", "monitored"}

VARIABLES
  mode,       (* which of the two functions runs                           *)
  alive,      (* processes that run: child, helper                         *)
  group,      (* processes of the child's process group                    *)
  piped,      (* processes that hold the output open                       *)
  output,     (* lines in the pipe                                         *)
  written,    (* lines written so far                                      *)
  reader,     (* the reader thread: reading, ended or failed               *)
  channel,    (* line_rx; 0 is an error                                    *)
  delivered,  (* lines process_line accepted, or the reader kept           *)
  truncated,  (* the reader dropped a line                                 *)
  place,      (* where the supervisor is                                   *)
  outcome,    (* what the call returned                                    *)
  wanted      (* cancelled or timed out: true for the supervisor to see    *)

groupVars == <<alive, group, piped>>
lineVars == <<output, written, reader, channel, delivered, truncated>>
processVars == <<mode, groupVars, lineVars, place, outcome, wanted>>

ProcessInit ==
  /\ mode \in Modes
  /\ alive = {"child"} /\ group = {"child"} /\ piped = {"child"}
  /\ output = <<>> /\ written = 0
  /\ reader = "reading" /\ channel = <<>>
  /\ delivered = <<>> /\ truncated = FALSE
  /\ place = "check" /\ outcome = "none" /\ wanted = {}

-----------------------------------------------------------------------------
(* The processes *)

SupervisorKeeps == UNCHANGED <<mode, place, outcome, wanted>>

Fork ==
  /\ "child" \in alive /\ "helper" \notin alive
  /\ alive' = alive \cup {"helper"}
  /\ group' = group \cup {"helper"}
  /\ piped' = IF "child" \in piped THEN piped \cup {"helper"} ELSE piped
  /\ SupervisorKeeps /\ UNCHANGED lineVars

(* setsid: the helper is out of reach of a signal to the group.            *)
LeaveGroup ==
  /\ "helper" \in alive
  /\ group' = group \ {"helper"}
  /\ SupervisorKeeps /\ UNCHANGED <<alive, piped, lineVars>>

(* The output is redirected or closed.                                     *)
Redirect(process) ==
  /\ process \in piped
  /\ piped' = piped \ {process}
  /\ SupervisorKeeps /\ UNCHANGED <<alive, group, lineVars>>

WriteLine ==
  /\ piped # {} /\ reader = "reading"
  /\ written < MaxLines
  /\ written' = written + 1
  /\ output' = Append(output, written + 1)
  /\ SupervisorKeeps /\ UNCHANGED <<groupVars, reader, channel, delivered, truncated>>

Die(process) ==
  /\ process \in alive
  /\ alive' = alive \ {process} /\ piped' = piped \ {process}
  /\ SupervisorKeeps /\ UNCHANGED <<group, lineVars>>

(* A token is set, or the time is over.                                    *)
Want(reason) ==
  /\ outcome = "none"
  /\ wanted' = wanted \cup {reason}
  /\ UNCHANGED <<mode, groupVars, lineVars, place, outcome>>

-----------------------------------------------------------------------------
(* The reader thread: read_line until the end of the output or an error,   *)
(* or read_limited_with_limit, which drops what exceeds the limit.         *)
ReadLine ==
  /\ reader = "reading" /\ output # <<>>
  /\ output' = Tail(output)
  /\ \/ /\ mode = "jsonl"
        /\ channel' = Append(channel, Head(output))
        /\ UNCHANGED <<delivered, truncated>>
     \/ /\ mode = "monitored" /\ Len(delivered) < OutputLimit
        /\ delivered' = Append(delivered, Head(output))
        /\ UNCHANGED <<channel, truncated>>
     \/ /\ mode = "monitored" /\ Len(delivered) >= OutputLimit
        /\ truncated' = TRUE
        /\ UNCHANGED <<channel, delivered>>
  /\ SupervisorKeeps /\ UNCHANGED <<groupVars, written, reader>>

(* A line that is not UTF-8, or an error of the pipe.                      *)
ReadFails ==
  /\ reader = "reading"
  /\ reader' = "failed"
  /\ channel' = IF mode = "jsonl" THEN Append(channel, 0) ELSE channel
  /\ SupervisorKeeps /\ UNCHANGED <<groupVars, output, written, delivered, truncated>>

ReadEnd ==
  /\ reader = "reading" /\ output = <<>> /\ piped = {}
  /\ reader' = "ended"
  /\ SupervisorKeeps /\ UNCHANGED <<groupVars, output, written, channel, delivered, truncated>>

-----------------------------------------------------------------------------
(* The supervisor *)

Supervising(p) == outcome = "none" /\ place = p
MoveTo(p) == place' = p /\ UNCHANGED <<mode, outcome, wanted>>
Return(result) == outcome' = result /\ UNCHANGED <<mode, place, wanted>>

(* terminate_agent_process_group: SIGKILL to the group.                    *)
KillGroup == alive' = alive \ group /\ piped' = piped \ group /\ UNCHANGED group

(* terminate_agent_process; the reader is joined before the call returns.  *)
Stops == {"cancelled", "timed out", "refused", "unmonitored"}
Terminate(result) == KillGroup /\ MoveTo(result) /\ UNCHANGED lineVars

JoinReader ==
  /\ place \in Stops /\ outcome = "none" /\ reader # "reading"
  /\ Return(place) /\ UNCHANGED <<groupVars, lineVars>>

CheckWanted ==
  /\ Supervising("check")
  /\ IF "cancel" \in wanted THEN Terminate("cancelled")
     ELSE IF "timeout" \in wanted THEN Terminate("timed out")
     ELSE /\ MoveTo(IF mode = "jsonl" THEN "drain" ELSE "poll")
          /\ UNCHANGED <<groupVars, lineVars>>

(* One received line.  An error of the reader ends the call at once; a     *)
(* line over the limit, or that the callback refuses, ends it after the    *)
(* group, which is dead already when the child has exited.                 *)
Receive(next) ==
  /\ channel # <<>>
  /\ \/ /\ Head(channel) = 0
        /\ Return("unreadable") /\ UNCHANGED <<groupVars, lineVars>>
     \/ /\ Head(channel) # 0
        /\ IF next = "exited" THEN Return("refused") /\ UNCHANGED <<groupVars, lineVars>>
                              ELSE Terminate("refused")
     \/ /\ Head(channel) # 0 /\ Len(delivered) < OutputLimit
        /\ delivered' = Append(delivered, Head(channel))
        /\ channel' = Tail(channel)
        /\ MoveTo(next)
        /\ UNCHANGED <<groupVars, output, written, reader, truncated>>

Drain ==
  /\ Supervising("drain")
  /\ \/ Receive("drain")
     \/ channel = <<>> /\ MoveTo("poll") /\ UNCHANGED <<groupVars, lineVars>>

(* try_wait: when the child has exited, one of the two functions kills     *)
(* its group.  The call may also fail.                                     *)
Poll ==
  /\ Supervising("poll")
  /\ \/ /\ "child" \in alive
        /\ MoveTo(IF mode = "jsonl" THEN "wait" ELSE "check")
        /\ UNCHANGED <<groupVars, lineVars>>
     \/ /\ "child" \notin alive
        /\ IF mode = "jsonl" THEN KillGroup ELSE UNCHANGED groupVars
        /\ MoveTo("exited") /\ UNCHANGED lineVars
     \/ Terminate("unmonitored")

(* recv_timeout: the next line, or none within 40 ms.                      *)
WaitLine ==
  /\ Supervising("wait")
  /\ \/ Receive("check")
     \/ MoveTo("check") /\ UNCHANGED <<groupVars, lineVars>>

(* Mutant of LastLines: the reader is not joined before the last lines.    *)
LastLinesAtOnce ==
  /\ Supervising("exited")
  /\ \/ Receive("exited")
     \/ /\ channel = <<>>
        /\ Return("output") /\ UNCHANGED <<groupVars, lineVars>>

(* After the exit: the reader is joined, its last lines are processed.     *)
(* The reader of the second function, or of the error output of the first, *)
(* may have failed.                                                        *)
LastLines ==
  /\ Supervising("exited") /\ reader # "reading"
  /\ \/ Receive("exited")
     \/ /\ channel = <<>> /\ reader = "ended"
        /\ Return("output") /\ UNCHANGED <<groupVars, lineVars>>
     \/ /\ channel = <<>> /\ (mode = "jsonl" \/ reader = "failed")
        /\ Return("unreadable") /\ UNCHANGED <<groupVars, lineVars>>

GroupNext ==
  \/ Fork \/ LeaveGroup \/ WriteLine
  \/ \E process \in {"child", "helper"} : Redirect(process) \/ Die(process)
SupervisorNext == CheckWanted \/ Drain \/ Poll \/ WaitLine \/ LastLines \/ JoinReader

ProcessNext ==
  \/ GroupNext \/ Want("cancel") \/ Want("timeout")
  \/ ReadLine \/ ReadFails \/ ReadEnd
  \/ SupervisorNext

ProcessSpec == ProcessInit /\ [][ProcessNext]_processVars

-----------------------------------------------------------------------------
(* What a call leaves behind, however it ends and whatever its processes   *)
(* do meanwhile.  A call that was stopped leaves no process of the group.  *)
(* One that returns an output has all of it, in order and once, or says    *)
(* that the limit cut it, and nobody can add to it: in the first function  *)
(* no process of the group is left, in the second only what gave up the    *)
(* output.  (A call that ends with a line it could not read is excepted:   *)
(* ai_worker.rs:1353 and 1377 return without a kill.)                      *)
CallsLeaveNothing ==
  /\ outcome \in Stops => alive \cap group = {}
  /\ outcome = "output" =>
       /\ mode = "jsonl" => alive \cap group = {}
       /\ piped = {} /\ output = <<>>
       /\ delivered = [i \in 1..(IF truncated THEN OutputLimit ELSE written) |-> i]
       /\ truncated => mode = "monitored" /\ OutputLimit < written
=============================================================================
