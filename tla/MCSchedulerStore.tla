-------------------------- MODULE MCSchedulerStore --------------------------
(* Small instances of SchedulerStore for TLC. *)
EXTENDS SchedulerLifecycle, FiniteSets, TLC

CONSTANTS s1, s2, s3, o1, o2, c1, b1, r1, r2

(* An agent run of a card, its continuation under a new run, a chat turn of *)
(* the same conversation.                                                   *)
AgentRun == [kind |-> "agent", conversation |-> c1, subject |-> b1, run |-> r1]
AgentRerun == [AgentRun EXCEPT !.run = r2]
ChatTurn == [kind |-> "chat", conversation |-> c1, subject |-> Null, run |-> Null]

(* An edit of the card, and a session without a versioned envelope.         *)
EditTask == [kind |-> "edit", conversation |-> Null, subject |-> b1, run |-> Null]
LegacyTask == [kind |-> "legacy", conversation |-> Null, subject |-> Null,
               run |-> Null]

AgentRequests == {AgentRun, AgentRerun}
MixedRequests == {AgentRun, ChatTurn, EditTask}
PlainRequests == {LegacyTask, EditTask}
PoolRequests == MixedRequests \cup PlainRequests

SessionSymmetry == Permutations(Sessions)
Symmetry == SessionSymmetry \cup Permutations(Owners)

(* Two sessions of any kind under one owner through their attempts, or     *)
(* three sessions of no conversation at their first attempt under two.     *)
Here == {s \in Sessions : session[s] # NoSession}
Claimers == {attempt[s][n].owner : s \in Sessions, n \in Attempts} \ {Null}
PairOrPool ==
  \/ /\ Cardinality(Here) <= 2
     /\ Cardinality(Claimers) <= 1
     /\ \A s \in Here : session[s].request \in MixedRequests \cup {Null}
  \/ \A s \in Here :
       /\ session[s].request \in PlainRequests \cup {Null}
       /\ session[s].attempts <= 1 /\ session[s].runtime = Null
=============================================================================
