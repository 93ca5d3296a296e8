------------------------- MODULE MCExecutionEngine -------------------------
(* Small instances of ExecutionEngine for TLC. *)
EXTENDS ExecutionEngine, TLC

CONSTANTS s1, s2, c1, c2, b1

Chat(c) == [kind |-> "chat", conversation |-> c, subject |-> Null, run |-> Null]
ChatTurns == {Chat(c1)}
TwoTurns == {Chat(c1), Chat(c2)}

Answer == <<"output", <<"succeeded", "none">>>>
Failure == <<"plain", <<"failed", "other">>>>
AnswerOnly == {Answer}
AnswerOrFailure == {Answer, Failure}

(* One session through all its attempts and restarts of the engine, or two *)
(* sessions at their first attempt under one owner.                        *)
OneLongOrTwoShort ==
  \/ session[s2] = NoSession
  \/ /\ Cardinality(registered) <= 1
     /\ \A s \in Sessions :
          session[s].attempts <= 1 /\ session[s].runtime = Null /\ session[s].error = "none"
     /\ \A w \in Workers : \A i \in DOMAIN finished[w] : finished[w][i][2] # Failure
=============================================================================
